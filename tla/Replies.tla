------------------------------- MODULE Replies -------------------------------
(***************************************************************************)
(* What the Router Lambda (lambda/router/index.py) does for one message    *)
(* around its turn, in one container: the photo of a Telegram message, the *)
(* payload, the credentials for the reply with Feishu's cached token, and   *)
(* sending it.  The platform delivers a message again when it is not       *)
(* answered with 200 in time, to this container or to another.             *)
(* Verification is module Webhook, the turn and its history module Router, *)
(* the parts of a long answer module Chunks.                               *)
(***************************************************************************)
EXTENDS Naturals

CONSTANTS
  CacheTime,     \* age up to which a tenant token is reused, in ticks
  TokenLife,     \* ticks for which Feishu takes a token
  MaxDeliveries  \* bound: messages and repetitions

ASSUME RepliesAssumption ==
  CacheTime \in Nat /\ TokenLife \in Nat /\ 0 < CacheTime /\ CacheTime < TokenLife
  /\ MaxDeliveries \in Nat

ReplyPlatforms == {"telegram", "slack", "discord", "feishu"}
\* No text at all, white space, a text.
ReplyTexts == {"empty", "blank", "text"}
NoToken == [value |-> "none", age |-> 0]

VARIABLES
  step,        \* "free", "photo", "turn", "credentials", "send", "over", "again"
  platform,    \* where the message is from
  photo,       \* it has a photo besides its text
  images,      \* the key in the payload, 0 if none
  uploads,     \* keys under uploads/
  result,      \* what the turn gave
  secrets,     \* platforms whose secrets are in _secrets_cache
  tenantToken, \* the tenant token in _secrets_cache
  carried,     \* the token the reply carries
  deliveries,  \* deliveries so far
  caller,      \* "waits" for the answer to the last delivery, or is "gone": the platform
  fetched,     \* history: this delivery asked Feishu for a token
  seen,        \* history: answers to this message the user has got
  excuses      \* history: executions cut off or late, and calls made a second time
               \* of which both arrived, for this message

messageVars == <<platform, photo, caller, seen, excuses>>
tokenVars == <<secrets, tenantToken, carried, fetched>>
replyVars == <<step, messageVars, images, uploads, result, tokenVars, deliveries>>

RepliesInit ==
  /\ step = "free" /\ platform = "slack" /\ photo = FALSE
  /\ images = 0 /\ uploads = {} /\ result = "empty"
  /\ secrets = {} /\ tenantToken = NoToken /\ carried = NoToken
  /\ deliveries = 0 /\ fetched = FALSE /\ seen = 0 /\ caller = "waits" /\ excuses = 0
-----------------------------------------------------------------------------
Enters ==
  /\ deliveries < MaxDeliveries /\ deliveries' = deliveries + 1
  /\ step' = IF platform' = "telegram" THEN "photo" ELSE "turn"
  /\ images' = 0 /\ fetched' = FALSE /\ carried' = NoToken
  /\ UNCHANGED <<uploads, result, secrets, tenantToken>>

\* A message was admitted.
NewMessage ==
  /\ step \in {"free", "over", "again"}
  /\ platform' \in ReplyPlatforms /\ photo' \in BOOLEAN
  /\ photo' => platform' = "telegram"
  /\ caller' = "waits" /\ seen' = 0 /\ excuses' = 0 /\ Enters

\* The time of the platform for an answer is over before the execution is.  Lambda
\* may start a Discord follow-up a second time.
TooSlow ==
  /\ step \notin {"free", "over", "again"} /\ caller = "waits"
  /\ caller' = "gone" /\ excuses' = excuses + 1
  /\ UNCHANGED <<step, platform, photo, seen, images, uploads, result, tokenVars, deliveries>>

\* The platform, or for Discord Lambda, delivers it again, to this container when
\* it is free.
Redeliver ==
  /\ step = "again" \/ (step = "over" /\ caller = "gone")
  /\ caller' = "waits" /\ UNCHANGED <<platform, photo, seen, excuses>> /\ Enters

\* What n answers are for the user: Discord's is one message, which is edited.
SeenWith(n) == IF platform = "discord" THEN IF n = 0 THEN seen ELSE 1 ELSE seen + n

\* The calls for one answer arrive so often: Telegram is asked a second time, for
\* plain text, when the first call failed, which may have arrived.
Arrivals == IF platform = "telegram" THEN 0..2 ELSE 0..1
Twice(n) == IF n = 2 THEN 1 ELSE 0

\* Another container, with caches of its own, takes the repeated message while this
\* one may still work on it, and does the same.  It has the message delivered once
\* more after a 500, with nothing sent; or when it is cut off or late itself.
RedeliverElsewhere ==
  /\ step = "again" \/ (caller = "gone" /\ step # "free")
  /\ deliveries < MaxDeliveries /\ deliveries' = deliveries + 1
  /\ step' = IF step = "again" THEN "over" ELSE step
  /\ \E n \in Arrivals :
       /\ seen' = SeenWith(n) /\ caller' \in {"waits", "gone"}
       /\ excuses' = excuses + Twice(n) + IF caller' = "gone" /\ n # 0 THEN 1 ELSE 0
  /\ UNCHANGED <<platform, photo, images, uploads, result, tokenVars>>

\* The handler of a webhook returns: a 500 is a reason to deliver it again.
HandlerReturns(status) == step' = IF status = 500 THEN "again" ELSE "over"

\* Mutant: a put that failed is reported all the same.
DownloadAlways ==
  /\ step = "photo" /\ step' = "turn"
  /\ images' = IF photo THEN deliveries ELSE 0
  /\ uploads' \in {uploads} \union (IF photo THEN {uploads \union {deliveries}} ELSE {})
  /\ UNCHANGED <<messageVars, result, tokenVars, deliveries>>

\* _download_telegram_photos: any failure is "no image", also one of a put that
\* was carried out.
DownloadPhotos ==
  /\ step = "photo" /\ step' = "turn"
  /\ \/ images' = 0 /\ UNCHANGED uploads
     \/ photo /\ images' = 0 /\ uploads' = uploads \union {deliveries}
     \/ photo /\ images' = deliveries /\ uploads' = uploads \union {deliveries}
  /\ UNCHANGED <<messageVars, result, tokenVars, deliveries>>

\* The turn of a webhook, with its payload; an exception is a 500.
RunTurn ==
  /\ step = "turn" /\ platform # "discord"
  /\ \/ result' \in ReplyTexts /\ step' = "credentials"
     \/ HandlerReturns(500) /\ UNCHANGED result
  /\ UNCHANGED <<messageVars, images, uploads, tokenVars, deliveries>>

\* That of a Discord follow-up.  Its 500 is a result like any other for Lambda; the
\* edit needs no more than the token of the interaction.
RunFollowUp ==
  /\ step = "turn" /\ platform = "discord"
  /\ \/ result' \in ReplyTexts /\ step' = "send"
     \/ step' = "over" /\ UNCHANGED result
  /\ UNCHANGED <<messageVars, images, uploads, tokenVars, deliveries>>

\* An empty answer is not sent.
NothingToSend ==
  /\ step = "credentials" /\ result = "empty" /\ HandlerReturns(200)
  /\ UNCHANGED <<messageVars, images, uploads, result, tokenVars, deliveries>>

\* _get_secret raises: the reply is not sent.
SecretFails ==
  /\ step = "credentials" /\ result # "empty"
  /\ platform \notin secrets
  /\ HandlerReturns(500)
  /\ UNCHANGED <<messageVars, images, uploads, result, tokenVars, deliveries>>

\* The token of a bot is a secret.
TakeSecret ==
  /\ step = "credentials" /\ result # "empty" /\ platform # "feishu"
  /\ step' = "send" /\ secrets' = secrets \union {platform}
  /\ UNCHANGED <<messageVars, images, uploads, result, tenantToken, carried, fetched,
                 deliveries>>

\* Mutant: the age of the token is not looked at.
ReusableForEver == tenantToken.value = "token"

\* An empty token counts as none.
Reusable == tenantToken.value = "token" /\ tenantToken.age < CacheTime

TakeCachedToken ==
  /\ step = "credentials" /\ result # "empty" /\ platform = "feishu"
  /\ Reusable
  /\ step' = "send" /\ carried' = tenantToken
  /\ UNCHANGED <<messageVars, images, uploads, result, secrets, tenantToken, fetched,
                 deliveries>>

\* _get_feishu_tenant_token: an answer without a token gives an empty one, which
\* is stored and carried; an exception is a 500.  A token is taken to be new, as
\* the comment at index.py:538 has it; the expire it comes with is not looked at.
FetchToken ==
  /\ step = "credentials" /\ result # "empty" /\ platform = "feishu"
  /\ ~Reusable
  /\ secrets' = secrets \union {"feishu"}
  /\ fetched' = TRUE
  /\ \/ \E value \in {"token", "empty"} :
          /\ tenantToken' = [value |-> value, age |-> 0] /\ carried' = tenantToken'
          /\ step' = "send"
     \/ HandlerReturns(500) /\ UNCHANGED <<tenantToken, carried>>
  /\ UNCHANGED <<messageVars, images, uploads, result, deliveries>>

\* The calls arrive, as often as they may, or not at all.
Calls(p, accepted) ==
  /\ step = "send" /\ platform = p
  /\ \E n \in IF accepted THEN Arrivals ELSE {0} :
       seen' = SeenWith(n) /\ excuses' = excuses + Twice(n)
  /\ UNCHANGED <<platform, photo, caller, images, uploads, result, tokenVars, deliveries>>

\* Mutant: an exception of the request leaves the handler.
SendOrRaise(p, accepted) ==
  Calls(p, accepted) /\ \E status \in {200, 500} : HandlerReturns(status)

\* An exception of a request, which may have arrived, is logged; an error told in a
\* 200 is not even looked at.
Sends(p, accepted) == Calls(p, accepted) /\ HandlerReturns(200)

\* No platform shows white space.
SendTelegram == Sends("telegram", result # "blank")
SendSlack == Sends("slack", result # "blank")

\* The first 2000 characters, or a notice in place of white space.
EditDiscord == Sends("discord", TRUE)

ReplyFeishu ==
  Sends("feishu", result # "blank" /\ carried.value = "token" /\ carried.age < TokenLife)
-----------------------------------------------------------------------------
\* Time passes.  Sending is over long before a tick of the cache.
Tick ==
  /\ step \in {"free", "over", "again"}
  /\ tenantToken.value # "none" /\ tenantToken.age < TokenLife
  /\ tenantToken' = [tenantToken EXCEPT !.age = @ + 1]
  /\ UNCHANGED <<step, messageVars, images, uploads, result, secrets, carried, fetched,
                 deliveries>>

\* The Lambda reaches its timeout, or the container is replaced between messages.
CutOff ==
  /\ step' = IF step \in {"free", "over", "again"} THEN step ELSE "again"
  /\ \E n \in IF step = "send" THEN Arrivals ELSE {0} :
       /\ seen' = SeenWith(n)
       /\ excuses' = excuses + Twice(n) + IF step' = step THEN 0 ELSE 1
  /\ secrets' = {} /\ tenantToken' = NoToken /\ carried' = NoToken /\ fetched' = FALSE
  /\ UNCHANGED <<platform, photo, caller, images, uploads, result, deliveries>>

RepliesNext ==
  \/ NewMessage \/ TooSlow \/ Redeliver \/ RedeliverElsewhere \/ DownloadPhotos
  \/ RunTurn \/ RunFollowUp
  \/ NothingToSend \/ SecretFails \/ TakeSecret \/ TakeCachedToken \/ FetchToken
  \/ SendTelegram \/ SendSlack \/ EditDiscord \/ ReplyFeishu \/ Tick \/ CutOff

RepliesSpec == RepliesInit /\ [][RepliesNext]_replyVars
-----------------------------------------------------------------------------
RepliesTypeOK ==
  /\ step \in {"free", "photo", "turn", "credentials", "send", "over", "again"}
  /\ platform \in ReplyPlatforms /\ result \in ReplyTexts /\ secrets \subseteq ReplyPlatforms
  /\ {tenantToken.value, carried.value} \subseteq {"none", "empty", "token"}
  /\ {tenantToken.age, carried.age} \subseteq 0..TokenLife
  /\ images \in 0..MaxDeliveries /\ uploads \subseteq 1..MaxDeliveries
  /\ caller \in {"waits", "gone"}

\* A user gets at most one answer more for each execution that was cut off or outlasted the
\* platform's patience, and for each call to Telegram that failed although it had
\* arrived (index.py:198-210), and no other: whatever the handler answers with 500,
\* and so has delivered again, has sent nothing yet (:84-86, 539-545).  A Discord
\* user gets one at most, whatever happens (:431).
AnsweredOnce ==
  /\ seen <= 1 + excuses
  /\ platform = "discord" => seen <= 1

\* The reply to Feishu carries a token Feishu still takes, or one it has just
\* refused to give: neither an expired token nor an empty one outlives the message
\* it was fetched for (index.py:541).
TokenIsGood ==
  step = "send" /\ platform = "feishu" =>
    IF carried.value = "empty" THEN fetched
    ELSE carried.value = "token" /\ carried.age < TokenLife

\* The agent is told of an image only when it lies in the bucket (index.py:171-174).
ImagesAreStored == images # 0 => images \in uploads

\* What the Lambda passes on from an earlier step is there when it is used: the
\* image by the agent, the token by Feishu.
PassedOnHolds == TokenIsGood /\ ImagesAreStored
=============================================================================
