# Verification of the API gateway

TLA+ models of the gateway in this repository (Go, `internal/...`), checked
with TLC on small instances, with theorems proved by TLAPS for every value of
the constants. `PROJECT.json` lists, for each definition that models code, the
lines it stands for, and for each run its properties.

## 1. The system

A client sends a chat request in one of three protocols (OpenAI chat,
OpenAI responses, Anthropic messages). The gateway authenticates the token,
checks the model whitelist, looks in the response cache, and hands the request
to the **router**, which picks one of the *channels* (upstream accounts) that
offer the model, picks one of the channel's API keys, calls the upstream and
fails over when the call fails. Everything persistent is in SQLite, behind a
single connection (`SetMaxOpenConns(1)`): a statement is atomic, a sequence of
statements is not, since only the import uses a transaction.

| Component (source) | State | Operations | Interacts with | Hard behaviour | What makes it correct |
|---|---|---|---|---|---|
| router (`internal/router`) | `rr`, per request: routes, sequence, attempts, lastErr, lastChannelID, emitted | Chat, ChatStream | store (routes), channel manager (keys), upstream adapters, the emit callback of the API | failover, shared attempt budget, retries against streaming, shared counters, shared slices | bounded attempts; no retry after output; the right reaction to each error class; complete failover; honest result; every request ends |
| key selection (`internal/channel/manager.go`, `internal/store/channels.go`) | table `channel_keys`, `Manager.rr` | SelectKey, MarkKeyFailed, ReplaceChannelKeys | router, health checker, probes, admin pages | selection from a snapshot, cooldown by row id, replacement in several statements | a failed key rests; no other key does |
| upstream adapters (`internal/upstream`) | none (an HTTP client with a timeout) | Chat, ChatStream | upstream servers | errors before and during a stream | each failure is classified as retryable or not |
| health checker (`internal/channel/health.go`) | `failCount` | CheckOnce, ping | channels table, SelectKey | long round on a stale list | `down` only after N failures; recovery; hands off disabled channels |
| probes (`internal/channel/manager.go`, `detect.go`) | `probes` map | StartProbe, ProbeChannel, StartCapabilitiesProbe, ProbeCapabilitiesOnly | channels, models, upstream | one probe per channel, stale write-back, deletion in the middle | exclusive, terminates, does not undo edits |
| model library (`internal/store/models.go`) | table `models` | SyncModels, SetModelEnabled, OverrideCapabilities, ListChannelsByModel | probes, router | a series of statements | the library is the upstream's list; overrides survive |
| channel administration (`internal/web/channels.go`) | table `channels` | create, update, toggle, resync, delete | probes, health checker | read-modify-write handlers | no lost status, no half deletion |
| stream codecs (`internal/protocol`) | parser and writer state | Feed, WriteEvent, WriteError, Finish | adapters, API | partial and interleaved events | well-formed event sequences, every block closed once |
| request folding (`protocol.FoldSystemIntoUser`) | slices of the request | fold | router | aliasing over retries | what is sent is what was asked |
| request and answer codecs (`internal/protocol`) | none | parsers of the three entries, serializers for both upstreams, and back | API, adapters | the client posts the whole history each turn, and each turn may go to another protocol | what was said survives every combination of conversions |
| API pipeline (`internal/api`), auth (`internal/auth`) | none | handle, handleNonStream, handleStream, APIAuth | all of the above | a token revoked or edited during a request, asynchronous log | only granted requests are served, only others refused; one log record |
| response cache (`internal/cache`) | `items` | Get, Set | API | expiry, capacity, key contents | only the token's own answers, never an expired one |
| tokens (`internal/store/tokens.go`, `internal/web`) | table `tokens` | create, copy, whitelist, toggle, revoke | auth, cache | ids given out again, statements cut by each other | each token has its user |
| users, first start (`internal/web/users.go`, `cmd/server/main.go`) | table `users` | login, create, role, delete, ensureAdmin | sessions | concurrent administrators, restarts | an administrator remains |
| export/import (`internal/store/export.go`) | all tables | ExportAll, ImportAll | admin pages | reads without a transaction | what is exported can be imported |

Configuration, encryption, rendering and the log queries keep no state a
behaviour depends on; section 6 and `PROJECT.json` say why they are left out.

## 2. Modules

| Module | What it is |
|---|---|
| `Dispatch` | abstract specification: what the router promises for one conversation |
| `Router` | the router with key selection, cooldowns, clients that hang up, the clock and the administrators' edits |
| `MCRouter` | its instances for TLC |
| `Router_proofs` | its theorems |
| `Channels` | the life of a channel: administration handlers, probes with `SyncModels`, health checker |
| `MCChannels` | its instances for TLC |
| `Channels_proofs` | its theorems |
| `Streams` | one streamed answer: parser of the upstream, `emit`, writer of the entry, `handleStream` |
| `MCStreams` | its instances for TLC |
| `Streams_proofs` | its theorems about endings |
| `StreamsContent_proofs` | its theorems about what is written before them |
| `Codecs` | the conversions of whole requests and answers, as operators; no state |
| `Conversation` | a client's conversation over several turns through `Codecs` |
| `MCConversation` | its instance for TLC |
| `Codecs_proofs` | lemmas about sequences of any length, which the next module rests on |
| `Conversation_proofs` | its theorems |
| `Access` | requests with their token, the response cache, the request log, and the administration of tokens and users around them |
| `MCAccess` | its instance for TLC |
| `Access_proofs` | its theorems |
| `Accounts` | users, sessions, starts and stops, user administration, export and import |
| `MCAccounts` | its instance for TLC |
| `Accounts_proofs` | its theorems |

`Router` and `Channels` meet in the tables: what `Channels` does to `channels`,
`channel_keys` and `models` is in `Router` the environment's `Reroute`,
`DeleteKeys` and `InsertKey`. Each keeps of the rows only what its own code reads.
`Router` and `Streams` meet in `emit`: what is an output in `Router` is in
`Streams` an event written to the client, and the router's choice of another
attempt is there `Retry`. `Access` calls the router in one step with any outcome
(`Complete`, `SerializeFails`, `StreamEnds`, `Fail`). `Access` and `Accounts` share the tables of users and
tokens: `Access` has what a request can notice of their administration, `Accounts` who may
do it.

### Router

One process per request. The labels of `pc` are the points between two
database statements or network events of `Router.Chat` / `Router.ChatStream`:

| Label | Next step | Code |
|---|---|---|
| `idle` | `Accept` | the handler calls Chat or ChatStream; `applyRedirect` |
| `resolve` | `ListRoutes` | `ListChannelsByModel`, one query |
| `order` | `ChannelOrder` | `channelOrder`: shuffle, or rotation under `rrMu` |
| `attempt` | `ListKeys`, `GiveUp` | the heads of the two loops, `attempts++`, `ListChannelKeys`; or the loops are over and `lastErr` is returned |
| `pick` | `PickKey`, `AllCooling` | rest of `SelectKey` (time, filter, choice, decryption), then type check and `prepareReq` |
| `calling` | `Emit`, `EmitFails`, `AnswerOK`, `AnswerKeyFailed`, `AnswerRetryable`, `AnswerFatal` | the adapter's call and the router's reaction |
| `marking` | `MarkKeyFailed` | `time.Now` and `UPDATE channel_keys` |
| `done` | – | returned |

Environment: `ClientGone` cancels the request's context (queries then fail, and
`MarkKeyFailed` is silently lost), `Tick` moves the clock, `Reroute` changes
`models.enabled` or `channels.status`, `DeleteKeys` and `InsertKey` are the
statements of `ReplaceChannelKeys`, with row ids chosen as SQLite chooses them
for an `INTEGER PRIMARY KEY` without `AUTOINCREMENT`.

Data kept abstract: a row of `models` is a number, in the order of its
channel's id, with the set of names it answers to; a key is the number of its
entry (`entry`): each `AddChannelKey` makes a new one, without a cooldown, whether
the text is new or was in the table before, and those of `BadEntry` cannot be
decrypted. So entries tell rows apart, not texts; the router never compares texts. The messages of a request are "intact" or "rewritten" by
`FoldSystemIntoUser`. The latter takes every request to have one system message
and one user message of a single text part, the case in which the fold writes
through both shared slices. `sources`, `rested` and `hist` (each attempt's row,
place in the sequence and outcome) are history: no guard reads them.

Simplifications: `MarkKeyFailed` reads the clock and writes in one step; a
statement fails only when its context is cancelled; the calls of `SelectKey`
made by the health checker and the probes, which only advance `keyRR`, are left out.

Definitions that begin with the comment "Mutant" are not part of the
specification. Each is a version of the definition after it with a plausible
bug, and shows that the properties are able to fail.

### Dispatch

State per request: `phase` (idle, pending, answering, done), `tries`,
`verdict`. A request is admitted, tried at most `TryBound` times and only while
its client has seen nothing, and concluded once, with success only if it was
tried. The refinement mapping at the end of `Router` reads `phase` off `pc` and
`emitted`, `tries` off `attempts` and `verdict` off `err`.

### Channels

Three kinds of processes share the tables `chan`, `withKey`, `models` and the
map `probes` (`Manager.probes` under `Manager.mu`). Each label is a point
between two statements, upstream calls or critical sections.

| Process | Labels, in order | Code |
|---|---|---|
| health checker (`hpc`, one) | `idle` → `next` → (`models` →) `ping` → `down` or `restore` → `next` … `idle` | `CheckOnce`, `ping`, `pingAnthropic`; `seen` is the list read at the start, `left` the rest of the loop |
| probe (`job`, one record per goroutine) | full: `queued`, `key`, (`detect`, `save`,) `fetch`; capabilities: `queued`, `key`, `list`; then `check` with `update` or `insert` per model, `clean`, `report`; or `failing` | `ProbeChannel`, `ProbeCapabilitiesOnly`, `Store.SyncModels`, the closures in `StartProbe` and `StartCapabilitiesProbe` |
| handler (`req`, one record per request in progress) | create: `create`, `addkey`, `probe`; edit: `get`, `edit`, (`dropkeys`, `addkey`,) (`probe`); toggle: `get`, `toggle`; delete: `delkeys`, `delmodels`, `delchannel`; resync and capabilities: `probe` | `web/channels.go` |

What is read early and written late is in the records: `seen` of the checker,
`ch` of a probe, `was` of a handler. Environment: `Flip` (the upstreams stop or
start to answer).

Data kept abstract: a channel's row is its type, its `base_url` (`addr`) and its
status; name, weight and strategy are read and written together with these and
left out. A channel has keys or not (`withKey`); a form that brings several keys
inserts them in one step. `up` says whether an upstream call with an enabled
model and a key that is not cooling succeeds; models are all enabled in
`Channels`, and capability values are left out. A detection finds any type, a
model list is any set of names, and `ProbeFails` stands for every error of a
probe (refused call, failed statement, `ProbeTimeout`); `Abandon` for a handler
whose statement fails or whose client is gone. The statements of the checker
do not fail: their context is cancelled only at shutdown, and an error is logged
and the round goes on. Foreign keys are enforced and row ids chosen
as in the database (`_pragma=foreign_keys`, `INTEGER PRIMARY KEY`). `streak`
(losses in a row by id) and `wiped` are history.

### Streams

Two choices are made at the start, the protocol of the upstream (`from`, anew at
each attempt) and that of the client (`to`); the rest is one goroutine and the
upstream that feeds it.

| Phase | Next step | Code |
|---|---|---|
| `reading` | `OpenAIDelta`, `OpenAIFinish`, `OpenAIDone`; `MessageBegin`, `BlockStart`, `BlockDelta`, `BlockStop`, `MessageDelta`, `MessageStop` | the upstream sends a chunk and the adapter's loop has the parser `Feed` on it; the events go into `queue` |
| `reading` | `EndOfStream`, `Retry`, `RouteError`, `BreakOff` | the loop ends: without an error (`Finish`), or with one, before or after the first event |
| `emitting` | `Emit`, `EmitFails` | `emit` of the next event: `handleStream` sets the status and calls `WriteEvent` |
| `failed` | `ReportError` | `WriteError` |
| `returned` | – | `handleStream` has returned |

`parser` holds `toolStarted` or `toolBlocks` and the cached reason and usage,
`writer` the fields of the three writers (`seq` is `blockSeq` or
`itemSeq`, `text` is `textBlock` or `msgItemID`, `tools` is `toolBlocks` or
`callItemIDs`, `open` is `openBlocks`). `WriteEvent` is a function from the
writer and an event to the writer afterwards, what it wrote, and whether it
returned an error.

Data kept abstract: a piece of text or of a tool call's arguments is its number
in the order the upstream sent it, and `src.sent` says what it belongs to. What
a client can be sent is something that begins, goes on or ends (`Open`, `Delta`,
`Close`), the start of a message, or an ending; so
`content_block_start`, `response.output_item.added` and the first fragment of an
OpenAI tool call are all `Open`. Usage is the set of the counts that are told, of
`prompt`, `completion` and `total` (a count of 0 is one that is not told, as in the code). An Anthropic
upstream may tell counts in `message_start` (`MessageBegin`), which the parser does not read, and in
`message_delta`, never a total; `src.start` and `src.usage` keep both.
Texts, names, identifiers, `output_index` and flushing are left out.

What the upstream may send follows its protocol: an Anthropic upstream has one
block open at a time, an OpenAI upstream mixes text and fragments of tool calls as it
likes; each gives its numbers in ascending order. A chunk with several choices, or
with fragments of several calls, or with content and a finish reason, is a
succession of chunks here, since `Feed` handles its parts one after the
other. Chunks without content and `ping` produce nothing and are left out, as are content
blocks that are neither text nor tool calls, whose deltas the parser drops. What
is written after the client has hung up is not in `out`, and `EmitFails` may come
at any later event.

### Codecs and Conversation

`Codecs` has an operator for each conversion, named as in the code:

| Operators | Code |
|---|---|
| `ParseOpenAIChatRequest`, `ParseAnthropicMessagesRequest`, `ParseResponsesRequest`, `ParseEntry` | an entry's request into IR |
| `FoldSystemIntoUser` | `ir.go` |
| `SerializeOpenAIChatRequest`, `SerializeAnthropicMessagesRequest`, `Serialize` | IR into an upstream's request |
| `ParseOpenAIChatResponse`, `ParseAnthropicMessagesResponse` | an upstream's answer into IR |
| `SerializeOpenAIChatResponse`, `SerializeAnthropicMessagesResponse`, `SerializeResponsesResponse` | IR into the client's answer |
| `NormalizeToolChoice`, `NormalizeAnthropicToolChoice` | `tool_choice` in its dialects |

`Conversation` composes them over the turns of a client, which keeps the history in its
own protocol and posts all of it each turn: `Compose` writes the turn and answers the open
tool calls, `Forward` is one attempt (parse, fold where the model has no system
messages, serialize for either kind of upstream), `Answer` brings the answer back into the
client's history, `Refuse` is a parser's error. The reference is `story`: what was
said, fact by fact, written without the conversions. `Facts` reads the facts of a
message in each protocol. A `tool_result` in an Anthropic message is a result under the role "user", as
the protocol has it, and under "tool" too, as the gateway sends it; which of the two a request has is
said apart, by `ResultsUnderTool` in `StoryTold`.

Data kept abstract: a text is a sequence of pieces, so that joining is
concatenation (separators are left out); a content that is a JSON string is the list of its one
text part; a call's identifier stands for its name too; arguments are an object, or text that is not
an object, or absent. What the client is, and that its content is never an empty list, is the environment's.
Definitions of tools, sampling parameters, usage and identifiers of answers are left out: they
are copied or dropped field by field and no step depends on them.

### Access

| Process | Labels, in order | Code |
|---|---|---|
| request (`reqs`) | `idle` → `token` → `user` → `handle` → `upstream` → `done` | `APIAuth` (`LookupToken`, `LookupUser`), `handle` (`Refuse`, `LookCache`), `handleNonStream` and `handleStream` (`Complete`, `SerializeFails`, `StreamEnds`, `Fail`) |
| goroutine of the log (`pending`) | `WriteLog` | `logRequest`, `InsertRequestLog` |
| administrator (`adm`) | `insert`; `whitelist`; `toggle`; `delete_user` | the handlers that read a row and write it back in another statement, and `DeleteUser` after `DeleteTokensOf` |

A request keeps the row of its token as `APIAuth` read it (`token`), and what its client was sent: the HTTP status
(`status`), how the answer ended (`end`: `whole`, `broken` off within a stream, `garbled` when it could not be
serialised) and the cache entry it came `from`, if any. A log row has a status of its own: the
error of the router is mapped by `ErrorStatus` for the log and by `RouteErrorStatus` for the client, as in the
code (`errorStatus`, `writeRouteError`), and a stream that breaks off is logged as 0 after 200 was sent. `cache` is
`Cache.items`: an entry has its expiry, and for the properties its time, body and secret. The
rows of `tokens` have ids given out as SQLite does, so that the id of a revoked
token can be another token's. `Restart` loses cache, requests, handlers and
unwritten logs; `Tick` moves the clock.

Data kept abstract: a hash is its input; secrets are numbered as generated; a body is a
model value that names a model, or none that can be read (`Bad`), or has no messages
(`Empty`); answers are not represented, only whose and when. Names, groups and time of
last use of tokens are left out. `seen` is history: at each moment since a request
came, whether its token existed, was enabled and had the model.

### Accounts

Each browser has a session cookie and at most one request in progress (`handler`), whose labels are the points
between two statements: `create`, `role`; `whoami`, `delete_tokens`, `delete_user`;
`owner`, `insert_token`; `users` … `keys` of an export; `import`. `AdminOnly` is the middleware, which
looks up the user of the cookie and then lets the handler run. `Stop` and `Start` are the process, `Start` with
`ensureAdmin`; sessions survive if a `session_secret` is configured. `WriteLibrary` stands for the
channel pages and the probes: it adds and deletes channels with their keys and models.

An export (`draft`) reads the tables in the order of `ExportAll`, a statement each; `ImportAll`
deletes and inserts in its order within one transaction, and fails as a whole
where a row refers to one not yet there (`Inserted`).

Data kept abstract: of the tables only keys and references; passwords and secrets are left
out, so any browser can log in as any user. `quiet` and `kept` are history.

## 3. Properties and runs

Of `Router`:

| Property | Kind | Says |
|---|---|---|
| `TypeOK` | invariant | types |
| `SingleSource` | invariant | everything a client received came out of one attempt, the last |
| `AttemptsBounded` | invariant | at most four attempts, at most twice as many as there are routes, and none ends that was not paid for; no route is come to more than twice (though one visit may use up all attempts on its keys) |
| `RetryDiscipline` | invariant | what follows a failure: same route after 429/401, another one after a retryable error or a missing key, nothing after anything else |
| `OutcomeReported` | invariant | the error returned and the channel logged are those of the last attempt |
| `FailoverCoversRoutes` | invariant | without 429/401, a request that failed for retryable reasons has met all its routes, or four |
| `StartsBalanced` | invariant | round-robin gives no route more than one first turn more than another |
| `FailedKeyRests` | action property | a request does not call a row of `channel_keys` again whose cooldown it recorded before it is over (a row put in anew with the same text has no cooldown and may be called) |
| `ImplementsDispatch` | refinement | `Router` implements `Dispatch` |
| `RequestsEnd` | liveness | every request is answered |

Of `Channels`:

| Property | Kind | Says |
|---|---|---|
| `TypeOK` | invariant | types, with `failCount` at most the limit |
| `OneProbe` | invariant | one probe per channel id, and `Running` exactly while there is one |
| `StatusEarned` | invariant | `down` is written only after N losses in a row, `active` only after an answer |
| `NoOrphans` | invariant | no key and no model without its channel, however deletions, creations and probes cut each other |
| `SyncExact` | invariant | after a successful probe the library is the list it fetched |
| `ProbesEnd` | liveness | a probe ends, whatever happens to its channel |
| `DownRecovers` | liveness | a channel that can be pinged from some time on ends up `active` |

Of `Streams`:

| Property | Kind | Says |
|---|---|---|
| `TypeOK` | invariant | types |
| `OneEnding` | invariant | a client that stays gets one ending, last, or an error status and no stream |
| `HonestEnd` | invariant | an answer cut short before its final marker does not look complete |
| `NothingLost` | invariant | pieces arrive once each and in order, and a complete answer has them all |
| `Attributed` | invariant | each piece is written into the open block, item or call that was begun for what it belongs to |
| `AllClosed` | invariant | blocks are closed once each, items listed once each, both numbered without gaps |
| `FinishKept` | invariant | after a final marker, the client is told the upstream's reason in its protocol's words, and the counts of its usage that its protocol has, except those only in `message_start`; from an Anthropic upstream no total |

Of `Conversation`:

| Property | Kind | Says |
|---|---|---|
| `StoryTold` | invariant | an upstream is told the whole story, once, in order and by the right speakers, whatever protocols the turns went through; to Anthropic the results go under the role "tool" |
| `AnswerKept` | invariant | the client's history means what was said; the finish reason survives where the protocol has one |
| `ToolsPaired` | invariant | an OpenAI upstream gets the results of a message's calls right behind it (except for parallel calls of a Responses client) |
| `ChoiceUnderstood` | invariant | `tool_choice` reaches the upstream in a form it knows and demands the same (except Anthropic's "any") |

Of `Access`:

| Property | Kind | Says |
|---|---|---|
| `TypeOK` | invariant | types |
| `AnswersGranted` | invariant | a request is served only if its token was good for its model at some moment since it came |
| `RefusalsJustified` | invariant | a well-formed request is refused only if its token was not, at some moment since it came |
| `LogsTruthful` | invariant | at most one log row per request, with the status its client was sent, or 0 if the stream broke off, and `cache_hit` exactly for cache hits; none for a request refused or an answer that cannot be serialised |
| `CacheBound` | invariant | the cache stays within its limit |
| `CacheHonest` | action property | a cached answer was given to the same body, at most TTL ago, and not for another token that still exists |

Of `Accounts`:

| Property | Kind | Says |
|---|---|---|
| `StartRestores` | action property | after every start there is an administrator |
| `DeletionKeepsAdmin` | action property | nobody who still is an administrator deletes the last one |
| `ImportRestores` | action property | a file taken in quiet restores its database; any other is taken whole or not at all |

| Run | Instance | Shows | States |
|---|---|---|---|
| `router_failover` | 1 request, 5 routes on 4 channels, 6 keys | the failover logic on every order of routes and every sequence of outcomes | 490 000 |
| `router_race` | 2 requests, 2 channels, 3 keys, 2 clock ticks, both round-robins | the shared counters under every interleaving; the refinement | 2 600 000 |
| `router_live` | 1 request, 2 channels, 3 keys, 1 edit | the request among administrators, cooldowns across a replacement of keys, with the same or other texts; liveness | 101 000 |
| `router_prepare` | 2 channels, one without "system" | *violated*: see findings | |
| `channels_admin` | 2 ids, 2 models, 2 administrators, 2 probes, 3 requests, no checker | exclusion, deletion and synchronisation under every interleaving of statements | 755 000 |
| `channels_health` | 1 id of 3 types, 1 model, checker, 1 administrator, 1 probe, 2 requests, the upstream fails and recovers | marking and recovery, probes end | 594 000 |
| `channels_disabled` | as `channels_health`, 1 request | *violated*: see findings | |
| `streams_translate` | both upstreams, three entries, 3 numbers, 3 chunks with content, 2 attempts | translation of every answer up to that length, cut short or retried anywhere | 2 020 000 |
| `streams_blocks` | as `streams_translate` | *violated*: see findings | |
| `conversation_turns` | 3 entries, 2 upstreams, 2 turns of 4 kinds of content, an answer of up to 2 texts and 2 calls | every combination of conversions over a conversation | 174 000 |
| `access` | 2 requests, 2 administrators, 2 users, 2 token ids, 2 secrets, 2 bodies, a cache of 1 entry with TTL 1, 2 ticks, 2 operations | requests against the administration of tokens, cache and log under every interleaving | 2 880 000 |
| `accounts` | 2 browsers, 3 names, 3 user ids, 2 token ids, 1 channel, 6 operations | administrators against each other, stops, exports and imports | 896 000 |

Bounds. Five routes exceed the four attempts a request has, so both limits of
`MaxAttempts` and both exits of the loops occur. Two keys on a channel give key
rotation and exhaustion by cooldown; with `Cooldown = 1` and two ticks a key
cools down and comes back within one request. Two requests suffice for each race on the counters and on the keys, since
a step reads one shared item at a time. One edit replaces the keys of a channel
by one or two new rows, which is enough for an id to be reused, and for a key that was
just cooled to be put in again while the request goes on. `MaxTime`
and `MaxEdits` bound the clock and the edits; nothing else is cut off.

In `channels_admin` three requests give every pair of handlers together with
a probe that an earlier one started, and a creation that takes the id of a deleted channel;
two models make a synchronisation that is half done. One channel
suffices for the checker, which treats channels one after the other and shares
nothing between them; `MaxFailures = 2` is the least limit at which a count
can be wrong, and `MaxFlips = 2` lets the upstream go down and come back at any
point. A handler waits for a free goroutine record and for a free id at the
bounds `Goroutine` and `Id`; it can still be abandoned.

`Streams` keeps no state that depends on more than the last text block and the
blocks that are open, so three chunks with content reach each pattern: text
before, between and after tool calls, two calls mixed with each other, a block
that is closed and followed by another of its kind. A chunk can bring a piece
of text and one of a tool call, so an answer has up to six pieces. Two attempts show that nothing of the first
one's parser is left in the second.

In `conversation_turns` an answer between two turns is what brings each conversion of
answers in front of each conversion of requests; a third turn would repeat the second with
a longer history, which the conversions treat message by message. The contents have a
text, an image by reference or inline, two parts, and a part the gateway does not know.

In `access` one operation of an administrator between any two steps of a request, and a second one that
races with it or reuses the id it freed, cover the ways a row read by
`APIAuth` can be stale. One entry puts the cache at its limit with the first answer;
TTL 1 and two ticks let an entry expire and be replaced. The two bodies
name a model each; the instance has no malformed ones (`Bad`, `Empty`), which are refused where an unlisted model is and
reach neither cache nor upstream (the theorems hold with any). `accounts` needs two
browsers for two administrators that delete or demote each other, and six operations for two
requests of each with a stop or a change of channels between them; a third name and a third id
leave room for creations and for ids used again.

Fairness. `RequestsEnd` assumes weak fairness of each request's own steps
(`Progress`): a goroutine that can run is run by the Go scheduler, an upstream
call ends because `http.Client` has a timeout, and statements end. Emitting
(`Emit`), hanging up, the clock and the administrators are not assumed to make
progress. `ProbesEnd` and `DownRecovers` assume weak fairness of each probe
goroutine and of the checker (`CheckOnce`): its ticker starts round after round, its
pings and the probes' calls have a timeout, and a probe as a whole has
`ProbeTimeout`. Handlers and the upstream are not assumed to make progress.
Deadlock is checked in the runs of `Router`, `Channels` and `Streams`; `Quiet` lets the system
rest only when all requests are answered, all probes are over and the checker has nothing to
check. It is switched off in `conversation_turns`, `access` and `accounts`: conversations,
requests and operations are finite there, and when they are used up nothing is left to do.

Findings (each a run that TLC refutes, quoted in `PROJECT.json`):

- *The prepared request is not a copy.* The fold writes into the messages
  shared with the original; a retry sends the rewritten ones (`router_prepare`).
- *A disabled channel is enabled again.* The checker writes the status it
  concluded from the list of the round's start, a probe the status it read before
  detecting (`channels_disabled`).
- *Content blocks overlap.* With an OpenAI upstream, a second tool call or text after a
  tool call opens a block for an Anthropic client while the tool block before it is still
  open; `anthropic.go:345` says that blocks must follow one another (`streams_blocks`).

Seen on the way, by reading, and not runs of their own. Routing:

- `router.go:199` says that each channel has at most two attempts. The code bounds only their sum
  (`maxAttempts`): where there are two routes or more, the first may spend all four attempts on four
  keys (`router.go:110`). `AttemptsBounded` says what holds.
- `store/channels.go:143`: saving a channel's form with the same keys inserts them as new rows without a
  cooldown, so a request that just cooled a key may call the same text at once
  (the row, not the text, in `FailedKeyRests`).
- `router.go:110`: a channel whose keys all answer 429 uses up the four attempts;
  `REQUIREMENTS.md:158` promises the next channel. A channel's only key answering 429 gives
  the client "all keys cooling" (500) of the second attempt instead of the 429.
- `router.go:107` counts a key that cannot be decrypted among the errors returned at
  once, while `SelectKey` reports it and the next channel is tried.
- `manager.go:315`: the cooldown is written by row id, which may belong to a
  new key by then.

Channels:

- `manager.go:113`: the probe an edit asks for is dropped while one of the
  old address runs.
- `failCount` counts by id, so a channel that takes a deleted one's id
  before the next round takes over its failures.
- `GetStatus` returns a pointer into the map that the probes go on writing to.
- `SyncModels` deletes nothing when the upstream lists no models, although `models.go:34` says
  models not in the list are deleted; it also overwrites capabilities set by hand
  while `capability_override` keeps saying so.

Codecs:

- `anthropic.go:548` sends tool results to an Anthropic upstream with the role "tool";
  the comment at `:563` says "user" and `anthropic_test.go:314` announces it, though it checks only the
  block and not the role. `StoryTold` states the role the code sends (`ResultsUnderTool`).
- An Anthropic client's `tool_choice` "any" becomes "auto" for an OpenAI upstream.
- Parallel calls in a Responses history become an assistant message each, ahead of all
  results (the exception in `ToolsPaired`). Output of a `function_call_output` that is not a string and
  images in a `tool_result` are dropped; the status of an answer is always "completed".
- Arguments that are not an object become an empty object for an Anthropic upstream or client.
- In the streams: an error that an OpenAI upstream reports inside the stream is a chunk
  without choices for the parser, so the answer ends as if it were complete; without a
  final marker the finish reason is lost even if it came; in the Responses stream
  `output_index` of a delta is that of the last item begun, or 0 for arguments, and
  `response.completed` repeats tool calls with empty arguments. From an Anthropic
  upstream the counts of `message_start` are not read (`anthropic.go:793`; `Lost`) and `total_tokens` is 0
  (`:822`), while an answer that is not streamed has the sum (`:718`). `FinishKept` states both.

Access and accounts:

- `cache.go:44` says the key keeps tokens apart; it has the row's id, which a later token can have
  again (the exception in `CacheHonest`).
- `chat.go:199` logs a stream that breaks off with status 0 although its client was sent 200.
- An answer that cannot be serialised (`chat.go:143`) is a 500 without a log row, and requests refused before the
  router is called have none either, while `REQUIREMENTS.md:181` and the comment at `chat.go:203` say that each request is
  logged. `LogsTruthful` states what the rows are and which requests have none.
- `deleteUser` compares with the user of the cookie; when that account is gone, nothing is compared, and
  an id given out again can be deleted by its own request (`kept` in `DeletionKeepsAdmin`). A cookie of a
  deleted account is good for whoever gets its id.
- `createToken` reads the id of `currentUser` without a check that there is one.
- An export taken while a channel is deleted can have keys without their channel; its import
  fails as a whole.
- `ensureAdmin` fails, and with it every start, when no administrator is left and a plain user has the
  configured name. `StartRestores` is about starts that succeed.

## 4. Proofs

`Router_proofs` proves, for any set of requests, routes, keys, row ids and
edits and any clock, under `RouterAssumption` (the constants have their types;
the rows are finitely many):

- `TypeCorrect`: `Spec => []TypeOK`
- `OneSource`: `Spec => []SingleSource`
- `NoAvalanche`: `Spec => []AttemptsBounded`
- `Disciplined`: `Spec => []RetryDiscipline`
- `Honest`: `Spec => []OutcomeReported`
- `FailoverComplete`: `Spec => []FailoverCoversRoutes`
- `KeysRest`: `Spec => FailedKeyRests`
- `Balanced`: `Spec => []StartsBalanced` (for `RoundRobin`)
- `Implements`: `Spec => ImplementsDispatch`

The assumptions bound neither the routes, nor the keys of a channel, nor the edits. None of the first three
invariants is inductive: that an attempt's output is the last
attempt's needs that no label from which another attempt starts is reached once
`emitted` holds; that `attempts` stays within its bound needs that
the order is not empty inside the loops; and that an ended attempt was paid for
needs the difference between the labels before and after its end.
`LoopInv(p)` states these facts label by label, and `IInv` is `TypeOK` with
`LoopInv` of every request. `NextInv` has one lemma per action; the steps that
end an attempt share `NextRouteInv` and `ReturnInv`.
The other properties are carried along `IInv` by invariants of their own, each with a lemma per group
of actions and `OthersStay` for the requests that do not move. `VisitInv` (`NoAvalanche`) says that the place
in the sequence of every attempt has its row, and that an attempt which opens a visit is further on than
all before it; a row has two places in a sequence that is an order twice over, so two visits. `PathInv` (`Disciplined`, `Honest`) says of the last
attempt in `hist` that the row in turn may follow it, and that error and channel are its own, except between the
head of the loop and the end of the attempt; `NeighboursDiffer` is why the next position is
another route. `CoverInv` says that without a rotation of keys attempt `i` was made with
`seq[i]`; that a sequence without repetition then covers the routes, or four of them, is counting (`Covered`). `Rested` says
that a key of the table, or of a request's snapshot, is cooled at least as long as the request has
recorded; it needs that an entry keeps its row id as long as it is in the table (`TableInv`), that what is
inserted is a new entry, and that cooldowns only grow (`KeysAge`), which is why a row id that is given out again does
no harm here.
`BalanceInv` says that the counter of a model is the number of its requests that have an order, and, as long as
these saw the same `c` routes, how many of the `n` began with the row of rank `k`: `s`, where `c * s` is the first
multiple of `c` not below `n - k` (`Share`; `ShareNext` adds a request). Two such numbers differ by one at most
(`FairShares`).
For the refinement, `Invisible` and `Concludes` say when a step maps to a
stutter or to `Conclude`, `Simulates` is proved action by action, and `NotYetOK`
(no success is recorded before the end) is carried along.

`Channels_proofs` proves, for any ids, types, addresses, models, numbers of
administrators and probes and any limit of failures, under `ChannelsAssumption`,
that the five invariants hold: `ChannelsTypeCorrect`, `ProbesExclusive`,
`StatusesEarned`, `ChannelsOwnRows`, `LibraryIsFetchedList`. `IInv` adds to them what each
label knows. For the checker (`CountInv`), a channel about to be marked has
just lost or answered its ping, and a count is at most the history's. For a
probe (`SyncInv`, `JobInv`), the names already handled are in the library while a
synchronisation runs, unless a deletion came in; this is stable because `OneProbe` keeps every
other synchronisation of the channel away and a deletion sets `wiped`, which is
why the two invariants are proved together. For a handler (`ReqInv`), it has an id from the
point on where it uses one. `NoOrphans` needs only the foreign keys. The proof has
a lemma per action; `ProbeStep` and `HandlerStep` state once that a step of one process
leaves the facts of the others alone.

`Streams_proofs` proves, for any set of indices and any number of chunks and
attempts, under `StreamsAssumption`: `StreamsTypes` (`TypeOK`), `StreamsEndOnce`
(`OneEnding`) and `StreamsHonest` (`HonestEnd`). `OneEnding` is not inductive: whether the
next event may end the stream depends on `done` of the writer, and `out` alone
does not say whether an ending was sent to a client that hung up. `OutInv` relates
the two; `PhaseInv` says what the handler knows at each phase; `FinalInv` that a
`done` event is only queued behind a final marker. `WriteOK` is what each writer
guarantees of one event: at most one ending, as the last thing written, and only in
answer to `done`. It is proved for the three writers separately (`ChatOK`,
`WriteAnthropicOK`, `WriteResponsesOK`), and `Sent` carries it over to `out`; the upstream's
steps share `FeedStep`.

`StreamsContent_proofs` proves, under the same assumption, `StreamsLoseNothing` (`NothingLost`),
`StreamsAttribute` (`Attributed`), `StreamsCloseAll` (`AllClosed`) and `StreamsKeepFinish`
(`FinishKept`). `CInv` adds `Content` to `IInv`. `Good` is what a reader of the output so far can rely on, and needs,
to be kept by the next event: that the writer's books (which blocks, items and calls are
open, and with which number) agree with the output (`Book`); that a piece in the queue belongs to what the
upstream meant it for and that a call is begun before its pieces (`QueueFits`); that parser and writer
agree on which calls have begun (`ToolsKnown`); and that the pieces between the upstream and the client
are exactly those in the queue, in order (`InOrder`). `Ending` follows the finish reason and the usage from
the upstream to the final marker, with what an upstream of its protocol can say (`Says`: from Anthropic no
total, `UsagesOf`); `Whole` is what a completed answer consists of. Each of the three writers is
followed event by event, because one event may close a block, open another and write into it.

`Access_proofs` proves, for any requests, administrators, tokens, bodies and cache settings, under
`AccessAssumption`, all properties of the run (`TypeCorrect`, `GrantedAnswers`, `JustifiedRefusals`,
`TruthfulLogs`, `BoundedCache`, `HonestCache`) and that every token has its user
(`OwnersExist`). `IInv` adds to the types: secrets are given out once (`SecretsKnown`); tokens have
their users (`TokensOwned`), which is what makes a user who is not found a proof that
the token is gone; of a request (`RequestInv`), that the row it holds was once in the table with its
secret, and what `seen` has of it; of an entry of the cache (`EntryInv`), that its secret was once
behind its id and no other secret of that id exists with it; of the logs (`LogInv`), that they
belong to requests that are over, whose status and end no step changes any more. `Evolves` states once how rows may change under a request:
they are edited, deleted, or come with a new secret; `RequestStays` and `EntryStays` follow from it for
every action. `CacheBound` rests on lemmas about cardinality, since an insertion may first
drop what has expired.

`Accounts_proofs` proves, for any browsers, names, ids, channels and any consistent database at the start,
under `AccountsAssumption`: `AdminAtStart` (`StartRestores`), `AdminNotDeleted`
(`DeletionKeepsAdmin`), `ImportExact` (`ImportRestores`), and with them `TypeCorrect` and
`ReferencesKept`. `IInv` adds to types and references what a handler that deletes knows of itself
(`SelfInv`: its account is not the one it deletes as long as `kept`), what an
undisturbed export has read (`DraftInv`) and what a file taken in quiet is (`FileInv`).
`PrefixConsistent` is why the order of insertion satisfies the foreign keys at each step.

`Conversation_proofs` proves, for any contents of user messages, any number of answers and so
histories of any length, under `ConversationAssumption`, all properties of the run: `StoriesTold`
(`StoryTold`), `AnswersKept` (`AnswerKept`), `ToolsArePaired` (`ToolsPaired`) and
`ChoicesUnderstood` (`ChoiceUnderstood`). The last one is inductive by itself, by cases on the forms
clients write and the upstream they go to. The others need to know what the conversions make of
messages one by one and that they join:

- `Codecs_proofs` has the lemmas about `FlattenSeq` and mappings of sequences: what they are of a
  concatenation, of a single element, and of each other (`FlatConcat`, `FlatFused`, `FlatFlat`, `FlatAll`,
  `Around`). The library's induction takes a predicate as a parameter, which the provers cannot instantiate, so
  `Induct` and `SeqInduct` are induction over a set: what holds for `0` and is kept by `+ 1` is
  the whole of `Nat`. `FlattenSeq` is a fold, whose value for any sequence comes from its partial
  concatenations (`Partial`).
- `Readable` says of a list of messages or items that each is one a client of the entry writes, that
  the gateway reads it into messages of a known form (`Shaped`), and that these have the same
  facts. It holds of what `Compose` and `Answer` add (`ComposedTurn`, `AnswerFiled`), one lemma per
  protocol and kind of item, and of concatenations (`ReadableConcat`), so of the whole history.
- `SerializedUnderTool` says that in a request to Anthropic the results, and nothing else, are under "tool".
- `ToldUnfolded` and `ToldFolded` say what an upstream reads of any such list. Folding moves the instructions into a
  user's message and may drop messages, so only the order of the instructions and the order
  of everything else are compared; `FlatAround` splits the list at the message that is changed.

`StoryTold` is about `sent` alone and `AnswerKept` only of one state, so the inductive invariant `Kept` has
what connects them: the history is readable and tells the story (`History`), what is posted has a message
of the user or is refused (`Asking`; without such a message the fold leaves the system messages as they are),
`sent` is the conversion of the history to the upstream (`Posted`), and the reasons agree (`Reasoned`).
`ToolsPaired` is not inductive either, because calls and results come in different steps: `Matching` says that the
history would be paired if the results of the open calls followed it (`Owed`), with and without its
system messages, since the fold removes those. `OwedTurn` and `OwedAnswer` are the two steps that grow it. TLC
checked `Asking`, `Posted` and `Matching` on the instance of the run before they were proved.

Only model-checked: the liveness properties `RequestsEnd`, `ProbesEnd` and `DownRecovers`
(fairness and ENABLED are beyond the prover). Every invariant and action property of the passing runs has its theorem.

## 5. Plan

Done: `Dispatch`, `Router`, `Channels`, `Streams`, `Codecs` with `Conversation`, `Access` and `Accounts`,
each with its runs and proofs. What could still be added, in this order:

1. `FoldSystemIntoUser` on slices with shared backing arrays, refining the two-valued
   `body` of `Router`.
2. The handlers of the model library (`OverrideCapabilities`, `SetModelEnabled`, aliases)
   with the values of capabilities, in `Channels`.

## 6. Not modelled

- Configuration (`internal/config`): read once at the start; its values are the CONSTANTS.
- The cipher (`internal/crypto`): a secret decrypts or it does not.
- Pages, flash messages and the playground (`internal/web`): they render what queries return; the
  playground calls the router as the API does.
- Log queries and the deletion of old rows: single statements whose results no other step reads.
- Schema migration (`internal/store`): runs before anything else and changes no row the models have.
- HTTP, headers and the scanning of lines in `internal/upstream`: the models have the outcomes.
- Definitions of tools, sampling parameters, names and texts: copied, with no effect on control.
