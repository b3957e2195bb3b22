------------------------------- MODULE Router -------------------------------
(***************************************************************************)
(* The routing layer: concurrent requests (Router.Chat and                 *)
(* Router.ChatStream), each of which takes a snapshot of the routes of its *)
(* model, orders them, and pays attempts: select a key of the channel that *)
(* is not cooling down (Manager.SelectKey), call the upstream, cool the    *)
(* key on 429/401 and take another one, change channel on 5xx and network  *)
(* errors, give up on any other error and on any error after output.       *)
(* Every database statement and every upstream call is a step of its own   *)
(* (with the clock reading next to it), so the requests interleave with    *)
(* each other, with the clock, with clients that hang up and with the      *)
(* administration pages.                                                   *)
(***************************************************************************)
EXTENDS Integers, Sequences, FiniteSets

CONSTANTS
    Req,            \* the requests; each process handles one
    Model,          \* the model names a client may ask for
    Redirect,       \* [Model -> Model], model_redirects of the configuration
    Channel,        \* the channels
    Row,            \* the rows of table models, numbered in channel-id order
    ChannelOf,      \* [Row -> Channel]
    Serves,         \* [Row -> SUBSET Model], the name and the alias of a row
    NoSystem,       \* the rows whose capabilities lack "system"
    Unsupported,    \* the channels whose type has no upstream adapter
    RoundRobin,     \* TRUE when load_balance is round_robin, FALSE for random
    RoundRobinKeys, \* the channels whose balance_strategy is round_robin
    InitKeys,       \* a sequence of channels: key i belongs to InitKeys[i]
    BadEntry,       \* the entries whose stored text cannot be decrypted
    Cooldown,       \* key_cooldown_seconds, in ticks of the clock
    MaxTime,        \* bound: the last tick of the clock
    MaxEdits        \* bound: the number of edits made by administrators

ASSUME RouterAssumption ==
    /\ Redirect \in [Model -> Model]
    /\ Row \subseteq Nat /\ IsFiniteSet(Row)
    /\ ChannelOf \in [Row -> Channel]
    /\ Serves \in [Row -> SUBSET Model]
    /\ NoSystem \subseteq Row
    /\ Unsupported \subseteq Channel
    /\ RoundRobin \in BOOLEAN
    /\ RoundRobinKeys \subseteq Channel
    /\ InitKeys \in Seq(Channel)
    /\ BadEntry \subseteq Nat
    /\ Cooldown \in Nat \ {0}
    /\ MaxTime \in Nat /\ MaxEdits \in Nat

VARIABLES
    routable,    \* rows with models.enabled = 1 and channels.status = 'active'
    keyTab,      \* table channel_keys, a set of key rows
    nextEntry,   \* the number of the next row an INSERT adds to channel_keys
    replacing,   \* a ReplaceChannelKeys in flight: its channel, its inserts left
    edits,       \* administrator edits made so far
    now,         \* the clock
    rr,          \* Router.rr, requests per model
    keyRR,       \* Manager.rr, key selections per channel
    \* The goroutine of each request, functions on Req:
    pc, ask,         \* where it is; the request: model name and streaming flag
    routes, order,   \* the snapshot of the routes; channelOrder's permutation
    pos, attempts,   \* index in seq, from 1; attempts paid
    channel, err,    \* lastChannelID; lastErr, then the error returned
    keys, key,       \* SelectKey's snapshot of the keys; the key in use
    body,            \* the message slice shared by every prepared copy
    emitted, gone,   \* emitted of ChatStream; the client has hung up
    \* History, never read by the code:
    sources,         \* the attempts whose output reached the client
    rested,          \* the cooldowns this request has recorded
    hist             \* the attempts that have ended, in order

dbVars == <<routable, keyTab, nextEntry, replacing, edits>>
rrVars == <<rr, keyRR>>
planVars == <<ask, routes, order>>
loopVars == <<pc, pos, err, keys, key, hist>>
tryVars == <<attempts, channel>>
outVars == <<emitted, sources>>
reqVars == <<planVars, loopVars, tryVars, outVars, body, gone, rested>>
vars == <<dbVars, now, rrVars, reqVars>>

-----------------------------------------------------------------------------
(* Database rows, and what a request remembers. *)

\* entry numbers the INSERTs, which ids do not: SQLite gives the id of a deleted
\* row out again.  The key's text is left out, for nothing compares texts: one
\* that was entered before, in this channel or another, is a new entry.
KeyRow == [id : Nat, chan : Channel, entry : Nat, until : Nat]

\* The key in use, and what the call made with it sends: the client's own
\* messages, or a slice that the fold of an earlier attempt has rewritten.
NoKey == [id |-> 0, entry |-> 0, sent |-> "intact"]

\* How an attempt ends; "local" is an error that is not an upstream.Error.
Outcome == {"ok", "nokey", "unsupported", "keyfail", "retry", "fatal", "local"}

\* The position of x in S, sorted: ORDER BY id, counted from 0.
Rank(S, x) == Cardinality({y \in S : y < x})

\* Every order in which the elements of S can be tried.
Orders(S) ==
    {f \in [1..Cardinality(S) -> S] : \A i, j \in DOMAIN f : f[i] = f[j] => i = j}

\* channelOrder under round_robin: the sorted rows, from the start-th on.
Rotation(S, start, f) ==
    \A i \in DOMAIN f : Rank(S, f[i]) = (start + i - 1) % Cardinality(S)

\* seq is the order twice; this is seq[pos].
SeqAt(p) ==
    IF pos[p] <= Len(order[p]) THEN order[p][pos[p]] ELSE order[p][pos[p] - Len(order[p])]

\* Mutant: two attempts per route, without the ceiling of four.
MaxAttemptsUncapped(p) == 2 * Len(order[p])

MaxAttempts(p) == IF 2 * Len(order[p]) > 4 THEN 4 ELSE 2 * Len(order[p])

\* Mutant: the sequence of channels ends one too early.
ExhaustedEarly(p) == attempts[p] >= MaxAttempts(p) \/ pos[p] >= Len(order[p])

\* Neither loop has another round: the last error is returned.
Exhausted(p) == attempts[p] >= MaxAttempts(p) \/ pos[p] > 2 * Len(order[p])

-----------------------------------------------------------------------------
(* The ends of an attempt: each changes loopVars and nothing else. *)

EndAttempt(p, k, outcome) ==
    /\ err' = [err EXCEPT ![p] = outcome]
    /\ keys' = [keys EXCEPT ![p] = {}]
    /\ hist' = [hist EXCEPT ![p] = Append(@, [row |-> SeqAt(p), turn |-> pos[p],
                                              sent |-> k.sent, outcome |-> outcome])]

\* Mutant: the index of the sequence is not advanced.
NextRouteStays(p, outcome) ==
    /\ EndAttempt(p, key[p], outcome)
    /\ pc' = [pc EXCEPT ![p] = "attempt"]
    /\ key' = [key EXCEPT ![p] = NoKey]
    /\ UNCHANGED pos

\* break keyLoop: the next channel of the sequence, if any.
NextRoute(p, outcome) ==
    /\ EndAttempt(p, key[p], outcome)
    /\ pc' = [pc EXCEPT ![p] = "attempt"]
    /\ pos' = [pos EXCEPT ![p] = @ + 1]
    /\ key' = [key EXCEPT ![p] = NoKey]

\* return from within an attempt.
Return(p, k, outcome) ==
    /\ EndAttempt(p, k, outcome)
    /\ pc' = [pc EXCEPT ![p] = "done"]
    /\ key' = [key EXCEPT ![p] = NoKey]
    /\ UNCHANGED pos

\* return outside an attempt.
Refuse(p, why) ==
    /\ pc' = [pc EXCEPT ![p] = "done"]
    /\ err' = [err EXCEPT ![p] = why]
    /\ UNCHANGED <<pos, keys, key, hist>>

Goto(p, label) ==
    /\ pc' = [pc EXCEPT ![p] = label]
    /\ UNCHANGED <<pos, err, hist>>
-----------------------------------------------------------------------------
Init ==
    /\ routable \in SUBSET Row
    /\ keyTab = {[id |-> i, chan |-> InitKeys[i], entry |-> i, until |-> 0] :
                    i \in DOMAIN InitKeys}
    /\ nextEntry = Len(InitKeys) + 1
    /\ replacing = <<>>
    /\ edits = 0
    /\ now = 1
    /\ rr = [m \in Model |-> 0]
    /\ keyRR = [c \in Channel |-> 0]
    /\ pc = [p \in Req |-> "idle"]
    /\ ask = [p \in Req |-> [model |-> "none", stream |-> "no"]]
    /\ routes = [p \in Req |-> {}]
    /\ order = [p \in Req |-> <<>>]
    /\ pos = [p \in Req |-> 1]
    /\ attempts = [p \in Req |-> 0]
    /\ channel = [p \in Req |-> "none"]
    /\ err = [p \in Req |-> "notfound"]
    /\ keys = [p \in Req |-> {}]
    /\ key = [p \in Req |-> NoKey]
    /\ body = [p \in Req |-> "intact"]
    /\ emitted = [p \in Req |-> FALSE]
    /\ gone = [p \in Req |-> FALSE]
    /\ sources = [p \in Req |-> {}]
    /\ rested = [p \in Req |-> {}]
    /\ hist = [p \in Req |-> <<>>]

\* A client's request arrives, streaming or not; applyRedirect.
Accept(p) ==
    /\ pc[p] = "idle"
    /\ Goto(p, "resolve")
    /\ \E m \in Model, s \in {"yes", "no"} :
          ask' = [ask EXCEPT ![p] = [model |-> Redirect[m], stream |-> s]]
    /\ UNCHANGED <<dbVars, now, rrVars, routes, order, keys, key, tryVars,
                   outVars, body, gone, rested>>

\* ListChannelsByModel: one query; it fails when the context is cancelled.
ListRoutes(p) ==
    LET found == {row \in routable : ask[p].model \in Serves[row]} IN
    /\ pc[p] = "resolve"
    /\ \/ gone[p] /\ Refuse(p, "local") /\ UNCHANGED routes
       \/ ~gone[p] /\ found = {} /\ Refuse(p, "notfound") /\ UNCHANGED routes
       \/ /\ ~gone[p] /\ found # {}
          /\ Goto(p, "order") /\ UNCHANGED <<keys, key>>
          /\ routes' = [routes EXCEPT ![p] = found]
    /\ UNCHANGED <<dbVars, now, rrVars, ask, order, tryVars, outVars, body, gone, rested>>

\* Mutant: the round-robin counter is read and never incremented.
ChannelOrderStuck(p) ==
    /\ pc[p] = "order"
    /\ Goto(p, "attempt")
    /\ \E f \in Orders(routes[p]) :
          /\ RoundRobin => Rotation(routes[p], rr[ask[p].model], f)
          /\ order' = [order EXCEPT ![p] = f]
    /\ UNCHANGED <<dbVars, now, rrVars, ask, routes, keys, key, tryVars,
                   outVars, body, gone, rested>>

\* channelOrder: under rrMu for round_robin, a shuffle otherwise.
ChannelOrder(p) ==
    /\ pc[p] = "order"
    /\ Goto(p, "attempt")
    /\ \E f \in Orders(routes[p]) :
          /\ RoundRobin => Rotation(routes[p], rr[ask[p].model], f)
          /\ order' = [order EXCEPT ![p] = f]
    /\ rr' = IF RoundRobin THEN [rr EXCEPT ![ask[p].model] = @ + 1] ELSE rr
    /\ UNCHANGED <<dbVars, now, keyRR, ask, routes, keys, key, tryVars,
                   outVars, body, gone, rested>>

\* The loops are over: lastErr is returned.
GiveUp(p) ==
    /\ pc[p] = "attempt"
    /\ Exhausted(p)
    /\ Refuse(p, err[p])
    /\ UNCHANGED <<dbVars, now, rrVars, planVars, tryVars, outVars, body, gone, rested>>

\* Mutant: lastChannelID is set only once SelectKey has succeeded.
ListKeysUnlogged(p) ==
    LET c == ChannelOf[SeqAt(p)]
        ks == {k \in keyTab : k.chan = c}
    IN
    /\ pc[p] = "attempt"
    /\ ~Exhausted(p)
    /\ attempts' = [attempts EXCEPT ![p] = @ + 1]
    /\ \/ (gone[p] \/ ks = {}) /\ NextRoute(p, "nokey") /\ UNCHANGED channel
       \/ /\ ~gone[p] /\ ks # {}
          /\ Goto(p, "pick") /\ UNCHANGED key
          /\ channel' = [channel EXCEPT ![p] = c]
          /\ keys' = [keys EXCEPT ![p] = ks]
    /\ UNCHANGED <<dbVars, now, rrVars, planVars, outVars, body, gone, rested>>

\* attempts++, then the first half of SelectKey: ListChannelKeys.
ListKeys(p) ==
    LET c == ChannelOf[SeqAt(p)]
        ks == {k \in keyTab : k.chan = c}
    IN
    /\ pc[p] = "attempt"
    /\ ~Exhausted(p)
    /\ attempts' = [attempts EXCEPT ![p] = @ + 1]
    /\ channel' = [channel EXCEPT ![p] = c]
    /\ \/ (gone[p] \/ ks = {}) /\ NextRoute(p, "nokey")
       \/ /\ ~gone[p] /\ ks # {}
          /\ Goto(p, "pick") /\ UNCHANGED key
          /\ keys' = [keys EXCEPT ![p] = ks]
    /\ UNCHANGED <<dbVars, now, rrVars, planVars, outVars, body, gone, rested>>

\* The keys of the snapshot that are not cooling at the time of the pick.
Avail(p) == {k \in keys[p] : k.until < now}

\* The second half of SelectKey finds every key cooling.
AllCooling(p) ==
    /\ pc[p] = "pick"
    /\ Avail(p) = {}
    /\ NextRoute(p, "nokey")
    /\ UNCHANGED <<dbVars, now, rrVars, planVars, tryVars, outVars, body, gone, rested>>

\* What follows the pick of k: it is decrypted, the adapter is looked up, and
\* prepareReq folds the system messages, in place, into the message slice that
\* all copies share when the row lacks "system".
UseKey(p, k) ==
    LET used == [id |-> k.id, entry |-> k.entry, sent |-> body[p]] IN
    \/ k.entry \in BadEntry /\ NextRoute(p, "nokey") /\ UNCHANGED body
    \/ /\ k.entry \notin BadEntry /\ channel[p] \in Unsupported
       /\ Return(p, used, "unsupported") /\ UNCHANGED body
    \/ /\ k.entry \notin BadEntry /\ channel[p] \notin Unsupported
       /\ Goto(p, "calling")
       /\ keys' = [keys EXCEPT ![p] = {}]
       /\ key' = [key EXCEPT ![p] = used]
       /\ body' = IF SeqAt(p) \in NoSystem THEN [body EXCEPT ![p] = "rewritten"] ELSE body

\* The second half of SelectKey: any available key, or the next in turn.
PickKey(p) ==
    LET c == channel[p]
        ids == {k.id : k \in Avail(p)}
    IN
    /\ pc[p] = "pick"
    /\ \E k \in Avail(p) :
          /\ c \in RoundRobinKeys => Rank(ids, k.id) = keyRR[c] % Cardinality(ids)
          /\ UseKey(p, k)
    /\ keyRR' = IF c \in RoundRobinKeys THEN [keyRR EXCEPT ![c] = @ + 1] ELSE keyRR
    /\ UNCHANGED <<dbVars, now, rr, planVars, tryVars, outVars, gone, rested>>
-----------------------------------------------------------------------------
(* The upstream call.  An HTTP client with a timeout makes it end. *)

Delivered(p) == sources' = [sources EXCEPT ![p] = @ \cup {attempts[p]}]

\* emitWrapped: an event of a 2xx stream goes to the client.
Emit(p) ==
    /\ pc[p] = "calling" /\ ask[p].stream = "yes"
    /\ emitted' = [emitted EXCEPT ![p] = TRUE]
    /\ Delivered(p)
    /\ UNCHANGED <<dbVars, now, rrVars, planVars, loopVars, tryVars, body, gone, rested>>

\* The stream writer refuses an event, or writes to a client that hung up: not
\* an upstream.Error, returned.
EmitFails(p) ==
    /\ pc[p] = "calling" /\ ask[p].stream = "yes"
    /\ emitted' = [emitted EXCEPT ![p] = TRUE]
    /\ Return(p, key[p], "local")
    /\ UNCHANGED <<dbVars, now, rrVars, planVars, tryVars, sources, body, gone, rested>>

\* 2xx to the end: the client gets the response, or the end of its stream.
AnswerOK(p) ==
    /\ pc[p] = "calling"
    /\ Return(p, key[p], "ok")
    /\ Delivered(p)
    /\ UNCHANGED <<dbVars, now, rrVars, planVars, tryVars, emitted, body, gone, rested>>

\* 429 or 401, a status that comes before any event: the key has failed.
AnswerKeyFailed(p) ==
    /\ pc[p] = "calling" /\ ~emitted[p]
    /\ EndAttempt(p, key[p], "keyfail")
    /\ pc' = [pc EXCEPT ![p] = "marking"]
    /\ UNCHANGED <<dbVars, now, rrVars, planVars, pos, key, tryVars, outVars,
                   body, gone, rested>>

\* Mutant: a broken stream is tried again although it has begun.
AnswerRetryableAlways(p) ==
    /\ pc[p] = "calling"
    /\ NextRoute(p, "retry")
    /\ UNCHANGED <<dbVars, now, rrVars, planVars, tryVars, outVars, body, gone, rested>>

\* 5xx, a network error, an unreadable answer, or a stream cut short.
AnswerRetryable(p) ==
    /\ pc[p] = "calling"
    /\ \/ emitted[p] /\ Return(p, key[p], "retry")
       \/ ~emitted[p] /\ NextRoute(p, "retry")
    /\ UNCHANGED <<dbVars, now, rrVars, planVars, tryVars, outVars, body, gone, rested>>

\* Another 4xx, or an event of the stream that cannot be parsed.
AnswerFatal(p) ==
    /\ pc[p] = "calling"
    /\ Return(p, key[p], "fatal")
    /\ UNCHANGED <<dbVars, now, rrVars, planVars, tryVars, outVars, body, gone, rested>>

\* Mutant: the cooldown is noted, and never stored.
MarkKeyFailedUnstored(p) ==
    LET until == now + Cooldown IN
    /\ pc[p] = "marking"
    /\ Goto(p, "attempt")
    /\ key' = [key EXCEPT ![p] = NoKey]
    /\ rested' = [rested EXCEPT ![p] = @ \cup {[entry |-> key[p].entry, until |-> until]}]
    /\ UNCHANGED <<dbVars, now, rrVars, planVars, keys, tryVars, outVars, body, gone>>

\* Mutant: the cooldown must be stored before the loop goes on.
MarkKeyFailedWaits(p) ==
    LET until == now + Cooldown IN
    /\ pc[p] = "marking" /\ ~gone[p]
    /\ Goto(p, "attempt")
    /\ key' = [key EXCEPT ![p] = NoKey]
    /\ keyTab' = {IF k.id = key[p].id THEN [k EXCEPT !.until = until] ELSE k : k \in keyTab}
    /\ UNCHANGED <<routable, nextEntry, replacing, edits, now, rrVars, planVars,
                   keys, tryVars, outVars, body, gone, rested>>

\* MarkKeyFailed: UPDATE by id; its error (a cancelled context) is ignored.
MarkKeyFailed(p) ==
    LET until == now + Cooldown IN
    /\ pc[p] = "marking"
    /\ Goto(p, "attempt")
    /\ key' = [key EXCEPT ![p] = NoKey]
    /\ IF gone[p]
       THEN UNCHANGED <<keyTab, rested>>
       ELSE /\ keyTab' = {IF k.id = key[p].id THEN [k EXCEPT !.until = until] ELSE k :
                             k \in keyTab}
            /\ rested' = [rested EXCEPT ![p] =
                             @ \cup {[entry |-> key[p].entry, until |-> until]}]
    /\ UNCHANGED <<routable, nextEntry, replacing, edits, now, rrVars, planVars,
                   keys, tryVars, outVars, body, gone>>
-----------------------------------------------------------------------------
(* The environment. *)

\* The client hangs up: the context of its request is cancelled.
ClientGone(p) ==
    /\ pc[p] \notin {"idle", "done"} /\ ~gone[p]
    /\ gone' = [gone EXCEPT ![p] = TRUE]
    /\ UNCHANGED <<dbVars, now, rrVars, planVars, loopVars, tryVars, outVars, body, rested>>

Tick ==
    /\ now < MaxTime
    /\ now' = now + 1
    /\ UNCHANGED <<dbVars, rrVars, reqVars>>

\* A model is switched on or off, or its channel changes status.
Reroute ==
    /\ edits < MaxEdits
    /\ edits' = edits + 1
    /\ \E row \in Row :
          routable' = IF row \in routable THEN routable \ {row} ELSE routable \cup {row}
    /\ UNCHANGED <<keyTab, nextEntry, replacing, now, rrVars, reqVars>>

\* ReplaceChannelKeys, first statement: the channel's keys are deleted.
DeleteKeys ==
    /\ edits < MaxEdits /\ replacing = <<>>
    /\ edits' = edits + 1
    /\ \E c \in Channel, n \in 1..2 :
          /\ keyTab' = {k \in keyTab : k.chan # c}
          /\ replacing' = <<c, n>>
    /\ UNCHANGED <<routable, nextEntry, now, rrVars, reqVars>>

\* Mutant: one key too many is inserted.
InsertKeyBeyond ==
    /\ replacing # <<>>
    /\ \E id \in 1..nextEntry :
          /\ \A k \in keyTab : k.id < id
          /\ id = 1 \/ \E k \in keyTab : k.id = id - 1
          /\ keyTab' = keyTab \cup {[id |-> id, chan |-> replacing[1],
                                     entry |-> nextEntry, until |-> 0]}
    /\ nextEntry' = nextEntry + 1
    /\ replacing' = IF replacing[2] = 0 THEN <<>> ELSE <<replacing[1], replacing[2] - 1>>
    /\ UNCHANGED <<routable, edits, now, rrVars, reqVars>>

\* ReplaceChannelKeys, one AddChannelKey, of a text that is new or was there
\* before: SQLite takes the largest rowid + 1, and cooldown_until is NULL.
InsertKey ==
    /\ replacing # <<>>
    /\ \E id \in 1..nextEntry :
          /\ \A k \in keyTab : k.id < id
          /\ id = 1 \/ \E k \in keyTab : k.id = id - 1
          /\ keyTab' = keyTab \cup {[id |-> id, chan |-> replacing[1],
                                     entry |-> nextEntry, until |-> 0]}
    /\ nextEntry' = nextEntry + 1
    /\ replacing' = IF replacing[2] = 1 THEN <<>> ELSE <<replacing[1], replacing[2] - 1>>
    /\ UNCHANGED <<routable, edits, now, rrVars, reqVars>>
-----------------------------------------------------------------------------
\* What the goroutine of request p does once it has been started.
Progress(p) ==
    \/ ListRoutes(p) \/ ChannelOrder(p)
    \/ GiveUp(p) \/ ListKeys(p) \/ AllCooling(p) \/ PickKey(p)
    \/ AnswerOK(p) \/ AnswerKeyFailed(p) \/ AnswerRetryable(p) \/ AnswerFatal(p)
    \/ EmitFails(p) \/ MarkKeyFailed(p)

\* Every request has been answered: the only state the system may rest in.
Quiet == (\A p \in Req : pc[p] = "done") /\ UNCHANGED vars

Next ==
    \/ \E p \in Req : Accept(p) \/ Progress(p) \/ Emit(p) \/ ClientGone(p)
    \/ Tick \/ Reroute \/ DeleteKeys \/ InsertKey
    \/ Quiet

Spec == Init /\ [][Next]_vars

FairSpec == Spec /\ \A p \in Req : WF_vars(Progress(p))
-----------------------------------------------------------------------------
(* Correctness. *)

Label == {"idle", "resolve", "order", "attempt", "pick", "calling", "marking", "done"}
Attempt == [row : Row, turn : Nat, sent : {"intact", "rewritten"}, outcome : Outcome]
KeyInUse == [id : Nat, entry : Nat, sent : {"intact", "rewritten"}]

\* The variables hold values of their types.
TypeOK ==
    /\ routable \subseteq Row
    /\ keyTab \subseteq KeyRow
    /\ nextEntry \in Nat
    /\ replacing \in {<<>>} \cup (Channel \X {1, 2})
    /\ edits \in 0..MaxEdits
    /\ now \in Nat
    /\ rr \in [Model -> Nat]
    /\ keyRR \in [Channel -> Nat]
    /\ pc \in [Req -> Label]
    /\ ask \in [Req -> [model : Model \cup {"none"}, stream : {"yes", "no"}]]
    /\ routes \in [Req -> SUBSET Row]
    /\ order \in [Req -> Seq(Row)]
    /\ pos \in [Req -> Nat \ {0}]
    /\ attempts \in [Req -> Nat]
    /\ channel \in [Req -> Channel \cup {"none"}]
    /\ err \in [Req -> Outcome \cup {"notfound"}]
    /\ keys \in [Req -> SUBSET KeyRow]
    /\ key \in [Req -> KeyInUse]
    /\ body \in [Req -> {"intact", "rewritten"}]
    /\ emitted \in [Req -> BOOLEAN]
    /\ gone \in [Req -> BOOLEAN]
    /\ sources \in [Req -> SUBSET Nat]
    /\ rested \in [Req -> SUBSET [entry : Nat, until : Nat]]
    /\ hist \in [Req -> Seq(Attempt)]

\* All that a client has received came out of one attempt, the last one: no
\* retry follows output, so no client sees repeated or mixed data
\* (the emitted flag of ChatStream).
SingleSource == \A p \in Req : \A a \in sources[p] : a = attempts[p]

\* The attempts with which request p comes to a route, not to its next key.
Visits(p, row) ==
    {i \in DOMAIN hist[p] : /\ hist[p][i].row = row
                            /\ i = 1 \/ hist[p][i - 1].outcome # "keyfail"}

\* The guard against avalanches: a request costs at most four attempts, key
\* rotations and empty channels included, two when it has one route, and it
\* comes to no route more than twice.  The attempts of one visit have no bound
\* of their own: 429/401 may spend all four on the keys of the first route,
\* where the comment of maxAttempts says two for each channel.
AttemptsBounded ==
    \A p \in Req : /\ Len(hist[p]) <= attempts[p]
                   /\ attempts[p] <= 4
                   /\ attempts[p] <= 2 * Len(order[p])
                   /\ \A row \in routes[p] : Cardinality(Visits(p, row)) <= 2

\* What follows a failed attempt: another key of the same route after 429/401,
\* another route (when there is one) after a retryable error or for want of a
\* key, and nothing after success, a fatal error or a local one.
RetryDiscipline ==
    \A p \in Req : \A i \in 1..(Len(hist[p]) - 1) :
       LET a == hist[p][i]
           b == hist[p][i + 1]
       IN  /\ a.outcome \in {"keyfail", "retry", "nokey"}
           /\ a.outcome = "keyfail" => b.row = a.row
           /\ a.outcome # "keyfail" /\ Len(order[p]) > 1 => b.row # a.row

\* The answer a client gets, and the channel the request log names, are those
\* of the last attempt; a success is never reported for a failed attempt.
OutcomeReported ==
    \A p \in Req :
       LET last == hist[p][Len(hist[p])] IN
       pc[p] = "done" /\ attempts[p] > 0 =>
          /\ hist[p] # <<>>
          /\ err[p] = last.outcome
          /\ channel[p] = ChannelOf[last.row]

\* Failover is complete: a request that met no 429/401 and still failed for
\* retryable reasons has been through every one of its routes, or through four.
FailoverCoversRoutes ==
    \A p \in Req :
       LET met == {hist[p][i].row : i \in DOMAIN hist[p]}
           outcomes == {hist[p][i].outcome : i \in DOMAIN hist[p]}
       IN  /\ pc[p] = "done" /\ ~emitted[p]
           /\ err[p] \in {"retry", "nokey"} /\ "keyfail" \notin outcomes
           => met = routes[p] \/ Cardinality(met) >= 4

StartsCall(p) == pc[p] # "calling" /\ pc'[p] = "calling"

\* An entry of channel_keys that answered this request with 429/401, and whose
\* cooldown was recorded, is not called again by it before the cooldown is over.
\* It is the entry that rests, not the text: a text that an administrator saves
\* again (ReplaceChannelKeys deletes the row and inserts another without
\* cooldown), or that two rows hold, may be called at once.
FailedKeyRests ==
    [][\A p \in Req : StartsCall(p) =>
          \A e \in rested[p] : e.entry = key'[p].entry => e.until < now]_vars

\* round_robin spreads the load: as long as the requests of a model see the
\* same routes, no route is the first choice of two requests more than another.
StartsBalanced ==
    \A m \in Model :
       LET ordered == {p \in Req : order[p] # <<>> /\ ask[p].model = m}
           starts(row) == Cardinality({p \in ordered : order[p][1] = row})
       IN  (\A p, q \in ordered : routes[p] = routes[q]) =>
              \A p \in ordered : \A a, b \in routes[p] : starts(a) - starts(b) <= 1

\* Every request is answered, however its attempts fail and however the others
\* and the clock are scheduled.
RequestsEnd == \A p \in Req : pc[p] # "idle" ~> pc[p] = "done"

\* The dispatch promise, seen through the state of the goroutines.
Phase(p) ==
    IF pc[p] \in {"idle", "done"} THEN pc[p]
    ELSE IF emitted[p] THEN "answering" ELSE "pending"

Verdict(p) ==
    IF pc[p] # "done" THEN "none" ELSE IF err[p] = "ok" THEN "ok" ELSE "error"

D == INSTANCE Dispatch WITH
        TryBound <- 4,
        phase <- [p \in Req |-> Phase(p)],
        tries <- attempts,
        verdict <- [p \in Req |-> Verdict(p)]

\* Router implements Dispatch.
ImplementsDispatch == D!DispatchSpec
-----------------------------------------------------------------------------
(* What the repository says and the code does not do. *)

\* prepareReq "copies the request": each upstream is sent what the client
\* asked, whatever was prepared for the channels tried before it.
RequestCopied ==
    \A p \in Req : \A i \in DOMAIN hist[p] : hist[p][i].sent = "intact"
=============================================================================
