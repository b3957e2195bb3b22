------------------------------- MODULE Access -------------------------------
(***************************************************************************)
(* Who may call what, and what is answered from the cache: requests of the *)
(* API with their token (APIAuth, handle, handleNonStream, handleStream),  *)
(* the response cache, the request log, and the administration of tokens.  *)
(* Every SQL statement is one step; the call of the router is one step     *)
(* with any outcome (Router has the inside of it).                         *)
(***************************************************************************)
EXTENDS Integers, FiniteSets

CONSTANTS
    Req, Admin,    \* requests, administrators
    User,          \* users at the start
    Id,            \* bound: row ids of tokens
    Secret,        \* bound: secrets of tokens, numbered as generated
    Model, Body,   \* models, request bodies
    ModelOf,       \* the model a body names
    Bad, Empty,    \* bodies without a readable model, or without messages
    InitTokens,    \* the tokens at the start, with the first secrets
    TTL, CacheMax, \* the cache's settings
    MaxTime, MaxOps          \* bounds: clock, administrative operations

None == [none |-> TRUE]

\* A row of tokens; allow_all is a whitelist of all models.
Token == [secret : Secret, user : User, models : SUBSET Model, enabled : BOOLEAN]
Key == Id \X Body
InitIssued == Cardinality({i \in Id : InitTokens[i] # None})
Entry == [exp : Nat, born : Nat, secret : Secret, body : Body]

ASSUME AccessAssumption ==
    /\ Id \subseteq Nat \ {0}
    /\ Secret \subseteq Nat \ {0} /\ \A s \in Secret : 1 .. s \subseteq Secret
    /\ IsFiniteSet(Key)
    /\ ModelOf \in [Body -> Model] /\ Bad \subseteq Body /\ Empty \subseteq Body
    /\ None \notin Token /\ InitTokens \in [Id -> Token \cup {None}]
    /\ InitIssued \in Nat /\ InitIssued \in Secret \cup {0}
    /\ \A i, j \in Id : InitTokens[i] # None /\ InitTokens[j] # None =>
          /\ InitTokens[i].secret <= InitIssued
          /\ InitTokens[i].secret = InitTokens[j].secret => i = j
    /\ TTL \in Nat /\ CacheMax \in Nat /\ MaxTime \in Nat /\ MaxOps \in Nat

VARIABLES
    users, tokens, logs,     \* the database
    cache, pending,          \* the process: cache, goroutines that write logs
    reqs, adm,               \* handlers of requests and of administrators
    issued,                  \* secrets generated so far
    clock, ops,
    seen                     \* history: whether a request's token allowed its
                             \* model, at every moment since it came

vars == <<users, tokens, logs, cache, pending, reqs, adm, issued, clock, ops,
          seen>>

\* HTTP status codes; "own" is one that an upstream has chosen, "refused" the 400,
\* 401 or 403 of the gateway itself, and "0" stands in logs only.
Served == {"200", "404", "own", "502", "500"}
Status == Served \cup {"none", "refused"}

Request == [at : {"idle", "token", "user", "handle", "upstream", "done", "lost"},
            secret : Secret \cup {0}, body : Body \cup {None}, stream : BOOLEAN,
            id : Id \cup {0}, token : Token \cup {None},  \* as APIAuth read it
            status : Status,                \* as the client reads it
            end : {"none", "whole", "broken", "garbled"}, \* of the answer
            from : Entry \cup {None}]                     \* a cache hit
NoRequest == [at |-> "idle", secret |-> 0, body |-> None, stream |-> FALSE,
              id |-> 0, token |-> None, status |-> "none", end |-> "none",
              from |-> None]

Handler == [at : {"idle", "insert", "whitelist", "toggle", "delete_user"},
            id : Id \cup {0}, user : User \cup {None}, models : SUBSET Model,
            enabled : BOOLEAN]
Idle == [at |-> "idle", id |-> 0, user |-> None, models |-> {}, enabled |-> FALSE]

Log == [req : Req, status : Served \cup {"0"}, hit : BOOLEAN]

Rows == {i \in Id : tokens[i] # None}

\* The id of a new row: SQLite takes one more than the largest.
NewId(i) == /\ \A j \in Rows : j < i
            /\ i = 1 \/ i - 1 \in Rows

\* The token with this secret exists, is enabled, and has the model of a body.
Granted(rows, secret, body) ==
    \E i \in Id : /\ rows[i] # None
                  /\ rows[i].secret = secret
                  /\ rows[i].enabled
                  /\ ModelOf[body] \in rows[i].models

-----------------------------------------------------------------------------
(* The API.                                                                *)

Set(r, new) == reqs' = [reqs EXCEPT ![r] = new]

Arrive(r) ==
    /\ reqs[r].at = "idle"
    /\ \E secret \in 1 .. issued, body \in Body, stream \in BOOLEAN :
          Set(r, [reqs[r] EXCEPT !.at = "token", !.secret = secret,
                                 !.body = body, !.stream = stream])
    /\ UNCHANGED <<users, tokens, logs, cache, pending, adm, issued, clock, ops>>

\* The handler has returned, and with it goes what it knew (a refused request's
\* body stays, for RefusalsJustified).
Ended(r) == [reqs[r] EXCEPT !.at = "done", !.secret = 0, !.stream = FALSE, !.id = 0,
                            !.token = None]

Reject(r) == Set(r, [Ended(r) EXCEPT !.status = "refused"])

\* An answer with this status, which ends in this way, out of the cache or not.
Answered(r, status, end, from) ==
    [Ended(r) EXCEPT !.body = None, !.status = status, !.end = end, !.from = from]
Answer(r, status, end, from) == Set(r, Answered(r, status, end, from))

\* GetTokenByHash; the row is kept for the rest of the request.
LookupToken(r) ==
    /\ reqs[r].at = "token"
    /\ \/ /\ \A i \in Rows : tokens[i].secret # reqs[r].secret
          /\ Reject(r)
       \/ \E i \in Rows :
             /\ tokens[i].secret = reqs[r].secret
             /\ IF tokens[i].enabled
                THEN Set(r, [reqs[r] EXCEPT !.at = "user", !.id = i,
                                            !.token = tokens[i]])
                ELSE Reject(r)
    /\ UNCHANGED <<users, tokens, logs, cache, pending, adm, issued, clock, ops>>

\* GetUserByID; TouchToken after it changes nothing but the time of last use.
LookupUser(r) ==
    /\ reqs[r].at = "user"
    /\ IF reqs[r].token.user \in users
       THEN Set(r, [reqs[r] EXCEPT !.at = "handle"])
       ELSE Reject(r)
    /\ UNCHANGED <<users, tokens, logs, cache, pending, adm, issued, clock, ops>>

CheckModelAllowed(token, model) == model \in token.models

\* Mutant: the key leaves the token out.
CacheKeyShared(id, body) == <<1, body>>

CacheKey(id, body) == <<id, body>>

\* Mutant: the whitelist is checked after the cache.
AcceptableUnlisted(r) == reqs[r].body \notin Bad \cup Empty

\* Parsing, the whitelist of the token as read, and the empty conversation.
Acceptable(r) ==
    /\ reqs[r].body \notin Bad
    /\ CheckModelAllowed(reqs[r].token, ModelOf[reqs[r].body])
    /\ reqs[r].body \notin Empty

Refuse(r) ==
    /\ reqs[r].at = "handle" /\ ~Acceptable(r)
    /\ Reject(r)
    /\ UNCHANGED <<users, tokens, logs, cache, pending, adm, issued, clock, ops>>

Expired(entry) == clock > entry.exp

\* The goroutine that will write the log of a request.
LogRequest(r, status, hit) ==
    pending' = pending \cup {[req |-> r, status |-> status, hit |-> hit]}

\* Get of the cache, by requests that are not streams: a hit answers, an
\* expired entry is deleted, one that cannot be written out is passed over.
LookCache(r) ==
    LET key == CacheKey(reqs[r].id, reqs[r].body)
    IN /\ reqs[r].at = "handle" /\ Acceptable(r)
       /\ \/ /\ reqs[r].stream \/ cache[key] = None
             /\ Set(r, [reqs[r] EXCEPT !.at = "upstream"])
             /\ UNCHANGED <<cache, pending>>
          \/ /\ ~reqs[r].stream /\ cache[key] # None /\ Expired(cache[key])
             /\ cache' = [cache EXCEPT ![key] = None]
             /\ Set(r, [reqs[r] EXCEPT !.at = "upstream"])
             /\ UNCHANGED pending
          \/ /\ ~reqs[r].stream /\ cache[key] # None /\ ~Expired(cache[key])
             /\ Set(r, [reqs[r] EXCEPT !.at = "upstream"])
             /\ UNCHANGED <<cache, pending>>
          \/ /\ ~reqs[r].stream /\ cache[key] # None /\ ~Expired(cache[key])
             /\ Answer(r, "200", "whole", cache[key])
             /\ LogRequest(r, "200", TRUE)
             /\ UNCHANGED cache
    /\ UNCHANGED <<users, tokens, logs, adm, issued, clock, ops>>

Cached == {k \in Key : cache[k] # None}
Live == {k \in Cached : ~Expired(cache[k])}

\* Mutant: the limit is tested with > instead of >=.
StoreAnswerLate(r) ==
    LET key == CacheKey(reqs[r].id, reqs[r].body)
        full == Cardinality(Cached) > CacheMax
        kept == [k \in Key |-> IF full /\ k \notin Live THEN None ELSE cache[k]]
        entry == [exp |-> clock + TTL, born |-> clock,
                  secret |-> reqs[r].secret, body |-> reqs[r].body]
    IN cache' = IF full /\ Cardinality(Live) > CacheMax THEN kept
                ELSE [kept EXCEPT ![key] = entry]

\* Set of the cache: at the limit expired entries go first, and without room
\* the answer is not kept.
StoreAnswer(r) ==
    LET key == CacheKey(reqs[r].id, reqs[r].body)
        full == Cardinality(Cached) >= CacheMax
        kept == [k \in Key |-> IF full /\ k \notin Live THEN None ELSE cache[k]]
        entry == [exp |-> clock + TTL, born |-> clock,
                  secret |-> reqs[r].secret, body |-> reqs[r].body]
    IN cache' = IF full /\ Cardinality(Live) >= CacheMax THEN kept
                ELSE [kept EXCEPT ![key] = entry]

\* Chat has answered; the answer is kept, logged and written.
Complete(r) ==
    /\ reqs[r].at = "upstream" /\ ~reqs[r].stream
    /\ StoreAnswer(r)
    /\ LogRequest(r, "200", FALSE)
    /\ Answer(r, "200", "whole", None)
    /\ UNCHANGED <<users, tokens, logs, adm, issued, clock, ops>>

\* Chat has answered what serializeResponse cannot write: 500, kept by no cache
\* and by no log.
SerializeFails(r) ==
    /\ reqs[r].at = "upstream" /\ ~reqs[r].stream
    /\ Answer(r, "500", "garbled", None)
    /\ UNCHANGED <<users, tokens, logs, cache, pending, adm, issued, clock, ops>>

\* ChatStream has written the answer, or has broken off within it, which the log
\* calls status 0 although 200 has been sent with the first event.
StreamEnds(r) ==
    /\ reqs[r].at = "upstream" /\ reqs[r].stream
    /\ \/ LogRequest(r, "200", FALSE) /\ Answer(r, "200", "whole", None)
       \/ LogRequest(r, "0", FALSE) /\ Answer(r, "200", "broken", None)
    /\ UNCHANGED <<users, tokens, logs, cache, adm, issued, clock, ops>>

\* The errors of the router: ErrModelNotFound, an upstream.Error with a status or
\* without one, and any other.
RouteError == {"notfound", "upstream", "network", "local"}

\* Mutant: the status of an upstream.Error is logged as it is.
ErrorStatusRaw(err) ==
    CASE err = "notfound" -> "404"
      [] err = "upstream" -> "own"
      [] err = "network" -> "0"
      [] err = "local" -> "500"

\* errorStatus, for the log.
ErrorStatus(err) ==
    CASE err = "notfound" -> "404"
      [] err = "upstream" -> "own"
      [] err = "network" -> "502"
      [] err = "local" -> "500"

\* Mutant: an upstream.Error without a status is sent with status 0.
RouteErrorStatusRaw(err) ==
    IF err = "notfound" THEN "404"
    ELSE IF err = "upstream" THEN "own"
    ELSE IF err = "network" THEN "0"
    ELSE "500"

\* writeRouteError, for the client: a type switch of its own.
RouteErrorStatus(err) ==
    IF err = "notfound" THEN "404"
    ELSE IF err = "upstream" THEN "own"
    ELSE IF err = "network" THEN "502"
    ELSE "500"

\* An error before any output.
Fail(r) ==
    /\ reqs[r].at = "upstream"
    /\ \E err \in RouteError :
          /\ LogRequest(r, ErrorStatus(err), FALSE)
          /\ Answer(r, RouteErrorStatus(err), "whole", None)
    /\ UNCHANGED <<users, tokens, logs, cache, adm, issued, clock, ops>>

\* InsertRequestLog, or its failure, which is ignored.
WriteLog ==
    /\ \E l \in pending :
          /\ pending' = pending \ {l}
          /\ logs' \in {logs, logs \cup {l}}
    /\ UNCHANGED <<users, tokens, cache, reqs, adm, issued, clock, ops>>

-----------------------------------------------------------------------------
(* The administration of tokens.                                           *)

Step(a, new) == adm' = [adm EXCEPT ![a] = new]
Begin(a) == adm[a].at = "idle" /\ ops < MaxOps /\ ops' = ops + 1

\* createToken and createTokensFromModels, for the user of the session.
CreateToken(a) ==
    /\ Begin(a)
    /\ \E u \in users, models \in SUBSET Model \ {{}} :
          Step(a, [Idle EXCEPT !.at = "insert", !.user = u, !.models = models])
    /\ UNCHANGED <<users, tokens, logs, cache, pending, reqs, issued, clock>>

\* copyToken reads the token it copies; the copy belongs to who makes it.
CopyToken(a) ==
    /\ Begin(a)
    /\ \E u \in users, i \in Rows :
          Step(a, [Idle EXCEPT !.at = "insert", !.user = u,
                               !.models = tokens[i].models])
    /\ UNCHANGED <<users, tokens, logs, cache, pending, reqs, issued, clock>>

\* The INSERT fails on the foreign key if the user is gone.
InsertToken(a) ==
    /\ adm[a].at = "insert"
    /\ issued + 1 \in Secret
    /\ \E i \in Id :
          /\ NewId(i)
          /\ tokens' = IF adm[a].user \notin users THEN tokens
                       ELSE [tokens EXCEPT ![i] =
                               [secret |-> issued + 1, user |-> adm[a].user,
                                models |-> adm[a].models, enabled |-> TRUE]]
    /\ issued' = issued + 1
    /\ Step(a, Idle)
    /\ UNCHANGED <<users, logs, cache, pending, reqs, clock, ops>>

\* updateTokenWhitelist and toggleToken look the row up, then update by id.
EditWhitelist(a) ==
    /\ Begin(a)
    /\ \E i \in Rows, models \in SUBSET Model \ {{}} :
          Step(a, [Idle EXCEPT !.at = "whitelist", !.id = i, !.models = models])
    /\ UNCHANGED <<users, tokens, logs, cache, pending, reqs, issued, clock>>

UpdateTokenWhitelist(a) ==
    /\ adm[a].at = "whitelist"
    /\ tokens' = IF adm[a].id \notin Rows THEN tokens
                 ELSE [tokens EXCEPT ![adm[a].id].models = adm[a].models]
    /\ Step(a, Idle)
    /\ UNCHANGED <<users, logs, cache, pending, reqs, issued, clock, ops>>

ToggleToken(a) ==
    /\ Begin(a)
    /\ \E i \in Rows : Step(a, [Idle EXCEPT !.at = "toggle", !.id = i,
                                            !.enabled = ~tokens[i].enabled])
    /\ UNCHANGED <<users, tokens, logs, cache, pending, reqs, issued, clock>>

SetTokenEnabled(a) ==
    /\ adm[a].at = "toggle"
    /\ tokens' = IF adm[a].id \notin Rows THEN tokens
                 ELSE [tokens EXCEPT ![adm[a].id].enabled = adm[a].enabled]
    /\ Step(a, Idle)
    /\ UNCHANGED <<users, logs, cache, pending, reqs, issued, clock, ops>>

RevokeToken(a) ==
    /\ Begin(a)
    /\ \E i \in Rows : tokens' = [tokens EXCEPT ![i] = None]
    /\ UNCHANGED <<users, logs, cache, pending, reqs, adm, issued, clock>>

\* DeleteUser of somebody else: his tokens, then the user, unless a token has been
\* created for him in between, which the foreign key protects.
DeleteTokensOf(a) ==
    /\ Begin(a)
    /\ \E u \in users :
          /\ users # {u}
          /\ tokens' = [i \in Id |-> IF i \in Rows /\ tokens[i].user = u
                                     THEN None ELSE tokens[i]]
          /\ Step(a, [Idle EXCEPT !.at = "delete_user", !.user = u])
    /\ UNCHANGED <<users, logs, cache, pending, reqs, issued, clock>>

\* Mutant: foreign keys are not enforced.
DeleteUserUnprotected(a) ==
    /\ adm[a].at = "delete_user"
    /\ users' = users \ {adm[a].user}
    /\ Step(a, Idle)
    /\ UNCHANGED <<tokens, logs, cache, pending, reqs, issued, clock, ops>>

DeleteUser(a) ==
    /\ adm[a].at = "delete_user"
    /\ users' = IF \E i \in Rows : tokens[i].user = adm[a].user
                THEN users ELSE users \ {adm[a].user}
    /\ Step(a, Idle)
    /\ UNCHANGED <<tokens, logs, cache, pending, reqs, issued, clock, ops>>

-----------------------------------------------------------------------------
Tick ==
    /\ clock < MaxTime /\ clock' = clock + 1
    /\ UNCHANGED <<users, tokens, logs, cache, pending, reqs, adm, issued, ops>>

\* The process stops and starts again: cache, requests, handlers and logs not
\* yet written are gone, the database stays.
Restart ==
    /\ ops < MaxOps /\ ops' = ops + 1
    /\ cache' = [k \in Key |-> None] /\ pending' = {}
    /\ reqs' = [r \in Req |-> IF reqs[r].at \in {"idle", "done"} THEN reqs[r]
                              ELSE [reqs[r] EXCEPT !.at = "lost"]]
    /\ adm' = [a \in Admin |-> Idle]
    /\ UNCHANGED <<users, tokens, logs, issued, clock>>

Init ==
    /\ users = User /\ tokens = InitTokens /\ logs = {}
    /\ cache = [k \in Key |-> None] /\ pending = {}
    /\ reqs = [r \in Req |-> NoRequest]
    /\ adm = [a \in Admin |-> Idle]
    /\ issued = InitIssued
    /\ clock = 0 /\ ops = 0
    /\ seen = [r \in Req |-> {}]

Handle(r) ==
    \/ Arrive(r) \/ LookupToken(r) \/ LookupUser(r) \/ Refuse(r)
    \/ LookCache(r) \/ Complete(r) \/ SerializeFails(r) \/ StreamEnds(r) \/ Fail(r)

Administer(a) ==
    \/ CreateToken(a) \/ CopyToken(a) \/ InsertToken(a)
    \/ EditWhitelist(a) \/ UpdateTokenWhitelist(a)
    \/ ToggleToken(a) \/ SetTokenEnabled(a)
    \/ RevokeToken(a) \/ DeleteTokensOf(a) \/ DeleteUser(a)

\* A request that has ended sees nothing more; one that ends here was asking still.
Remember ==
    LET ask(r) == IF reqs[r].at = "idle" THEN reqs'[r] ELSE reqs[r]
    IN seen' = [r \in Req |->
                  IF reqs'[r].at = "idle" \/ reqs[r].at \in {"done", "lost"} THEN seen[r]
                  ELSE seen[r] \cup {Granted(tokens', ask(r).secret, ask(r).body)}]

Next ==
    /\ \/ \E r \in Req : Handle(r)
       \/ \E a \in Admin : Administer(a)
       \/ WriteLog \/ Tick \/ Restart
    /\ Remember

Spec == Init /\ [][Next]_vars

-----------------------------------------------------------------------------
(* Properties.                                                             *)

TypeOK ==
    /\ users \subseteq User /\ tokens \in [Id -> Token \cup {None}]
    /\ logs \subseteq Log /\ pending \subseteq Log
    /\ cache \in [Key -> Entry \cup {None}]
    /\ reqs \in [Req -> Request] /\ adm \in [Admin -> Handler]
    /\ issued \in Nat /\ issued \in Secret \cup {0}
    /\ clock \in Nat /\ ops \in Nat
    /\ seen \in [Req -> SUBSET BOOLEAN]

\* A request reaches the cache or an upstream only if, at some moment since it
\* came, its token existed, was enabled and had the model of its body,
\* although the row read by APIAuth is used without another look and the cache
\* answers for tokens by id.
AnswersGranted ==
    \A r \in Req : reqs[r].at = "upstream" \/ reqs[r].status \in Served
                      => TRUE \in seen[r]

\* A well-formed request is turned away only if its token was, at some moment
\* since it came, missing, disabled or without the model: deleting a user in
\* two statements never makes a good token look like one of nobody.
RefusalsJustified ==
    \A r \in Req :
       reqs[r].status = "refused" /\ reqs[r].body \notin Bad \cup Empty
          => FALSE \in seen[r]

\* What the cache answers was the answer to the same body, at most TTL ago,
\* and not for a token that exists beside the one that asks (the ids of
\* deleted tokens are given out again, so it may be the answer for a dead one).
CacheHonest ==
    [][\A r \in Req :
         reqs[r].from = None /\ reqs'[r].from # None =>
           LET entry == reqs'[r].from
               exists(secret) == \E i \in Rows : tokens[i].secret = secret
           IN /\ entry.body = reqs[r].body
              /\ clock - entry.born <= TTL
              /\ \/ entry.secret = reqs[r].secret
                 \/ ~exists(entry.secret)
                 \/ ~exists(reqs[r].secret)]_vars

\* The log has at most one row of a request, and tells what the client saw: its
\* status, mapped from the error by code of its own (errorStatus against
\* writeRouteError), except that a stream that broke off is logged as 0 although
\* its client was sent 200; and cache_hit exactly if no upstream was called.
\* Requests that were refused, or whose answer could not be serialised, have no
\* row, where the requirements ask for one of every request.
LogsTruthful ==
    \A l, k \in logs \cup pending :
       /\ l.req = k.req => l = k
       /\ reqs[l.req].end \in {"whole", "broken"}
       /\ l.status = IF reqs[l.req].end = "broken" THEN "0" ELSE reqs[l.req].status
       /\ l.hit <=> reqs[l.req].from # None

\* The cache never has more entries than its limit.
CacheBound == Cardinality(Cached) <= CacheMax

\* Every token belongs to a user that exists.
TokensOwned == \A i \in Rows : tokens[i].user \in users
=============================================================================
