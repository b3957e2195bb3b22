--------------------------- MODULE Access_proofs ---------------------------
(***************************************************************************)
(* Proofs about Access, for any requests, tokens, users, cache limit and   *)
(* any number of administrators.                                           *)
(***************************************************************************)
EXTENDS Access, FiniteSetTheorems, TLAPS

-----------------------------------------------------------------------------
(* The inductive invariant.                                                *)

\* Secrets are given once and stay with one row.
SecretsKnown ==
    /\ \A i \in Id : tokens[i] # None => tokens[i].secret <= issued
    /\ \A i, j \in Id : /\ tokens[i] # None /\ tokens[j] # None
                        /\ tokens[i].secret = tokens[j].secret
                        => i = j

\* Only row i, if any, has the secret.
RowOf(secret, i) ==
    \A j \in Id : tokens[j] # None /\ tokens[j].secret = secret => j = i

\* A row has the secret, and belongs to the user.
Owned(secret, user) ==
    \E i \in Id : /\ tokens[i] # None
                  /\ tokens[i].secret = secret /\ tokens[i].user = user

Begun(r) ==
    /\ reqs[r].at \notin {"idle", "done"} => reqs[r].body \in Body
    /\ reqs[r].at \notin {"idle", "done"} =>
          reqs[r].secret \in Secret /\ reqs[r].secret <= issued
    /\ reqs[r].status # "none" => reqs[r].at = "done"
    /\ reqs[r].from # None => reqs[r].at = "done"

\* What the row read by APIAuth says of the moment it was read.
Authenticated(r) ==
    reqs[r].at \in {"user", "handle"} =>
        /\ reqs[r].token \in Token
        /\ ModelOf[reqs[r].body] \in reqs[r].token.models => TRUE \in seen[r]
        /\ ModelOf[reqs[r].body] \notin reqs[r].token.models => FALSE \in seen[r]

OwnerSeen(r) ==
    reqs[r].at = "user" =>
        FALSE \in seen[r] \/ Owned(reqs[r].secret, reqs[r].token.user)

Identified(r) ==
    reqs[r].at \in {"user", "handle", "upstream"} =>
        reqs[r].id \in Id /\ RowOf(reqs[r].secret, reqs[r].id)

Justified(r) ==
    /\ reqs[r].at = "upstream" \/ reqs[r].status \in Served => TRUE \in seen[r]
    /\ reqs[r].status = "refused" /\ reqs[r].body \notin Bad \cup Empty
          => FALSE \in seen[r]

RequestInv(r) ==
    Begun(r) /\ Authenticated(r) /\ OwnerSeen(r) /\ Identified(r) /\ Justified(r)

\* An entry is what it was stored as, and its token's row, if that is still
\* there, is the one of the key.
EntryInv(k) ==
    cache[k] # None =>
        /\ cache[k].body = k[2] /\ cache[k].exp = cache[k].born + TTL
        /\ cache[k].secret <= issued /\ RowOf(cache[k].secret, k[1])

LogInv ==
    /\ LogsTruthful
    /\ \A l \in logs \cup pending : reqs[l.req].at = "done"

IInv ==
    /\ TypeOK /\ SecretsKnown /\ TokensOwned
    /\ \A r \in Req : RequestInv(r)
    /\ \A k \in Key : EntryInv(k)
    /\ LogInv /\ CacheBound

-----------------------------------------------------------------------------
(* What stays of a request and of an entry while the database changes.     *)

\* A row is the one that was there, possibly edited, or new.
Evolves ==
    /\ issued <= issued'
    /\ \A i \in Id : tokens'[i] # None =>
          \/ /\ tokens[i] # None
             /\ tokens'[i].secret = tokens[i].secret
             /\ tokens'[i].user = tokens[i].user
          \/ /\ tokens'[i].secret = issued + 1 /\ issued' = issued + 1
             /\ \A j \in Id : j # i => tokens'[j] = tokens[j]

LEMMA SecretsAreNumbers == \A s \in Secret \cup {0} : s \in Nat
<1>1. \A s \in Secret : s \in Nat
  BY AccessAssumption
<1> QED
  BY <1>1

LEMMA RowOfStays ==
    ASSUME TypeOK, Evolves, NEW s \in Nat, s <= issued, NEW i, RowOf(s, i)
    PROVE  RowOf(s, i)'
BY DEF TypeOK, Evolves, RowOf

LEMMA OwnedStays ==
    ASSUME TypeOK, Evolves, SecretsKnown,
           NEW s \in Nat, s <= issued, NEW u, Owned(s, u)
    PROVE  \/ Owned(s, u)'
           \/ \A j \in Id : tokens'[j] = None \/ tokens'[j].secret # s
BY DEF TypeOK, Evolves, SecretsKnown, Owned

LEMMA SecretsStay ==
    ASSUME TypeOK, TypeOK', Evolves, SecretsKnown
    PROVE  SecretsKnown'
<1>1. \A i \in Id : /\ tokens[i] # None => tokens[i].secret \in Nat
                    /\ tokens'[i] # None => tokens'[i].secret \in Nat
  BY AccessAssumption DEF TypeOK, Token
<1>2. issued \in Nat /\ issued' \in Nat
  BY DEF TypeOK
<1> QED
  BY <1>1, <1>2 DEF Evolves, SecretsKnown

\* A request that has not ended remembers whether it is granted now.
LEMMA Remembers ==
    ASSUME TypeOK, Remember, NEW p \in Req
    PROVE  /\ seen[p] \subseteq seen'[p]
           /\ reqs'[p].at # "idle" /\ reqs[p].at \notin {"idle", "done", "lost"} =>
                /\ Granted(tokens', reqs[p].secret, reqs[p].body) => TRUE \in seen'[p]
                /\ ~Granted(tokens', reqs[p].secret, reqs[p].body) => FALSE \in seen'[p]
<1> DEFINE ask == IF reqs[p].at = "idle" THEN reqs'[p] ELSE reqs[p]
           g == Granted(tokens', ask.secret, ask.body)
<1>1. seen'[p] = IF reqs'[p].at = "idle" \/ reqs[p].at \in {"done", "lost"} THEN seen[p]
                 ELSE seen[p] \cup {g}
  BY DEF Remember
<1>2. (g = TRUE /\ g) \/ (g = FALSE /\ ~g)
  BY DEF Granted
<1>3. reqs[p].at # "idle" => g = Granted(tokens', reqs[p].secret, reqs[p].body)
  OBVIOUS
<1> HIDE DEF g
<1> QED
  BY <1>1, <1>2, <1>3

LEMMA SeenType ==
    ASSUME TypeOK, Remember
    PROVE  seen' \in [Req -> SUBSET BOOLEAN]
<1> DEFINE ask(p) == IF reqs[p].at = "idle" THEN reqs'[p] ELSE reqs[p]
           g(p) == Granted(tokens', ask(p).secret, ask(p).body)
<1>1. seen' = [p \in Req |->
                 IF reqs'[p].at = "idle" \/ reqs[p].at \in {"done", "lost"} THEN seen[p]
                 ELSE seen[p] \cup {g(p)}]
  BY DEF Remember
<1>2. \A p \in Req : g(p) \in BOOLEAN
  BY DEF Granted
<1>3. \A p \in Req : seen[p] \in SUBSET BOOLEAN
  BY DEF TypeOK
<1> HIDE DEF g
<1> QED
  BY <1>1, <1>2, <1>3

\* A request that does not move keeps its invariant.
LEMMA RequestStays ==
    ASSUME TypeOK, issued' \in Nat, Evolves, SecretsKnown, Remember,
           NEW p \in Req, RequestInv(p), reqs'[p] = reqs[p]
    PROVE  RequestInv(p)'
<1>1. /\ reqs[p].secret \in Nat
      /\ issued \in Nat /\ issued' \in Nat /\ issued <= issued'
  <2>1. reqs[p] \in Request /\ issued \in Nat /\ issued <= issued'
    BY DEF TypeOK, Evolves
  <2>2. reqs[p].secret \in Secret \cup {0}
    BY <2>1 DEF Request
  <2>5. reqs[p].secret \in Nat
    BY <2>2, SecretsAreNumbers
  <2>6. issued' \in Nat
    OBVIOUS
  <2> QED
    BY <2>1, <2>5, <2>6
<1>2. seen[p] \subseteq seen'[p]
  BY Remembers
<1>3. Begun(p)'
  <2>1. reqs[p].at \in {"idle", "done"} \/ reqs[p].secret <= issued'
    BY <1>1 DEF RequestInv, Begun
  <2> QED
    BY <1>1, <2>1 DEF RequestInv, Begun
<1>4. Authenticated(p)' /\ Justified(p)'
  BY <1>2 DEF RequestInv, Authenticated, Justified
<1>5. Identified(p)'
  BY <1>1, RowOfStays DEF RequestInv, Identified, Begun
<1>6. OwnerSeen(p)'
  <2> SUFFICES ASSUME reqs[p].at = "user", FALSE \notin seen[p]
               PROVE  FALSE \in seen'[p] \/ Owned(reqs[p].secret, reqs[p].token.user)'
    BY <1>2 DEF OwnerSeen
  <2>1. Owned(reqs[p].secret, reqs[p].token.user) /\ reqs[p].secret <= issued
    BY DEF RequestInv, OwnerSeen, Begun
  <2>2. CASE Owned(reqs[p].secret, reqs[p].token.user)'
    BY <2>2
  <2>3. CASE \A j \in Id : tokens'[j] = None \/ tokens'[j].secret # reqs[p].secret
    <3>1. ~Granted(tokens', reqs[p].secret, reqs[p].body)
      BY <2>3 DEF Granted
    <3> QED
      BY <3>1, Remembers
  <2> QED
    BY <1>1, <2>1, <2>2, <2>3, OwnedStays
<1> QED
  BY <1>3, <1>4, <1>5, <1>6 DEF RequestInv

LEMMA EntryStays ==
    ASSUME TypeOK, TypeOK', Evolves, NEW k \in Key, EntryInv(k), cache'[k] = cache[k]
    PROVE  EntryInv(k)'
<1>1. cache[k] # None => cache[k].secret \in Nat
  BY AccessAssumption DEF TypeOK, Entry
<1>2. issued \in Nat /\ issued' \in Nat /\ issued <= issued'
  BY DEF TypeOK, Evolves
<1> QED
  BY <1>1, <1>2, RowOfStays DEF EntryInv

-----------------------------------------------------------------------------
(* Steps of requests.                                                      *)

\* The fields a step sets.
LEMMA SetAt ==
    ASSUME NEW q \in Request,
           NEW at \in {"idle", "token", "user", "handle", "upstream", "done", "lost"}
    PROVE  [q EXCEPT !.at = at] \in Request
BY DEF Request

LEMMA SetAsk ==
    ASSUME NEW q \in Request,
           NEW at \in {"idle", "token", "user", "handle", "upstream", "done", "lost"},
           NEW secret \in Secret \cup {0},
           NEW body \in Body,
           NEW stream \in BOOLEAN
    PROVE  [q EXCEPT !.at = at, !.secret = secret, !.body = body,
                      !.stream = stream] \in Request
BY DEF Request

LEMMA SetRow ==
    ASSUME NEW q \in Request,
           NEW at \in {"idle", "token", "user", "handle", "upstream", "done", "lost"},
           NEW id \in Id \cup {0},
           NEW token \in Token \cup {None}
    PROVE  [q EXCEPT !.at = at, !.id = id, !.token = token] \in Request
BY DEF Request

\* A request that has ended, in any way.
LEMMA AnswerFields ==
    ASSUME TypeOK, NEW r \in Req, NEW status \in Status,
           NEW end \in {"none", "whole", "broken", "garbled"},
           NEW from \in Entry \cup {None}, NEW q, q = Answered(r, status, end, from)
    PROVE  /\ q \in Request /\ q.at = "done" /\ q.body = None
           /\ q.status = status /\ q.end = end /\ q.from = from
<1>1. reqs[r] \in Request
  BY DEF TypeOK
<1>2. Ended(r) \in Request /\ Ended(r).at = "done" /\ Ended(r).body = reqs[r].body
  BY <1>1 DEF Ended, Request
<1>3. q \in Request /\ q.at = "done" /\ q.body = None
  BY <1>2 DEF Request, Answered
<1>4. q.status = status /\ q.end = end /\ q.from = from
  BY <1>2 DEF Request, Answered
<1> QED
  BY <1>3, <1>4

LEMMA RefusedFields ==
    ASSUME TypeOK, NEW r \in Req
    PROVE  LET q == [Ended(r) EXCEPT !.status = "refused"]
           IN /\ q \in Request /\ q.at = "done" /\ q.body = reqs[r].body
              /\ q.status = "refused" /\ q.from = reqs[r].from
<1> DEFINE q == [Ended(r) EXCEPT !.status = "refused"]
<1>1. reqs[r] \in Request
  BY DEF TypeOK
<1>2. Ended(r) \in Request /\ Ended(r).at = "done" /\ Ended(r).body = reqs[r].body
      /\ Ended(r).from = reqs[r].from
  BY <1>1 DEF Ended, Request
<1>3. "refused" \in Status
  BY DEF Status
<1> QED
  BY <1>2, <1>3 DEF Request

LEMMA RequestType ==
    ASSUME TypeOK, NEW r \in Req
    PROVE  /\ reqs[r] \in Request /\ reqs[r].secret \in Nat
           /\ reqs[r].id \in Id \cup {0} /\ reqs[r].body \in Body \cup {None}
<1>1. reqs[r] \in Request
  BY DEF TypeOK
<1>2. /\ reqs[r].secret \in Secret \cup {0}
      /\ reqs[r].id \in Id \cup {0} /\ reqs[r].body \in Body \cup {None}
  BY <1>1 DEF Request
<1> QED
  BY <1>1, <1>2, SecretsAreNumbers

\* One request moves, and neither the tokens nor the number issued change.
Moves(r, q) ==
    /\ q \in Request /\ Set(r, q) /\ Remember
    /\ UNCHANGED <<users, tokens, adm, issued, clock, ops>>

LEMMA OthersStay ==
    ASSUME TypeOK, NEW r \in Req, NEW q, Moves(r, q)
    PROVE  /\ reqs' \in [Req -> Request] /\ reqs'[r] = q
           /\ \A p \in Req : p # r => reqs'[p] = reqs[p]
BY DEF TypeOK, Moves, Set

LEMMA StaysEvolves ==
    ASSUME TypeOK, UNCHANGED <<tokens, issued>>
    PROVE  Evolves /\ issued' \in Nat
BY DEF TypeOK, Evolves

\* What is left to show of a step of a request.
LEMMA MoveInv ==
    ASSUME IInv, NEW r \in Req, NEW q, Moves(r, q), RequestInv(r)',
           logs' \subseteq Log, pending' \subseteq Log, LogInv',
           cache' \in [Key -> Entry \cup {None}],
           \A k \in Key : EntryInv(k)', CacheBound'
    PROVE  IInv'
<1>1. TypeOK'
  <2>1. seen' \in [Req -> SUBSET BOOLEAN]
    BY SeenType DEF IInv, Moves
  <2> QED
    BY <2>1, OthersStay DEF IInv, TypeOK, Moves
<1>2. SecretsKnown' /\ TokensOwned'
  BY DEF IInv, SecretsKnown, TokensOwned, Rows, Moves
<1>3. \A p \in Req : RequestInv(p)'
  <2> SUFFICES ASSUME NEW p \in Req, p # r
               PROVE  RequestInv(p)'
    OBVIOUS
  <2>1. reqs'[p] = reqs[p] /\ Remember /\ RequestInv(p)
    BY OthersStay DEF IInv, Moves
  <2>2. Evolves /\ issued' \in Nat
    BY StaysEvolves DEF IInv, Moves
  <2> QED
    BY <2>1, <2>2, RequestStays DEF IInv
<1> QED
  BY <1>1, <1>2, <1>3 DEF IInv

LEMMA Quiet ==
    ASSUME IInv, NEW r \in Req, NEW q, Moves(r, q), reqs[r].at # "done",
           UNCHANGED <<logs, pending>>
    PROVE  LogInv' /\ logs' \subseteq Log /\ pending' \subseteq Log
<1>1. \A l \in logs \cup pending : l.req \in Req /\ l.req # r
  BY DEF IInv, TypeOK, Log, LogInv
<1>2. \A l \in logs \cup pending : reqs'[l.req] = reqs[l.req]
  BY <1>1, OthersStay DEF IInv
<1> QED
  BY <1>2 DEF IInv, TypeOK, LogInv, LogsTruthful

\* A row of the log says of an answer what it was.
Told(status, hit, q) ==
    /\ q.at = "done" /\ q.end \in {"whole", "broken"}
    /\ status = IF q.end = "broken" THEN "0" ELSE q.status
    /\ hit <=> q.from # None

LEMMA Loud ==
    ASSUME IInv, NEW r \in Req, NEW q, Moves(r, q), reqs[r].at # "done",
           NEW status \in Served \cup {"0"}, NEW hit \in BOOLEAN,
           LogRequest(r, status, hit), logs' = logs, Told(status, hit, q)
    PROVE  LogInv' /\ logs' \subseteq Log /\ pending' \subseteq Log
<1> DEFINE n == [req |-> r, status |-> status, hit |-> hit]
<1>1. n \in Log /\ n.req = r /\ n.status = status /\ n.hit = hit
  BY DEF Log
<1>2. pending' = pending \cup {n}
  BY DEF LogRequest
<1>3. \A l \in logs \cup pending : l.req \in Req /\ l.req # r
  BY DEF IInv, TypeOK, Log, LogInv
<1>4. \A l \in logs \cup pending : reqs'[l.req] = reqs[l.req]
  BY <1>3, OthersStay DEF IInv
<1>5. reqs'[r] = q
  BY OthersStay DEF IInv
<1> HIDE DEF n
<1>6. logs' \subseteq Log /\ pending' \subseteq Log
  BY <1>1, <1>2 DEF IInv, TypeOK
<1>7. \A l, k \in logs' \cup pending' : l.req = k.req => l = k
  BY <1>1, <1>2, <1>3 DEF IInv, LogInv, LogsTruthful
<1>8. \A l \in logs' \cup pending' : Told(l.status, l.hit, reqs'[l.req])
  <2> SUFFICES ASSUME NEW l \in logs' \cup pending'
               PROVE  Told(l.status, l.hit, reqs'[l.req])
    OBVIOUS
  <2>1. CASE l \in logs \cup pending
    BY <2>1, <1>4 DEF IInv, LogInv, LogsTruthful, Told
  <2>2. CASE l = n
    BY <2>2, <1>1, <1>5
  <2> QED
    BY <2>1, <2>2, <1>2
<1> QED
  BY <1>6, <1>7, <1>8 DEF LogInv, LogsTruthful, Told

LEMMA CacheStays ==
    ASSUME IInv, UNCHANGED <<tokens, issued, cache>>
    PROVE  /\ cache' \in [Key -> Entry \cup {None}]
           /\ \A k \in Key : EntryInv(k)'
           /\ CacheBound'
BY DEF IInv, TypeOK, EntryInv, RowOf, CacheBound, Cached

\* A request that ends.
LEMMA Ends ==
    ASSUME IInv, NEW r \in Req, NEW q, Moves(r, q),
           reqs[r].at \notin {"idle", "done", "lost"}, q.at = "done",
           q.status \in Served => TRUE \in seen'[r],
           q.status = "refused" /\ q.body \notin Bad \cup Empty => FALSE \in seen'[r]
    PROVE  RequestInv(r)'
<1>1. reqs'[r] = q /\ issued' = issued
  BY OthersStay DEF IInv, Moves
<1>2. RequestInv(r)
  BY DEF IInv
<1> QED
  BY <1>1, <1>2 DEF RequestInv, Begun, Authenticated, OwnerSeen, Identified, Justified

LEMMA RejectStep ==
    ASSUME IInv, NEW r \in Req, Reject(r), Remember,
           UNCHANGED <<users, tokens, logs, cache, pending, adm, issued, clock, ops>>,
           reqs[r].at \notin {"idle", "done", "lost"},
           reqs[r].body \notin Bad \cup Empty => FALSE \in seen'[r]
    PROVE  IInv'
<1> DEFINE q == [Ended(r) EXCEPT !.status = "refused"]
<1>2. q \in Request
  BY RefusedFields DEF IInv
<1>3. q.at = "done" /\ q.status = "refused" /\ q.body = reqs[r].body
  BY RefusedFields DEF IInv
<1>4. Set(r, q)
  BY DEF Reject
<1> HIDE DEF q
<1>5. Moves(r, q)
  BY <1>2, <1>4 DEF Moves
<1>6. RequestInv(r)'
  BY <1>3, <1>5, Ends DEF Served
<1>7. LogInv' /\ logs' \subseteq Log /\ pending' \subseteq Log
  BY <1>5, Quiet
<1> QED
  BY <1>5, <1>6, <1>7, CacheStays, MoveInv

LEMMA ArriveStep ==
    ASSUME IInv, Remember, NEW r \in Req, Arrive(r)
    PROVE  IInv'
<1> PICK secret \in 1 .. issued, body \in Body, stream \in BOOLEAN :
       Set(r, [reqs[r] EXCEPT !.at = "token", !.secret = secret,
                              !.body = body, !.stream = stream])
  BY DEF Arrive
<1> DEFINE q == [reqs[r] EXCEPT !.at = "token", !.secret = secret,
                                !.body = body, !.stream = stream]
<1>1. reqs[r] \in Request /\ reqs[r].at = "idle"
  BY RequestType DEF IInv, Arrive
<1>2. secret \in Secret /\ secret <= issued
  <2>1. issued \in Secret \cup {0} /\ issued \in Nat
    BY DEF IInv, TypeOK
  <2>2. issued \in Secret
    BY <2>1
  <2> QED
    BY <2>1, <2>2, AccessAssumption
<1>3. q \in Request
  BY <1>1, <1>2, SetAsk
<1>4. /\ q.at = "token" /\ q.secret = secret /\ q.body = body
      /\ q.status = reqs[r].status /\ q.from = reqs[r].from
  BY <1>1 DEF Request
<1>5. Moves(r, q)
  BY <1>3 DEF Moves, Arrive
<1> HIDE DEF q
<1>6. RequestInv(r)'
  <2>1. reqs'[r] = q /\ issued' = issued /\ RequestInv(r)
    BY <1>5, OthersStay DEF IInv, Moves
  <2>2. q.status = "none" /\ q.from = None
    BY <1>1, <1>4, <2>1 DEF RequestInv, Begun
  <2>3. Begun(r)'
    BY <1>2, <1>4, <2>1, <2>2 DEF Begun
  <2> QED
    BY <1>4, <2>1, <2>2, <2>3
       DEF RequestInv, Authenticated, OwnerSeen, Identified, Justified, Served
<1>7. UNCHANGED <<tokens, logs, cache, pending, issued>>
  BY DEF Arrive
<1>8. LogInv' /\ logs' \subseteq Log /\ pending' \subseteq Log
  BY <1>1, <1>5, <1>7, Quiet
<1> QED
  BY <1>5, <1>6, <1>7, <1>8, CacheStays, MoveInv

LEMMA LookupTokenStep ==
    ASSUME IInv, Remember, NEW r \in Req, LookupToken(r)
    PROVE  IInv'
<1>1. /\ reqs[r] \in Request /\ reqs[r].at = "token" /\ RequestInv(r)
      /\ TypeOK /\ SecretsKnown
  BY RequestType DEF IInv, LookupToken
<1>2. UNCHANGED <<users, tokens, logs, cache, pending, adm, issued, clock, ops>>
  BY DEF LookupToken
<1>3. /\ reqs[r].body \in Body
      /\ reqs[r].secret \in Secret /\ reqs[r].secret <= issued
  BY <1>1 DEF RequestInv, Begun
\* Without such a row, or with a disabled one, the request is not granted now.
<1>4. ASSUME Reject(r), \A i \in Rows : tokens[i].secret = reqs[r].secret => ~tokens[i].enabled
      PROVE  IInv'
  <2>1. reqs'[r].at = "done"
    <3>1. reqs'[r] = [Ended(r) EXCEPT !.status = "refused"]
      BY <1>1, <1>4 DEF Reject, Set, TypeOK
    <3> QED
      BY <1>1, <3>1, RefusedFields
  <2>2. ~Granted(tokens', reqs[r].secret, reqs[r].body)
    BY <1>2, <1>4 DEF Granted, Rows
  <2>3. FALSE \in seen'[r]
    BY <1>1, <2>1, <2>2, Remembers
  <2> QED
    BY <1>1, <1>2, <1>4, <2>3, RejectStep
<1>5. ASSUME NEW i \in Rows, tokens[i].secret = reqs[r].secret, tokens[i].enabled,
             Set(r, [reqs[r] EXCEPT !.at = "user", !.id = i, !.token = tokens[i]])
      PROVE  IInv'
  <2> DEFINE q == [reqs[r] EXCEPT !.at = "user", !.id = i, !.token = tokens[i]]
  <2>1. i \in Id /\ tokens[i] \in Token /\ tokens[i] # None
    BY <1>1 DEF Rows, TypeOK
  <2>2. q \in Request
    BY <1>1, <2>1, SetRow
  <2>3. /\ q.at = "user" /\ q.id = i /\ q.token = tokens[i]
        /\ q.secret = reqs[r].secret /\ q.body = reqs[r].body
        /\ q.status = reqs[r].status /\ q.from = reqs[r].from
    BY <1>1 DEF Request
  <2>4. Moves(r, q)
    BY <1>2, <1>5, <2>2 DEF Moves
  <2> HIDE DEF q
  <2>5. reqs'[r] = q
    BY <1>1, <2>4, OthersStay
  <2>6. RowOf(reqs[r].secret, i)
    BY <1>1, <1>5, <2>1 DEF SecretsKnown, RowOf
  <2>7. /\ ModelOf[q.body] \in tokens[i].models => TRUE \in seen'[r]
        /\ ModelOf[q.body] \notin tokens[i].models => FALSE \in seen'[r]
    <3>1. CASE ModelOf[q.body] \in tokens[i].models
      <4>1. Granted(tokens', reqs[r].secret, reqs[r].body)
        BY <1>2, <1>5, <2>1, <2>3, <2>5, <3>1 DEF Granted
      <4> QED
        BY <1>1, <2>3, <2>5, <3>1, <4>1, Remembers
    <3>2. CASE ModelOf[q.body] \notin tokens[i].models
      <4>1. ~Granted(tokens', reqs[r].secret, reqs[r].body)
        BY <1>2, <2>3, <2>5, <2>6, <3>2 DEF Granted, RowOf
      <4> QED
        BY <1>1, <2>3, <2>5, <3>2, <4>1, Remembers
    <3> QED
      BY <3>1, <3>2
  <2>8. RequestInv(r)'
    <3>1. q.status = "none" /\ q.from = None
      BY <1>1, <2>3 DEF RequestInv, Begun
    <3>2. Begun(r)'
      BY <1>2, <1>3, <2>3, <2>5, <3>1 DEF Begun
    <3>3. Authenticated(r)'
      BY <2>1, <2>3, <2>5, <2>7 DEF Authenticated
    <3>4. OwnerSeen(r)'
      BY <1>2, <1>5, <2>1, <2>3, <2>5 DEF OwnerSeen, Owned
    <3>5. Identified(r)'
      BY <1>2, <2>1, <2>3, <2>5, <2>6 DEF Identified, RowOf
    <3>6. Justified(r)'
      BY <2>3, <2>5, <3>1 DEF Justified, Served
    <3> QED
      BY <3>2, <3>3, <3>4, <3>5, <3>6 DEF RequestInv
  <2>9. LogInv' /\ logs' \subseteq Log /\ pending' \subseteq Log
    BY <1>1, <1>2, <2>4, Quiet
  <2> QED
    BY <1>2, <2>4, <2>8, <2>9, CacheStays, MoveInv
<1>6. \/ Reject(r) /\ \A i \in Rows : tokens[i].secret = reqs[r].secret => ~tokens[i].enabled
      \/ \E i \in Rows :
            /\ tokens[i].secret = reqs[r].secret /\ tokens[i].enabled
            /\ Set(r, [reqs[r] EXCEPT !.at = "user", !.id = i, !.token = tokens[i]])
  BY <1>1 DEF LookupToken, SecretsKnown, Rows
<1> QED
  BY <1>4, <1>5, <1>6

LEMMA LookupUserStep ==
    ASSUME IInv, Remember, NEW r \in Req, LookupUser(r)
    PROVE  IInv'
<1>1. /\ reqs[r] \in Request /\ reqs[r].at = "user" /\ RequestInv(r) /\ TypeOK
  BY RequestType DEF IInv, LookupUser
<1>2. UNCHANGED <<users, tokens, logs, cache, pending, adm, issued, clock, ops>>
  BY DEF LookupUser
<1>3. seen[r] \subseteq seen'[r]
  BY <1>1, Remembers
<1>4. CASE reqs[r].token.user \in users
  <2> DEFINE q == [reqs[r] EXCEPT !.at = "handle"]
  <2>1. q \in Request
    BY <1>1, SetAt
  <2>2. /\ q.at = "handle" /\ q.id = reqs[r].id /\ q.token = reqs[r].token
        /\ q.secret = reqs[r].secret /\ q.body = reqs[r].body
        /\ q.status = reqs[r].status /\ q.from = reqs[r].from
    BY <1>1 DEF Request
  <2>3. Moves(r, q)
    BY <1>2, <1>4, <2>1 DEF Moves, LookupUser
  <2> HIDE DEF q
  <2>4. reqs'[r] = q
    BY <1>1, <2>3, OthersStay
  <2>5. RequestInv(r)'
    <3>1. q.status = "none" /\ q.from = None
      BY <1>1, <2>2 DEF RequestInv, Begun
    <3>2. Begun(r)'
      BY <1>1, <1>2, <2>2, <2>4, <3>1 DEF RequestInv, Begun
    <3>3. Authenticated(r)' /\ OwnerSeen(r)'
      BY <1>1, <1>3, <2>2, <2>4 DEF RequestInv, Authenticated, OwnerSeen
    <3>4. Identified(r)'
      BY <1>1, <1>2, <2>2, <2>4 DEF RequestInv, Identified, RowOf
    <3>5. Justified(r)'
      BY <2>2, <2>4, <3>1 DEF Justified, Served
    <3> QED
      BY <3>2, <3>3, <3>4, <3>5 DEF RequestInv
  <2>6. LogInv' /\ logs' \subseteq Log /\ pending' \subseteq Log
    BY <1>1, <1>2, <2>3, Quiet
  <2> QED
    BY <1>2, <2>3, <2>5, <2>6, CacheStays, MoveInv
<1>5. CASE reqs[r].token.user \notin users
  <2>1. FALSE \in seen[r]
    BY <1>1, <1>5 DEF IInv, TokensOwned, Rows, RequestInv, OwnerSeen, Owned
  <2> QED
    BY <1>1, <1>2, <1>3, <1>5, <2>1, RejectStep DEF LookupUser
<1> QED
  BY <1>4, <1>5

LEMMA RefuseStep ==
    ASSUME IInv, Remember, NEW r \in Req, Refuse(r)
    PROVE  IInv'
<1>1. reqs[r].at = "handle" /\ RequestInv(r) /\ TypeOK
  BY DEF IInv, Refuse
<1>2. seen[r] \subseteq seen'[r]
  BY <1>1, Remembers
<1>3. reqs[r].body \notin Bad \cup Empty => FALSE \in seen[r]
  BY <1>1 DEF Refuse, Acceptable, CheckModelAllowed, RequestInv, Authenticated
<1> QED
  BY <1>1, <1>2, <1>3, RejectStep DEF Refuse

\* A request that passes the checks goes to an upstream.
LEMMA UpstreamStep ==
    ASSUME IInv, Remember, NEW r \in Req, reqs[r].at = "handle", Acceptable(r),
           Set(r, [reqs[r] EXCEPT !.at = "upstream"]),
           UNCHANGED <<users, tokens, logs, pending, adm, issued, clock, ops>>,
           cache' \in [Key -> Entry \cup {None}],
           \A k \in Key : EntryInv(k)', CacheBound'
    PROVE  IInv'
<1> DEFINE q == [reqs[r] EXCEPT !.at = "upstream"]
<1>1. reqs[r] \in Request /\ RequestInv(r) /\ TypeOK
  BY RequestType DEF IInv
<1>2. q \in Request
  BY <1>1, SetAt
<1>3. /\ q.at = "upstream" /\ q.id = reqs[r].id
      /\ q.secret = reqs[r].secret /\ q.body = reqs[r].body
      /\ q.status = reqs[r].status /\ q.from = reqs[r].from
  BY <1>1 DEF Request
<1>4. Moves(r, q)
  BY <1>2 DEF Moves
<1> HIDE DEF q
<1>5. reqs'[r] = q
  BY <1>1, <1>4, OthersStay
<1>6. TRUE \in seen'[r]
  <2>1. TRUE \in seen[r]
    BY <1>1 DEF RequestInv, Authenticated, Acceptable, CheckModelAllowed
  <2> QED
    BY <1>1, <2>1, Remembers
<1>7. RequestInv(r)'
  <2>1. q.status = "none" /\ q.from = None
    BY <1>1, <1>3 DEF RequestInv, Begun
  <2>2. Begun(r)'
    BY <1>1, <1>3, <1>5, <2>1 DEF RequestInv, Begun
  <2>3. Authenticated(r)' /\ OwnerSeen(r)'
    BY <1>3, <1>5 DEF Authenticated, OwnerSeen
  <2>4. Identified(r)'
    BY <1>1, <1>3, <1>5 DEF RequestInv, Identified, RowOf
  <2>5. Justified(r)'
    BY <1>3, <1>5, <1>6, <2>1 DEF Justified
  <2> QED
    BY <2>2, <2>3, <2>4, <2>5 DEF RequestInv
<1>8. LogInv' /\ logs' \subseteq Log /\ pending' \subseteq Log
  BY <1>4, Quiet
<1> QED
  BY <1>4, <1>7, <1>8, MoveInv

\* A request that has been served, or was to be.
LEMMA ServedInv ==
    ASSUME IInv, Remember, NEW r \in Req, reqs[r].at \notin {"idle", "done", "lost"},
           TRUE \in seen[r], NEW q, Moves(r, q), q.at = "done",
           q.status \in Served
    PROVE  RequestInv(r)'
<1>1. TRUE \in seen'[r]
  BY Remembers DEF IInv
<1>2. q.status # "refused"
  BY DEF Served
<1> QED
  BY <1>1, <1>2, Ends

\* A request that is answered with a row of the log.
LEMMA AnswerStep ==
    ASSUME IInv, Remember, NEW r \in Req, reqs[r].at \notin {"idle", "done", "lost"},
           TRUE \in seen[r], NEW status \in Served, NEW end \in {"whole", "broken"},
           NEW from \in Entry \cup {None}, Answer(r, status, end, from),
           NEW logged \in Served \cup {"0"}, NEW hit \in BOOLEAN,
           LogRequest(r, logged, hit), hit <=> from # None,
           logged = IF end = "broken" THEN "0" ELSE status,
           UNCHANGED <<users, tokens, logs, adm, issued, clock, ops>>,
           cache' \in [Key -> Entry \cup {None}],
           \A k \in Key : EntryInv(k)', CacheBound'
    PROVE  IInv'
<1> PICK q : q = Answered(r, status, end, from)
  OBVIOUS
<1>1. /\ status \in Status /\ TypeOK
      /\ end \in {"none", "whole", "broken", "garbled"}
  BY DEF Status, IInv
<1>2. /\ q \in Request /\ q.at = "done" /\ q.body = None
      /\ q.status = status /\ q.end = end /\ q.from = from
  BY <1>1, AnswerFields
<1>3. Set(r, q)
  BY DEF Answer
<1>4. Moves(r, q)
  BY <1>2, <1>3 DEF Moves
<1>5. RequestInv(r)'
  BY <1>2, <1>4, ServedInv
<1>6. Told(logged, hit, q)
  BY <1>2 DEF Told
<1>7. LogInv' /\ logs' \subseteq Log /\ pending' \subseteq Log
  BY <1>4, <1>6, Loud
<1> QED
  BY <1>4, <1>5, <1>7, MoveInv

LEMMA KeyOf ==
    ASSUME NEW id \in Id, NEW body \in Body
    PROVE  /\ CacheKey(id, body) \in Key
           /\ CacheKey(id, body)[1] = id /\ CacheKey(id, body)[2] = body
BY DEF CacheKey, Key

LEMMA CachedFinite ==
    ASSUME NEW S, S \subseteq Cached
    PROVE  /\ IsFiniteSet(S) /\ IsFiniteSet(Cached)
           /\ Cardinality(S) \in Nat /\ Cardinality(Cached) \in Nat
           /\ Cardinality(S) <= Cardinality(Cached)
<1>1. IsFiniteSet(Key) /\ Cached \subseteq Key
  BY AccessAssumption DEF Cached
<1>2. IsFiniteSet(Cached)
  BY <1>1, FS_Subset
<1>3. IsFiniteSet(S) /\ Cardinality(S) <= Cardinality(Cached)
  BY <1>2, FS_Subset
<1> QED
  BY <1>2, <1>3, FS_CardinalityType

\* A cache with no entries but those of S and one more.
LEMMA OneMore ==
    ASSUME NEW S, S \subseteq Cached, NEW key, Cached' \subseteq S \cup {key},
           Cardinality(S) < CacheMax
    PROVE  CacheBound'
<1>1. IsFiniteSet(S) /\ Cardinality(S) \in Nat
  BY CachedFinite
<1>2. /\ IsFiniteSet(S \cup {key})
      /\ Cardinality(S \cup {key}) \in {Cardinality(S), Cardinality(S) + 1}
  BY <1>1, FS_AddElement
<1>3. Cardinality(Cached') <= Cardinality(S \cup {key}) /\ Cardinality(Cached') \in Nat
  BY <1>2, FS_Subset, FS_CardinalityType
<1>4. CacheMax \in Nat
  BY AccessAssumption
<1>5. Cardinality(Cached') <= CacheMax
  BY <1>1, <1>2, <1>3, <1>4
<1> QED
  BY <1>5 DEF CacheBound

LEMMA NoMore ==
    ASSUME CacheBound, Cached' \subseteq Cached
    PROVE  CacheBound'
<1>1. Cardinality(Cached') <= Cardinality(Cached)
      /\ Cardinality(Cached') \in Nat /\ Cardinality(Cached) \in Nat
  BY CachedFinite
<1>2. CacheMax \in Nat
  BY AccessAssumption
<1>3. Cardinality(Cached') <= CacheMax
  BY <1>1, <1>2 DEF CacheBound
<1> QED
  BY <1>3 DEF CacheBound

LEMMA LookCacheStep ==
    ASSUME IInv, Remember, NEW r \in Req, LookCache(r)
    PROVE  IInv'
<1> DEFINE key == CacheKey(reqs[r].id, reqs[r].body)
<1>1. /\ reqs[r] \in Request /\ reqs[r].at = "handle" /\ Acceptable(r)
      /\ RequestInv(r) /\ TypeOK
  BY RequestType DEF IInv, LookCache
<1>2. UNCHANGED <<users, tokens, logs, adm, issued, clock, ops>>
  BY DEF LookCache
<1>3. key \in Key
  BY <1>1, KeyOf DEF RequestInv, Identified, Begun
<1>4. CASE /\ Set(r, [reqs[r] EXCEPT !.at = "upstream"])
           /\ UNCHANGED <<cache, pending>>
  BY <1>1, <1>2, <1>4, CacheStays, UpstreamStep
<1>5. CASE /\ cache' = [cache EXCEPT ![key] = None]
           /\ Set(r, [reqs[r] EXCEPT !.at = "upstream"])
           /\ UNCHANGED pending
  <2> HIDE DEF key
  <2>1. cache' \in [Key -> Entry \cup {None}]
    BY <1>1, <1>5 DEF TypeOK
  <2>2. \A k \in Key : cache'[k] = None \/ cache'[k] = cache[k]
    BY <1>1, <1>5 DEF TypeOK
  <2>3. \A k \in Key : EntryInv(k)'
    BY <1>2, <2>2 DEF IInv, EntryInv, RowOf
  <2>4. Cached' \subseteq Cached
    BY <2>2 DEF Cached
  <2>5. CacheBound'
    BY <2>4, NoMore DEF IInv
  <2> QED
    BY <1>1, <1>2, <1>5, <2>1, <2>3, <2>5, UpstreamStep
<1>6. CASE /\ cache[key] # None
           /\ Answer(r, "200", "whole", cache[key])
           /\ LogRequest(r, "200", TRUE)
           /\ UNCHANGED cache
  <2> PICK from \in Entry : from = cache[key]
    BY <1>1, <1>3, <1>6 DEF TypeOK
  <2>1. Answer(r, "200", "whole", from) /\ from # None
    BY <1>6
  <2>2. TRUE \in seen[r]
    BY <1>1 DEF RequestInv, Authenticated, Acceptable, CheckModelAllowed
  <2>3. /\ cache' \in [Key -> Entry \cup {None}]
        /\ \A k \in Key : EntryInv(k)'
        /\ CacheBound'
    BY <1>2, <1>6, CacheStays
  <2>4. "200" \in Served /\ from \in Entry \cup {None}
    BY DEF Served
  <2> QED
    BY <1>1, <1>2, <1>6, <2>1, <2>2, <2>3, <2>4, AnswerStep
<1> QED
  BY <1>4, <1>5, <1>6 DEF LookCache

LEMMA NewEntry ==
    ASSUME TypeOK, NEW r \in Req, reqs[r].at = "upstream", RequestInv(r)
    PROVE  [exp |-> clock + TTL, born |-> clock,
            secret |-> reqs[r].secret, body |-> reqs[r].body] \in Entry
<1>1. clock + TTL \in Nat /\ clock \in Nat
  BY AccessAssumption DEF TypeOK
<1>2. reqs[r].body \in Body
  BY DEF RequestInv, Begun
<1>3. reqs[r].secret \in Secret
  BY DEF RequestInv, Begun
<1> QED
  BY <1>1, <1>2, <1>3 DEF Entry

\* The cache stays within its limit and holds what its keys say.
LEMMA StoreAnswerStep ==
    ASSUME IInv, NEW r \in Req, reqs[r].at = "upstream", StoreAnswer(r),
           UNCHANGED <<tokens, issued>>
    PROVE  /\ cache' \in [Key -> Entry \cup {None}]
           /\ \A k \in Key : EntryInv(k)'
           /\ CacheBound'
<1> DEFINE key == CacheKey(reqs[r].id, reqs[r].body)
           full == Cardinality(Cached) >= CacheMax
           kept == [k \in Key |-> IF full /\ k \notin Live THEN None ELSE cache[k]]
           entry == [exp |-> clock + TTL, born |-> clock,
                     secret |-> reqs[r].secret, body |-> reqs[r].body]
<1>1. TypeOK /\ RequestInv(r) /\ CacheBound
  BY DEF IInv
<1>2. /\ key \in Key /\ key[1] = reqs[r].id /\ key[2] = reqs[r].body
      /\ RowOf(reqs[r].secret, reqs[r].id) /\ reqs[r].secret <= issued
  BY <1>1, KeyOf DEF RequestInv, Identified, Begun
<1>3. entry \in Entry
  BY <1>1, NewEntry
<1>4. /\ entry.exp = entry.born + TTL /\ entry.secret = reqs[r].secret
      /\ entry.body = reqs[r].body
  OBVIOUS
<1>5. cache' = IF full /\ Cardinality(Live) >= CacheMax THEN kept
               ELSE [kept EXCEPT ![key] = entry]
  BY DEF StoreAnswer
<1>6. /\ kept \in [Key -> Entry \cup {None}]
      /\ \A k \in Key : kept[k] = None \/ kept[k] = cache[k]
      /\ \A k \in Key : full /\ k \notin Live => kept[k] = None
  BY <1>1 DEF TypeOK
<1> HIDE DEF kept, entry, key
<1>7. cache' \in [Key -> Entry \cup {None}]
  BY <1>2, <1>3, <1>5, <1>6
<1>8. \A k \in Key : cache'[k] = kept[k] \/ (k = key /\ cache'[k] = entry)
  BY <1>2, <1>5, <1>6
<1>9. \A k \in Key : EntryInv(k)'
  <2> SUFFICES ASSUME NEW k \in Key
               PROVE  EntryInv(k)'
    OBVIOUS
  <2>1. CASE cache'[k] = kept[k]
    BY <2>1, <1>6 DEF IInv, EntryInv, RowOf
  <2>2. CASE k = key /\ cache'[k] = entry
    BY <2>2, <1>2, <1>4 DEF EntryInv, RowOf
  <2> QED
    BY <1>8, <2>1, <2>2
<1>10. CacheBound'
  <2>1. Live \subseteq Cached
    BY DEF Live
  <2>2. Cardinality(Cached) \in Nat /\ Cardinality(Live) \in Nat /\ CacheMax \in Nat
    BY <2>1, CachedFinite, AccessAssumption
  <2>3. CASE full /\ Cardinality(Live) >= CacheMax
    <3>1. Cached' \subseteq Cached
      BY <2>3, <1>5, <1>6 DEF Cached
    <3> QED
      BY <1>1, <3>1, NoMore
  <2>4. CASE full /\ ~(Cardinality(Live) >= CacheMax)
    <3>1. Cached' \subseteq Live \cup {key}
      BY <2>4, <1>6, <1>8 DEF Cached
    <3>2. Cardinality(Live) < CacheMax
      BY <2>2, <2>4
    <3> QED
      BY <2>1, <3>1, <3>2, OneMore
  <2>5. CASE ~full
    <3>1. Cached' \subseteq Cached \cup {key}
      BY <1>6, <1>8 DEF Cached
    <3>2. Cardinality(Cached) < CacheMax
      BY <2>2, <2>5
    <3> QED
      BY <3>1, <3>2, OneMore
  <2> QED
    BY <2>3, <2>4, <2>5
<1> QED
  BY <1>7, <1>9, <1>10

\* A request at an upstream was granted.
LEMMA AtUpstream ==
    ASSUME IInv, NEW r \in Req, reqs[r].at = "upstream"
    PROVE  TRUE \in seen[r]
BY DEF IInv, RequestInv, Justified

LEMMA CompleteStep ==
    ASSUME IInv, Remember, NEW r \in Req, Complete(r)
    PROVE  IInv'
<1>1. /\ reqs[r].at = "upstream" /\ StoreAnswer(r) /\ LogRequest(r, "200", FALSE)
      /\ Answer(r, "200", "whole", None)
      /\ UNCHANGED <<users, tokens, logs, adm, issued, clock, ops>>
  BY DEF Complete
<1>2. "200" \in Served /\ TRUE \in seen[r]
  BY <1>1, AtUpstream DEF Served
<1>3. /\ cache' \in [Key -> Entry \cup {None}]
      /\ \A k \in Key : EntryInv(k)'
      /\ CacheBound'
  BY <1>1, StoreAnswerStep
<1> QED
  BY <1>1, <1>2, <1>3, AnswerStep

LEMMA SerializeFailsStep ==
    ASSUME IInv, Remember, NEW r \in Req, SerializeFails(r)
    PROVE  IInv'
<1> PICK q : q = Answered(r, "500", "garbled", None)
  OBVIOUS
<1>1. /\ reqs[r].at = "upstream" /\ Set(r, q) /\ TypeOK
      /\ UNCHANGED <<users, tokens, logs, cache, pending, adm, issued, clock, ops>>
  BY DEF SerializeFails, Answer, IInv
<1>2. /\ "500" \in Status /\ "500" \in Served /\ TRUE \in seen[r]
      /\ None \in Entry \cup {None}
  BY <1>1, AtUpstream DEF Status, Served
<1>3. q \in Request /\ q.at = "done" /\ q.body = None /\ q.status = "500"
  BY <1>1, <1>2, AnswerFields
<1>4. Moves(r, q)
  BY <1>1, <1>3 DEF Moves
<1>5. RequestInv(r)'
  BY <1>1, <1>2, <1>3, <1>4, ServedInv
<1>6. LogInv' /\ logs' \subseteq Log /\ pending' \subseteq Log
  BY <1>1, <1>4, Quiet
<1> QED
  BY <1>1, <1>4, <1>5, <1>6, CacheStays, MoveInv

LEMMA StreamEndsStep ==
    ASSUME IInv, Remember, NEW r \in Req, StreamEnds(r)
    PROVE  IInv'
<1>1. /\ reqs[r].at = "upstream"
      /\ UNCHANGED <<users, tokens, logs, cache, adm, issued, clock, ops>>
  BY DEF StreamEnds
<1>2. "200" \in Served /\ TRUE \in seen[r]
  BY <1>1, AtUpstream DEF Served
<1>3. /\ cache' \in [Key -> Entry \cup {None}]
      /\ \A k \in Key : EntryInv(k)'
      /\ CacheBound'
  BY <1>1, CacheStays
<1>4. CASE LogRequest(r, "200", FALSE) /\ Answer(r, "200", "whole", None)
  BY <1>1, <1>2, <1>3, <1>4, AnswerStep
<1>5. CASE LogRequest(r, "0", FALSE) /\ Answer(r, "200", "broken", None)
  BY <1>1, <1>2, <1>3, <1>5, AnswerStep
<1> QED
  BY <1>4, <1>5 DEF StreamEnds

\* The two mappings of the router's errors agree.
LEMMA StatusesAgree ==
    ASSUME NEW err \in RouteError
    PROVE  /\ ErrorStatus(err) \in Served
           /\ RouteErrorStatus(err) = ErrorStatus(err)
BY DEF RouteError, ErrorStatus, RouteErrorStatus, Served

LEMMA FailStep ==
    ASSUME IInv, Remember, NEW r \in Req, Fail(r)
    PROVE  IInv'
<1>1. PICK err \in RouteError :
         /\ LogRequest(r, ErrorStatus(err), FALSE)
         /\ Answer(r, RouteErrorStatus(err), "whole", None)
  BY DEF Fail
<1>2. PICK status \in Served :
         status = ErrorStatus(err) /\ status = RouteErrorStatus(err)
  BY StatusesAgree
<1>3. LogRequest(r, status, FALSE) /\ Answer(r, status, "whole", None)
  BY <1>1, <1>2
<1>4. /\ reqs[r].at = "upstream"
      /\ UNCHANGED <<users, tokens, logs, cache, adm, issued, clock, ops>>
  BY DEF Fail
<1>5. TRUE \in seen[r]
  BY <1>4, AtUpstream
<1>6. /\ cache' \in [Key -> Entry \cup {None}]
      /\ \A k \in Key : EntryInv(k)'
      /\ CacheBound'
  BY <1>4, CacheStays
<1> QED
  BY <1>3, <1>4, <1>5, <1>6, AnswerStep

-----------------------------------------------------------------------------
(* Steps of the process and of administrators.                             *)

\* The database may change, the requests stay.
LEMMA RequestsStay ==
    ASSUME IInv, Remember, Evolves, UNCHANGED <<reqs, cache>>,
           users' \subseteq User, tokens' \in [Id -> Token \cup {None}],
           adm' \in [Admin -> Handler],
           issued' \in Nat, issued' \in Secret \cup {0}, clock' \in Nat, ops' \in Nat,
           TokensOwned', logs' \cup pending' \subseteq logs \cup pending
    PROVE  IInv'
<1>1. TypeOK'
  <2>1. seen' \in [Req -> SUBSET BOOLEAN]
    BY SeenType DEF IInv
  <2>2. logs' \subseteq Log /\ pending' \subseteq Log
    BY DEF IInv, TypeOK
  <2>3. /\ reqs' \in [Req -> Request] /\ cache' \in [Key -> Entry \cup {None}]
    BY DEF IInv, TypeOK
  <2> QED
    BY <2>1, <2>2, <2>3 DEF TypeOK
<1>2. SecretsKnown'
  BY <1>1, SecretsStay DEF IInv
<1>3. \A p \in Req : RequestInv(p)'
  BY RequestStays DEF IInv
<1>4. \A k \in Key : EntryInv(k)'
  BY <1>1, EntryStays DEF IInv
<1>5. LogInv'
  BY DEF IInv, LogInv, LogsTruthful
<1>6. CacheBound'
  BY DEF IInv, CacheBound, Cached
<1> QED
  BY <1>1, <1>2, <1>3, <1>4, <1>5, <1>6 DEF IInv

\* The administrator's handler moves and nothing else does.
LEMMA HandlerStep ==
    ASSUME IInv, Remember, NEW a \in Admin, NEW h \in Handler, Step(a, h),
           ops' \in {ops, ops + 1},
           UNCHANGED <<users, tokens, reqs, cache, pending, logs, issued, clock>>
    PROVE  IInv'
<1>1. TypeOK /\ TokensOwned
  BY DEF IInv
<1>2. adm' \in [Admin -> Handler] /\ ops' \in Nat
  BY <1>1 DEF TypeOK, Step
<1>3. Evolves /\ issued' \in Nat
  BY <1>1, StaysEvolves
<1>4. /\ users' \subseteq User /\ tokens' \in [Id -> Token \cup {None}]
      /\ issued' \in Secret \cup {0} /\ clock' \in Nat
  BY <1>1 DEF TypeOK
<1>5. TokensOwned' /\ logs' \cup pending' \subseteq logs \cup pending
  BY <1>1 DEF TokensOwned, Rows
<1> QED
  BY <1>2, <1>3, <1>4, <1>5, RequestsStay

\* Rows are edited or deleted: no new row, no new owner, no new secret.
LEMMA RowsStep ==
    ASSUME IInv, Remember, adm' \in [Admin -> Handler], ops' \in {ops, ops + 1},
           tokens' \in [Id -> Token \cup {None}],
           \A i \in Id : tokens'[i] # None =>
              /\ tokens[i] # None
              /\ tokens'[i].secret = tokens[i].secret
              /\ tokens'[i].user = tokens[i].user,
           UNCHANGED <<users, reqs, cache, pending, logs, issued, clock>>
    PROVE  IInv'
<1>1. TypeOK /\ TokensOwned
  BY DEF IInv
<1>2. /\ users' \subseteq User /\ issued' \in Nat /\ issued' \in Secret \cup {0}
      /\ clock' \in Nat /\ ops' \in Nat
  BY <1>1 DEF TypeOK
<1>3. Evolves
  BY <1>1 DEF TypeOK, Evolves
<1>4. TokensOwned' /\ logs' \cup pending' \subseteq logs \cup pending
  BY <1>1 DEF TokensOwned, Rows
<1> QED
  BY <1>2, <1>3, <1>4, RequestsStay

LEMMA CreateStep ==
    ASSUME IInv, Remember, NEW a \in Admin, CreateToken(a) \/ CopyToken(a)
    PROVE  IInv'
<1>1. TypeOK
  BY DEF IInv
<1>2. \E u \in User, models \in SUBSET Model :
         Step(a, [Idle EXCEPT !.at = "insert", !.user = u, !.models = models])
  <2>1. CASE CreateToken(a)
    BY <2>1, <1>1 DEF CreateToken, TypeOK
  <2>2. CASE CopyToken(a)
    <3>1. PICK u \in users, i \in Rows :
             Step(a, [Idle EXCEPT !.at = "insert", !.user = u,
                                  !.models = tokens[i].models])
      BY <2>2 DEF CopyToken
    <3>2. tokens[i] \in Token
      BY <1>1 DEF TypeOK, Rows
    <3>3. tokens[i].models \in SUBSET Model
      BY <3>2 DEF Token
    <3> QED
      BY <1>1, <3>1, <3>3 DEF TypeOK
  <2> QED
    BY <2>1, <2>2
<1>3. PICK u \in User, models \in SUBSET Model :
         Step(a, [Idle EXCEPT !.at = "insert", !.user = u, !.models = models])
  BY <1>2
<1>4. [Idle EXCEPT !.at = "insert", !.user = u, !.models = models] \in Handler
  BY DEF Idle, Handler
<1>5. /\ ops' \in {ops, ops + 1}
      /\ UNCHANGED <<users, tokens, reqs, cache, pending, logs, issued, clock>>
  BY DEF CreateToken, CopyToken, Begin
<1> QED
  BY <1>3, <1>4, <1>5, HandlerStep

LEMMA IdleType == Idle \in Handler
BY DEF Idle, Handler

LEMMA InsertTokenStep ==
    ASSUME IInv, Remember, NEW a \in Admin, InsertToken(a)
    PROVE  IInv'
<1>1. TypeOK /\ TokensOwned /\ SecretsKnown
  BY DEF IInv
<1>2. /\ issued + 1 \in Secret /\ issued' = issued + 1 /\ Step(a, Idle)
      /\ UNCHANGED <<users, logs, cache, pending, reqs, clock, ops>>
  BY DEF InsertToken
<1>3. /\ adm' \in [Admin -> Handler] /\ issued \in Nat /\ issued' \in Nat
      /\ issued' \in Secret \cup {0} /\ ops' \in Nat /\ clock' \in Nat
      /\ users' \subseteq User
  BY <1>1, <1>2, IdleType DEF TypeOK, Step
<1>4. CASE adm[a].user \notin users
  <2>1. tokens' = tokens
    BY <1>4 DEF InsertToken
  <2>2. Evolves /\ TokensOwned' /\ tokens' \in [Id -> Token \cup {None}]
    BY <1>1, <1>2, <1>3, <2>1 DEF Evolves, TokensOwned, Rows, TypeOK
  <2> QED
    BY <1>2, <1>3, <2>2, RequestsStay
<1>5. CASE adm[a].user \in users
  <2> DEFINE row == [secret |-> issued + 1, user |-> adm[a].user,
                     models |-> adm[a].models, enabled |-> TRUE]
  <2>1. PICK i \in Id : tokens' = [tokens EXCEPT ![i] = row]
    BY <1>5 DEF InsertToken
  <2>2. adm[a] \in Handler
    BY <1>1 DEF TypeOK
  <2>3. adm[a].models \in SUBSET Model
    BY <2>2 DEF Handler
  <2>4. adm[a].user \in User
    BY <1>1, <1>5 DEF TypeOK
  <2>5. /\ row \in Token /\ row.secret = issued + 1 /\ row.user = adm[a].user
    BY <1>2, <2>3, <2>4 DEF Token
  <2> HIDE DEF row
  <2>6. /\ tokens' \in [Id -> Token \cup {None}] /\ tokens'[i] = row
        /\ \A j \in Id : j # i => tokens'[j] = tokens[j]
    BY <1>1, <2>1, <2>5 DEF TypeOK
  <2>7. Evolves
    BY <1>2, <1>3, <2>5, <2>6 DEF Evolves
  <2>8. TokensOwned'
    BY <1>1, <1>2, <1>5, <2>5, <2>6 DEF TokensOwned, Rows
  <2> QED
    BY <1>2, <1>3, <2>6, <2>7, <2>8, RequestsStay
<1> QED
  BY <1>4, <1>5

LEMMA EditStep ==
    ASSUME IInv, Remember, NEW a \in Admin, EditWhitelist(a) \/ ToggleToken(a)
    PROVE  IInv'
<1>1. TypeOK
  BY DEF IInv
<1>2. /\ ops' \in {ops, ops + 1}
      /\ UNCHANGED <<users, tokens, reqs, cache, pending, logs, issued, clock>>
  BY DEF EditWhitelist, ToggleToken, Begin
<1>3. CASE EditWhitelist(a)
  <2>1. PICK i \in Rows, models \in SUBSET Model :
           Step(a, [Idle EXCEPT !.at = "whitelist", !.id = i, !.models = models])
    BY <1>3 DEF EditWhitelist
  <2>2. [Idle EXCEPT !.at = "whitelist", !.id = i, !.models = models] \in Handler
    BY DEF Idle, Handler, Rows
  <2> QED
    BY <1>2, <2>1, <2>2, HandlerStep
<1>4. CASE ToggleToken(a)
  <2>1. PICK i \in Rows :
           Step(a, [Idle EXCEPT !.at = "toggle", !.id = i,
                                !.enabled = ~tokens[i].enabled])
    BY <1>4 DEF ToggleToken
  <2>2. PICK on \in BOOLEAN : on = ~tokens[i].enabled
    OBVIOUS
  <2>3. [Idle EXCEPT !.at = "toggle", !.id = i, !.enabled = on] \in Handler
    BY DEF Idle, Handler, Rows
  <2> QED
    BY <1>2, <2>1, <2>2, <2>3, HandlerStep
<1> QED
  BY <1>3, <1>4

\* An UPDATE of one row by its id.
LEMMA UpdateStep ==
    ASSUME IInv, Remember, NEW a \in Admin,
           UpdateTokenWhitelist(a) \/ SetTokenEnabled(a)
    PROVE  IInv'
<1>1. TypeOK
  BY DEF IInv
<1>2. /\ adm' \in [Admin -> Handler] /\ ops' \in {ops, ops + 1}
      /\ UNCHANGED <<users, reqs, cache, pending, logs, issued, clock>>
  BY <1>1, IdleType DEF TypeOK, UpdateTokenWhitelist, SetTokenEnabled, Step
<1>3. adm[a] \in Handler
  BY <1>1 DEF TypeOK
<1>4. adm[a].models \in SUBSET Model /\ adm[a].enabled \in BOOLEAN
  BY <1>3 DEF Handler
<1>5. /\ tokens' \in [Id -> Token \cup {None}]
      /\ \A i \in Id : tokens'[i] # None =>
            /\ tokens[i] # None
            /\ tokens'[i].secret = tokens[i].secret
            /\ tokens'[i].user = tokens[i].user
  <2>1. CASE adm[a].id \notin Rows
    <3>1. tokens' = tokens
      BY <2>1 DEF UpdateTokenWhitelist, SetTokenEnabled
    <3> QED
      BY <1>1, <3>1 DEF TypeOK
  <2>2. CASE adm[a].id \in Rows
    <3>1. PICK t \in Token : t = tokens[adm[a].id] /\ tokens[adm[a].id] # None
      BY <1>1, <2>2 DEF TypeOK, Rows
    <3>2. PICK models \in SUBSET Model, on \in BOOLEAN :
             models = adm[a].models /\ on = adm[a].enabled
      BY <1>4
    <3>3. /\ [t EXCEPT !.models = models] \in Token
          /\ [t EXCEPT !.models = models].secret = t.secret
          /\ [t EXCEPT !.models = models].user = t.user
      BY DEF Token
    <3>4. /\ [t EXCEPT !.enabled = on] \in Token
          /\ [t EXCEPT !.enabled = on].secret = t.secret
          /\ [t EXCEPT !.enabled = on].user = t.user
      BY DEF Token
    <3>5. \/ tokens' = [tokens EXCEPT ![adm[a].id] = [t EXCEPT !.models = models]]
          \/ tokens' = [tokens EXCEPT ![adm[a].id] = [t EXCEPT !.enabled = on]]
      BY <2>2, <3>1, <3>2 DEF UpdateTokenWhitelist, SetTokenEnabled
    <3>6. PICK u \in Token : /\ u.secret = t.secret /\ u.user = t.user
                             /\ tokens' = [tokens EXCEPT ![adm[a].id] = u]
      BY <3>3, <3>4, <3>5
    <3> QED
      BY <1>1, <3>1, <3>6 DEF TypeOK
  <2> QED
    BY <2>1, <2>2
<1> QED
  BY <1>2, <1>5, RowsStep

LEMMA RevokeTokenStep ==
    ASSUME IInv, Remember, NEW a \in Admin, RevokeToken(a)
    PROVE  IInv'
<1>1. TypeOK
  BY DEF IInv
<1>2. PICK i \in Rows : tokens' = [tokens EXCEPT ![i] = None]
  BY DEF RevokeToken
<1>3. /\ adm' \in [Admin -> Handler] /\ ops' \in {ops, ops + 1}
      /\ UNCHANGED <<users, reqs, cache, pending, logs, issued, clock>>
  BY <1>1 DEF TypeOK, RevokeToken, Begin
<1>4. /\ tokens' \in [Id -> Token \cup {None}]
      /\ \A j \in Id : tokens'[j] # None =>
            /\ tokens[j] # None
            /\ tokens'[j].secret = tokens[j].secret
            /\ tokens'[j].user = tokens[j].user
  BY <1>1, <1>2 DEF TypeOK
<1> QED
  BY <1>3, <1>4, RowsStep

LEMMA DeleteTokensStep ==
    ASSUME IInv, Remember, NEW a \in Admin, DeleteTokensOf(a)
    PROVE  IInv'
<1>1. TypeOK
  BY DEF IInv
<1>2. PICK u \in users :
         /\ tokens' = [i \in Id |-> IF i \in Rows /\ tokens[i].user = u
                                    THEN None ELSE tokens[i]]
         /\ Step(a, [Idle EXCEPT !.at = "delete_user", !.user = u])
  BY DEF DeleteTokensOf
<1>3. [Idle EXCEPT !.at = "delete_user", !.user = u] \in Handler
  BY <1>1 DEF Idle, Handler, TypeOK
<1>4. /\ adm' \in [Admin -> Handler] /\ ops' \in {ops, ops + 1}
      /\ UNCHANGED <<users, reqs, cache, pending, logs, issued, clock>>
  BY <1>1, <1>2, <1>3 DEF TypeOK, DeleteTokensOf, Begin, Step
<1>5. /\ tokens' \in [Id -> Token \cup {None}]
      /\ \A j \in Id : tokens'[j] # None =>
            /\ tokens[j] # None
            /\ tokens'[j].secret = tokens[j].secret
            /\ tokens'[j].user = tokens[j].user
  BY <1>1, <1>2 DEF TypeOK
<1> QED
  BY <1>4, <1>5, RowsStep

LEMMA DeleteUserStep ==
    ASSUME IInv, Remember, NEW a \in Admin, DeleteUser(a)
    PROVE  IInv'
<1>1. TypeOK /\ TokensOwned
  BY DEF IInv
<1>2. /\ adm' \in [Admin -> Handler]
      /\ UNCHANGED <<tokens, logs, cache, pending, reqs, issued, clock, ops>>
  BY <1>1, IdleType DEF TypeOK, DeleteUser, Step
<1>3. users' \subseteq User /\ TokensOwned'
  BY <1>1, <1>2 DEF TypeOK, TokensOwned, Rows, DeleteUser
<1>4. Evolves /\ issued' \in Nat
  BY <1>1, <1>2, StaysEvolves
<1>5. /\ tokens' \in [Id -> Token \cup {None}] /\ issued' \in Secret \cup {0}
      /\ clock' \in Nat /\ ops' \in Nat
  BY <1>1, <1>2 DEF TypeOK
<1> QED
  BY <1>2, <1>3, <1>4, <1>5, RequestsStay

LEMMA WriteLogStep ==
    ASSUME IInv, Remember, WriteLog \/ Tick
    PROVE  IInv'
<1>1. TypeOK /\ TokensOwned
  BY DEF IInv
<1>2. /\ UNCHANGED <<users, tokens, cache, reqs, adm, issued, ops>>
      /\ logs' \cup pending' \subseteq logs \cup pending
      /\ clock' \in {clock, clock + 1}
  BY DEF WriteLog, Tick
<1>3. /\ users' \subseteq User /\ tokens' \in [Id -> Token \cup {None}]
      /\ adm' \in [Admin -> Handler]
      /\ issued' \in Secret \cup {0} /\ clock' \in Nat /\ ops' \in Nat
  BY <1>1, <1>2 DEF TypeOK
<1>4. Evolves /\ issued' \in Nat
  BY <1>1, <1>2, StaysEvolves
<1>5. TokensOwned'
  BY <1>1, <1>2 DEF TokensOwned, Rows
<1> QED
  BY <1>2, <1>3, <1>4, <1>5, RequestsStay

LEMMA RestartStep ==
    ASSUME IInv, Remember, Restart
    PROVE  IInv'
<1>1. TypeOK /\ TokensOwned
  BY DEF IInv
<1>2. /\ UNCHANGED <<users, tokens, logs, issued, clock>>
      /\ cache' = [k \in Key |-> None] /\ pending' = {}
      /\ adm' = [a \in Admin |-> Idle] /\ ops' = ops + 1
  BY DEF Restart
<1>3. Evolves /\ issued' \in Nat
  BY <1>1, <1>2, StaysEvolves
<1>4. ASSUME NEW r \in Req, reqs[r].at \notin {"idle", "done"}
      PROVE  /\ reqs'[r] \in Request /\ reqs'[r].at = "lost"
             /\ reqs'[r].body = reqs[r].body /\ reqs'[r].secret = reqs[r].secret
             /\ reqs'[r].status = reqs[r].status /\ reqs'[r].from = reqs[r].from
  <2>1. reqs'[r] = [reqs[r] EXCEPT !.at = "lost"]
    BY <1>4 DEF Restart
  <2>2. reqs[r] \in Request
    BY <1>1 DEF TypeOK
  <2>3. [reqs[r] EXCEPT !.at = "lost"] \in Request
    BY <2>2, SetAt
  <2> QED
    BY <2>1, <2>2, <2>3 DEF Request
<1>5. ASSUME NEW r \in Req, reqs[r].at \in {"idle", "done"}
      PROVE  reqs'[r] = reqs[r]
  BY <1>5 DEF Restart
<1>6. reqs' \in [Req -> Request]
  <2>1. \A r \in Req : reqs'[r] \in Request
    BY <1>1, <1>4, <1>5 DEF TypeOK
  <2>2. reqs' = [r \in Req |-> reqs'[r]]
    BY DEF Restart
  <2> QED
    BY <2>1, <2>2
<1>7. TypeOK'
  <2>1. seen' \in [Req -> SUBSET BOOLEAN]
    BY <1>1, SeenType
  <2>2. cache' \in [Key -> Entry \cup {None}] /\ adm' \in [Admin -> Handler]
    BY <1>2, IdleType
  <2>3. ops' \in Nat
    BY <1>1, <1>2 DEF TypeOK
  <2> QED
    BY <1>1, <1>2, <1>6, <2>1, <2>2, <2>3 DEF TypeOK
<1>8. SecretsKnown' /\ TokensOwned'
  BY <1>2 DEF IInv, SecretsKnown, TokensOwned, Rows
<1>9. \A p \in Req : RequestInv(p)'
  <2> SUFFICES ASSUME NEW p \in Req
               PROVE  RequestInv(p)'
    OBVIOUS
  <2>1. RequestInv(p)
    BY DEF IInv
  <2>2. CASE reqs[p].at \in {"idle", "done"}
    BY <1>3, <1>5, <2>1, <2>2, RequestStays DEF IInv
  <2>3. CASE reqs[p].at \notin {"idle", "done"}
    <3>1. reqs[p].status = "none" /\ reqs[p].from = None
      BY <2>1, <2>3 DEF RequestInv, Begun
    <3>2. Begun(p)'
      BY <1>2, <1>4, <2>1, <2>3, <3>1 DEF RequestInv, Begun
    <3> QED
      BY <1>4, <2>3, <3>1, <3>2
         DEF RequestInv, Authenticated, OwnerSeen, Identified, Justified, Served
  <2> QED
    BY <2>2, <2>3
<1>10. \A k \in Key : EntryInv(k)'
  BY <1>2 DEF EntryInv
<1>11. LogInv'
  <2>1. \A l \in logs : l.req \in Req /\ reqs[l.req].at = "done"
    BY <1>1 DEF IInv, LogInv, TypeOK, Log
  <2>2. \A l \in logs : reqs'[l.req] = reqs[l.req]
    BY <1>5, <2>1
  <2> QED
    BY <1>2, <2>1, <2>2 DEF IInv, LogInv, LogsTruthful
<1>12. CacheBound'
  <2>1. Cached' \subseteq Cached
    BY <1>2 DEF Cached
  <2> QED
    BY <2>1, NoMore DEF IInv
<1> QED
  BY <1>7, <1>8, <1>9, <1>10, <1>11, <1>12 DEF IInv

-----------------------------------------------------------------------------
(* The invariant is inductive.                                             *)

LEMMA InitInv ==
    ASSUME Init
    PROVE  IInv
<1>1. TypeOK
  <2>1. NoRequest \in Request
    BY DEF NoRequest, Request, Status
  <2>2. reqs \in [Req -> Request] /\ adm \in [Admin -> Handler]
    BY <2>1, IdleType DEF Init
  <2>3. /\ tokens \in [Id -> Token \cup {None}] /\ cache \in [Key -> Entry \cup {None}]
        /\ seen \in [Req -> SUBSET BOOLEAN]
    BY AccessAssumption DEF Init
  <2>4. issued \in Nat /\ issued \in Secret \cup {0} /\ clock \in Nat /\ ops \in Nat
    BY AccessAssumption DEF Init
  <2> QED
    BY <2>2, <2>3, <2>4 DEF Init, TypeOK
<1>2. SecretsKnown
  BY AccessAssumption DEF Init, SecretsKnown
<1>3. TokensOwned
  <2>1. \A i \in Id : InitTokens[i] # None => InitTokens[i] \in Token
    BY AccessAssumption
  <2>2. \A i \in Id : InitTokens[i] # None => InitTokens[i].user \in User
    BY <2>1 DEF Token
  <2> QED
    BY <2>2 DEF Init, TokensOwned, Rows
<1>4. \A r \in Req : RequestInv(r)
  BY DEF Init, NoRequest, RequestInv, Begun, Authenticated, OwnerSeen, Identified,
         Justified, Served
<1>5. \A k \in Key : EntryInv(k)
  BY DEF Init, EntryInv
<1>6. LogInv
  BY DEF Init, LogInv, LogsTruthful
<1>7. CacheBound
  <2>1. Cached = {}
    BY DEF Init, Cached
  <2>2. Cardinality(Cached) = 0
    BY <2>1, FS_EmptySet
  <2> QED
    BY <2>2, AccessAssumption DEF CacheBound
<1> QED
  BY <1>1, <1>2, <1>3, <1>4, <1>5, <1>6, <1>7 DEF IInv

LEMMA StepInv ==
    ASSUME IInv, [Next]_vars
    PROVE  IInv'
<1>1. CASE UNCHANGED vars
  <2>1. UNCHANGED <<users, tokens, logs, cache, pending, reqs, adm, issued, clock,
                    ops, seen>>
    BY <1>1 DEF vars
  <2>2. \A r \in Req : RequestInv(r)'
    BY <2>1 DEF IInv, RequestInv, Begun, Authenticated, OwnerSeen, Owned, Identified,
          RowOf, Justified
  <2>3. (\A k \in Key : EntryInv(k)') /\ CacheBound'
    BY <2>1 DEF IInv, EntryInv, RowOf, CacheBound, Cached
  <2>4. LogInv'
    BY <2>1 DEF IInv, LogInv, LogsTruthful
  <2>5. TypeOK' /\ SecretsKnown' /\ TokensOwned'
    BY <2>1 DEF IInv, TypeOK, SecretsKnown, TokensOwned, Rows
  <2> QED
    BY <2>2, <2>3, <2>4, <2>5 DEF IInv
<1>2. ASSUME Remember, NEW r \in Req, Handle(r)
      PROVE  IInv'
  BY <1>2, ArriveStep, LookupTokenStep, LookupUserStep, RefuseStep, LookCacheStep,
     CompleteStep, SerializeFailsStep, StreamEndsStep, FailStep DEF Handle
<1>3. ASSUME Remember, NEW a \in Admin, Administer(a)
      PROVE  IInv'
  BY <1>3, CreateStep, InsertTokenStep, EditStep, UpdateStep, RevokeTokenStep,
     DeleteTokensStep, DeleteUserStep DEF Administer
<1>4. ASSUME Remember, WriteLog \/ Tick \/ Restart
      PROVE  IInv'
  BY <1>4, WriteLogStep, RestartStep
<1> QED
  BY <1>1, <1>2, <1>3, <1>4 DEF Next

-----------------------------------------------------------------------------
(* Cache hits.                                                             *)

\* Only a hit of the cache sets from.
LEMMA OnlyHits ==
    ASSUME TypeOK, [Next]_vars, NEW r \in Req, reqs[r].from = None, reqs'[r].from # None
    PROVE  /\ LookCache(r) /\ cache[CacheKey(reqs[r].id, reqs[r].body)] # None
           /\ ~Expired(cache[CacheKey(reqs[r].id, reqs[r].body)])
           /\ reqs'[r].from = cache[CacheKey(reqs[r].id, reqs[r].body)]
<1>1. \A p \in Req : reqs[p] \in Request
  BY DEF TypeOK
<1>2. reqs' # reqs /\ ~UNCHANGED vars
  BY DEF vars
<1>3. ~(\E a \in Admin : Administer(a)) /\ ~WriteLog /\ ~Tick
  BY <1>2 DEF Administer, CreateToken, CopyToken, InsertToken, EditWhitelist,
         UpdateTokenWhitelist, ToggleToken, SetTokenEnabled, RevokeToken,
         DeleteTokensOf, DeleteUser, WriteLog, Tick
<1>4. ~Restart
  <2> SUFFICES ASSUME Restart
               PROVE  FALSE
    OBVIOUS
  <2>1. reqs'[r] = reqs[r] \/ reqs'[r] = [reqs[r] EXCEPT !.at = "lost"]
    BY DEF Restart
  <2>2. reqs'[r].from = reqs[r].from
    BY <1>1, <2>1 DEF Request
  <2> QED
    BY <2>2
<1>5. PICK p \in Req : Handle(p)
  BY <1>2, <1>3, <1>4 DEF Next
<1>6. \E q : Set(p, q)
  BY <1>5 DEF Handle, Arrive, LookupToken, LookupUser, Refuse, LookCache, Complete,
        SerializeFails, StreamEnds, Fail, Reject, Answer
<1>7. p = r
  <2>1. p # r => reqs'[r] = reqs[r]
    BY <1>6 DEF Set, TypeOK
  <2> QED
    BY <2>1
<1>8. \A q : Set(r, q) => reqs'[r] = q
  BY DEF Set, TypeOK
<1>9. /\ \A at : ~Set(r, [reqs[r] EXCEPT !.at = at])
      /\ ~Reject(r)
      /\ \A status, end : ~Answer(r, status, end, None)
  <2>1. ASSUME NEW at
        PROVE  ~Set(r, [reqs[r] EXCEPT !.at = at])
    <3>1. [reqs[r] EXCEPT !.at = at].from = reqs[r].from
      BY <1>1 DEF Request
    <3> QED
      BY <1>8, <3>1
  <2>2. ~Reject(r)
    <3>1. [Ended(r) EXCEPT !.status = "refused"].from = reqs[r].from
      BY RefusedFields
    <3> QED
      BY <1>8, <3>1 DEF Reject
  <2>3. ASSUME NEW status, NEW end
        PROVE  ~Answer(r, status, end, None)
    <3>1. Answered(r, status, end, None).from = None
      BY <1>1 DEF Request, Ended, Answered
    <3> QED
      BY <1>8, <3>1 DEF Answer
  <2> QED
    BY <2>1, <2>2, <2>3
<1>10. ~Arrive(r)
  <2> SUFFICES ASSUME Arrive(r)
               PROVE  FALSE
    OBVIOUS
  <2>1. PICK secret, body, stream :
           Set(r, [reqs[r] EXCEPT !.at = "token", !.secret = secret,
                                  !.body = body, !.stream = stream])
    BY DEF Arrive
  <2> QED
    BY <1>1, <1>8, <2>1 DEF Request
<1>11. ~LookupToken(r)
  <2> SUFFICES ASSUME LookupToken(r)
               PROVE  FALSE
    OBVIOUS
  <2>1. CASE Reject(r)
    BY <1>9, <2>1
  <2>2. CASE ~Reject(r)
    <3>1. PICK i : Set(r, [reqs[r] EXCEPT !.at = "user", !.id = i, !.token = tokens[i]])
      BY <2>2 DEF LookupToken
    <3> QED
      BY <1>1, <1>8, <3>1 DEF Request
  <2> QED
    BY <2>1, <2>2
<1>12. ~LookupUser(r) /\ ~Refuse(r)
  BY <1>9 DEF LookupUser, Refuse
<1>13. ~Complete(r) /\ ~SerializeFails(r) /\ ~StreamEnds(r) /\ ~Fail(r)
  BY <1>9 DEF Complete, SerializeFails, StreamEnds, Fail
<1>14. LookCache(r)
  BY <1>5, <1>7, <1>10, <1>11, <1>12, <1>13 DEF Handle
<1>15. ~Set(r, [reqs[r] EXCEPT !.at = "upstream"])
  BY <1>8, <1>9
<1> DEFINE entry == cache[CacheKey(reqs[r].id, reqs[r].body)]
<1>16. entry # None /\ ~Expired(entry) /\ Answer(r, "200", "whole", entry)
  BY <1>14, <1>15 DEF LookCache
<1>17. reqs'[r] = Answered(r, "200", "whole", entry)
  BY <1>8, <1>16 DEF Answer
<1> HIDE DEF entry
<1>18. reqs'[r].from = entry
  BY <1>1, <1>17 DEF Request, Ended, Answered
<1> QED
  BY <1>14, <1>16, <1>18 DEF entry

LEMMA HitsHonest ==
    ASSUME IInv, [Next]_vars, NEW r \in Req, reqs[r].from = None, reqs'[r].from # None
    PROVE  LET entry == reqs'[r].from
               exists(secret) == \E i \in Rows : tokens[i].secret = secret
           IN /\ entry.body = reqs[r].body
              /\ clock - entry.born <= TTL
              /\ \/ entry.secret = reqs[r].secret
                 \/ ~exists(entry.secret)
                 \/ ~exists(reqs[r].secret)
<1> DEFINE entry == reqs'[r].from
           key == CacheKey(reqs[r].id, reqs[r].body)
<1>1. TypeOK /\ RequestInv(r)
  BY DEF IInv
<1>2. /\ LookCache(r) /\ cache[key] # None /\ ~Expired(cache[key])
      /\ entry = cache[key]
  BY <1>1, OnlyHits
<1>3. reqs[r].at = "handle"
  BY <1>2 DEF LookCache
<1>4. /\ reqs[r].id \in Id /\ reqs[r].body \in Body /\ RowOf(reqs[r].secret, reqs[r].id)
  BY <1>1, <1>3 DEF RequestInv, Begun, Identified
<1>5. key \in Key /\ key[1] = reqs[r].id /\ key[2] = reqs[r].body
  BY <1>4, KeyOf
<1> HIDE DEF key
<1>6. /\ entry.body = reqs[r].body /\ entry.exp = entry.born + TTL
      /\ RowOf(entry.secret, reqs[r].id)
  BY <1>2, <1>5 DEF IInv, EntryInv
<1>7. entry \in Entry
  BY <1>1, <1>2, <1>5 DEF TypeOK
<1>8. entry.born \in Nat /\ clock \in Nat /\ TTL \in Nat
  BY <1>1, <1>7, AccessAssumption DEF Entry, TypeOK
<1>9. ~(clock > entry.exp)
  BY <1>2 DEF Expired
<1>10. clock - entry.born <= TTL
  BY <1>6, <1>8, <1>9
<1>11. \A i, j \in Rows : tokens[i].secret = entry.secret /\ tokens[j].secret = reqs[r].secret
                            => entry.secret = reqs[r].secret
  BY <1>4, <1>6 DEF RowOf, Rows
<1> QED
  BY <1>6, <1>10, <1>11

-----------------------------------------------------------------------------
(* Theorems.                                                               *)

\* The invariant holds in every state.
THEOREM Invariance == Spec => []IInv
<1>1. Init => IInv
  BY InitInv
<1>2. IInv /\ [Next]_vars => IInv'
  BY StepInv
<1> QED
  BY <1>1, <1>2, PTL DEF Spec

\* Every variable of the pipeline has its type.
THEOREM TypeCorrect == Spec => []TypeOK
<1>1. IInv => TypeOK
  BY DEF IInv
<1> QED
  BY <1>1, Invariance, PTL

\* Every token belongs to a user that exists, whatever administrators and
\* restarts do between the two statements that delete a user.
THEOREM OwnersExist == Spec => []TokensOwned
<1>1. IInv => TokensOwned
  BY DEF IInv
<1> QED
  BY <1>1, Invariance, PTL

\* A request reaches the cache or an upstream only if its token was, at some
\* moment since it came, enabled with the model of its body.
THEOREM GrantedAnswers == Spec => []AnswersGranted
<1>1. IInv => AnswersGranted
  BY DEF IInv, RequestInv, Justified, AnswersGranted
<1> QED
  BY <1>1, Invariance, PTL

\* A well-formed request is turned away only if its token was, at some moment
\* since it came, missing, disabled or without the model.
THEOREM JustifiedRefusals == Spec => []RefusalsJustified
<1>1. IInv => RefusalsJustified
  BY DEF IInv, RequestInv, Justified, RefusalsJustified
<1> QED
  BY <1>1, Invariance, PTL

\* At most one log of a request, with the status the client was given whatever
\* error the router ended with, with 0 for a stream that broke off although its
\* client was sent 200, and with the mark of a cache hit.
THEOREM TruthfulLogs == Spec => []LogsTruthful
<1>1. IInv => LogsTruthful
  BY DEF IInv, LogInv
<1> QED
  BY <1>1, Invariance, PTL

\* The cache stays within its limit, whatever the limit.
THEOREM BoundedCache == Spec => []CacheBound
<1>1. IInv => CacheBound
  BY DEF IInv
<1> QED
  BY <1>1, Invariance, PTL

\* What the cache answers was the answer to the same body, at most TTL ago, and
\* not for another token that still exists.
THEOREM HonestCache == Spec => CacheHonest
<1>1. IInv /\ [Next]_vars =>
        [\A r \in Req :
           reqs[r].from = None /\ reqs'[r].from # None =>
             LET entry == reqs'[r].from
                 exists(secret) == \E i \in Rows : tokens[i].secret = secret
             IN /\ entry.body = reqs[r].body
                /\ clock - entry.born <= TTL
                /\ \/ entry.secret = reqs[r].secret
                   \/ ~exists(entry.secret)
                   \/ ~exists(reqs[r].secret)]_vars
  BY HitsHonest
<1> QED
  BY <1>1, Invariance, PTL DEF Spec, CacheHonest
=============================================================================
