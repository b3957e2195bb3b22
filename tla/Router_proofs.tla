---------------------------- MODULE Router_proofs ----------------------------
(***************************************************************************)
(* Proofs about Router, for any number of requests, channels, rows, keys   *)
(* and edits, any routing tables and any clock.                            *)
(***************************************************************************)
EXTENDS Router, FiniteSetTheorems, TLAPS

USE DEF KeyInUse

\* What the loops keep true of each request, label by label.
LoopInv(p) ==
    /\ pc[p] \in {"idle", "resolve", "order"} => attempts[p] = 0
    /\ pc[p] # "idle" => ask[p].model \in Model
    /\ pc[p] = "order" => routes[p] # {}
    /\ pc[p] \in {"attempt", "pick", "calling", "marking"} => Len(order[p]) > 0
    /\ pc[p] \in {"pick", "calling", "marking"} =>
          attempts[p] > 0 /\ pos[p] <= 2 * Len(order[p])
    /\ attempts[p] <= 4 /\ attempts[p] <= 2 * Len(order[p])
    /\ Len(hist[p]) <= attempts[p]
    /\ pc[p] \in {"pick", "calling"} => Len(hist[p]) < attempts[p]
    /\ emitted[p] => pc[p] \in {"calling", "done"} /\ attempts[p] > 0
    /\ sources[p] # {} => emitted[p] \/ pc[p] = "done"
    /\ \A a \in sources[p] : a = attempts[p]

IInv == TypeOK /\ \A p \in Req : LoopInv(p)
-----------------------------------------------------------------------------
(* Lemmas about the operators. *)

\* An order of a set of rows is a sequence of rows, empty only for no row.
LEMMA OrdersAreSequences ==
    ASSUME NEW S \in SUBSET Row, NEW f \in Orders(S)
    PROVE  /\ f \in Seq(Row)
           /\ S # {} => Len(f) > 0
<1>1. IsFiniteSet(S)
  BY FS_Subset, RouterAssumption
<1>2. Cardinality(S) \in Nat /\ (S # {} => Cardinality(S) > 0)
  BY <1>1, FS_CardinalityType, FS_EmptySet
<1>3. f \in [1..Cardinality(S) -> Row]
  BY DEF Orders
<1>4. f \in Seq(Row) /\ Len(f) = Cardinality(S)
  BY <1>2, <1>3
<1> QED BY <1>2, <1>4

\* Inside the loops, seq[pos] is one of the rows.
LEMMA SeqAtIsRow ==
    ASSUME NEW p \in Req, TypeOK, Len(order[p]) > 0, pos[p] <= 2 * Len(order[p])
    PROVE  SeqAt(p) \in Row
<1> DEFINE n == Len(order[p])
<1>1. order[p] \in Seq(Row) /\ pos[p] \in Nat \ {0} /\ n \in Nat
  BY DEF TypeOK
<1>2. \A i \in 1..n : order[p][i] \in Row
  BY <1>1
<1>3. CASE pos[p] <= n
  BY <1>1, <1>2, <1>3 DEF SeqAt
<1>4. CASE ~(pos[p] <= n)
  <2>1. pos[p] - n \in 1..n
    BY <1>1, <1>4
  <2> QED BY <2>1, <1>2, <1>4 DEF SeqAt
<1> QED BY <1>3, <1>4

\* A key that may be picked is of the type of a key in use.
LEMMA UsedKey ==
    ASSUME TypeOK, NEW p \in Req, NEW k \in Avail(p)
    PROVE  [id |-> k.id, entry |-> k.entry, sent |-> body[p]] \in KeyInUse
<1>1. k \in KeyRow /\ body[p] \in {"intact", "rewritten"}
  BY DEF TypeOK, Avail
<1>2. k.id \in Nat /\ k.entry \in Nat
  BY <1>1 DEF KeyRow
<1> QED BY <1>1, <1>2 DEF KeyInUse

\* The end of an attempt keeps the types.
LEMMA EndAttemptType ==
    ASSUME NEW p \in Req, TypeOK, NEW o \in Outcome, SeqAt(p) \in Row,
           NEW k \in KeyInUse,
           EndAttempt(p, k, o)
    PROVE  /\ err' \in [Req -> Outcome \cup {"notfound"}]
           /\ keys' \in [Req -> SUBSET KeyRow]
           /\ hist' \in [Req -> Seq(Attempt)]
           /\ hist'[p] = Append(hist[p], hist'[p][Len(hist[p]) + 1])
           /\ Len(hist'[p]) = Len(hist[p]) + 1
           /\ \A q \in Req \ {p} : hist'[q] = hist[q]
<1> DEFINE e == [row |-> SeqAt(p), turn |-> pos[p], sent |-> k.sent, outcome |-> o]
<1>1. e \in Attempt
  BY DEF Attempt, TypeOK
<1>2. hist' = [hist EXCEPT ![p] = Append(@, e)]
  BY DEF EndAttempt
<1>3. hist[p] \in Seq(Attempt)
  BY DEF TypeOK
<1>4. Append(hist[p], e) \in Seq(Attempt) /\ Len(Append(hist[p], e)) = Len(hist[p]) + 1
      /\ Append(hist[p], e)[Len(hist[p]) + 1] = e
  BY <1>1, <1>3
<1>5. hist'[p] = Append(hist[p], e) /\ \A q \in Req \ {p} : hist'[q] = hist[q]
  BY <1>2 DEF TypeOK
<1>6. hist' \in [Req -> Seq(Attempt)]
  BY <1>2, <1>4 DEF TypeOK
<1>7. err' \in [Req -> Outcome \cup {"notfound"}] /\ keys' \in [Req -> SUBSET KeyRow]
  BY DEF TypeOK, EndAttempt
<1> QED BY <1>4, <1>5, <1>6, <1>7
-----------------------------------------------------------------------------
(* The initial state, and the environment's steps. *)

LEMMA InitInv == Init => IInv
<1> SUFFICES ASSUME Init PROVE IInv
  OBVIOUS
<1>1. keyTab \subseteq KeyRow /\ nextEntry \in Nat
  BY RouterAssumption DEF Init, KeyRow
<1>2. TypeOK
  BY <1>1, RouterAssumption DEF Init, TypeOK, Label, Outcome, NoKey
<1>3. \A p \in Req : LoopInv(p)
  BY DEF Init, LoopInv
<1> QED BY <1>2, <1>3 DEF IInv

\* The clock and the administrators do not touch the requests.
LEMMA EnvironmentInv ==
    ASSUME IInv, Tick \/ Reroute \/ DeleteKeys \/ InsertKey \/ UNCHANGED vars
    PROVE  IInv'
<1> USE DEF IInv, vars, dbVars, rrVars, reqVars, planVars, loopVars, tryVars, outVars
<1>1. UNCHANGED reqVars
  BY DEF Tick, Reroute, DeleteKeys, InsertKey
<1>2. ASSUME NEW p \in Req PROVE LoopInv(p)'
  BY <1>1 DEF LoopInv
<1>3. TypeOK'
  <2>1. CASE Tick
    BY <2>1 DEF Tick, TypeOK
  <2>2. CASE Reroute
    BY <2>2, RouterAssumption DEF Reroute, TypeOK
  <2>3. CASE DeleteKeys
    <3>1. replacing' \in Channel \X {1, 2} /\ keyTab' \subseteq KeyRow
      BY <2>3 DEF DeleteKeys, TypeOK
    <3> QED BY <2>3, <3>1, RouterAssumption, SMTT(30) DEF DeleteKeys, TypeOK
  <2>4. CASE InsertKey
    <3>1. replacing[1] \in Channel /\ replacing[2] \in {1, 2}
      BY <2>4 DEF InsertKey, TypeOK
    <3>2. keyTab' \subseteq KeyRow
      BY <2>4, <3>1 DEF InsertKey, TypeOK, KeyRow
    <3>3. replacing' \in {<<>>} \cup (Channel \X {1, 2})
      BY <2>4, <3>1 DEF InsertKey
    <3> QED BY <2>4, <3>2, <3>3 DEF InsertKey, TypeOK
  <2>5. CASE UNCHANGED vars
    BY <2>5 DEF TypeOK
  <2> QED BY <2>1, <2>2, <2>3, <2>4, <2>5
<1> QED BY <1>2, <1>3
-----------------------------------------------------------------------------
(* The steps of a request, one lemma per action. *)

\* The requests that do not move keep LoopInv.
LEMMA Untouched ==
    ASSUME NEW q \in Req, LoopInv(q),
           pc'[q] = pc[q], ask'[q] = ask[q], routes'[q] = routes[q],
           order'[q] = order[q], pos'[q] = pos[q], attempts'[q] = attempts[q],
           emitted'[q] = emitted[q], sources'[q] = sources[q], hist'[q] = hist[q]
    PROVE  LoopInv(q)'
BY DEF LoopInv

LEMMA AcceptInv == ASSUME IInv, NEW p \in Req, Accept(p) PROVE IInv'
<1> USE DEF IInv, dbVars, rrVars, tryVars, outVars
<1>1. TypeOK'
  BY RouterAssumption DEF Accept, Goto, TypeOK, Label
<1>2. ask'[p].model \in Model
  BY RouterAssumption DEF Accept, TypeOK
<1>3. ASSUME NEW q \in Req PROVE LoopInv(q)'
  BY <1>2 DEF Accept, Goto, TypeOK, Label, LoopInv
<1> QED BY <1>1, <1>3

LEMMA ListRoutesInv == ASSUME IInv, NEW p \in Req, ListRoutes(p) PROVE IInv'
<1> USE DEF IInv, dbVars, rrVars, tryVars, outVars
<1> DEFINE found == {row \in routable : ask[p].model \in Serves[row]}
<1>0. /\ pc[p] = "resolve"
      /\ UNCHANGED <<dbVars, now, rrVars, ask, order, tryVars, outVars, body, gone, rested>>
  BY DEF ListRoutes
<1>1. CASE /\ Refuse(p, "local") \/ Refuse(p, "notfound")
           /\ UNCHANGED routes
  <2>1. TypeOK'
    BY <1>0, <1>1, ZenonT(30) DEF Refuse, TypeOK, Label, Outcome
  <2>2. pc' = [pc EXCEPT ![p] = "done"] /\ UNCHANGED <<pos, hist>>
    BY <1>1 DEF Refuse
  <2>3. LoopInv(p)'
    BY <1>0, <1>1, <2>2 DEF TypeOK, LoopInv
  <2>4. ASSUME NEW q \in Req \ {p} PROVE LoopInv(q)'
    BY <1>0, <1>1, <2>2, Untouched DEF TypeOK
  <2> QED BY <2>1, <2>3, <2>4
<1>2. CASE /\ found # {} /\ Goto(p, "order") /\ UNCHANGED <<keys, key>>
           /\ routes' = [routes EXCEPT ![p] = found]
  <2>1. found \subseteq Row
    BY DEF TypeOK
  <2>2. TypeOK'
    BY <1>0, <1>2, <2>1 DEF Goto, TypeOK, Label
  <2>3. LoopInv(p)'
    BY <1>0, <1>2 DEF Goto, TypeOK, LoopInv
  <2>4. ASSUME NEW q \in Req \ {p} PROVE LoopInv(q)'
    BY <1>0, <1>2, Untouched DEF Goto, TypeOK
  <2> QED BY <2>2, <2>3, <2>4
<1> QED BY <1>1, <1>2 DEF ListRoutes

LEMMA ChannelOrderInv == ASSUME IInv, NEW p \in Req, ChannelOrder(p) PROVE IInv'
<1> USE DEF IInv, dbVars, rrVars, tryVars, outVars
<1>1. PICK f \in Orders(routes[p]) : order' = [order EXCEPT ![p] = f]
  BY DEF ChannelOrder
<1>2. /\ pc[p] = "order" /\ pc' = [pc EXCEPT ![p] = "attempt"]
      /\ UNCHANGED <<dbVars, now, keyRR, ask, routes, pos, err, keys, key, hist,
                     attempts, channel, emitted, sources, body, gone, rested>>
  BY DEF ChannelOrder, Goto
<1>3. f \in Seq(Row) /\ Len(f) > 0
  BY <1>2, OrdersAreSequences DEF TypeOK, LoopInv
<1>4. rr' \in [Model -> Nat]
  <2>1. ask[p].model \in Model
    BY <1>2 DEF LoopInv
  <2>2. CASE RoundRobin
    BY <2>1, <2>2 DEF ChannelOrder, TypeOK
  <2>3. CASE ~RoundRobin
    BY <2>3 DEF ChannelOrder, TypeOK
  <2> QED BY <2>2, <2>3
<1>5. TypeOK'
  BY <1>1, <1>2, <1>3, <1>4 DEF TypeOK, Label
<1>6. attempts[p] = 0 /\ Len(hist[p]) <= 0 /\ ~emitted[p] /\ sources[p] = {}
  BY <1>2 DEF LoopInv
<1>7. pc'[p] = "attempt" /\ order'[p] = f
  BY <1>1, <1>2 DEF TypeOK
<1>8. LoopInv(p)'
  <2>1. Len(f) \in Nat
    BY <1>3
  <2> QED BY <1>2, <1>3, <1>6, <1>7, <2>1 DEF LoopInv
<1>9. ASSUME NEW q \in Req \ {p} PROVE LoopInv(q)'
  BY <1>1, <1>2, Untouched DEF TypeOK
<1> QED BY <1>5, <1>8, <1>9

LEMMA GiveUpInv == ASSUME IInv, NEW p \in Req, GiveUp(p) PROVE IInv'
<1> USE DEF IInv, dbVars, rrVars, planVars, tryVars, outVars
<1>1. TypeOK'
  BY DEF GiveUp, Refuse, TypeOK, Label
<1>2. ASSUME NEW q \in Req PROVE LoopInv(q)'
  BY DEF GiveUp, Refuse, TypeOK, Label, LoopInv
<1> QED BY <1>1, <1>2

\* An attempt that ends without an answer moves to the next route.
LEMMA NextRouteFacts ==
    ASSUME TypeOK, NEW p \in Req, NEW o \in Outcome, SeqAt(p) \in Row, NextRoute(p, o)
    PROVE  /\ pc' \in [Req -> Label] /\ pos' \in [Req -> Nat \ {0}]
           /\ err' \in [Req -> Outcome \cup {"notfound"}]
           /\ keys' \in [Req -> SUBSET KeyRow]
           /\ key' \in [Req -> KeyInUse]
           /\ hist' \in [Req -> Seq(Attempt)]
           /\ pc'[p] = "attempt"
           /\ Len(hist'[p]) = Len(hist[p]) + 1
           /\ \A q \in Req \ {p} : pc'[q] = pc[q] /\ pos'[q] = pos[q] /\ hist'[q] = hist[q]
<1>1. key[p] \in KeyInUse
  BY DEF TypeOK
<1>2. EndAttempt(p, key[p], o)
  BY DEF NextRoute
<1>3. /\ err' \in [Req -> Outcome \cup {"notfound"}]
      /\ keys' \in [Req -> SUBSET KeyRow]
      /\ hist' \in [Req -> Seq(Attempt)]
      /\ Len(hist'[p]) = Len(hist[p]) + 1
      /\ \A q \in Req \ {p} : hist'[q] = hist[q]
  BY <1>1, <1>2, EndAttemptType
<1>4. /\ pc' = [pc EXCEPT ![p] = "attempt"] /\ pos' = [pos EXCEPT ![p] = @ + 1]
      /\ key' = [key EXCEPT ![p] = NoKey]
  BY DEF NextRoute
<1> QED BY <1>3, <1>4 DEF TypeOK, Label, NoKey

\* An attempt that ends the request.
LEMMA ReturnFacts ==
    ASSUME TypeOK, NEW p \in Req, NEW o \in Outcome, SeqAt(p) \in Row,
           NEW k \in KeyInUse,
           Return(p, k, o)
    PROVE  /\ pc' \in [Req -> Label] /\ pos' \in [Req -> Nat \ {0}]
           /\ err' \in [Req -> Outcome \cup {"notfound"}]
           /\ keys' \in [Req -> SUBSET KeyRow]
           /\ key' \in [Req -> KeyInUse]
           /\ hist' \in [Req -> Seq(Attempt)]
           /\ pc'[p] = "done"
           /\ Len(hist'[p]) = Len(hist[p]) + 1
           /\ \A q \in Req \ {p} : pc'[q] = pc[q] /\ pos'[q] = pos[q] /\ hist'[q] = hist[q]
<1>1. EndAttempt(p, k, o)
  BY DEF Return
<1>2. /\ err' \in [Req -> Outcome \cup {"notfound"}]
      /\ keys' \in [Req -> SUBSET KeyRow]
      /\ hist' \in [Req -> Seq(Attempt)]
      /\ Len(hist'[p]) = Len(hist[p]) + 1
      /\ \A q \in Req \ {p} : hist'[q] = hist[q]
  BY <1>1, EndAttemptType
<1>3. /\ pc' = [pc EXCEPT ![p] = "done"] /\ UNCHANGED pos
      /\ key' = [key EXCEPT ![p] = NoKey]
  BY DEF Return
<1> QED BY <1>2, <1>3 DEF TypeOK, Label, NoKey

LEMMA ListKeysInv == ASSUME IInv, NEW p \in Req, ListKeys(p) PROVE IInv'
<1> USE DEF IInv, dbVars, rrVars, planVars, outVars
<1> DEFINE c == ChannelOf[SeqAt(p)]
           ks == {k \in keyTab : k.chan = c}
<1>1. /\ pc[p] = "attempt" /\ ~Exhausted(p)
      /\ attempts' = [attempts EXCEPT ![p] = @ + 1]
      /\ channel' = [channel EXCEPT ![p] = c]
      /\ UNCHANGED <<dbVars, now, rrVars, planVars, outVars, body, gone, rested>>
  BY DEF ListKeys
<1>2. order[p] \in Seq(Row) /\ Len(order[p]) \in Nat /\ attempts[p] \in Nat /\ pos[p] \in Nat
  BY DEF TypeOK
<1>3. attempts[p] < 4 /\ attempts[p] < 2 * Len(order[p]) /\ pos[p] <= 2 * Len(order[p])
  <2>1. attempts[p] < MaxAttempts(p) /\ pos[p] <= 2 * Len(order[p])
    <3>1. MaxAttempts(p) \in Nat
      BY <1>2 DEF MaxAttempts
    <3> QED BY <1>1, <1>2, <3>1 DEF Exhausted
  <2>2. CASE 2 * Len(order[p]) > 4
    BY <1>2, <2>1, <2>2 DEF MaxAttempts
  <2>3. CASE ~(2 * Len(order[p]) > 4)
    BY <1>2, <2>1, <2>3 DEF MaxAttempts
  <2> QED BY <2>2, <2>3
<1>4. Len(order[p]) > 0 /\ Len(hist[p]) <= attempts[p] /\ ~emitted[p] /\ sources[p] = {}
      /\ ask[p].model \in Model
  BY <1>1 DEF LoopInv
<1>5. SeqAt(p) \in Row
  BY <1>3, <1>4, SeqAtIsRow
<1>6. channel' \in [Req -> Channel \cup {"none"}] /\ attempts' \in [Req -> Nat]
      /\ attempts'[p] = attempts[p] + 1
      /\ \A q \in Req \ {p} : attempts'[q] = attempts[q]
  <2>1. c \in Channel
    BY <1>5, RouterAssumption
  <2>2. channel' \in [Req -> Channel \cup {"none"}]
    BY <1>1, <2>1 DEF TypeOK
  <2> QED BY <1>1, <1>2, <2>2 DEF TypeOK
<1>7. Len(hist[p]) \in Nat
  BY DEF TypeOK
<1>8. CASE NextRoute(p, "nokey")
  <2>1. /\ pc' \in [Req -> Label] /\ pos' \in [Req -> Nat \ {0}]
        /\ err' \in [Req -> Outcome \cup {"notfound"}]
        /\ keys' \in [Req -> SUBSET KeyRow]
        /\ key' \in [Req -> KeyInUse]
        /\ hist' \in [Req -> Seq(Attempt)]
        /\ pc'[p] = "attempt"
        /\ Len(hist'[p]) = Len(hist[p]) + 1
        /\ \A q \in Req \ {p} : pc'[q] = pc[q] /\ pos'[q] = pos[q] /\ hist'[q] = hist[q]
    BY <1>5, <1>8, NextRouteFacts DEF Outcome
  <2>2. TypeOK'
    BY <1>1, <1>6, <2>1 DEF TypeOK
  <2>3. LoopInv(p)'
    BY <1>1, <1>2, <1>3, <1>4, <1>6, <1>7, <2>1, SMTT(30) DEF LoopInv
  <2>4. ASSUME NEW q \in Req \ {p} PROVE LoopInv(q)'
    BY <1>1, <1>6, <2>1, Untouched
  <2> QED BY <2>2, <2>3, <2>4
<1>9. CASE Goto(p, "pick") /\ UNCHANGED key /\ keys' = [keys EXCEPT ![p] = ks]
  <2>1. ks \subseteq KeyRow
    BY DEF TypeOK
  <2>2. pc' = [pc EXCEPT ![p] = "pick"] /\ UNCHANGED <<pos, err, hist>>
    BY <1>9 DEF Goto
  <2>3. TypeOK'
    BY <1>1, <1>6, <1>9, <2>1, <2>2 DEF TypeOK, Label
  <2>4. pc'[p] = "pick" /\ \A q \in Req \ {p} : pc'[q] = pc[q]
    BY <2>2 DEF TypeOK
  <2>5. LoopInv(p)'
    BY <1>1, <1>2, <1>3, <1>4, <1>6, <1>7, <2>2, <2>4 DEF LoopInv
  <2>6. ASSUME NEW q \in Req \ {p} PROVE LoopInv(q)'
    BY <1>1, <1>6, <2>2, <2>4, Untouched
  <2> QED BY <2>3, <2>5, <2>6
<1> QED BY <1>8, <1>9 DEF ListKeys

\* Common to the steps taken during an attempt.
LEMMA InAttempt ==
    ASSUME IInv, NEW p \in Req, pc[p] \in {"pick", "calling", "marking"}
    PROVE  /\ SeqAt(p) \in Row
           /\ key[p] \in KeyInUse
           /\ attempts[p] \in Nat /\ attempts[p] > 0 /\ Len(hist[p]) \in Nat
           /\ Len(hist[p]) <= attempts[p]
           /\ pc[p] # "marking" => Len(hist[p]) < attempts[p]
<1>1. Len(order[p]) > 0 /\ pos[p] <= 2 * Len(order[p])
  BY DEF IInv, LoopInv
<1>2. SeqAt(p) \in Row
  BY <1>1, SeqAtIsRow DEF IInv
<1> QED BY <1>2 DEF IInv, TypeOK, LoopInv

\* The two ends of an attempt, in the steps that touch nothing else.
LEMMA NextRouteInv ==
    ASSUME IInv, NEW p \in Req, NEW o \in Outcome, pc[p] \in {"pick", "calling"},
           ~emitted[p], NextRoute(p, o), keyRR' \in [Channel -> Nat],
           UNCHANGED <<dbVars, now, rr, planVars, tryVars, outVars, body, gone, rested>>
    PROVE  IInv'
<1>0. /\ attempts[p] \in Nat /\ attempts[p] > 0 /\ Len(hist[p]) \in Nat
      /\ Len(hist[p]) < attempts[p]
  BY InAttempt
<1> USE DEF IInv, dbVars, planVars, tryVars, outVars
<1>1. /\ pc' \in [Req -> Label] /\ pos' \in [Req -> Nat \ {0}]
      /\ err' \in [Req -> Outcome \cup {"notfound"}]
      /\ keys' \in [Req -> SUBSET KeyRow]
      /\ key' \in [Req -> KeyInUse]
      /\ hist' \in [Req -> Seq(Attempt)]
      /\ pc'[p] = "attempt"
      /\ Len(hist'[p]) = Len(hist[p]) + 1
      /\ \A q \in Req \ {p} : pc'[q] = pc[q] /\ pos'[q] = pos[q] /\ hist'[q] = hist[q]
  BY InAttempt, NextRouteFacts
<1>2. TypeOK'
  BY <1>1 DEF TypeOK
<1>3. LoopInv(p)'
  <2>1. /\ ~emitted'[p] /\ sources'[p] = {} /\ Len(order'[p]) > 0
        /\ ask'[p].model \in Model
        /\ attempts'[p] <= 4 /\ attempts'[p] <= 2 * Len(order'[p])
    BY DEF LoopInv
  <2>2. Len(hist'[p]) <= attempts'[p]
    BY <1>0, <1>1
  <2> QED BY <1>1, <2>1, <2>2 DEF LoopInv
<1>4. ASSUME NEW q \in Req \ {p} PROVE LoopInv(q)'
  BY <1>1, Untouched
<1> QED BY <1>2, <1>3, <1>4

\* And the same for an attempt that ends the request.
LEMMA ReturnInv ==
    ASSUME IInv, NEW p \in Req, NEW o \in Outcome, pc[p] \in {"pick", "calling"},
           NEW k \in KeyInUse,
           Return(p, k, o), keyRR' \in [Channel -> Nat],
           emitted' \in [Req -> BOOLEAN], sources' \in [Req -> SUBSET Nat],
           \A q \in Req \ {p} : emitted'[q] = emitted[q] /\ sources'[q] = sources[q],
           \A a \in sources'[p] : a = attempts[p],
           UNCHANGED <<dbVars, now, rr, planVars, tryVars, body, gone, rested>>
    PROVE  IInv'
<1>0. /\ attempts[p] \in Nat /\ attempts[p] > 0 /\ Len(hist[p]) \in Nat
      /\ Len(hist[p]) < attempts[p]
  BY InAttempt
<1> USE DEF IInv, dbVars, planVars, tryVars
<1>1. /\ pc' \in [Req -> Label] /\ pos' \in [Req -> Nat \ {0}]
      /\ err' \in [Req -> Outcome \cup {"notfound"}]
      /\ keys' \in [Req -> SUBSET KeyRow]
      /\ key' \in [Req -> KeyInUse]
      /\ hist' \in [Req -> Seq(Attempt)]
      /\ pc'[p] = "done"
      /\ Len(hist'[p]) = Len(hist[p]) + 1
      /\ \A q \in Req \ {p} : pc'[q] = pc[q] /\ pos'[q] = pos[q] /\ hist'[q] = hist[q]
  BY InAttempt, ReturnFacts
<1>2. TypeOK'
  BY <1>1 DEF TypeOK
<1>3. LoopInv(p)'
  <2>1. /\ ask'[p].model \in Model
        /\ attempts'[p] <= 4 /\ attempts'[p] <= 2 * Len(order'[p])
    BY DEF LoopInv
  <2>2. Len(hist'[p]) <= attempts'[p] /\ attempts'[p] > 0
    BY <1>0, <1>1
  <2> QED BY <1>1, <2>1, <2>2 DEF LoopInv
<1>4. ASSUME NEW q \in Req \ {p} PROVE LoopInv(q)'
  BY <1>1, Untouched
<1> QED BY <1>2, <1>3, <1>4

LEMMA AllCoolingInv == ASSUME IInv, NEW p \in Req, AllCooling(p) PROVE IInv'
<1> USE DEF IInv, dbVars, rrVars, planVars, tryVars, outVars
<1>1. /\ pc[p] = "pick" /\ NextRoute(p, "nokey")
      /\ UNCHANGED <<dbVars, now, rrVars, planVars, tryVars, outVars, body, gone, rested>>
  BY DEF AllCooling
<1>2. ~emitted[p] /\ keyRR' \in [Channel -> Nat]
  BY <1>1 DEF TypeOK, LoopInv
<1>3. "nokey" \in Outcome
  BY DEF Outcome
<1> QED BY <1>1, <1>2, <1>3, NextRouteInv

LEMMA UseKeyInv ==
    ASSUME IInv, NEW p \in Req, pc[p] = "pick", NEW k \in KeyRow, UseKey(p, k),
           UNCHANGED <<dbVars, now, rr, planVars, tryVars, outVars, gone, rested>>,
           keyRR' \in [Channel -> Nat]
    PROVE  IInv'
<1> USE DEF IInv, dbVars, rrVars, planVars, tryVars, outVars
<1> DEFINE used == [id |-> k.id, entry |-> k.entry, sent |-> body[p]]
<1>1. used \in KeyInUse
  BY DEF KeyRow, TypeOK
<1>5. ~emitted[p] /\ sources[p] = {} /\ "nokey" \in Outcome /\ "unsupported" \in Outcome
  BY DEF LoopInv, Outcome
<1>2. CASE NextRoute(p, "nokey") /\ UNCHANGED body
  BY <1>2, <1>5, NextRouteInv
<1>3. CASE Return(p, used, "unsupported") /\ UNCHANGED body
  <2>1. emitted' \in [Req -> BOOLEAN] /\ sources' \in [Req -> SUBSET Nat]
    BY DEF TypeOK
  <2> QED BY <1>1, <1>3, <1>5, <2>1, ReturnInv
<1>4. CASE /\ Goto(p, "calling") /\ keys' = [keys EXCEPT ![p] = {}]
           /\ key' = [key EXCEPT ![p] = used]
           /\ \/ body' = [body EXCEPT ![p] = "rewritten"]
              \/ body' = body
  <2>1. pc' = [pc EXCEPT ![p] = "calling"] /\ UNCHANGED <<pos, err, hist>>
    BY <1>4 DEF Goto
  <2>2. TypeOK'
    BY <1>1, <1>4, <2>1 DEF TypeOK, Label
  <2>3. pc'[p] = "calling" /\ \A q \in Req \ {p} : pc'[q] = pc[q]
    BY <2>1 DEF TypeOK
  <2>4. LoopInv(p)'
    BY <2>1, <2>3 DEF LoopInv
  <2>5. ASSUME NEW q \in Req \ {p} PROVE LoopInv(q)'
    BY <2>1, <2>3, Untouched
  <2> QED BY <2>2, <2>4, <2>5
<1> QED BY <1>2, <1>3, <1>4 DEF UseKey

LEMMA PickKeyInv == ASSUME IInv, NEW p \in Req, PickKey(p) PROVE IInv'
<1> DEFINE c == channel[p]
<1>1. keyRR' \in [Channel -> Nat]
  <2>1. CASE c \in RoundRobinKeys
    BY <2>1, RouterAssumption DEF PickKey, IInv, TypeOK
  <2>2. CASE c \notin RoundRobinKeys
    BY <2>2 DEF PickKey, IInv, TypeOK
  <2> QED BY <2>1, <2>2
<1>2. pc[p] = "pick" /\ \E k \in Avail(p) : UseKey(p, k)
  BY DEF PickKey
<1>3. Avail(p) \subseteq KeyRow
  BY DEF Avail, IInv, TypeOK
<1>4. UNCHANGED <<dbVars, now, rr, planVars, tryVars, outVars, gone, rested>>
  BY DEF PickKey
<1> QED BY <1>1, <1>2, <1>3, <1>4, UseKeyInv

LEMMA EmitInv == ASSUME IInv, NEW p \in Req, Emit(p) PROVE IInv'
<1> USE DEF IInv, dbVars, rrVars, planVars, loopVars, tryVars
<1>1. /\ pc[p] = "calling" /\ emitted' = [emitted EXCEPT ![p] = TRUE]
      /\ sources' = [sources EXCEPT ![p] = @ \cup {attempts[p]}]
      /\ UNCHANGED <<dbVars, now, rrVars, planVars, loopVars, tryVars, body, gone, rested>>
  BY DEF Emit, Delivered
<1>2. attempts[p] \in Nat /\ attempts[p] > 0
  BY <1>1, InAttempt
<1>3. TypeOK'
  BY <1>1, <1>2 DEF TypeOK
<1>4. /\ emitted'[p] /\ sources'[p] = sources[p] \cup {attempts[p]}
      /\ \A q \in Req \ {p} : emitted'[q] = emitted[q] /\ sources'[q] = sources[q]
  BY <1>1 DEF TypeOK
<1>5. LoopInv(p)'
  BY <1>1, <1>2, <1>4 DEF LoopInv
<1>6. ASSUME NEW q \in Req \ {p} PROVE LoopInv(q)'
  BY <1>1, <1>4, Untouched
<1> QED BY <1>3, <1>5, <1>6

LEMMA EmitFailsInv == ASSUME IInv, NEW p \in Req, EmitFails(p) PROVE IInv'
<1> USE DEF dbVars, rrVars, planVars, tryVars, outVars
<1>1. /\ pc[p] = "calling" /\ emitted' = [emitted EXCEPT ![p] = TRUE]
      /\ Return(p, key[p], "local")
      /\ UNCHANGED <<dbVars, now, rrVars, planVars, tryVars, sources, body, gone, rested>>
  BY DEF EmitFails
<1>2. emitted' \in [Req -> BOOLEAN] /\ \A q \in Req \ {p} : emitted'[q] = emitted[q]
  BY <1>1 DEF IInv, TypeOK
<1> QED BY <1>1, <1>2, InAttempt, ReturnInv DEF Outcome, IInv, TypeOK, LoopInv

LEMMA AnswerOKInv == ASSUME IInv, NEW p \in Req, AnswerOK(p) PROVE IInv'
<1> USE DEF dbVars, rrVars, planVars, tryVars, outVars
<1>1. /\ pc[p] = "calling" /\ Return(p, key[p], "ok")
      /\ sources' = [sources EXCEPT ![p] = @ \cup {attempts[p]}]
      /\ UNCHANGED <<dbVars, now, rrVars, planVars, tryVars, emitted, body, gone, rested>>
  BY DEF AnswerOK, Delivered
<1>2. attempts[p] \in Nat
  BY <1>1, InAttempt
<1>3. sources' \in [Req -> SUBSET Nat] /\ \A q \in Req \ {p} : sources'[q] = sources[q]
  BY <1>1, <1>2 DEF IInv, TypeOK
<1>4. \A a \in sources'[p] : a = attempts[p]
  BY <1>1 DEF IInv, TypeOK, LoopInv
<1> QED BY <1>1, <1>3, <1>4, InAttempt, ReturnInv DEF Outcome, IInv, TypeOK

LEMMA AnswerKeyFailedInv == ASSUME IInv, NEW p \in Req, AnswerKeyFailed(p) PROVE IInv'
<1> USE DEF IInv, dbVars, rrVars, planVars, tryVars, outVars
<1>1. /\ pc[p] = "calling" /\ ~emitted[p] /\ EndAttempt(p, key[p], "keyfail")
      /\ pc' = [pc EXCEPT ![p] = "marking"]
      /\ UNCHANGED <<dbVars, now, rrVars, planVars, pos, key, tryVars, outVars,
                     body, gone, rested>>
  BY DEF AnswerKeyFailed
<1>2. /\ err' \in [Req -> Outcome \cup {"notfound"}] /\ keys' \in [Req -> SUBSET KeyRow]
      /\ hist' \in [Req -> Seq(Attempt)]
      /\ Len(hist'[p]) = Len(hist[p]) + 1
      /\ \A q \in Req \ {p} : hist'[q] = hist[q]
  <2>1. "keyfail" \in Outcome
    BY DEF Outcome
  <2> QED BY <1>1, <2>1, InAttempt, EndAttemptType
<1>3. TypeOK'
  BY <1>1, <1>2 DEF TypeOK, Label
<1>4. pc'[p] = "marking" /\ \A q \in Req \ {p} : pc'[q] = pc[q]
  BY <1>1 DEF TypeOK
<1>5. LoopInv(p)'
  <2>1. /\ sources'[p] = {} /\ Len(order'[p]) > 0 /\ ask'[p].model \in Model
        /\ attempts'[p] <= 4 /\ attempts'[p] <= 2 * Len(order'[p])
        /\ pos'[p] <= 2 * Len(order'[p]) /\ ~emitted'[p]
    BY <1>1 DEF LoopInv
  <2>2. Len(hist'[p]) <= attempts'[p] /\ attempts'[p] > 0
    BY <1>1, <1>2, InAttempt
  <2> QED BY <1>4, <2>1, <2>2 DEF LoopInv
<1>6. ASSUME NEW q \in Req \ {p} PROVE LoopInv(q)'
  BY <1>1, <1>2, <1>4, Untouched
<1> QED BY <1>3, <1>5, <1>6

LEMMA AnswerRetryableInv == ASSUME IInv, NEW p \in Req, AnswerRetryable(p) PROVE IInv'
<1>1. /\ pc[p] = "calling"
      /\ UNCHANGED <<dbVars, now, rrVars, planVars, tryVars, outVars, body, gone, rested>>
  BY DEF AnswerRetryable
<1>2. "retry" \in Outcome
  BY DEF Outcome
<1>3. /\ keyRR' \in [Channel -> Nat] /\ emitted' \in [Req -> BOOLEAN]
      /\ sources' \in [Req -> SUBSET Nat]
      /\ \A q \in Req \ {p} : emitted'[q] = emitted[q] /\ sources'[q] = sources[q]
      /\ \A a \in sources'[p] : a = attempts[p]
  BY <1>1 DEF IInv, TypeOK, LoopInv, rrVars, outVars
<1>4. CASE Return(p, key[p], "retry")
  BY <1>1, <1>2, <1>3, <1>4, InAttempt, ReturnInv DEF rrVars
<1>5. CASE ~emitted[p] /\ NextRoute(p, "retry")
  BY <1>1, <1>2, <1>3, <1>5, NextRouteInv DEF rrVars
<1> QED BY <1>4, <1>5 DEF AnswerRetryable

LEMMA AnswerFatalInv == ASSUME IInv, NEW p \in Req, AnswerFatal(p) PROVE IInv'
<1>1. /\ pc[p] = "calling" /\ Return(p, key[p], "fatal")
      /\ UNCHANGED <<dbVars, now, rrVars, planVars, tryVars, outVars, body, gone, rested>>
  BY DEF AnswerFatal
<1>2. "fatal" \in Outcome
  BY DEF Outcome
<1>3. /\ keyRR' \in [Channel -> Nat] /\ emitted' \in [Req -> BOOLEAN]
      /\ sources' \in [Req -> SUBSET Nat]
      /\ \A q \in Req \ {p} : emitted'[q] = emitted[q] /\ sources'[q] = sources[q]
      /\ \A a \in sources'[p] : a = attempts[p]
  BY <1>1 DEF IInv, TypeOK, LoopInv, rrVars, outVars
<1> QED BY <1>1, <1>2, <1>3, InAttempt, ReturnInv DEF rrVars

LEMMA MarkKeyFailedInv == ASSUME IInv, NEW p \in Req, MarkKeyFailed(p) PROVE IInv'
<1> USE DEF IInv, rrVars, planVars, tryVars, outVars
<1> DEFINE until == now + Cooldown
<1>1. /\ pc[p] = "marking" /\ pc' = [pc EXCEPT ![p] = "attempt"]
      /\ key' = [key EXCEPT ![p] = NoKey]
      /\ UNCHANGED <<routable, nextEntry, replacing, edits, now, rrVars, planVars, pos, err,
                     hist, keys, tryVars, outVars, body, gone>>
  BY DEF MarkKeyFailed, Goto
<1>2. until \in Nat /\ key[p].entry \in Nat
  BY <1>1, RouterAssumption, InAttempt DEF TypeOK
<1>3. keyTab' \subseteq KeyRow /\ rested' \in [Req -> SUBSET [entry : Nat, until : Nat]]
  <2>1. CASE gone[p]
    BY <2>1 DEF MarkKeyFailed, TypeOK
  <2>2. CASE ~gone[p]
    <3>1. keyTab' = {IF k.id = key[p].id THEN [k EXCEPT !.until = until] ELSE k : k \in keyTab}
      BY <2>2 DEF MarkKeyFailed
    <3>2. ASSUME NEW k \in KeyRow PROVE [k EXCEPT !.until = until] \in KeyRow
      BY <1>2 DEF KeyRow
    <3>3. keyTab' \subseteq KeyRow
      BY <3>1, <3>2 DEF TypeOK
    <3>4. rested' = [rested EXCEPT ![p] = @ \cup {[entry |-> key[p].entry, until |-> until]}]
      BY <2>2 DEF MarkKeyFailed
    <3>5. [entry |-> key[p].entry, until |-> until] \in [entry : Nat, until : Nat]
      BY <1>2
    <3> QED BY <3>3, <3>4, <3>5 DEF TypeOK
  <2> QED BY <2>1, <2>2
<1>4. TypeOK'
  BY <1>1, <1>3 DEF TypeOK, Label, NoKey
<1>5. pc'[p] = "attempt" /\ \A q \in Req \ {p} : pc'[q] = pc[q]
  BY <1>1 DEF TypeOK
<1>6. LoopInv(p)'
  BY <1>1, <1>5 DEF LoopInv
<1>7. ASSUME NEW q \in Req \ {p} PROVE LoopInv(q)'
  BY <1>1, <1>5, Untouched
<1> QED BY <1>4, <1>6, <1>7

LEMMA ClientGoneInv == ASSUME IInv, NEW p \in Req, ClientGone(p) PROVE IInv'
<1> USE DEF IInv, dbVars, rrVars, planVars, loopVars, tryVars, outVars
<1>1. TypeOK'
  BY DEF ClientGone, TypeOK
<1>2. ASSUME NEW q \in Req PROVE LoopInv(q)'
  BY Untouched DEF ClientGone
<1> QED BY <1>1, <1>2
-----------------------------------------------------------------------------
LEMMA NextInv == IInv /\ [Next]_vars => IInv'
<1> SUFFICES ASSUME IInv, [Next]_vars PROVE IInv'
  OBVIOUS
<1>1. ASSUME NEW p \in Req, Accept(p) \/ Progress(p) \/ Emit(p) \/ ClientGone(p)
      PROVE  IInv'
  BY <1>1, AcceptInv, ListRoutesInv, ChannelOrderInv, GiveUpInv, ListKeysInv,
     AllCoolingInv, PickKeyInv, EmitInv, EmitFailsInv, AnswerOKInv, AnswerKeyFailedInv,
     AnswerRetryableInv, AnswerFatalInv, MarkKeyFailedInv, ClientGoneInv DEF Progress
<1>2. CASE Tick \/ Reroute \/ DeleteKeys \/ InsertKey \/ UNCHANGED vars
  BY <1>2, EnvironmentInv
<1> QED BY <1>1, <1>2 DEF Next, Quiet

\* The inductive invariant holds in every reachable state.
THEOREM Inductive == Spec => []IInv
<1> QED BY InitInv, NextInv, PTL DEF Spec

\* Every variable keeps its type, for any number of requests, routes and keys.
THEOREM TypeCorrect == Spec => []TypeOK
<1>1. IInv => TypeOK
  BY DEF IInv
<1> QED BY <1>1, Inductive, PTL

\* No client ever sees output of two attempts (the emitted flag of ChatStream).
THEOREM OneSource == Spec => []SingleSource
<1>1. IInv => SingleSource
  BY DEF IInv, LoopInv, SingleSource
<1> QED BY <1>1, Inductive, PTL

-----------------------------------------------------------------------------
(* How the attempts of a request follow each other. *)

\* Row row may be tried after attempt a of request p has ended.
MayFollow(p, a, row) ==
    /\ a.outcome \in {"keyfail", "retry", "nokey"}
    /\ a.outcome = "keyfail" => row = a.row
    /\ a.outcome # "keyfail" /\ Len(order[p]) > 1 => row # a.row

Last(p) == hist[p][Len(hist[p])]

Followed(p) == \A i \in 1..(Len(hist[p]) - 1) : MayFollow(p, hist[p][i], hist[p][i + 1].row)

Distinct(p) == \A i, j \in 1..Len(order[p]) : order[p][i] = order[p][j] => i = j

\* The error and the channel kept in the loops are those of the last attempt.
Reported(p) ==
    /\ hist[p] # <<>>
    /\ err[p] = Last(p).outcome
    /\ channel[p] = ChannelOf[Last(p).row]

\* What the loops remember of the attempts that have ended, label by label.
PathInv(p) ==
    /\ pc[p] \in {"attempt", "pick", "calling", "marking"} => Distinct(p)
    /\ pc[p] \in {"pick", "calling", "marking"} => channel[p] = ChannelOf[SeqAt(p)]
    /\ pc[p] \in {"attempt", "marking", "done"} /\ attempts[p] > 0 => Reported(p)
    /\ pc[p] = "marking" => Last(p).outcome = "keyfail" /\ Last(p).row = SeqAt(p)
    /\ pc[p] \in {"attempt", "pick", "calling"} /\ hist[p] # <<>> /\ pos[p] <= 2 * Len(order[p])
          => MayFollow(p, Last(p), SeqAt(p))
    /\ Followed(p)

\* The requests that do not move.
LEMMA OthersStay ==
    ASSUME IInv, NEW p \in Req, Accept(p) \/ Progress(p) \/ Emit(p) \/ ClientGone(p),
           NEW q \in Req \ {p}
    PROVE  /\ pc'[q] = pc[q] /\ order'[q] = order[q] /\ pos'[q] = pos[q]
           /\ attempts'[q] = attempts[q] /\ channel'[q] = channel[q] /\ err'[q] = err[q]
           /\ hist'[q] = hist[q] /\ keys'[q] = keys[q] /\ key'[q] = key[q]
           /\ rested'[q] = rested[q] /\ routes'[q] = routes[q] /\ emitted'[q] = emitted[q]
<1> USE DEF IInv, TypeOK, planVars, loopVars, tryVars, outVars
<1>1. CASE Accept(p)
  BY <1>1 DEF Accept, Goto
<1>2. CASE ListRoutes(p)
  BY <1>2 DEF ListRoutes, Goto, Refuse
<1>3. CASE ChannelOrder(p)
  BY <1>3 DEF ChannelOrder, Goto
<1>4. CASE GiveUp(p)
  BY <1>4 DEF GiveUp, Refuse
<1>5. CASE ListKeys(p)
  BY <1>5, SMTT(30) DEF ListKeys, Goto, NextRoute, EndAttempt
<1>6. CASE AllCooling(p)
  BY <1>6 DEF AllCooling, NextRoute, EndAttempt
<1>7. CASE PickKey(p)
  BY <1>7, SMTT(30) DEF PickKey, UseKey, Goto, NextRoute, Return, EndAttempt
<1>8. CASE EmitFails(p) \/ AnswerOK(p) \/ AnswerFatal(p)
  BY <1>8, SMTT(30) DEF EmitFails, AnswerOK, AnswerFatal, Return, EndAttempt
<1>9. CASE AnswerKeyFailed(p)
  BY <1>9 DEF AnswerKeyFailed, EndAttempt
<1>10. CASE AnswerRetryable(p)
  BY <1>10 DEF AnswerRetryable, NextRoute, Return, EndAttempt
<1>11. CASE MarkKeyFailed(p)
  BY <1>11 DEF MarkKeyFailed, Goto
<1>12. CASE Emit(p) \/ ClientGone(p)
  BY <1>12 DEF Emit, ClientGone
<1> QED BY <1>1, <1>2, <1>3, <1>4, <1>5, <1>6, <1>7, <1>8, <1>9, <1>10, <1>11, <1>12
        DEF Progress

LEMMA PathStays ==
    ASSUME NEW q \in Req, PathInv(q),
           pc'[q] = pc[q], order'[q] = order[q], pos'[q] = pos[q],
           attempts'[q] = attempts[q], channel'[q] = channel[q], err'[q] = err[q],
           hist'[q] = hist[q]
    PROVE  PathInv(q)'
BY DEF PathInv, MayFollow, Last, Followed, Distinct, Reported, SeqAt

\* The end of an attempt adds it to those that followed each other.
LEMMA EndPath ==
    ASSUME IInv, NEW p \in Req, PathInv(p), NEW o \in Outcome, NEW k \in KeyInUse,
           EndAttempt(p, k, o), pc[p] \in {"attempt", "pick", "calling"},
           Len(order[p]) > 0, pos[p] <= 2 * Len(order[p]), order' = order,
           channel'[p] = ChannelOf[SeqAt(p)]
    PROVE  /\ Last(p)'.outcome = o /\ Last(p)'.row = SeqAt(p)
           /\ Reported(p)' /\ Followed(p)'
<1> DEFINE e == [row |-> SeqAt(p), turn |-> pos[p], sent |-> k.sent, outcome |-> o]
           n == Len(hist[p])
<1>1. hist[p] \in Seq(Attempt) /\ n \in Nat
  BY DEF IInv, TypeOK
<1>2. SeqAt(p) \in Row
  BY SeqAtIsRow DEF IInv
<1>3. e \in Attempt
  BY <1>2 DEF Attempt, IInv, TypeOK
<1>4. hist'[p] = Append(hist[p], e) /\ err'[p] = o
  BY DEF EndAttempt, IInv, TypeOK
<1>5. /\ Len(hist'[p]) = n + 1 /\ hist'[p][n + 1] = e /\ hist'[p] # <<>>
      /\ \A i \in 1..n : hist'[p][i] = hist[p][i]
  BY <1>1, <1>3, <1>4
<1>6. Last(p)' = e
  BY <1>5 DEF Last
<1>7. Reported(p)'
  BY <1>4, <1>5, <1>6 DEF Reported
<1>8. ASSUME NEW i \in 1..n
      PROVE  MayFollow(p, hist[p][i], hist'[p][i + 1].row)
  <2>1. CASE i < n
    <3>1. i + 1 \in 1..n /\ i \in 1..(n - 1)
      BY <1>1, <2>1
    <3> QED BY <1>5, <3>1 DEF PathInv, Followed
  <2>2. CASE i = n
    <3>1. hist[p] # <<>> /\ hist[p][i] = Last(p)
      BY <1>1, <2>2 DEF Last
    <3> QED BY <1>5, <2>2, <3>1 DEF PathInv
  <2> QED BY <1>1, <2>1, <2>2
<1>9. ASSUME NEW i \in 1..(Len(hist'[p]) - 1)
      PROVE  MayFollow(p, hist[p][i], hist[p][i + 1].row)'
  <2>1. i \in 1..n /\ hist'[p][i] = hist[p][i]
    BY <1>1, <1>5
  <2>2. MayFollow(p, hist[p][i], hist'[p][i + 1].row)
    BY <1>8, <2>1
  <2> QED BY <2>1, <2>2 DEF MayFollow
<1>10. Followed(p)'
  BY <1>9 DEF Followed
<1> QED BY <1>6, <1>7, <1>10

\* Two neighbours of the sequence of channels differ when there are two routes.
LEMMA NeighboursDiffer ==
    ASSUME IInv, NEW p \in Req, Distinct(p), order' = order, pos'[p] = pos[p] + 1,
           Len(order[p]) > 1, pos[p] + 1 <= 2 * Len(order[p])
    PROVE  SeqAt(p)' # SeqAt(p)
<1> DEFINE n == Len(order[p])
<1>1. pos[p] \in Nat \ {0} /\ n \in Nat
  BY DEF IInv, TypeOK
<1>2. CASE pos[p] + 1 <= n
  <2>1. SeqAt(p) = order[p][pos[p]] /\ SeqAt(p)' = order[p][pos[p] + 1]
    BY <1>1, <1>2 DEF SeqAt
  <2> QED BY <1>1, <1>2, <2>1 DEF Distinct
<1>3. CASE pos[p] = n
  <2>1. SeqAt(p) = order[p][n] /\ SeqAt(p)' = order[p][1]
    BY <1>1, <1>3 DEF SeqAt
  <2> QED BY <1>1, <2>1 DEF Distinct
<1>4. CASE pos[p] > n
  <2>1. SeqAt(p) = order[p][pos[p] - n] /\ SeqAt(p)' = order[p][pos[p] + 1 - n]
    BY <1>1, <1>4 DEF SeqAt
  <2>2. pos[p] - n \in 1..n /\ pos[p] + 1 - n \in 1..n /\ pos[p] - n # pos[p] + 1 - n
    BY <1>1, <1>4, SMTT(30)
  <2> QED BY <2>1, <2>2 DEF Distinct
<1> QED BY <1>1, <1>2, <1>3, <1>4

\* break keyLoop: the next row may follow.
LEMMA NextRoutePath ==
    ASSUME IInv, NEW p \in Req, PathInv(p), NEW o \in {"retry", "nokey"}, NextRoute(p, o),
           pc[p] \in {"attempt", "pick", "calling"},
           Len(order[p]) > 0, pos[p] <= 2 * Len(order[p]), order' = order,
           channel'[p] = ChannelOf[SeqAt(p)]
    PROVE  PathInv(p)'
<1>1. /\ Last(p)'.outcome = o /\ Last(p)'.row = SeqAt(p)
      /\ Reported(p)' /\ Followed(p)'
  <2>1. key[p] \in KeyInUse /\ o \in Outcome
    BY DEF IInv, TypeOK, Outcome
  <2> QED BY <2>1, EndPath DEF NextRoute
<1>2. pc'[p] = "attempt" /\ pos'[p] = pos[p] + 1
  BY DEF NextRoute, IInv, TypeOK
<1>3. Distinct(p) /\ Distinct(p)'
  BY DEF PathInv, Distinct
<1>4. ASSUME pos'[p] <= 2 * Len(order'[p])
      PROVE  MayFollow(p, Last(p), SeqAt(p))'
  <2>1. Len(order[p]) > 1 => SeqAt(p)' # SeqAt(p)
    BY <1>2, <1>3, <1>4, NeighboursDiffer
  <2> QED BY <1>1, <2>1 DEF MayFollow
<1> QED BY <1>1, <1>2, <1>3, <1>4 DEF PathInv

\* return from within an attempt: nothing follows.
LEMMA ReturnPath ==
    ASSUME IInv, NEW p \in Req, PathInv(p), NEW o \in Outcome, NEW k \in KeyInUse,
           Return(p, k, o), pc[p] \in {"pick", "calling"}, order' = order, channel' = channel
    PROVE  PathInv(p)'
<1>1. Len(order[p]) > 0 /\ pos[p] <= 2 * Len(order[p])
  BY DEF IInv, LoopInv
<1>2. channel'[p] = ChannelOf[SeqAt(p)]
  BY DEF PathInv
<1>3. Reported(p)' /\ Followed(p)'
  BY <1>1, <1>2, EndPath DEF Return
<1>4. pc'[p] = "done"
  BY DEF Return, IInv, TypeOK
<1> QED BY <1>3, <1>4 DEF PathInv

\* The steps before the loops, and the return after them.
LEMMA PlanPath ==
    ASSUME IInv, NEW p \in Req, PathInv(p),
           Accept(p) \/ ListRoutes(p) \/ ChannelOrder(p) \/ GiveUp(p)
    PROVE  PathInv(p)'
<1> USE DEF IInv, TypeOK, planVars, loopVars, tryVars
<1>1. CASE Accept(p) \/ ListRoutes(p)
  <2>1. attempts[p] = 0 /\ Len(hist[p]) <= 0
    BY <1>1 DEF Accept, ListRoutes, LoopInv
  <2>2. pc'[p] \in {"resolve", "done", "order"} /\ attempts' = attempts /\ hist' = hist
    BY <1>1 DEF Accept, ListRoutes, Goto, Refuse
  <2>3. Len(hist[p]) \in Nat
    OBVIOUS
  <2> QED BY <2>1, <2>2, <2>3 DEF PathInv, Followed
<1>2. CASE ChannelOrder(p)
  <2>1. attempts[p] = 0 /\ Len(hist[p]) <= 0
    BY <1>2 DEF ChannelOrder, LoopInv
  <2>2. PICK f \in Orders(routes[p]) : order' = [order EXCEPT ![p] = f]
    BY <1>2 DEF ChannelOrder
  <2>3. pc'[p] = "attempt" /\ attempts' = attempts /\ hist' = hist /\ order'[p] = f
    BY <1>2, <2>2 DEF ChannelOrder, Goto
  <2>4. Distinct(p)'
    <3>1. IsFiniteSet(routes[p])
      BY FS_Subset, RouterAssumption
    <3>2. f \in [1..Cardinality(routes[p]) -> routes[p]] /\ Cardinality(routes[p]) \in Nat
      BY <3>1, FS_CardinalityType DEF Orders
    <3>3. Len(f) = Cardinality(routes[p])
      BY <3>2
    <3> QED BY <2>3, <3>2, <3>3 DEF Distinct, Orders
  <2>5. hist[p] = <<>> /\ Len(hist[p]) = 0
    BY <2>1
  <2> QED BY <2>1, <2>3, <2>4, <2>5 DEF PathInv, Followed
<1>3. CASE GiveUp(p)
  <2>1. /\ pc[p] = "attempt" /\ pc'[p] = "done" /\ err'[p] = err[p]
        /\ UNCHANGED <<attempts, channel, order, hist>>
    BY <1>3 DEF GiveUp, Refuse
  <2> QED BY <2>1 DEF PathInv, Followed, MayFollow, Reported, Last
<1> QED BY <1>1, <1>2, <1>3

LEMMA ListKeysPath ==
    ASSUME IInv, NEW p \in Req, PathInv(p), ListKeys(p) PROVE PathInv(p)'
<1>1. /\ pc[p] = "attempt" /\ ~Exhausted(p) /\ order' = order
      /\ channel' = [channel EXCEPT ![p] = ChannelOf[SeqAt(p)]]
  BY DEF ListKeys, planVars
<1>2. Len(order[p]) > 0 /\ pos[p] <= 2 * Len(order[p])
  BY <1>1 DEF IInv, TypeOK, LoopInv, Exhausted
<1>3. channel'[p] = ChannelOf[SeqAt(p)]
  BY <1>1 DEF IInv, TypeOK
<1>4. CASE NextRoute(p, "nokey")
  BY <1>1, <1>2, <1>3, <1>4, NextRoutePath
<1>5. CASE Goto(p, "pick")
  <2>1. pc'[p] = "pick" /\ UNCHANGED <<pos, err, hist>>
    BY <1>5 DEF Goto, IInv, TypeOK
  <2>2. SeqAt(p)' = SeqAt(p)
    BY <1>1, <2>1 DEF SeqAt
  <2> QED BY <1>1, <1>2, <1>3, <2>1, <2>2 DEF PathInv, MayFollow, Last, Followed, Distinct
<1> QED BY <1>4, <1>5 DEF ListKeys

\* The rest of an attempt.
LEMMA AttemptPath ==
    ASSUME IInv, NEW p \in Req, PathInv(p),
           \/ AllCooling(p) \/ PickKey(p) \/ EmitFails(p) \/ AnswerOK(p)
           \/ AnswerRetryable(p) \/ AnswerFatal(p) \/ AnswerKeyFailed(p) \/ MarkKeyFailed(p)
    PROVE  PathInv(p)'
<1>1. /\ pc[p] \in {"pick", "calling", "marking"}
      /\ UNCHANGED <<order, channel, attempts>>
  BY DEF AllCooling, PickKey, EmitFails, AnswerOK, AnswerRetryable, AnswerFatal,
         AnswerKeyFailed, MarkKeyFailed, planVars, tryVars
<1>2. /\ Len(order[p]) > 0 /\ pos[p] <= 2 * Len(order[p])
      /\ channel'[p] = ChannelOf[SeqAt(p)] /\ key[p] \in KeyInUse
      /\ Distinct(p) /\ Distinct(p)'
  BY <1>1, InAttempt DEF IInv, LoopInv, PathInv, Distinct
<1>3. CASE AllCooling(p)
  BY <1>1, <1>2, <1>3, NextRoutePath DEF AllCooling
<1>4. CASE PickKey(p)
  <2>1. PICK k \in Avail(p) : UseKey(p, k)
    BY <1>4 DEF PickKey
  <2> DEFINE used == [id |-> k.id, entry |-> k.entry, sent |-> body[p]]
  <2>2. used \in KeyInUse /\ pc[p] = "pick"
    BY <1>4, UsedKey DEF PickKey, IInv
  <2>3. CASE NextRoute(p, "nokey")
    BY <1>1, <1>2, <2>2, <2>3, NextRoutePath
  <2>4. CASE Return(p, used, "unsupported")
    <3>1. "unsupported" \in Outcome
      BY DEF Outcome
    <3> HIDE DEF used
    <3> QED BY <1>1, <2>2, <2>4, <3>1, ReturnPath
  <2>5. CASE Goto(p, "calling")
    <3>1. pc'[p] = "calling" /\ UNCHANGED <<pos, err, hist>>
      BY <2>5 DEF Goto, IInv, TypeOK
    <3>2. SeqAt(p)' = SeqAt(p)
      BY <1>1, <3>1 DEF SeqAt
    <3> QED BY <1>1, <1>2, <2>2, <3>1, <3>2 DEF PathInv, MayFollow, Last, Followed
  <2> QED BY <2>1, <2>3, <2>4, <2>5 DEF UseKey
<1>5. CASE EmitFails(p) \/ AnswerOK(p) \/ AnswerFatal(p)
  <2>1. pc[p] = "calling" /\ \E o \in {"local", "ok", "fatal"} : Return(p, key[p], o)
    BY <1>5 DEF EmitFails, AnswerOK, AnswerFatal
  <2>2. {"local", "ok", "fatal"} \subseteq Outcome
    BY DEF Outcome
  <2> QED BY <1>1, <1>2, <2>1, <2>2, ReturnPath
<1>6. CASE AnswerRetryable(p)
  <2>1. pc[p] = "calling" /\ (Return(p, key[p], "retry") \/ NextRoute(p, "retry"))
    BY <1>6 DEF AnswerRetryable
  <2>2. "retry" \in Outcome
    BY DEF Outcome
  <2> QED BY <1>1, <1>2, <2>1, <2>2, ReturnPath, NextRoutePath
<1>7. CASE AnswerKeyFailed(p)
  <2>1. /\ pc[p] = "calling" /\ EndAttempt(p, key[p], "keyfail")
        /\ pc' = [pc EXCEPT ![p] = "marking"] /\ pos' = pos
    BY <1>7 DEF AnswerKeyFailed
  <2>2. "keyfail" \in Outcome /\ pc'[p] = "marking" /\ SeqAt(p)' = SeqAt(p)
    BY <1>1, <2>1 DEF Outcome, IInv, TypeOK, SeqAt
  <2>3. /\ Last(p)'.outcome = "keyfail" /\ Last(p)'.row = SeqAt(p)
        /\ Reported(p)' /\ Followed(p)'
    BY <1>1, <1>2, <2>1, <2>2, EndPath
  <2> QED BY <1>2, <2>2, <2>3 DEF PathInv
<1>8. CASE MarkKeyFailed(p)
  <2>1. pc[p] = "marking" /\ pc'[p] = "attempt" /\ UNCHANGED <<pos, err, hist>>
    BY <1>8 DEF MarkKeyFailed, Goto, IInv, TypeOK
  <2>2. SeqAt(p)' = SeqAt(p) /\ Last(p)' = Last(p)
    BY <1>1, <2>1 DEF SeqAt, Last
  <2> QED BY <1>1, <1>2, <2>1, <2>2 DEF PathInv, MayFollow, Followed, Reported
<1> QED BY <1>3, <1>4, <1>5, <1>6, <1>7, <1>8

LEMMA PathNext == IInv /\ (\A p \in Req : PathInv(p)) /\ [Next]_vars
                     => (\A p \in Req : PathInv(p))'
<1> SUFFICES ASSUME IInv, \A p \in Req : PathInv(p), [Next]_vars, NEW q \in Req
             PROVE  PathInv(q)'
  OBVIOUS
<1>1. ASSUME NEW p \in Req, Accept(p) \/ Progress(p) \/ Emit(p) \/ ClientGone(p)
      PROVE  PathInv(q)'
  <2>1. CASE q # p
    BY <1>1, <2>1, OthersStay, PathStays
  <2>2. CASE q = p /\ (Emit(p) \/ ClientGone(p))
    BY <2>2, PathStays DEF Emit, ClientGone, planVars, loopVars, tryVars
  <2>3. CASE q = p /\ (Accept(p) \/ Progress(p))
    BY <2>3, PlanPath, ListKeysPath, AttemptPath DEF Progress
  <2> QED BY <1>1, <2>1, <2>2, <2>3
<1>2. CASE Tick \/ Reroute \/ DeleteKeys \/ InsertKey \/ UNCHANGED vars
  BY <1>2, PathStays DEF Tick, Reroute, DeleteKeys, InsertKey, vars, reqVars, planVars,
                         loopVars, tryVars
<1> QED BY <1>1, <1>2 DEF Next, Quiet

LEMMA PathInit == Init => \A p \in Req : PathInv(p)
BY DEF Init, PathInv, Followed

\* The attempts of every request follow the code's rules in every reachable state.
THEOREM Paths == Spec => [](\A p \in Req : PathInv(p))
BY PathInit, PathNext, Inductive, PTL DEF Spec

\* After 429/401 the same route is tried, after a retryable error another one,
\* and after anything else none (the branches after the upstream call).
THEOREM Disciplined == Spec => []RetryDiscipline
<1>1. (\A p \in Req : PathInv(p)) => RetryDiscipline
  BY DEF PathInv, Followed, MayFollow, RetryDiscipline
<1> QED BY <1>1, Paths, PTL

\* The error a client gets and the channel in the log are the last attempt's.
THEOREM Honest == Spec => []OutcomeReported
<1>1. (\A p \in Req : PathInv(p)) => OutcomeReported
  BY DEF PathInv, Reported, Last, OutcomeReported
<1> QED BY <1>1, Paths, PTL
-----------------------------------------------------------------------------
(* No route is visited more than twice. *)

\* seq[i]
RowAt(p, i) == IF i <= Len(order[p]) THEN order[p][i] ELSE order[p][i - Len(order[p])]

\* Attempt i does not follow a 429/401.
Opens(p, i) == i = 1 \/ hist[p][i - 1].outcome # "keyfail"

Turn(p, i) == hist[p][i].turn

\* Every attempt is at its place of the sequence, and those that open a visit
\* are each further on than all before.
VisitInv(p) ==
    /\ hist[p] # <<>> => Distinct(p)
    /\ \A i \in 1..Len(hist[p]) :
          /\ Turn(p, i) \in 1..(2 * Len(order[p])) /\ Turn(p, i) <= pos[p]
          /\ hist[p][i].row = RowAt(p, Turn(p, i))
    /\ \A i, j \in 1..Len(hist[p]) : i < j /\ Opens(p, j) => Turn(p, i) < Turn(p, j)
    /\ pc[p] \in {"attempt", "pick", "calling"} /\ hist[p] # <<>> /\ Last(p).outcome # "keyfail" =>
          \A i \in 1..Len(hist[p]) : Turn(p, i) < pos[p]

LEMMA VisitStays ==
    ASSUME NEW q \in Req, VisitInv(q), pc'[q] = pc[q], order'[q] = order[q],
           pos'[q] = pos[q], hist'[q] = hist[q]
    PROVE  VisitInv(q)'
BY DEF VisitInv, Turn, Opens, RowAt, Last, Distinct

\* The end of an attempt, made with seq[pos].
LEMMA EndVisit ==
    ASSUME IInv, NEW p \in Req, VisitInv(p), Distinct(p), NEW o \in Outcome,
           NEW k \in KeyInUse, EndAttempt(p, k, o), order' = order, pc[p] \in {"attempt", "pick", "calling"},
           Len(order[p]) > 0, pos[p] <= 2 * Len(order[p]), pos'[p] \in {pos[p], pos[p] + 1},
           \/ pc'[p] \in {"marking", "done"}
           \/ pos'[p] = pos[p] + 1
    PROVE  VisitInv(p)'
<1> DEFINE e == [row |-> SeqAt(p), turn |-> pos[p], sent |-> k.sent, outcome |-> o]
           n == Len(hist[p])
<1>1. /\ hist[p] \in Seq(Attempt) /\ n \in Nat /\ pos[p] \in Nat \ {0}
      /\ Len(order[p]) \in Nat
  BY DEF IInv, TypeOK
<1>2. SeqAt(p) \in Row /\ SeqAt(p) = RowAt(p, pos[p])
  BY SeqAtIsRow DEF IInv, SeqAt, RowAt
<1>3. e \in Attempt
  BY <1>1, <1>2 DEF Attempt
<1>4. hist'[p] = Append(hist[p], e)
  BY DEF EndAttempt, IInv, TypeOK
<1>5. /\ Len(hist'[p]) = n + 1 /\ hist'[p][n + 1] = e
      /\ \A i \in 1..n : hist'[p][i] = hist[p][i]
  BY <1>1, <1>3, <1>4
<1>6. e.turn = pos[p] /\ e.row = SeqAt(p)
  OBVIOUS
<1> HIDE DEF e
<1>7. /\ hist'[p][n + 1].turn = pos[p]
      /\ \A i \in 1..n : /\ Turn(p, i)' = Turn(p, i) /\ Turn(p, i) \in Nat
                         /\ Turn(p, i) \in 1..(2 * Len(order[p])) /\ Turn(p, i) <= pos[p]
                         /\ hist[p][i].row = RowAt(p, Turn(p, i))
  BY <1>1, <1>5, <1>6 DEF Turn, VisitInv
<1>8. ASSUME NEW i \in 1..(n + 1)
      PROVE  (/\ Turn(p, i) \in 1..(2 * Len(order[p])) /\ Turn(p, i) <= pos[p]
              /\ hist[p][i].row = RowAt(p, Turn(p, i)))'
  <2>1. CASE i \in 1..n
    <3>1. RowAt(p, Turn(p, i))' = RowAt(p, Turn(p, i))
      BY <1>7, <2>1 DEF RowAt
    <3>2. /\ Turn(p, i)' = Turn(p, i) /\ Turn(p, i) \in Nat /\ Turn(p, i) <= pos[p]
          /\ Turn(p, i) \in 1..(2 * Len(order[p])) /\ hist[p][i].row = RowAt(p, Turn(p, i))
      BY <1>7, <2>1
    <3>3. Turn(p, i)' <= pos'[p]
      BY <1>1, <3>2
    <3>4. hist'[p][i] = hist[p][i]
      BY <1>5, <2>1
    <3> QED BY <3>1, <3>2, <3>3, <3>4
  <2>2. CASE i = n + 1
    <3>1. Turn(p, i)' = pos[p] /\ RowAt(p, Turn(p, i))' = RowAt(p, pos[p])
      BY <1>7, <2>2 DEF RowAt, Turn
    <3> QED BY <1>1, <1>2, <1>5, <1>6, <1>7, <2>2, <3>1
  <2> QED BY <1>1, <2>1, <2>2
<1>9. ASSUME NEW i \in 1..(n + 1), NEW j \in 1..(n + 1), i < j, Opens(p, j)'
      PROVE  Turn(p, i)' < Turn(p, j)'
  <2>1. i \in 1..n /\ i \in Nat /\ j \in Nat
    BY <1>1, <1>9
  <2>2. CASE j \in 1..n
    <3>1. j # 1 /\ j - 1 \in 1..n
      BY <1>9, <2>1, <2>2
    <3>2. hist'[p][j - 1] = hist[p][j - 1]
      BY <1>5, <3>1
    <3>3. Opens(p, j)
      BY <1>9, <3>1, <3>2 DEF Opens
    <3>4. Turn(p, i) < Turn(p, j)
      BY <1>9, <2>1, <2>2, <3>3 DEF VisitInv
    <3> QED BY <1>7, <2>1, <2>2, <3>4
  <2>3. CASE j = n + 1
    <3>1. n \in 1..n /\ hist[p] # <<>> /\ j # 1 /\ j - 1 = n
      BY <1>1, <2>1, <2>3
    <3>2. hist'[p][j - 1] = Last(p)
      BY <1>5, <3>1 DEF Last
    <3>3. Last(p).outcome # "keyfail"
      BY <1>9, <3>1, <3>2 DEF Opens
    <3>4. Turn(p, i) < pos[p]
      BY <2>1, <3>1, <3>3 DEF VisitInv
    <3>5. Turn(p, j)' = pos[p]
      BY <1>7, <2>3 DEF Turn
    <3> QED BY <1>7, <2>1, <3>4, <3>5
  <2> QED BY <1>1, <2>2, <2>3
<1>10. ASSUME pc'[p] \in {"attempt", "pick", "calling"}, NEW i \in 1..(n + 1)
       PROVE  Turn(p, i)' < pos'[p]
  <2>1. pos'[p] = pos[p] + 1
    BY <1>10
  <2>2. CASE i \in 1..n
    BY <1>1, <1>7, <2>1, <2>2
  <2>3. CASE i = n + 1
    BY <1>1, <1>7, <2>1, <2>3 DEF Turn
  <2> QED BY <1>1, <2>2, <2>3
<1>11. Distinct(p)'
  BY DEF Distinct
<1> QED BY <1>5, <1>8, <1>9, <1>10, <1>11 DEF VisitInv

\* The steps of a request, and those that end no attempt.
LEMMA VisitStep ==
    ASSUME IInv, NEW p \in Req, PathInv(p), VisitInv(p), Accept(p) \/ Progress(p)
    PROVE  VisitInv(p)'
<1> USE DEF IInv, TypeOK, planVars, tryVars
<1>1. CASE Accept(p) \/ ListRoutes(p) \/ ChannelOrder(p)
  <2>1. Len(hist[p]) <= 0 /\ Len(hist[p]) \in Nat /\ hist' = hist
    BY <1>1 DEF Accept, ListRoutes, ChannelOrder, Goto, Refuse, LoopInv
  <2> QED BY <2>1 DEF VisitInv
<1>2. CASE GiveUp(p)
  <2>1. pc'[p] = "done" /\ UNCHANGED <<order, pos, hist>>
    BY <1>2 DEF GiveUp, Refuse
  <2> QED BY <2>1 DEF VisitInv, Turn, Opens, RowAt, Distinct
<1>3. CASE MarkKeyFailed(p)
  <2>1. pc[p] = "marking" /\ pc'[p] = "attempt" /\ UNCHANGED <<order, pos, hist>>
    BY <1>3 DEF MarkKeyFailed, Goto
  <2>2. Last(p)'.outcome = "keyfail"
    BY <2>1 DEF PathInv, Last
  <2> QED BY <2>1, <2>2 DEF VisitInv, Turn, Opens, RowAt, Distinct
<1>4. CASE \/ ListKeys(p) \/ AllCooling(p) \/ PickKey(p) \/ EmitFails(p) \/ AnswerOK(p)
           \/ AnswerKeyFailed(p) \/ AnswerRetryable(p) \/ AnswerFatal(p)
  <2>1. /\ pc[p] \in {"attempt", "pick", "calling"} /\ order' = order
        /\ Len(order[p]) > 0 /\ pos[p] <= 2 * Len(order[p]) /\ Distinct(p)
    BY <1>4 DEF ListKeys, AllCooling, PickKey, EmitFails, AnswerOK, AnswerKeyFailed,
                AnswerRetryable, AnswerFatal, LoopInv, Exhausted, PathInv
  <2>2. \/ \E o \in Outcome : NextRoute(p, o)
        \/ \E o \in Outcome, k \in KeyInUse : Return(p, k, o)
        \/ AnswerKeyFailed(p)
        \/ pc'[p] \in {"pick", "calling"} /\ UNCHANGED <<pos, hist>>
    <3>1. CASE ListKeys(p) \/ AllCooling(p) \/ AnswerRetryable(p)
      BY <3>1 DEF ListKeys, AllCooling, AnswerRetryable, Goto, Outcome
    <3>2. CASE PickKey(p)
      <4>1. PICK k \in Avail(p) : UseKey(p, k)
        BY <3>2 DEF PickKey
      <4>2. [id |-> k.id, entry |-> k.entry, sent |-> body[p]] \in KeyInUse
        BY <4>1 DEF Avail, KeyRow
      <4> QED BY <4>1, <4>2 DEF UseKey, Goto, Outcome
    <3>3. CASE EmitFails(p) \/ AnswerOK(p) \/ AnswerFatal(p)
      BY <3>3 DEF EmitFails, AnswerOK, AnswerFatal, Outcome
    <3> QED BY <1>4, <3>1, <3>2, <3>3
  <2>3. CASE \E o \in Outcome : NextRoute(p, o)
    <3>1. PICK o \in Outcome : NextRoute(p, o)
      BY <2>3
    <3>2. /\ EndAttempt(p, key[p], o) /\ key[p] \in KeyInUse
          /\ pos'[p] = pos[p] + 1
      BY <3>1 DEF NextRoute
    <3> QED BY <2>1, <3>2, EndVisit
  <2>4. CASE \E o \in Outcome, k \in KeyInUse : Return(p, k, o)
    <3>1. PICK o \in Outcome, k \in KeyInUse : Return(p, k, o)
      BY <2>4
    <3>2. EndAttempt(p, k, o) /\ pos'[p] = pos[p] /\ pc'[p] = "done"
      BY <3>1 DEF Return
    <3> QED BY <2>1, <3>2, EndVisit
  <2>5. CASE AnswerKeyFailed(p)
    <3>1. /\ EndAttempt(p, key[p], "keyfail") /\ key[p] \in KeyInUse /\ "keyfail" \in Outcome
          /\ pos'[p] = pos[p] /\ pc'[p] = "marking"
      BY <2>5 DEF AnswerKeyFailed, Outcome
    <3> QED BY <2>1, <3>1, EndVisit
  <2>6. CASE pc'[p] \in {"pick", "calling"} /\ UNCHANGED <<pos, hist>>
    BY <2>1, <2>6 DEF VisitInv, Turn, Opens, RowAt, Last, Distinct
  <2> QED BY <2>2, <2>3, <2>4, <2>5, <2>6
<1> QED BY <1>1, <1>2, <1>3, <1>4 DEF Progress

LEMMA VisitNext ==
    IInv /\ (\A p \in Req : PathInv(p)) /\ (\A p \in Req : VisitInv(p)) /\ [Next]_vars
       => (\A p \in Req : VisitInv(p))'
<1> SUFFICES ASSUME IInv, \A p \in Req : PathInv(p), \A p \in Req : VisitInv(p),
                    [Next]_vars, NEW q \in Req
             PROVE  VisitInv(q)'
  OBVIOUS
<1>1. ASSUME NEW p \in Req, Accept(p) \/ Progress(p) \/ Emit(p) \/ ClientGone(p)
      PROVE  VisitInv(q)'
  <2>1. CASE q # p
    BY <1>1, <2>1, OthersStay, VisitStays
  <2>2. CASE q = p /\ (Emit(p) \/ ClientGone(p))
    BY <2>2, VisitStays DEF Emit, ClientGone, planVars, loopVars, tryVars
  <2>3. CASE q = p /\ (Accept(p) \/ Progress(p))
    BY <2>3, VisitStep
  <2> QED BY <1>1, <2>1, <2>2, <2>3
<1>2. CASE Tick \/ Reroute \/ DeleteKeys \/ InsertKey \/ UNCHANGED vars
  BY <1>2, VisitStays DEF Tick, Reroute, DeleteKeys, InsertKey, vars, reqVars, planVars,
                          loopVars, tryVars
<1> QED BY <1>1, <1>2 DEF Next, Quiet

LEMMA VisitInit == Init => \A p \in Req : VisitInv(p)
BY DEF Init, VisitInv

\* A row stands in the sequence at two places.
LEMMA TwoVisits ==
    ASSUME IInv, NEW p \in Req, VisitInv(p), NEW row \in Row
    PROVE  Cardinality(Visits(p, row)) <= 2
<1> DEFINE n == Len(order[p])
           f == [i \in Visits(p, row) |-> Turn(p, i)]
           places == {t \in 1..(2 * n) : RowAt(p, t) = row}
<1>1. hist[p] \in Seq(Attempt) /\ order[p] \in Seq(Row) /\ n \in Nat
  BY DEF IInv, TypeOK
<1>2. DOMAIN hist[p] = 1..Len(hist[p]) /\ Len(hist[p]) \in Nat
  BY <1>1
<1>3. CASE hist[p] = <<>>
  <2>1. Visits(p, row) = {}
    BY <1>3 DEF Visits
  <2> QED BY <2>1, FS_EmptySet
<1>4. CASE hist[p] # <<>>
  <2>0. Distinct(p)
    BY <1>4 DEF VisitInv
  <2>1. IsFiniteSet(places) /\ Cardinality(places) <= 2
    <3>1. CASE places = {}
      <4>1. IsFiniteSet({}) /\ Cardinality({}) = 0
        BY FS_EmptySet
      <4> HIDE DEF places
      <4> QED BY <3>1, <4>1
    <3>2. CASE places # {}
      <4>1. PICK t \in places : TRUE
        BY <3>2
      <4>2. PICK a \in 1..n : row = order[p][a]
        <5>1. CASE t <= n
          BY <1>1, <4>1, <5>1 DEF RowAt
        <5>2. CASE t > n
          <6>1. t - n \in 1..n /\ row = order[p][t - n]
            BY <1>1, <4>1, <5>2 DEF RowAt
          <6> QED BY <6>1
        <5> QED BY <1>1, <4>1, <5>1, <5>2
      <4>3. places \subseteq {a, a + n}
        <5>1. ASSUME NEW u \in places PROVE u \in {a, a + n}
          <6>1. CASE u <= n
            <7>1. u \in 1..n /\ order[p][u] = order[p][a]
              BY <1>1, <4>2, <5>1, <6>1 DEF RowAt
            <7> QED BY <2>0, <4>2, <7>1 DEF Distinct
          <6>2. CASE u > n
            <7>1. u - n \in 1..n /\ order[p][u - n] = order[p][a]
              BY <1>1, <4>2, <5>1, <6>2 DEF RowAt
            <7>2. u - n = a
              BY <2>0, <4>2, <7>1 DEF Distinct
            <7> QED BY <1>1, <4>2, <5>1, <7>2
          <6> QED BY <1>1, <5>1, <6>1, <6>2
        <5> QED BY <5>1
      <4>4. IsFiniteSet({a, a + n}) /\ Cardinality({a, a + n}) <= 2
        <5>1. IsFiniteSet({a}) /\ Cardinality({a}) = 1
          BY FS_Singleton
        <5>2. /\ IsFiniteSet({a} \cup {a + n})
              /\ Cardinality({a} \cup {a + n}) = IF a + n \in {a} THEN 1 ELSE 1 + 1
          BY <5>1, FS_AddElement
        <5>3. {a, a + n} = {a} \cup {a + n}
          OBVIOUS
        <5> QED BY <5>2, <5>3, SMTT(30)
      <4> HIDE DEF places
      <4> DEFINE two == {a, a + n}
      <4>5. IsFiniteSet(two) /\ Cardinality(two) <= 2 /\ places \in SUBSET two
        BY <4>3, <4>4
      <4> HIDE DEF two
      <4>6. IsFiniteSet(places) /\ Cardinality(places) <= Cardinality(two)
        BY <4>5, FS_Subset
      <4>7. Cardinality(places) \in Nat /\ Cardinality(two) \in Nat
        BY <4>5, <4>6, FS_CardinalityType
      <4> QED BY <4>5, <4>6, <4>7
    <3> QED BY <3>1, <3>2
  <2>2. ASSUME NEW i \in Visits(p, row)
        PROVE  i \in 1..Len(hist[p]) /\ Opens(p, i) /\ Turn(p, i) \in places
    <3>1. i \in 1..Len(hist[p]) /\ Opens(p, i) /\ hist[p][i].row = row
      BY <1>2, <2>2 DEF Visits, Opens
    <3> QED BY <3>1 DEF VisitInv
  <2>3. f \in Injection(Visits(p, row), places)
    <3>1. f \in [Visits(p, row) -> places]
      BY <2>2
    <3>2. ASSUME NEW i \in Visits(p, row), NEW j \in Visits(p, row), f[i] = f[j]
          PROVE  i = j
      <4>1. /\ i \in 1..Len(hist[p]) /\ j \in 1..Len(hist[p]) /\ Opens(p, i) /\ Opens(p, j)
            /\ Turn(p, i) = Turn(p, j) /\ Turn(p, i) \in Nat
        BY <2>2, <3>2
      <4>2. ~(i < j) /\ ~(j < i)
        BY <4>1 DEF VisitInv
      <4> QED BY <1>2, <4>1, <4>2
    <3> QED BY <3>1, <3>2 DEF Injection, IsInjective
  <2>4. IsFiniteSet(Visits(p, row)) /\ Cardinality(Visits(p, row)) <= Cardinality(places)
    BY <2>1, <2>3, FS_Injection
  <2> QED BY <2>1, <2>4, FS_CardinalityType
<1> QED BY <1>3, <1>4

\* A request costs no more than four attempts, two when it has one route, and
\* no route is visited more than twice.
THEOREM NoAvalanche == Spec => []AttemptsBounded
<1>1. ASSUME IInv, \A p \in Req : VisitInv(p) PROVE AttemptsBounded
  <2>1. ASSUME NEW p \in Req, NEW row \in routes[p] PROVE Cardinality(Visits(p, row)) <= 2
    <3>1. row \in Row
      BY <1>1, <2>1 DEF IInv, TypeOK
    <3> QED BY <1>1, <3>1, TwoVisits
  <2> QED BY <1>1, <2>1 DEF IInv, LoopInv, AttemptsBounded
<1>2. Spec => [](\A p \in Req : VisitInv(p))
  BY VisitInit, VisitNext, Inductive, Paths, PTL DEF Spec
<1> QED BY <1>1, <1>2, Inductive, PTL
-----------------------------------------------------------------------------
(* Failover is complete. *)

NoKeyFail(p) == \A i \in 1..Len(hist[p]) : hist[p][i].outcome # "keyfail"

\* Attempt i was made with seq[i].
InOrder(p) == \A i \in 1..Len(hist[p]) : i <= 2 * Len(order[p]) /\ hist[p][i].row = RowAt(p, i)

\* Without a rotation of keys, the attempts follow the sequence of channels.
CoverInv(p) ==
    /\ pc[p] \in {"idle", "resolve", "order"} => order[p] = <<>> /\ pos[p] = 1
    /\ pc[p] = "marking" => ~NoKeyFail(p)
    /\ order[p] # <<>> => order[p] \in Orders(routes[p])
    /\ NoKeyFail(p) =>
          /\ pc[p] \in {"pick", "calling"} =>
                pos[p] = Len(hist[p]) + 1 /\ attempts[p] = Len(hist[p]) + 1
          /\ pc[p] = "attempt" => pos[p] = Len(hist[p]) + 1 /\ attempts[p] = Len(hist[p])
          /\ InOrder(p)
    /\ pc[p] = "done" /\ ~emitted[p] /\ err[p] \in {"retry", "nokey"} /\ NoKeyFail(p) =>
          order[p] # <<>> /\ Len(hist[p]) = MaxAttempts(p)

LEMMA CoverStays ==
    ASSUME NEW q \in Req, CoverInv(q),
           pc'[q] = pc[q], routes'[q] = routes[q], order'[q] = order[q], pos'[q] = pos[q],
           attempts'[q] = attempts[q], err'[q] = err[q], emitted'[q] = emitted[q],
           hist'[q] = hist[q]
    PROVE  CoverInv(q)'
BY DEF CoverInv, NoKeyFail, InOrder, RowAt, MaxAttempts, Orders

\* The end of an attempt, made with seq[pos].
LEMMA EndCover ==
    ASSUME IInv, NEW p \in Req, NoKeyFail(p) => InOrder(p) /\ pos[p] = Len(hist[p]) + 1,
           NEW o \in Outcome, NEW k \in KeyInUse, EndAttempt(p, k, o), order' = order,
           Len(order[p]) > 0, pos[p] <= 2 * Len(order[p])
    PROVE  /\ Len(hist'[p]) = Len(hist[p]) + 1
           /\ NoKeyFail(p)' => NoKeyFail(p) /\ InOrder(p)'
           /\ o = "keyfail" => ~NoKeyFail(p)'
<1> DEFINE e == [row |-> SeqAt(p), turn |-> pos[p], sent |-> k.sent, outcome |-> o]
           n == Len(hist[p])
<1>1. hist[p] \in Seq(Attempt) /\ n \in Nat /\ pos[p] \in Nat
  BY DEF IInv, TypeOK
<1>2. SeqAt(p) \in Row
  BY SeqAtIsRow DEF IInv
<1>3. e \in Attempt
  BY <1>2 DEF Attempt, IInv, TypeOK
<1>4. hist'[p] = Append(hist[p], e)
  BY DEF EndAttempt, IInv, TypeOK
<1>5. /\ Len(hist'[p]) = n + 1 /\ hist'[p][n + 1] = e
      /\ \A i \in 1..n : hist'[p][i] = hist[p][i]
  BY <1>1, <1>3, <1>4
<1>6. e.outcome = o /\ e.row = SeqAt(p)
  OBVIOUS
<1> HIDE DEF e
<1>7. ASSUME NoKeyFail(p)' PROVE NoKeyFail(p)
  <2>1. ASSUME NEW i \in 1..n PROVE hist[p][i].outcome # "keyfail"
    <3>1. i \in 1..Len(hist'[p]) /\ hist'[p][i] = hist[p][i]
      BY <1>1, <1>5
    <3> QED BY <1>7, <3>1 DEF NoKeyFail
  <2> QED BY <2>1 DEF NoKeyFail
<1>8. o = "keyfail" => ~NoKeyFail(p)'
  BY <1>1, <1>5, <1>6 DEF NoKeyFail
<1>9. ASSUME NoKeyFail(p)' PROVE InOrder(p)'
  <2>1. InOrder(p) /\ pos[p] = n + 1
    BY <1>7, <1>9
  <2>2. e.row = RowAt(p, n + 1) /\ n + 1 <= 2 * Len(order[p])
    BY <1>6, <2>1 DEF SeqAt, RowAt
  <2>3. ASSUME NEW i \in 1..(n + 1)
        PROVE  i <= 2 * Len(order[p]) /\ hist'[p][i].row = RowAt(p, i)
    <3>1. CASE i \in 1..n
      BY <1>5, <2>1, <3>1 DEF InOrder
    <3>2. CASE i = n + 1
      BY <1>5, <2>2, <3>2
    <3> QED BY <1>1, <3>1, <3>2
  <2> QED BY <1>5, <2>3 DEF InOrder, RowAt
<1> QED BY <1>5, <1>7, <1>8, <1>9

\* break keyLoop, after an attempt that is paid for.
LEMMA NextRouteCover ==
    ASSUME IInv, NEW p \in Req, CoverInv(p), NEW o \in Outcome, NextRoute(p, o),
           pc[p] \in {"attempt", "pick", "calling"}, UNCHANGED <<order, routes>>,
           Len(order[p]) > 0, pos[p] <= 2 * Len(order[p]),
           NoKeyFail(p) => attempts'[p] = Len(hist[p]) + 1
    PROVE  CoverInv(p)'
<1>1. EndAttempt(p, key[p], o) /\ pc'[p] = "attempt" /\ pos'[p] = pos[p] + 1
      /\ key[p] \in KeyInUse
  BY DEF NextRoute, IInv, TypeOK
<1>2. NoKeyFail(p) => InOrder(p) /\ pos[p] = Len(hist[p]) + 1
  BY DEF CoverInv
<1>3. /\ Len(hist'[p]) = Len(hist[p]) + 1
      /\ NoKeyFail(p)' => NoKeyFail(p) /\ InOrder(p)'
  BY <1>1, <1>2, EndCover
<1>4. order'[p] # <<>> => (order[p] \in Orders(routes[p]))'
  BY DEF CoverInv, Orders
<1> QED BY <1>1, <1>2, <1>3, <1>4 DEF CoverInv

\* return from within an attempt: for a retryable error only after output.
LEMMA ReturnCover ==
    ASSUME IInv, NEW p \in Req, CoverInv(p), NEW o \in Outcome, NEW k \in KeyInUse,
           Return(p, k, o), pc[p] \in {"pick", "calling"}, UNCHANGED <<order, routes>>,
           emitted'[p] \/ o \notin {"retry", "nokey"}
    PROVE  CoverInv(p)'
<1>1. EndAttempt(p, k, o) /\ pc'[p] = "done" /\ err'[p] = o
  BY DEF Return, EndAttempt, IInv, TypeOK
<1>2. Len(order[p]) > 0 /\ pos[p] <= 2 * Len(order[p])
  BY DEF IInv, LoopInv
<1>3. NoKeyFail(p)' => InOrder(p)'
  BY <1>1, <1>2, EndCover DEF CoverInv
<1>4. order'[p] # <<>> => (order[p] \in Orders(routes[p]))'
  BY DEF CoverInv, Orders
<1> QED BY <1>1, <1>3, <1>4 DEF CoverInv

LEMMA PlanCover ==
    ASSUME IInv, NEW p \in Req, CoverInv(p),
           Accept(p) \/ ListRoutes(p) \/ ChannelOrder(p) \/ GiveUp(p)
    PROVE  CoverInv(p)'
<1> USE DEF IInv, TypeOK, planVars, loopVars, tryVars
<1>1. CASE Accept(p) \/ ListRoutes(p)
  <2>1. Len(hist[p]) = 0 /\ order'[p] = <<>> /\ pos'[p] = 1 /\ hist' = hist
    BY <1>1 DEF Accept, ListRoutes, Goto, Refuse, LoopInv, CoverInv
  <2>2. /\ pc'[p] \in {"resolve", "done", "order"}
        /\ pc'[p] = "done" => err'[p] \in {"local", "notfound"}
    BY <1>1 DEF Accept, ListRoutes, Goto, Refuse
  <2> QED BY <2>1, <2>2 DEF CoverInv, InOrder
<1>2. CASE ChannelOrder(p)
  <2>1. attempts[p] = 0 /\ Len(hist[p]) <= 0 /\ Len(hist[p]) \in Nat
    BY <1>2 DEF ChannelOrder, LoopInv
  <2>2. PICK f \in Orders(routes[p]) : order' = [order EXCEPT ![p] = f]
    BY <1>2 DEF ChannelOrder
  <2>3. /\ pc'[p] = "attempt" /\ order'[p] = f /\ pc[p] = "order"
        /\ UNCHANGED <<attempts, hist, pos, routes>>
    BY <1>2, <2>2 DEF ChannelOrder, Goto
  <2>4. pos[p] = 1
    BY <2>3 DEF CoverInv
  <2> QED BY <2>1, <2>3, <2>4 DEF CoverInv, InOrder, Orders
<1>3. CASE GiveUp(p)
  <2>1. /\ pc[p] = "attempt" /\ Exhausted(p) /\ pc'[p] = "done" /\ err'[p] = err[p]
        /\ UNCHANGED <<attempts, order, routes, hist>>
    BY <1>3 DEF GiveUp, Refuse
  <2>2. Len(order[p]) > 0 /\ Len(order[p]) \in Nat /\ attempts[p] \in Nat /\ pos[p] \in Nat
        /\ attempts[p] <= 4 /\ attempts[p] <= 2 * Len(order[p])
    BY <2>1 DEF LoopInv
  <2>3. /\ MaxAttempts(p) \in Nat
        /\ attempts[p] <= MaxAttempts(p) /\ MaxAttempts(p) <= 2 * Len(order[p])
    BY <2>2 DEF MaxAttempts
  <2>4. order[p] # <<>>
    BY <2>2
  <2>5. NoKeyFail(p) => Len(hist[p]) = MaxAttempts(p)
    BY <2>1, <2>2, <2>3 DEF CoverInv, Exhausted
  <2>6. /\ MaxAttempts(p)' = MaxAttempts(p)
        /\ NoKeyFail(p)' = NoKeyFail(p) /\ InOrder(p)' = InOrder(p)
    BY <2>1 DEF MaxAttempts, NoKeyFail, InOrder, RowAt
  <2> QED BY <2>1, <2>4, <2>5, <2>6 DEF CoverInv, Orders
<1> QED BY <1>1, <1>2, <1>3

LEMMA ListKeysCover ==
    ASSUME IInv, NEW p \in Req, CoverInv(p), ListKeys(p) PROVE CoverInv(p)'
<1>1. /\ pc[p] = "attempt" /\ ~Exhausted(p) /\ UNCHANGED <<order, routes>>
      /\ attempts'[p] = attempts[p] + 1
  BY DEF ListKeys, planVars, IInv, TypeOK
<1>2. Len(order[p]) > 0 /\ pos[p] <= 2 * Len(order[p])
  BY <1>1 DEF IInv, TypeOK, LoopInv, Exhausted
<1>3. NoKeyFail(p) => attempts'[p] = Len(hist[p]) + 1 /\ pos[p] = Len(hist[p]) + 1
  BY <1>1 DEF CoverInv
<1>4. CASE NextRoute(p, "nokey")
  <2>1. "nokey" \in Outcome
    BY DEF Outcome
  <2> QED BY <1>1, <1>2, <1>3, <1>4, <2>1, NextRouteCover
<1>5. CASE Goto(p, "pick")
  <2>1. pc'[p] = "pick" /\ UNCHANGED <<pos, hist>>
    BY <1>5 DEF Goto, IInv, TypeOK
  <2> QED BY <1>1, <1>3, <2>1 DEF CoverInv, NoKeyFail, InOrder, RowAt, Orders
<1> QED BY <1>4, <1>5 DEF ListKeys

LEMMA AttemptCover ==
    ASSUME IInv, NEW p \in Req, CoverInv(p),
           \/ AllCooling(p) \/ PickKey(p) \/ EmitFails(p) \/ AnswerOK(p)
           \/ AnswerRetryable(p) \/ AnswerFatal(p) \/ AnswerKeyFailed(p) \/ MarkKeyFailed(p)
    PROVE  CoverInv(p)'
<1>1. /\ pc[p] \in {"pick", "calling", "marking"}
      /\ UNCHANGED <<order, routes, attempts>>
  BY DEF AllCooling, PickKey, EmitFails, AnswerOK, AnswerRetryable, AnswerFatal,
         AnswerKeyFailed, MarkKeyFailed, planVars, tryVars
<1>2. /\ Len(order[p]) > 0 /\ pos[p] <= 2 * Len(order[p]) /\ key[p] \in KeyInUse
  BY <1>1, InAttempt DEF IInv, LoopInv
<1>3. CASE AllCooling(p)
  <2>1. "nokey" \in Outcome /\ pc[p] = "pick" /\ NextRoute(p, "nokey")
    BY <1>3 DEF Outcome, AllCooling
  <2> QED BY <1>1, <1>2, <2>1, NextRouteCover DEF CoverInv
<1>4. CASE PickKey(p)
  <2>1. PICK k \in Avail(p) : UseKey(p, k)
    BY <1>4 DEF PickKey
  <2> DEFINE used == [id |-> k.id, entry |-> k.entry, sent |-> body[p]]
  <2>2. used \in KeyInUse /\ pc[p] = "pick"
    BY <1>4, UsedKey DEF PickKey, IInv
  <2>3. "nokey" \in Outcome /\ "unsupported" \in Outcome
    BY DEF Outcome
  <2>4. CASE NextRoute(p, "nokey")
    BY <1>1, <1>2, <2>2, <2>3, <2>4, NextRouteCover DEF CoverInv
  <2>5. CASE Return(p, used, "unsupported")
    <3> HIDE DEF used
    <3> QED BY <1>1, <2>2, <2>3, <2>5, ReturnCover
  <2>6. CASE Goto(p, "calling")
    <3>1. pc'[p] = "calling" /\ UNCHANGED <<pos, hist>>
      BY <2>6 DEF Goto, IInv, TypeOK
    <3> QED BY <1>1, <2>2, <3>1 DEF CoverInv, NoKeyFail, InOrder, RowAt, Orders
  <2> QED BY <2>1, <2>4, <2>5, <2>6 DEF UseKey
<1>5. CASE EmitFails(p) \/ AnswerOK(p) \/ AnswerFatal(p)
  <2>1. pc[p] = "calling" /\ \E o \in {"local", "ok", "fatal"} : Return(p, key[p], o)
    BY <1>5 DEF EmitFails, AnswerOK, AnswerFatal
  <2>2. {"local", "ok", "fatal"} \subseteq Outcome
    BY DEF Outcome
  <2> QED BY <1>1, <1>2, <2>1, <2>2, ReturnCover
<1>6. CASE AnswerRetryable(p)
  <2>1. /\ pc[p] = "calling" /\ emitted' = emitted /\ "retry" \in Outcome
        /\ (emitted[p] /\ Return(p, key[p], "retry")) \/ NextRoute(p, "retry")
    BY <1>6 DEF AnswerRetryable, outVars, Outcome
  <2> QED BY <1>1, <1>2, <2>1, ReturnCover, NextRouteCover DEF CoverInv
<1>7. CASE AnswerKeyFailed(p)
  <2>1. /\ pc[p] = "calling" /\ EndAttempt(p, key[p], "keyfail") /\ "keyfail" \in Outcome
        /\ pc'[p] = "marking"
    BY <1>7 DEF AnswerKeyFailed, Outcome, IInv, TypeOK
  <2>2. NoKeyFail(p) => InOrder(p) /\ pos[p] = Len(hist[p]) + 1
    BY <2>1 DEF CoverInv
  <2>3. ~NoKeyFail(p)'
    BY <1>1, <1>2, <2>1, <2>2, EndCover
  <2> QED BY <1>1, <2>1, <2>3 DEF CoverInv, Orders
<1>8. CASE MarkKeyFailed(p)
  <2>1. pc[p] = "marking" /\ pc'[p] = "attempt" /\ UNCHANGED <<pos, hist>>
    BY <1>8 DEF MarkKeyFailed, Goto, IInv, TypeOK
  <2>2. ~NoKeyFail(p)
    BY <2>1 DEF CoverInv
  <2> QED BY <1>1, <2>1, <2>2 DEF CoverInv, NoKeyFail, Orders
<1> QED BY <1>3, <1>4, <1>5, <1>6, <1>7, <1>8

LEMMA CoverNext == IInv /\ (\A p \in Req : CoverInv(p)) /\ [Next]_vars
                      => (\A p \in Req : CoverInv(p))'
<1> SUFFICES ASSUME IInv, \A p \in Req : CoverInv(p), [Next]_vars, NEW q \in Req
             PROVE  CoverInv(q)'
  OBVIOUS
<1>1. ASSUME NEW p \in Req, Accept(p) \/ Progress(p) \/ Emit(p) \/ ClientGone(p)
      PROVE  CoverInv(q)'
  <2>1. CASE q # p
    BY <1>1, <2>1, OthersStay, CoverStays
  <2>2. CASE q = p /\ ClientGone(p)
    BY <2>2, CoverStays DEF ClientGone, planVars, loopVars, tryVars, outVars
  <2>3. CASE q = p /\ Emit(p)
    <3>1. pc[p] = "calling" /\ UNCHANGED <<planVars, loopVars, attempts>>
      BY <2>3 DEF Emit, tryVars
    <3> QED BY <2>3, <3>1 DEF CoverInv, NoKeyFail, InOrder, RowAt, Orders, planVars, loopVars
  <2>4. CASE q = p /\ (Accept(p) \/ Progress(p))
    BY <2>4, PlanCover, ListKeysCover, AttemptCover DEF Progress
  <2> QED BY <1>1, <2>1, <2>2, <2>3, <2>4
<1>2. CASE Tick \/ Reroute \/ DeleteKeys \/ InsertKey \/ UNCHANGED vars
  BY <1>2, CoverStays DEF Tick, Reroute, DeleteKeys, InsertKey, vars, reqVars, planVars,
                          loopVars, tryVars, outVars
<1> QED BY <1>1, <1>2 DEF Next, Quiet

LEMMA CoverInit == Init => \A p \in Req : CoverInv(p)
BY DEF Init, CoverInv, InOrder, NoKeyFail

\* A sequence that tries every route in turn has met them all, or four of them.
LEMMA Covered ==
    ASSUME IInv, NEW p \in Req, CoverInv(p), pc[p] = "done", ~emitted[p],
           err[p] \in {"retry", "nokey"}, NoKeyFail(p)
    PROVE  LET met == {hist[p][i].row : i \in DOMAIN hist[p]}
           IN  met = routes[p] \/ Cardinality(met) >= 4
<1> DEFINE met == {hist[p][i].row : i \in DOMAIN hist[p]}
           f == order[p]
           n == Len(f)
           h == Len(hist[p])
<1>1. /\ f # <<>> /\ f \in Orders(routes[p]) /\ h = MaxAttempts(p) /\ InOrder(p)
      /\ hist[p] \in Seq(Attempt) /\ f \in Seq(Row)
  BY DEF CoverInv, IInv, TypeOK
<1>2. n \in Nat /\ h \in Nat /\ DOMAIN hist[p] = 1..h /\ DOMAIN f = 1..n
  BY <1>1
<1>3. IsFiniteSet(routes[p])
  BY FS_Subset, RouterAssumption DEF IInv, TypeOK
<1>4. f \in [1..Cardinality(routes[p]) -> routes[p]] /\ Cardinality(routes[p]) \in Nat
  BY <1>1, <1>3, FS_CardinalityType DEF Orders
<1>5. n = Cardinality(routes[p])
  BY <1>4
<1>6. \A i, j \in 1..n : f[i] = f[j] => i = j
  BY <1>1, <1>2 DEF Orders
<1>7. \A i \in 1..h : i <= n => hist[p][i].row = f[i]
  BY <1>1 DEF InOrder, RowAt
<1>8. met \subseteq routes[p]
  <2>1. ASSUME NEW i \in 1..h PROVE hist[p][i].row \in routes[p]
    <3>1. i <= 2 * n /\ hist[p][i].row = RowAt(p, i)
      BY <1>1 DEF InOrder
    <3>2. CASE i <= n
      BY <1>4, <1>5, <3>1, <3>2 DEF RowAt
    <3>3. CASE ~(i <= n)
      <4>1. i - n \in 1..n
        BY <1>2, <3>1, <3>3
      <4> QED BY <1>4, <1>5, <3>1, <3>3, <4>1 DEF RowAt
    <3> QED BY <3>2, <3>3
  <2> QED BY <1>2, <2>1
<1>9. CASE n >= 4
  <2>1. h = 4
    BY <1>1, <1>2, <1>9 DEF MaxAttempts
  <2> DEFINE g == [i \in 1..4 |-> f[i]]
  <2>2. ASSUME NEW i \in 1..4 PROVE g[i] \in met
    BY <1>2, <1>7, <1>9, <2>1
  <2>3. g \in [1..4 -> met]
    BY <2>2
  <2>4. \A i, j \in 1..4 : g[i] = g[j] => i = j
    BY <1>2, <1>6, <1>9
  <2>5. g \in Injection(1..4, met)
    <3> HIDE DEF g, met
    <3> QED BY <2>3, <2>4 DEF Injection, IsInjective
  <2>6. IsFiniteSet(met)
    BY <1>3, <1>8, FS_Subset
  <2>7. Cardinality(1..4) = 4
    <3>1. ASSUME NEW m \in Nat \ {0} PROVE Cardinality(1..m) = m
      BY FS_Interval
    <3>2. 4 \in Nat \ {0}
      OBVIOUS
    <3> QED BY <3>1, <3>2, Zenon
  <2>8. Cardinality(1..4) <= Cardinality(met)
    <3> HIDE DEF g, met
    <3> QED BY <2>5, <2>6, FS_Injection
  <2> QED BY <2>7, <2>8
<1>10. CASE ~(n >= 4)
  <2>1. n <= h
    BY <1>1, <1>2, <1>10 DEF MaxAttempts
  <2>2. f \in Injection(1..n, routes[p])
    BY <1>4, <1>5, <1>6 DEF Injection, IsInjective
  <2>3. Cardinality(1..n) = n
    BY <1>2, FS_Interval, SMTT(30)
  <2>4. f \in Surjection(1..n, routes[p])
    BY <1>3, <1>5, <2>2, <2>3, FS_Injection
  <2>5. ASSUME NEW row \in routes[p] PROVE row \in met
    <3>1. PICK i \in 1..n : f[i] = row
      BY <2>4 DEF Surjection
    <3> QED BY <1>2, <1>7, <2>1, <3>1
  <2> QED BY <1>8, <2>5
<1> QED BY <1>9, <1>10

\* A request that failed for retryable reasons, without any key turned down, has been
\* through all its routes, or through four (the two limits of the loops).
THEOREM FailoverComplete == Spec => []FailoverCoversRoutes
<1>1. IInv /\ (\A p \in Req : CoverInv(p)) => FailoverCoversRoutes
  <2> SUFFICES ASSUME IInv, \A p \in Req : CoverInv(p), NEW p \in Req,
                      pc[p] = "done", ~emitted[p], err[p] \in {"retry", "nokey"},
                      "keyfail" \notin {hist[p][i].outcome : i \in DOMAIN hist[p]}
               PROVE  LET met == {hist[p][i].row : i \in DOMAIN hist[p]}
                      IN  met = routes[p] \/ Cardinality(met) >= 4
    BY DEF FailoverCoversRoutes
  <2>1. hist[p] \in Seq(Attempt)
    BY DEF IInv, TypeOK
  <2>2. NoKeyFail(p)
    BY <2>1 DEF NoKeyFail
  <2> QED BY <2>2, Covered
<1>2. Init /\ [][Next]_vars /\ []IInv => [](\A p \in Req : CoverInv(p))
  BY CoverInit, CoverNext, PTL
<1> QED BY <1>1, <1>2, Inductive, PTL DEF Spec
-----------------------------------------------------------------------------
(* A failed key rests. *)

\* Entry and row id belong together, and no cooldown lies further ahead than
\* Cooldown from now.
TableInv ==
    /\ \A k \in keyTab : k.entry < nextEntry /\ k.until <= now + Cooldown
    /\ \A k, l \in keyTab : k.entry = l.entry => k.id = l.id

\* What the keys a request has in hand, and the cooldowns it has recorded, have
\* to do with the table: a key it may pick, and a key of the table, is cooled
\* at least as long as this request has recorded.
RestInv(p) ==
    /\ pc[p] # "pick" => keys[p] = {}
    /\ \A k \in keys[p] : /\ k.entry < nextEntry
                          /\ \A l \in keyTab : k.entry = l.entry => k.id = l.id
    /\ pc[p] \in {"calling", "marking"} =>
          /\ key[p].entry < nextEntry
          /\ \A l \in keyTab : key[p].entry = l.entry => key[p].id = l.id
    /\ \A e \in rested[p] :
          /\ e.entry < nextEntry
          /\ \A k \in keys[p] \cup keyTab : k.entry = e.entry => k.until >= e.until

Rested == TableInv /\ \A p \in Req : RestInv(p)

\* How the table of keys may change under a request: rows go, come with a new
\* entry, and cool longer.
KeysAge ==
    /\ nextEntry' \in Nat /\ nextEntry <= nextEntry'
    /\ \A l \in keyTab' : l.entry < nextEntry =>
          \E k \in keyTab : k.entry = l.entry /\ k.id = l.id /\ k.until <= l.until

LEMMA RestStays ==
    ASSUME IInv, NEW q \in Req, RestInv(q), keyTab' \subseteq KeyRow, KeysAge,
           pc'[q] = pc[q], keys'[q] = keys[q], key'[q] = key[q], rested'[q] = rested[q]
    PROVE  RestInv(q)'
<1>1. /\ nextEntry \in Nat /\ nextEntry' \in Nat /\ nextEntry <= nextEntry'
      /\ keyTab \subseteq KeyRow /\ keys[q] \subseteq KeyRow /\ key[q] \in KeyInUse
      /\ rested[q] \subseteq [entry : Nat, until : Nat]
  BY DEF KeysAge, IInv, TypeOK
<1>2. ASSUME NEW k \in keys[q]
      PROVE  k.entry < nextEntry' /\ \A l \in keyTab' : k.entry = l.entry => k.id = l.id
  <2>1. k.entry \in Nat /\ k.entry < nextEntry
    BY <1>1 DEF RestInv, KeyRow
  <2> QED BY <1>1, <2>1 DEF RestInv, KeysAge
<1>3. ASSUME pc[q] \in {"calling", "marking"}
      PROVE  /\ key[q].entry < nextEntry'
             /\ \A l \in keyTab' : key[q].entry = l.entry => key[q].id = l.id
  <2>1. key[q].entry \in Nat /\ key[q].entry < nextEntry
    BY <1>1, <1>3 DEF RestInv
  <2> QED BY <1>1, <1>3, <2>1 DEF RestInv, KeysAge
<1>4. ASSUME NEW e \in rested[q]
      PROVE  /\ e.entry < nextEntry'
             /\ \A k \in keys[q] \cup keyTab' : k.entry = e.entry => k.until >= e.until
  <2>1. e.entry \in Nat /\ e.until \in Nat /\ e.entry < nextEntry
    BY <1>1 DEF RestInv
  <2>2. ASSUME NEW l \in keyTab', l.entry = e.entry PROVE l.until >= e.until
    <3>1. PICK k \in keyTab : k.entry = l.entry /\ k.id = l.id /\ k.until <= l.until
      BY <2>1, <2>2 DEF KeysAge
    <3>2. k.until \in Nat /\ l.until \in Nat /\ k.until >= e.until
      BY <1>1, <2>2, <3>1 DEF RestInv, KeyRow
    <3> QED BY <2>1, <3>1, <3>2
  <2> QED BY <1>1, <2>1, <2>2 DEF RestInv
<1> QED BY <1>2, <1>3, <1>4 DEF RestInv

\* A table that is left alone ages.
LEMMA SameKeysAge ==
    ASSUME IInv, keyTab' = keyTab, nextEntry' = nextEntry
    PROVE  KeysAge /\ keyTab' \subseteq KeyRow
<1>1. nextEntry \in Nat /\ keyTab \subseteq KeyRow
  BY DEF IInv, TypeOK
<1>2. \A l \in keyTab : l.until <= l.until
  BY <1>1 DEF KeyRow
<1> QED BY <1>1, <1>2 DEF KeysAge

\* The administrators' statements and the clock.
LEMMA EnvironmentRests ==
    ASSUME IInv, Rested, Tick \/ Reroute \/ DeleteKeys \/ InsertKey \/ UNCHANGED vars
    PROVE  Rested'
<1>1. IInv'
  BY EnvironmentInv
<1>2. /\ nextEntry \in Nat /\ now \in Nat /\ Cooldown \in Nat /\ now' \in Nat
      /\ keyTab \subseteq KeyRow /\ keyTab' \subseteq KeyRow
  BY <1>1, RouterAssumption DEF IInv, TypeOK
<1>3. UNCHANGED reqVars
  BY DEF Tick, Reroute, DeleteKeys, InsertKey, vars
<1>4. KeysAge /\ TableInv'
  <2>1. CASE Tick \/ Reroute \/ UNCHANGED vars
    <3>1. keyTab' = keyTab /\ nextEntry' = nextEntry /\ now <= now'
      BY <1>2, <2>1 DEF Tick, Reroute, dbVars, vars
    <3>2. \A k \in keyTab : k.until \in Nat
      BY <1>2 DEF KeyRow
    <3>3. TableInv'
      BY <1>2, <3>1, <3>2 DEF Rested, TableInv
    <3> QED BY <3>1, <3>3, SameKeysAge
  <2>2. CASE DeleteKeys
    <3>1. keyTab' \subseteq keyTab /\ nextEntry' = nextEntry /\ now' = now
      BY <2>2 DEF DeleteKeys
    <3>2. \A k \in keyTab : k.until <= k.until
      BY <1>2 DEF KeyRow
    <3> QED BY <1>2, <3>1, <3>2 DEF Rested, TableInv, KeysAge
  <2>3. CASE InsertKey
    <3>1. /\ nextEntry' = nextEntry + 1 /\ now' = now
          /\ \E id, c : keyTab' = keyTab \cup {[id |-> id, chan |-> c, entry |-> nextEntry,
                                                until |-> 0]}
      BY <2>3 DEF InsertKey
    <3>2. PICK id, c : keyTab' = keyTab \cup {[id |-> id, chan |-> c, entry |-> nextEntry,
                                               until |-> 0]}
      BY <3>1
    <3> DEFINE new == [id |-> id, chan |-> c, entry |-> nextEntry, until |-> 0]
    <3>3. \A k \in keyTab : k.entry \in Nat /\ k.until \in Nat /\ k.entry < nextEntry
                            /\ k.until <= now + Cooldown
      BY <1>2 DEF Rested, TableInv, KeyRow
    <3>4. new.entry = nextEntry /\ new.until = 0
      OBVIOUS
    <3>5. keyTab' = keyTab \cup {new}
      BY <3>2
    <3> HIDE DEF new
    <3>6. KeysAge
      <4>1. ASSUME NEW l \in keyTab', l.entry < nextEntry
            PROVE  l \in keyTab /\ l.until <= l.until
        BY <1>2, <3>3, <3>4, <3>5, <4>1
      <4> QED BY <1>2, <3>1, <4>1 DEF KeysAge
    <3>7. ASSUME NEW k \in keyTab'
          PROVE  k.entry < nextEntry' /\ k.until <= now' + Cooldown
      BY <1>2, <3>1, <3>3, <3>4, <3>5
    <3>8. ASSUME NEW k \in keyTab', NEW l \in keyTab', k.entry = l.entry
          PROVE  k.id = l.id
      <4>1. (k \in keyTab /\ l \in keyTab) \/ (k = new /\ l = new)
        BY <1>2, <3>3, <3>4, <3>5, <3>8
      <4> QED BY <3>8, <4>1 DEF Rested, TableInv
    <3> QED BY <3>6, <3>7, <3>8 DEF TableInv
  <2> QED BY <2>1, <2>2, <2>3
<1>5. ASSUME NEW q \in Req PROVE RestInv(q)'
  BY <1>2, <1>3, <1>4, RestStays DEF Rested, reqVars, loopVars
<1> QED BY <1>4, <1>5 DEF Rested

\* The steps of a request that touch no key row.
LEMMA RequestRests ==
    ASSUME IInv, Rested, NEW p \in Req,
           \/ Accept(p) \/ ListRoutes(p) \/ ChannelOrder(p) \/ GiveUp(p) \/ AllCooling(p)
           \/ Emit(p) \/ EmitFails(p) \/ AnswerOK(p) \/ AnswerKeyFailed(p)
           \/ AnswerRetryable(p) \/ AnswerFatal(p) \/ ClientGone(p)
    PROVE  RestInv(p)'
<1> USE DEF IInv, TypeOK, dbVars, planVars, loopVars, tryVars
<1>1. UNCHANGED <<keyTab, nextEntry, rested>>
  BY DEF Accept, ListRoutes, ChannelOrder, GiveUp, AllCooling, Emit, EmitFails, AnswerOK,
         AnswerKeyFailed, AnswerRetryable, AnswerFatal, ClientGone
<1>2. RestInv(p)
  BY DEF Rested
<1>3. CASE Emit(p) \/ ClientGone(p)
  BY <1>1, <1>2, <1>3, RestStays, SameKeysAge DEF Emit, ClientGone
<1>4. CASE Accept(p) \/ ListRoutes(p) \/ ChannelOrder(p) \/ GiveUp(p)
  <2>1. pc[p] \notin {"pick", "calling", "marking"} /\ keys'[p] = keys[p]
        /\ pc'[p] \notin {"pick", "calling", "marking"}
    BY <1>4 DEF Accept, ListRoutes, ChannelOrder, GiveUp, Goto, Refuse
  <2> QED BY <1>1, <1>2, <2>1 DEF RestInv
<1>5. CASE AllCooling(p) \/ EmitFails(p) \/ AnswerOK(p) \/ AnswerRetryable(p) \/ AnswerFatal(p)
  <2>1. keys'[p] = {} /\ pc'[p] \notin {"pick", "calling", "marking"}
    BY <1>5 DEF AllCooling, EmitFails, AnswerOK, AnswerRetryable, AnswerFatal, NextRoute,
                Return, EndAttempt
  <2> QED BY <1>1, <1>2, <2>1 DEF RestInv
<1>6. CASE AnswerKeyFailed(p)
  <2>1. keys'[p] = {} /\ pc[p] = "calling" /\ pc'[p] = "marking" /\ key'[p] = key[p]
    BY <1>6 DEF AnswerKeyFailed, EndAttempt
  <2> QED BY <1>1, <1>2, <2>1 DEF RestInv
<1> QED BY <1>3, <1>4, <1>5, <1>6

\* SelectKey: the keys in hand are rows of the table, then one of them.
LEMMA SelectRests ==
    ASSUME IInv, Rested, NEW p \in Req, ListKeys(p) \/ PickKey(p)
    PROVE  RestInv(p)'
<1> USE DEF IInv, TypeOK
<1>1. UNCHANGED <<keyTab, nextEntry, rested>>
  BY DEF ListKeys, PickKey, dbVars
<1>2. RestInv(p)
  BY DEF Rested
<1>3. CASE ListKeys(p)
  <2>1. CASE NextRoute(p, "nokey")
    <3>1. keys'[p] = {} /\ pc'[p] = "attempt"
      BY <2>1 DEF NextRoute, EndAttempt
    <3> QED BY <1>1, <1>2, <3>1 DEF RestInv
  <2>2. CASE /\ Goto(p, "pick")
             /\ keys' = [keys EXCEPT ![p] = {k \in keyTab : k.chan = ChannelOf[SeqAt(p)]}]
    <3>1. keys'[p] \subseteq keyTab /\ pc'[p] = "pick"
      BY <2>2 DEF Goto
    <3> QED BY <1>1, <1>2, <3>1 DEF Rested, TableInv, RestInv
  <2> QED BY <1>3, <2>1, <2>2 DEF ListKeys
<1>4. CASE PickKey(p)
  <2>1. PICK k \in keys[p] : UseKey(p, k)
    BY <1>4 DEF PickKey, Avail
  <2> DEFINE used == [id |-> k.id, entry |-> k.entry, sent |-> body[p]]
  <2>2. used.id = k.id /\ used.entry = k.entry
    OBVIOUS
  <2>3. CASE NextRoute(p, "nokey") \/ Return(p, used, "unsupported")
    <3>1. keys'[p] = {} /\ pc'[p] \in {"attempt", "done"}
      BY <2>3 DEF NextRoute, Return, EndAttempt
    <3> QED BY <1>1, <1>2, <3>1 DEF RestInv
  <2>4. CASE /\ Goto(p, "calling")
             /\ keys' = [keys EXCEPT ![p] = {}] /\ key' = [key EXCEPT ![p] = used]
    <3>1. keys'[p] = {} /\ pc'[p] = "calling" /\ key'[p] = used
      BY <2>4 DEF Goto
    <3> HIDE DEF used
    <3> QED BY <1>1, <1>2, <2>1, <2>2, <3>1 DEF RestInv
  <2> QED BY <2>1, <2>3, <2>4 DEF UseKey
<1> QED BY <1>3, <1>4

\* The UPDATE cools the key whose failure it records, and only for longer.
LEMMA MarkRests ==
    ASSUME IInv, Rested, NEW p \in Req, MarkKeyFailed(p)
    PROVE  KeysAge /\ keyTab' \subseteq KeyRow /\ TableInv' /\ RestInv(p)'
<1> DEFINE until == now + Cooldown
           cooled(k) == IF k.id = key[p].id THEN [k EXCEPT !.until = until] ELSE k
<1>1. /\ nextEntry \in Nat /\ now \in Nat /\ until \in Nat /\ keyTab \subseteq KeyRow
      /\ key[p] \in KeyInUse /\ keyTab' \subseteq KeyRow
      /\ rested[p] \subseteq [entry : Nat, until : Nat]
  <2>1. IInv'
    BY MarkKeyFailedInv
  <2>2. keyTab' \subseteq KeyRow
    BY <2>1 DEF IInv, TypeOK
  <2> QED BY <2>2, RouterAssumption DEF IInv, TypeOK
<1>2. /\ nextEntry' = nextEntry /\ now' = now /\ pc[p] = "marking" /\ pc'[p] = "attempt"
      /\ keys'[p] = keys[p]
  BY DEF MarkKeyFailed, Goto, IInv, TypeOK
<1>3. RestInv(p) /\ keys[p] = {}
  BY <1>2 DEF Rested, RestInv
<1>4. CASE gone[p]
  <2>1. keyTab' = keyTab /\ rested' = rested
    BY <1>4 DEF MarkKeyFailed
  <2>2. TableInv'
    BY <1>2, <2>1 DEF Rested, TableInv
  <2>3. RestInv(p)'
    BY <1>2, <1>3, <2>1 DEF RestInv
  <2> QED BY <1>1, <1>2, <2>1, <2>2, <2>3, SameKeysAge
<1>5. CASE ~gone[p]
  <2>1. keyTab' = {cooled(k) : k \in keyTab}
    BY <1>5 DEF MarkKeyFailed
  <2>2. ASSUME NEW k \in keyTab
        PROVE  /\ cooled(k).entry = k.entry /\ cooled(k).id = k.id
               /\ k.until \in Nat /\ k.until <= until
               /\ cooled(k).until \in {k.until, until}
               /\ k.id = key[p].id => cooled(k).until = until
    <3>1. k \in KeyRow
      BY <1>1
    <3> QED BY <3>1 DEF KeyRow, Rested, TableInv
  <2> HIDE DEF cooled
  <2>3. KeysAge
    <3>1. ASSUME NEW l \in keyTab'
          PROVE  \E k \in keyTab : k.entry = l.entry /\ k.id = l.id /\ k.until <= l.until
      <4>1. PICK k \in keyTab : l = cooled(k)
        BY <2>1
      <4> HIDE DEF until
      <4> QED BY <1>1, <2>2, <4>1
    <3> QED BY <1>1, <1>2, <3>1 DEF KeysAge
  <2>4. TableInv'
    <3>1. ASSUME NEW k \in keyTab
          PROVE  cooled(k).entry < nextEntry /\ cooled(k).until <= until
      BY <1>1, <2>2 DEF Rested, TableInv
    <3>2. ASSUME NEW k \in keyTab, NEW l \in keyTab, cooled(k).entry = cooled(l).entry
          PROVE  cooled(k).id = cooled(l).id
      BY <2>2, <3>2 DEF Rested, TableInv
    <3> QED BY <1>2, <2>1, <3>1, <3>2 DEF TableInv
  <2>5. RestInv(p)'
    <3> DEFINE e == [entry |-> key[p].entry, until |-> until]
    <3>1. rested'[p] = rested[p] \cup {e}
      BY <1>5 DEF MarkKeyFailed, IInv, TypeOK
    <3>2. e.entry = key[p].entry /\ e.until = until /\ e.entry < nextEntry
      BY <1>2 DEF Rested, RestInv
    <3> HIDE DEF e
    <3>3. ASSUME NEW k \in keyTab, cooled(k).entry = e.entry
          PROVE  cooled(k).until >= e.until
      <4>1. k.id = key[p].id
        BY <1>2, <2>2, <3>2, <3>3 DEF Rested, RestInv
      <4> QED BY <1>1, <2>2, <3>2, <4>1
    <3>4. ASSUME NEW k \in keyTab, NEW f \in rested[p], cooled(k).entry = f.entry
          PROVE  cooled(k).until >= f.until
      <4>1. k.until >= f.until /\ f.until \in Nat
        BY <1>1, <2>2, <3>4 DEF Rested, RestInv
      <4> HIDE DEF until
      <4> QED BY <1>1, <2>2, <4>1
    <3>5. \A f \in rested[p] : f.entry < nextEntry
      BY <1>3 DEF RestInv
    <3> QED BY <1>2, <1>3, <2>1, <3>1, <3>2, <3>3, <3>4, <3>5 DEF RestInv
  <2> QED BY <1>1, <2>3, <2>4, <2>5
<1> QED BY <1>4, <1>5

LEMMA RestedNext == IInv /\ Rested /\ [Next]_vars => Rested'
<1> SUFFICES ASSUME IInv, Rested, [Next]_vars PROVE Rested'
  OBVIOUS
<1>1. ASSUME NEW p \in Req, Accept(p) \/ Progress(p) \/ Emit(p) \/ ClientGone(p)
      PROVE  Rested'
  <2>1. KeysAge /\ keyTab' \subseteq KeyRow /\ TableInv' /\ RestInv(p)'
    <3>1. CASE MarkKeyFailed(p)
      BY <3>1, MarkRests
    <3>2. CASE ~MarkKeyFailed(p)
      <4>1. UNCHANGED <<keyTab, nextEntry, now>>
        BY <1>1, <3>2 DEF Progress, Accept, ListRoutes, ChannelOrder, GiveUp, AllCooling,
           Emit, EmitFails, AnswerOK, AnswerKeyFailed, AnswerRetryable, AnswerFatal,
           ClientGone, ListKeys, PickKey, dbVars
      <4>2. TableInv'
        BY <4>1 DEF Rested, TableInv
      <4>3. RestInv(p)'
        BY <1>1, <3>2, RequestRests, SelectRests DEF Progress
      <4> QED BY <4>1, <4>2, <4>3, SameKeysAge
    <3> QED BY <3>1, <3>2
  <2>2. ASSUME NEW q \in Req \ {p} PROVE RestInv(q)'
    BY <1>1, <2>1, OthersStay, RestStays DEF Rested
  <2> QED BY <2>1, <2>2 DEF Rested
<1>2. CASE Tick \/ Reroute \/ DeleteKeys \/ InsertKey \/ UNCHANGED vars
  BY <1>2, EnvironmentRests
<1> QED BY <1>1, <1>2 DEF Next, Quiet

LEMMA RestedInit == Init => Rested
<1> SUFFICES ASSUME Init PROVE Rested
  OBVIOUS
<1>1. /\ keyTab = {[id |-> i, chan |-> InitKeys[i], entry |-> i, until |-> 0] :
                      i \in DOMAIN InitKeys}
      /\ nextEntry = Len(InitKeys) + 1 /\ now = 1
  BY DEF Init
<1>2. Len(InitKeys) \in Nat /\ DOMAIN InitKeys = 1..Len(InitKeys) /\ Cooldown \in Nat
  BY RouterAssumption
<1>3. TableInv
  BY <1>1, <1>2 DEF TableInv
<1>4. \A p \in Req : RestInv(p)
  BY DEF Init, RestInv
<1> QED BY <1>3, <1>4 DEF Rested

\* A request that starts a call uses a key it has not cooled, or whose cooldown
\* is over.
LEMMA CallsRested ==
    IInv /\ Rested /\ [Next]_vars =>
       \A p \in Req : StartsCall(p) =>
          \A e \in rested[p] : e.entry = key'[p].entry => e.until < now
<1> SUFFICES ASSUME IInv, Rested, [Next]_vars, NEW q \in Req, StartsCall(q),
                    NEW e \in rested[q], e.entry = key'[q].entry
             PROVE  e.until < now
  OBVIOUS
<1>1. pc'[q] # pc[q] /\ pc'[q] = "calling"
  BY DEF StartsCall
<1>2. CASE Tick \/ Reroute \/ DeleteKeys \/ InsertKey \/ UNCHANGED vars
  BY <1>1, <1>2 DEF Tick, Reroute, DeleteKeys, InsertKey, vars, reqVars, loopVars
<1>3. CASE \E p \in Req : Accept(p) \/ Progress(p) \/ Emit(p) \/ ClientGone(p)
  <2>1. Accept(q) \/ Progress(q) \/ Emit(q) \/ ClientGone(q)
    BY <1>1, <1>3, OthersStay
  <2>2. PickKey(q)
    BY <1>1, <2>1 DEF Progress, Accept, ListRoutes, ChannelOrder, GiveUp, AllCooling, Emit,
       EmitFails, AnswerOK, AnswerKeyFailed, AnswerRetryable, AnswerFatal, ClientGone,
       ListKeys, MarkKeyFailed, Goto, Refuse, NextRoute, Return, EndAttempt, loopVars,
       IInv, TypeOK
  <2>3. PICK k \in Avail(q) : UseKey(q, k)
    BY <2>2 DEF PickKey
  <2>4. key'[q].entry = k.entry
    BY <1>1, <2>3 DEF UseKey, NextRoute, Return, IInv, TypeOK
  <2>5. k \in keys[q] /\ k.until < now
    BY <2>3 DEF Avail
  <2>6. k.until \in Nat /\ e.until \in Nat /\ now \in Nat
    BY <2>5 DEF IInv, TypeOK, KeyRow
  <2>7. k.until >= e.until
    BY <2>4, <2>5 DEF Rested, RestInv
  <2> QED BY <2>5, <2>6, <2>7
<1> QED BY <1>2, <1>3 DEF Next, Quiet

\* An entry whose cooldown a request has recorded is not called by it before the
\* cooldown is over, whatever the other requests and the administrators do to the
\* rows (SelectKey on a snapshot, MarkKeyFailed by row id).
THEOREM KeysRest == Spec => FailedKeyRests
<1>1. Init /\ [][Next]_vars /\ []IInv => []Rested
  BY RestedInit, RestedNext, PTL
<1>2. Init /\ [][Next]_vars /\ []IInv
         => [][\A p \in Req : StartsCall(p) =>
                  \A e \in rested[p] : e.entry = key'[p].entry => e.until < now]_vars
  BY <1>1, CallsRested, PTL
<1> QED BY <1>2, Inductive, PTL DEF Spec, FailedKeyRests
-----------------------------------------------------------------------------
(* Router implements Dispatch. *)

\* No request holds the verdict "ok" before it ends.
NotYetOK == \A p \in Req : pc[p] # "done" => err[p] # "ok"

\* Steps inside a request are invisible to the clients.
LEMMA Invisible ==
    ASSUME NEW p \in Req, attempts' = attempts,
           pc[p] \notin {"idle", "done"}, pc'[p] \notin {"idle", "done"},
           emitted'[p] = emitted[p],
           \A q \in Req \ {p} : pc'[q] = pc[q] /\ err'[q] = err[q] /\ emitted'[q] = emitted[q]
    PROVE  UNCHANGED D!dispatchVars
<1>1. ASSUME NEW q \in Req PROVE Phase(q)' = Phase(q) /\ Verdict(q)' = Verdict(q)
  <2>1. CASE q = p
    BY <2>1 DEF Phase, Verdict
  <2>2. CASE q # p
    BY <2>2 DEF Phase, Verdict
  <2> QED BY <2>1, <2>2
<1> QED BY <1>1 DEF D!dispatchVars

\* A request that ends concludes its dispatch, successfully only if it was tried.
LEMMA Concludes ==
    ASSUME NEW p \in Req, attempts' = attempts,
           pc[p] \notin {"idle", "done"}, pc'[p] = "done",
           err'[p] = "ok" => attempts[p] > 0,
           \A q \in Req \ {p} : pc'[q] = pc[q] /\ err'[q] = err[q] /\ emitted'[q] = emitted[q]
    PROVE  D!Conclude(p)
<1> DEFINE phase == [q \in Req |-> Phase(q)]
           verdict == [q \in Req |-> Verdict(q)]
<1>1. Phase(p) \in {"pending", "answering"} /\ Phase(p)' = "done"
  BY DEF Phase
<1>2. \A q \in Req \ {p} : Phase(q)' = Phase(q) /\ Verdict(q)' = Verdict(q)
  BY DEF Phase, Verdict
<1>3. phase' = [phase EXCEPT ![p] = "done"]
  BY <1>1, <1>2
<1>4. \/ attempts[p] > 0 /\ verdict' = [verdict EXCEPT ![p] = "ok"]
      \/ verdict' = [verdict EXCEPT ![p] = "error"]
  <2>1. CASE err'[p] = "ok"
    <3>1. Verdict(p)' = "ok"
      BY <2>1 DEF Verdict
    <3> QED BY <1>2, <2>1, <3>1
  <2>2. CASE err'[p] # "ok"
    <3>1. Verdict(p)' = "error"
      BY <2>2 DEF Verdict
    <3> QED BY <1>2, <3>1
  <2> QED BY <2>1, <2>2
<1>5. phase[p] \in {"pending", "answering"}
  BY <1>1
<1> HIDE DEF phase, verdict
<1> QED BY <1>3, <1>4, <1>5 DEF D!Conclude, phase, verdict

\* What each way to leave an attempt or a request does, seen by Dispatch.
LEMMA LeaveFacts ==
    ASSUME TypeOK, NEW p \in Req, NEW o,
           \/ NextRoute(p, o)
           \/ \E k \in KeyInUse : Return(p, k, o)
           \/ Refuse(p, o)
    PROVE  /\ err'[p] = o
           /\ \A q \in Req \ {p} : pc'[q] = pc[q] /\ err'[q] = err[q]
           /\ NextRoute(p, o) => pc'[p] = "attempt"
           /\ Refuse(p, o) => pc'[p] = "done"
           /\ (\E k \in KeyInUse :
                   Return(p, k, o)) => pc'[p] = "done"
<1>1. CASE NextRoute(p, o)
  <2>1. err' = [err EXCEPT ![p] = o] /\ pc' = [pc EXCEPT ![p] = "attempt"]
    BY <1>1 DEF NextRoute, EndAttempt
  <2> QED BY <1>1, <2>1 DEF TypeOK, Refuse, Return
<1>2. CASE \E k \in KeyInUse : Return(p, k, o)
  <2>1. err' = [err EXCEPT ![p] = o] /\ pc' = [pc EXCEPT ![p] = "done"]
    BY <1>2 DEF Return, EndAttempt
  <2> QED BY <2>1 DEF TypeOK, NextRoute
<1>3. CASE Refuse(p, o)
  <2>1. err' = [err EXCEPT ![p] = o] /\ pc' = [pc EXCEPT ![p] = "done"]
    BY <1>3 DEF Refuse
  <2> QED BY <2>1 DEF TypeOK, NextRoute
<1> QED BY <1>1, <1>2, <1>3

\* What Goto does, seen by Dispatch.
LEMMA GotoFacts ==
    ASSUME TypeOK, NEW p \in Req, NEW l, Goto(p, l)
    PROVE  /\ pc'[p] = l /\ err' = err
           /\ \A q \in Req \ {p} : pc'[q] = pc[q]
<1>1. pc' = [pc EXCEPT ![p] = l] /\ err' = err
  BY DEF Goto
<1> QED BY <1>1 DEF TypeOK

\* One step of a request is one step of Dispatch or none, and keeps NotYetOK.
Simulates(p) == (D!DispatchNext \/ UNCHANGED D!dispatchVars) /\ NotYetOK'

LEMMA LeaveSimulates ==
    ASSUME IInv, NotYetOK, NEW p \in Req, NEW o,
           pc[p] \notin {"idle", "done"}, attempts' = attempts,
           \A q \in Req \ {p} : emitted'[q] = emitted[q],
           \/ NextRoute(p, o) /\ emitted'[p] = emitted[p] /\ o # "ok"
           \/ \E k \in KeyInUse : Return(p, k, o)
           \/ Refuse(p, o),
           o = "ok" => attempts[p] > 0
    PROVE  Simulates(p)
<1>1. TypeOK
  BY DEF IInv
<1>2. err'[p] = o /\ \A q \in Req \ {p} : pc'[q] = pc[q] /\ err'[q] = err[q]
  BY <1>1, LeaveFacts
<1>3. CASE NextRoute(p, o) /\ emitted'[p] = emitted[p] /\ o # "ok"
  <2>1. pc'[p] = "attempt"
    BY <1>1, <1>3, LeaveFacts
  <2>2. UNCHANGED D!dispatchVars
    BY <1>2, <1>3, <2>1, Invisible
  <2>3. NotYetOK'
    BY <1>2, <1>3 DEF NotYetOK
  <2> QED BY <2>2, <2>3 DEF Simulates
<1>4. CASE ~NextRoute(p, o)
  <2>1. pc'[p] = "done"
    BY <1>1, <1>4, LeaveFacts
  <2>2. D!Conclude(p)
    BY <1>2, <2>1, Concludes
  <2>3. NotYetOK'
    BY <1>2, <2>1 DEF NotYetOK
  <2> QED BY <2>2, <2>3 DEF Simulates, D!DispatchNext
<1>5. CASE NextRoute(p, o) /\ Refuse(p, o)
  BY <1>1, <1>5, LeaveFacts
<1>6. CASE /\ NextRoute(p, o)
           /\ \E k \in KeyInUse : Return(p, k, o)
  BY <1>1, <1>6, LeaveFacts
<1> QED BY <1>3, <1>4, <1>5, <1>6

LEMMA GotoSimulates ==
    ASSUME IInv, NotYetOK, NEW p \in Req, NEW l, l \notin {"idle", "done"},
           pc[p] \notin {"idle", "done"}, attempts' = attempts, emitted' = emitted,
           Goto(p, l)
    PROVE  Simulates(p)
<1>1. /\ pc'[p] = l /\ err' = err
      /\ \A q \in Req \ {p} : pc'[q] = pc[q]
  BY GotoFacts DEF IInv
<1>2. UNCHANGED D!dispatchVars
  BY <1>1, Invisible
<1>3. NotYetOK'
  BY <1>1 DEF NotYetOK
<1> QED BY <1>2, <1>3 DEF Simulates

LEMMA AcceptSimulates == ASSUME IInv, NotYetOK, NEW p \in Req, Accept(p) PROVE Simulates(p)
<1> DEFINE phase == [q \in Req |-> Phase(q)]
           verdict == [q \in Req |-> Verdict(q)]
<1>1. pc[p] = "idle" /\ Goto(p, "resolve") /\ UNCHANGED <<attempts, emitted>>
  BY DEF Accept, tryVars, outVars
<1>2. /\ pc'[p] = "resolve" /\ err' = err
      /\ \A q \in Req \ {p} : pc'[q] = pc[q]
  BY <1>1, GotoFacts DEF IInv
<1>3. ~emitted'[p]
  BY <1>1 DEF IInv, LoopInv
<1>4. Phase(p) = "idle" /\ Phase(p)' = "pending"
  BY <1>1, <1>2, <1>3 DEF Phase
<1>5. \A q \in Req \ {p} : Phase(q)' = Phase(q)
  BY <1>1, <1>2 DEF Phase
<1>6. phase[p] = "idle" /\ phase' = [phase EXCEPT ![p] = "pending"]
  BY <1>4, <1>5
<1>7. \A q \in Req : Verdict(q)' = Verdict(q)
  BY <1>1, <1>2 DEF Verdict
<1>8. verdict' = verdict
  BY <1>7
<1> HIDE DEF phase, verdict
<1>9. D!Admit(p)
  BY <1>1, <1>6, <1>8 DEF D!Admit, phase, verdict
<1>10. NotYetOK'
  BY <1>1, <1>2 DEF NotYetOK
<1> QED BY <1>9, <1>10 DEF Simulates, D!DispatchNext

LEMMA ListKeysSimulates ==
    ASSUME IInv, NotYetOK, NEW p \in Req, ListKeys(p) PROVE Simulates(p)
<1> DEFINE phase == [q \in Req |-> Phase(q)]
           verdict == [q \in Req |-> Verdict(q)]
<1>1. /\ pc[p] = "attempt" /\ ~Exhausted(p) /\ emitted' = emitted
      /\ attempts' = [attempts EXCEPT ![p] = @ + 1]
      /\ NextRoute(p, "nokey") \/ Goto(p, "pick")
  BY DEF ListKeys, outVars
<1>2. /\ pc'[p] \in {"attempt", "pick"}
      /\ err'[p] # "ok"
      /\ \A q \in Req \ {p} : pc'[q] = pc[q] /\ err'[q] = err[q]
  <2>1. CASE NextRoute(p, "nokey")
    BY <2>1, LeaveFacts DEF IInv
  <2>2. CASE Goto(p, "pick")
    BY <1>1, <2>2, GotoFacts DEF IInv, NotYetOK
  <2> QED BY <1>1, <2>1, <2>2
<1>3. ~emitted[p]
  BY <1>1 DEF IInv, LoopInv
<1>4. attempts[p] < 4
  <2>1. /\ Len(order[p]) \in Nat /\ attempts[p] \in Nat
    BY DEF IInv, TypeOK
  <2>2. MaxAttempts(p) \in Nat /\ MaxAttempts(p) <= 4
    BY <2>1 DEF MaxAttempts
  <2> QED BY <1>1, <2>1, <2>2 DEF Exhausted
<1>5. phase[p] = "pending" /\ phase' = phase
  <2>1. Phase(p) = "pending" /\ Phase(p)' = "pending"
    BY <1>1, <1>2, <1>3 DEF Phase
  <2>2. \A q \in Req \ {p} : Phase(q)' = Phase(q)
    BY <1>1, <1>2 DEF Phase
  <2> QED BY <2>1, <2>2
<1>6. verdict' = verdict
  <2>1. \A q \in Req : Verdict(q)' = Verdict(q)
    BY <1>1, <1>2 DEF Verdict
  <2> QED BY <2>1
<1> HIDE DEF phase, verdict
<1>7. D!Try(p)
  BY <1>1, <1>4, <1>5, <1>6 DEF D!Try, phase, verdict
<1>8. NotYetOK'
  BY <1>2 DEF NotYetOK
<1> QED BY <1>7, <1>8 DEF Simulates, D!DispatchNext

LEMMA EmitSimulates == ASSUME IInv, NotYetOK, NEW p \in Req, Emit(p) PROVE Simulates(p)
<1> DEFINE phase == [q \in Req |-> Phase(q)]
           verdict == [q \in Req |-> Verdict(q)]
<1>1. /\ pc[p] = "calling" /\ emitted' = [emitted EXCEPT ![p] = TRUE]
      /\ UNCHANGED <<pc, err, attempts>>
  BY DEF Emit, loopVars, tryVars
<1>2. /\ emitted'[p] = TRUE
      /\ \A q \in Req \ {p} : emitted'[q] = emitted[q]
  BY <1>1 DEF IInv, TypeOK
<1>3. NotYetOK'
  BY <1>1 DEF NotYetOK
<1>4. CASE emitted[p]
  <2>1. emitted'[p] = emitted[p]
    BY <1>2, <1>4 DEF IInv, TypeOK
  <2>2. UNCHANGED D!dispatchVars
    BY <1>1, <1>2, <2>1, Invisible
  <2> QED BY <1>3, <2>2 DEF Simulates
<1>5. CASE ~emitted[p]
  <2>1. Phase(p) = "pending" /\ Phase(p)' = "answering"
    BY <1>1, <1>2, <1>5 DEF Phase
  <2>2. \A q \in Req \ {p} : Phase(q)' = Phase(q)
    BY <1>1, <1>2 DEF Phase
  <2>3. phase[p] = "pending" /\ phase' = [phase EXCEPT ![p] = "answering"]
    BY <2>1, <2>2
  <2>4. verdict' = verdict
    <3>1. \A q \in Req : Verdict(q)' = Verdict(q)
      BY <1>1 DEF Verdict
    <3> QED BY <3>1
  <2>5. attempts[p] > 0
    BY <1>1, InAttempt
  <2> HIDE DEF phase, verdict
  <2>6. D!Begin(p)
    BY <1>1, <2>3, <2>4, <2>5 DEF D!Begin, phase, verdict
  <2> QED BY <1>3, <2>6 DEF Simulates, D!DispatchNext
<1> QED BY <1>4, <1>5

\* The steps before the loops.
LEMMA PlanSimulates ==
    ASSUME IInv, NotYetOK, NEW p \in Req, ListRoutes(p) \/ ChannelOrder(p) \/ GiveUp(p)
    PROVE  Simulates(p)
<1>1. pc[p] \in {"resolve", "order", "attempt"} /\ UNCHANGED <<attempts, emitted>>
  BY DEF ListRoutes, ChannelOrder, GiveUp, tryVars, outVars
<1>2. \/ Refuse(p, "local") \/ Refuse(p, "notfound") \/ Refuse(p, err[p])
      \/ Goto(p, "order") \/ Goto(p, "attempt")
  BY DEF ListRoutes, ChannelOrder, GiveUp
<1>3. err[p] # "ok"
  BY <1>1 DEF NotYetOK
<1> QED BY <1>1, <1>2, <1>3, LeaveSimulates, GotoSimulates

\* The steps of an attempt, apart from its first one.
LEMMA AttemptSimulates ==
    ASSUME IInv, NotYetOK, NEW p \in Req,
           \/ AllCooling(p) \/ PickKey(p) \/ EmitFails(p) \/ AnswerOK(p)
           \/ AnswerRetryable(p) \/ AnswerFatal(p) \/ MarkKeyFailed(p)
    PROVE  Simulates(p)
<1>1. pc[p] \in {"pick", "calling", "marking"} /\ attempts' = attempts
  BY DEF AllCooling, PickKey, EmitFails, AnswerOK, AnswerRetryable, AnswerFatal,
         MarkKeyFailed, tryVars
<1>2. key[p] \in KeyInUse /\ attempts[p] > 0
  BY <1>1, InAttempt
<1>3. CASE AllCooling(p)
  <2>1. NextRoute(p, "nokey") /\ emitted' = emitted
    BY <1>3 DEF AllCooling, outVars
  <2> QED BY <1>1, <2>1, LeaveSimulates
<1>4. CASE PickKey(p)
  <2>1. PICK k \in Avail(p) : UseKey(p, k)
    BY <1>4 DEF PickKey
  <2>2. emitted' = emitted
    BY <1>4 DEF PickKey, outVars
  <2> DEFINE used == [id |-> k.id, entry |-> k.entry, sent |-> body[p]]
  <2>3. k \in KeyRow
    BY <2>1 DEF Avail, IInv, TypeOK
  <2>4. used \in KeyInUse
    BY <2>3 DEF IInv, TypeOK, KeyRow
  <2>5. NextRoute(p, "nokey") \/ Return(p, used, "unsupported") \/ Goto(p, "calling")
    BY <2>1 DEF UseKey
  <2> HIDE DEF used
  <2> QED BY <1>1, <2>2, <2>4, <2>5, LeaveSimulates, GotoSimulates
<1>5. CASE EmitFails(p)
  <2>1. Return(p, key[p], "local") /\ \A q \in Req \ {p} : emitted'[q] = emitted[q]
    BY <1>5 DEF EmitFails, IInv, TypeOK
  <2> QED BY <1>1, <1>2, <2>1, LeaveSimulates
<1>6. CASE AnswerOK(p)
  <2>1. Return(p, key[p], "ok") /\ emitted' = emitted
    BY <1>6 DEF AnswerOK
  <2> QED BY <1>1, <1>2, <2>1, LeaveSimulates
<1>7. CASE AnswerRetryable(p)
  <2>1. (Return(p, key[p], "retry") \/ NextRoute(p, "retry")) /\ emitted' = emitted
    BY <1>7 DEF AnswerRetryable, outVars
  <2> QED BY <1>1, <1>2, <2>1, LeaveSimulates
<1>8. CASE AnswerFatal(p)
  <2>1. Return(p, key[p], "fatal") /\ emitted' = emitted
    BY <1>8 DEF AnswerFatal, outVars
  <2> QED BY <1>1, <1>2, <2>1, LeaveSimulates
<1>9. CASE MarkKeyFailed(p)
  <2>1. Goto(p, "attempt") /\ emitted' = emitted
    BY <1>9 DEF MarkKeyFailed, outVars
  <2> QED BY <1>1, <2>1, GotoSimulates
<1> QED BY <1>3, <1>4, <1>5, <1>6, <1>7, <1>8, <1>9

LEMMA KeyFailedSimulates ==
    ASSUME IInv, NotYetOK, NEW p \in Req, AnswerKeyFailed(p) PROVE Simulates(p)
<1>1. /\ pc[p] = "calling" /\ UNCHANGED <<attempts, emitted>>
      /\ pc' = [pc EXCEPT ![p] = "marking"] /\ err' = [err EXCEPT ![p] = "keyfail"]
  BY DEF AnswerKeyFailed, EndAttempt, tryVars, outVars
<1>2. /\ pc'[p] = "marking" /\ err'[p] = "keyfail"
      /\ \A q \in Req \ {p} : pc'[q] = pc[q] /\ err'[q] = err[q]
  BY <1>1 DEF IInv, TypeOK
<1>3. UNCHANGED D!dispatchVars
  BY <1>1, <1>2, Invisible
<1>4. NotYetOK'
  BY <1>2 DEF NotYetOK
<1> QED BY <1>3, <1>4 DEF Simulates

\* The clock, the administrators and a client hanging up are invisible.
LEMMA EnvironmentSimulates ==
    ASSUME NotYetOK, UNCHANGED <<pc, err, attempts, emitted>>
    PROVE  UNCHANGED D!dispatchVars /\ NotYetOK'
<1>1. \A q \in Req : Phase(q)' = Phase(q) /\ Verdict(q)' = Verdict(q)
  BY DEF Phase, Verdict
<1> QED BY <1>1 DEF D!dispatchVars, NotYetOK

LEMMA StepSimulation ==
    IInv /\ NotYetOK /\ [Next]_vars => [D!DispatchNext]_(D!dispatchVars) /\ NotYetOK'
<1> SUFFICES ASSUME IInv, NotYetOK, [Next]_vars
             PROVE  [D!DispatchNext]_(D!dispatchVars) /\ NotYetOK'
  OBVIOUS
<1>1. ASSUME NEW p \in Req, Accept(p) \/ Progress(p) \/ Emit(p)
      PROVE  Simulates(p)
  BY <1>1, AcceptSimulates, PlanSimulates, ListKeysSimulates, AttemptSimulates,
     KeyFailedSimulates, EmitSimulates DEF Progress
<1>2. CASE \/ \E p \in Req : ClientGone(p)
           \/ Tick \/ Reroute \/ DeleteKeys \/ InsertKey \/ UNCHANGED vars
  <2>1. UNCHANGED <<pc, err, attempts, emitted>>
    BY <1>2 DEF ClientGone, Tick, Reroute, DeleteKeys, InsertKey, vars, reqVars,
                loopVars, tryVars, outVars
  <2> QED BY <2>1, EnvironmentSimulates
<1> QED BY <1>1, <1>2 DEF Next, Quiet, Simulates

LEMMA InitSimulates == Init => D!DispatchInit /\ NotYetOK
<1> SUFFICES ASSUME Init PROVE D!DispatchInit /\ NotYetOK
  OBVIOUS
<1>1. \A q \in Req : Phase(q) = "idle" /\ Verdict(q) = "none" /\ attempts[q] = 0
  BY DEF Init, Phase, Verdict
<1>2. attempts = [q \in Req |-> 0]
  BY DEF Init
<1> QED BY <1>1, <1>2 DEF Init, D!DispatchInit, NotYetOK

\* Whatever the channels, keys and upstream answers, a request behaves as
\* Dispatch says: tried at most four times and never after output, with one
\* verdict, "ok" only if it was tried.
THEOREM Implements == Spec => ImplementsDispatch
<1>1. Init /\ [][Next]_vars /\ []IInv => D!DispatchInit /\ [][D!DispatchNext]_(D!dispatchVars)
  BY InitSimulates, StepSimulation, PTL
<1> QED BY <1>1, Inductive, PTL DEF Spec, ImplementsDispatch, D!DispatchSpec

-----------------------------------------------------------------------------
(* Round robin shares the first choices fairly.                            *)

\* The requests of a model that have an order, those among them that begin
\* with a row, and whether they saw the same routes.
Ordered(m) == {p \in Req : order[p] # <<>> /\ ask[p].model = m}
Starts(m, row) == {p \in Ordered(m) : order[p][1] = row}
SameRoutes(m) == \A p, q \in Ordered(m) : routes[p] = routes[q]

\* Of n requests over c routes, s began with the row of rank k: c * s is the
\* first multiple of c that is not below n - k.
Share(n, c, k, s) == n - k <= c * s /\ c * s <= n - k + c - 1

\* The counter of a model counts its ordered requests and says whose turn it is.
BalanceInv ==
    /\ \A p \in Req : pc[p] \in {"idle", "resolve", "order"} => order[p] = <<>>
    /\ \A m \in Model :
          /\ IsFiniteSet(Ordered(m)) /\ Cardinality(Ordered(m)) = rr[m]
          /\ SameRoutes(m) => \A p \in Ordered(m) : \A row \in routes[p] :
                Share(rr[m], Cardinality(routes[p]), Rank(routes[p], row),
                      Cardinality(Starts(m, row)))

LEMMA Division ==
    ASSUME NEW n \in Nat, NEW c \in Nat, c > 0
    PROVE  (n \div c) * c + (n % c) = n
OBVIOUS

LEMMA Multiples ==
    ASSUME NEW c \in Nat \ {0}, NEW a \in Int, NEW b \in Int, a < b
    PROVE  c * a + c <= c * b
<1>1. PICK d \in Nat : b = a + 1 + d
  <2>1. b - a - 1 \in Nat /\ b = a + 1 + (b - a - 1)
    OBVIOUS
  <2> QED BY <2>1
<1>2. c * b = c * a + c + c * d
  BY <1>1
<1>3. c * d >= 0
  OBVIOUS
<1> QED BY <1>2, <1>3

\* One request more: the row whose turn it is gets it, the others wait.
LEMMA ShareNext ==
    ASSUME NEW n \in Nat, NEW c \in Nat \ {0}, NEW k \in 0 .. c - 1, NEW s \in Nat,
           Share(n, c, k, s)
    PROVE  /\ n % c = k => Share(n + 1, c, k, s + 1)
           /\ n % c # k => Share(n + 1, c, k, s)
<1>1. PICK q \in Nat, r \in 0 .. c - 1 : n = c * q + r /\ r = n % c
  <2>1. n % c \in 0 .. c - 1
    OBVIOUS
  <2>2. n \div c \in Nat
    OBVIOUS
  <2>3. c \in Nat /\ c > 0
    OBVIOUS
  <2>4. (n \div c) * c + (n % c) = n
    BY <2>3, Division
  <2>5. PICK q \in Nat, r \in 0 .. c - 1 : q * c + r = n /\ r = n % c
    BY <2>1, <2>2, <2>4
  <2>6. n = c * q + r
    BY <2>5
  <2> QED BY <2>5, <2>6
<1>2. PICK x \in Int, y \in Int : x = c * s /\ y = c * q
  OBVIOUS
<1>3. /\ s < q => x + c <= y
      /\ q < s => y + c <= x
  BY <1>2, Multiples
<1>4. n - k <= x /\ x <= n - k + c - 1
  BY <1>2 DEF Share
<1>5. ASSUME r = k PROVE Share(n + 1, c, k, s + 1)
  <2>1. ~(q < s)
    BY <1>1, <1>2, <1>3, <1>4, <1>5
  <2>2. x <= y
    <3>1. CASE s = q
      BY <1>2, <3>1
    <3>2. CASE s < q
      BY <1>3, <3>2
    <3> QED BY <2>1, <3>1, <3>2
  <2>3. c * (s + 1) = x + c
    BY <1>2
  <2>4. n - k = y
    <3>1. n = y + k
      BY <1>1, <1>2, <1>5
    <3> QED BY <3>1
  <2>5. n + 1 - k <= x + c /\ x + c <= n + 1 - k + c - 1
    BY <1>4, <2>2, <2>4
  <2> QED BY <2>3, <2>5 DEF Share
<1>6. ASSUME r # k PROVE Share(n + 1, c, k, s)
  <2>1. n - k # x
    <3> SUFFICES ASSUME n - k = x PROVE FALSE
      OBVIOUS
    <3>1. y + r - k = x
      BY <1>1, <1>2
    <3>2. CASE s = q
      BY <1>2, <1>6, <3>1, <3>2
    <3>3. CASE s < q
      BY <1>3, <3>1, <3>3
    <3>4. CASE q < s
      BY <1>3, <3>1, <3>4
    <3> QED BY <3>2, <3>3, <3>4
  <2>2. n + 1 - k <= x /\ x <= n + 1 - k + c - 1
    BY <1>4, <2>1
  <2> QED BY <1>2, <2>2 DEF Share
<1> QED BY <1>1, <1>5, <1>6

\* Ranks count a set of rows from 0, each row once.
LEMMA Ranks ==
    ASSUME NEW S \in SUBSET Row, NEW x \in S
    PROVE  /\ Cardinality(S) \in Nat \ {0} /\ Rank(S, x) \in 0 .. Cardinality(S) - 1
           /\ \A y \in S : Rank(S, x) = Rank(S, y) => x = y
<1> DEFINE B(z) == {y \in S : y < z}
<1>1. IsFiniteSet(S) /\ S \subseteq Nat
  BY FS_Subset, RouterAssumption
<1>2. Cardinality(S) \in Nat \ {0}
  BY <1>1, FS_CardinalityType, FS_EmptySet
<1>3. ASSUME NEW z \in S PROVE IsFiniteSet(B(z)) /\ Cardinality(B(z)) \in Nat
  <2>1. B(z) \in SUBSET S
    OBVIOUS
  <2> QED BY <1>1, <2>1, FS_Subset, FS_CardinalityType
<1>4. Cardinality(B(x)) < Cardinality(S)
  <2>1. B(x) \in SUBSET S /\ B(x) # S
    BY <1>1
  <2>2. Cardinality(B(x)) <= Cardinality(S) /\ Cardinality(B(x)) # Cardinality(S)
    BY <1>1, <2>1, FS_Subset
  <2> HIDE DEF B
  <2> QED BY <1>2, <1>3, <2>2
<1>5. ASSUME NEW y \in S, NEW z \in S, y < z PROVE Cardinality(B(y)) < Cardinality(B(z))
  <2>1. B(y) \in SUBSET B(z) /\ B(y) # B(z)
    <3>1. y \in B(z) /\ y \notin B(y)
      BY <1>1, <1>5
    <3>2. ASSUME NEW w \in S, w < y PROVE w < z
      BY <1>1, <1>5, <3>2
    <3> QED BY <3>1, <3>2
  <2>2. Cardinality(B(y)) <= Cardinality(B(z)) /\ Cardinality(B(y)) # Cardinality(B(z))
    BY <1>3, <2>1, FS_Subset
  <2> HIDE DEF B
  <2> QED BY <1>3, <2>2
<1>6. \A y \in S : Cardinality(B(x)) = Cardinality(B(y)) => x = y
  <2> SUFFICES ASSUME NEW y \in S, Cardinality(B(x)) = Cardinality(B(y)), x # y PROVE FALSE
    OBVIOUS
  <2>1. x < y \/ y < x
    BY <1>1
  <2> HIDE DEF B
  <2> QED BY <1>3, <1>5, <2>1
<1>7. \A z : Rank(S, z) = Cardinality(B(z))
  BY DEF Rank
<1> HIDE DEF B
<1>8. Rank(S, x) \in 0 .. Cardinality(S) - 1
  BY <1>2, <1>3, <1>4, <1>7
<1> QED BY <1>2, <1>6, <1>7, <1>8

\* A step that orders no request.
LEMMA BalanceStays ==
    ASSUME BalanceInv, order' = order, rr' = rr,
           \A q \in Req : pc'[q] \in {"idle", "resolve", "order"} => order[q] = <<>>,
           \A q \in Req : order[q] # <<>> =>
               ask'[q].model = ask[q].model /\ routes'[q] = routes[q],
           \A q \in Req : order[q] = <<>> => order'[q] = <<>>
    PROVE  BalanceInv'
<1>1. \A m : Ordered(m)' = Ordered(m)
  BY DEF Ordered
<1>2. \A m, row : Starts(m, row)' = Starts(m, row)
  BY <1>1 DEF Starts
<1>3. \A m : \A p \in Ordered(m) : routes'[p] = routes[p]
  BY DEF Ordered
<1>4. \A m : SameRoutes(m)' => SameRoutes(m)
  BY <1>1, <1>3 DEF SameRoutes
<1>5. ASSUME NEW m \in Model
      PROVE  /\ IsFiniteSet(Ordered(m)') /\ Cardinality(Ordered(m)') = rr'[m]
             /\ SameRoutes(m)' => \A p \in Ordered(m)' : \A row \in routes'[p] :
                   Share(rr'[m], Cardinality(routes'[p]), Rank(routes'[p], row),
                         Cardinality(Starts(m, row)'))
  BY <1>1, <1>2, <1>3, <1>4 DEF BalanceInv
<1> QED BY <1>5 DEF BalanceInv, Ordered, Starts, SameRoutes, Share, Rank

\* channelOrder orders a request: it counts, and its first row had its turn.
LEMMA BalanceOrder ==
    ASSUME RoundRobin, IInv, BalanceInv, NEW p \in Req, ChannelOrder(p)
    PROVE  BalanceInv'
<1> DEFINE R == routes[p]
           c == Cardinality(R)
<1>1. PICK f \in Orders(R), o \in Model :
          /\ o = ask[p].model /\ Rotation(R, rr[o], f)
          /\ order' = [order EXCEPT ![p] = f] /\ rr' = [rr EXCEPT ![o] = @ + 1]
  BY DEF ChannelOrder, IInv, LoopInv
<1>2. /\ pc[p] = "order" /\ pc' = [pc EXCEPT ![p] = "attempt"]
      /\ ask' = ask /\ routes' = routes
  BY DEF ChannelOrder, Goto
<1>3. /\ pc \in [Req -> Label] /\ order \in [Req -> Seq(Row)] /\ rr \in [Model -> Nat]
      /\ R \in SUBSET Row /\ R # {} /\ order[p] = <<>>
  BY <1>2 DEF IInv, TypeOK, LoopInv, BalanceInv
<1>4. /\ c \in Nat \ {0} /\ f \in [1..c -> R] /\ f # <<>> /\ f[1] \in R
      /\ Rank(R, f[1]) = rr[o] % c
  <2>1. c \in Nat \ {0}
    BY <1>3, Ranks
  <2>2. f \in [1..c -> R] /\ 1 \in 1..c
    BY <2>1 DEF Orders
  <2>3. f[1] \in R /\ DOMAIN f = 1..c
    BY <2>2
  <2>4. f # <<>>
    <3>1. DOMAIN <<>> = {}
      OBVIOUS
    <3> QED BY <2>2, <2>3, <3>1
  <2>5. Rank(R, f[1]) = (rr[o] + 1 - 1) % c
    BY <1>1, <2>2, <2>3 DEF Rotation
  <2>6. rr[o] + 1 - 1 = rr[o]
    BY <1>3
  <2> QED BY <2>1, <2>2, <2>3, <2>4, <2>5, <2>6
<1> HIDE DEF R, c
<1>5. /\ order'[p] = f /\ \A q \in Req \ {p} : order'[q] = order[q]
      /\ rr'[o] = rr[o] + 1 /\ \A m \in Model \ {o} : rr'[m] = rr[m]
      /\ pc'[p] = "attempt" /\ \A q \in Req \ {p} : pc'[q] = pc[q]
  BY <1>1, <1>2, <1>3
<1>6. /\ Ordered(o)' = Ordered(o) \cup {p} /\ p \notin Ordered(o)
      /\ \A m \in Model \ {o} : Ordered(m)' = Ordered(m)
  BY <1>1, <1>2, <1>3, <1>4, <1>5 DEF Ordered
<1>7. \A m \in Model \ {o} : \A row : Starts(m, row)' = Starts(m, row)
  <2> SUFFICES ASSUME NEW m \in Model \ {o}, NEW row
               PROVE  Starts(m, row)' = Starts(m, row)
    OBVIOUS
  <2>1. \A q \in Ordered(m) : q \in Req \ {p}
    BY <1>3 DEF Ordered
  <2> QED BY <1>5, <1>6, <2>1 DEF Starts
<1>8. \A row : Starts(o, row)' = IF row = f[1] THEN Starts(o, row) \cup {p} ELSE Starts(o, row)
  <2>1. \A q \in Ordered(o) : order'[q] = order[q]
    BY <1>5, <1>6 DEF Ordered
  <2> QED BY <1>5, <1>6, <2>1 DEF Starts
<1>9. IsFiniteSet(Ordered(o)) /\ Cardinality(Ordered(o)) = rr[o]
  BY DEF BalanceInv
<1>10. \A row : /\ IsFiniteSet(Starts(o, row)) /\ Cardinality(Starts(o, row)) \in Nat
                /\ p \notin Starts(o, row)
  <2> SUFFICES ASSUME NEW row
      PROVE  /\ IsFiniteSet(Starts(o, row)) /\ Cardinality(Starts(o, row)) \in Nat
             /\ p \notin Starts(o, row)
    OBVIOUS
  <2>1. Starts(o, row) \in SUBSET Ordered(o)
    BY DEF Starts
  <2> QED BY <1>6, <1>9, <2>1, FS_Subset, FS_CardinalityType
<1>11. \A q \in Req : pc'[q] \in {"idle", "resolve", "order"} => order'[q] = <<>>
  BY <1>5 DEF BalanceInv
<1>12. ASSUME NEW m \in Model \ {o}
       PROVE  /\ IsFiniteSet(Ordered(m)') /\ Cardinality(Ordered(m)') = rr'[m]
              /\ SameRoutes(m)' => \A q \in Ordered(m)' : \A row \in routes'[q] :
                    Share(rr'[m], Cardinality(routes'[q]), Rank(routes'[q], row),
                          Cardinality(Starts(m, row)'))
  <2>1. SameRoutes(m)' <=> SameRoutes(m)
    BY <1>2, <1>6 DEF SameRoutes
  <2>2. rr'[m] = rr[m]
    BY <1>5
  <2> QED BY <1>2, <1>6, <1>7, <2>1, <2>2 DEF BalanceInv
<1>13. IsFiniteSet(Ordered(o)') /\ Cardinality(Ordered(o)') = rr'[o]
  <2>1. IsFiniteSet(Ordered(o) \cup {p}) /\ Cardinality(Ordered(o) \cup {p}) = rr[o] + 1
    BY <1>6, <1>9, FS_AddElement
  <2> QED BY <1>5, <1>6, <2>1
<1>14. ASSUME SameRoutes(o)', NEW q \in Ordered(o)', NEW row \in routes'[q]
       PROVE  Share(rr'[o], Cardinality(routes'[q]), Rank(routes'[q], row),
                    Cardinality(Starts(o, row)'))
  <2>1. /\ routes'[q] = R /\ row \in R
        /\ \A z \in Ordered(o) : routes[z] = R
    BY <1>2, <1>6, <1>14 DEF SameRoutes, R
  <2>2. PICK n \in Nat, k \in 0 .. c - 1, s \in Nat :
            n = rr[o] /\ k = Rank(R, row) /\ s = Cardinality(Starts(o, row))
    BY <1>3, <1>10, <2>1, Ranks DEF c
  <2>3. Share(n, c, k, s)
    <3>1. CASE Ordered(o) = {}
      <4>1. n = 0
        BY <1>9, <2>2, <3>1, FS_EmptySet
      <4>2. Starts(o, row) = {}
        BY <3>1 DEF Starts
      <4>3. s = 0
        BY <2>2, <4>2, FS_EmptySet
      <4>4. c * s = 0
        BY <1>4, <4>3
      <4> QED BY <1>4, <4>1, <4>4 DEF Share
    <3>2. CASE Ordered(o) # {}
      <4>1. PICK z \in Ordered(o) : routes[z] = R
        BY <2>1, <3>2
      <4>2. SameRoutes(o)
        BY <2>1 DEF SameRoutes
      <4> QED BY <2>1, <2>2, <4>1, <4>2 DEF BalanceInv, c
    <3> QED BY <3>1, <3>2
  <2>4. /\ n % c = k => Share(n + 1, c, k, s + 1)
        /\ n % c # k => Share(n + 1, c, k, s)
    BY <1>4, <2>2, <2>3, ShareNext
  <2>5. n % c = k <=> row = f[1]
    <3>1. Rank(R, f[1]) = n % c
      BY <1>4, <2>2
    <3>2. Rank(R, f[1]) = Rank(R, row) => f[1] = row
      BY <1>3, <1>4, <2>1, Ranks
    <3> QED BY <2>2, <3>1, <3>2
  <2>6. row = f[1] => Cardinality(Starts(o, row)') = s + 1
    BY <1>8, <1>10, <2>2, FS_AddElement
  <2>7. row # f[1] => Cardinality(Starts(o, row)') = s
    BY <1>8, <2>2
  <2>8. rr'[o] = n + 1
    BY <1>5, <2>2
  <2> QED BY <2>1, <2>2, <2>4, <2>5, <2>6, <2>7, <2>8 DEF c
<1>15. \A m \in Model :
           /\ IsFiniteSet(Ordered(m)') /\ Cardinality(Ordered(m)') = rr'[m]
           /\ SameRoutes(m)' => \A q \in Ordered(m)' : \A row \in routes'[q] :
                 Share(rr'[m], Cardinality(routes'[q]), Rank(routes'[q], row),
                       Cardinality(Starts(m, row)'))
  BY <1>12, <1>13, <1>14
<1> QED BY <1>11, <1>15 DEF BalanceInv, Share, Rank

\* Every other step of a request orders none.
LEMMA BalanceRequest ==
    ASSUME IInv, BalanceInv, NEW p \in Req,
           Accept(p) \/ Progress(p) \/ Emit(p) \/ ClientGone(p), ~ChannelOrder(p)
    PROVE  BalanceInv'
<1> USE DEF planVars, loopVars, rrVars, IInv, TypeOK, Label
<1>1. /\ order' = order /\ rr' = rr
      /\ pc'[p] \in {"idle", "resolve", "order"} => order[p] = <<>>
      /\ order[p] # <<>> => ask'[p].model = ask[p].model /\ routes'[p] = routes[p]
  <2>1. CASE Accept(p)
    BY <2>1 DEF Accept, Goto, BalanceInv
  <2>2. CASE ListRoutes(p)
    BY <2>2 DEF ListRoutes, Goto, Refuse, BalanceInv
  <2>3. CASE GiveUp(p) \/ ListKeys(p) \/ AllCooling(p)
    BY <2>3 DEF GiveUp, ListKeys, AllCooling, NextRoute, EndAttempt, Goto, Refuse
  <2>4. CASE PickKey(p)
    BY <2>4 DEF PickKey, UseKey, NextRoute, Return, EndAttempt, Goto
  <2>5. CASE EmitFails(p) \/ AnswerOK(p) \/ AnswerFatal(p) \/ AnswerRetryable(p)
    BY <2>5 DEF EmitFails, AnswerOK, AnswerFatal, AnswerRetryable, NextRoute, Return, EndAttempt
  <2>6. CASE AnswerKeyFailed(p) \/ MarkKeyFailed(p)
    BY <2>6 DEF AnswerKeyFailed, MarkKeyFailed, EndAttempt, Goto
  <2>7. CASE Emit(p) \/ ClientGone(p)
    BY <2>7 DEF Emit, ClientGone, BalanceInv
  <2> QED BY <2>1, <2>2, <2>3, <2>4, <2>5, <2>6, <2>7 DEF Progress
<1>2. \A q \in Req \ {p} : pc'[q] = pc[q] /\ routes'[q] = routes[q]
  BY OthersStay
<1>3. \A q \in Req \ {p} : ask'[q] = ask[q]
  <2>1. CASE Accept(p)
    BY <2>1 DEF Accept
  <2>2. CASE ~Accept(p)
    <3>1. ask' = ask
      BY <2>2 DEF Progress, ListRoutes, GiveUp, ListKeys, AllCooling, PickKey, EmitFails,
         AnswerOK, AnswerFatal, AnswerRetryable, AnswerKeyFailed, MarkKeyFailed, Emit, ClientGone
    <3> QED BY <3>1
  <2> QED BY <2>1, <2>2
<1>4. \A q \in Req : pc'[q] \in {"idle", "resolve", "order"} => order[q] = <<>>
  BY <1>1, <1>2 DEF BalanceInv
<1>5. \A q \in Req : order[q] # <<>> => ask'[q].model = ask[q].model /\ routes'[q] = routes[q]
  BY <1>1, <1>2, <1>3
<1> QED BY <1>1, <1>4, <1>5, BalanceStays

LEMMA BalanceNext ==
    ASSUME RoundRobin, IInv, BalanceInv, [Next]_vars
    PROVE  BalanceInv'
<1>1. ASSUME NEW p \in Req, Accept(p) \/ Progress(p) \/ Emit(p) \/ ClientGone(p)
      PROVE  BalanceInv'
  BY <1>1, BalanceOrder, BalanceRequest
<1>2. CASE Tick \/ Reroute \/ DeleteKeys \/ InsertKey \/ UNCHANGED vars
  <2>1. UNCHANGED <<pc, ask, routes, order, rr>>
    BY <1>2 DEF Tick, Reroute, DeleteKeys, InsertKey, vars, reqVars, rrVars, planVars, loopVars
  <2>2. \A q \in Req : pc[q] \in {"idle", "resolve", "order"} => order[q] = <<>>
    BY DEF BalanceInv
  <2> QED BY <2>1, <2>2, BalanceStays
<1> QED BY <1>1, <1>2 DEF Next, Quiet

LEMMA BalanceInit == Init => BalanceInv
<1> SUFFICES ASSUME Init PROVE BalanceInv
  OBVIOUS
<1>1. \A m : Ordered(m) = {}
  BY DEF Init, Ordered
<1>2. \A m \in Model : rr[m] = 0
  BY DEF Init
<1>3. \A p \in Req : order[p] = <<>>
  BY DEF Init
<1> QED BY <1>1, <1>2, <1>3, FS_EmptySet DEF BalanceInv

\* Two rows of the same routes.
LEMMA FairShares ==
    ASSUME NEW n \in Nat, NEW c \in Nat \ {0}, NEW k \in 0 .. c - 1, NEW l \in 0 .. c - 1,
           NEW s \in Nat, NEW t \in Nat, Share(n, c, k, s), Share(n, c, l, t)
    PROVE  s - t <= 1
<1>1. PICK x \in Int, y \in Int : x = c * s /\ y = c * t
  OBVIOUS
<1>2. x <= n - k + c - 1 /\ n - l <= y
  BY <1>1 DEF Share
<1>3. ~(t + 1 < s)
  <2> SUFFICES ASSUME t + 1 < s PROVE FALSE
    OBVIOUS
  <2>1. c * (t + 1) + c <= x
    BY <1>1, Multiples
  <2>2. c * (t + 1) = y + c
    BY <1>1
  <2> QED BY <1>2, <2>1, <2>2
<1> QED BY <1>3

\* channelOrder under round_robin: of the requests of a model that saw the same
\* routes, no route was the first choice of two more than another, for any number
\* of concurrent requests, models and routes.
THEOREM Balanced ==
    ASSUME RoundRobin
    PROVE  Spec => []StartsBalanced
<1>1. Init => BalanceInv
  BY BalanceInit
<1>2. IInv /\ BalanceInv /\ [Next]_vars => BalanceInv'
  BY BalanceNext
<1>3. IInv /\ BalanceInv => StartsBalanced
  <2> SUFFICES ASSUME IInv, BalanceInv, NEW m \in Model,
                      \A p, q \in Ordered(m) : routes[p] = routes[q],
                      NEW p \in Ordered(m), NEW a \in routes[p], NEW b \in routes[p]
      PROVE  Cardinality(Starts(m, a)) - Cardinality(Starts(m, b)) <= 1
    BY DEF StartsBalanced, Ordered, Starts
  <2> DEFINE R == routes[p]
             c == Cardinality(R)
  <2>1. SameRoutes(m) /\ R \in SUBSET Row
    BY DEF SameRoutes, Ordered, IInv, TypeOK
  <2>2. \A row \in R : /\ Share(rr[m], c, Rank(R, row), Cardinality(Starts(m, row)))
                       /\ Rank(R, row) \in 0 .. c - 1 /\ c \in Nat \ {0}
    BY <2>1, Ranks DEF BalanceInv
  <2>3. \A row : Cardinality(Starts(m, row)) \in Nat
    <3> SUFFICES ASSUME NEW row PROVE Cardinality(Starts(m, row)) \in Nat
      OBVIOUS
    <3>1. IsFiniteSet(Ordered(m)) /\ Starts(m, row) \in SUBSET Ordered(m)
      BY DEF BalanceInv, Starts
    <3> QED BY <3>1, FS_Subset, FS_CardinalityType
  <2>4. rr[m] \in Nat
    BY DEF IInv, TypeOK
  <2> HIDE DEF R, c
  <2>5. a \in R /\ b \in R
    BY DEF R
  <2> QED BY <2>2, <2>3, <2>4, <2>5, FairShares
<1> QED BY <1>1, <1>2, <1>3, Inductive, PTL DEF Spec
=============================================================================
