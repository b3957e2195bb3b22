----------------------- MODULE StreamsContent_proofs -----------------------
(***************************************************************************)
(* What a stream carries, for all indices, any number of chunks and any    *)
(* number of attempts: every piece once and in order, in the place that    *)
(* was begun for it, all places closed, and the upstream's own reason.     *)
(***************************************************************************)
EXTENDS Streams_proofs, FiniteSetTheorems

-----------------------------------------------------------------------------
(* What was written, as a sequence s of wires.                             *)

Deltas(s, k) == {j \in 1..k : s[j].type = "delta"}
Count(s) == Cardinality(Deltas(s, Len(s)))
OpensIn(s) == {k \in DOMAIN s : s[k].type = "open"}
Before(s, k) == {j \in OpensIn(s) : j < k}

\* Blocks are numbered from 0, items from 1.
First == IF to = "responses" THEN 1 ELSE 0

Named(s, b, of) == \E j \in DOMAIN s : s[j] = Open(b, of)
Closed(s, b) == \E j \in DOMAIN s : s[j] = Close(b)
ClosedOnce(s, b) ==
    \E j \in DOMAIN s : \A h \in DOMAIN s : s[h] = Close(b) <=> h = j

Numbered(s) ==
    \A k \in DOMAIN s : s[k].type = "delta" => s[k].data = Cardinality(Deltas(s, k))

Placed(s, k, sent) ==
    \/ to = "openai" /\ sent[s[k].data] = Text /\ s[k].at = Text
    \/ \E j \in 1..k : /\ s[j] = Open(s[k].at, sent[s[k].data])
                       /\ \A h \in j..k : s[h] # Close(s[k].at)

AllPlaced(s, sent) ==
    \A k \in DOMAIN s : s[k].type = "delta" =>
        s[k].data \in DOMAIN sent /\ Placed(s, k, sent)

Sequenced(s) ==
    \A k \in OpensIn(s) : s[k].at = Cardinality(Before(s, k)) + First

Good(s, sent) ==
    Numbered(s) /\ AllPlaced(s, sent) /\ (to # "openai" => Sequenced(s))

-----------------------------------------------------------------------------
(* What a writer knows of what it has written.                             *)

HasBlock(w, b) == \E m \in DOMAIN w.open : w.open[m] = b
Used(w) == First .. First + w.seq - 1

Shelf(w, s) ==
    /\ Cardinality(OpensIn(s)) = w.seq
    /\ w.text # None => w.text \in Used(w) /\ Named(s, w.text, Text)
    /\ \A i \in Index : w.tools[i] # None =>
           /\ w.tools[i] \in Used(w) /\ Named(s, w.tools[i], i)
           /\ w.tools[i] # w.text
    /\ \A i, j \in Index : i # j /\ w.tools[i] = w.tools[j] => w.tools[i] = None

\* Blocks that are open, in any order, and blocks that were closed.
AnthropicShelf(w, s) ==
    /\ \A m \in DOMAIN w.open : w.open[m] \in Used(w) /\ ~Closed(s, w.open[m])
    /\ \A l, m \in DOMAIN w.open : w.open[l] = w.open[m] => l = m
    /\ w.text # None => HasBlock(w, w.text)
    /\ \A k \in DOMAIN s : s[k].type = "close" => s[k].at \in Used(w)
    /\ \A k \in OpensIn(s) : HasBlock(w, s[k].at) \/ ClosedOnce(s, s[k].at)

NoClose(s) == \A k \in DOMAIN s : s[k].type # "close"

ResponsesShelf(w, s) ==
    /\ NoClose(s)
    /\ Len(w.output) + (IF w.text = None THEN 0 ELSE 1) = w.seq
    /\ \A k \in OpensIn(s) : \/ w.text # None /\ s[k].at = w.text
                             \/ \E m \in DOMAIN w.output : w.output[m] = s[k].at

Book(w, s) ==
    /\ to = "openai" => NoClose(s)
    /\ to # "openai" => Shelf(w, s)
    /\ to = "anthropic" => AnthropicShelf(w, s)
    /\ to = "responses" => ResponsesShelf(w, s)

\* A piece for this tool call would find its place.
Opened(w, s, t) ==
    /\ to = "openai" => Named(s, t, t)
    /\ to # "openai" => w.tools[t] # None
    /\ to = "anthropic" => HasBlock(w, w.tools[t])

-----------------------------------------------------------------------------
(* The inductive invariant.                                                *)

IsPiece(e) == e.type \in {"text_delta", "tool_call_delta"}

\* The upstream may still send pieces of this tool call.
Live(t) == t \in parser.tools /\ (from = "openai" \/ t = src.open)

Starts(q, k, t) == q[k].type = "tool_call_start" /\ q[k].tool = t

\* What is in the queue agrees with the upstream and the writer.
QueueFits ==
    \A k \in DOMAIN queue :
        LET e == queue[k] IN
        /\ e.type = "text_delta" => src.sent[e.data] = Text
        /\ e.type = "tool_call_delta" =>
               /\ src.sent[e.data] = e.tool /\ Live(e.tool)
               /\ \A l \in DOMAIN queue : Starts(queue, l, e.tool) => l < k
        /\ e.type = "tool_call_start" =>
               /\ Live(e.tool) /\ writer.tools[e.tool] = None
               /\ \A l \in DOMAIN queue : Starts(queue, l, e.tool) => l = k
        /\ e.type = "tool_call_stop" => ~Live(e.tool)

ToolsKnown ==
    /\ parser.tools \subseteq src.used
    /\ \A i \in Index \ parser.tools : writer.tools[i] = None
    /\ \A t \in Index : Live(t) =>
           Opened(writer, out, t) \/ \E k \in DOMAIN queue : Starts(queue, k, t)

\* The pieces between the client and the upstream are those in the queue.
InOrder ==
    /\ Count(out) <= Len(src.sent)
    /\ \A k \in DOMAIN queue : IsPiece(queue[k]) =>
           queue[k].data \in Count(out) + 1 .. Len(src.sent)
    /\ \A k, l \in DOMAIN queue :
           IsPiece(queue[k]) /\ IsPiece(queue[l]) /\ k < l => queue[k].data < queue[l].data
    /\ \A n \in Count(out) + 1 .. Len(src.sent) :
           \E k \in DOMAIN queue : IsPiece(queue[k]) /\ queue[k].data = n

\* A client is being served.
Told == ~gone /\ ~writer.done /\ phase \in {"reading", "emitting"}

Serving == Told => Book(writer, out) /\ QueueFits /\ ToolsKnown /\ InOrder

ReasonsOf(protocol) ==
    IF protocol = "openai" THEN {"none", "stop", "length", "tool_calls"}
    ELSE {"none", "end_turn", "max_tokens", "tool_use"}

UsagesOf(protocol) ==
    IF protocol = "openai" THEN SUBSET Counts ELSE SUBSET (Counts \ {"total"})

\* What an upstream of this protocol can say.
Says(s, protocol) ==
    s.reason \in ReasonsOf(protocol) /\ s.usage \in UsagesOf(protocol)

Reports(e) ==
    /\ e.reason \in ReasonsOf("openai")
    /\ Meaning(e.reason) = Meaning(src.reason) /\ e.usage = src.usage

\* The parser knows the upstream's reason, and the final marker is on its way
\* to the client until the writer has it.
Ending ==
    /\ parser.reason = src.reason /\ parser.usage = src.usage
    /\ Says(src, from)
    /\ \A k \in DOMAIN queue : queue[k].type = "done" => k = Len(queue) /\ k = 1 /\ Reports(queue[k])
    /\ Told /\ src.final => queue # <<>> /\ queue[1].type = "done"
    /\ ~gone /\ writer.done /\ phase \in {"reading", "emitting"}
          => src.final /\ queue = <<>>

Untouched == http = "none" => writer = NewWriter

\* What a client has that was told the answer is complete.
Whole ==
    Completed =>
        /\ Count(out) = Len(src.sent)
        /\ to = "anthropic" => \A k \in OpensIn(out) : ClosedOnce(out, out[k].at)
        /\ to = "responses" =>
               /\ Len(Last(out).items) = Cardinality(OpensIn(out))
               /\ \A k \in OpensIn(out) : Contains(Last(out).items, out[k].at)
        /\ src.final =>
               /\ Last(out).usage = src.usage \cap Fields(to)
               /\ to # "responses" => Meaning(Last(out).reason) = Meaning(src.reason)

Content ==
    /\ Good(out, src.sent) /\ Serving /\ Ending /\ Untouched
    /\ Whole

CInv == IInv /\ Content

-----------------------------------------------------------------------------
(* One more wire.                                                          *)

LEMMA WireFields ==
    /\ \A at, of : /\ Open(at, of).type = "open" /\ Open(at, of).at = at
                   /\ Open(at, of).of = of
    /\ \A at, n : /\ Delta(at, n).type = "delta" /\ Delta(at, n).at = at
                  /\ Delta(at, n).data = n
    /\ \A at : Close(at).type = "close" /\ Close(at).at = at
    /\ \A r, u, i : /\ End(r, u, i).type = "end" /\ End(r, u, i).reason = r
                    /\ End(r, u, i).usage = u /\ End(r, u, i).items = i
<1>1. \A at, of : /\ Open(at, of).type = "open" /\ Open(at, of).at = at
                  /\ Open(at, of).of = of
  BY DEF Open, Wire
<1>2. \A at, n : /\ Delta(at, n).type = "delta" /\ Delta(at, n).at = at
                 /\ Delta(at, n).data = n
  BY DEF Delta, Wire
<1>3. \A at : Close(at).type = "close" /\ Close(at).at = at
  BY DEF Close, Wire
<1>4. \A r, u, i : /\ End(r, u, i).type = "end" /\ End(r, u, i).reason = r
                   /\ End(r, u, i).usage = u /\ End(r, u, i).items = i
  BY DEF End, Wire
<1> QED BY <1>1, <1>2, <1>3, <1>4

LEMMA OneMore ==
    ASSUME NEW s \in Seq(WireType), NEW x \in WireType
    PROVE  /\ s \o <<x>> \in Seq(WireType)
           /\ Len(s) \in Nat /\ Len(s \o <<x>>) = Len(s) + 1
           /\ DOMAIN s = 1..Len(s) /\ DOMAIN (s \o <<x>>) = 1..Len(s) + 1
           /\ \A k \in 1..Len(s) : (s \o <<x>>)[k] = s[k]
           /\ (s \o <<x>>)[Len(s) + 1] = x
<1>1. <<x>> \in Seq(WireType) /\ Len(<<x>>) = 1 /\ <<x>>[1] = x
  OBVIOUS
<1>2. Len(s) \in Nat /\ DOMAIN s = 1..Len(s)
  BY LenProperties
<1>3. /\ s \o <<x>> \in Seq(WireType) /\ Len(s \o <<x>>) = Len(s) + 1
      /\ \A k \in 1..Len(s) + 1 :
             (s \o <<x>>)[k] = IF k <= Len(s) THEN s[k] ELSE <<x>>[k - Len(s)]
  BY <1>1, ConcatProperties
<1>4. DOMAIN (s \o <<x>>) = 1..Len(s) + 1
  BY <1>3, LenProperties
<1>5. \A k \in 1..Len(s) : (s \o <<x>>)[k] = s[k]
  BY <1>2, <1>3
<1>6. (s \o <<x>>)[Len(s) + 1] = x
  BY <1>1, <1>2, <1>3
<1> QED BY <1>2, <1>3, <1>4, <1>5, <1>6

LEMMA FiniteUpTo ==
    ASSUME NEW n \in Nat, NEW S, S \subseteq 1..n
    PROVE  IsFiniteSet(S) /\ Cardinality(S) \in Nat
<1>1. IsFiniteSet(1..n)
  BY FS_Interval
<1>2. IsFiniteSet(S)
  BY <1>1, FS_Subset
<1> QED BY <1>2, FS_CardinalityType

LEMMA CountMore ==
    ASSUME NEW s \in Seq(WireType), NEW x \in WireType
    PROVE  /\ Count(s) \in Nat
           /\ \A k \in 1..Len(s) : Deltas(s \o <<x>>, k) = Deltas(s, k)
           /\ Cardinality(Deltas(s \o <<x>>, Len(s) + 1))
                = Count(s) + (IF x.type = "delta" THEN 1 ELSE 0)
           /\ Count(s \o <<x>>) = Count(s) + (IF x.type = "delta" THEN 1 ELSE 0)
<1> DEFINE t == s \o <<x>>
           n == Len(s)
<1>1. /\ n \in Nat /\ Len(t) = n + 1 /\ t[n + 1] = x
      /\ \A k \in 1..n : t[k] = s[k]
  BY OneMore
<1> HIDE DEF t
<1>2. /\ IsFiniteSet(Deltas(s, n)) /\ Cardinality(Deltas(s, n)) \in Nat
      /\ n + 1 \notin Deltas(s, n)
  <2>1. Deltas(s, n) \subseteq 1..n
    BY DEF Deltas
  <2> QED BY <1>1, <2>1, FiniteUpTo
<1>3. \A k \in 1..n : Deltas(t, k) = Deltas(s, k)
  BY <1>1 DEF Deltas
<1>4. Deltas(t, n + 1) = IF x.type = "delta" THEN Deltas(s, n) \cup {n + 1}
                         ELSE Deltas(s, n)
  BY <1>1 DEF Deltas
<1>5. Cardinality(Deltas(t, n + 1))
        = Cardinality(Deltas(s, n)) + (IF x.type = "delta" THEN 1 ELSE 0)
  <2>1. Cardinality(Deltas(s, n) \cup {n + 1}) = Cardinality(Deltas(s, n)) + 1
    BY <1>2, FS_AddElement
  <2> QED BY <1>2, <1>4, <2>1
<1> QED BY <1>1, <1>2, <1>3, <1>5 DEF Count, t

LEMMA OpensMore ==
    ASSUME NEW s \in Seq(WireType), NEW x \in WireType
    PROVE  /\ Cardinality(OpensIn(s)) \in Nat
           /\ \A k \in OpensIn(s) : Before(s \o <<x>>, k) = Before(s, k)
           /\ x.type # "open" => OpensIn(s \o <<x>>) = OpensIn(s)
           /\ x.type = "open" =>
                /\ OpensIn(s \o <<x>>) = OpensIn(s) \cup {Len(s) + 1}
                /\ Cardinality(OpensIn(s \o <<x>>)) = Cardinality(OpensIn(s)) + 1
                /\ Before(s \o <<x>>, Len(s) + 1) = OpensIn(s)
<1> DEFINE t == s \o <<x>>
           n == Len(s)
<1>1. /\ n \in Nat /\ DOMAIN s = 1..n /\ DOMAIN t = 1..n + 1 /\ t[n + 1] = x
      /\ \A k \in 1..n : t[k] = s[k]
  BY OneMore
<1> HIDE DEF t
<1>2. /\ IsFiniteSet(OpensIn(s)) /\ Cardinality(OpensIn(s)) \in Nat
      /\ n + 1 \notin OpensIn(s) /\ OpensIn(s) \subseteq 1..n
  <2>1. OpensIn(s) \subseteq 1..n
    BY <1>1 DEF OpensIn
  <2> QED BY <1>1, <2>1, FiniteUpTo
<1>3. OpensIn(t) = IF x.type = "open" THEN OpensIn(s) \cup {n + 1} ELSE OpensIn(s)
  BY <1>1 DEF OpensIn
<1>4. \A k \in OpensIn(s) : Before(t, k) = Before(s, k)
  BY <1>1, <1>2, <1>3 DEF Before
<1>5. x.type = "open" => Before(t, n + 1) = OpensIn(s)
  BY <1>1, <1>2, <1>3 DEF Before
<1>6. x.type = "open" => Cardinality(OpensIn(t)) = Cardinality(OpensIn(s)) + 1
  BY <1>2, <1>3, FS_AddElement
<1> QED BY <1>2, <1>3, <1>4, <1>5, <1>6 DEF t

LEMMA NamesMore ==
    ASSUME NEW s \in Seq(WireType), NEW x \in WireType
    PROVE  /\ \A b, of : Named(s, b, of) => Named(s \o <<x>>, b, of)
           /\ \A b, of : x = Open(b, of) => Named(s \o <<x>>, b, of)
           /\ \A b : Closed(s \o <<x>>, b) => Closed(s, b) \/ x = Close(b)
<1>1. /\ Len(s) \in Nat /\ DOMAIN s = 1..Len(s)
      /\ DOMAIN (s \o <<x>>) = 1..Len(s) + 1
      /\ (s \o <<x>>)[Len(s) + 1] = x
      /\ \A k \in 1..Len(s) : (s \o <<x>>)[k] = s[k]
  BY OneMore
<1>2. \A k \in 1..Len(s) : k \in 1..Len(s) + 1
  BY <1>1
<1>3. \A b, of : Named(s, b, of) => Named(s \o <<x>>, b, of)
  BY <1>1, <1>2 DEF Named
<1>4. \A b, of : x = Open(b, of) => Named(s \o <<x>>, b, of)
  BY <1>1 DEF Named
<1>5. \A b : Closed(s \o <<x>>, b) => Closed(s, b) \/ x = Close(b)
  BY <1>1 DEF Closed
<1> QED BY <1>3, <1>4, <1>5

\* What was placed stays placed.
LEMMA PlacedMore ==
    ASSUME NEW s \in Seq(WireType), NEW x \in WireType, NEW sent,
           AllPlaced(s, sent),
           x.type = "delta" => /\ x.data \in DOMAIN sent
                               /\ Placed(s \o <<x>>, Len(s) + 1, sent)
    PROVE  AllPlaced(s \o <<x>>, sent)
<1> DEFINE t == s \o <<x>>
<1>1. /\ Len(s) \in Nat /\ DOMAIN s = 1..Len(s) /\ DOMAIN t = 1..Len(s) + 1
      /\ t[Len(s) + 1] = x /\ \A k \in 1..Len(s) : t[k] = s[k]
  BY OneMore
<1> HIDE DEF t
<1>2. ASSUME NEW k \in 1..Len(s), s[k].type = "delta"
      PROVE  t[k].data \in DOMAIN sent /\ Placed(t, k, sent)
  <2>1. s[k].data \in DOMAIN sent /\ Placed(s, k, sent)
    BY <1>1, <1>2 DEF AllPlaced
  <2>2. \A j \in 1..k : t[j] = s[j]
    BY <1>1
  <2>3. t[k] = s[k]
    BY <1>1
  <2>4. \A j \in 1..k : \A h \in j..k : t[h] = s[h]
    BY <2>2
  <2> QED BY <2>1, <2>2, <2>3, <2>4 DEF Placed
<1>3. x.type = "delta" => x.data \in DOMAIN sent /\ Placed(t, Len(s) + 1, sent)
  BY DEF t
<1>4. ASSUME NEW k \in DOMAIN t, t[k].type = "delta"
      PROVE  t[k].data \in DOMAIN sent /\ Placed(t, k, sent)
  <2>1. CASE k = Len(s) + 1
    BY <1>1, <1>3, <1>4, <2>1
  <2>2. CASE k # Len(s) + 1
    <3>1. k \in 1..Len(s)
      BY <1>1, <2>2
    <3> QED BY <1>1, <1>2, <1>4, <3>1
  <2> QED BY <2>1, <2>2
<1> QED BY <1>4 DEF AllPlaced, t

LEMMA NumberedMore ==
    ASSUME NEW s \in Seq(WireType), NEW x \in WireType, Numbered(s),
           x.type = "delta" => x.data = Count(s) + 1
    PROVE  Numbered(s \o <<x>>)
<1>1. /\ Len(s) \in Nat /\ DOMAIN s = 1..Len(s)
      /\ DOMAIN (s \o <<x>>) = 1..Len(s) + 1
      /\ (s \o <<x>>)[Len(s) + 1] = x
      /\ \A k \in 1..Len(s) : (s \o <<x>>)[k] = s[k]
  BY OneMore
<1>2. /\ \A k \in 1..Len(s) : Deltas(s \o <<x>>, k) = Deltas(s, k)
      /\ Cardinality(Deltas(s \o <<x>>, Len(s) + 1))
           = Count(s) + (IF x.type = "delta" THEN 1 ELSE 0)
  BY CountMore
<1> DEFINE t == s \o <<x>>
<1> HIDE DEF t
<1>3. ASSUME NEW k \in DOMAIN t, t[k].type = "delta"
      PROVE  t[k].data = Cardinality(Deltas(t, k))
  <2>1. CASE k = Len(s) + 1
    BY <1>1, <1>2, <1>3, <2>1 DEF t
  <2>2. CASE k # Len(s) + 1
    <3>1. k \in 1..Len(s)
      BY <1>1, <2>2 DEF t
    <3>2. t[k] = s[k] /\ Deltas(t, k) = Deltas(s, k)
      BY <1>1, <1>2, <3>1 DEF t
    <3> QED BY <1>1, <1>3, <3>1, <3>2 DEF Numbered
  <2> QED BY <2>1, <2>2
<1> QED BY <1>3 DEF Numbered, t

LEMMA GoodQuiet ==
    ASSUME NEW s \in Seq(WireType), NEW x \in WireType, NEW sent, Good(s, sent),
           x.type \notin {"open", "delta"}
    PROVE  /\ Good(s \o <<x>>, sent) /\ Count(s \o <<x>>) = Count(s)
           /\ OpensIn(s \o <<x>>) = OpensIn(s)
<1>1. /\ Len(s) \in Nat /\ DOMAIN s = 1..Len(s)
      /\ \A k \in 1..Len(s) : (s \o <<x>>)[k] = s[k]
  BY OneMore
<1>2. /\ OpensIn(s \o <<x>>) = OpensIn(s)
      /\ \A k \in OpensIn(s) : Before(s \o <<x>>, k) = Before(s, k)
  BY OpensMore
<1>3. Sequenced(s) => Sequenced(s \o <<x>>)
  BY <1>1, <1>2 DEF Sequenced, OpensIn
<1>4. Numbered(s \o <<x>>) /\ AllPlaced(s \o <<x>>, sent)
  BY NumberedMore, PlacedMore DEF Good
<1>5. Count(s \o <<x>>) = Count(s)
  BY CountMore
<1> QED BY <1>2, <1>3, <1>4, <1>5 DEF Good

LEMMA GoodOpen ==
    ASSUME NEW s \in Seq(WireType), NEW x \in WireType, NEW sent, Good(s, sent),
           x.type = "open",
           to # "openai" => x.at = Cardinality(OpensIn(s)) + First
    PROVE  Good(s \o <<x>>, sent) /\ Count(s \o <<x>>) = Count(s)
<1>1. /\ Len(s) \in Nat /\ DOMAIN s = 1..Len(s)
      /\ \A k \in 1..Len(s) : (s \o <<x>>)[k] = s[k]
      /\ (s \o <<x>>)[Len(s) + 1] = x
  BY OneMore
<1>2. /\ OpensIn(s \o <<x>>) = OpensIn(s) \cup {Len(s) + 1}
      /\ Before(s \o <<x>>, Len(s) + 1) = OpensIn(s)
      /\ \A k \in OpensIn(s) : Before(s \o <<x>>, k) = Before(s, k)
  BY OpensMore
<1>3. to # "openai" => Sequenced(s \o <<x>>)
  BY <1>1, <1>2 DEF Sequenced, OpensIn, Good
<1>4. Numbered(s \o <<x>>) /\ AllPlaced(s \o <<x>>, sent)
  BY NumberedMore, PlacedMore DEF Good
<1>5. Count(s \o <<x>>) = Count(s)
  BY CountMore
<1> QED BY <1>3, <1>4, <1>5 DEF Good

LEMMA GoodDelta ==
    ASSUME NEW s \in Seq(WireType), NEW sent, Good(s, sent),
           NEW at \in Int, NEW n \in Nat, n = Count(s) + 1, n \in DOMAIN sent,
           \/ to = "openai" /\ sent[n] = Text /\ at = Text
           \/ Named(s, at, sent[n]) /\ ~Closed(s, at)
    PROVE  /\ Good(s \o <<Delta(at, n)>>, sent)
           /\ Count(s \o <<Delta(at, n)>>) = Count(s) + 1
<1> DEFINE x == Delta(at, n)
           t == s \o <<x>>
<1>1. x \in WireType /\ x.type = "delta" /\ x.at = at /\ x.data = n
  BY WireTypes, WireFields
<1> HIDE DEF x
<1>2. /\ Len(s) \in Nat /\ DOMAIN s = 1..Len(s)
      /\ \A k \in 1..Len(s) : t[k] = s[k]
      /\ t[Len(s) + 1] = x
  BY <1>1, OneMore
<1>3. /\ OpensIn(t) = OpensIn(s)
      /\ \A k \in OpensIn(s) : Before(t, k) = Before(s, k)
  BY <1>1, OpensMore
<1>4. Sequenced(s) => Sequenced(t)
  BY <1>2, <1>3 DEF Sequenced, OpensIn
<1>5. Count(t) = Count(s) + 1
  BY <1>1, CountMore
<1> HIDE DEF t
<1>6. Placed(t, Len(s) + 1, sent)
  <2>1. CASE to = "openai" /\ sent[n] = Text /\ at = Text
    BY <1>1, <1>2, <2>1 DEF Placed
  <2>2. CASE Named(s, at, sent[n]) /\ ~Closed(s, at)
    <3>1. PICK j \in 1..Len(s) : s[j] = Open(at, sent[n])
      BY <1>2, <2>2 DEF Named
    <3>2. t[j] = Open(at, sent[n])
      BY <1>2, <3>1
    <3>3. ASSUME NEW h \in j..Len(s) + 1 PROVE t[h] # Close(at)
      <4>1. CASE h = Len(s) + 1
        BY <1>1, <1>2, <4>1, WireFields
      <4>2. CASE h # Len(s) + 1
        <5>1. h \in 1..Len(s)
          BY <1>2, <3>1, <4>2
        <5> QED BY <1>2, <2>2, <5>1 DEF Closed
      <4> QED BY <4>1, <4>2
    <3>4. j \in 1..Len(s) + 1
      BY <1>2, <3>1
    <3> QED BY <1>1, <1>2, <3>2, <3>3, <3>4 DEF Placed
  <2> QED BY <2>1, <2>2
<1>7. Numbered(t) /\ AllPlaced(t, sent)
  BY <1>1, <1>6, NumberedMore, PlacedMore DEF Good, t
<1> QED BY <1>4, <1>5, <1>7 DEF Good, t, x

-----------------------------------------------------------------------------
(* The writer's book, wire by wire.                                        *)

\* A block that was closed once stays so.
LEMMA OnceMore ==
    ASSUME NEW s \in Seq(WireType), NEW x \in WireType, NEW b, x # Close(b),
           ClosedOnce(s, b)
    PROVE  ClosedOnce(s \o <<x>>, b)
<1> DEFINE t == s \o <<x>>
<1>1. /\ Len(s) \in Nat /\ DOMAIN s = 1..Len(s) /\ DOMAIN t = 1..Len(s) + 1
      /\ t[Len(s) + 1] = x /\ \A k \in 1..Len(s) : t[k] = s[k]
  BY OneMore
<1> HIDE DEF t
<1>2. PICK j \in DOMAIN s : \A h \in DOMAIN s : s[h] = Close(b) <=> h = j
  BY DEF ClosedOnce
<1>3. j \in 1..Len(s) /\ j \in 1..Len(s) + 1
  BY <1>1, <1>2
<1>4. \A h \in 1..Len(s) + 1 : h = Len(s) + 1 \/ h \in 1..Len(s)
  BY <1>1
<1>5. \A h \in DOMAIN t : t[h] = Close(b) <=> h = j
  BY <1>1, <1>2, <1>3, <1>4
<1> QED BY <1>1, <1>3, <1>5 DEF ClosedOnce, t

\* Wires that neither begin nor end a block.
LEMMA BookQuiet ==
    ASSUME NEW s \in Seq(WireType), NEW x \in WireType, NEW w, Book(w, s),
           x.type \notin {"open", "close"}
    PROVE  Book(w, s \o <<x>>)
<1> DEFINE t == s \o <<x>>
<1>1. /\ Len(s) \in Nat /\ DOMAIN s = 1..Len(s) /\ DOMAIN t = 1..Len(s) + 1
      /\ t[Len(s) + 1] = x /\ \A k \in 1..Len(s) : t[k] = s[k]
  BY OneMore
<1>2. OpensIn(t) = OpensIn(s) /\ OpensIn(s) \subseteq 1..Len(s)
  BY <1>1, OpensMore DEF OpensIn
<1>3. /\ \A b, of : Named(s, b, of) => Named(t, b, of)
      /\ \A b : Closed(t, b) => Closed(s, b) \/ x = Close(b)
  BY NamesMore
<1>4. \A b : x # Close(b)
  BY WireFields
<1> HIDE DEF t
<1>5. NoClose(s) => NoClose(t)
  BY <1>1 DEF NoClose
<1>6. Shelf(w, s) => Shelf(w, t)
  BY <1>2, <1>3 DEF Shelf
<1>7. \A b : ClosedOnce(s, b) => ClosedOnce(t, b)
  BY <1>4, OnceMore DEF t
<1>8. ASSUME AnthropicShelf(w, s) PROVE AnthropicShelf(w, t)
  <2>1. \A m \in DOMAIN w.open : w.open[m] \in Used(w) /\ ~Closed(t, w.open[m])
    BY <1>3, <1>4, <1>8 DEF AnthropicShelf
  <2>2. \A k \in DOMAIN t : t[k].type = "close" => t[k].at \in Used(w)
    BY <1>1, <1>8 DEF AnthropicShelf
  <2>3. \A k \in OpensIn(t) : HasBlock(w, t[k].at) \/ ClosedOnce(t, t[k].at)
    BY <1>1, <1>2, <1>7, <1>8 DEF AnthropicShelf
  <2> QED BY <1>8, <2>1, <2>2, <2>3 DEF AnthropicShelf
<1>9. ResponsesShelf(w, s) => ResponsesShelf(w, t)
  BY <1>1, <1>2, <1>5 DEF ResponsesShelf
<1> QED BY <1>5, <1>6, <1>8, <1>9 DEF Book, t

\* A book speaks of these fields only.
LEMMA BookSame ==
    ASSUME NEW w, NEW v, NEW s, Book(w, s),
           v.seq = w.seq, v.text = w.text, v.tools = w.tools, v.open = w.open,
           v.output = w.output
    PROVE  Book(v, s)
BY ZenonT(30) DEF Book, Shelf, AnthropicShelf, ResponsesShelf, Used, HasBlock

\* The next block or item begins.
Takes(w, v, of) ==
    /\ v.seq = w.seq + 1
    /\ \/ of = Text /\ v.text = First + w.seq /\ v.tools = w.tools
       \/ /\ of \in Index /\ v.text = w.text
          /\ v.tools = [w.tools EXCEPT ![of] = First + w.seq]

LEMMA ShelfOpens ==
    ASSUME NEW s \in Seq(WireType), NEW w \in WriterType, NEW v, NEW of \in Int,
           Shelf(w, s), Takes(w, v, of)
    PROVE  Shelf(v, s \o <<Open(First + w.seq, of)>>)
<1> DEFINE n == First + w.seq
           t == s \o <<Open(n, of)>>
<1>1. /\ First \in {0, 1} /\ n \in Int /\ w.seq \in Nat
      /\ w.tools \in [Index -> Int] /\ w.text \in Int
  BY WriterFields DEF First
<1>2. Open(n, of) \in WireType /\ Open(n, of).type = "open"
  BY <1>1, WireTypes, WireFields
<1>3. Cardinality(OpensIn(t)) = v.seq
  <2>1. Cardinality(OpensIn(t)) = Cardinality(OpensIn(s)) + 1
    BY <1>2, OpensMore
  <2> QED BY <2>1 DEF Shelf, Takes
<1>4. /\ \A b, o : Named(s, b, o) => Named(t, b, o)
      /\ Named(t, n, of)
  BY <1>2, NamesMore
<1>5. n \in Used(v) /\ n \notin Used(w) /\ Used(w) \subseteq Used(v)
      /\ None \notin Used(v)
  BY <1>1 DEF Used, Takes, None
<1> HIDE DEF t, n
<1>6. v.text # None => v.text \in Used(v) /\ Named(t, v.text, Text)
  BY <1>4, <1>5 DEF Shelf, Takes, n
<1>7. ASSUME NEW i \in Index, v.tools[i] # None
      PROVE  v.tools[i] \in Used(v) /\ Named(t, v.tools[i], i) /\ v.tools[i] # v.text
  <2>1. CASE of \in Index /\ i = of
    <3>1. v.tools[i] = n /\ v.text = w.text
      BY <1>1, <2>1, StreamsAssumption DEF Takes, n, Text
    <3>2. w.text # n
      BY <1>1, <1>5 DEF Shelf, None, n
    <3> QED BY <1>4, <1>5, <2>1, <3>1, <3>2
  <2>2. CASE ~(of \in Index /\ i = of)
    <3>1. v.tools[i] = w.tools[i] /\ v.text \in {w.text, n}
      BY <1>1, <2>2 DEF Takes, n
    <3>2. w.tools[i] \in Used(w) /\ Named(s, w.tools[i], i) /\ w.tools[i] # w.text
      BY <1>7, <3>1 DEF Shelf
    <3> QED BY <1>4, <1>5, <3>1, <3>2
  <2> QED BY <2>1, <2>2
<1>8. ASSUME NEW i \in Index, NEW j \in Index, i # j, v.tools[i] = v.tools[j]
      PROVE  v.tools[i] = None
  <2>1. \A h \in Index : v.tools[h] = w.tools[h] \/ (h = of /\ v.tools[h] = n)
    BY <1>1 DEF Takes, n
  <2>2. \A h \in Index : w.tools[h] # n
    BY <1>1, <1>5 DEF Shelf, None, n
  <2>3. v.tools[i] = w.tools[i] /\ v.tools[j] = w.tools[j]
    BY <1>8, <2>1, <2>2
  <2> QED BY <1>8, <2>3 DEF Shelf
<1> QED BY <1>3, <1>6, <1>7, <1>8 DEF Shelf, t, n

-----------------------------------------------------------------------------
(* Anthropic blocks.                                                       *)

Distinct(q) == \A l, m \in DOMAIN q : q[l] = q[m] => l = m

\* The list of open blocks without one of them.
LEMMA WithoutBlocks ==
    ASSUME NEW w \in WriterType, NEW b \in Int, Distinct(w.open), NEW q,
           q = Without(w, b)
    PROVE  /\ Distinct(q)
           /\ \A m \in DOMAIN q : q[m] # b /\ HasBlock(w, q[m])
           /\ \A c : HasBlock(w, c) /\ c # b => \E m \in DOMAIN q : q[m] = c
<1>1. w.open \in Seq(Int) /\ DOMAIN w.open = 1..Len(w.open) /\ Len(w.open) \in Nat
  BY WriterFields, LenProperties
<1>2. CASE Places(w, b) = {}
  <2>1. q = w.open /\ \A m \in DOMAIN w.open : w.open[m] # b
    BY <1>2 DEF Without, Places
  <2> QED BY <2>1 DEF HasBlock
<1>3. CASE Places(w, b) # {}
  <2>1. PICK k \in Places(w, b) : q = RemoveAt(w.open, k)
    BY <1>3 DEF Without
  <2>2. k \in 1..Len(w.open) /\ w.open[k] = b
    BY <1>1, <2>1 DEF Places
  <2> DEFINE n == Len(w.open)
             x == SubSeq(w.open, 1, k - 1)
             y == SubSeq(w.open, k + 1, n)
  <2>3. /\ x \in Seq(Int) /\ Len(x) = k - 1
        /\ \A i \in 1..k - 1 : x[i] = w.open[i]
    <3>1. \A i \in 1..k - 1 : w.open[i] \in Int
      BY <1>1, <2>2
    <3>2. /\ x \in Seq(Int) /\ Len(x) = IF 1 <= k - 1 THEN k - 1 - 1 + 1 ELSE 0
          /\ \A i \in 1..k - 1 - 1 + 1 : x[i] = w.open[1 + i - 1]
      BY <1>1, <2>2, <3>1, SubSeqProperties
    <3> QED BY <1>1, <2>2, <3>2
  <2>4. /\ y \in Seq(Int) /\ Len(y) = n - k
        /\ \A i \in 1..n - k : y[i] = w.open[k + i]
    <3>1. \A i \in k + 1..n : w.open[i] \in Int
      BY <1>1, <2>2
    <3>2. /\ y \in Seq(Int) /\ Len(y) = IF k + 1 <= n THEN n - (k + 1) + 1 ELSE 0
          /\ \A i \in 1..n - (k + 1) + 1 : y[i] = w.open[k + 1 + i - 1]
      BY <1>1, <2>2, <3>1, SubSeqProperties
    <3> QED BY <1>1, <2>2, <3>2
  <2>5. q = x \o y
    BY <2>1 DEF RemoveAt
  <2> HIDE DEF x, y
  <2>6. /\ x \o y \in Seq(Int) /\ Len(x \o y) = Len(x) + Len(y)
        /\ \A i \in 1..Len(x) + Len(y) :
               (x \o y)[i] = IF i <= Len(x) THEN x[i] ELSE y[i - Len(x)]
    BY <2>3, <2>4, ConcatProperties
  <2>7. /\ DOMAIN q = 1..n - 1
        /\ \A i \in 1..n - 1 : q[i] = IF i < k THEN w.open[i] ELSE w.open[i + 1]
    <3>1. DOMAIN q = 1..n - 1
      <4>1. q \in Seq(Int) /\ Len(q) = Len(x) + Len(y)
        BY <2>5, <2>6
      <4>2. Len(q) = n - 1
        BY <1>1, <2>2, <2>3, <2>4, <4>1
      <4> QED BY <4>1, <4>2, LenProperties
    <3>2. ASSUME NEW i \in 1..n - 1
          PROVE  q[i] = IF i < k THEN w.open[i] ELSE w.open[i + 1]
      <4>1. CASE i < k
        BY <1>1, <2>2, <2>3, <2>4, <2>5, <2>6, <4>1
      <4>2. CASE ~(i < k)
        <5>1. i - (k - 1) \in 1..n - k /\ k + (i - (k - 1)) = i + 1
          BY <1>1, <2>2, <4>2
        <5>2. i \in 1..Len(x) + Len(y) /\ ~(i <= Len(x)) /\ i - Len(x) = i - (k - 1)
          BY <1>1, <2>2, <2>3, <2>4, <4>2
        <5>3. q[i] = y[i - (k - 1)]
          BY <2>5, <2>6, <5>2
        <5> QED BY <2>4, <4>2, <5>1, <5>3
      <4> QED BY <4>1, <4>2
    <3> QED BY <3>1, <3>2
  <2>8. \A i \in 1..n - 1 : i + 1 \in 1..n /\ i \in 1..n
    BY <1>1
  <2>9. Distinct(q)
    <3>1. ASSUME NEW l \in 1..n - 1, NEW m \in 1..n - 1, q[l] = q[m] PROVE l = m
      <4>1. PICK a \in 1..n, c \in 1..n :
                /\ a = IF l < k THEN l ELSE l + 1
                /\ c = IF m < k THEN m ELSE m + 1
        BY <2>8
      <4>2. w.open[a] = w.open[c]
        BY <2>7, <3>1, <4>1
      <4>3. a = c
        BY <1>1, <4>2 DEF Distinct
      <4> QED BY <1>1, <2>2, <4>1, <4>3
    <3> QED BY <2>7, <3>1 DEF Distinct
  <2>10. \A m \in DOMAIN q : q[m] # b /\ HasBlock(w, q[m])
    <3>1. ASSUME NEW m \in 1..n - 1 PROVE q[m] # b /\ HasBlock(w, q[m])
      <4>1. PICK a \in 1..n : a = (IF m < k THEN m ELSE m + 1) /\ q[m] = w.open[a]
        BY <2>7, <2>8
      <4>2. a # k
        BY <1>1, <2>2, <4>1
      <4> QED BY <1>1, <2>2, <4>1, <4>2 DEF Distinct, HasBlock
    <3> QED BY <2>7, <3>1
  <2>11. ASSUME NEW c, HasBlock(w, c), c # b PROVE \E m \in DOMAIN q : q[m] = c
    <3>1. PICK a \in 1..n : w.open[a] = c
      BY <1>1, <2>11 DEF HasBlock
    <3>2. a # k
      BY <2>2, <2>11, <3>1
    <3>3. PICK m \in 1..n - 1 : m = IF a < k THEN a ELSE a - 1
      BY <1>1, <2>2, <3>2
    <3>4. q[m] = c
      BY <1>1, <2>2, <2>7, <3>1, <3>2, <3>3
    <3> QED BY <2>7, <3>3, <3>4
  <2> QED BY <2>9, <2>10, <2>11
<1> QED BY <1>2, <1>3

\* A block is closed.
LEMMA BlockCloses ==
    ASSUME to = "anthropic", NEW s \in Seq(WireType), NEW w \in WriterType,
           Book(w, s), NEW b \in Int, HasBlock(w, b), NEW v,
           v.seq = w.seq, v.tools = w.tools, v.output = w.output,
           v.text = IF w.text = b THEN None ELSE w.text, v.open = Without(w, b)
    PROVE  Book(v, s \o <<Close(b)>>)
<1> DEFINE x == Close(b)
           t == s \o <<x>>
<1>1. x \in WireType /\ x.type = "close" /\ x.at = b
  BY WireTypes, WireFields
<1> HIDE DEF x
<1>2. /\ Len(s) \in Nat /\ DOMAIN s = 1..Len(s) /\ DOMAIN t = 1..Len(s) + 1
      /\ t[Len(s) + 1] = x /\ \A k \in 1..Len(s) : t[k] = s[k]
  BY <1>1, OneMore
<1>3. OpensIn(t) = OpensIn(s) /\ OpensIn(s) \subseteq 1..Len(s)
  BY <1>1, <1>2, OpensMore DEF OpensIn
<1>4. /\ \A c, of : Named(s, c, of) => Named(t, c, of)
      /\ \A c : Closed(t, c) => Closed(s, c) \/ x = Close(c)
  BY <1>1, NamesMore
<1>5. \A c : x = Close(c) => c = b
  BY <1>1, WireFields
<1> HIDE DEF t
<1>6. Shelf(w, s) /\ AnthropicShelf(w, s)
  BY DEF Book
<1>7. /\ Distinct(v.open)
      /\ \A m \in DOMAIN v.open : v.open[m] # b /\ HasBlock(w, v.open[m])
      /\ \A c : HasBlock(w, c) /\ c # b => HasBlock(v, c)
  <2>1. Distinct(w.open)
    BY <1>6 DEF AnthropicShelf, Distinct
  <2>2. /\ Distinct(v.open)
        /\ \A m \in DOMAIN v.open : v.open[m] # b /\ HasBlock(w, v.open[m])
        /\ \A c : HasBlock(w, c) /\ c # b => \E m \in DOMAIN v.open : v.open[m] = c
    BY <2>1, WithoutBlocks
  <2>3. \A c : (\E m \in DOMAIN v.open : v.open[m] = c) => HasBlock(v, c)
    BY DEF HasBlock
  <2> QED BY <2>2, <2>3
<1>8. Shelf(v, t)
  <2>1. v.text # None => v.text = w.text
    OBVIOUS
  <2>2. \A i \in Index : w.tools[i] # None => w.tools[i] # v.text
    BY <1>6 DEF Shelf
  <2> QED BY <1>3, <1>4, <1>6, <2>1, <2>2 DEF Shelf, Used
<1>9. \A m \in DOMAIN v.open : v.open[m] \in Used(v) /\ ~Closed(t, v.open[m])
  <2>1. \A c : HasBlock(w, c) => c \in Used(w) /\ ~Closed(s, c)
    BY <1>6 DEF AnthropicShelf, HasBlock
  <2> QED BY <1>4, <1>5, <1>7, <2>1 DEF Used
<1>10. v.text # None => HasBlock(v, v.text)
  BY <1>6, <1>7 DEF AnthropicShelf
<1>11. \A k \in DOMAIN t : t[k].type = "close" => t[k].at \in Used(v)
  <2>1. b \in Used(w)
    BY <1>6 DEF AnthropicShelf, HasBlock
  <2> QED BY <1>1, <1>2, <1>6, <2>1 DEF AnthropicShelf, Used
<1>12. ClosedOnce(t, b)
  <2>1. Len(s) + 1 \in DOMAIN t /\ t[Len(s) + 1] = Close(b)
    BY <1>2 DEF x
  <2>2. ASSUME NEW h \in DOMAIN t, t[h] = Close(b) PROVE h = Len(s) + 1
    <3>1. ~Closed(s, b)
      BY <1>6 DEF AnthropicShelf, HasBlock
    <3> QED BY <1>2, <2>2, <3>1 DEF Closed
  <2> QED BY <2>1, <2>2 DEF ClosedOnce
<1>13. \A c : c # b /\ ClosedOnce(s, c) => ClosedOnce(t, c)
  BY <1>1, <1>5, OnceMore DEF t
<1>14. \A k \in OpensIn(t) : HasBlock(v, t[k].at) \/ ClosedOnce(t, t[k].at)
  BY <1>2, <1>3, <1>6, <1>7, <1>12, <1>13 DEF AnthropicShelf
<1>15. AnthropicShelf(v, t)
  BY <1>7, <1>9, <1>10, <1>11, <1>14 DEF AnthropicShelf, Distinct
<1> QED BY <1>8, <1>15 DEF Book, t, x

\* A block begins.
LEMMA BlockOpens ==
    ASSUME to = "anthropic", NEW s \in Seq(WireType), NEW w \in WriterType,
           Book(w, s), NEW of \in Int, NEW v, Takes(w, v, of),
           v.open = Append(w.open, w.seq)
    PROVE  /\ Book(v, s \o <<Open(w.seq, of)>>) /\ HasBlock(v, w.seq)
           /\ \A c : HasBlock(w, c) => HasBlock(v, c)
<1> DEFINE x == Open(w.seq, of)
           t == s \o <<x>>
<1>1. x \in WireType /\ x.type = "open" /\ x.at = w.seq
  BY WriterFields, WireTypes, WireFields
<1>2. Shelf(v, t)
  <2>1. First + w.seq = w.seq
    BY WriterFields DEF First
  <2>2. Shelf(v, s \o <<Open(First + w.seq, of)>>)
    BY ShelfOpens DEF Book
  <2> QED BY <2>1, <2>2
<1> HIDE DEF x
<1>3. /\ Len(s) \in Nat /\ DOMAIN s = 1..Len(s) /\ DOMAIN t = 1..Len(s) + 1
      /\ t[Len(s) + 1] = x /\ \A k \in 1..Len(s) : t[k] = s[k]
  BY <1>1, OneMore
<1>4. OpensIn(t) = OpensIn(s) \cup {Len(s) + 1} /\ OpensIn(s) \subseteq 1..Len(s)
  BY <1>1, <1>3, OpensMore DEF OpensIn
<1>5. \A c : Closed(t, c) => Closed(s, c)
  <2>1. \A c : x # Close(c)
    BY <1>1, WireFields
  <2> QED BY <1>1, <2>1, NamesMore
<1> HIDE DEF t
<1>6. AnthropicShelf(w, s)
  BY DEF Book
<1>7. /\ w.seq \in Nat /\ Len(w.open) \in Nat /\ DOMAIN w.open = 1..Len(w.open)
      /\ DOMAIN v.open = 1..Len(w.open) + 1 /\ v.open[Len(w.open) + 1] = w.seq
      /\ \A m \in 1..Len(w.open) : v.open[m] = w.open[m]
  <2>1. w.open \in Seq(Int) /\ w.seq \in Int
    BY WriterFields
  <2>2. /\ Append(w.open, w.seq) \in Seq(Int)
        /\ Len(Append(w.open, w.seq)) = Len(w.open) + 1
        /\ Append(w.open, w.seq)[Len(w.open) + 1] = w.seq
        /\ \A m \in 1..Len(w.open) : Append(w.open, w.seq)[m] = w.open[m]
    BY <2>1, AppendProperties
  <2> QED BY <2>1, <2>2, WriterFields, LenProperties
<1>8. /\ Used(w) = 0..w.seq - 1 /\ Used(v) = 0..w.seq
      /\ w.seq \in Used(v) /\ w.seq \notin Used(w) /\ Used(w) \subseteq Used(v)
  <2>1. First = 0 /\ v.seq = w.seq + 1
    BY DEF First, Takes
  <2>2. Used(w) = 0..w.seq - 1 /\ Used(v) = 0..w.seq
    BY <1>7, <2>1 DEF Used
  <2> QED BY <1>7, <2>2
<1>9. HasBlock(v, w.seq) /\ \A c : HasBlock(w, c) => HasBlock(v, c)
  BY <1>7, SMTT(30) DEF HasBlock
<1>10. ~Closed(s, w.seq)
  <2>1. ASSUME NEW j \in DOMAIN s, s[j] = Close(w.seq) PROVE FALSE
    <3>1. s[j].type = "close" /\ s[j].at = w.seq
      BY <2>1, WireFields
    <3> QED BY <1>6, <1>8, <3>1 DEF AnthropicShelf
  <2> QED BY <2>1 DEF Closed
<1>11. \A m \in DOMAIN v.open : v.open[m] \in Used(v) /\ ~Closed(t, v.open[m])
  BY <1>5, <1>6, <1>7, <1>8, <1>10 DEF AnthropicShelf
<1>12. \A l, m \in DOMAIN v.open : v.open[l] = v.open[m] => l = m
  BY <1>6, <1>7, <1>8, SMTT(30) DEF AnthropicShelf
<1>13. v.text # None => HasBlock(v, v.text)
  BY <1>6, <1>7, <1>9 DEF AnthropicShelf, Takes, First
<1>14. \A k \in DOMAIN t : t[k].type = "close" => t[k].at \in Used(v)
  BY <1>1, <1>3, <1>6, <1>8 DEF AnthropicShelf
<1>15. \A b : ClosedOnce(s, b) => ClosedOnce(t, b)
  <2>1. \A b : x # Close(b)
    BY <1>1, WireFields
  <2> QED BY <1>1, <2>1, OnceMore DEF t
<1>16. \A k \in OpensIn(t) : HasBlock(v, t[k].at) \/ ClosedOnce(t, t[k].at)
  BY <1>1, <1>3, <1>4, <1>6, <1>9, <1>15 DEF AnthropicShelf
<1>17. AnthropicShelf(v, t)
  BY <1>11, <1>12, <1>13, <1>14, <1>16 DEF AnthropicShelf
<1> QED BY <1>2, <1>9, <1>17 DEF Book, t, x

-----------------------------------------------------------------------------
(* Responses items.                                                        *)

\* An item is announced: the text item, or a call, which is listed at once.
LEMMA ItemOpens ==
    ASSUME to = "responses", NEW s \in Seq(WireType), NEW w \in WriterType,
           Book(w, s), NEW of \in Int, NEW v, Takes(w, v, of),
           \/ of = Text /\ w.text = None /\ v.output = w.output
           \/ of # Text /\ v.output = Append(w.output, w.seq + 1)
    PROVE  Book(v, s \o <<Open(w.seq + 1, of)>>)
<1> DEFINE x == Open(w.seq + 1, of)
           t == s \o <<x>>
<1>1. x \in WireType /\ x.type = "open" /\ x.at = w.seq + 1
  BY WriterFields, WireTypes, WireFields
<1>2. Shelf(v, t)
  <2>1. First + w.seq = w.seq + 1
    BY WriterFields DEF First
  <2>2. Shelf(v, s \o <<Open(First + w.seq, of)>>)
    BY ShelfOpens DEF Book
  <2> QED BY <2>1, <2>2
<1> HIDE DEF x
<1>3. /\ Len(s) \in Nat /\ DOMAIN s = 1..Len(s) /\ DOMAIN t = 1..Len(s) + 1
      /\ t[Len(s) + 1] = x /\ \A k \in 1..Len(s) : t[k] = s[k]
  BY <1>1, OneMore
<1>4. OpensIn(t) = OpensIn(s) \cup {Len(s) + 1} /\ OpensIn(s) \subseteq 1..Len(s)
  BY <1>1, <1>3, OpensMore DEF OpensIn
<1> HIDE DEF t
<1>5. ResponsesShelf(w, s)
  BY DEF Book
<1>6. NoClose(t)
  BY <1>1, <1>3, <1>5 DEF NoClose, ResponsesShelf
<1>7. /\ w.seq \in Nat /\ v.seq = w.seq + 1 /\ w.text \in Int
      /\ w.output \in Seq(Int) /\ Len(w.output) \in Nat
      /\ DOMAIN w.output = 1..Len(w.output)
  BY WriterFields, LenProperties DEF Takes
<1>8. CASE of = Text
  <2>1. v.text = w.seq + 1 /\ w.text = None /\ v.output = w.output
    BY <1>7, <1>8, StreamsAssumption DEF Takes, First, Text
  <2>2. v.text # None
    BY <1>7, <2>1 DEF None
  <2>3. Len(v.output) + (IF v.text = None THEN 0 ELSE 1) = v.seq
    BY <1>5, <1>7, <2>1, <2>2 DEF ResponsesShelf
  <2>4. ASSUME NEW k \in OpensIn(t)
        PROVE  \/ v.text # None /\ t[k].at = v.text
               \/ \E m \in DOMAIN v.output : v.output[m] = t[k].at
    BY <1>1, <1>3, <1>4, <1>5, <2>1, <2>2 DEF ResponsesShelf
  <2> QED BY <1>2, <1>6, <2>3, <2>4 DEF Book, ResponsesShelf, t, x
<1>9. CASE of # Text
  <2>1. v.text = w.text /\ v.output = Append(w.output, w.seq + 1)
    BY <1>9 DEF Takes
  <2>2. /\ Len(v.output) = Len(w.output) + 1
        /\ DOMAIN v.output = 1..Len(w.output) + 1
        /\ v.output[Len(w.output) + 1] = w.seq + 1
        /\ \A m \in 1..Len(w.output) : v.output[m] = w.output[m]
    <3>1. w.seq + 1 \in Int
      BY <1>7
    <3>2. /\ v.output \in Seq(Int) /\ Len(v.output) = Len(w.output) + 1
          /\ v.output[Len(w.output) + 1] = w.seq + 1
          /\ \A m \in 1..Len(w.output) : v.output[m] = w.output[m]
      BY <1>7, <2>1, <3>1, AppendProperties
    <3> QED BY <3>2, LenProperties
  <2>3. Len(v.output) + (IF v.text = None THEN 0 ELSE 1) = v.seq
    <3>1. PICK d \in {0, 1} : d = IF w.text = None THEN 0 ELSE 1
      OBVIOUS
    <3>2. Len(w.output) + d = w.seq
      BY <1>5, <3>1 DEF ResponsesShelf
    <3>3. Len(w.output) + 1 + d = w.seq + 1
      BY <1>7, <3>2
    <3> QED BY <1>7, <2>1, <2>2, <3>1, <3>3
  <2>4. ASSUME NEW k \in OpensIn(t)
        PROVE  \/ v.text # None /\ t[k].at = v.text
               \/ \E m \in DOMAIN v.output : v.output[m] = t[k].at
    <3>1. CASE k = Len(s) + 1
      BY <1>1, <1>3, <1>7, <2>2, <3>1, SMTT(30)
    <3>2. CASE k # Len(s) + 1
      <4>1. k \in OpensIn(s) /\ t[k] = s[k]
        BY <1>3, <1>4, <3>2
      <4>2. \A m \in 1..Len(w.output) : m \in 1..Len(w.output) + 1
        BY <1>7
      <4> QED BY <1>5, <1>7, <2>1, <2>2, <4>1, <4>2 DEF ResponsesShelf
    <3> QED BY <3>1, <3>2
  <2> QED BY <1>2, <1>6, <2>3, <2>4 DEF Book, ResponsesShelf, t, x
<1> QED BY <1>8, <1>9

-----------------------------------------------------------------------------
(* What each event does to what was written and to the book.               *)

\* The event is one the writer, which has written s, can serve.
Fits(w, s, sent, e) ==
    /\ e.type # "done"
    /\ IsPiece(e) => e.data = Count(s) + 1 /\ e.data \in DOMAIN sent
    /\ e.type = "text_delta" => sent[e.data] = Text
    /\ e.type = "tool_call_delta" => sent[e.data] = e.tool /\ Opened(w, s, e.tool)

\* It was served.
Served(r, w, s, sent, e) ==
    LET u == s \o r.wires IN
    /\ r.ok /\ ~r.w.done
    /\ Book(r.w, u) /\ Good(u, sent)
    /\ Count(u) = Count(s) + (IF IsPiece(e) THEN 1 ELSE 0)
    /\ \A t \in Index : Opened(w, s, t) => \/ Opened(r.w, u, t)
                                           \/ e.type = "tool_call_stop" /\ t = e.tool
    /\ e.type = "tool_call_start" => Opened(r.w, u, e.tool)
    /\ \A t \in Index : \/ r.w.tools[t] = w.tools[t]
                        \/ e.type = "tool_call_start" /\ t = e.tool

LEMMA ChatServes ==
    ASSUME to = "openai", NEW s \in Seq(WireType), NEW w \in WriterType, ~w.done,
           Book(w, s), NEW sent, Good(s, sent), NEW e \in EventType,
           Fits(w, s, sent, e)
    PROVE  Served(WriteChat(w, e), w, s, sent, e)
<1> DEFINE r == WriteChat(w, e)
           u == s \o r.wires
<1>1. /\ e.type \in ToolEvents \cup {"text_delta", "done"} /\ e.tool \in Int
      /\ e.data \in Nat /\ Text \in Int
  BY EventFields, Indices
<1>2. NoClose(s) /\ \A b : ~Closed(s, b)
  <2>1. NoClose(s)
    BY DEF Book
  <2> QED BY <2>1, WireFields DEF NoClose, Closed
<1>3. \A v, z : NoClose(z) => Book(v, z)
  BY DEF Book
<1>4. \A x \in WireType : x.type # "close" => NoClose(s \o <<x>>)
  BY <1>2, OneMore DEF NoClose
<1>5. \A x \in WireType : \A t : Opened(w, s, t) => Opened(w, s \o <<x>>, t)
  BY NamesMore DEF Opened
<1>6. CASE e.type = "text_delta"
  <2>1. r = Wrote(w, <<Delta(Text, e.data)>>)
    BY <1>6 DEF WriteChat
  <2>2. /\ Delta(Text, e.data) \in WireType
        /\ Delta(Text, e.data).type = "delta"
    BY <1>1, WireTypes, WireFields
  <2>3. r.w = w /\ r.ok /\ u = s \o <<Delta(Text, e.data)>>
    BY <2>1 DEF Wrote
  <2>4. Good(u, sent) /\ Count(u) = Count(s) + 1
    BY <1>1, <1>6, <2>3, GoodDelta DEF Fits, IsPiece
  <2>5. Book(w, u)
    BY <1>3, <1>4, <2>2, <2>3
  <2> QED BY <1>5, <1>6, <2>2, <2>3, <2>4, <2>5 DEF Served, IsPiece
<1>7. CASE e.type = "tool_call_delta"
  <2>1. r = Wrote(w, <<Delta(e.tool, e.data)>>)
    BY <1>7 DEF WriteChat
  <2>2. /\ Delta(e.tool, e.data) \in WireType
        /\ Delta(e.tool, e.data).type = "delta"
    BY <1>1, WireTypes, WireFields
  <2>3. r.w = w /\ r.ok /\ u = s \o <<Delta(e.tool, e.data)>>
    BY <2>1 DEF Wrote
  <2>4. Named(s, e.tool, sent[e.data]) /\ ~Closed(s, e.tool)
    BY <1>2, <1>7 DEF Fits, Opened
  <2>5. Good(u, sent) /\ Count(u) = Count(s) + 1
    BY <1>1, <1>7, <2>3, <2>4, GoodDelta DEF Fits, IsPiece
  <2>6. Book(w, u)
    BY <1>3, <1>4, <2>2, <2>3
  <2> QED BY <1>5, <1>7, <2>2, <2>3, <2>5, <2>6 DEF Served, IsPiece
<1>8. CASE e.type = "tool_call_start"
  <2>1. r = Wrote(w, <<Open(e.tool, e.tool)>>)
    BY <1>8 DEF WriteChat
  <2>2. /\ Open(e.tool, e.tool) \in WireType
        /\ Open(e.tool, e.tool).type = "open"
    BY <1>1, WireTypes, WireFields
  <2>3. r.w = w /\ r.ok /\ u = s \o <<Open(e.tool, e.tool)>>
    BY <2>1 DEF Wrote
  <2>4. Good(u, sent) /\ Count(u) = Count(s) /\ Count(s) \in Nat
    BY <2>2, <2>3, GoodOpen, CountMore
  <2>5. Book(w, u)
    BY <1>3, <1>4, <2>2, <2>3
  <2>6. Opened(w, u, e.tool)
    BY <2>2, <2>3, NamesMore DEF Opened
  <2> QED BY <1>5, <1>8, <2>2, <2>3, <2>4, <2>5, <2>6 DEF Served, IsPiece
<1>9. CASE e.type = "tool_call_stop"
  <2>1. r = Wrote(w, <<>>)
    BY <1>9 DEF WriteChat
  <2>2. r.w = w /\ r.ok /\ u = s
    BY <2>1, ConcatEmptySeq DEF Wrote
  <2>3. Count(s) \in Nat
    BY WireTypes, CountMore
  <2> QED BY <1>9, <2>2, <2>3 DEF Served, IsPiece
<1> QED BY <1>1, <1>6, <1>7, <1>8, <1>9 DEF Fits, ToolEvents

LEMMA ResponsesServes ==
    ASSUME to = "responses", NEW s \in Seq(WireType), NEW w \in WriterType,
           ~w.done, Book(w, s), NEW sent, Good(s, sent), NEW e \in EventType,
           Fits(w, s, sent, e)
    PROVE  Served(WriteResponses(w, e), w, s, sent, e)
<1> DEFINE r == WriteResponses(w, e)
           u == s \o r.wires
<1>1. /\ e.type \in ToolEvents \cup {"text_delta", "done"} /\ e.tool \in Int
      /\ e.data \in Nat /\ Text \in Int
      /\ e.type \in ToolEvents => e.tool \in Index
      /\ Count(s) \in Nat /\ First = 1
  BY EventFields, Indices, WireTypes, CountMore DEF First
<1>2. /\ w.seq \in Nat /\ w.seq + 1 \in Int /\ w.text \in Int
      /\ w.tools \in [Index -> Int] /\ Cardinality(OpensIn(s)) = w.seq
  BY WriterFields DEF Book, Shelf
<1>3. NoClose(s) /\ \A b : ~Closed(s, b)
  <2>1. NoClose(s)
    BY DEF Book, ResponsesShelf
  <2> QED BY <2>1, WireFields DEF NoClose, Closed
<1>4. \A z, t : Opened(w, z, t) <=> w.tools[t] # None
  BY DEF Opened
<1>5. CASE e.type = "text_delta" /\ w.text # None
  <2>1. r = Wrote(w, <<Delta(w.text, e.data)>>)
    BY <1>5 DEF WriteResponses
  <2>2. /\ Delta(w.text, e.data) \in WireType
        /\ Delta(w.text, e.data).type = "delta"
    BY <1>1, <1>2, WireTypes, WireFields
  <2>3. r.w = w /\ r.ok /\ u = s \o <<Delta(w.text, e.data)>>
    BY <2>1 DEF Wrote
  <2>4. Named(s, w.text, sent[e.data]) /\ ~Closed(s, w.text)
    BY <1>3, <1>5 DEF Fits, Book, Shelf
  <2>5. Good(u, sent) /\ Count(u) = Count(s) + 1
    BY <1>1, <1>2, <1>5, <2>3, <2>4, GoodDelta DEF Fits, IsPiece
  <2>6. Book(w, u)
    BY <2>2, <2>3, BookQuiet
  <2> QED BY <1>4, <1>5, <2>3, <2>5, <2>6 DEF Served, IsPiece
<1>6. CASE e.type = "text_delta" /\ w.text = None
  <2> DEFINE n == w.seq + 1
             v == [w EXCEPT !.seq = n, !.text = n]
             a == s \o <<Open(n, Text)>>
  <2>1. r = Wrote(v, <<Open(n, Text), Delta(n, e.data)>>)
    BY <1>6 DEF WriteResponses
  <2>2. /\ v.seq = n /\ v.text = n /\ v.tools = w.tools /\ v.open = w.open
        /\ v.output = w.output /\ v.done = w.done
    BY DEF WriterType
  <2>3. /\ Open(n, Text) \in WireType /\ Open(n, Text).type = "open"
        /\ Open(n, Text).at = n
        /\ Delta(n, e.data) \in WireType /\ Delta(n, e.data).type = "delta"
    BY <1>1, <1>2, WireTypes, WireFields, SMTT(30)
  <2> HIDE DEF v, n
  <2>4. r.w = v /\ r.ok /\ a \in Seq(WireType) /\ u = a \o <<Delta(n, e.data)>>
    <3>1. /\ <<Open(n, Text)>> \in Seq(WireType)
          /\ <<Delta(n, e.data)>> \in Seq(WireType)
      BY <2>3
    <3>2. <<Open(n, Text), Delta(n, e.data)>> = <<Open(n, Text)>> \o <<Delta(n, e.data)>>
      OBVIOUS
    <3> QED BY <2>1, <2>3, <3>1, <3>2, ConcatAssociative, OneMore DEF Wrote
  <2>5. Good(a, sent) /\ Count(a) = Count(s)
    <3>1. Open(n, Text).at = Cardinality(OpensIn(s)) + First
      BY <1>1, <1>2, <2>3 DEF n
    <3> QED BY <2>3, <3>1, GoodOpen
  <2>6. Book(v, a)
    <3>1. Takes(w, v, Text)
      BY <1>1, <1>2, <2>2 DEF Takes, n
    <3>2. Book(v, s \o <<Open(w.seq + 1, Text)>>)
      BY <1>1, <1>6, <2>2, <3>1, ItemOpens
    <3> QED BY <3>2 DEF n
  <2>7. Named(a, n, sent[e.data]) /\ ~Closed(a, n)
    <3>1. Named(a, n, Text)
      BY <2>3, NamesMore
    <3>2. \A b : Open(n, Text) # Close(b)
      BY <2>3, WireFields
    <3> QED BY <1>3, <1>6, <2>3, <3>1, <3>2, NamesMore DEF Fits
  <2> HIDE DEF a, u, r
  <2>8. n \in Int
    BY <1>2 DEF n
  <2>9. Good(u, sent) /\ Count(u) = Count(s) + 1
    BY <1>1, <1>6, <2>4, <2>5, <2>7, <2>8, GoodDelta DEF Fits, IsPiece
  <2>10. Book(v, u)
    BY <2>3, <2>4, <2>6, BookQuiet
  <2>11. \A t \in Index : Opened(w, s, t) => Opened(v, u, t)
    BY <2>2 DEF Opened
  <2> QED BY <1>6, <2>2, <2>4, <2>9, <2>10, <2>11 DEF Served, IsPiece, u, r
<1>7. CASE e.type = "tool_call_start"
  <2> DEFINE n == w.seq + 1
             v == [w EXCEPT !.seq = n, !.tools[e.tool] = n,
                            !.output = Append(@, n)]
  <2>1. r = Wrote(v, <<Open(n, e.tool)>>)
    BY <1>7 DEF WriteResponses
  <2>2. /\ v.seq = n /\ v.text = w.text /\ v.done = w.done
        /\ v.tools = [w.tools EXCEPT ![e.tool] = n]
        /\ v.output = Append(w.output, n)
    BY DEF WriterType
  <2>3. /\ Open(n, e.tool) \in WireType /\ Open(n, e.tool).type = "open"
        /\ Open(n, e.tool).at = n
    BY <1>1, <1>2, WireTypes, WireFields
  <2> HIDE DEF v, n
  <2>4. r.w = v /\ r.ok /\ u = s \o <<Open(n, e.tool)>>
    BY <2>1 DEF Wrote
  <2>5. e.tool \in Index /\ e.tool # Text
    BY <1>1, <1>7, StreamsAssumption DEF ToolEvents
  <2>6. Good(u, sent) /\ Count(u) = Count(s)
    <3>1. Open(n, e.tool).at = Cardinality(OpensIn(s)) + First
      BY <1>1, <1>2, <2>3 DEF n
    <3> QED BY <2>3, <2>4, <3>1, GoodOpen
  <2>7. Book(v, u)
    <3>1. Takes(w, v, e.tool)
      BY <1>1, <1>2, <2>2, <2>5, SMTT(30) DEF Takes, n
    <3>2. Book(v, s \o <<Open(w.seq + 1, e.tool)>>)
      BY <1>1, <2>2, <2>5, <3>1, ItemOpens DEF n
    <3> QED BY <2>4, <3>2 DEF n
  <2>8. v.tools[e.tool] # None /\ \A t \in Index : t # e.tool => v.tools[t] = w.tools[t]
    BY <1>2, <2>2, <2>5 DEF n, None
  <2>9. /\ Opened(v, u, e.tool)
        /\ \A t \in Index : Opened(w, s, t) => Opened(v, u, t)
    BY <2>8 DEF Opened
  <2> HIDE DEF r, u
  <2>10. /\ r.ok /\ ~r.w.done /\ Book(r.w, u) /\ Good(u, sent)
         /\ Count(u) = Count(s) /\ ~IsPiece(e)
    BY <1>7, <2>2, <2>4, <2>6, <2>7 DEF IsPiece
  <2> QED BY <1>1, <1>7, <2>4, <2>8, <2>9, <2>10 DEF Served, u, r
<1>8. CASE e.type = "tool_call_delta"
  <2>1. w.tools[e.tool] # None /\ e.tool \in Index
    BY <1>1, <1>8 DEF Fits, Opened, ToolEvents
  <2> DEFINE n == w.tools[e.tool]
  <2>2. r = Wrote(w, <<Delta(n, e.data)>>)
    BY <1>8, <2>1 DEF WriteResponses
  <2>3. /\ n \in Int /\ Delta(n, e.data) \in WireType
        /\ Delta(n, e.data).type = "delta"
    BY <1>1, <1>2, <2>1, WireTypes, WireFields
  <2>4. r.w = w /\ r.ok /\ u = s \o <<Delta(n, e.data)>>
    BY <2>2 DEF Wrote
  <2>5. Named(s, n, sent[e.data]) /\ ~Closed(s, n)
    BY <1>3, <1>8, <2>1 DEF Fits, Book, Shelf
  <2>6. Good(u, sent) /\ Count(u) = Count(s) + 1
    BY <1>1, <1>8, <2>3, <2>4, <2>5, GoodDelta DEF Fits, IsPiece
  <2>7. Book(w, u)
    BY <2>3, <2>4, BookQuiet
  <2> QED BY <1>4, <1>8, <2>4, <2>6, <2>7 DEF Served, IsPiece
<1>9. CASE e.type = "tool_call_stop"
  <2>1. r = Wrote(w, <<>>)
    BY <1>9 DEF WriteResponses
  <2>2. r.w = w /\ r.ok /\ u = s
    BY <2>1, ConcatEmptySeq DEF Wrote
  <2> QED BY <1>1, <1>9, <2>2 DEF Served, IsPiece
<1> QED BY <1>1, <1>5, <1>6, <1>7, <1>8, <1>9 DEF Fits, ToolEvents

\* closeBlock: a block that is open is closed, another call does nothing.
LEMMA CloseBlockBook ==
    ASSUME to = "anthropic", NEW s \in Seq(WireType), NEW w \in WriterType,
           Book(w, s), NEW sent, Good(s, sent), NEW b \in Int
    PROVE  LET v == CloseBlock(w, b)
               u == s \o Closing(w, b)
           IN  /\ v \in WriterType /\ u \in Seq(WireType)
               /\ Book(v, u) /\ Good(u, sent) /\ Count(u) = Count(s)
               /\ v.seq = w.seq /\ v.tools = w.tools /\ v.done = w.done
               /\ v.text = IF w.text = b THEN None ELSE w.text
               /\ \A c : HasBlock(w, c) /\ c # b => HasBlock(v, c)
<1> DEFINE v == CloseBlock(w, b)
           u == s \o Closing(w, b)
           G == /\ v \in WriterType /\ u \in Seq(WireType)
                /\ Book(v, u) /\ Good(u, sent) /\ Count(u) = Count(s)
                /\ \A c : HasBlock(w, c) /\ c # b => HasBlock(v, c)
<1>1. v \in WriterType
  BY CloseBlockType
<1> HIDE DEF v, u
<1>2. /\ v.seq = w.seq /\ v.tools = w.tools /\ v.output = w.output
      /\ v.text = (IF w.text = b THEN None ELSE w.text) /\ v.done = w.done
      /\ v.open = Without(w, b)
  BY DEF CloseBlock, WriterType, v
<1>3. ASSUME Places(w, b) = {} PROVE G
  <2>1. u = s /\ v.open = w.open
    BY <1>2, <1>3, ConcatEmptySeq DEF Closing, Without, u
  <2>2. w.text = b => w.text = None
    BY <1>3 DEF Book, AnthropicShelf, HasBlock, Places
  <2>3. v.text = w.text
    BY <1>2, <2>2
  <2>4. Book(v, u)
    BY <1>2, <2>1, <2>3, BookSame
  <2> QED BY <1>1, <1>2, <2>1, <2>4 DEF HasBlock
<1>4. ASSUME Places(w, b) # {} PROVE G
  <2>1. u = s \o <<Close(b)>>
    BY <1>4 DEF Closing, u
  <2>2. Close(b) \in WireType /\ Close(b).type = "close"
    BY WireTypes, WireFields
  <2>3. HasBlock(w, b)
    BY <1>4 DEF Places, HasBlock
  <2>4. Book(v, u)
    BY <1>2, <2>1, <2>3, BlockCloses
  <2>5. u \in Seq(WireType) /\ Good(u, sent) /\ Count(u) = Count(s)
    BY <2>1, <2>2, OneMore, GoodQuiet
  <2>6. \A c : HasBlock(w, c) /\ c # b => HasBlock(v, c)
    <3>1. Distinct(w.open)
      BY DEF Book, AnthropicShelf, Distinct
    <3>2. \A c : HasBlock(w, c) /\ c # b => \E m \in DOMAIN v.open : v.open[m] = c
      BY <1>2, <3>1, WithoutBlocks
    <3> QED BY <3>2 DEF HasBlock
  <2> QED BY <1>1, <1>2, <2>4, <2>5, <2>6
<1>5. G
  BY <1>3, <1>4
<1> QED BY <1>2, <1>5 DEF v, u

\* A block that begins is numbered next.
LEMMA BlockGood ==
    ASSUME to = "anthropic", NEW s \in Seq(WireType), NEW w \in WriterType,
           Book(w, s), NEW sent, Good(s, sent), NEW of \in Int
    PROVE  /\ Open(w.seq, of) \in WireType
           /\ s \o <<Open(w.seq, of)>> \in Seq(WireType)
           /\ Good(s \o <<Open(w.seq, of)>>, sent)
           /\ Count(s \o <<Open(w.seq, of)>>) = Count(s)
           /\ Named(s \o <<Open(w.seq, of)>>, w.seq, of)
<1>1. w.seq \in Nat /\ Cardinality(OpensIn(s)) = w.seq /\ First = 0
  BY WriterFields DEF Book, Shelf, First
<1>2. /\ Open(w.seq, of) \in WireType /\ Open(w.seq, of).type = "open"
      /\ Open(w.seq, of).at = Cardinality(OpensIn(s)) + First
  BY <1>1, WireTypes, WireFields
<1> QED BY <1>2, OneMore, GoodOpen, NamesMore

\* A piece in a block that is open.
LEMMA BlockDeltas ==
    ASSUME to = "anthropic", NEW s \in Seq(WireType), NEW w \in WriterType,
           Book(w, s), NEW sent, Good(s, sent), NEW b \in Int, NEW n \in Nat,
           n = Count(s) + 1, n \in DOMAIN sent, Named(s, b, sent[n]), HasBlock(w, b)
    PROVE  /\ s \o <<Delta(b, n)>> \in Seq(WireType)
           /\ Book(w, s \o <<Delta(b, n)>>) /\ Good(s \o <<Delta(b, n)>>, sent)
           /\ Count(s \o <<Delta(b, n)>>) = Count(s) + 1
<1>1. Delta(b, n) \in WireType /\ Delta(b, n).type = "delta"
  BY WireTypes, WireFields
<1>2. ~Closed(s, b)
  BY DEF Book, AnthropicShelf, HasBlock
<1> QED BY <1>1, <1>2, OneMore, BookQuiet, GoodDelta

LEMMA TextServes ==
    ASSUME to = "anthropic", NEW s \in Seq(WireType), NEW w \in WriterType,
           ~w.done, Book(w, s), NEW sent, Good(s, sent), NEW e \in EventType,
           Fits(w, s, sent, e), e.type = "text_delta"
    PROVE  Served(AnthropicBlocks(w, e), w, s, sent, e)
<1> DEFINE q == EnsureTextBlock(w)
           a == s \o q.wires
           d == Delta(q.w.text, e.data)
           r == AnthropicBlocks(w, e)
           u == s \o r.wires
<1>1. /\ e.data \in Nat /\ e.data = Count(s) + 1 /\ e.data \in DOMAIN sent
      /\ sent[e.data] = Text /\ Text \in Int /\ IsPiece(e)
  BY EventFields, Indices DEF Fits, IsPiece
<1>2. /\ a \in Seq(WireType) /\ Book(q.w, a) /\ Good(a, sent)
      /\ Count(a) = Count(s) /\ q.w \in WriterType /\ ~q.w.done
      /\ q.w.tools = w.tools
      /\ q.w.text # None /\ \A c : HasBlock(w, c) => HasBlock(q.w, c)
  <2>1. CASE w.text # None
    <3>1. q.w = w /\ q.wires = <<>>
      BY <2>1 DEF EnsureTextBlock, Wrote
    <3> QED BY <2>1, <3>1, ConcatEmptySeq
  <2>2. CASE w.text = None
    <3>1. q = Wrote([w EXCEPT !.seq = @ + 1, !.text = w.seq,
                              !.open = Append(@, w.seq)], <<Open(w.seq, Text)>>)
      BY <2>2 DEF EnsureTextBlock
    <3>2. /\ q.w.seq = w.seq + 1 /\ q.w.text = w.seq /\ q.w.tools = w.tools
          /\ q.w.open = Append(w.open, w.seq) /\ q.w.done = w.done
      <4>1. PICK v : v = [w EXCEPT !.seq = @ + 1, !.text = w.seq,
                                   !.open = Append(@, w.seq)]
        OBVIOUS
      <4>2. /\ v.seq = w.seq + 1 /\ v.text = w.seq /\ v.tools = w.tools
            /\ v.open = Append(w.open, w.seq) /\ v.done = w.done
        BY <4>1 DEF WriterType
      <4>3. q.w = v
        BY <3>1, <4>1 DEF Wrote
      <4> QED BY <4>2, <4>3
    <3>3. a = s \o <<Open(w.seq, Text)>>
      BY <3>1 DEF Wrote
    <3>4. Takes(w, q.w, Text) /\ w.seq # None
      <4>1. First + w.seq = w.seq /\ w.seq # None
        BY WriterFields DEF First, None
      <4> QED BY <3>2, <4>1 DEF Takes
    <3>5. Book(q.w, a) /\ \A c : HasBlock(w, c) => HasBlock(q.w, c)
      BY <1>1, <3>2, <3>3, <3>4, BlockOpens
    <3>6. a \in Seq(WireType) /\ Good(a, sent) /\ Count(a) = Count(s)
      BY <1>1, <3>3, BlockGood
    <3>7. q.w \in WriterType
      BY EnsureTextBlockOK
    <3> QED BY <3>2, <3>4, <3>5, <3>6, <3>7
  <2> QED BY <2>1, <2>2
<1>3. r.w = q.w /\ r.ok /\ u = a \o <<d>>
  <2>1. r = Wrote(q.w, Append(q.wires, d))
    BY DEF AnthropicBlocks
  <2>2. q.wires \in Seq(WireType)
    BY EnsureTextBlockOK
  <2>3. d \in WireType /\ <<d>> \in Seq(WireType)
    BY <1>1, <1>2, WriterFields, WireTypes
  <2>4. Append(q.wires, d) = q.wires \o <<d>>
    BY <2>2, <2>3, AppendIsConcat
  <2> HIDE DEF d, q, r
  <2>5. PICK x \in Seq(WireType), y \in Seq(WireType) : x = q.wires /\ y = <<d>>
    BY <2>2, <2>3
  <2>6. s \o (x \o y) = (s \o x) \o y
    BY ConcatAssociative, SMTT(30)
  <2>7. r.w = q.w /\ r.ok /\ r.wires = x \o y
    BY <2>1, <2>4, <2>5 DEF Wrote
  <2> QED BY <2>5, <2>6, <2>7
<1> HIDE DEF a, q, r, u
<1>4. Book(q.w, u) /\ Good(u, sent) /\ Count(u) = Count(s) + 1
  <2>1. /\ Named(a, q.w.text, sent[e.data]) /\ HasBlock(q.w, q.w.text)
        /\ q.w.text \in Int
    BY <1>1, <1>2, WriterFields DEF Book, Shelf, AnthropicShelf
  <2> QED BY <1>1, <1>2, <1>3, <2>1, BlockDeltas
<1>5. \A t \in Index : Opened(w, s, t) => Opened(r.w, u, t)
  BY <1>2, <1>3 DEF Opened
<1> QED BY <1>1, <1>2, <1>3, <1>4, <1>5 DEF Served, r, u

LEMMA ToolServes ==
    ASSUME to = "anthropic", NEW s \in Seq(WireType), NEW w \in WriterType,
           ~w.done, Book(w, s), NEW sent, Good(s, sent), NEW e \in EventType,
           e.type = "tool_call_start"
    PROVE  Served(AnthropicBlocks(w, e), w, s, sent, e)
<1> DEFINE c == CloseBlock(w, w.text)
           a == s \o Closing(w, w.text)
           v == [c EXCEPT !.seq = @ + 1, !.tools[e.tool] = w.seq,
                          !.open = Append(@, w.seq)]
           d == Open(w.seq, e.tool)
           r == AnthropicBlocks(w, e)
           u == s \o r.wires
<1>1. e.tool \in Index /\ e.tool \in Int /\ ~IsPiece(e)
  BY EventFields, Indices DEF ToolEvents, IsPiece
<1>2. /\ w.seq \in Nat /\ w.text \in Int /\ w.tools \in [Index -> Int]
      /\ First + w.seq = w.seq /\ w.seq # None
  BY WriterFields DEF First, None
<1>3. /\ c \in WriterType /\ a \in Seq(WireType)
      /\ Book(c, a) /\ Good(a, sent) /\ Count(a) = Count(s)
      /\ c.seq = w.seq /\ c.tools = w.tools /\ c.done = w.done
      /\ \A b : HasBlock(w, b) /\ b # w.text => HasBlock(c, b)
  BY <1>2, CloseBlockBook
<1> HIDE DEF c
<1>4. /\ v.seq = w.seq + 1 /\ v.text = c.text /\ v.done = w.done
      /\ v.tools = [w.tools EXCEPT ![e.tool] = w.seq]
      /\ v.open = Append(c.open, w.seq)
  BY <1>3 DEF WriterType
<1>5. r.w = v /\ r.ok /\ u = a \o <<d>>
  <2>1. r = Wrote(v, Closing(w, w.text) \o <<d>>)
    BY DEF AnthropicBlocks, StartToolBlock, c
  <2>2. Closing(w, w.text) \in Seq(WireType)
    BY <1>2, CloseBlockType
  <2>3. d \in WireType /\ <<d>> \in Seq(WireType)
    BY <1>1, <1>2, WireTypes
  <2> HIDE DEF d
  <2>4. s \o (Closing(w, w.text) \o <<d>>) = (s \o Closing(w, w.text)) \o <<d>>
    BY <2>2, <2>3, ConcatAssociative
  <2> QED BY <2>1, <2>4 DEF Wrote
<1> HIDE DEF v, a, r, u
<1>6. Takes(c, v, e.tool)
  BY <1>1, <1>2, <1>3, <1>4 DEF Takes
<1>7. /\ Book(v, u) /\ HasBlock(v, w.seq)
      /\ \A b : HasBlock(c, b) => HasBlock(v, b)
  BY <1>1, <1>3, <1>4, <1>5, <1>6, BlockOpens
<1>8. Good(u, sent) /\ Count(u) = Count(s)
  BY <1>1, <1>3, <1>5, BlockGood
<1>9. v.tools[e.tool] = w.seq /\ \A t \in Index : t # e.tool => v.tools[t] = w.tools[t]
  BY <1>1, <1>2, <1>4
<1>10. Opened(v, u, e.tool)
  BY <1>2, <1>7, <1>9 DEF Opened
<1>11. ASSUME NEW t \in Index, Opened(w, s, t) PROVE Opened(v, u, t)
  <2>1. CASE t = e.tool
    BY <1>10, <2>1
  <2>2. CASE t # e.tool
    <3>1. /\ w.tools[t] # None /\ HasBlock(w, w.tools[t])
          /\ w.tools[t] # w.text
      BY <1>11 DEF Opened, Book, Shelf
    <3>2. HasBlock(v, w.tools[t])
      BY <1>3, <1>7, <3>1
    <3> QED BY <1>9, <2>2, <3>1, <3>2 DEF Opened
  <2> QED BY <2>1, <2>2
<1>12. Count(s) \in Nat
  BY WireTypes, CountMore
<1>13. r.ok /\ ~r.w.done
  BY <1>4, <1>5
<1> QED BY <1>1, <1>5, <1>7, <1>8, <1>9, <1>10, <1>11, <1>12, <1>13, SMTT(30) DEF Served, r, u

LEMMA BlocksServe ==
    ASSUME to = "anthropic", NEW s \in Seq(WireType), NEW w \in WriterType,
           ~w.done, Book(w, s), NEW sent, Good(s, sent), NEW e \in EventType,
           Fits(w, s, sent, e)
    PROVE  Served(AnthropicBlocks(w, e), w, s, sent, e)
<1> DEFINE r == AnthropicBlocks(w, e)
           u == s \o r.wires
<1>1. /\ e.type \in ToolEvents \cup {"text_delta", "done"}
      /\ e.data \in Nat /\ Count(s) \in Nat /\ w.tools \in [Index -> Int]
      /\ e.type \in ToolEvents => e.tool \in Index
  BY EventFields, WriterFields, WireTypes, CountMore
<1>2. CASE e.type = "tool_call_delta"
  <2> DEFINE b == w.tools[e.tool]
  <2>1. /\ e.tool \in Index /\ b # None /\ b \in Int /\ HasBlock(w, b)
        /\ e.data = Count(s) + 1 /\ e.data \in DOMAIN sent
        /\ sent[e.data] = e.tool /\ IsPiece(e)
    BY <1>1, <1>2 DEF Fits, Opened, ToolEvents, IsPiece
  <2>2. r = Wrote(w, <<Delta(b, e.data)>>)
    BY <1>2, <2>1 DEF AnthropicBlocks
  <2>3. r.w = w /\ r.ok /\ u = s \o <<Delta(b, e.data)>>
    BY <2>2 DEF Wrote
  <2>4. Named(s, b, sent[e.data])
    BY <2>1 DEF Book, Shelf
  <2> HIDE DEF b
  <2>5. Book(w, u) /\ Good(u, sent) /\ Count(u) = Count(s) + 1
    BY <1>1, <2>1, <2>3, <2>4, BlockDeltas
  <2> HIDE DEF r, u
  <2>6. \A t \in Index : Opened(w, s, t) => Opened(w, u, t)
    BY DEF Opened
  <2> QED BY <1>2, <2>1, <2>3, <2>5, <2>6 DEF Served, r, u
<1>3. CASE e.type = "tool_call_stop"
  <2> DEFINE b == w.tools[e.tool]
  <2>1. e.tool \in Index /\ b \in Int /\ ~IsPiece(e)
    BY <1>1, <1>3 DEF ToolEvents, IsPiece
  <2>2. r = Wrote(CloseBlock(w, b), Closing(w, b))
    BY <1>3 DEF AnthropicBlocks
  <2>3. r.w = CloseBlock(w, b) /\ r.ok /\ u = s \o Closing(w, b)
    BY <2>2 DEF Wrote
  <2> HIDE DEF b, r, u
  <2>4. /\ Book(r.w, u) /\ Good(u, sent) /\ Count(u) = Count(s)
        /\ r.w.tools = w.tools /\ ~r.w.done
        /\ \A c : HasBlock(w, c) /\ c # b => HasBlock(r.w, c)
    BY <2>1, <2>3, CloseBlockBook
  <2>5. ASSUME NEW t \in Index, Opened(w, s, t), t # e.tool
        PROVE  Opened(r.w, u, t)
    <3>1. w.tools[t] # None /\ HasBlock(w, w.tools[t]) /\ w.tools[t] # b
      BY <2>1, <2>5 DEF Opened, Book, Shelf, b
    <3> QED BY <2>4, <3>1 DEF Opened
  <2> QED BY <1>1, <1>3, <2>1, <2>3, <2>4, <2>5 DEF Served, r, u
<1> QED BY <1>1, <1>2, <1>3, TextServes, ToolServes DEF Fits, ToolEvents

\* ensureMessageStart
LEMMA StartBook ==
    ASSUME to = "anthropic", NEW s \in Seq(WireType), NEW w \in WriterType,
           Book(w, s), NEW sent, Good(s, sent), NEW u, u = s \o MessageStart(w)
    PROVE  /\ u \in Seq(WireType) /\ Book(Begun(w), u) /\ Good(u, sent)
           /\ Count(u) = Count(s) /\ OpensIn(u) = OpensIn(s)
           /\ Begun(w).tools = w.tools /\ Begun(w).open = w.open
<1>1. /\ Begun(w).seq = w.seq /\ Begun(w).text = w.text /\ Begun(w).tools = w.tools
      /\ Begun(w).open = w.open /\ Begun(w).output = w.output
  BY DEF Begun, WriterType
<1>2. CASE w.started
  <2>1. u = s
    BY <1>2, ConcatEmptySeq DEF MessageStart
  <2> QED BY <1>1, <2>1, BookSame
<1>3. CASE ~w.started
  <2>1. u = s \o <<Wire("start", None)>>
    BY <1>3 DEF MessageStart
  <2>2. Wire("start", None) \in WireType /\ Wire("start", None).type = "start"
    BY WireTypes, WireKinds
  <2>3. /\ u \in Seq(WireType) /\ Good(u, sent) /\ Count(u) = Count(s)
        /\ OpensIn(u) = OpensIn(s) /\ Book(w, u)
    BY <2>1, <2>2, OneMore, GoodQuiet, BookQuiet
  <2> QED BY <1>1, <2>3, BookSame
<1> QED BY <1>2, <1>3

LEMMA AnthropicServes ==
    ASSUME to = "anthropic", NEW s \in Seq(WireType), NEW w \in WriterType,
           ~w.done, Book(w, s), NEW sent, Good(s, sent), NEW e \in EventType,
           Fits(w, s, sent, e)
    PROVE  Served(WriteAnthropic(w, e), w, s, sent, e)
<1> DEFINE v == Begun(w)
           a == s \o MessageStart(w)
           p == AnthropicBlocks(v, e)
           r == WriteAnthropic(w, e)
<1>1. /\ v \in WriterType /\ ~v.done /\ MessageStart(w) \in Seq(WireType)
  BY BegunType
<1>2. /\ a \in Seq(WireType) /\ Book(v, a) /\ Good(a, sent)
      /\ Count(a) = Count(s) /\ v.tools = w.tools /\ v.open = w.open
  BY StartBook
<1>3. p.wires \in Seq(WireType) /\ p \in [w : WriterType, wires : Seq(WireType), ok : BOOLEAN]
  BY <1>1, AnthropicBlocksOK DEF WriteOK
<1> HIDE DEF v, p
<1>4. r.w = p.w /\ r.ok = p.ok /\ r.wires = MessageStart(w) \o p.wires
  BY <1>3 DEF WriteAnthropic, v, p
<1>5. s \o r.wires = a \o p.wires
  BY <1>1, <1>3, <1>4, ConcatAssociative
<1> HIDE DEF a, r
<1>6. \A t : Opened(w, s, t) <=> Opened(v, a, t)
  BY <1>2 DEF Opened, HasBlock
<1>7. Served(p, v, a, sent, e)
  <2>1. Fits(v, a, sent, e)
    BY <1>2, <1>6 DEF Fits
  <2> QED BY <1>1, <1>2, <2>1, BlocksServe DEF p
<1> QED BY <1>2, <1>4, <1>5, <1>6, <1>7 DEF Served, r

-----------------------------------------------------------------------------
(* The end of a stream.                                                    *)

\* Wires that neither begin a block nor carry a piece.
LEMMA QuietTail ==
    ASSUME NEW s \in Seq(WireType), NEW q \in Seq(WireType), NEW sent,
           Good(s, sent), \A k \in DOMAIN q : q[k].type \notin {"open", "delta"}
    PROVE  /\ s \o q \in Seq(WireType) /\ Good(s \o q, sent)
           /\ Count(s \o q) = Count(s) /\ OpensIn(s \o q) = OpensIn(s)
           /\ \A k \in OpensIn(s) : (s \o q)[k] = s[k]
<1> DEFINE u == s \o q
           n == Len(s)
           m == Len(q)
<1>1. /\ u \in Seq(WireType) /\ Len(u) = n + m /\ n \in Nat /\ m \in Nat
      /\ DOMAIN s = 1..n /\ DOMAIN q = 1..m /\ DOMAIN u = 1..n + m
      /\ \A k \in 1..n + m : u[k] = IF k <= n THEN s[k] ELSE q[k - n]
  BY ConcatProperties, LenProperties
<1> HIDE DEF u, n, m
<1>2. \A k \in 1..n : u[k] = s[k] /\ k \in 1..n + m
  BY <1>1
<1>3. \A k \in 1..n + m : k \in 1..n \/ u[k].type \notin {"open", "delta"}
  <2> SUFFICES ASSUME NEW k \in 1..n + m, k \notin 1..n
               PROVE  u[k].type \notin {"open", "delta"}
    OBVIOUS
  <2>1. k - n \in 1..m /\ u[k] = q[k - n]
    BY <1>1
  <2> QED BY <1>1, <2>1
<1>4. \A k \in 1..n : Deltas(u, k) = Deltas(s, k)
  <2> SUFFICES ASSUME NEW k \in 1..n PROVE Deltas(u, k) = Deltas(s, k)
    OBVIOUS
  <2>1. \A j \in 1..k : u[j] = s[j]
    BY <1>1, <1>2
  <2> QED BY <2>1 DEF Deltas
<1>5. Deltas(u, n + m) = Deltas(s, n)
  BY <1>1, <1>2, <1>3 DEF Deltas
<1>6. OpensIn(u) = OpensIn(s) /\ OpensIn(s) \subseteq 1..n
  BY <1>1, <1>2, <1>3 DEF OpensIn
<1>7. Numbered(u)
  <2> SUFFICES ASSUME NEW k \in 1..n + m, u[k].type = "delta"
               PROVE  u[k].data = Cardinality(Deltas(u, k))
    BY <1>1 DEF Numbered
  <2>1. k \in 1..n
    BY <1>3
  <2> QED BY <1>1, <1>2, <1>4, <2>1 DEF Good, Numbered
<1>8. AllPlaced(u, sent)
  <2> SUFFICES ASSUME NEW k \in 1..n + m, u[k].type = "delta"
               PROVE  u[k].data \in DOMAIN sent /\ Placed(u, k, sent)
    BY <1>1 DEF AllPlaced
  <2>1. k \in 1..n
    BY <1>3
  <2>2. u[k] = s[k]
    BY <1>2, <2>1
  <2>3. s[k].data \in DOMAIN sent /\ Placed(s, k, sent)
    BY <1>1, <2>1, <2>2 DEF Good, AllPlaced
  <2>4. \A j \in 1..k : u[j] = s[j] /\ \A h \in j..k : u[h] = s[h]
    BY <1>1, <1>2, <2>1
  <2> QED BY <2>2, <2>3, <2>4 DEF Placed
<1>9. Sequenced(s) => Sequenced(u)
  BY <1>2, <1>6 DEF Sequenced, Before
<1>10. Count(u) = Count(s)
  BY <1>1, <1>5 DEF Count, n
<1> QED BY <1>1, <1>2, <1>6, <1>7, <1>8, <1>9, <1>10 DEF Good, u

\* It ends with this reason and usage, and with everything closed or listed.
Ends(r, s, sent, reason, usage) ==
    LET u == s \o r.wires
        x == u[Len(u)]
    IN
    /\ r.ok /\ r.w.done
    /\ u \in Seq(WireType) /\ Good(u, sent) /\ Count(u) = Count(s)
    /\ Len(u) > 0 /\ x.type = "end" /\ x.usage = usage \cap Fields(to)
    /\ to = "openai" => x.reason = reason
    /\ to = "anthropic" => x.reason = AnthropicStopReason(reason)
    /\ to = "anthropic" => \A k \in OpensIn(u) : ClosedOnce(u, u[k].at)
    /\ to = "responses" => /\ Len(x.items) = Cardinality(OpensIn(u))
                           /\ \A k \in OpensIn(u) : Contains(x.items, u[k].at)

LEMMA ChatEnds ==
    ASSUME to = "openai", NEW s \in Seq(WireType), NEW w \in WriterType,
           NEW sent, Good(s, sent), NEW reason \in Reason, NEW usage \in SUBSET Counts
    PROVE  Ends(Wrote(Ended(w), <<End(reason, usage, <<>>)>>), s, sent, reason, usage)
<1> DEFINE x == End(reason, usage, <<>>)
           r == Wrote(Ended(w), <<x>>)
           u == s \o <<x>>
<1>1. /\ x \in WireType /\ x.type = "end" /\ x.reason = reason
      /\ x.usage = usage \cap Fields(to)
  <2>1. PICK i \in Seq(Int) : i = <<>>
    BY EmptySeq
  <2>2. /\ End(reason, usage, i) \in WireType /\ End(reason, usage, i).type = "end"
        /\ End(reason, usage, i).reason = reason /\ End(reason, usage, i).usage = usage
    BY WireTypes, WireFields
  <2>3. usage = usage \cap Fields(to)
    BY DEF Fields
  <2> QED BY <2>1, <2>2, <2>3
<1>2. r.ok /\ r.w.done /\ r.wires = <<x>>
  BY EndedType DEF Wrote
<1> HIDE DEF x, r
<1>3. /\ u \in Seq(WireType) /\ Len(u) = Len(s) + 1 /\ Len(s) \in Nat
      /\ u[Len(s) + 1] = x
  BY <1>1, OneMore
<1>4. Good(u, sent) /\ Count(u) = Count(s)
  BY <1>1, GoodQuiet
<1>5. Len(u) > 0 /\ u[Len(u)] = x
  BY <1>3
<1> HIDE DEF u
<1>6. s \o r.wires = u
  BY <1>2 DEF u
<1> QED BY <1>1, <1>2, <1>3, <1>4, <1>5, <1>6 DEF Ends, x, r

LEMMA ResponsesEnds ==
    ASSUME to = "responses", NEW s \in Seq(WireType), NEW w \in WriterType,
           Book(w, s), NEW sent, Good(s, sent), NEW usage \in SUBSET Counts, NEW reason
    PROVE  Ends(Finished(w, usage), s, sent, reason, usage)
<1> DEFINE r == Finished(w, usage)
<1>1. PICK first \in Seq(Int) : first = IF w.text = None THEN <<>> ELSE <<w.text>>
  <2>1. <<>> \in Seq(Int) /\ w.text \in Int
    BY EmptySeq, WriterFields
  <2>2. <<w.text>> \in Seq(Int)
    BY <2>1
  <2> QED BY <2>1, <2>2
<1>2. PICK o : o = first \o w.output
  OBVIOUS
<1>3. /\ w.output \in Seq(Int) /\ Len(w.output) \in Nat
      /\ DOMAIN w.output = 1..Len(w.output) /\ w.seq \in Nat
  BY WriterFields, LenProperties
<1>4. Len(first) = IF w.text = None THEN 0 ELSE 1
  BY <1>1
<1>5. /\ o \in Seq(Int) /\ Len(o) = Len(first) + Len(w.output)
      /\ \A i \in 1..Len(first) + Len(w.output) :
             o[i] = IF i <= Len(first) THEN first[i] ELSE w.output[i - Len(first)]
  BY <1>2, <1>3, ConcatProperties
<1> DEFINE x == End("none", usage, o)
           u == s \o <<x>>
<1>6. /\ x \in WireType /\ x.type = "end" /\ x.usage = usage \cap Fields(to)
      /\ x.items = o
  <2>1. "none" \in Reason
    BY DEF Reason
  <2>2. usage = usage \cap Fields(to)
    BY DEF Fields
  <2> QED BY <1>5, <2>1, <2>2, WireTypes, WireFields
<1>7. r = Wrote([w EXCEPT !.output = o, !.done = TRUE], <<x>>)
  BY <1>1, <1>2 DEF Finished
<1>8. r.ok /\ r.w.done /\ r.wires = <<x>>
  <2>1. PICK v : v = [w EXCEPT !.output = o, !.done = TRUE]
    OBVIOUS
  <2>2. v.done
    BY <2>1 DEF WriterType
  <2> HIDE DEF x, r
  <2>3. r = Wrote(v, <<x>>)
    BY <1>7, <2>1
  <2> QED BY <2>2, <2>3 DEF Wrote
<1> HIDE DEF x, r
<1>9. /\ u \in Seq(WireType) /\ Len(u) = Len(s) + 1 /\ Len(s) \in Nat
      /\ u[Len(s) + 1] = x /\ DOMAIN s = 1..Len(s)
      /\ \A k \in 1..Len(s) : u[k] = s[k]
  BY <1>6, OneMore
<1>10. Good(u, sent) /\ Count(u) = Count(s) /\ OpensIn(u) = OpensIn(s)
  BY <1>6, GoodQuiet
<1>11. Len(u) > 0 /\ u[Len(u)] = x
  BY <1>9
<1> HIDE DEF u
<1>12. s \o r.wires = u
  BY <1>8 DEF u
<1>13. ResponsesShelf(w, s) /\ Cardinality(OpensIn(s)) = w.seq
  BY DEF Book, Shelf
<1>14. Len(o) = w.seq
  <2>1. PICK d \in {0, 1} : d = IF w.text = None THEN 0 ELSE 1
    OBVIOUS
  <2>2. Len(w.output) + d = w.seq
    BY <1>13, <2>1 DEF ResponsesShelf
  <2>3. Len(o) = d + Len(w.output)
    BY <1>4, <1>5, <2>1
  <2> QED BY <1>3, <2>2, <2>3
<1>15. ASSUME NEW k \in OpensIn(u) PROVE Contains(o, u[k].at)
  <2>1. u[k] = s[k]
    BY <1>9, <1>10 DEF OpensIn
  <2>2. CASE w.text # None /\ s[k].at = w.text
    <3>1. 1 \in 1..Len(o) /\ o[1] = w.text
      BY <1>1, <1>3, <1>4, <1>5, <2>2
    <3> QED BY <2>1, <2>2, <3>1 DEF Contains
  <2>3. CASE \E m \in DOMAIN w.output : w.output[m] = s[k].at
    <3>1. PICK m \in 1..Len(w.output) : w.output[m] = s[k].at
      BY <1>3, <2>3
    <3>2. PICK d \in {0, 1} : d = Len(first)
      BY <1>4
    <3>3. /\ d + m \in 1..d + Len(w.output) /\ ~(d + m <= d)
          /\ d + m - d = m
      BY <1>3
    <3>4. d + m \in 1..Len(o) /\ o[d + m] = w.output[m]
      BY <1>5, <3>2, <3>3
    <3> QED BY <2>1, <3>1, <3>4 DEF Contains
  <2> QED BY <1>10, <1>13, <2>2, <2>3 DEF ResponsesShelf
<1> QED BY <1>6, <1>8, <1>9, <1>10, <1>11, <1>12, <1>13, <1>14, <1>15 DEF Ends, r

\* Every block that is open is closed, then the message ends.
LEMMA BlocksEnd ==
    ASSUME to = "anthropic", NEW s \in Seq(WireType), NEW w \in WriterType,
           Book(w, s), NEW sent, Good(s, sent), NEW usage \in SUBSET Counts, NEW reason
    PROVE  Ends(FinishMessage(w, reason, usage), s, sent, reason, usage)
<1> DEFINE r == FinishMessage(w, reason, usage)
           x == End(AnthropicStopReason(reason), usage \ {"total"}, <<>>)
           m == Len(w.open)
           c == [k \in 1..m |-> Close(w.open[k])]
           n == Len(s)
           y == c \o <<x>>
           u == s \o y
<1>1. /\ w.open \in Seq(Int) /\ m \in Nat /\ DOMAIN w.open = 1..m
      /\ n \in Nat /\ DOMAIN s = 1..n
  BY WriterFields, LenProperties
<1>2. /\ x \in WireType /\ x.type = "end" /\ x.usage = usage \cap Fields(to)
      /\ x.reason = AnthropicStopReason(reason)
  <2>1. PICK i \in Seq(Int), a \in Reason : i = <<>> /\ a = AnthropicStopReason(reason)
    BY EmptySeq, StopReasons
  <2>2. PICK written \in SUBSET Counts :
            written = usage \ {"total"} /\ written = usage \cap Fields(to)
    BY DEF Fields, Entries
  <2>3. /\ End(a, written, i) \in WireType /\ End(a, written, i).type = "end"
        /\ End(a, written, i).usage = written /\ End(a, written, i).reason = a
    BY WireTypes, WireFields
  <2> QED BY <2>1, <2>2, <2>3
<1>3. c \in Seq(WireType) /\ Len(c) = m /\ \A k \in 1..m : c[k] = Close(w.open[k])
  <2>1. \A k \in 1..m : Close(w.open[k]) \in WireType
    <3>1. \A k \in 1..m : w.open[k] \in Int
      BY <1>1
    <3> QED BY <3>1, WireTypes
  <2>2. c \in [1..m -> WireType]
    BY <2>1
  <2>3. c \in Seq(WireType) /\ DOMAIN c = 1..m
    BY <1>1, <2>2, SeqDef
  <2> QED BY <1>1, <2>3, LenProperties
<1>4. /\ r.ok /\ r.w.done /\ r.wires = c \o <<x>>
  <2>1. PICK v : v = [w EXCEPT !.open = <<>>, !.text = None, !.done = TRUE]
    OBVIOUS
  <2>2. v.done
    BY <2>1 DEF WriterType
  <2>3. r = Wrote(v, c \o <<x>>)
    BY <1>1, <2>1 DEF FinishMessage
  <2> HIDE DEF r, x, c
  <2> QED BY <2>2, <2>3 DEF Wrote
<1> HIDE DEF r, x, c, m, n
<1>5. /\ y \in Seq(WireType) /\ DOMAIN y = 1..m + 1
      /\ Len(y) = m + 1 /\ y[m + 1] = x
      /\ \A k \in 1..m : y[k] = Close(w.open[k])
  BY <1>2, <1>3, OneMore
<1> HIDE DEF y
<1>6. \A k \in 1..m + 1 : y[k].type \notin {"open", "delta"}
  <2>1. \A k \in 1..m + 1 : k \in 1..m \/ k = m + 1
    BY <1>1
  <2> QED BY <1>2, <1>5, <2>1, WireFields
<1>7. /\ u \in Seq(WireType) /\ Good(u, sent) /\ Count(u) = Count(s)
      /\ OpensIn(u) = OpensIn(s) /\ \A k \in OpensIn(s) : u[k] = s[k]
  BY <1>5, <1>6, QuietTail
<1>8. /\ Len(u) = n + m + 1 /\ DOMAIN u = 1..n + m + 1 /\ u[n + m + 1] = x
      /\ \A k \in 1..n : u[k] = s[k]
      /\ \A k \in 1..m : u[n + k] = Close(w.open[k])
  <2>1. /\ Len(u) = n + (m + 1)
        /\ \A k \in 1..n + (m + 1) :
               u[k] = IF k <= n THEN s[k] ELSE y[k - n]
    <3>1. /\ Len(u) = Len(s) + Len(y)
          /\ \A k \in 1..Len(s) + Len(y) :
                 u[k] = IF k <= Len(s) THEN s[k] ELSE y[k - Len(s)]
      BY <1>5, ConcatProperties
    <3> HIDE DEF u
    <3> QED BY <1>5, <3>1 DEF n
  <2> HIDE DEF u
  <2>2. DOMAIN u = 1..n + m + 1 /\ Len(u) = n + m + 1
    BY <1>1, <1>7, <2>1, LenProperties
  <2>3. u[n + m + 1] = x
    <3>1. PICK h \in 1..n + (m + 1) : h = n + m + 1 /\ ~(h <= n) /\ h - n = m + 1
      BY <1>1
    <3>2. u[h] = y[h - n]
      BY <2>1, <3>1
    <3> QED BY <1>5, <3>1, <3>2
  <2>4. \A k \in 1..n : u[k] = s[k]
    BY <1>1, <2>1
  <2>5. ASSUME NEW k \in 1..m PROVE u[n + k] = Close(w.open[k])
    <3>1. PICK h \in 1..n + (m + 1) : h = n + k /\ ~(h <= n) /\ h - n = k
      BY <1>1
    <3>2. u[h] = y[h - n]
      BY <2>1, <3>1
    <3> QED BY <1>5, <3>1, <3>2
  <2> QED BY <2>2, <2>3, <2>4, <2>5
<1> HIDE DEF u
<1>9. AnthropicShelf(w, s)
  BY DEF Book
<1>10. \A h \in 1..n + m + 1 : \/ h \in 1..n \/ h = n + m + 1
                               \/ \E k \in 1..m : h = n + k
  <2> SUFFICES ASSUME NEW h \in 1..n + m + 1, h \notin 1..n, h # n + m + 1
               PROVE  \E k \in 1..m : h = n + k
    OBVIOUS
  <2>1. h - n \in 1..m /\ h = n + (h - n)
    BY <1>1
  <2> QED BY <2>1
<1>11. ASSUME NEW i \in 1..m PROVE ClosedOnce(u, w.open[i])
  <2>1. n + i \in DOMAIN u /\ u[n + i] = Close(w.open[i])
    BY <1>1, <1>8
  <2>2. ASSUME NEW h \in DOMAIN u, u[h] = Close(w.open[i]) PROVE h = n + i
    <3>1. h \notin 1..n
      BY <1>1, <1>8, <1>9, <2>2 DEF AnthropicShelf, Closed
    <3>2. h # n + m + 1
      BY <1>2, <1>8, <2>2, WireFields
    <3>3. PICK k \in 1..m : h = n + k
      BY <1>8, <1>10, <3>1, <3>2
    <3>4. w.open[k] = w.open[i]
      <4>1. Close(w.open[k]) = Close(w.open[i])
        BY <1>8, <2>2, <3>3
      <4> QED BY <4>1, WireFields
    <3> QED BY <1>1, <1>9, <3>3, <3>4 DEF AnthropicShelf
  <2> QED BY <2>1, <2>2 DEF ClosedOnce
<1>12. ASSUME NEW b, ClosedOnce(s, b) PROVE ClosedOnce(u, b)
  <2>1. PICK j \in DOMAIN s : \A h \in DOMAIN s : s[h] = Close(b) <=> h = j
    BY <1>12 DEF ClosedOnce
  <2>2. j \in DOMAIN u /\ u[j] = Close(b)
    BY <1>1, <1>8, <2>1
  <2>3. ASSUME NEW h \in DOMAIN u, u[h] = Close(b) PROVE h = j
    <3>1. CASE h \in 1..n
      BY <1>1, <1>8, <2>1, <2>3, <3>1
    <3>2. CASE h = n + m + 1
      BY <1>2, <1>8, <2>3, <3>2, WireFields
    <3>3. CASE \E k \in 1..m : h = n + k
      <4>1. PICK k \in 1..m : h = n + k
        BY <3>3
      <4>2. w.open[k] = b
        <5>1. Close(w.open[k]) = Close(b)
          BY <1>8, <2>3, <4>1
        <5> QED BY <5>1, WireFields
      <4>3. Closed(s, b)
        BY <1>1, <2>1 DEF Closed
      <4> QED BY <1>1, <1>9, <4>2, <4>3 DEF AnthropicShelf
    <3> QED BY <1>8, <1>10, <3>1, <3>2, <3>3
  <2> QED BY <2>2, <2>3 DEF ClosedOnce
<1>13. ASSUME NEW k \in OpensIn(u) PROVE ClosedOnce(u, u[k].at)
  <2>1. k \in OpensIn(s) /\ u[k] = s[k]
    BY <1>7
  <2>2. HasBlock(w, s[k].at) \/ ClosedOnce(s, s[k].at)
    BY <1>9, <2>1 DEF AnthropicShelf
  <2>3. HasBlock(w, s[k].at) => ClosedOnce(u, s[k].at)
    BY <1>1, <1>11 DEF HasBlock
  <2> QED BY <1>12, <2>1, <2>2, <2>3
<1>14. Len(u) > 0 /\ u[Len(u)] = x
  BY <1>1, <1>8
<1>15. s \o r.wires = u
  BY <1>4 DEF u, y
<1> QED BY <1>2, <1>4, <1>7, <1>13, <1>14, <1>15 DEF Ends, r

LEMMA AnthropicEnds ==
    ASSUME to = "anthropic", NEW s \in Seq(WireType), NEW w \in WriterType,
           Book(w, s), NEW sent, Good(s, sent), ~w.done,
           NEW e \in EventType, e.type = "done"
    PROVE  Ends(WriteAnthropic(w, e), s, sent, e.reason, e.usage)
<1> DEFINE v == Begun(w)
           a == s \o MessageStart(w)
           p == AnthropicBlocks(v, e)
           r == WriteAnthropic(w, e)
<1>1. v \in WriterType /\ ~v.done /\ MessageStart(w) \in Seq(WireType)
  BY BegunType
<1>2. /\ a \in Seq(WireType) /\ Book(v, a) /\ Good(a, sent) /\ Count(a) = Count(s)
  BY StartBook
<1>3. p \in [w : WriterType, wires : Seq(WireType), ok : BOOLEAN]
  BY <1>1, AnthropicBlocksOK DEF WriteOK
<1>4. Ends(p, a, sent, e.reason, e.usage)
  <2>1. p = FinishMessage(v, e.reason, e.usage)
    BY DEF AnthropicBlocks
  <2> QED BY <1>1, <1>2, <2>1, EventFields, BlocksEnd
<1> HIDE DEF v, p
<1>5. r.w = p.w /\ r.ok = p.ok /\ r.wires = MessageStart(w) \o p.wires
  BY <1>3 DEF WriteAnthropic, v, p
<1>6. s \o r.wires = a \o p.wires
  BY <1>1, <1>3, <1>5, ConcatAssociative
<1> HIDE DEF a, r
<1> QED BY <1>2, <1>4, <1>5, <1>6 DEF Ends, r

LEMMA EventServed ==
    ASSUME to \in Entries, NEW s \in Seq(WireType), NEW w \in WriterType, ~w.done,
           Book(w, s), NEW sent, Good(s, sent), NEW e \in EventType,
           Fits(w, s, sent, e)
    PROVE  Served(WriteEvent(w, e), w, s, sent, e)
<1>1. CASE to = "openai"
  BY <1>1, ChatServes DEF WriteEvent
<1>2. CASE to = "anthropic"
  BY <1>2, AnthropicServes DEF WriteEvent
<1>3. CASE to = "responses"
  BY <1>3, ResponsesServes DEF WriteEvent
<1> QED BY <1>1, <1>2, <1>3 DEF Entries

LEMMA EventEnds ==
    ASSUME to \in Entries, NEW s \in Seq(WireType), NEW w \in WriterType, ~w.done,
           Book(w, s), NEW sent, Good(s, sent), NEW e \in EventType,
           e.type = "done"
    PROVE  Ends(WriteEvent(w, e), s, sent, e.reason, e.usage)
<1> USE EventFields
<1>1. CASE to = "openai"
  <2>1. WriteEvent(w, e) = Wrote(Ended(w), <<End(e.reason, e.usage, <<>>)>>)
    BY <1>1 DEF WriteEvent, WriteChat
  <2> QED BY <1>1, <2>1, ChatEnds
<1>2. CASE to = "anthropic"
  <2>1. WriteEvent(w, e) = WriteAnthropic(w, e)
    BY <1>2 DEF WriteEvent
  <2> QED BY <1>2, <2>1, AnthropicEnds
<1>3. CASE to = "responses"
  <2>1. WriteEvent(w, e) = Finished(w, e.usage)
    BY <1>3 DEF WriteEvent, WriteResponses
  <2> QED BY <1>3, <2>1, ResponsesEnds
<1> QED BY <1>1, <1>2, <1>3 DEF Entries

LEMMA FinishEnds ==
    ASSUME to \in Entries, NEW s \in Seq(WireType), NEW w \in WriterType, ~w.done,
           Book(w, s), NEW sent, Good(s, sent)
    PROVE  Ends(Finish(w), s, sent, "none", {})
<1>1. "none" \in Reason /\ {} \in SUBSET Counts
  BY DEF Reason
<1>2. CASE to = "openai"
  <2>1. Finish(w) = Wrote(Ended(w), <<End("none", {}, <<>>)>>)
    BY <1>2 DEF Finish
  <2> QED BY <1>1, <1>2, <2>1, ChatEnds
<1>3. CASE to = "anthropic"
  <2>1. Finish(w) = WriteAnthropic(w, Done("none", {}))
    BY <1>3 DEF Finish
  <2>2. /\ Done("none", {}) \in EventType /\ Done("none", {}).type = "done"
        /\ Done("none", {}).reason = "none" /\ Done("none", {}).usage = {}
    BY <1>1, DoneEvent
  <2>3. Ends(WriteAnthropic(w, Done("none", {})), s, sent, Done("none", {}).reason,
             Done("none", {}).usage)
    BY <1>3, <2>2, AnthropicEnds
  <2> QED BY <2>1, <2>2, <2>3
<1>4. CASE to = "responses"
  <2>1. Finish(w) = Finished(w, {})
    BY <1>4 DEF Finish
  <2> QED BY <1>1, <1>4, <2>1, ResponsesEnds
<1> QED BY <1>2, <1>3, <1>4 DEF Entries

LEMMA MeaningKept ==
    /\ \A r \in ReasonsOf("openai") : Meaning(AnthropicStopReason(r)) = Meaning(r)
    /\ \A r \in ReasonsOf("anthropic") :
           /\ Meaning(IRFinishReason(r)) = Meaning(r)
           /\ IRFinishReason(r) \in ReasonsOf("openai")
<1>1. ASSUME NEW r \in ReasonsOf("openai")
      PROVE  Meaning(AnthropicStopReason(r)) = Meaning(r)
  <2>1. CASE r = "tool_calls"
    BY <2>1 DEF AnthropicStopReason, Meaning
  <2>2. CASE r = "length"
    BY <2>2 DEF AnthropicStopReason, Meaning
  <2>3. CASE r \in {"none", "stop"}
    BY <2>3 DEF AnthropicStopReason, Meaning
  <2> QED BY <2>1, <2>2, <2>3 DEF ReasonsOf
<1>2. ASSUME NEW r \in ReasonsOf("anthropic")
      PROVE  /\ Meaning(IRFinishReason(r)) = Meaning(r)
             /\ IRFinishReason(r) \in ReasonsOf("openai")
  <2>1. CASE r = "tool_use"
    BY <2>1 DEF IRFinishReason, Meaning, ReasonsOf
  <2>2. CASE r = "max_tokens"
    BY <2>2 DEF IRFinishReason, Meaning, ReasonsOf
  <2>3. CASE r \in {"none", "end_turn"}
    BY <2>3 DEF IRFinishReason, Meaning, ReasonsOf
  <2> QED BY <2>1, <2>2, <2>3 DEF ReasonsOf
<1> QED BY <1>1, <1>2

-----------------------------------------------------------------------------
(* The steps of the handler.                                               *)

LEMMA Facts ==
    ASSUME CInv
    PROVE  /\ out \in Seq(WireType) /\ writer \in WriterType /\ to \in Entries
           /\ queue \in Seq(EventType) /\ DOMAIN queue = 1..Len(queue)
           /\ Len(queue) \in Nat /\ src.sent \in Seq(Index \cup {Text})
           /\ DOMAIN src.sent = 1..Len(src.sent) /\ Len(src.sent) \in Nat
           /\ phase = "emitting" <=> queue # <<>>
           /\ parser.tools \subseteq Index /\ Count(out) \in Nat
           /\ Good(out, src.sent) /\ from \in Upstreams
<1>1. /\ out \in Seq(WireType) /\ writer \in WriterType /\ to \in Entries
      /\ queue \in Seq(EventType) /\ from \in Upstreams
      /\ phase = "emitting" <=> queue # <<>>
  BY DEF CInv, IInv, Types
<1>2. /\ DOMAIN queue = 1..Len(queue) /\ Len(queue) \in Nat
  BY <1>1, LenProperties
<1>3. /\ src.sent \in Seq(Index \cup {Text}) /\ parser.tools \subseteq Index
  BY SourceFields DEF CInv
<1>4. DOMAIN src.sent = 1..Len(src.sent) /\ Len(src.sent) \in Nat
  BY <1>3, LenProperties
<1> QED BY <1>1, <1>2, <1>3, <1>4, WireTypes, CountMore DEF CInv, Content

\* The client has every piece when the queue holds none.
LEMMA AllThere ==
    ASSUME CInv, InOrder, \A k \in DOMAIN queue : ~IsPiece(queue[k])
    PROVE  Count(out) = Len(src.sent)
<1>1. Count(out) <= Len(src.sent)
  BY DEF InOrder
<1>2. \A n \in Count(out) + 1 .. Len(src.sent) : FALSE
  BY DEF InOrder
<1>3. ~(Count(out) < Len(src.sent))
  <2> SUFFICES ASSUME Count(out) < Len(src.sent) PROVE FALSE
    OBVIOUS
  <2>1. Count(out) + 1 \in Count(out) + 1 .. Len(src.sent)
    BY Facts
  <2> QED BY <1>2, <2>1
<1> QED BY <1>1, <1>3, Facts

\* What the client has when the stream has ended in this way.
LEMMA WholeAtEnd ==
    ASSUME CInv, NEW r, NEW reason, NEW usage,
           Ends(r, out, src.sent, reason, usage),
           Count(out) = Len(src.sent), out' = out \o r.wires, src' = src, to' = to,
           src.final => /\ usage = src.usage
                        /\ to = "openai" => Meaning(reason) = Meaning(src.reason)
                        /\ to = "anthropic" =>
                               Meaning(AnthropicStopReason(reason)) = Meaning(src.reason)
    PROVE  Good(out, src.sent)' /\ Whole'
<1>1. /\ Good(out', src.sent) /\ Count(out') = Len(src.sent) /\ Len(out') > 0
      /\ Last(out').usage = usage \cap Fields(to)
      /\ to = "openai" => Last(out').reason = reason
      /\ to = "anthropic" => Last(out').reason = AnthropicStopReason(reason)
      /\ to = "anthropic" => \A k \in OpensIn(out') : ClosedOnce(out', out'[k].at)
      /\ to = "responses" =>
             /\ Len(Last(out').items) = Cardinality(OpensIn(out'))
             /\ \A k \in OpensIn(out') : Contains(Last(out').items, out'[k].at)
  BY DEF Ends, Last
<1>2. Good(out, src.sent)'
  BY <1>1 DEF Good, Numbered, AllPlaced, Placed, Sequenced, OpensIn, Before, Deltas, First
<1>3. Whole'
  <2>1. src'.final => /\ Last(out').usage = src'.usage \cap Fields(to')
                      /\ to' # "responses" => Meaning(Last(out').reason) = Meaning(src'.reason)
    BY <1>1, Facts DEF Entries
  <2> QED BY <1>1, <2>1 DEF Whole, Count, Deltas, OpensIn, ClosedOnce
<1> QED BY <1>2, <1>3

\* The first event in the queue is one the writer can serve.
LEMMA HeadFits ==
    ASSUME CInv, Told, queue # <<>>
    PROVE  /\ queue[1] \in EventType /\ 1 \in DOMAIN queue
           /\ queue[1].type # "done" => Fits(writer, out, src.sent, queue[1])
<1>1. queue[1] \in EventType /\ 1 \in 1..Len(queue)
  BY Facts, HeadTailProperties, EmptySeq, LenProperties
<1>2. 1 \in DOMAIN queue
  BY <1>1, Facts
<1> DEFINE e == queue[1]
<1>3. QueueFits /\ ToolsKnown /\ InOrder
  BY DEF CInv, Content, Serving
<1>4. ASSUME IsPiece(e) PROVE e.data = Count(out) + 1 /\ e.data \in DOMAIN src.sent
  <2>1. e.data \in Count(out) + 1 .. Len(src.sent)
    BY <1>2, <1>3, <1>4 DEF InOrder
  <2>2. Count(out) + 1 \in Count(out) + 1 .. Len(src.sent)
    BY <2>1, Facts
  <2>3. PICK k \in DOMAIN queue : IsPiece(queue[k]) /\ queue[k].data = Count(out) + 1
    BY <1>3, <2>2 DEF InOrder
  <2>4. CASE k = 1
    BY <2>1, <2>3, <2>4, Facts
  <2>5. CASE k # 1
    <3>1. 1 < k
      BY <2>3, <2>5, Facts
    <3>2. e.data < queue[k].data
      BY <1>2, <1>3, <1>4, <2>3, <3>1 DEF InOrder
    <3> QED BY <2>1, <2>3, <3>2, Facts
  <2> QED BY <2>4, <2>5
<1>5. e.type = "text_delta" => src.sent[e.data] = Text
  BY <1>2, <1>3 DEF QueueFits
<1>6. ASSUME e.type = "tool_call_delta"
      PROVE  src.sent[e.data] = e.tool /\ Opened(writer, out, e.tool)
  <2>1. /\ src.sent[e.data] = e.tool /\ Live(e.tool)
        /\ \A l \in DOMAIN queue : Starts(queue, l, e.tool) => l < 1
    BY <1>2, <1>3, <1>6 DEF QueueFits
  <2>2. e.tool \in Index
    BY <2>1, Facts DEF Live
  <2>3. \A l \in DOMAIN queue : ~(l < 1)
    BY Facts
  <2> QED BY <1>3, <2>1, <2>2, <2>3 DEF ToolsKnown
<1> QED BY <1>1, <1>2, <1>4, <1>5, <1>6 DEF Fits

\* A book is about these values of the variables only.
LEMMA BookNext ==
    ASSUME to' = to, Book(writer', out')
    PROVE  Book(writer, out)'
<1>1. (First' = First) /\ (Used(writer)' = Used(writer'))
  BY DEF First, Used
<1>2. Shelf(writer', out') => Shelf(writer, out)'
  BY <1>1 DEF Shelf, OpensIn, Named
<1>3. AnthropicShelf(writer', out') => AnthropicShelf(writer, out)'
  BY <1>1 DEF AnthropicShelf, OpensIn, Closed, ClosedOnce, HasBlock
<1>4. ResponsesShelf(writer', out') => ResponsesShelf(writer, out)'
  BY DEF ResponsesShelf, NoClose, OpensIn
<1>5. NoClose(out') => NoClose(out)'
  BY DEF NoClose
<1> QED BY <1>2, <1>3, <1>4, <1>5 DEF Book

\* A piece, or the beginning or end of a tool call, is passed on.
LEMMA EmitServes ==
    ASSUME CInv, Told, queue # <<>>, queue[1].type # "done",
           NEW r, r = WriteEvent(writer, queue[1]),
           out' = out \o r.wires, writer' = r.w, queue' = Tail(queue),
           UNCHANGED <<from, to, src, parser, gone>>
    PROVE  (Good(out, src.sent) /\ Book(writer, out)
            /\ QueueFits /\ ToolsKnown /\ InOrder)' /\ ~writer'.done
<1> DEFINE e == queue[1]
           N == Len(queue)
<1>1. /\ e \in EventType /\ 1 \in DOMAIN queue
      /\ Fits(writer, out, src.sent, e)
  BY HeadFits
<1>2. /\ Book(writer, out) /\ QueueFits /\ ToolsKnown /\ InOrder /\ ~writer.done
  BY DEF CInv, Content, Serving, Told
<1>3. Served(r, writer, out, src.sent, e)
  BY <1>1, <1>2, Facts, EventServed
<1>4. /\ N \in Nat /\ DOMAIN queue = 1..N /\ DOMAIN queue' = 1..N - 1
      /\ \A k \in 1..N - 1 : queue'[k] = queue[k + 1] /\ k + 1 \in 1..N
  <2>1. /\ Tail(queue) \in Seq(EventType) /\ Len(Tail(queue)) = N - 1
        /\ \A k \in 1..Len(Tail(queue)) : Tail(queue)[k] = queue[k + 1]
    BY Facts, HeadTailProperties
  <2>2. DOMAIN Tail(queue) = 1..N - 1
    BY <2>1, LenProperties
  <2>3. N \in Nat /\ DOMAIN queue = 1..N
    BY Facts
  <2> QED BY <2>1, <2>2, <2>3
<1>5. /\ ~writer'.done /\ Book(writer', out') /\ Good(out', src.sent)
      /\ Count(out') = Count(out) + (IF IsPiece(e) THEN 1 ELSE 0)
      /\ \A t \in Index : Opened(writer, out, t) =>
             Opened(writer', out', t) \/ (e.type = "tool_call_stop" /\ t = e.tool)
      /\ e.type = "tool_call_start" => Opened(writer', out', e.tool)
      /\ \A t \in Index : \/ writer'.tools[t] = writer.tools[t]
                          \/ e.type = "tool_call_start" /\ t = e.tool
  BY <1>3 DEF Served
<1>6. \A t : Live(t)' <=> Live(t)
  BY DEF Live
<1>7. \A k \in 1..N - 1 : \A t : Starts(queue', k, t) <=> Starts(queue, k + 1, t)
  BY <1>4 DEF Starts
<1> HIDE DEF e, N
<1>8. QueueFits'
  <2> SUFFICES ASSUME NEW k \in 1..N - 1, NEW f, f = queue'[k]
      PROVE  /\ f.type = "text_delta" => src.sent[f.data] = Text
             /\ f.type = "tool_call_delta" =>
                    /\ src.sent[f.data] = f.tool /\ Live(f.tool)
                    /\ \A l \in 1..N - 1 : Starts(queue', l, f.tool) => l < k
             /\ f.type = "tool_call_start" =>
                    /\ Live(f.tool) /\ writer'.tools[f.tool] = None
                    /\ \A l \in 1..N - 1 : Starts(queue', l, f.tool) => l = k
             /\ f.type = "tool_call_stop" => ~Live(f.tool)
    BY <1>4, <1>6 DEF QueueFits
  <2>1. PICK j \in 1..N : j = k + 1 /\ f = queue[j] /\ j > 1
    BY <1>4
  <2>2. /\ f.type = "text_delta" => src.sent[f.data] = Text
        /\ f.type = "tool_call_delta" =>
               /\ src.sent[f.data] = f.tool /\ Live(f.tool)
               /\ \A l \in 1..N : Starts(queue, l, f.tool) => l < j
        /\ f.type = "tool_call_start" =>
               /\ Live(f.tool) /\ writer.tools[f.tool] = None
               /\ \A l \in 1..N : Starts(queue, l, f.tool) => l = j
        /\ f.type = "tool_call_stop" => ~Live(f.tool)
    BY <1>2, <1>4, <2>1 DEF QueueFits
  <2>3. ASSUME f.type = "tool_call_delta", NEW l \in 1..N - 1,
               Starts(queue', l, f.tool)
        PROVE  l < k
    <3>1. l + 1 \in 1..N /\ Starts(queue, l + 1, f.tool)
      BY <1>4, <1>7, <2>3
    <3>2. l + 1 < j
      BY <2>2, <2>3, <3>1
    <3> QED BY <1>4, <2>1, <3>2
  <2>4. ASSUME f.type = "tool_call_start"
        PROVE  /\ writer'.tools[f.tool] = None
               /\ \A l \in 1..N - 1 : Starts(queue', l, f.tool) => l = k
    <3>1. ASSUME NEW l \in 1..N - 1, Starts(queue', l, f.tool) PROVE l = k
      <4>1. l + 1 \in 1..N /\ Starts(queue, l + 1, f.tool)
        BY <1>4, <1>7, <3>1
      <4>2. l + 1 = j
        BY <2>2, <2>4, <4>1
      <4> QED BY <1>4, <2>1, <4>2
    <3>2. ~(e.type = "tool_call_start" /\ f.tool = e.tool)
      <4> SUFFICES ASSUME e.type = "tool_call_start", f.tool = e.tool PROVE FALSE
        OBVIOUS
      <4>1. Starts(queue, 1, f.tool)
        BY DEF Starts, e
      <4>2. 1 = j
        BY <1>1, <1>4, <2>2, <2>4, <4>1
      <4> QED BY <2>1, <4>2
    <3>3. f.tool \in Index
      BY <2>2, <2>4, Facts DEF Live
    <3> QED BY <1>5, <2>2, <2>4, <3>1, <3>2, <3>3
  <2> QED BY <2>2, <2>3, <2>4
<1>9. ToolsKnown'
  <2>1. parser'.tools \subseteq src'.used
    BY <1>2 DEF ToolsKnown
  <2>2. ASSUME NEW i \in Index \ parser'.tools PROVE writer'.tools[i] = None
    <3>1. writer.tools[i] = None
      BY <1>2, <2>2 DEF ToolsKnown
    <3>2. ~(e.type = "tool_call_start" /\ i = e.tool)
      BY <1>1, <1>2, <2>2 DEF QueueFits, Live, e
    <3> QED BY <1>5, <3>1, <3>2
  <2>3. ASSUME NEW t \in Index, Live(t)
        PROVE  Opened(writer', out', t) \/ \E k \in DOMAIN queue' : Starts(queue', k, t)
    <3>1. CASE Opened(writer, out, t)
      <4>1. ~(e.type = "tool_call_stop" /\ t = e.tool)
        BY <1>1, <1>2, <2>3 DEF QueueFits, e
      <4> QED BY <1>5, <3>1, <4>1
    <3>2. CASE \E k \in DOMAIN queue : Starts(queue, k, t)
      <4>1. PICK k \in 1..N : Starts(queue, k, t)
        BY <1>4, <3>2
      <4>2. CASE k = 1
        BY <1>5, <4>1, <4>2 DEF Starts, e
      <4>3. CASE k # 1
        <5>1. PICK l \in 1..N - 1 : k = l + 1
          <6>1. k - 1 \in 1..N - 1 /\ k = (k - 1) + 1
            BY <1>4, <4>3
          <6> QED BY <6>1
        <5> QED BY <1>4, <1>7, <4>1, <5>1
      <4> QED BY <4>2, <4>3
    <3> QED BY <1>2, <2>3, <3>1, <3>2 DEF ToolsKnown
  <2>4. \A t \in Index : Opened(writer', out', t) => Opened(writer, out, t)'
    BY DEF Opened, Named, HasBlock
  <2> QED BY <1>6, <2>1, <2>2, <2>3, <2>4 DEF ToolsKnown, Starts
<1>10. InOrder'
  <2>1. Count(out) \in Nat /\ Len(src.sent) \in Nat
    BY Facts
  <2>2. IsPiece(e) => /\ e.data = Count(out) + 1
                      /\ Count(out) + 1 <= Len(src.sent)
    BY <1>1, Facts DEF Fits
  <2>3. Count(out') <= Len(src.sent)
    BY <1>2, <1>5, <2>1, <2>2 DEF InOrder
  <2>4. ASSUME NEW k \in 1..N - 1, IsPiece(queue'[k])
        PROVE  queue'[k].data \in Count(out') + 1 .. Len(src.sent)
    <3>1. PICK j \in 1..N : j = k + 1 /\ queue'[k] = queue[j] /\ 1 < j
      BY <1>4
    <3>2. queue[j].data \in Count(out) + 1 .. Len(src.sent)
      BY <1>2, <1>4, <2>4, <3>1 DEF InOrder
    <3>3. IsPiece(e) => e.data < queue[j].data
      BY <1>1, <1>2, <1>4, <2>4, <3>1 DEF InOrder, e
    <3>4. CASE IsPiece(e)
      <4>1. Count(out') = Count(out) + 1
        BY <1>5, <3>4
      <4>2. Count(out) + 1 < queue[j].data
        BY <2>2, <3>3, <3>4
      <4>3. PICK c \in Nat, m \in Nat, x \in Int :
                /\ c = Count(out) /\ m = Len(src.sent) /\ x = queue[j].data
                /\ x \in c + 1 .. m
        BY <2>1, <3>2
      <4>4. x \in c + 1 + 1 .. m
        BY <4>2, <4>3
      <4> QED BY <3>1, <4>1, <4>3, <4>4
    <3>5. CASE ~IsPiece(e)
      <4>1. Count(out') = Count(out)
        BY <1>5, <2>1, <3>5
      <4> QED BY <3>1, <3>2, <4>1
    <3> QED BY <3>4, <3>5
  <2>5. ASSUME NEW k \in 1..N - 1, NEW l \in 1..N - 1, IsPiece(queue'[k]),
               IsPiece(queue'[l]), k < l
        PROVE  queue'[k].data < queue'[l].data
    <3>1. PICK i \in 1..N, j \in 1..N : /\ i = k + 1 /\ queue'[k] = queue[i]
                                        /\ j = l + 1 /\ queue'[l] = queue[j]
      BY <1>4
    <3>2. i < j
      BY <1>4, <2>5, <3>1
    <3>3. IsPiece(queue[i]) /\ IsPiece(queue[j])
      BY <2>5, <3>1
    <3>4. queue[i].data < queue[j].data
      BY <1>2, <1>4, <3>2, <3>3 DEF InOrder
    <3> QED BY <3>1, <3>4
  <2>6. ASSUME NEW n \in Count(out') + 1 .. Len(src.sent)
        PROVE  \E k \in 1..N - 1 : IsPiece(queue'[k]) /\ queue'[k].data = n
    <3>1. /\ n \in Count(out) + 1 .. Len(src.sent)
          /\ IsPiece(e) => n # Count(out) + 1
      BY <1>5, <2>1, <2>6
    <3>2. PICK k \in 1..N : IsPiece(queue[k]) /\ queue[k].data = n
      BY <1>2, <1>4, <3>1 DEF InOrder
    <3>3. k # 1
      BY <2>2, <3>1, <3>2 DEF e
    <3>4. PICK l \in 1..N - 1 : k = l + 1
      <4>1. k - 1 \in 1..N - 1 /\ k = (k - 1) + 1
        BY <1>4, <3>3
      <4> QED BY <4>1
    <3> QED BY <1>4, <3>2, <3>4
  <2> QED BY <1>4, <2>3, <2>4, <2>5, <2>6 DEF InOrder, Count, Deltas
<1>11. (Good(out, src.sent) /\ Book(writer, out))'
  <2>1. Good(out, src.sent)'
    BY <1>5 DEF Good, Numbered, AllPlaced, Placed, Sequenced, OpensIn, Before, Deltas, First
  <2>2. Book(writer, out)'
    BY <1>5, BookNext
  <2> QED BY <2>1, <2>2
<1> QED BY <1>5, <1>8, <1>9, <1>10, <1>11

\* Nothing more was sent, and no client is being served.
LEMMA Quiet ==
    ASSUME CInv, out' = out, src' = src, parser' = parser, from' = from, to' = to,
           gone' \/ phase' \notin {"reading", "emitting"},
           queue' = queue \/ queue' = <<>>,
           http' # "none" \/ (http' = http /\ writer' = writer)
    PROVE  Content'
<1>1. Good(out, src.sent) /\ Ending /\ Untouched /\ Whole
  BY DEF CInv, Content
<1>2. Good(out, src.sent)'
  BY <1>1 DEF Good, Numbered, AllPlaced, Placed, Sequenced, OpensIn, Before, Deltas, First
<1>3. ~Told'
  BY DEF Told
<1>4. Ending'
  BY <1>1, <1>3 DEF Ending, Reports, Told
<1>5. Whole'
  BY <1>1 DEF Whole, Completed, Count, Deltas, OpensIn, ClosedOnce
<1> QED BY <1>1, <1>2, <1>3, <1>4, <1>5 DEF Content, Serving, Untouched

LEMMA EmitContent == CInv /\ Emit => Content'
<1> SUFFICES ASSUME CInv, Emit PROVE Content'
  OBVIOUS
<1>1. PICK r : r = WriteEvent(writer, queue[1])
  OBVIOUS
<1>2. /\ phase = "emitting" /\ http' = "200" /\ Send(r)
      /\ queue' = IF r.ok THEN Tail(queue) ELSE <<>>
      /\ UNCHANGED <<from, to, src, parser, gone, attempts>>
  <2>1. Head(queue) = queue[1]
    BY Facts, HeadTailProperties DEF Emit
  <2> QED BY <1>1, <2>1 DEF Emit
<1>3. /\ queue # <<>> /\ writer' = r.w /\ out' = IF gone THEN out ELSE out \o r.wires
      /\ queue[1] \in EventType /\ Len(queue) \in Nat /\ DOMAIN queue = 1..Len(queue)
  BY <1>2, Facts, HeadTailProperties, EmptySeq, LenProperties DEF Send
<1>4. IInv'
  BY EmitStep DEF CInv
<1>5. /\ Tail(queue) \in Seq(EventType) /\ Len(Tail(queue)) = Len(queue) - 1
      /\ \A k \in 1..Len(queue) - 1 :
             Tail(queue)[k] = queue[k + 1] /\ k + 1 \in 1..Len(queue) /\ k + 1 # 1
      /\ DOMAIN Tail(queue) = 1..Len(queue) - 1
  BY <1>3, Facts, HeadTailProperties, LenProperties
<1>6. Ending /\ (\A k \in DOMAIN queue : queue[k].type = "done" => k = Len(queue) /\ k = 1)
  BY DEF CInv, Content, Ending
<1>7. \A k \in DOMAIN queue' : queue'[k].type # "done"
  <2>1. \A k \in 1..Len(queue) - 1 : Tail(queue)[k].type # "done"
    BY <1>3, <1>5, <1>6
  <2> QED BY <1>2, <1>5, <2>1
<1>8. CASE gone
  <2>1. out' = out
    BY <1>3, <1>8
  <2>2. Good(out, src.sent)' /\ Whole'
    BY <1>2, <2>1 DEF CInv, Content, Whole, Completed, Count, Good, Numbered,
       AllPlaced, Placed, Sequenced, OpensIn, Before, Deltas, First, ClosedOnce
  <2>3. Ending'
    BY <1>2, <1>6, <1>7, <1>8 DEF Ending, Told
  <2>4. ~Told'
    BY <1>2, <1>8 DEF Told
  <2> QED BY <1>2, <2>2, <2>3, <2>4 DEF Content, Serving, Untouched
<1>9. CASE ~gone
  <2>1. ~writer.done
    BY <1>2, <1>3, <1>6, <1>9 DEF Ending
  <2>2. Told /\ Book(writer, out)
    BY <1>2, <1>9, <2>1 DEF Told, CInv, Content, Serving
  <2>3. out' = out \o r.wires
    BY <1>3, <1>9
  <2>4. CASE queue[1].type # "done"
    <3>1. r.ok
      <4>1. Served(r, writer, out, src.sent, queue[1])
        BY <1>1, <1>3, <2>1, <2>2, <2>4, HeadFits, Facts, EventServed
      <4> QED BY <4>1 DEF Served
    <3>2. queue' = Tail(queue)
      BY <1>2, <3>1
    <3>3. /\ (Good(out, src.sent) /\ Book(writer, out)
              /\ QueueFits /\ ToolsKnown /\ InOrder)'
          /\ ~writer'.done
      BY <1>1, <1>2, <1>3, <2>2, <2>3, <2>4, <3>2, EmitServes
    <3>4. Whole'
      <4>1. Clean(out')
        BY <1>4, <3>3 DEF IInv, OutInv
      <4>2. ~Completed'
        <5>1. out' \in Seq(WireType)
          BY <1>4 DEF IInv, Types
        <5>2. out' # <<>> => Len(out') \in DOMAIN out'
          BY <5>1, EmptySeq, LenProperties
        <5> QED BY <4>1, <5>2 DEF Clean, Completed, Last
      <4> QED BY <4>2 DEF Whole
    <3>5. Ending'
      <4>1. src.final => queue[1].type = "done"
        BY <1>6, <2>2 DEF Ending
      <4> QED BY <1>2, <1>6, <1>7, <2>4, <3>3, <4>1 DEF Ending
    <3> QED BY <1>2, <3>3, <3>4, <3>5 DEF Content, Serving, Untouched
  <2>5. CASE queue[1].type = "done"
    <3>1. /\ Len(queue) = 1 /\ Reports(queue[1])
      BY <1>3, <1>6, <2>5, HeadFits, <2>2 DEF Ending
    <3>2. Ends(r, out, src.sent, queue[1].reason, queue[1].usage)
      BY <1>1, <1>3, <2>1, <2>2, <2>5, Facts, EventEnds
    <3>3. Count(out) = Len(src.sent)
      <4>1. InOrder
        BY <2>2 DEF CInv, Content, Serving
      <4>2. \A k \in DOMAIN queue : ~IsPiece(queue[k])
        BY <1>3, <2>5, <3>1 DEF IsPiece
      <4> QED BY <4>1, <4>2, AllThere
    <3>4. Good(out, src.sent)' /\ Whole'
      <4>1. /\ queue[1].usage = src.usage
            /\ Meaning(queue[1].reason) = Meaning(src.reason)
            /\ Meaning(AnthropicStopReason(queue[1].reason)) = Meaning(src.reason)
        BY <3>1, MeaningKept DEF Reports
      <4> QED BY <1>2, <2>3, <3>2, <3>3, <4>1, WholeAtEnd
    <3>5. writer'.done /\ queue' = <<>>
      <4>1. r.ok /\ r.w.done
        BY <3>2 DEF Ends
      <4>2. Tail(queue) = <<>>
        BY <1>5, <3>1, EmptySeq
      <4> QED BY <1>2, <1>3, <4>1, <4>2
    <3>6. src.final
      BY <1>3, <2>2, <2>5, HeadFits DEF CInv, IInv, FinalInv
    <3>7. Ending'
      BY <1>2, <1>6, <3>5, <3>6 DEF Ending, Told
    <3> QED BY <1>2, <3>4, <3>5, <3>7 DEF Content, Serving, Told, Untouched
  <2> QED BY <2>4, <2>5
<1> QED
  <2>1. gone \in BOOLEAN
    BY DEF CInv, IInv, Types
  <2> QED BY <1>8, <1>9, <2>1

LEMMA EndOfStreamContent == CInv /\ EndOfStream => Content'
<1> SUFFICES ASSUME CInv, EndOfStream PROVE Content'
  OBVIOUS
<1>1. PICK r : r = Finish(writer)
  OBVIOUS
<1>2. /\ phase = "reading" /\ Send(r) /\ http' = "200" /\ phase' = "returned"
      /\ UNCHANGED <<from, to, src, parser, queue, broken, gone, attempts>>
  BY <1>1 DEF EndOfStream
<1>3. out' = IF gone THEN out ELSE out \o r.wires
  BY <1>2 DEF Send
<1>4. queue = <<>>
  BY <1>2, Facts
<1>5. CASE gone \/ writer.done
  <2>1. writer.done => r.wires = <<>>
    BY <1>1 DEF Finish, Wrote
  <2>2. out' = out
    BY <1>3, <1>5, <2>1, Facts, ConcatEmptySeq
  <2> QED BY <1>2, <2>2, Quiet
<1>6. CASE ~gone /\ ~writer.done
  <2>1. Told /\ Book(writer, out) /\ InOrder
    BY <1>2, <1>6 DEF Told, CInv, Content, Serving
  <2>2. Ends(r, out, src.sent, "none", {})
    BY <1>1, <1>6, <2>1, Facts, FinishEnds
  <2>3. Count(out) = Len(src.sent)
    BY <1>4, <2>1, AllThere
  <2>4. ~src.final
    BY <1>4, <2>1 DEF CInv, Content, Ending
  <2>5. Good(out, src.sent)' /\ Whole'
    BY <1>2, <1>3, <1>6, <2>2, <2>3, <2>4, WholeAtEnd
  <2>6. Ending'
    BY <1>2, <1>4 DEF CInv, Content, Ending, Told
  <2> QED BY <1>2, <2>5, <2>6 DEF Content, Serving, Told, Untouched
<1> QED
  <2>1. gone \in BOOLEAN /\ writer.done \in BOOLEAN
    BY WriterFields DEF CInv, IInv, Types
  <2> QED BY <1>5, <1>6, <2>1

LEMMA ReportErrorContent == CInv /\ ReportError => Content'
<1> SUFFICES ASSUME CInv, ReportError PROVE Content'
  OBVIOUS
<1>1. PICK r : r = WriteError(writer)
  OBVIOUS
<1>2. /\ phase = "failed" /\ Send(r) /\ phase' = "returned"
      /\ UNCHANGED <<from, to, src, parser, queue, http, broken, gone, attempts>>
  BY <1>1 DEF ReportError
<1>3. out' = IF gone THEN out ELSE out \o r.wires
  BY <1>2 DEF Send
<1>4. http' # "none"
  BY <1>2 DEF CInv, IInv, PhaseInv
<1>5. CASE gone \/ writer.done
  <2>1. writer.done => r.wires = <<>>
    BY <1>1 DEF WriteError, Wrote
  <2>2. out' = out
    BY <1>3, <1>5, <2>1, Facts, ConcatEmptySeq
  <2> QED BY <1>2, <1>4, <2>2, Quiet
<1>6. CASE ~gone /\ ~writer.done
  <2> DEFINE x == Wire("error", None)
  <2>1. x \in WireType /\ x.type = "error"
    BY WireTypes, WireKinds
  <2>2. r.wires = <<x>>
    BY <1>1, <1>6 DEF WriteError, Wrote
  <2> HIDE DEF x
  <2>3. out' = out \o <<x>>
    BY <1>3, <1>6, <2>2
  <2>4. Good(out', src.sent)
    BY <2>1, <2>3, Facts, GoodQuiet
  <2>5. Good(out, src.sent)'
    BY <1>2, <2>4 DEF Good, Numbered, AllPlaced, Placed, Sequenced, OpensIn, Before,
       Deltas, First
  <2>6. Whole'
    <3>1. Last(out') = x
      BY <2>1, <2>3, Facts, OneMore DEF Last
    <3> QED BY <2>1, <3>1 DEF Whole, Completed
  <2>7. Ending' /\ ~Told'
    BY <1>2 DEF CInv, Content, Ending, Told, Reports
  <2> QED BY <1>4, <2>5, <2>6, <2>7 DEF Content, Serving, Untouched
<1> QED
  <2>1. gone \in BOOLEAN /\ writer.done \in BOOLEAN
    BY WriterFields DEF CInv, IInv, Types
  <2> QED BY <1>5, <1>6, <2>1

LEMMA OtherContent ==
    CInv /\ (EmitFails \/ RouteError \/ BreakOff \/ ClientGone \/ UNCHANGED vars)
      => Content'
<1>1. CInv /\ EmitFails => Content'
  BY Quiet DEF EmitFails
<1>2. CInv /\ RouteError => Content'
  BY Quiet DEF RouteError
<1>3. CInv /\ BreakOff => Content'
  BY Quiet DEF BreakOff
<1>4. CInv /\ ClientGone => Content'
  BY Quiet DEF ClientGone
<1>5. ASSUME CInv, UNCHANGED vars PROVE Content'
  <2>1. /\ out' = out /\ src' = src /\ parser' = parser /\ from' = from /\ to' = to
        /\ gone' = gone /\ phase' = phase /\ queue' = queue /\ http' = http
        /\ writer' = writer
    BY <1>5 DEF vars
  <2>2. Good(out, src.sent)' /\ Whole'
    BY <1>5, <2>1 DEF CInv, Content, Whole, Completed, Count, Good, Numbered,
       AllPlaced, Placed, Sequenced, OpensIn, Before, Deltas, First, ClosedOnce
  <2>3. Ending' /\ Untouched'
    BY <1>5, <2>1 DEF CInv, Content, Ending, Told, Reports, Untouched
  <2>4. ASSUME Told' PROVE (Book(writer, out) /\ QueueFits /\ ToolsKnown /\ InOrder)'
    <3>1. Book(writer, out) /\ QueueFits /\ ToolsKnown /\ InOrder
      BY <1>5, <2>1, <2>4 DEF CInv, Content, Serving, Told
    <3>2. Book(writer, out)'
      BY <2>1, <3>1, BookNext
    <3>3. \A t : Live(t)' = Live(t) /\ Opened(writer, out, t)' = Opened(writer, out, t)
      BY <2>1 DEF Live, Opened, Named, HasBlock
    <3>4. QueueFits' /\ ToolsKnown'
      BY <2>1, <3>1, <3>3 DEF QueueFits, ToolsKnown, Starts
    <3>5. InOrder'
      BY <2>1, <3>1 DEF InOrder, Count, Deltas
    <3> QED BY <3>2, <3>4, <3>5
  <2> QED BY <2>2, <2>3, <2>4 DEF Content, Serving
<1> QED BY <1>1, <1>2, <1>3, <1>4, <1>5

-----------------------------------------------------------------------------
(* The beginning of an attempt.                                            *)

Beginning ==
    /\ out = <<>> /\ writer = NewWriter /\ queue = <<>>
    /\ src = Fresh /\ parser = NewParser

LEMMA BeginningContent == Beginning => Content
<1> SUFFICES ASSUME Beginning PROVE Content
  OBVIOUS
<1>1. /\ src.sent = <<>> /\ src.used = {} /\ src.reason = "none" /\ src.usage = {}
      /\ ~src.final /\ parser.tools = {} /\ parser.reason = "none" /\ parser.usage = {}
  BY DEF Beginning, Fresh, NewParser
<1>2. /\ writer.seq = 0 /\ writer.text = None /\ writer.open = <<>>
      /\ writer.output = <<>> /\ \A i \in Index : writer.tools[i] = None
      /\ ~writer.done
  BY DEF Beginning, NewWriter
<1>3. /\ out = <<>> /\ queue = <<>> /\ DOMAIN out = {} /\ DOMAIN queue = {}
      /\ DOMAIN writer.open = {}
  BY <1>2 DEF Beginning
<1>4. OpensIn(out) = {} /\ Cardinality(OpensIn(out)) = 0
  BY <1>3, FS_EmptySet DEF OpensIn
<1>5. Count(out) = 0
  <2>1. Len(out) = 0
    BY <1>3
  <2>2. Deltas(out, Len(out)) = {}
    BY <2>1 DEF Deltas
  <2> QED BY <2>2, FS_EmptySet DEF Count
<1>6. Good(out, src.sent)
  BY <1>3, <1>4 DEF Good, Numbered, AllPlaced, Sequenced
<1>7. Book(writer, out)
  <2>1. Shelf(writer, out)
    BY <1>2, <1>4 DEF Shelf
  <2>2. AnthropicShelf(writer, out)
    BY <1>2, <1>3, <1>4 DEF AnthropicShelf
  <2>3. NoClose(out)
    BY <1>3 DEF NoClose
  <2>4. ResponsesShelf(writer, out)
    <3>1. Len(writer.output) = 0
      BY <1>2
    <3> QED BY <1>2, <1>4, <2>3, <3>1 DEF ResponsesShelf
  <2> QED BY <2>1, <2>2, <2>3, <2>4 DEF Book
<1>8. QueueFits /\ ToolsKnown
  BY <1>1, <1>2, <1>3 DEF QueueFits, ToolsKnown, Live
<1>9. InOrder
  <2>1. Len(src.sent) = 0
    BY <1>1
  <2> QED BY <1>3, <1>5, <2>1 DEF InOrder
<1>10. Ending
  <2>1. Says(src, from)
    BY <1>1 DEF Says, ReasonsOf, UsagesOf, Counts
  <2> QED BY <1>1, <1>2, <1>3, <2>1 DEF Ending
<1>11. Whole
  BY <1>3 DEF Whole, Completed
<1>12. Untouched
  BY DEF Untouched, Beginning
<1> QED BY <1>6, <1>7, <1>8, <1>9, <1>10, <1>11, <1>12 DEF Content, Serving

LEMMA RetryContent == CInv /\ Retry => Content'
<1>1. CInv /\ Retry => Beginning'
  BY NothingSent DEF Retry, Beginning, CInv, Content, Untouched
<1>2. Beginning' => Content'
  BY BeginningContent, PTL
<1> QED BY <1>1, <1>2

-----------------------------------------------------------------------------
(* The steps of the upstream and its parser.                               *)

\* More of the upstream's pieces; what was placed stays placed.
LEMMA GoodGrows ==
    ASSUME NEW s \in Seq(WireType), NEW sent \in Seq(Index \cup {Text}),
           NEW more \in Seq(Index \cup {Text}), Good(s, sent)
    PROVE  Good(s, sent \o more)
<1>1. /\ \A n \in DOMAIN sent : /\ n \in DOMAIN (sent \o more)
                                /\ (sent \o more)[n] = sent[n]
  <2>1. /\ Len(sent \o more) = Len(sent) + Len(more)
        /\ \A n \in 1..Len(sent) + Len(more) :
               (sent \o more)[n] = IF n <= Len(sent) THEN sent[n] ELSE more[n - Len(sent)]
        /\ sent \o more \in Seq(Index \cup {Text})
    BY ConcatProperties
  <2>2. /\ DOMAIN sent = 1..Len(sent) /\ Len(sent) \in Nat /\ Len(more) \in Nat
        /\ DOMAIN (sent \o more) = 1..Len(sent \o more)
    BY <2>1, LenProperties
  <2> QED BY <2>1, <2>2
<1>2. AllPlaced(s, sent \o more)
  BY <1>1 DEF Good, AllPlaced, Placed
<1> QED BY <1>2 DEF Good

\* A chunk was parsed into these events.
LEMMA FeedContent ==
    ASSUME CInv, phase = "reading", ~src.final, NEW events, Feed(events),
           NEW more \in Seq(Index \cup {Text}), src'.sent = src.sent \o more,
           parser'.reason = src'.reason, parser'.usage = src'.usage,
           src'.reason \in ReasonsOf(from), src'.usage \in UsagesOf(from),
           \A k \in DOMAIN events : events[k].type = "done" =>
               k = Len(events) /\ k = 1 /\ Reports(events[k])',
           src'.final => events # <<>> /\ events[1].type = "done",
           Told => (QueueFits /\ ToolsKnown /\ InOrder)'
    PROVE  Content'
<1>1. /\ queue' = events /\ phase' = IF events = <<>> THEN "reading" ELSE "emitting"
      /\ UNCHANGED <<from, to, writer, out, http, broken, gone, attempts>>
  BY DEF Feed
<1>2. Good(out, src'.sent)
  BY Facts, GoodGrows
<1>3. Good(out, src.sent)'
  BY <1>1, <1>2 DEF Good, Numbered, AllPlaced, Placed, Sequenced, OpensIn, Before,
     Deltas, First
<1>4. gone \/ ~writer.done
  BY Facts DEF CInv, Content, Ending
<1>5. Serving'
  <2> SUFFICES ASSUME Told' PROVE (Book(writer, out) /\ QueueFits /\ ToolsKnown /\ InOrder)'
    BY DEF Serving
  <2>1. Told
    BY <1>1 DEF Told
  <2>2. Book(writer, out)
    BY <2>1 DEF CInv, Content, Serving
  <2> QED BY <1>1, <2>1, <2>2, BookNext
<1>6. Ending'
  BY <1>1, <1>4 DEF Ending, Reports, Says
<1>7. Whole'
  <2>1. ~Completed
    BY DEF CInv, IInv, FinalInv
  <2> QED BY <1>1, <2>1 DEF Whole, Completed
<1>8. Untouched'
  BY <1>1 DEF CInv, Content, Untouched
<1> QED BY <1>3, <1>5, <1>6, <1>7, <1>8 DEF Content

\* Between two chunks the client has everything, and every call has its place.
LEMMA Waiting ==
    ASSUME CInv, Told, phase = "reading"
    PROVE  /\ Count(out) = Len(src.sent) /\ parser.tools \subseteq src.used
           /\ \A i \in Index \ parser.tools : writer.tools[i] = None
           /\ \A t \in Index : Live(t) => Opened(writer, out, t)
<1>1. DOMAIN queue = {} /\ ToolsKnown /\ InOrder
  BY Facts DEF CInv, Content, Serving
<1>2. Count(out) = Len(src.sent)
  BY <1>1, AllThere
<1> QED BY <1>1, <1>2 DEF ToolsKnown

\* Three events, each of which may be missing, are in their order.
LEMMA Burst ==
    ASSUME NEW a, NEW b, NEW c, NEW l \in {0, 1}, NEW m \in {0, 1}, NEW n \in {0, 1},
           NEW E, E = (IF l = 1 THEN <<a>> ELSE <<>>) \o (IF m = 1 THEN <<b>> ELSE <<>>)
                        \o (IF n = 1 THEN <<c>> ELSE <<>>)
    PROVE  /\ DOMAIN E = 1..l + m + n
           /\ l = 1 => E[l] = a
           /\ m = 1 => E[l + m] = b
           /\ n = 1 => E[l + m + n] = c
<1> DEFINE S == {a, b, c}
<1>1. PICK x \in Seq(S) : /\ x = IF l = 1 THEN <<a>> ELSE <<>>
                         /\ Len(x) = l /\ (l = 1 => x[1] = a)
  <2>1. <<>> \in Seq(S) /\ <<a>> \in Seq(S)
    BY EmptySeq
  <2>2. Len(<<>>) = 0 /\ Len(<<a>>) = 1 /\ <<a>>[1] = a
    OBVIOUS
  <2> QED BY <2>1, <2>2
<1>2. PICK y \in Seq(S) : /\ y = IF m = 1 THEN <<b>> ELSE <<>>
                         /\ Len(y) = m /\ (m = 1 => y[1] = b)
  <2>1. <<>> \in Seq(S) /\ <<b>> \in Seq(S)
    BY EmptySeq
  <2>2. Len(<<>>) = 0 /\ Len(<<b>>) = 1 /\ <<b>>[1] = b
    OBVIOUS
  <2> QED BY <2>1, <2>2
<1>3. PICK z \in Seq(S) : /\ z = IF n = 1 THEN <<c>> ELSE <<>>
                         /\ Len(z) = n /\ (n = 1 => z[1] = c)
  <2>1. <<>> \in Seq(S) /\ <<c>> \in Seq(S)
    BY EmptySeq
  <2>2. Len(<<>>) = 0 /\ Len(<<c>>) = 1 /\ <<c>>[1] = c
    OBVIOUS
  <2> QED BY <2>1, <2>2
<1> HIDE DEF S
<1>4. PICK w \in Seq(S) : /\ w = x \o y /\ Len(w) = l + m
                         /\ \A k \in 1..l + m : w[k] = IF k <= l THEN x[k] ELSE y[k - l]
  <2>1. /\ x \o y \in Seq(S) /\ Len(x \o y) = Len(x) + Len(y)
        /\ \A k \in 1..Len(x) + Len(y) :
               (x \o y)[k] = IF k <= Len(x) THEN x[k] ELSE y[k - Len(x)]
    BY ConcatProperties
  <2>2. PICK w \in Seq(S) : w = x \o y
    BY <2>1
  <2>3. /\ Len(w) = l + m
        /\ \A k \in 1..l + m : w[k] = IF k <= l THEN x[k] ELSE y[k - l]
    BY <1>1, <1>2, <2>1, <2>2
  <2> QED BY <2>2, <2>3
<1>5. /\ E \in Seq(S) /\ Len(E) = l + m + n
      /\ \A k \in 1..l + m + n : E[k] = IF k <= l + m THEN w[k] ELSE z[k - (l + m)]
  <2>1. /\ w \o z \in Seq(S) /\ Len(w \o z) = Len(w) + Len(z)
        /\ \A k \in 1..Len(w) + Len(z) :
               (w \o z)[k] = IF k <= Len(w) THEN w[k] ELSE z[k - Len(w)]
    BY ConcatProperties
  <2>2. E = w \o z
    BY <1>1, <1>2, <1>3, <1>4
  <2> QED BY <1>3, <1>4, <2>1, <2>2
<1>6. DOMAIN E = 1..l + m + n
  BY <1>5, LenProperties
<1>7. ASSUME l = 1 PROVE E[l] = a
  <2>1. 1 \in 1..l + m /\ 1 \in 1..l + m + n /\ 1 <= l + m
    BY <1>7
  <2>2. E[1] = x[1]
    BY <1>4, <1>5, <1>7, <2>1
  <2> QED BY <1>1, <1>7, <2>2
<1>8. ASSUME m = 1 PROVE E[l + m] = b
  <2>1. PICK k \in 1..l + m : /\ k = l + m /\ ~(k <= l) /\ k - l = 1
                             /\ k \in 1..l + m + n /\ k <= l + m
    BY <1>8
  <2>2. w[k] = y[k - l] /\ E[k] = w[k]
    BY <1>4, <1>5, <2>1
  <2> QED BY <1>2, <1>8, <2>1, <2>2
<1>9. ASSUME n = 1 PROVE E[l + m + n] = c
  <2>1. PICK k \in 1..l + m + n : /\ k = l + m + n /\ ~(k <= l + m)
                                 /\ k - (l + m) = 1
    BY <1>9
  <2>2. E[k] = z[k - (l + m)]
    BY <1>5, <2>1
  <2> QED BY <1>3, <1>9, <2>1, <2>2
<1> QED BY <1>6, <1>7, <1>8, <1>9

LEMMA EventIs ==
    \A type, tool, data : /\ Event(type, tool, data).type = type
                          /\ Event(type, tool, data).tool = tool
                          /\ Event(type, tool, data).data = data
BY DEF Event

LEMMA AfterThese ==
    ASSUME NEW N \in Nat, NEW l \in {0, 1}, NEW n \in {0, 1}
    PROVE  /\ l = 1 =>
               \E k \in Nat : /\ k = N + 1 /\ k \in 1..N + l /\ k \in 1..N + l + n
                              /\ ~(k <= N) /\ k - N = 1 /\ k <= N + l
           /\ n = 1 =>
               \E k \in Nat : /\ k = N + l + n /\ k \in 1..N + l + n
                              /\ ~(k <= N + l) /\ k - (N + l) = 1
<1>1. l = 1 => /\ N + 1 \in Nat /\ N + 1 \in 1..N + l /\ N + 1 \in 1..N + l + n
               /\ ~(N + 1 <= N) /\ (N + 1) - N = 1 /\ N + 1 <= N + l
  OBVIOUS
<1>2. n = 1 => /\ N + l + n \in Nat /\ N + l + n \in 1..N + l + n
               /\ ~(N + l + n <= N + l) /\ (N + l + n) - (N + l) = 1
  OBVIOUS
<1> QED BY <1>1, <1>2

\* An element, or none.
Perhaps(l, x) == IF l = 1 THEN <<x>> ELSE <<>>

LEMMA PerhapsIs ==
    ASSUME NEW S, NEW a \in S, NEW l \in {0, 1}
    PROVE  /\ Perhaps(l, a) \in Seq(S) /\ Len(Perhaps(l, a)) = l
           /\ l = 1 => Perhaps(l, a)[1] = a
<1>1. <<>> \in Seq(S) /\ <<a>> \in Seq(S)
  BY EmptySeq
<1>2. Len(<<>>) = 0 /\ Len(<<a>>) = 1 /\ <<a>>[1] = a
  OBVIOUS
<1> QED BY <1>1, <1>2 DEF Perhaps

\* The pieces a chunk adds to what was sent.
Grown(s, more, t, l, n, tool) ==
    /\ t = s \o Perhaps(l, Text) \o Perhaps(n, tool)
    /\ t = s \o more /\ Len(t) = Len(s) + l + n
    /\ l = 1 => t[Len(s) + 1] = Text
    /\ n = 1 => t[Len(s) + l + n] = tool

LEMMA TwoMore ==
    ASSUME NEW s \in Seq(Index \cup {Text}), NEW tool \in Index \cup {Text},
           NEW l \in {0, 1}, NEW n \in {0, 1}
    PROVE  \E more \in Seq(Index \cup {Text}), t \in Seq(Index \cup {Text}) :
               Grown(s, more, t, l, n, tool)
<1> DEFINE S == Index \cup {Text}
<1>0. Text \in S /\ tool \in S
  OBVIOUS
<1> HIDE DEF S
<1>1. PICK x \in Seq(S) : /\ x = Perhaps(l, Text)
                          /\ Len(x) = l /\ (l = 1 => x[1] = Text)
  <2>1. /\ Perhaps(l, Text) \in Seq(S) /\ Len(Perhaps(l, Text)) = l
        /\ l = 1 => Perhaps(l, Text)[1] = Text
    BY <1>0, PerhapsIs
  <2> QED BY <2>1
<1>2. PICK y \in Seq(S) : /\ y = Perhaps(n, tool)
                          /\ Len(y) = n /\ (n = 1 => y[1] = tool)
  <2>1. /\ Perhaps(n, tool) \in Seq(S) /\ Len(Perhaps(n, tool)) = n
        /\ n = 1 => Perhaps(n, tool)[1] = tool
    BY <1>0, PerhapsIs
  <2> QED BY <2>1
<1>3. PICK N \in Nat : s \in Seq(S) /\ N = Len(s)
  BY LenProperties DEF S
<1>4. PICK w \in Seq(S) : /\ w = s \o x /\ Len(w) = N + l
                          /\ \A k \in 1..N + l : w[k] = IF k <= N THEN s[k] ELSE x[k - N]
  <2>1. /\ s \o x \in Seq(S) /\ Len(s \o x) = Len(s) + Len(x)
        /\ \A k \in 1..Len(s) + Len(x) :
               (s \o x)[k] = IF k <= Len(s) THEN s[k] ELSE x[k - Len(s)]
    BY <1>3, ConcatProperties
  <2>2. PICK w \in Seq(S) : w = s \o x
    BY <2>1
  <2>3. /\ Len(w) = N + l
        /\ \A k \in 1..N + l : w[k] = IF k <= N THEN s[k] ELSE x[k - N]
    BY <1>1, <1>3, <2>1, <2>2
  <2> QED BY <2>2, <2>3
<1>5. PICK t \in Seq(S) :
          /\ t = w \o y /\ Len(t) = N + l + n
          /\ \A k \in 1..N + l + n : t[k] = IF k <= N + l THEN w[k] ELSE y[k - (N + l)]
  <2>1. /\ w \o y \in Seq(S) /\ Len(w \o y) = Len(w) + Len(y)
        /\ \A k \in 1..Len(w) + Len(y) :
               (w \o y)[k] = IF k <= Len(w) THEN w[k] ELSE y[k - Len(w)]
    BY ConcatProperties
  <2>2. PICK t \in Seq(S) : t = w \o y
    BY <2>1
  <2>3. /\ Len(t) = N + l + n
        /\ \A k \in 1..N + l + n : t[k] = IF k <= N + l THEN w[k] ELSE y[k - (N + l)]
    BY <1>2, <1>4, <2>1, <2>2
  <2> QED BY <2>2, <2>3
<1>6. PICK more \in Seq(S) : t = s \o more
  <2>1. x \o y \in Seq(S)
    BY ConcatProperties
  <2>2. (s \o x) \o y = s \o (x \o y)
    BY <1>3, ConcatAssociative, SMTT(30)
  <2> QED BY <1>4, <1>5, <2>1, <2>2
<1>7. ASSUME l = 1 PROVE t[N + 1] = Text
  <2>1. PICK k \in Nat : /\ k = N + 1 /\ k \in 1..N + l /\ k \in 1..N + l + n
                         /\ ~(k <= N) /\ k - N = 1 /\ k <= N + l
    BY <1>7, AfterThese
  <2>2. w[k] = x[k - N] /\ t[k] = w[k]
    BY <1>4, <1>5, <2>1
  <2> QED BY <1>1, <1>7, <2>1, <2>2
<1>8. ASSUME n = 1 PROVE t[N + l + n] = tool
  <2>1. PICK k \in Nat : /\ k = N + l + n /\ k \in 1..N + l + n
                         /\ ~(k <= N + l) /\ k - (N + l) = 1
    BY <1>8, AfterThese
  <2>2. t[k] = y[k - (N + l)]
    BY <1>5, <2>1
  <2> QED BY <1>2, <1>8, <2>1, <2>2
<1>9. t = s \o Perhaps(l, Text) \o Perhaps(n, tool)
  BY <1>1, <1>2, <1>4, <1>5
<1>10. Grown(s, more, t, l, n, tool)
  BY <1>3, <1>5, <1>6, <1>7, <1>8, <1>9 DEF Grown
<1> QED BY <1>10 DEF S

LEMMA OpenAIDeltaContent ==
    ASSUME CInv, NEW text \in BOOLEAN, NEW args \in BOOLEAN,
           NEW tool \in src.used \cup NextIndex \cup {Text},
           OpenAIDelta(text, tool, args)
    PROVE  Content'
<1>1. tool \in Index \cup {Text}
  BY SourceFields DEF NextIndex, CInv
<1>2. PICK l \in {0, 1}, m \in {0, 1}, n \in {0, 1} :
          /\ text <=> l = 1
          /\ (tool # Text /\ tool \notin parser.tools) <=> m = 1
          /\ (tool # Text /\ args) <=> n = 1
  <2>1. PICK l \in {0, 1} : text <=> l = 1
    <3>1. text \/ ~text
      OBVIOUS
    <3>2. text => \E l \in {0, 1} : text <=> l = 1
      OBVIOUS
    <3>3. ~text => \E l \in {0, 1} : text <=> l = 1
      OBVIOUS
    <3> QED BY <3>1, <3>2, <3>3
  <2>2. PICK m \in {0, 1} : (tool # Text /\ tool \notin parser.tools) <=> m = 1
    OBVIOUS
  <2>3. PICK n \in {0, 1} : (tool # Text /\ args) <=> n = 1
    <3>1. args \/ ~args
      OBVIOUS
    <3>2. args => \E n \in {0, 1} : (tool # Text /\ args) <=> n = 1
      OBVIOUS
    <3>3. ~args => \E n \in {0, 1} : (tool # Text /\ args) <=> n = 1
      OBVIOUS
    <3> QED BY <3>1, <3>2, <3>3
  <2> QED BY <2>1, <2>2, <2>3
<1> DEFINE N == Len(src.sent)
<1>3. PICK more \in Seq(Index \cup {Text}), t \in Seq(Index \cup {Text}) :
          /\ t = src.sent \o Perhaps(l, Text) \o Perhaps(n, tool)
          /\ t = src.sent \o more /\ Len(t) = N + l + n
          /\ l = 1 => t[N + 1] = Text
          /\ n = 1 => t[N + l + n] = tool
  <2>1. PICK s \in Seq(Index \cup {Text}) : s = src.sent
    BY SourceFields DEF CInv
  <2>2. PICK more \in Seq(Index \cup {Text}), t \in Seq(Index \cup {Text}) :
            Grown(s, more, t, l, n, tool)
    BY <1>1, <1>2, <2>1, TwoMore
  <2> QED BY <2>1, <2>2 DEF Grown
<1> DEFINE a == Event("text_delta", Text, N + 1)
           b == Event("tool_call_start", tool, 0)
           c == Event("tool_call_delta", tool, N + l + n)
           E == (IF l = 1 THEN <<a>> ELSE <<>>) \o (IF m = 1 THEN <<b>> ELSE <<>>)
                  \o (IF n = 1 THEN <<c>> ELSE <<>>)
<1>4. src.sent \o (IF text THEN <<Text>> ELSE <<>>)
               \o (IF tool # Text /\ args THEN <<tool>> ELSE <<>>) = t
  <2>1. /\ (IF text THEN <<Text>> ELSE <<>>) = Perhaps(l, Text)
        /\ (IF tool # Text /\ args THEN <<tool>> ELSE <<>>) = Perhaps(n, tool)
    BY <1>2 DEF Perhaps
  <2> QED BY <1>3, <2>1
<1>5. Piece(text, "text_delta", Text, N + 1)
        \o Piece(tool # Text /\ tool \notin parser.tools, "tool_call_start", tool, 0)
        \o Piece(tool # Text /\ args, "tool_call_delta", tool, Len(t)) = E
  BY <1>2, <1>3 DEF Piece
<1> HIDE DEF E
<1>6. /\ phase = "reading" /\ from = "openai" /\ ~src.final /\ Feed(E)
      /\ src' = [src EXCEPT !.chunks = @ + 1, !.sent = t,
                            !.used = IF tool # Text THEN @ \cup {tool} ELSE @]
      /\ parser' = [parser EXCEPT !.tools = IF tool # Text THEN @ \cup {tool} ELSE @]
  BY <1>4, <1>5 DEF OpenAIDelta, Sends
<1>7. /\ src'.sent = t /\ src'.reason = src.reason /\ src'.usage = src.usage
      /\ src'.final = src.final
      /\ src'.used = IF tool # Text THEN src.used \cup {tool} ELSE src.used
      /\ parser'.reason = parser.reason /\ parser'.usage = parser.usage
      /\ parser'.tools = IF tool # Text THEN parser.tools \cup {tool} ELSE parser.tools
  <2>1. src \in SourceType /\ parser \in ParserType
    BY SourceFields DEF CInv
  <2> QED BY <1>6, <2>1 DEF SourceType, ParserType
<1>8. /\ queue' = E /\ from' = from /\ writer' = writer /\ out' = out /\ to' = to
  BY <1>6 DEF Feed
<1>9. /\ DOMAIN E = 1..l + m + n
      /\ l = 1 => E[l] = a
      /\ m = 1 => E[l + m] = b
      /\ n = 1 => E[l + m + n] = c
  BY Burst DEF E
<1>10. /\ a.type = "text_delta" /\ a.data = N + 1
       /\ b.type = "tool_call_start" /\ b.tool = tool
       /\ c.type = "tool_call_delta" /\ c.tool = tool /\ c.data = N + l + n
  BY EventIs
<1>11. N \in Nat
  BY Facts
<1> HIDE DEF a, b, c, N
<1>12. \A k \in 1..l + m + n : \/ k = l /\ l = 1 /\ E[k] = a
                               \/ k = l + m /\ m = 1 /\ E[k] = b
                               \/ k = l + m + n /\ n = 1 /\ E[k] = c
  <2>1. \A k \in 1..l + m + n : \/ k = l /\ l = 1
                                \/ k = l + m /\ m = 1
                                \/ k = l + m + n /\ n = 1
    OBVIOUS
  <2> QED BY <1>9, <2>1
<1>13. \A k \in 1..l + m + n : E[k].type # "done" /\ E[k].type # "tool_call_stop"
  BY <1>10, <1>12
<1>14. ASSUME Told PROVE (QueueFits /\ ToolsKnown /\ InOrder)'
  <2>1. /\ Count(out) = N /\ parser.tools \subseteq src.used
        /\ \A i \in Index \ parser.tools : writer.tools[i] = None
        /\ \A i \in Index : Live(i) => Opened(writer, out, i)
    BY <1>6, <1>14, Waiting DEF N
  <2>2. \A k \in 1..l + m + n : \A i : Starts(E, k, i) <=> k = l + m /\ m = 1 /\ i = tool
    <3> SUFFICES ASSUME NEW k \in 1..l + m + n, NEW i
                 PROVE  Starts(E, k, i) <=> k = l + m /\ m = 1 /\ i = tool
      OBVIOUS
    <3>1. CASE k = l /\ l = 1 /\ E[k] = a
      <4>1. ~(k = l + m /\ m = 1)
        BY <3>1
      <4> QED BY <1>10, <3>1, <4>1 DEF Starts
    <3>2. CASE k = l + m /\ m = 1 /\ E[k] = b
      BY <1>10, <3>2 DEF Starts
    <3>3. CASE k = l + m + n /\ n = 1 /\ E[k] = c
      <4>1. ~(k = l + m /\ m = 1)
        BY <3>3
      <4> QED BY <1>10, <3>3, <4>1 DEF Starts
    <3> QED BY <1>12, <3>1, <3>2, <3>3
  <2>3. \A i : Live(i)' <=> i \in parser'.tools
    BY <1>6, <1>8 DEF Live
  <2>4. n = 1 \/ m = 1 => tool \in Index /\ tool \in parser'.tools
    BY <1>1, <1>2, <1>7
  <2>5. m = 1 => writer.tools[tool] = None
    BY <1>1, <1>2, <2>1
  <2>6. QueueFits'
    <3> SUFFICES ASSUME NEW k \in 1..l + m + n, NEW f, f = E[k]
        PROVE  /\ f.type = "text_delta" => t[f.data] = Text
               /\ f.type = "tool_call_delta" =>
                      /\ t[f.data] = f.tool /\ Live(f.tool)'
                      /\ \A i \in 1..l + m + n : Starts(E, i, f.tool) => i < k
               /\ f.type = "tool_call_start" =>
                      /\ Live(f.tool)' /\ writer.tools[f.tool] = None
                      /\ \A i \in 1..l + m + n : Starts(E, i, f.tool) => i = k
               /\ f.type = "tool_call_stop" => ~Live(f.tool)'
      BY <1>7, <1>8, <1>9 DEF QueueFits, Starts
    <3>1. CASE l = 1 /\ f = a
      BY <1>3, <1>10, <3>1 DEF N
    <3>2. CASE k = l + m /\ m = 1 /\ f = b
      BY <1>10, <2>2, <2>3, <2>4, <2>5, <3>2
    <3>3. CASE k = l + m + n /\ n = 1 /\ f = c
      <4>1. t[f.data] = f.tool
        BY <1>3, <1>10, <3>3 DEF N
      <4>2. \A i \in 1..l + m + n : i = l + m => i < k
        BY <3>3
      <4> QED BY <1>10, <2>2, <2>3, <2>4, <3>3, <4>1, <4>2
    <3> QED BY <1>12, <3>1, <3>2, <3>3
  <2>7. ToolsKnown'
    <3>1. parser'.tools \subseteq src'.used
      BY <1>7, <2>1
    <3>2. \A i \in Index \ parser'.tools : writer'.tools[i] = None
      BY <1>7, <1>8, <2>1
    <3>3. ASSUME NEW i \in Index, Live(i)'
          PROVE  Opened(writer, out, i)' \/ \E k \in 1..l + m + n : Starts(E, k, i)
      <4>1. CASE i \in parser.tools
        <5>1. Opened(writer, out, i)
          BY <1>6, <2>1, <4>1 DEF Live
        <5> QED BY <1>8, <5>1 DEF Opened, Named, HasBlock
      <4>2. CASE i \notin parser.tools
        <5>1. i = tool /\ tool # Text
          BY <1>7, <2>3, <3>3, <4>2
        <5>2. m = 1
          BY <1>2, <4>2, <5>1
        <5>3. l + m \in 1..l + m + n
          BY <5>2
        <5> QED BY <2>2, <5>1, <5>2, <5>3
      <4> QED BY <4>1, <4>2
    <3> QED BY <1>8, <1>9, <3>1, <3>2, <3>3 DEF ToolsKnown, Starts
  <2>8. InOrder'
    <3>1. Len(t) = N + l + n
      BY <1>3 DEF N
    <3>2. \A k \in 1..l + m + n : IsPiece(E[k]) =>
              \/ k = l /\ l = 1 /\ E[k].data = N + 1
              \/ k = l + m + n /\ n = 1 /\ E[k].data = N + l + n
      BY <1>10, <1>12 DEF IsPiece
    <3>3. Count(out)' = N
      BY <1>8, <2>1 DEF Count, Deltas
    <3>4. N <= Len(t)
      BY <1>11, <3>1
    <3>5. \A k \in 1..l + m + n : IsPiece(E[k]) => E[k].data \in N + 1 .. N + l + n
      <4>1. l = 1 => N + 1 \in N + 1 .. N + l + n
        BY <1>11
      <4>2. n = 1 => N + l + n \in N + 1 .. N + l + n
        BY <1>11
      <4> QED BY <3>2, <4>1, <4>2
    <3>6. ASSUME NEW k \in 1..l + m + n, NEW i \in 1..l + m + n,
                 IsPiece(E[k]), IsPiece(E[i]), k < i
          PROVE  E[k].data < E[i].data
      <4>1. k # l + m + n /\ i # l
        <5>1. ~(k = l + m + n) /\ (i = l => k < l /\ k >= 1)
          BY <3>6
        <5> QED BY <5>1
      <4>2. /\ k = l /\ l = 1 /\ E[k].data = N + 1
            /\ n = 1 /\ E[i].data = N + l + n
        BY <3>2, <3>6, <4>1
      <4>3. N + 1 < N + 1 + 1
        BY <1>11
      <4> QED BY <4>2, <4>3
    <3>7. ASSUME NEW j \in N + 1 .. N + l + n
          PROVE  \E k \in 1..l + m + n : IsPiece(E[k]) /\ E[k].data = j
      <4>1. \/ l = 1 /\ j = N + 1
            \/ n = 1 /\ j = N + l + n
        BY <1>11, <3>7
      <4>2. l = 1 => l \in 1..l + m + n /\ IsPiece(E[l]) /\ E[l].data = N + 1
        <5>1. l = 1 => l \in 1..l + m + n
          OBVIOUS
        <5> QED BY <1>9, <1>10, <5>1 DEF IsPiece
      <4>3. n = 1 => /\ l + m + n \in 1..l + m + n /\ IsPiece(E[l + m + n])
                     /\ E[l + m + n].data = N + l + n
        <5>1. n = 1 => l + m + n \in 1..l + m + n
          OBVIOUS
        <5> QED BY <1>9, <1>10, <5>1 DEF IsPiece
      <4> QED BY <4>1, <4>2, <4>3
    <3> QED BY <1>7, <1>8, <1>9, <3>1, <3>3, <3>4, <3>5, <3>6, <3>7 DEF InOrder
  <2> QED BY <2>6, <2>7, <2>8
<1>15. /\ parser'.reason = src'.reason /\ parser'.usage = src'.usage
       /\ src'.reason \in ReasonsOf(from) /\ src'.usage \in UsagesOf(from)
       /\ ~src'.final
  BY <1>6, <1>7 DEF CInv, Content, Ending, Says
<1> QED BY <1>3, <1>6, <1>7, <1>9, <1>13, <1>14, <1>15, FeedContent, ZenonT(30)

\* The queue holds nothing the client's places depend on.
LEMMA StillFits ==
    ASSUME CInv, Told, phase = "reading", NEW events, queue' = events,
           UNCHANGED <<from, to, writer, out>>,
           \A k \in DOMAIN events :
               /\ events[k].type \in {"tool_call_stop", "done"}
               /\ events[k].type = "tool_call_stop" => ~Live(events[k].tool)',
           src'.sent = src.sent, src.used \subseteq src'.used,
           parser'.tools = parser.tools, \A t \in Index : Live(t)' => Live(t)
    PROVE  (QueueFits /\ ToolsKnown /\ InOrder)'
<1>1. /\ Count(out) = Len(src.sent) /\ parser.tools \subseteq src.used
      /\ \A i \in Index \ parser.tools : writer.tools[i] = None
      /\ \A t \in Index : Live(t) => Opened(writer, out, t)
  BY Waiting
<1>2. QueueFits'
  BY DEF QueueFits, Starts
<1>3. ToolsKnown'
  <2>1. \A t \in Index : Live(t)' => Opened(writer, out, t)'
    BY <1>1 DEF Opened, Named, HasBlock
  <2>2. parser'.tools \subseteq src'.used
    BY <1>1
  <2>3. \A i \in Index \ parser'.tools : writer'.tools[i] = None
    BY <1>1
  <2> QED BY <2>1, <2>2, <2>3 DEF ToolsKnown
<1>4. InOrder'
  <2>1. Count(out)' = Count(out)
    BY DEF Count, Deltas
  <2>2. \A k \in DOMAIN events : ~IsPiece(events[k])
    BY DEF IsPiece
  <2>3. Count(out) <= Count(out) /\ \A n \in Count(out) + 1 .. Count(out) : FALSE
    BY Facts
  <2> QED BY <1>1, <2>1, <2>2, <2>3 DEF InOrder
<1> QED BY <1>2, <1>3, <1>4

\* A chunk with no event: the reason to stop, or the usage.
LEMMA SilentContent ==
    ASSUME CInv, phase = "reading", ~src.final, Feed(<<>>),
           src'.sent = src.sent, src'.used = src.used, src'.open = src.open,
           ~src'.final, parser'.tools = parser.tools,
           parser'.reason = src'.reason, parser'.usage = src'.usage,
           src'.reason \in ReasonsOf(from), src'.usage \in UsagesOf(from)
    PROVE  Content'
<1>1. PICK more \in Seq(Index \cup {Text}) : src'.sent = src.sent \o more
  <2>1. <<>> \in Seq(Index \cup {Text}) /\ src.sent = src.sent \o <<>>
    BY Facts, EmptySeq, ConcatEmptySeq
  <2> QED BY <2>1
<1>2. PICK events : events = <<>> /\ DOMAIN events = {}
  OBVIOUS
<1>3. queue' = events /\ UNCHANGED <<from, to, writer, out>> /\ Feed(events)
  BY <1>2 DEF Feed
<1>4. \A t \in Index : Live(t)' => Live(t)
  BY <1>3 DEF Live
<1>5. Told => (QueueFits /\ ToolsKnown /\ InOrder)'
  BY <1>2, <1>3, <1>4, StillFits
<1>6. \A k \in DOMAIN events : FALSE
  BY <1>2
<1> HIDE DEF Content
<1> QED BY <1>1, <1>3, <1>5, <1>6, FeedContent

LEMMA OpenAIFinishContent ==
    ASSUME CInv, NEW reason \in {"none", "stop", "length", "tool_calls"},
           NEW usage \in SUBSET Counts, OpenAIFinish(reason, usage)
    PROVE  Content'
<1>1. src \in SourceType /\ parser \in ParserType
  BY SourceFields DEF CInv
<1>2. parser.reason = src.reason /\ parser.usage = src.usage /\ Says(src, from)
  BY DEF CInv, Content, Ending
<1>3. /\ phase = "reading" /\ from = "openai" /\ ~src.final /\ Feed(<<>>)
      /\ src' = [src EXCEPT !.reason = IF reason # "none" THEN reason ELSE @,
                            !.usage = IF usage # {} THEN usage ELSE @]
      /\ parser' = [parser EXCEPT !.reason = IF reason # "none" THEN reason ELSE @,
                                  !.usage = IF usage # {} THEN usage ELSE @]
  BY DEF OpenAIFinish, Sends
<1>4. /\ src'.sent = src.sent /\ src'.used = src.used /\ src'.open = src.open
      /\ src'.final = src.final /\ parser'.tools = parser.tools
      /\ src'.reason = (IF reason # "none" THEN reason ELSE src.reason)
      /\ src'.usage = (IF usage # {} THEN usage ELSE src.usage)
      /\ parser'.reason = (IF reason # "none" THEN reason ELSE parser.reason)
      /\ parser'.usage = (IF usage # {} THEN usage ELSE parser.usage)
  BY <1>1, <1>3 DEF SourceType, ParserType
<1>5. src'.reason \in ReasonsOf(from) /\ src'.usage \in UsagesOf(from)
  BY <1>2, <1>3, <1>4 DEF Says, ReasonsOf, UsagesOf
<1> QED BY <1>2, <1>3, <1>4, <1>5, SilentContent

LEMMA MessageDeltaContent ==
    ASSUME CInv, NEW reason \in {"end_turn", "max_tokens", "tool_use"},
           NEW usage \in SUBSET (Counts \ {"total"}), MessageDelta(reason, usage)
    PROVE  Content'
<1>1. src \in SourceType /\ parser \in ParserType
  BY SourceFields DEF CInv
<1>2. /\ phase = "reading" /\ from = "anthropic" /\ ~src.final /\ Feed(<<>>)
      /\ src' = [src EXCEPT !.reason = reason,
                            !.usage = IF usage # {} THEN usage ELSE @]
      /\ parser' = [parser EXCEPT !.reason = reason,
                                  !.usage = IF usage # {} THEN usage ELSE @]
  BY DEF MessageDelta, Sends
<1>3. /\ src'.sent = src.sent /\ src'.used = src.used /\ src'.open = src.open
      /\ src'.final = src.final /\ parser'.tools = parser.tools
      /\ src'.reason = reason /\ parser'.reason = reason
      /\ src'.usage = (IF usage # {} THEN usage ELSE src.usage)
      /\ parser'.usage = (IF usage # {} THEN usage ELSE parser.usage)
  BY <1>1, <1>2 DEF SourceType, ParserType
<1>4. parser.usage = src.usage /\ Says(src, from)
  BY DEF CInv, Content, Ending
<1>5. src'.reason \in ReasonsOf(from) /\ src'.usage \in UsagesOf(from)
  BY <1>2, <1>3, <1>4 DEF Says, ReasonsOf, UsagesOf
<1> QED BY <1>2, <1>3, <1>4, <1>5, SilentContent

LEMMA MessageBeginContent == CInv /\ MessageBegin => Content'
<1> SUFFICES ASSUME CInv, MessageBegin PROVE Content'
  OBVIOUS
<1>1. src \in SourceType
  BY SourceFields DEF CInv
<1>2. /\ phase = "reading" /\ ~src.final /\ Feed(<<>>)
      /\ src' = [src EXCEPT !.start = {"prompt"}] /\ parser' = parser
  BY DEF MessageBegin, Sends
<1>3. /\ src'.sent = src.sent /\ src'.used = src.used /\ src'.open = src.open
      /\ src'.final = src.final /\ src'.reason = src.reason
      /\ src'.usage = src.usage
  BY <1>1, <1>2 DEF SourceType
<1>4. parser.reason = src.reason /\ parser.usage = src.usage /\ Says(src, from)
  BY DEF CInv, Content, Ending
<1>5. src'.reason \in ReasonsOf(from) /\ src'.usage \in UsagesOf(from)
  BY <1>3, <1>4 DEF Says
<1> QED BY <1>2, <1>3, <1>4, <1>5, SilentContent

\* The final marker, with the reason and the usage the parser has kept.
LEMMA MarkerContent ==
    ASSUME CInv, phase = "reading", ~src.final,
           src' = [src EXCEPT !.final = TRUE], parser' = parser,
           NEW r \in ReasonsOf("openai"), NEW u, Feed(<<Done(r, u)>>),
           Meaning(r) = Meaning(src.reason), u = src.usage
    PROVE  Content'
<1>1. PICK more \in Seq(Index \cup {Text}) : src.sent = src.sent \o more
  <2>1. <<>> \in Seq(Index \cup {Text}) /\ src.sent = src.sent \o <<>>
    BY Facts, EmptySeq, ConcatEmptySeq
  <2> QED BY <2>1
<1>2. PICK d : d = Done(r, u) /\ d.type = "done" /\ d.reason = r /\ d.usage = u
  <2>1. r \in Reason /\ u \in SUBSET Counts
    BY SourceFields DEF CInv, ReasonsOf, Reason
  <2> QED BY <2>1, DoneEvent
<1>3. PICK events : /\ events = <<d>> /\ DOMAIN events = {1} /\ events[1] = d
                    /\ Len(events) = 1 /\ events # <<>>
  <2>1. DOMAIN <<d>> = {1} /\ <<d>>[1] = d /\ Len(<<d>>) = 1 /\ <<d>> # <<>>
    OBVIOUS
  <2> QED BY <2>1
<1>4. queue' = events /\ UNCHANGED <<from, to, writer, out>> /\ Feed(events)
  BY <1>2, <1>3 DEF Feed
<1>5. /\ src'.sent = src.sent /\ src'.used = src.used /\ src'.open = src.open
      /\ src'.final /\ src'.reason = src.reason /\ src'.usage = src.usage
  <2>1. src \in SourceType
    BY SourceFields DEF CInv
  <2> QED BY <2>1 DEF SourceType
<1>6. Told => (QueueFits /\ ToolsKnown /\ InOrder)'
  <2>1. \A t \in Index : Live(t)' => Live(t)
    BY <1>4, <1>5 DEF Live
  <2>2. \A k \in DOMAIN events : events[k].type = "done"
    BY <1>2, <1>3
  <2> QED BY <1>4, <1>5, <2>1, <2>2, StillFits
<1>7. \A k \in DOMAIN events : k = Len(events) /\ k = 1 /\ Reports(events[k])'
  BY <1>2, <1>3, <1>5 DEF Reports
<1>8. /\ parser'.reason = src'.reason /\ parser'.usage = src'.usage
      /\ src'.reason \in ReasonsOf(from) /\ src'.usage \in UsagesOf(from)
  BY <1>5 DEF CInv, Content, Ending, Says
<1>9. src'.sent = src.sent \o more
  BY <1>1, <1>5
<1> QED BY <1>2, <1>3, <1>4, <1>6, <1>7, <1>8, <1>9, FeedContent

LEMMA OpenAIDoneContent == CInv /\ OpenAIDone => Content'
<1> SUFFICES ASSUME CInv, OpenAIDone PROVE Content'
  OBVIOUS
<1>1. /\ parser.reason = src.reason /\ parser.usage = src.usage
      /\ Says(src, from)
  BY DEF CInv, Content, Ending
<1>2. from = "openai"
  BY DEF OpenAIDone, Sends
<1>3. parser.reason \in ReasonsOf("openai") /\ Meaning(parser.reason) = Meaning(src.reason)
  BY <1>1, <1>2 DEF Says
<1> QED BY <1>1, <1>3, MarkerContent DEF OpenAIDone, Sends

LEMMA MessageStopContent == CInv /\ MessageStop => Content'
<1> SUFFICES ASSUME CInv, MessageStop PROVE Content'
  OBVIOUS
<1>1. /\ parser.reason = src.reason /\ parser.usage = src.usage
      /\ Says(src, from)
  BY DEF CInv, Content, Ending
<1>2. src.reason \in {"none", "end_turn", "max_tokens", "tool_use"}
  BY <1>1 DEF MessageStop, Sends, Says, ReasonsOf
<1>3. /\ IRFinishReason(parser.reason) \in ReasonsOf("openai")
      /\ Meaning(IRFinishReason(parser.reason)) = Meaning(src.reason)
  BY <1>1, <1>2 DEF IRFinishReason, Meaning, ReasonsOf
<1> QED BY <1>1, <1>3, MarkerContent DEF MessageStop, Sends

LEMMA BlockStopContent == CInv /\ BlockStop => Content'
<1> SUFFICES ASSUME CInv, BlockStop PROVE Content'
  OBVIOUS
<1>1. PICK e : e = Event("tool_call_stop", src.open, 0) /\ e.type = "tool_call_stop"
  BY EventIs
<1>2. PICK events : /\ events = Piece(src.open \in parser.tools, "tool_call_stop", src.open, 0)
                    /\ \A k \in DOMAIN events : events[k] = e
  <2>1. <<>> = Piece(FALSE, "tool_call_stop", src.open, 0)
    BY DEF Piece
  <2>2. \A k \in DOMAIN <<>> : <<>>[k] = e
    OBVIOUS
  <2>3. \A k \in DOMAIN <<e>> : <<e>>[k] = e
    OBVIOUS
  <2> QED BY <1>1, <2>2, <2>3 DEF Piece
<1>3. /\ phase = "reading" /\ from = "anthropic" /\ ~src.final /\ Feed(events)
      /\ src' = [src EXCEPT !.open = None] /\ parser' = parser
      /\ queue' = events /\ UNCHANGED <<from, to, writer, out>>
  BY <1>2 DEF BlockStop, Sends, Feed
<1>4. /\ src'.sent = src.sent /\ src'.used = src.used /\ src'.open = None
      /\ src'.final = src.final /\ src'.reason = src.reason /\ src'.usage = src.usage
  <2>1. src \in SourceType
    BY SourceFields DEF CInv
  <2> QED BY <1>3, <2>1 DEF SourceType
<1>5. \A t : ~Live(t)'
  <2>1. None \notin parser.tools
    BY StreamsAssumption, Facts DEF None
  <2> QED BY <1>3, <1>4, <2>1 DEF Live
<1>6. \A k \in DOMAIN events : events[k].type = "tool_call_stop"
  BY <1>1, <1>2
<1>7. Told => (QueueFits /\ ToolsKnown /\ InOrder)'
  BY <1>3, <1>4, <1>5, <1>6, StillFits
<1>8. PICK more \in Seq(Index \cup {Text}) : src'.sent = src.sent \o more
  <2>1. <<>> \in Seq(Index \cup {Text}) /\ src.sent = src.sent \o <<>>
    BY Facts, EmptySeq, ConcatEmptySeq
  <2> QED BY <1>4, <2>1
<1>9. /\ parser'.reason = src'.reason /\ parser'.usage = src'.usage
      /\ src'.reason \in ReasonsOf(from) /\ src'.usage \in UsagesOf(from)
  BY <1>3, <1>4 DEF CInv, Content, Ending, Says
<1>10. \A k \in DOMAIN events : events[k].type # "done"
  BY <1>6
<1> QED BY <1>3, <1>4, <1>7, <1>8, <1>9, <1>10, FeedContent

LEMMA BlockStartContent ==
    ASSUME CInv, NEW b \in NextIndex, NEW tool \in BOOLEAN, BlockStart(b, tool)
    PROVE  Content'
<1>1. PICK m \in {0, 1} : tool <=> m = 1
  <2>1. CASE tool
    BY <2>1
  <2>2. CASE ~tool
    BY <2>2
  <2> QED BY <2>1, <2>2
<1>2. b \in Index /\ b \notin src.used
  BY DEF NextIndex
<1>3. PICK e : e = Event("tool_call_start", b, 0) /\ e.type = "tool_call_start" /\ e.tool = b
  BY EventIs
<1>4. PICK events : /\ events = Piece(tool, "tool_call_start", b, 0)
                    /\ DOMAIN events = 1..m /\ \A k \in DOMAIN events : events[k] = e
  <2>1. CASE m = 1
    <3>1. Piece(tool, "tool_call_start", b, 0) = <<e>>
      BY <1>1, <1>3, <2>1 DEF Piece
    <3>2. DOMAIN <<e>> = 1..m /\ \A k \in DOMAIN <<e>> : <<e>>[k] = e
      BY <2>1
    <3> QED BY <3>1, <3>2
  <2>2. CASE m = 0
    <3>1. Piece(tool, "tool_call_start", b, 0) = <<>>
      BY <1>1, <2>2 DEF Piece
    <3>2. DOMAIN <<>> = 1..m /\ \A k \in DOMAIN <<>> : <<>>[k] = e
      BY <2>2
    <3> QED BY <3>1, <3>2
  <2> QED BY <2>1, <2>2
<1>5. /\ phase = "reading" /\ from = "anthropic" /\ ~src.final /\ Feed(events)
      /\ src' = [src EXCEPT !.open = b, !.used = @ \cup {b}]
      /\ parser' = [parser EXCEPT !.tools = IF tool THEN @ \cup {b} ELSE @]
      /\ queue' = events /\ UNCHANGED <<from, to, writer, out>>
  BY <1>4 DEF BlockStart, Sends, Feed
<1>6. /\ src'.sent = src.sent /\ src'.used = src.used \cup {b} /\ src'.open = b
      /\ src'.final = src.final /\ src'.reason = src.reason /\ src'.usage = src.usage
      /\ parser'.tools = (IF m = 1 THEN parser.tools \cup {b} ELSE parser.tools)
      /\ parser'.reason = parser.reason /\ parser'.usage = parser.usage
  <2>1. src \in SourceType /\ parser \in ParserType
    BY SourceFields DEF CInv
  <2>2. parser' = [parser EXCEPT !.tools = IF m = 1 THEN @ \cup {b} ELSE @]
    BY <1>1, <1>5
  <2> QED BY <1>5, <2>1, <2>2 DEF SourceType, ParserType
<1>7. ASSUME Told PROVE (QueueFits /\ ToolsKnown /\ InOrder)'
  <2>1. /\ Count(out) = Len(src.sent) /\ parser.tools \subseteq src.used
        /\ \A i \in Index \ parser.tools : writer.tools[i] = None
    BY <1>5, <1>7, Waiting
  <2>2. \A i \in Index : Live(i)' <=> m = 1 /\ i = b
    <3>1. b \notin parser.tools
      BY <1>2, <2>1
    <3> QED BY <1>5, <1>6, <3>1 DEF Live
  <2>3. writer.tools[b] = None
    BY <1>2, <2>1
  <2>4. QueueFits'
    <3>1. \A k \in 1..m : k = 1 /\ m = 1
      OBVIOUS
    <3> QED BY <1>2, <1>3, <1>4, <1>5, <2>2, <2>3, <3>1 DEF QueueFits, Starts
  <2>5. ToolsKnown'
    <3>1. ASSUME NEW i \in Index, Live(i)'
          PROVE  \E k \in DOMAIN events : Starts(events, k, i)
      <4>1. m = 1 /\ i = b
        BY <2>2, <3>1
      <4>2. 1 \in 1..m
        BY <4>1
      <4> QED BY <1>3, <1>4, <4>1, <4>2 DEF Starts
    <3>2. parser'.tools \subseteq src'.used
      BY <1>6, <2>1
    <3>3. \A i \in Index \ parser'.tools : writer'.tools[i] = None
      BY <1>5, <1>6, <2>1
    <3> QED BY <1>5, <3>1, <3>2, <3>3 DEF ToolsKnown, Starts
  <2>6. InOrder'
    <3>1. Count(out)' = Count(out)
      BY <1>5 DEF Count, Deltas
    <3>2. \A k \in DOMAIN events : ~IsPiece(events[k])
      BY <1>3, <1>4 DEF IsPiece
    <3>3. Count(out) <= Count(out) /\ \A n \in Count(out) + 1 .. Count(out) : FALSE
      BY Facts
    <3> QED BY <1>5, <1>6, <2>1, <3>1, <3>2, <3>3 DEF InOrder
  <2> QED BY <2>4, <2>5, <2>6
<1>8. PICK more \in Seq(Index \cup {Text}) : src'.sent = src.sent \o more
  <2>1. <<>> \in Seq(Index \cup {Text}) /\ src.sent = src.sent \o <<>>
    BY Facts, EmptySeq, ConcatEmptySeq
  <2> QED BY <1>6, <2>1
<1>9. /\ parser'.reason = src'.reason /\ parser'.usage = src'.usage
      /\ src'.reason \in ReasonsOf(from) /\ src'.usage \in UsagesOf(from)
  BY <1>6 DEF CInv, Content, Ending, Says
<1>10. \A k \in DOMAIN events : events[k].type # "done"
  BY <1>3, <1>4
<1> QED BY <1>5, <1>6, <1>7, <1>8, <1>9, <1>10, FeedContent

LEMMA BlockDeltaContent == CInv /\ BlockDelta => Content'
<1> SUFFICES ASSUME CInv, BlockDelta PROVE Content'
  OBVIOUS
<1>1. PICK m \in {0, 1} : src.open \in parser.tools <=> m = 1
  <2>1. CASE src.open \in parser.tools
    BY <2>1
  <2>2. CASE src.open \notin parser.tools
    BY <2>2
  <2> QED BY <2>1, <2>2
<1>2. PICK N \in Nat, kind \in Index \cup {Text} :
          N = Len(src.sent) /\ kind = IF m = 1 THEN src.open ELSE Text
  <2>1. (IF m = 1 THEN src.open ELSE Text) \in Index \cup {Text}
    BY <1>1, Facts
  <2> QED BY <2>1, Facts
<1>3. PICK e : /\ e = Event(IF m = 1 THEN "tool_call_delta" ELSE "text_delta", kind, N + 1)
               /\ e.type = (IF m = 1 THEN "tool_call_delta" ELSE "text_delta")
               /\ e.tool = kind /\ e.data = N + 1
  BY EventIs
<1>4. PICK events : /\ events = <<e>> /\ DOMAIN events = {1} /\ events[1] = e
  <2>1. DOMAIN <<e>> = {1} /\ <<e>>[1] = e
    OBVIOUS
  <2> QED BY <2>1
<1>5. PICK t \in Seq(Index \cup {Text}) :
          /\ t = Append(src.sent, kind) /\ t = src.sent \o <<kind>>
          /\ Len(t) = N + 1 /\ t[N + 1] = kind
  <2>1. /\ Append(src.sent, kind) \in Seq(Index \cup {Text})
        /\ Len(Append(src.sent, kind)) = N + 1
        /\ Append(src.sent, kind)[N + 1] = kind
    BY <1>2, Facts, AppendProperties
  <2>2. Append(src.sent, kind) = src.sent \o <<kind>>
    BY <1>2, Facts, AppendIsConcat
  <2> QED BY <2>1, <2>2
<1>6. /\ phase = "reading" /\ from = "anthropic" /\ ~src.final /\ Feed(events)
      /\ src' = [src EXCEPT !.chunks = @ + 1, !.sent = t] /\ parser' = parser
      /\ queue' = events /\ UNCHANGED <<from, to, writer, out>>
  <2>1. Piece(TRUE, IF src.open \in parser.tools THEN "tool_call_delta" ELSE "text_delta",
              IF src.open \in parser.tools THEN src.open ELSE Text,
              Len(src.sent) + 1) = events
    BY <1>1, <1>2, <1>3, <1>4 DEF Piece
  <2>2. Append(src.sent, IF src.open \in parser.tools THEN src.open ELSE Text) = t
    BY <1>1, <1>2, <1>5
  <2>3. src' = [src EXCEPT !.chunks = @ + 1, !.sent = t]
    <3>1. src' = [src EXCEPT !.chunks = @ + 1,
                    !.sent = Append(@, IF src.open \in parser.tools THEN src.open ELSE Text)]
      BY DEF BlockDelta
    <3>2. src \in SourceType
      BY SourceFields DEF CInv
    <3> QED BY <2>2, <3>1, <3>2 DEF SourceType
  <2> QED BY <2>1, <2>3 DEF BlockDelta, Sends, Feed
<1>7. /\ src'.sent = t /\ src'.used = src.used /\ src'.open = src.open
      /\ src'.final = src.final /\ src'.reason = src.reason /\ src'.usage = src.usage
  <2>1. src \in SourceType
    BY SourceFields DEF CInv
  <2> QED BY <1>6, <2>1 DEF SourceType
<1>8. ASSUME Told PROVE (QueueFits /\ ToolsKnown /\ InOrder)'
  <2>1. /\ Count(out) = N /\ parser.tools \subseteq src.used
        /\ \A i \in Index \ parser.tools : writer.tools[i] = None
        /\ \A i \in Index : Live(i) => Opened(writer, out, i)
    BY <1>2, <1>6, <1>8, Waiting
  <2>2. \A i : Live(i)' <=> Live(i)
    BY <1>6, <1>7 DEF Live
  <2>3. QueueFits'
    <3>1. \A k \in DOMAIN events : \A i : ~Starts(events, k, i)
      BY <1>3, <1>4 DEF Starts
    <3>2. m = 1 => Live(kind)
      BY <1>1, <1>2 DEF Live
    <3> SUFFICES ASSUME NEW k \in DOMAIN events
        PROVE  /\ e.type = "text_delta" => t[e.data] = Text
               /\ e.type = "tool_call_delta" => t[e.data] = e.tool /\ Live(e.tool)'
               /\ e.type \notin {"tool_call_start", "tool_call_stop"}
      BY <1>4, <1>6, <1>7, <3>1 DEF QueueFits, Starts
    <3> QED BY <1>2, <1>3, <1>5, <2>2, <3>2
  <2>4. ToolsKnown'
    <3>1. \A i \in Index : Live(i)' => Opened(writer, out, i)'
      BY <1>6, <2>1, <2>2 DEF Opened, Named, HasBlock
    <3> QED BY <1>6, <1>7, <2>1, <3>1 DEF ToolsKnown
  <2>5. InOrder'
    <3>1. Count(out)' = N
      BY <1>6, <2>1 DEF Count, Deltas
    <3>2. IsPiece(e)
      BY <1>3 DEF IsPiece
    <3>3. /\ N <= N + 1 /\ N + 1 \in N + 1 .. N + 1
          /\ \A j \in N + 1 .. N + 1 : j = N + 1
      OBVIOUS
    <3>4. \A k, l \in DOMAIN events : ~(k < l)
      BY <1>4
    <3> QED BY <1>3, <1>4, <1>5, <1>6, <1>7, <3>1, <3>2, <3>3, <3>4 DEF InOrder
  <2> QED BY <2>3, <2>4, <2>5
<1>9. PICK more \in Seq(Index \cup {Text}) : src'.sent = src.sent \o more
  <2>1. <<kind>> \in Seq(Index \cup {Text})
    OBVIOUS
  <2> QED BY <1>5, <1>7, <2>1
<1>10. /\ parser'.reason = src'.reason /\ parser'.usage = src'.usage
       /\ src'.reason \in ReasonsOf(from) /\ src'.usage \in UsagesOf(from)
  BY <1>6, <1>7 DEF CInv, Content, Ending, Says
<1>11. \A k \in DOMAIN events : events[k].type # "done"
  BY <1>3, <1>4
<1> QED BY <1>6, <1>7, <1>8, <1>9, <1>10, <1>11, FeedContent

LEMMA ChunkContent == CInv /\ Chunk => Content'
BY OpenAIDeltaContent, OpenAIFinishContent, OpenAIDoneContent, BlockStartContent,
   BlockDeltaContent, BlockStopContent, MessageBeginContent, MessageDeltaContent,
   MessageStopContent DEF Chunk, Counts

-----------------------------------------------------------------------------
(* The theorems.                                                           *)

\* What a stream carries is inductive: every chunk, event, failure, retry and
\* hang-up keeps it, whatever protocols the two sides speak.
THEOREM StreamsContentInductive == Spec => []CInv
<1>1. Init => CInv
  <2>1. Init => Beginning
    BY DEF Init, Beginning
  <2> QED BY <2>1, InitInv, BeginningContent DEF CInv
<1>2. CInv /\ [Next]_vars => CInv'
  <2> SUFFICES ASSUME CInv, [Next]_vars PROVE CInv'
    OBVIOUS
  <2>1. Returned => UNCHANGED vars
    BY DEF Returned
  <2>2. IInv'
    BY <2>1, ChunkStep, EmitStep, EmitFailsStep, EndOfStreamStep, RetryStep,
       ReportErrorStep, OtherSteps DEF Next, CInv
  <2>3. Content'
    BY <2>1, ChunkContent, EmitContent, EndOfStreamContent, RetryContent,
       ReportErrorContent, OtherContent DEF Next
  <2> QED BY <2>2, <2>3 DEF CInv
<1> QED BY <1>1, <1>2, PTL DEF Spec

\* The parsers, emit and the writers: the client gets the upstream's pieces of
\* text and tool arguments once each and in order, and an answer it is told is
\* complete has them all.
THEOREM StreamsLoseNothing == Spec => []NothingLost
<1>1. CInv => NothingLost
  <2> SUFFICES ASSUME CInv PROVE NothingLost
    OBVIOUS
  <2>1. \A k : Position(k) = Cardinality(Deltas(out, k))
    BY DEF Position, Deltas
  <2>2. \A k \in DOMAIN out : out[k].type = "delta" => out[k].data = Position(k)
    BY <2>1 DEF CInv, Content, Good, Numbered
  <2>3. Completed => Position(Len(out)) = Len(src.sent)
    BY <2>1 DEF CInv, Content, Whole, Count
  <2> QED BY <2>2, <2>3 DEF NothingLost
<1> QED BY <1>1, StreamsContentInductive, PTL

\* toolBlocks, textBlock, msgItemID and callItemIDs: every piece is written
\* into the block, item or tool call begun for what it belongs to, while that
\* is open; also for tool calls whose fragments interleave.
THEOREM StreamsAttribute == Spec => []Attributed
<1>1. CInv => Attributed
  <2> SUFFICES ASSUME CInv, NEW k \in DOMAIN out, out[k].type = "delta"
      PROVE  \/ to = "openai" /\ src.sent[out[k].data] = Text /\ out[k].at = Text
             \/ \E j \in 1..k : /\ out[j] = Open(out[k].at, src.sent[out[k].data])
                                /\ Close(out[k].at) \notin {out[h] : h \in j..k}
    BY DEF Attributed
  <2>1. Placed(out, k, src.sent)
    BY DEF CInv, Content, Good, AllPlaced
  <2> QED BY <2>1 DEF Placed
<1> QED BY <1>1, StreamsContentInductive, PTL

\* finishMessage and finish: a completed answer has closed every block it
\* opened, once, or lists every item it announced, and blocks and items are
\* numbered without gaps.
THEOREM StreamsCloseAll == Spec => []AllClosed
<1>1. CInv => AllClosed
  <2> SUFFICES ASSUME CInv PROVE AllClosed
    OBVIOUS
  <2>1. Opens = OpensIn(out)
    BY DEF Opens, OpensIn
  <2>2. to # "openai" => \A k \in Opens :
            out[k].at = Cardinality({j \in Opens : j < k})
                          + (IF to = "responses" THEN 1 ELSE 0)
    BY <2>1 DEF CInv, Content, Good, Sequenced, Before, First
  <2>3. Completed /\ to = "anthropic" => \A k \in Opens :
            \E j \in DOMAIN out : \A h \in DOMAIN out :
                out[h] = Close(out[k].at) <=> h = j
    BY <2>1 DEF CInv, Content, Whole, ClosedOnce
  <2>4. Completed /\ to = "responses" =>
            /\ Len(Last(out).items) = Cardinality(Opens)
            /\ \A k \in Opens : Contains(Last(out).items, out[k].at)
    BY <2>1 DEF CInv, Content, Whole
  <2> QED BY <2>2, <2>3, <2>4 DEF AllClosed
<1> QED BY <1>1, StreamsContentInductive, PTL

\* The caches of the parsers, irFinishReason, anthropicStopReason and the
\* writers: after a final marker the client has the upstream's reason to stop
\* and each count of its usage its protocol has, but those said only in
\* message_start; and from an Anthropic upstream no total.
THEOREM StreamsKeepFinish == Spec => []FinishKept
<1>1. CInv => FinishKept
  <2> SUFFICES ASSUME CInv, Completed, src.final PROVE FinishKept
    BY DEF FinishKept
  <2>1. /\ Last(out).usage = src.usage \cap Fields(to)
        /\ to # "responses" => Meaning(Last(out).reason) = Meaning(src.reason)
        /\ Says(src, from)
    BY DEF CInv, Content, Whole, Ending
  <2>2. src.usage = Reported \ Lost
    BY DEF Reported, Lost
  <2>3. from = "anthropic" => "total" \notin src.usage
    BY <2>1 DEF Says, UsagesOf
  <2> QED BY <2>1, <2>2, <2>3 DEF FinishKept
<1> QED BY <1>1, StreamsContentInductive, PTL
=============================================================================
