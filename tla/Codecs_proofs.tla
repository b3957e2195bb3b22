--------------------------- MODULE Codecs_proofs ---------------------------
(***************************************************************************)
(* What the conversions of Codecs do to sequences of any length.           *)
(***************************************************************************)
EXTENDS Codecs, Integers, TLAPS, SequenceTheorems, WellFoundedInduction

LEMMA NatMin == ASSUME NEW T \in SUBSET Nat, T # {} PROVE \E n \in T : \A m \in T : n <= m
<1> DEFINE R == OpToRel(<, Nat)
<1>0. R = {ss \in Nat \X Nat : ss[1] < ss[2]}
  BY Zenon DEF OpToRel
<1>3. IsWellFoundedOn(R, Nat)
  BY NatLessThanWellFounded
<1> HIDE DEF R
<1>1. PICK n \in T : \A y \in T : ~(<<y, n>> \in R)
  BY <1>3, WFMin
<1>2. \A m \in T : n <= m
  <2> SUFFICES ASSUME NEW m \in T, m < n PROVE FALSE
     OBVIOUS
  <2>1. <<m, n>> \in Nat \X Nat
    OBVIOUS
  <2>2. <<m, n>>[1] < <<m, n>>[2]
    OBVIOUS
  <2> QED BY <1>0, <1>1, <2>1, <2>2
<1> QED BY <1>2

\* Induction, over a set instead of a predicate.
LEMMA Induct ==
    ASSUME NEW T \in SUBSET Nat, 0 \in T, \A n \in T : n + 1 \in T
    PROVE  T = Nat
<1> SUFFICES ASSUME Nat \ T # {} PROVE FALSE
  OBVIOUS
<1>1. PICK n \in Nat \ T : \A m \in Nat \ T : n <= m
  BY NatMin
<1>2. n - 1 \in Nat /\ n - 1 \notin Nat \ T
  BY <1>1
<1>3. n - 1 \in T /\ n = n - 1 + 1
  BY <1>2
<1> QED BY <1>3

(* FlattenSeq *)
\* The partial concatenations, as FlattenSeq computes them.
Partial(ss, f) ==
    f = [i \in 1..Len(ss) |-> IF i = 1 THEN ss[i] ELSE f[i-1] \o ss[i]]

PartialTo(ss, n, f) ==
    f = [i \in 1..n |-> IF i = 1 THEN ss[i] ELSE f[i-1] \o ss[i]]

Steps(ss, n, f) ==
    /\ n > 0 => f[1] = ss[1]
    /\ \A i \in Nat : i # 0 /\ i + 1 \in 1..n => f[i + 1] = f[i] \o ss[i + 1]

LEMMA PartialGrows ==
    ASSUME NEW ss, NEW m \in Nat, NEW f, PartialTo(ss, m, f)
    PROVE  \E g : PartialTo(ss, m + 1, g)
<1> DEFINE new == IF m = 0 THEN ss[1] ELSE f[m] \o ss[m + 1]
           g == [i \in 1..m + 1 |-> IF i = m + 1 THEN new ELSE f[i]]
<1>1. \A j \in 1..m : f[j] = IF j = 1 THEN ss[j] ELSE f[j - 1] \o ss[j]
  BY DEF PartialTo
<1>2. \A j \in 1..m : g[j] = f[j]
  OBVIOUS
<1>3. g[m + 1] = new
  OBVIOUS
<1>4. g = [i \in 1..m + 1 |-> g[i]]
  OBVIOUS
<1> HIDE DEF g
<1>5. \A i \in 1..m + 1 : g[i] = IF i = 1 THEN ss[i] ELSE g[i - 1] \o ss[i]
  <2> SUFFICES ASSUME NEW i \in 1..m + 1
               PROVE  g[i] = IF i = 1 THEN ss[i] ELSE g[i - 1] \o ss[i]
    OBVIOUS
  <2>1. CASE i = m + 1 /\ m = 0
    BY <2>1, <1>3
  <2>2. CASE i = m + 1 /\ m # 0
    <3>1. i # 1 /\ i - 1 = m /\ m \in 1..m
      BY <2>2
    <3> QED BY <3>1, <2>2, <1>2, <1>3
  <2>3. CASE i # m + 1
    <3>1. i \in 1..m /\ (i # 1 => i - 1 \in 1..m)
      BY <2>3
    <3> QED BY <3>1, <1>1, <1>2
  <2> QED BY <2>1, <2>2, <2>3
<1>6. PartialTo(ss, m + 1, g)
  BY <1>4, <1>5 DEF PartialTo
<1> QED BY <1>6

LEMMA PartialSteps ==
    ASSUME NEW ss, NEW n \in Nat, NEW f, PartialTo(ss, n, f)
    PROVE  Steps(ss, n, f)
<1>1. \A k \in 1..n : f[k] = IF k = 1 THEN ss[k] ELSE f[k - 1] \o ss[k]
  BY DEF PartialTo
<1>2. \A k \in 1..n : \A j : k # 1 /\ j = k - 1 => f[k] = f[j] \o ss[k]
  BY <1>1
<1>3. ASSUME NEW i \in Nat, i # 0, i + 1 \in 1..n
      PROVE  f[i + 1] = f[i] \o ss[i + 1]
  <2>1. i + 1 # 1 /\ i = i + 1 - 1
    BY <1>3
  <2>2. PICK k : k = i + 1
    OBVIOUS
  <2>3. k \in 1..n /\ k # 1 /\ i = k - 1
    BY <1>3, <2>1, <2>2
  <2>4. f[k] = f[i] \o ss[k]
    BY <1>2, <2>3
  <2> QED BY <2>2, <2>4
<1>4. n > 0 => f[1] = ss[1]
  <2>1. n > 0 => 1 \in 1..n
    OBVIOUS
  <2> QED BY <2>1, <1>1
<1> QED BY <1>3, <1>4 DEF Steps

LEMMA PartialExists ==
    ASSUME NEW ss, NEW n \in Nat
    PROVE  \E f : PartialTo(ss, n, f)
<1> DEFINE T == {m \in Nat : \E f : PartialTo(ss, m, f)}
<1>1. 0 \in T
  <2>1. PartialTo(ss, 0, [i \in 1..0 |-> <<>>])
    BY DEF PartialTo
  <2> QED BY <2>1
<1>2. \A m \in T : m + 1 \in T
  BY PartialGrows
<1>3. T \in SUBSET Nat
  OBVIOUS
<1>4. T = Nat
  <2> HIDE DEF T
  <2> QED BY <1>1, <1>2, <1>3, Induct
<1> QED BY <1>4

Computed(ss, n) == \E f : PartialTo(ss, n, f) /\ FlattenSeq(ss) = f[n]

LEMMA FlattenValue ==
    ASSUME NEW ss, Len(ss) \in Nat, Len(ss) # 0
    PROVE  Computed(ss, Len(ss))
<1>1. \E f : PartialTo(ss, Len(ss), f)
  BY PartialExists
<1> DEFINE h == CHOOSE f : PartialTo(ss, Len(ss), f)
<1>2. PartialTo(ss, Len(ss), h)
  BY <1>1
<1>3. FlattenSeq(ss) = h[Len(ss)]
  BY Zenon DEF FlattenSeq, PartialTo
<1> QED BY <1>2, <1>3 DEF Computed

LEMMA SeqInduct ==
    ASSUME NEW X, NEW T \in SUBSET Seq(X), <<>> \in T,
           \A s \in T, x \in X : Append(s, x) \in T
    PROVE  T = Seq(X)
<1> DEFINE N == {n \in Nat : \A s \in Seq(X) : Len(s) = n => s \in T}
<1>1. 0 \in N
  <2>1. \A s \in Seq(X) : Len(s) = 0 => s = <<>>
    BY EmptySeq
  <2> QED BY <2>1
<1>2. ASSUME NEW n \in N, NEW s \in Seq(X), Len(s) = n + 1
      PROVE  s \in T
  <2>1. n \in Nat
    OBVIOUS
  <2>2. s # <<>>
    BY <1>2, <2>1
  <2>3. PICK r \in Seq(X), x \in X : s = Append(r, x)
    BY <2>2, SequenceEmptyOrAppend
  <2>4. Len(s) = Len(r) + 1 /\ Len(r) \in Nat
    BY <2>3, AppendProperties
  <2>5. Len(r) = n
    BY <1>2, <2>1, <2>4
  <2>6. r \in T
    BY <2>5
  <2> QED BY <2>3, <2>6
<1>3. N \in SUBSET Nat /\ \A n \in N : n + 1 \in N
  <2> SUFFICES ASSUME NEW n \in N PROVE n + 1 \in N
    OBVIOUS
  <2>1. \A s \in Seq(X) : Len(s) = n + 1 => s \in T
    BY <1>2
  <2> QED BY <2>1
<1>4. N = Nat
  <2> HIDE DEF N
  <2> QED BY <1>1, <1>3, Induct
<1>5. \A s \in Seq(X) : Len(s) \in Nat
  BY LenProperties
<1> QED BY <1>4, <1>5

LEMMA ConcatAppend ==
    ASSUME NEW X, NEW s \in Seq(X), NEW t \in Seq(X), NEW x \in X
    PROVE  s \o Append(t, x) = Append(s \o t, x)
<1>1. /\ s \o t \in Seq(X) /\ <<x>> \in Seq(X)
      /\ Append(t, x) = t \o <<x>>
  BY ConcatProperties, AppendIsConcat
<1>2. Append(s \o t, x) = (s \o t) \o <<x>>
  BY <1>1, AppendIsConcat
<1> QED BY <1>1, <1>2, ConcatAssociative

Same(f, g, n) == \A i \in 1..n : f[i] = g[i]

LEMMA PartialAgree ==
    ASSUME NEW ss, NEW tt, NEW n \in Nat, NEW m \in Nat, n <= m,
           NEW f, NEW g, PartialTo(ss, n, f), PartialTo(tt, m, g),
           Same(ss, tt, n)
    PROVE  Same(f, g, n)
<1> DEFINE T == {i \in Nat : i \in 1..n => f[i] = g[i]}
<1>0. Steps(ss, n, f) /\ Steps(tt, m, g)
  BY PartialSteps
<1>1. 0 \in T
  OBVIOUS
<1>2. ASSUME NEW i \in Nat, i \in T, i + 1 \in 1..n
      PROVE  f[i + 1] = g[i + 1]
  <2>1. i + 1 \in 1..m
    BY <1>2
  <2>2. CASE i = 0
    BY <2>2, <2>1, <1>2, <1>0 DEF Steps, Same
  <2>3. CASE i # 0
    <3>1. i \in 1..n
      BY <1>2, <2>3
    <3>2. f[i] = g[i]
      BY <1>2, <3>1
    <3>3. f[i + 1] = f[i] \o ss[i + 1]
      BY <1>0, <1>2, <2>3 DEF Steps, Same
    <3>4. g[i + 1] = g[i] \o tt[i + 1]
      BY <1>0, <2>1, <2>3 DEF Steps, Same
    <3> QED BY <1>2, <3>2, <3>3, <3>4 DEF Same
  <2> QED BY <2>2, <2>3
<1>3. T \in SUBSET Nat /\ \A i \in T : i + 1 \in T
  BY <1>2
<1>4. T = Nat
  <2> HIDE DEF T
  <2> QED BY <1>1, <1>3, Induct
<1> QED BY <1>4 DEF Same

LEMMA FlattenEmpty == FlattenSeq(<<>>) = <<>>
BY DEF FlattenSeq

LEMMA FlattenOne ==
    ASSUME NEW s
    PROVE  FlattenSeq(<<s>>) = s
<1>1. PICK ss : ss = <<s>>
  OBVIOUS
<1>2. Len(ss) = 1 /\ ss[1] = s /\ 1 \in Nat
  BY <1>1
<1>3. PICK f : PartialTo(ss, Len(ss), f) /\ FlattenSeq(ss) = f[Len(ss)]
  <2>1. Len(ss) \in Nat /\ Len(ss) # 0
    BY <1>2
  <2>2. Computed(ss, Len(ss))
    BY <2>1, FlattenValue
  <2> QED BY <2>2 DEF Computed
<1>4. Steps(ss, 1, f)
  BY <1>2, <1>3, PartialSteps
<1> QED BY <1>1, <1>2, <1>3, <1>4 DEF Steps

LEMMA FlattenAppend ==
    ASSUME NEW S, NEW ss \in Seq(Seq(S)), NEW s \in Seq(S)
    PROVE  FlattenSeq(Append(ss, s)) = FlattenSeq(ss) \o s
<1> DEFINE tt == Append(ss, s)
           n == Len(ss)
<1>1. /\ n \in Nat /\ Len(tt) = n + 1 /\ tt[n + 1] = s
      /\ \A i \in 1..n : tt[i] = ss[i]
  BY AppendProperties, LenProperties
<1>2. CASE n = 0
  <2>1. ss = <<>>
    BY <1>2, EmptySeq
  <2>2. tt = <<s>>
    BY <2>1
  <2> QED BY <2>1, <2>2, FlattenOne, FlattenEmpty, ConcatEmptySeq
<1>3. CASE n # 0
  <2> HIDE DEF tt, n
  <2>1. PICK g : PartialTo(tt, n + 1, g) /\ FlattenSeq(tt) = g[n + 1]
    <3>1. Len(tt) \in Nat /\ Len(tt) # 0
      BY <1>1
    <3> QED BY <1>1, <3>1, FlattenValue DEF Computed
  <2>2. PICK f : PartialTo(ss, n, f) /\ FlattenSeq(ss) = f[n]
    BY <1>1, <1>3, FlattenValue DEF n, Computed
  <2>3. Same(ss, tt, n)
    BY <1>1 DEF Same
  <2>6. Same(f, g, n)
    <3>1. n \in Nat /\ n + 1 \in Nat /\ n <= n + 1
      BY <1>1
    <3>2. PartialTo(ss, n, f) /\ PartialTo(tt, n + 1, g)
      BY <2>1, <2>2
    <3> QED BY <2>3, <3>1, <3>2, PartialAgree
  <2>4. n \in 1..n /\ n + 1 \in 1..n + 1 /\ n + 1 \in Nat
    BY <1>1, <1>3
  <2>5. g[n + 1] = g[n] \o tt[n + 1]
    BY <2>1, <2>4, <1>1, <1>3, PartialSteps, ZenonT(30) DEF Steps
  <2> QED BY <2>1, <2>2, <2>6, <2>4, <2>5, <1>1 DEF tt, Same
<1> QED BY <1>2, <1>3

LEMMA FlattenType ==
    ASSUME NEW S, NEW ss \in Seq(Seq(S))
    PROVE  FlattenSeq(ss) \in Seq(S)
<1> DEFINE T == {tt \in Seq(Seq(S)) : FlattenSeq(tt) \in Seq(S)}
<1>1. <<>> \in T
  <2>1. <<>> \in Seq(S) /\ <<>> \in Seq(Seq(S))
    OBVIOUS
  <2> QED BY <2>1, FlattenEmpty
<1>2. ASSUME NEW tt \in T, NEW s \in Seq(S)
      PROVE  Append(tt, s) \in T
  <2>1. FlattenSeq(Append(tt, s)) = FlattenSeq(tt) \o s
    BY FlattenAppend
  <2>2. FlattenSeq(tt) \o s \in Seq(S)
    BY ConcatProperties
  <2>3. Append(tt, s) \in Seq(Seq(S))
    BY AppendProperties
  <2> QED BY <2>1, <2>2, <2>3
<1>3. T \in SUBSET Seq(Seq(S))
  OBVIOUS
<1>4. T = Seq(Seq(S))
  <2> HIDE DEF T
  <2> QED BY <1>1, <1>2, <1>3, SeqInduct
<1> QED BY <1>4

LEMMA FlattenConcat ==
    ASSUME NEW S, NEW ss \in Seq(Seq(S)), NEW tt \in Seq(Seq(S))
    PROVE  FlattenSeq(ss \o tt) = FlattenSeq(ss) \o FlattenSeq(tt)
<1> DEFINE T == {uu \in Seq(Seq(S)) : FlattenSeq(ss \o uu) = FlattenSeq(ss) \o FlattenSeq(uu)}
<1>0. FlattenSeq(ss) \in Seq(S)
  BY FlattenType
<1>1. <<>> \in T
  <2>1. ss \o <<>> = ss /\ FlattenSeq(ss) \o <<>> = FlattenSeq(ss)
    BY <1>0, ConcatEmptySeq
  <2>2. FlattenSeq(ss \o <<>>) = FlattenSeq(ss) \o FlattenSeq(<<>>)
    BY <2>1, FlattenEmpty
  <2>3. <<>> \in Seq(Seq(S))
    OBVIOUS
  <2> QED BY <2>2, <2>3
<1>2. ASSUME NEW uu \in T, NEW s \in Seq(S)
      PROVE  Append(uu, s) \in T
  <2>1. ss \o Append(uu, s) = Append(ss \o uu, s)
    <3>1. uu \in Seq(Seq(S))
      OBVIOUS
    <3> QED BY <3>1, ConcatAppend
  <2>2. ss \o uu \in Seq(Seq(S)) /\ Append(uu, s) \in Seq(Seq(S))
    BY ConcatProperties, AppendProperties
  <2>3. FlattenSeq(Append(ss \o uu, s)) = FlattenSeq(ss \o uu) \o s
    BY <2>2, FlattenAppend
  <2>4. FlattenSeq(Append(uu, s)) = FlattenSeq(uu) \o s
    BY FlattenAppend
  <2>5. FlattenSeq(uu) \in Seq(S)
    BY FlattenType
  <2>6. (FlattenSeq(ss) \o FlattenSeq(uu)) \o s = FlattenSeq(ss) \o (FlattenSeq(uu) \o s)
    BY <1>0, <2>5, ConcatAssociative, SMTT(30)
  <2>7. FlattenSeq(ss \o uu) = FlattenSeq(ss) \o FlattenSeq(uu)
    OBVIOUS
  <2>8. FlattenSeq(ss \o Append(uu, s)) = FlattenSeq(ss) \o FlattenSeq(Append(uu, s))
    <3>1. FlattenSeq(ss \o Append(uu, s)) = (FlattenSeq(ss) \o FlattenSeq(uu)) \o s
      BY Zenon, <2>1, <2>3, <2>7
    <3> QED BY Zenon, <2>4, <2>6, <3>1
  <2> QED BY <2>2, <2>8
<1>3. T \in SUBSET Seq(Seq(S))
  OBVIOUS
<1>4. T = Seq(Seq(S))
  <2> HIDE DEF T
  <2> QED BY <1>1, <1>2, <1>3, SeqInduct
<1> QED BY <1>4

\* The rest is stated with these names, which the provers need not open.
IsList(s, X) == s \in Seq(X)
Maps(f, X, Y) == f \in [X -> Y]
Lists(f, X, Y) == f \in [X -> Seq(Y)]

Image(f, s) == [i \in DOMAIN s |-> f[s[i]]]
Flat(f, s) == FlattenSeq(Image(f, s))

Imaged(f, s, a) ==
    /\ Len(a) = Len(s) /\ Len(s) \in Nat
    /\ \A i \in 1..Len(s) : a[i] = f[s[i]]

LEMMA ImageType ==
    ASSUME NEW X, NEW Y, NEW f, Maps(f, X, Y), NEW s, IsList(s, X)
    PROVE  IsList(Image(f, s), Y) /\ Imaged(f, s, Image(f, s))
<1>1. DOMAIN s = 1..Len(s) /\ Len(s) \in Nat /\ \A i \in 1..Len(s) : s[i] \in X
  BY DEF IsList
<1>2. /\ Image(f, s) \in Seq(Y) /\ Len(Image(f, s)) = Len(s)
      /\ \A i \in 1..Len(s) : Image(f, s)[i] = f[s[i]]
  BY <1>1, IsASeq DEF Image, Maps
<1> QED BY <1>1, <1>2 DEF IsList, Imaged

\* u is s followed by t.
Alike(c, d) == Len(c) = Len(d) /\ \A i \in 1..Len(c) : c[i] = d[i]

Joined(s, t, u) ==
    /\ Len(u) = Len(s) + Len(t) /\ Len(s) \in Nat /\ Len(t) \in Nat
    /\ \A i \in 1..Len(s) : i \in 1..Len(u) /\ u[i] = s[i]
    /\ \A i \in 1..Len(t) : Len(s) + i \in 1..Len(u) /\ u[Len(s) + i] = t[i]
    /\ \A i \in 1..Len(u) : i \in 1..Len(s) \/ \E j \in 1..Len(t) : i = Len(s) + j

LEMMA ConcatAt ==
    ASSUME NEW X, NEW s, NEW t, IsList(s, X), IsList(t, X)
    PROVE  IsList(s \o t, X) /\ Joined(s, t, s \o t)
<1>0. s \in Seq(X) /\ t \in Seq(X)
  BY DEF IsList
<1>1. /\ s \o t \in Seq(X)
      /\ Len(s \o t) = Len(s) + Len(t) /\ Len(s) \in Nat /\ Len(t) \in Nat
      /\ \A i \in 1..Len(s) + Len(t) :
             (s \o t)[i] = IF i <= Len(s) THEN s[i] ELSE t[i - Len(s)]
  BY <1>0, ConcatProperties, LenProperties
<1>2. ASSUME NEW i \in 1..Len(s)
      PROVE  i \in 1..Len(s \o t) /\ (s \o t)[i] = s[i]
  BY <1>1
<1>3. ASSUME NEW i \in 1..Len(t)
      PROVE  Len(s) + i \in 1..Len(s \o t) /\ (s \o t)[Len(s) + i] = t[i]
  <2>1. PICK k : k = Len(s) + i
    OBVIOUS
  <2>2. k \in 1..Len(s) + Len(t) /\ ~(k <= Len(s)) /\ k - Len(s) = i
    BY <2>1, <1>1
  <2> QED BY <2>1, <2>2, <1>1
<1>4. ASSUME NEW i \in 1..Len(s \o t), i \notin 1..Len(s)
      PROVE  \E j \in 1..Len(t) : i = Len(s) + j
  <2>1. i - Len(s) \in 1..Len(t) /\ i = Len(s) + (i - Len(s))
    BY <1>1, <1>4
  <2> QED BY <2>1
<1> QED BY <1>1, <1>2, <1>3, <1>4 DEF IsList, Joined

LEMMA JoinedSame ==
    ASSUME NEW X, NEW c, NEW d, IsList(c, X), IsList(d, X), Alike(c, d)
    PROVE  c = d
BY SeqEqual DEF IsList, Alike

LEMMA ImageJoined ==
    ASSUME NEW f, NEW s, NEW t, NEW u, Joined(s, t, u),
           NEW a, NEW b, NEW c, NEW d, Joined(a, b, d),
           Imaged(f, s, a), Imaged(f, t, b), Imaged(f, u, c)
    PROVE  Alike(c, d)
<1>1. Len(c) = Len(d)
  BY DEF Joined, Imaged
<1>2. ASSUME NEW i \in 1..Len(c)
      PROVE  c[i] = d[i]
  <2>0. c[i] = f[u[i]]
    BY DEF Imaged
  <2>1. CASE i \in 1..Len(s)
    <3>1. u[i] = s[i] /\ a[i] = f[s[i]] /\ d[i] = a[i]
      BY <2>1 DEF Joined, Imaged
    <3> QED BY <2>0, <3>1
  <2>2. CASE \E j \in 1..Len(t) : i = Len(s) + j
    <3>1. PICK j \in 1..Len(t) : i = Len(s) + j
      BY <2>2
    <3>2. u[i] = t[j] /\ b[j] = f[t[j]] /\ d[i] = b[j]
      BY <3>1 DEF Joined, Imaged
    <3> QED BY <2>0, <3>2
  <2> QED BY <2>1, <2>2 DEF Joined, Imaged
<1> QED BY <1>1, <1>2 DEF Alike

LEMMA ImageConcat ==
    ASSUME NEW X, NEW Y, NEW f, Maps(f, X, Y), NEW s, IsList(s, X), NEW t, IsList(t, X)
    PROVE  Image(f, s \o t) = Image(f, s) \o Image(f, t)
<1>1. IsList(s \o t, X) /\ Joined(s, t, s \o t)
  BY ConcatAt
<1>2. /\ IsList(Image(f, s), Y) /\ Imaged(f, s, Image(f, s))
      /\ IsList(Image(f, t), Y) /\ Imaged(f, t, Image(f, t))
      /\ IsList(Image(f, s \o t), Y) /\ Imaged(f, s \o t, Image(f, s \o t))
  BY <1>1, ImageType
<1>3. /\ IsList(Image(f, s) \o Image(f, t), Y)
      /\ Joined(Image(f, s), Image(f, t), Image(f, s) \o Image(f, t))
  BY <1>2, ConcatAt
<1> DEFINE c == Image(f, s \o t)  d == Image(f, s) \o Image(f, t)
<1>4. Alike(c, d)
  BY <1>1, <1>2, <1>3, ImageJoined
<1>5. IsList(c, Y) /\ IsList(d, Y)
  BY <1>2, <1>3
<1> HIDE DEF c, d
<1>6. c = d
  BY <1>4, <1>5, JoinedSame
<1> QED BY <1>6 DEF c, d

LEMMA ListFacts ==
    ASSUME NEW X
    PROVE  /\ IsList(<<>>, X)
           /\ \A x \in X : IsList(<<x>>, X)
           /\ \A s, t : IsList(s, X) /\ IsList(t, X) => IsList(s \o t, X)
           /\ \A s : IsList(s, X) => s \o <<>> = s /\ <<>> \o s = s
<1>1. IsList(<<>>, X) /\ \A x \in X : IsList(<<x>>, X)
  BY DEF IsList
<1>3. ASSUME NEW s, NEW t, IsList(s, X), IsList(t, X)
      PROVE  IsList(s \o t, X)
  BY <1>3, ConcatProperties DEF IsList
<1>4. ASSUME NEW s, IsList(s, X)
      PROVE  s \o <<>> = s /\ <<>> \o s = s
  BY <1>4, ConcatEmptySeq DEF IsList
<1> QED BY <1>1, <1>3, <1>4

LEMMA ListAppend ==
    ASSUME NEW X, NEW s, IsList(s, X), NEW x \in X
    PROVE  /\ IsList(Append(s, x), X) /\ IsList(<<x>>, X)
           /\ Append(s, x) = s \o <<x>>
<1>1. s \in Seq(X)
  BY DEF IsList
<1>2. Append(s, x) \in Seq(X) /\ Append(s, x) = s \o <<x>>
  BY <1>1, AppendProperties, AppendIsConcat
<1>3. <<x>> \in Seq(X)
  OBVIOUS
<1> QED BY <1>2, <1>3 DEF IsList

LEMMA ListAssoc ==
    ASSUME NEW X, NEW s, NEW t, NEW u, IsList(s, X), IsList(t, X), IsList(u, X)
    PROVE  (s \o t) \o u = s \o (t \o u)
BY ConcatAssociative DEF IsList

LEMMA ListInduct ==
    ASSUME NEW X, NEW T, \A s \in T : IsList(s, X), <<>> \in T,
           \A s \in T, x \in X : Append(s, x) \in T
    PROVE  \A s : IsList(s, X) => s \in T
<1>1. T \in SUBSET Seq(X)
  BY DEF IsList
<1>2. T = Seq(X)
  BY <1>1, SeqInduct
<1> QED BY <1>2 DEF IsList

LEMMA FlatType ==
    ASSUME NEW X, NEW Y, NEW f, Lists(f, X, Y), NEW s, IsList(s, X)
    PROVE  IsList(Flat(f, s), Y)
<1>1. Maps(f, X, Seq(Y))
  BY DEF Lists, Maps
<1>2. IsList(Image(f, s), Seq(Y))
  BY <1>1, ImageType
<1> QED BY <1>2, FlattenType DEF Flat, IsList

LEMMA FlatEmpty ==
    ASSUME NEW f
    PROVE  Flat(f, <<>>) = <<>>
<1>1. Image(f, <<>>) = <<>>
  <2>1. DOMAIN <<>> = {}
    OBVIOUS
  <2> QED BY <2>1 DEF Image
<1> QED BY <1>1, FlattenEmpty DEF Flat

LEMMA FlatOne ==
    ASSUME NEW f, NEW x
    PROVE  Flat(f, <<x>>) = f[x]
<1>1. Image(f, <<x>>) = <<f[x]>>
  BY DEF Image
<1> QED BY <1>1, FlattenOne DEF Flat

LEMMA FlatConcat ==
    ASSUME NEW X, NEW Y, NEW f, Lists(f, X, Y), NEW s, IsList(s, X), NEW t, IsList(t, X)
    PROVE  Flat(f, s \o t) = Flat(f, s) \o Flat(f, t)
<1>1. Maps(f, X, Seq(Y))
  BY DEF Lists, Maps
<1>2. IsList(Image(f, s), Seq(Y)) /\ IsList(Image(f, t), Seq(Y))
  BY <1>1, ImageType
<1>3. Image(f, s \o t) = Image(f, s) \o Image(f, t)
  BY <1>1, ImageConcat
<1>4. FlattenSeq(Image(f, s) \o Image(f, t)) = FlattenSeq(Image(f, s)) \o FlattenSeq(Image(f, t))
  BY <1>2, FlattenConcat DEF IsList
<1> QED BY <1>3, <1>4 DEF Flat

LEMMA FlatAppend ==
    ASSUME NEW X, NEW Y, NEW f, Lists(f, X, Y), NEW s, IsList(s, X), NEW x \in X
    PROVE  Flat(f, Append(s, x)) = Flat(f, s) \o f[x]
<1>1. PICK t : t = <<x>>
  OBVIOUS
<1>2. IsList(t, X) /\ Append(s, x) = s \o t
  BY <1>1, ListAppend
<1>3. Flat(f, s \o t) = Flat(f, s) \o Flat(f, t)
  BY <1>2, FlatConcat
<1>4. Flat(f, t) = f[x]
  BY <1>1, FlatOne
<1> QED BY <1>2, <1>3, <1>4

LEMMA FlatSame ==
    ASSUME NEW X, NEW s, IsList(s, X), NEW f, NEW g, \A x \in X : f[x] = g[x]
    PROVE  Flat(f, s) = Flat(g, s)
<1>1. \A i \in DOMAIN s : f[s[i]] = g[s[i]]
  BY DEF IsList
<1>2. Image(f, s) = Image(g, s)
  BY <1>1 DEF Image
<1> QED BY <1>2 DEF Flat

\* A property of Flat that holds for <<>> and is kept by one more element.
LEMMA FlatFlatAppend ==
    ASSUME NEW X, NEW Y, NEW Z, NEW f, NEW g, Lists(f, X, Y), Lists(g, Y, Z),
           NEW s, IsList(s, X), NEW x \in X
    PROVE  Flat(g, Flat(f, Append(s, x))) = Flat(g, Flat(f, s)) \o Flat(g, f[x])
<1>1. Flat(f, Append(s, x)) = Flat(f, s) \o f[x]
  BY FlatAppend
<1>2. IsList(Flat(f, s), Y)
  BY FlatType
<1>3. IsList(f[x], Y)
  BY DEF Lists, IsList
<1>4. Flat(g, Flat(f, s) \o f[x]) = Flat(g, Flat(f, s)) \o Flat(g, f[x])
  BY <1>2, <1>3, FlatConcat
<1> QED BY <1>1, <1>4

LEMMA FlatFused ==
    ASSUME NEW X, NEW Y, NEW Z, NEW f, NEW g, Lists(f, X, Y), Lists(g, Y, Z),
           NEW k, \A x \in X : k[x] = Flat(g, f[x]), Lists(k, X, Z)
    PROVE  \A s : IsList(s, X) => Flat(g, Flat(f, s)) = Flat(k, s)
<1> DEFINE T == {t \in Seq(X) : Flat(g, Flat(f, t)) = Flat(k, t)}
<1>2. <<>> \in T
  <2>1. <<>> \in Seq(X)
    OBVIOUS
  <2>2. Flat(f, <<>>) = <<>> /\ Flat(g, <<>>) = <<>> /\ Flat(k, <<>>) = <<>>
    BY FlatEmpty
  <2> QED BY <2>1, <2>2
<1>3. ASSUME NEW t \in T, NEW x \in X
      PROVE  Append(t, x) \in T
  <2>1. IsList(t, X) /\ Flat(g, Flat(f, t)) = Flat(k, t)
    BY DEF IsList
  <2> HIDE DEF T
  <2>2. Flat(g, Flat(f, Append(t, x))) = Flat(g, Flat(f, t)) \o Flat(g, f[x])
    BY <2>1, FlatFlatAppend
  <2>3. Flat(k, Append(t, x)) = Flat(k, t) \o k[x]
    BY <2>1, FlatAppend
  <2>4. Append(t, x) \in Seq(X)
    BY <2>1, ListAppend DEF IsList
  <2> QED BY <2>1, <2>2, <2>3, <2>4 DEF T
<1>4. \A t \in T : IsList(t, X)
  BY DEF IsList
<1>5. \A s : IsList(s, X) => s \in T
  <2> HIDE DEF T
  <2> QED BY <1>2, <1>3, <1>4, ListInduct
<1> QED BY <1>5

LEMMA FlatFlat ==
    ASSUME NEW X, NEW Y, NEW Z, NEW f, NEW g, Lists(f, X, Y), Lists(g, Y, Z),
           NEW h, \A x \in X : h[x] = Flat(g, f[x]), NEW s, IsList(s, X)
    PROVE  Flat(g, Flat(f, s)) = Flat(h, s)
<1> DEFINE k == [x \in X |-> Flat(g, f[x])]
<1>1. \A x \in X : k[x] = Flat(g, f[x]) /\ k[x] = h[x]
  OBVIOUS
<1>2. Lists(k, X, Z)
  <2>1. \A x \in X : IsList(f[x], Y)
    BY DEF Lists, IsList
  <2>2. \A x \in X : IsList(Flat(g, f[x]), Z)
    BY <2>1, FlatType
  <2> QED BY <2>2 DEF Lists, IsList
<1> HIDE DEF k
<1>3. Flat(g, Flat(f, s)) = Flat(k, s)
  BY <1>1, <1>2, FlatFused
<1>4. Flat(k, s) = Flat(h, s)
  BY <1>1, FlatSame
<1> QED BY <1>3, <1>4

LEMMA FlatNone ==
    ASSUME NEW X, NEW s, IsList(s, X), NEW f, \A x \in X : f[x] = <<>>
    PROVE  Flat(f, s) = <<>>
<1> DEFINE k == [x \in X |-> <<>>]
           T == {t \in Seq(X) : Flat(k, t) = <<>>}
<1>0. \A x \in X : k[x] = <<>>
  OBVIOUS
<1>1. Lists(k, X, X)
  BY DEF Lists
<1> HIDE DEF k
<1>2. <<>> \in T
  <2>1. <<>> \in Seq(X) /\ Flat(k, <<>>) = <<>>
    BY FlatEmpty
  <2> QED BY <2>1
<1>3. ASSUME NEW t \in T, NEW x \in X
      PROVE  Append(t, x) \in T
  <2>1. IsList(t, X) /\ Flat(k, t) = <<>>
    BY DEF IsList
  <2> HIDE DEF T
  <2>2. Flat(k, Append(t, x)) = Flat(k, t) \o k[x]
    BY <1>1, <2>1, FlatAppend
  <2>3. Flat(k, Append(t, x)) = <<>>
    BY <1>0, <2>1, <2>2
  <2>4. Append(t, x) \in Seq(X)
    BY <2>1, ListAppend DEF IsList
  <2> QED BY <2>3, <2>4 DEF T
<1>4. \A t \in T : IsList(t, X)
  BY DEF IsList
<1>5. s \in T
  <2> HIDE DEF T
  <2> QED BY <1>2, <1>3, <1>4, ListInduct
<1>6. Flat(k, s) = Flat(f, s)
  BY <1>0, FlatSame
<1> QED BY <1>5, <1>6

LEMMA FlatAll ==
    ASSUME NEW X, NEW s, IsList(s, X), NEW f, \A x \in X : f[x] = <<x>>
    PROVE  Flat(f, s) = s
<1> DEFINE k == [x \in X |-> <<x>>]
           T == {t \in Seq(X) : Flat(k, t) = t}
<1>0. \A x \in X : k[x] = <<x>>
  OBVIOUS
<1>1. Lists(k, X, X)
  BY DEF Lists
<1> HIDE DEF k
<1>2. <<>> \in T
  <2>1. <<>> \in Seq(X) /\ Flat(k, <<>>) = <<>>
    BY FlatEmpty
  <2> QED BY <2>1
<1>3. ASSUME NEW t \in T, NEW x \in X
      PROVE  Append(t, x) \in T
  <2>1. IsList(t, X) /\ Flat(k, t) = t
    BY DEF IsList
  <2> HIDE DEF T
  <2>2. Flat(k, Append(t, x)) = Flat(k, t) \o k[x]
    BY <1>1, <2>1, FlatAppend, SMTT(30)
  <2>3. Append(t, x) \in Seq(X) /\ Append(t, x) = t \o <<x>>
    BY <2>1, ListAppend DEF IsList
  <2> QED BY <1>0, <2>1, <2>2, <2>3 DEF T
<1>4. \A t \in T : IsList(t, X)
  BY DEF IsList
<1>5. s \in T
  <2> HIDE DEF T
  <2> QED BY <1>2, <1>3, <1>4, ListInduct
<1>6. Flat(k, s) = Flat(f, s)
  BY <1>0, FlatSame
<1> QED BY <1>5, <1>6

LEMMA Listed ==
    ASSUME NEW X, NEW s, IsList(s, X)
    PROVE  \A i \in DOMAIN s : s[i] \in X
BY DEF IsList

LEMMA Wider ==
    ASSUME NEW X, NEW Y, X \subseteq Y, NEW s, IsList(s, X)
    PROVE  IsList(s, Y)
BY DEF IsList

LEMMA ImageAppend ==
    ASSUME NEW X, NEW Y, NEW f, Maps(f, X, Y), NEW s, IsList(s, X), NEW x \in X
    PROVE  Image(f, Append(s, x)) = Append(Image(f, s), f[x])
<1>1. PICK t : t = <<x>>
  OBVIOUS
<1>2. IsList(t, X) /\ Append(s, x) = s \o t
  BY <1>1, ListAppend
<1>3. Image(f, s \o t) = Image(f, s) \o Image(f, t)
  BY <1>2, ImageConcat
<1>4. Image(f, t) = <<f[x]>>
  BY <1>1 DEF Image
<1>5. f[x] \in Y /\ IsList(Image(f, s), Y)
  BY ImageType DEF Maps
<1>6. Append(Image(f, s), f[x]) = Image(f, s) \o <<f[x]>>
  BY <1>5, ListAppend
<1> QED BY <1>2, <1>3, <1>4, <1>6

LEMMA FlatSingles ==
    ASSUME NEW X, NEW Y, NEW f, Maps(f, X, Y), NEW g, \A x \in X : g[x] = <<f[x]>>
    PROVE  \A s : IsList(s, X) => Flat(g, s) = Image(f, s)
<1> DEFINE k == [x \in X |-> <<f[x]>>]
           T == {t \in Seq(X) : Flat(k, t) = Image(f, t)}
<1>0. \A x \in X : k[x] = <<f[x]>> /\ k[x] = g[x]
  OBVIOUS
<1>1. Lists(k, X, Y)
  <2>1. \A x \in X : IsList(<<f[x]>>, Y)
    BY ListFacts DEF Maps
  <2> QED BY <2>1 DEF Lists, IsList
<1> HIDE DEF k
<1>2. <<>> \in T
  <2>1. Image(f, <<>>) = <<>>
    <3>1. DOMAIN <<>> = {}
      OBVIOUS
    <3> QED BY <3>1 DEF Image
  <2>2. <<>> \in Seq(X) /\ Flat(k, <<>>) = <<>>
    BY FlatEmpty
  <2> QED BY <2>1, <2>2
<1>3. ASSUME NEW t \in T, NEW x \in X
      PROVE  Append(t, x) \in T
  <2>1. IsList(t, X) /\ Flat(k, t) = Image(f, t)
    BY DEF IsList
  <2> HIDE DEF T
  <2>2. Flat(k, Append(t, x)) = Flat(k, t) \o k[x]
    BY <1>1, <2>1, FlatAppend
  <2>3. Image(f, Append(t, x)) = Append(Image(f, t), f[x])
    BY <2>1, ImageAppend
  <2>4. f[x] \in Y /\ IsList(Image(f, t), Y)
    BY <2>1, ImageType DEF Maps
  <2>5. Append(Image(f, t), f[x]) = Image(f, t) \o <<f[x]>>
    BY <2>4, ListAppend
  <2>6. Append(t, x) \in Seq(X)
    BY <2>1, ListAppend DEF IsList
  <2> QED BY <1>0, <2>1, <2>2, <2>3, <2>5, <2>6 DEF T
<1>4. \A t \in T : IsList(t, X)
  BY DEF IsList
<1>5. \A s : IsList(s, X) => s \in T
  <2> HIDE DEF T
  <2> QED BY <1>2, <1>3, <1>4, ListInduct
<1>6. \A s : IsList(s, X) => Flat(k, s) = Image(f, s)
  BY <1>5
<1>7. \A s : IsList(s, X) => Flat(k, s) = Flat(g, s)
  BY <1>0, FlatSame
<1> QED BY <1>6, <1>7

\* An empty result has only empty parts.
LEMMA FlatEmptyParts ==
    ASSUME NEW X, NEW Y, NEW f, Lists(f, X, Y)
    PROVE  \A s : IsList(s, X) => (Flat(f, s) = <<>> => \A i \in DOMAIN s : f[s[i]] = <<>>)
<1> DEFINE Hollow(t) == Flat(f, t) = <<>> => \A i \in DOMAIN t : f[t[i]] = <<>>
           T == {t \in Seq(X) : Hollow(t)}
<1>2. <<>> \in T
  <2>1. DOMAIN <<>> = {}
    OBVIOUS
  <2>2. <<>> \in Seq(X)
    OBVIOUS
  <2> QED BY <2>1, <2>2
<1>3. ASSUME NEW t \in T, NEW x \in X
      PROVE  Append(t, x) \in T
  <2>1. IsList(t, X) /\ Hollow(t)
    BY DEF IsList
  <2> HIDE DEF T, Hollow
  <2>2. Flat(f, Append(t, x)) = Flat(f, t) \o f[x]
    BY <2>1, FlatAppend
  <2>3. IsList(Flat(f, t), Y) /\ IsList(f[x], Y)
    BY <2>1, FlatType DEF Lists, IsList
  <2>4. Flat(f, t) \o f[x] = <<>> => Flat(f, t) = <<>> /\ f[x] = <<>>
    BY <2>3 DEF IsList
  <2>5. Append(t, x) \in Seq(X)
    BY <2>1, ListAppend DEF IsList
  <2>6. t \in Seq(X)
    BY <2>1 DEF IsList
  <2>7. \A i \in DOMAIN Append(t, x) : Append(t, x)[i] = x \/ (i \in DOMAIN t /\ Append(t, x)[i] = t[i])
    BY <2>6
  <2>8. Hollow(Append(t, x))
    BY <2>1, <2>2, <2>4, <2>7 DEF Hollow
  <2> QED BY <2>5, <2>8 DEF T
<1>4. \A t \in T : IsList(t, X)
  BY DEF IsList
<1>5. \A s : IsList(s, X) => s \in T
  <2> HIDE DEF T
  <2> QED BY <1>2, <1>3, <1>4, ListInduct
<1> QED BY <1>5

\* A sequence around one of its places.
Fore(s, u) == SubSeq(s, 1, u - 1)
Rear(s, u) == SubSeq(s, u + 1, Len(s))

LEMMA Sides ==
    ASSUME NEW X, NEW s, IsList(s, X), NEW u \in 1..Len(s)
    PROVE  /\ IsList(Fore(s, u), X) /\ Len(Fore(s, u)) = u - 1
           /\ \A i \in 1..u - 1 : Fore(s, u)[i] = s[i]
           /\ IsList(Rear(s, u), X) /\ Len(Rear(s, u)) = Len(s) - u
           /\ \A i \in 1..Len(s) - u : Rear(s, u)[i] = s[u + i]
<1>1. s \in Seq(X) /\ Len(s) \in Nat
  BY DEF IsList
<1>2. /\ Fore(s, u) \in Seq(X) /\ Len(Fore(s, u)) = u - 1
      /\ \A i \in 1..u - 1 : Fore(s, u)[i] = s[i]
  <2>1. 1 \in 1..Len(s) + 1 /\ u - 1 \in 0..Len(s)
    BY <1>1
  <2> QED BY <1>1, <2>1, SubSeqProperties DEF Fore
<1>3. /\ Rear(s, u) \in Seq(X) /\ Len(Rear(s, u)) = Len(s) - u
      /\ \A i \in 1..Len(s) - u : Rear(s, u)[i] = s[u + i]
  <2>1. u + 1 \in 1..Len(s) + 1 /\ Len(s) \in 0..Len(s)
    BY <1>1
  <2> QED BY <1>1, <2>1, SubSeqProperties DEF Rear
<1> QED BY <1>2, <1>3 DEF IsList

LEMMA Around ==
    ASSUME NEW X, NEW s, IsList(s, X), NEW u \in 1..Len(s), NEW y \in X
    PROVE  [s EXCEPT ![u] = y] = (Fore(s, u) \o <<y>>) \o Rear(s, u)
<1> DEFINE a == Fore(s, u)  b == Rear(s, u)  d == [s EXCEPT ![u] = y]
<1>0. s \in Seq(X) /\ Len(s) \in Nat /\ DOMAIN s = 1..Len(s)
  BY DEF IsList
<1>1. /\ IsList(d, X) /\ Len(d) = Len(s) /\ d[u] = y
      /\ \A i \in 1..Len(s) : i # u => d[i] = s[i]
  BY <1>0 DEF IsList
<1>2. /\ IsList(a, X) /\ Len(a) = u - 1
      /\ \A i \in 1..u - 1 : a[i] = s[i]
      /\ IsList(b, X) /\ Len(b) = Len(s) - u
      /\ \A i \in 1..Len(s) - u : b[i] = s[u + i]
  BY Sides
<1> HIDE DEF a, b, d
<1>3. PICK t : t = <<y>>
  OBVIOUS
<1>4. IsList(t, X) /\ Len(t) = 1 /\ t[1] = y
  BY <1>3 DEF IsList
<1>5. PICK c : c = a \o t
  OBVIOUS
<1>6. IsList(c, X) /\ Joined(a, t, c)
  BY <1>2, <1>4, <1>5, ConcatAt
<1>7. PICK e : e = c \o b
  OBVIOUS
<1>8. IsList(e, X) /\ Joined(c, b, e)
  BY <1>2, <1>6, <1>7, ConcatAt
<1>9. Len(c) = u /\ Len(e) = Len(s)
  BY <1>0, <1>2, <1>4, <1>6, <1>8 DEF Joined
<1>10. ASSUME NEW i \in 1..Len(s)
       PROVE  d[i] = e[i]
  <2>1. CASE i < u
    <3>1. i \in 1..Len(a) /\ i \in 1..u - 1 /\ i \in 1..Len(c)
      BY <2>1, <1>2, <1>9
    <3>2. c[i] = a[i] /\ e[i] = c[i] /\ a[i] = s[i]
      BY <3>1, <1>2, <1>6, <1>8 DEF Joined
    <3> QED BY <3>2, <2>1, <1>1
  <2>2. CASE i = u
    <3>1. u = Len(a) + 1 /\ 1 \in 1..Len(t) /\ u \in 1..Len(c)
      BY <1>2, <1>4, <1>9
    <3>2. c[Len(a) + 1] = t[1] /\ e[u] = c[u]
      BY <3>1, <1>6, <1>8 DEF Joined
    <3> QED BY <3>1, <3>2, <2>2, <1>1, <1>4
  <2>3. CASE i > u
    <3>1. PICK j \in 1..Len(s) - u : i = u + j
      <4>1. i - u \in 1..Len(s) - u /\ i = u + (i - u)
        BY <2>3, <1>0
      <4> QED BY <4>1
    <3>2. e[Len(c) + j] = b[j] /\ b[j] = s[u + j]
      BY <3>1, <1>2, <1>8 DEF Joined
    <3> QED BY <3>1, <3>2, <2>3, <1>1, <1>9
  <2> QED BY <2>1, <2>2, <2>3, <1>0
<1>11. Alike(d, e)
  BY <1>1, <1>9, <1>10 DEF Alike
<1>12. d = e
  BY <1>1, <1>8, <1>11, JoinedSame
<1> QED BY <1>3, <1>5, <1>7, <1>12 DEF a, b, d

\* The same for functions that need not be defined on X alone.
Gives(f, X, Y) == \A x \in X : IsList(f[x], Y)
Fuses(h, g, f, X) == \A x \in X : h[x] = Flat(g, f[x])

LEMMA GivesLists ==
    ASSUME NEW X, NEW Y, NEW f
    PROVE  /\ Lists(f, X, Y) => Gives(f, X, Y)
           /\ Gives(f, X, Y) => Lists([x \in X |-> f[x]], X, Y)
           /\ \A s : IsList(s, X) => Flat(f, s) = Flat([x \in X |-> f[x]], s)
<1>1. Lists(f, X, Y) => Gives(f, X, Y)
  BY DEF Lists, Gives, IsList
<1>2. Gives(f, X, Y) => Lists([x \in X |-> f[x]], X, Y)
  BY DEF Lists, Gives, IsList
<1>3. ASSUME NEW s, IsList(s, X)
      PROVE  Flat(f, s) = Flat([x \in X |-> f[x]], s)
  <2> DEFINE k == [x \in X |-> f[x]]
  <2>1. \A x \in X : f[x] = k[x]
    OBVIOUS
  <2> HIDE DEF k
  <2>2. Flat(f, s) = Flat(k, s)
    BY <1>3, <2>1, FlatSame
  <2> QED BY <2>2 DEF k
<1> QED BY <1>1, <1>2, <1>3

LEMMA FlatGives ==
    ASSUME NEW X, NEW Y, NEW f, Gives(f, X, Y), NEW s, IsList(s, X)
    PROVE  IsList(Flat(f, s), Y)
<1>1. PICK k : k = [x \in X |-> f[x]]
  OBVIOUS
<1>2. Lists(k, X, Y) /\ Flat(f, s) = Flat(k, s)
  BY <1>1, GivesLists
<1> QED BY <1>2, FlatType

LEMMA FlatJoin ==
    ASSUME NEW X, NEW Y, NEW f, Gives(f, X, Y), NEW s, IsList(s, X), NEW t, IsList(t, X)
    PROVE  Flat(f, s \o t) = Flat(f, s) \o Flat(f, t)
<1>1. PICK k : k = [x \in X |-> f[x]]
  OBVIOUS
<1>2. IsList(s \o t, X)
  BY ListFacts
<1>3. /\ Lists(k, X, Y) /\ Flat(f, s) = Flat(k, s) /\ Flat(f, t) = Flat(k, t)
      /\ Flat(f, s \o t) = Flat(k, s \o t)
  BY <1>1, <1>2, GivesLists
<1>4. Flat(k, s \o t) = Flat(k, s) \o Flat(k, t)
  <2>1. Lists(k, X, Y)
    BY <1>3
  <2> QED BY <2>1, FlatConcat
<1> QED BY <1>3, <1>4

LEMMA FlatThen ==
    ASSUME NEW X, NEW Y, NEW Z, NEW f, NEW g, Gives(f, X, Y), Gives(g, Y, Z),
           NEW h, Fuses(h, g, f, X), NEW s, IsList(s, X)
    PROVE  Flat(g, Flat(f, s)) = Flat(h, s)
<1>1. PICK k : k = [x \in X |-> f[x]]
  OBVIOUS
<1>2. PICK l : l = [y \in Y |-> g[y]]
  OBVIOUS
<1>3. Lists(k, X, Y) /\ Flat(f, s) = Flat(k, s)
  BY <1>1, GivesLists
<1>4. Lists(l, Y, Z) /\ \A t : IsList(t, Y) => Flat(g, t) = Flat(l, t)
  BY <1>2, GivesLists
<1>5. IsList(Flat(k, s), Y)
  BY <1>3, FlatType
<1>6. \A x \in X : h[x] = Flat(l, k[x])
  BY <1>1, <1>4 DEF Fuses, Gives
<1>7. Flat(l, Flat(k, s)) = Flat(h, s)
  BY <1>3, <1>4, <1>6, FlatFlat
<1> QED BY <1>3, <1>4, <1>5, <1>7
=============================================================================
