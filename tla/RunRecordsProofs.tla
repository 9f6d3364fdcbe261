--------------------------- MODULE RunRecordsProofs ---------------------------
(***************************************************************************)
(* The records of a run, for any final states, bounds and page size: one   *)
(* lineage, claims that find their evidence, no status better than what    *)
(* was measured, sessions that judge the whole of what is recorded.        *)
(***************************************************************************)
EXTENDS RunRecords, FiniteSetTheorems, SequenceTheorems, WellFoundedInduction, TLAPS

---------------------------------------------------------------------------
(* Sequences: what FlattenSeq joins, by induction over its recursion       *)

(* A set of naturals that is not empty has a smallest element.             *)
LEMMA SmallestExists ==
  ASSUME NEW S, S \subseteq Nat, S # {}
  PROVE  \E m \in S : \A n \in S : m <= n
<1>1. IsWellFoundedOn(OpToRel(<, Nat), Nat)
  BY NatLessThanWellFounded
<1>2. PICK m \in S : \A n \in S : <<n, m>> \notin OpToRel(<, Nat)
  BY <1>1, WFMin
<1>3. OpToRel(<, Nat) = {ss \in Nat \X Nat : ss[1] < ss[2]}
  BY DEF OpToRel
<1>4. \A n \in S : <<n, m>> \notin {ss \in Nat \X Nat : ss[1] < ss[2]}
  BY <1>2, <1>3
<1>5. ASSUME NEW n \in S, ~(m <= n)  PROVE FALSE
  <2>1. n \in Nat /\ m \in Nat /\ n < m
    BY <1>5
  <2>2. PICK p \in Nat \X Nat : p = <<n, m>>
    BY <2>1
  <2>3. p[1] = n /\ p[2] = m
    BY <2>2
  <2>. QED
    BY <1>4, <2>1, <2>2, <2>3
<1>. QED
  BY <1>5

(* What is true of 0 and goes from each number to the next is true of all: *)
(* for a set of numbers.                                                   *)
LEMMA Induction ==
  ASSUME NEW T, 0 \in T, \A n \in Nat : n \in T => n + 1 \in T
  PROVE  Nat \subseteq T
<1>1. SUFFICES ASSUME Nat \ T # {}  PROVE FALSE
  OBVIOUS
<1>2. PICK m \in Nat \ T : \A n \in Nat \ T : m <= n
  BY <1>1, SmallestExists
<1>3. m # 0 /\ m - 1 \in Nat /\ m - 1 + 1 = m
  BY <1>2
<1>4. m - 1 \in T
  BY <1>2, <1>3
<1>. QED
  BY <1>2, <1>3, <1>4

(* The function that FlattenSeq recurs with.                               *)
Flattens(f, seqs, n) ==
  f = [i \in 1 .. n |-> IF i = 1 THEN seqs[i] ELSE f[i - 1] \o seqs[i]]

LEMMA FlattenExists ==
  ASSUME NEW seqs, NEW n \in Nat
  PROVE  \E f : Flattens(f, seqs, n)
<1>. DEFINE T == {k \in Nat : \E f : Flattens(f, seqs, k)}
<1>1. 0 \in T
  <2>1. Flattens([i \in 1 .. 0 |-> 0], seqs, 0)
    BY DEF Flattens
  <2>. QED
    BY <2>1
<1>2. ASSUME NEW k \in Nat, k \in T  PROVE k + 1 \in T
  <2>1. PICK g : Flattens(g, seqs, k)
    BY <1>2
  <2>2. PICK f : f = [i \in 1 .. k + 1 |->
                        IF i \in 1 .. k THEN g[i]
                        ELSE IF i = 1 THEN seqs[i] ELSE g[i - 1] \o seqs[i]]
    OBVIOUS
  <2>3. ASSUME NEW i \in 1 .. k + 1
        PROVE  f[i] = IF i = 1 THEN seqs[i] ELSE f[i - 1] \o seqs[i]
    <3>1. i # 1 => i - 1 \in 1 .. k /\ f[i - 1] = g[i - 1]
      BY <2>2
    <3>2. CASE i \in 1 .. k
      <4>1. f[i] = g[i]
        BY <2>2, <3>2
      <4>2. g[i] = IF i = 1 THEN seqs[i] ELSE g[i - 1] \o seqs[i]
        BY <2>1, <3>2 DEF Flattens
      <4>. QED
        BY <3>1, <4>1, <4>2
    <3>3. CASE i \notin 1 .. k
      BY <2>2, <3>1, <3>3
    <3>. QED
      BY <3>2, <3>3
  <2>4. Flattens(f, seqs, k + 1)
    BY <2>2, <2>3, ZenonT(30) DEF Flattens
  <2>. QED
    BY <2>4
<1>. HIDE DEF T
<1>3. Nat \subseteq T
  BY <1>1, <1>2, Induction
<1>. QED
  BY <1>3 DEF T

LEMMA FlattenUnfolds ==
  ASSUME NEW seqs, Len(seqs) \in Nat \ {0}
  PROVE  \E f : Flattens(f, seqs, Len(seqs)) /\ FlattenSeq(seqs) = f[Len(seqs)]
<1>1. FlattenSeq(seqs) = (CHOOSE f : Flattens(f, seqs, Len(seqs)))[Len(seqs)]
  BY DEF FlattenSeq, Flattens
<1>. QED
  BY <1>1, FlattenExists

LEMMA LargestExists ==
  ASSUME NEW S, NEW n \in Nat, S \subseteq 1 .. n, S # {}
  PROVE  \E m \in S : \A i \in S : i <= m
<1>. DEFINE T == {k \in 0 .. n : n - k \in S}
<1>1. T \subseteq Nat /\ T # {}
  <2>1. PICK i \in S : TRUE
    OBVIOUS
  <2>2. i \in 1 .. n /\ n - (n - i) = i /\ n - i \in 0 .. n
    BY <2>1
  <2>3. n - i \in T
    BY <2>1, <2>2
  <2>4. \A k \in T : k \in Nat
    OBVIOUS
  <2>. HIDE DEF T
  <2>. QED
    BY <2>3, <2>4
<1>2. PICK k \in T : \A j \in T : k <= j
  BY <1>1, SmallestExists
<1>3. ASSUME NEW i \in S  PROVE i <= n - k
  <2>1. i \in 1 .. n /\ n - (n - i) = i /\ n - i \in 0 .. n
    BY <1>3
  <2>2. n - i \in T
    BY <1>3, <2>1
  <2>. QED
    BY <1>2, <2>1, <2>2
<1>. QED
  BY <1>2, <1>3

(* What holds of the first of the sequences, and is kept by joining the    *)
(* next one, holds of all of them joined.                                  *)
LEMMA FlattenInduction ==
  ASSUME NEW seqs, Len(seqs) \in Nat \ {0}, NEW T,
         <<1, seqs[1]>> \in T,
         \A k \in 1 .. Len(seqs) : \A g :
           k < Len(seqs) /\ <<k, g>> \in T => <<k + 1, g \o seqs[k + 1]>> \in T
  PROVE  <<Len(seqs), FlattenSeq(seqs)>> \in T
<1>1. PICK f : Flattens(f, seqs, Len(seqs)) /\ FlattenSeq(seqs) = f[Len(seqs)]
  BY FlattenUnfolds
<1>. DEFINE U == {k \in Nat : k \in 1 .. Len(seqs) => <<k, f[k]>> \in T}
<1>2. \A k \in 1 .. Len(seqs) : f[k] = IF k = 1 THEN seqs[k] ELSE f[k - 1] \o seqs[k]
  BY <1>1 DEF Flattens
<1>3. ASSUME NEW k \in Nat, k \in U  PROVE k + 1 \in U
  <2>1. CASE k = 0
    BY <1>2, <2>1
  <2>2. CASE k # 0 /\ k < Len(seqs)
    <3>1. k \in 1 .. Len(seqs) /\ k + 1 \in 1 .. Len(seqs) /\ k + 1 # 1 /\ k + 1 - 1 = k
      BY <2>2
    <3>2. f[k + 1] = f[k] \o seqs[k + 1]
      <4>1. PICK m \in 1 .. Len(seqs) : m = k + 1 /\ m # 1 /\ m - 1 = k
        BY <3>1
      <4>2. f[m] = f[m - 1] \o seqs[m]
        BY <1>2, <4>1
      <4>. QED
        BY <4>1, <4>2
    <3>3. <<k, f[k]>> \in T
      BY <1>3, <3>1
    <3>4. <<k + 1, f[k] \o seqs[k + 1]>> \in T
      BY <2>2, <3>1, <3>3
    <3>5. <<k + 1, f[k + 1]>> \in T
      BY <3>2, <3>4
    <3>. QED
      BY <3>1, <3>5
  <2>3. CASE ~(k < Len(seqs))
    BY <2>3
  <2>. QED
    BY <2>1, <2>2, <2>3
<1>. HIDE DEF U
<1>4. 0 \in U
  BY DEF U
<1>5. Len(seqs) \in U
  BY <1>3, <1>4, Induction
<1>. QED
  BY <1>1, <1>5 DEF U

(* Joined sequences are of the same elements, at least as many as there    *)
(* are sequences when none is empty.                                       *)
LEMMA FlattenFits ==
  ASSUME NEW S, NEW seqs \in Seq(Seq(S))
  PROVE  /\ FlattenSeq(seqs) \in Seq(S)
         /\ \A j \in 1 .. Len(FlattenSeq(seqs)) :
              \E i \in 1 .. Len(seqs) : \E k \in 1 .. Len(seqs[i]) :
                FlattenSeq(seqs)[j] = seqs[i][k]
         /\ \A i \in 1 .. Len(seqs) : \A k \in 1 .. Len(seqs[i]) :
              \E j \in 1 .. Len(FlattenSeq(seqs)) : FlattenSeq(seqs)[j] = seqs[i][k]
         /\ (\A i \in 1 .. Len(seqs) : seqs[i] # <<>>)
              => Len(FlattenSeq(seqs)) >= Len(seqs)
<1>. DEFINE Joins(n, g) ==
       /\ \A j \in 1 .. Len(g) :
            \E i \in 1 .. n : \E k \in 1 .. Len(seqs[i]) : g[j] = seqs[i][k]
       /\ \A i \in 1 .. n : \A k \in 1 .. Len(seqs[i]) :
            \E j \in 1 .. Len(g) : g[j] = seqs[i][k]
       /\ (\A i \in 1 .. n : seqs[i] # <<>>) => Len(g) >= n
<1>1. Len(seqs) \in Nat /\ \A i \in 1 .. Len(seqs) : seqs[i] \in Seq(S)
  BY LenProperties, ElementOfSeq
<1>2. CASE Len(seqs) = 0
  <2>1. FlattenSeq(seqs) = seqs /\ seqs = <<>>
    BY <1>2, EmptySeq DEF FlattenSeq
  <2>. QED
    BY <1>2, <2>1, EmptySeq
<1>3. CASE Len(seqs) # 0
  <2>. DEFINE T == {p \in Nat \X Seq(S) : Joins(p[1], p[2])}
  <2>1. <<1, seqs[1]>> \in T
    <3>1. seqs[1] \in Seq(S) /\ Len(seqs[1]) \in Nat
      BY <1>1, <1>3, LenProperties
    <3>2. seqs[1] # <<>> => Len(seqs[1]) >= 1
      BY <3>1, EmptySeq
    <3>3. Joins(1, seqs[1])
      BY <3>1, <3>2
    <3>. HIDE DEF Joins
    <3>. QED
      BY <3>1, <3>3
  <2>2. ASSUME NEW n \in 1 .. Len(seqs), NEW g, n < Len(seqs), <<n, g>> \in T
        PROVE  <<n + 1, g \o seqs[n + 1]>> \in T
    <3>1. g \in Seq(S) /\ Joins(n, g)
      BY <2>2
    <3>2. PICK t : t = seqs[n + 1]
      OBVIOUS
    <3>3. t \in Seq(S) /\ Len(t) \in Nat /\ Len(g) \in Nat /\ n \in Nat
      BY <1>1, <2>2, <3>1, <3>2, LenProperties
    <3>4. PICK h : h = g \o t
      OBVIOUS
    <3>5. /\ h \in Seq(S)
          /\ Len(h) = Len(g) + Len(t)
          /\ \A i \in 1 .. Len(g) + Len(t) :
               h[i] = IF i <= Len(g) THEN g[i] ELSE t[i - Len(g)]
      BY <3>1, <3>3, <3>4, ConcatProperties
    <3>6. ASSUME NEW j \in 1 .. Len(h)
          PROVE  \E i \in 1 .. n + 1 : \E k \in 1 .. Len(seqs[i]) : h[j] = seqs[i][k]
      <4>1. CASE j <= Len(g)
        <5>1. j \in 1 .. Len(g) /\ j \in 1 .. Len(g) + Len(t)
          BY <3>3, <3>5, <4>1
        <5>2. PICK i \in 1 .. n : \E k \in 1 .. Len(seqs[i]) : g[j] = seqs[i][k]
          BY <3>1, <5>1
        <5>3. i \in 1 .. n + 1 /\ h[j] = g[j]
          BY <3>3, <3>5, <4>1, <5>1
        <5>. QED
          BY <5>2, <5>3
      <4>2. CASE ~(j <= Len(g))
        <5>1. j - Len(g) \in 1 .. Len(t) /\ h[j] = t[j - Len(g)] /\ n + 1 \in 1 .. n + 1
          BY <3>3, <3>5, <4>2
        <5>. QED
          BY <3>2, <5>1
      <4>. QED
        BY <4>1, <4>2
    <3>7. ASSUME NEW i \in 1 .. n + 1, NEW k \in 1 .. Len(seqs[i])
          PROVE  \E j \in 1 .. Len(h) : h[j] = seqs[i][k]
      <4>1. CASE i = n + 1
        <5>1. seqs[i] = t /\ k \in 1 .. Len(t)
          BY <3>2, <4>1
        <5>2. Len(g) + k \in 1 .. Len(g) + Len(t) /\ ~(Len(g) + k <= Len(g))
              /\ Len(g) + k - Len(g) = k
          BY <3>3, <5>1
        <5>3. h[Len(g) + k] = t[k]
          BY <3>5, <5>2, SMTT(30)
        <5>. QED
          BY <3>5, <5>1, <5>2, <5>3
      <4>2. CASE i # n + 1
        <5>1. i \in 1 .. n
          BY <3>3, <4>2
        <5>2. PICK j \in 1 .. Len(g) : g[j] = seqs[i][k]
          BY <3>1, <5>1
        <5>3. j \in 1 .. Len(h) /\ h[j] = g[j]
          BY <3>3, <3>5, SMTT(30)
        <5>. QED
          BY <5>2, <5>3
      <4>. QED
        BY <4>1, <4>2
    <3>8. ASSUME \A i \in 1 .. n + 1 : seqs[i] # <<>>  PROVE Len(h) >= n + 1
      <4>1. Len(g) >= n
        BY <3>1, <3>3, <3>8
      <4>2. Len(t) >= 1
        BY <3>2, <3>3, <3>8, EmptySeq
      <4>. QED
        BY <3>3, <3>5, <4>1, <4>2
    <3>9. Joins(n + 1, h)
      BY <3>6, <3>7, <3>8
    <3>10. n + 1 \in Nat /\ <<n + 1, h>> \in Nat \X Seq(S)
      BY <3>3, <3>5
    <3>. HIDE DEF Joins
    <3>11. <<n + 1, h>> \in T
      BY <3>9, <3>10
    <3>. QED
      BY <3>2, <3>4, <3>11
  <2>. HIDE DEF T
  <2>3. <<Len(seqs), FlattenSeq(seqs)>> \in T
    BY <1>1, <1>3, <2>1, <2>2, FlattenInduction
  <2>4. FlattenSeq(seqs) \in Seq(S) /\ Joins(Len(seqs), FlattenSeq(seqs))
    BY <2>3 DEF T
  <2>. QED
    BY <2>4
<1>. QED
  BY <1>1, <1>2, <1>3

LEMMA FlattenOne ==
  ASSUME NEW seqs, Len(seqs) = 1
  PROVE  FlattenSeq(seqs) = seqs[1]
<1>1. Len(seqs) \in Nat \ {0}
  OBVIOUS
<1>2. PICK f : Flattens(f, seqs, Len(seqs)) /\ FlattenSeq(seqs) = f[Len(seqs)]
  BY <1>1, FlattenUnfolds
<1>. QED
  BY <1>2 DEF Flattens

(* A finite set made a sequence has no other elements.                     *)
LEMMA SetToSeqFits ==
  ASSUME NEW S, IsFiniteSet(S)
  PROVE  SetToSeq(S) \in Seq(S)
<1>1. Cardinality(S) \in Nat /\ ExistsBijection(1 .. Cardinality(S), S)
  BY FS_CardinalityType
<1>2. \E f \in [1 .. Cardinality(S) -> S] : IsInjective(f)
  BY <1>1 DEF ExistsBijection, Bijection, Injection, IsInjective
<1>3. SetToSeq(S) \in [1 .. Cardinality(S) -> S]
  BY <1>2 DEF SetToSeq
<1>. QED
  BY <1>1, <1>3, SeqDef

---------------------------------------------------------------------------
(* Claims and the evidence for them                                        *)

QualityWords == {"missing", "imbalance", "cardinality", "missing_rate"}
MethodWords == {"target encoding", "one-hot", "label encoding", "imputer", "scaler",
                "stratified", "cross-validation", "pipeline"}
BaselineWords == {"beats_baseline", "outperforms_baseline", "above_baseline"}

(* The claims that can be recorded: no two kinds are about the same thing, *)
(* and only a metric has a value.                                          *)
Recordable(c) ==
  \/ c.kind = "metric" /\ c.value # {}
  \/ c.kind = "quality" /\ c.about \in QualityWords /\ c.value = {}
  \/ c.kind = "method" /\ c.about \in MethodWords /\ c.value = {}
  \/ c.kind = "baseline" /\ c.about \in BaselineWords /\ c.value = {}
  \/ c.kind = "safety" /\ c.about \in StaticChecks /\ c.value = {}

ClaimSet(d) ==
  MetricClaims(d) \cup DataQualityClaims(d) \cup MethodClaims(d)
    \cup BaselineClaims(d) \cup SafetyClaims(d)

(* Either nothing, or the evidence written for a claim.                    *)
Piece(n) == n = {} \/ \E c : Recordable(c) /\ n = EvidenceRationale(c)

LEMMA FourFinite ==
  ASSUME NEW a, NEW b, NEW c, NEW d
  PROVE  IsFiniteSet({a, b, c, d})
<1>1. IsFiniteSet({a}) /\ IsFiniteSet({b}) /\ IsFiniteSet({c}) /\ IsFiniteSet({d})
  BY FS_Singleton
<1>2. IsFiniteSet({a} \cup {b}) /\ IsFiniteSet({c} \cup {d})
  BY <1>1, FS_Union
<1>3. IsFiniteSet(({a} \cup {b}) \cup ({c} \cup {d}))
  BY <1>2, FS_Union
<1>4. ({a} \cup {b}) \cup ({c} \cup {d}) = {a, b, c, d}
  OBVIOUS
<1>. QED
  BY <1>3, <1>4

LEMMA WordsFinite ==
  /\ IsFiniteSet(QualityWords) /\ IsFiniteSet(MethodWords)
  /\ IsFiniteSet(BaselineWords) /\ IsFiniteSet(StaticChecks)
<1>1. IsFiniteSet(QualityWords) /\ IsFiniteSet(StaticChecks)
  BY FourFinite DEF QualityWords, StaticChecks
<1>2. IsFiniteSet({"target encoding", "one-hot", "label encoding", "imputer"}
                    \cup {"scaler", "stratified", "cross-validation", "pipeline"})
  BY FourFinite, FS_Union
<1>3. MethodWords = {"target encoding", "one-hot", "label encoding", "imputer"}
                      \cup {"scaler", "stratified", "cross-validation", "pipeline"}
  BY DEF MethodWords
<1>4. IsFiniteSet({"beats_baseline", "beats_baseline", "outperforms_baseline",
                   "above_baseline"})
  BY FourFinite
<1>5. BaselineWords = {"beats_baseline", "beats_baseline", "outperforms_baseline",
                       "above_baseline"}
  BY DEF BaselineWords
<1>. QED
  BY <1>1, <1>2, <1>3, <1>4, <1>5

(* Claims of one kind about finitely many words are finitely many.         *)
LEMMA ClaimsFinite ==
  ASSUME NEW kind, NEW W, IsFiniteSet(W)
  PROVE  IsFiniteSet({Claim(kind, w, {}) : w \in W})
<1>. DEFINE f == [w \in W |-> Claim(kind, w, {})]
<1>1. f \in Surjection(W, {Claim(kind, w, {}) : w \in W})
  BY DEF Surjection
<1>. QED
  BY <1>1, FS_Surjection

LEMMA MetricClaimsFinite ==
  ASSUME NEW M, IsFiniteSet(M)
  PROVE  IsFiniteSet({Claim("metric", m.name, {m.value}) : m \in M})
<1>. DEFINE f == [m \in M |-> Claim("metric", m.name, {m.value})]
<1>1. f \in Surjection(M, {Claim("metric", m.name, {m.value}) : m \in M})
  BY DEF Surjection
<1>. QED
  BY <1>1, FS_Surjection

(* The claims of a decision, whatever its type, are recordable ones.       *)
LEMMA ClaimsFit ==
  ASSUME NEW d, IsFiniteSet(d.metrics), d.checks \subseteq StaticChecks
  PROVE  AllClaims(d) \in Seq(ClaimSet(d)) /\ \A c \in ClaimSet(d) : Recordable(c)
<1>1. IsFiniteSet(MetricClaims(d))
  BY MetricClaimsFinite, FS_EmptySet DEF MetricClaims
<1>2. IsFiniteSet(DataQualityClaims(d))
  <2>1. IsFiniteSet(d.words \cap QualityWords)
    BY WordsFinite, FS_Intersection
  <2>. QED
    BY <2>1, ClaimsFinite, FS_EmptySet DEF DataQualityClaims, QualityWords
<1>3. IsFiniteSet(MethodClaims(d))
  <2>1. IsFiniteSet(d.words \cap MethodWords)
    BY WordsFinite, FS_Intersection
  <2>. QED
    BY <2>1, ClaimsFinite, FS_EmptySet DEF MethodClaims, MethodWords
<1>4. IsFiniteSet(BaselineClaims(d))
  <2>1. IsFiniteSet(d.words \cap BaselineWords)
    BY WordsFinite, FS_Intersection
  <2>. QED
    BY <2>1, ClaimsFinite, FS_EmptySet DEF BaselineClaims, BaselineWords
<1>5. IsFiniteSet(SafetyClaims(d))
  <2>1. IsFiniteSet(d.checks)
    BY WordsFinite, FS_Subset
  <2>. QED
    BY <2>1, ClaimsFinite, FS_EmptySet DEF SafetyClaims
<1>6. AllClaims(d) \in Seq(ClaimSet(d))
  <2>1. /\ SetToSeq(MetricClaims(d)) \in Seq(ClaimSet(d))
        /\ SetToSeq(DataQualityClaims(d)) \in Seq(ClaimSet(d))
        /\ SetToSeq(MethodClaims(d)) \in Seq(ClaimSet(d))
        /\ SetToSeq(BaselineClaims(d)) \in Seq(ClaimSet(d))
        /\ SetToSeq(SafetyClaims(d)) \in Seq(ClaimSet(d))
    BY <1>1, <1>2, <1>3, <1>4, <1>5, SetToSeqFits, SeqMonotonic DEF ClaimSet
  <2>. QED
    BY <2>1, ConcatProperties DEF AllClaims
<1>7. ASSUME NEW c \in ClaimSet(d)  PROVE Recordable(c)
  <2>1. CASE c \in MetricClaims(d)
    BY <2>1 DEF MetricClaims, Claim, Recordable
  <2>2. CASE c \in DataQualityClaims(d)
    BY <2>2 DEF DataQualityClaims, Claim, Recordable, QualityWords
  <2>3. CASE c \in MethodClaims(d)
    <3>1. PICK w \in d.words \cap MethodWords : c = Claim("method", w, {})
      BY <2>3 DEF MethodClaims, MethodWords
    <3>. QED
      BY <3>1 DEF Claim, Recordable
  <2>4. CASE c \in BaselineClaims(d)
    BY <2>4 DEF BaselineClaims, Claim, Recordable, BaselineWords
  <2>5. CASE c \in SafetyClaims(d)
    BY <2>5 DEF SafetyClaims, Claim, Recordable
  <2>. QED
    BY <1>7, <2>1, <2>2, <2>3, <2>4, <2>5 DEF ClaimSet
<1>. QED
  BY <1>6, <1>7

(* The phrase a claim is searched by stands in the evidence written for    *)
(* it, and evidence of another claim that holds it supports it as well.    *)
LEMMA RationaleHoldsQuery ==
  ASSUME NEW c, Recordable(c)
  PROVE  Query(c) \in EvidenceRationale(c)
BY DEF Recordable, Query, EvidenceRationale

LEMMA PieceSupports ==
  ASSUME NEW c, Recordable(c), NEW n, Piece(n), Query(c) \in n
  PROVE  Supports(c, n)
<1>1. PICK e : Recordable(e) /\ n = EvidenceRationale(e)
  BY DEF Piece
<1>2. CASE c.kind \in {"metric", "method"}
  BY <1>2 DEF Query, Supports
<1>3. CASE c.kind \notin {"metric", "method"}
  <2>1. Query(c) = Phrase("text", c)
    BY <1>3 DEF Query
  <2>2. e.about = c.about /\ e.value = c.value
    BY <1>1, <2>1 DEF EvidenceRationale, Phrase, Claim
  <2>3. e.kind = c.kind
    BY <1>1, <1>3, <2>2
       DEF Recordable, QualityWords, MethodWords, BaselineWords, StaticChecks
  <2>4. Phrase("check", c) = Phrase("check", e)
        /\ Phrase("comparison", c) = Phrase("comparison", e)
    BY <2>2 DEF Phrase
  <2>. QED
    BY <1>1, <1>3, <2>3, <2>4 DEF Supports, EvidenceRationale, Recordable
<1>. QED
  BY <1>2, <1>3

(* A search that finds anything returns a node that holds the phrase, with *)
(* a page of one node or more: the newest one is on the page.              *)
LEMMA SearchFinds ==
  ASSUME PageSize \in Nat \ {0}, NEW X, NEW nodes \in Seq(X), NEW phrase,
         \E i \in 1 .. Len(nodes) : phrase \in nodes[i]
  PROVE  \E i \in 1 .. Len(nodes) :
           nodes[i] \in SearchTrail(phrase, nodes) /\ phrase \in nodes[i]
<1>. DEFINE found == {i \in DOMAIN nodes : phrase \in nodes[i]}
<1>1. Len(nodes) \in Nat /\ DOMAIN nodes = 1 .. Len(nodes)
  BY LenProperties
<1>2. PICK m \in found : \A i \in found : i <= m
  BY <1>1, LargestExists
<1>3. {j \in found : j > m} = {}
  BY <1>1, <1>2
<1>4. Cardinality({j \in found : j > m}) < PageSize
  BY <1>3, FS_EmptySet
<1>. QED
  BY <1>1, <1>2, <1>4 DEF SearchTrail

LEMMA ClaimFound ==
  ASSUME PageSize \in Nat \ {0}, NEW c, Recordable(c), NEW X, NEW nodes \in Seq(X),
         \A i \in 1 .. Len(nodes) : Piece(nodes[i]),
         \E i \in 1 .. Len(nodes) : nodes[i] = EvidenceRationale(c)
  PROVE  ClaimStatus(c, nodes) # "UNVERIFIED"
<1>1. \E i \in 1 .. Len(nodes) : Query(c) \in nodes[i]
  BY RationaleHoldsQuery
<1>2. PICK i \in 1 .. Len(nodes) :
        nodes[i] \in SearchTrail(Query(c), nodes) /\ Query(c) \in nodes[i]
  BY <1>1, SearchFinds
<1>3. Supports(c, nodes[i])
  BY <1>2, PieceSupports
<1>. QED
  BY <1>2, <1>3 DEF ClaimStatus

---------------------------------------------------------------------------
(* What is recorded of a final state                                       *)

(* The claims of its decisions, one sequence for each stage, and nodes     *)
(* that hold the evidence of every one of them.                            *)
RecordFits(name) ==
  LET entry == Recorded[name]
  IN /\ \E S : /\ entry.claims \in Seq(Seq(S))
               /\ \A c \in S : Recordable(c)
     /\ Len(entry.claims) = Finals[name].stages
     /\ \E X : entry.nodes \in Seq(X)
     /\ Len(entry.nodes) >= Len(entry.claims)
     /\ \A j \in 1 .. Len(entry.nodes) : Piece(entry.nodes[j])
     /\ \A i \in 1 .. Len(entry.claims) : \A k \in 1 .. Len(entry.claims[i]) :
          \E j \in 1 .. Len(entry.nodes) :
            entry.nodes[j] = EvidenceRationale(entry.claims[i][k])

(* The nodes of a decision: a piece for each claim, at least one.          *)
LEMMA NodesFit ==
  ASSUME NEW d, IsFiniteSet(d.metrics), d.checks \subseteq StaticChecks
  PROVE  /\ EvidenceNodes(d) \in Seq({n \in {{}} \cup
                                        {EvidenceRationale(c) : c \in ClaimSet(d)} : Piece(n)})
         /\ EvidenceNodes(d) # <<>>
         /\ \A k \in 1 .. Len(AllClaims(d)) :
              \E j \in 1 .. Len(EvidenceNodes(d)) :
                EvidenceNodes(d)[j] = EvidenceRationale(AllClaims(d)[k])
<1>. DEFINE X == {n \in {{}} \cup {EvidenceRationale(c) : c \in ClaimSet(d)} : Piece(n)}
<1>1. PICK claims : claims = AllClaims(d)
  OBVIOUS
<1>2. claims \in Seq(ClaimSet(d)) /\ \A c \in ClaimSet(d) : Recordable(c)
  BY <1>1, ClaimsFit
<1>3. Len(claims) \in Nat /\ DOMAIN claims = 1 .. Len(claims)
      /\ \A k \in 1 .. Len(claims) : claims[k] \in ClaimSet(d)
  BY <1>2, LenProperties, ElementOfSeq
<1>4. {} \in X /\ \A c \in ClaimSet(d) : EvidenceRationale(c) \in X
  BY <1>2 DEF Piece
<1>. HIDE DEF X
<1>5. CASE claims = <<>>
  <2>1. EvidenceNodes(d) = <<{}>>
    BY <1>1, <1>5 DEF EvidenceNodes
  <2>2. ASSUME NEW x \in X  PROVE <<x>> \in Seq(X) /\ <<x>> # <<>>
    OBVIOUS
  <2>3. Len(claims) = 0
    BY <1>5
  <2>. QED
    BY <1>1, <1>4, <2>1, <2>2, <2>3 DEF X
<1>6. CASE claims # <<>>
  <2>1. EvidenceNodes(d) = [i \in 1 .. Len(claims) |-> EvidenceRationale(claims[i])]
    BY <1>1, <1>3, <1>6 DEF EvidenceNodes
  <2>2. EvidenceNodes(d) \in [1 .. Len(claims) -> X]
    BY <1>3, <1>4, <2>1
  <2>3. EvidenceNodes(d) \in Seq(X) /\ Len(EvidenceNodes(d)) = Len(claims)
    <3>1. EvidenceNodes(d) \in Seq(X)
      BY <1>3, <2>2, SeqDef
    <3>2. DOMAIN EvidenceNodes(d) = 1 .. Len(claims)
      BY <2>1
    <3>. QED
      BY <1>3, <3>1, <3>2, LenProperties
  <2>4. Len(claims) # 0
    BY <1>2, <1>6, EmptySeq
  <2>5. EvidenceNodes(d) # <<>>
    BY <2>3, <2>4, EmptySeq
  <2>. QED
    BY <1>1, <2>1, <2>3, <2>5 DEF X
<1>. QED
  BY <1>5, <1>6

LEMMA RecordedFits ==
  ASSUME NEW name \in DOMAIN Finals
  PROVE  RecordFits(name)
<1>. DEFINE n == Finals[name].stages
            final == Finals[name]
<1>1. n \in 0 .. 6 /\ IsFiniteSet(final.metrics)
  <2>1. Len(DraftTypes) = 6
    BY DEF DraftTypes
  <2>. QED
    BY <2>1, RecordAssumption
<1>2. PICK ds : ds = BuildDecisions(final)
  OBVIOUS
<1>3. /\ DOMAIN ds = 1 .. n
      /\ \A i \in 1 .. n : IsFiniteSet(ds[i].metrics) /\ ds[i].checks \subseteq StaticChecks
  <2>1. IsFiniteSet({})
    BY FS_EmptySet
  <2>. QED
    BY <1>1, <1>2, <2>1 DEF BuildDecisions
<1>4. PICK claims : claims = [i \in 1 .. n |-> AllClaims(ds[i])]
  OBVIOUS
<1>5. PICK nodess : nodess = [i \in 1 .. n |-> EvidenceNodes(ds[i])]
  OBVIOUS
<1>6. Recorded[name] = [claims |-> claims, nodes |-> FlattenSeq(nodess)]
  BY <1>2, <1>3, <1>4, <1>5 DEF Recorded
<1>. HIDE DEF n, final
<1>7. PICK S : S = UNION {ClaimSet(ds[i]) : i \in 1 .. n}
  OBVIOUS
<1>8. /\ \A c \in S : Recordable(c)
      /\ claims \in Seq(Seq(S)) /\ Len(claims) = n
  <2>1. ASSUME NEW i \in 1 .. n
        PROVE  /\ AllClaims(ds[i]) \in Seq(S)
               /\ \A c \in ClaimSet(ds[i]) : Recordable(c)
    <3>1. AllClaims(ds[i]) \in Seq(ClaimSet(ds[i])) /\ \A c \in ClaimSet(ds[i]) : Recordable(c)
      BY <1>3, ClaimsFit
    <3>2. ClaimSet(ds[i]) \subseteq S
      BY <1>7
    <3>. QED
      BY <3>1, <3>2, SeqMonotonic
  <2>2. claims \in [1 .. n -> Seq(S)]
    BY <1>4, <2>1
  <2>3. claims \in Seq(Seq(S))
    BY <1>1, <2>2, SeqDef
  <2>4. DOMAIN claims = 1 .. n
    BY <1>4
  <2>5. Len(claims) = n
    BY <1>1, <2>3, <2>4, LenProperties
  <2>. QED
    BY <1>7, <2>1, <2>3, <2>5
<1>9. PICK X : X = {x \in {{}} \cup {EvidenceRationale(c) : c \in S} : Piece(x)}
  OBVIOUS
<1>10. nodess \in Seq(Seq(X)) /\ Len(nodess) = n
       /\ \A i \in 1 .. n :
            /\ nodess[i] # <<>>
            /\ \A k \in 1 .. Len(claims[i]) : \E j \in 1 .. Len(nodess[i]) :
                 nodess[i][j] = EvidenceRationale(claims[i][k])
  <2>1. ASSUME NEW i \in 1 .. n
        PROVE  /\ EvidenceNodes(ds[i]) \in Seq(X)
               /\ EvidenceNodes(ds[i]) # <<>>
               /\ \A k \in 1 .. Len(AllClaims(ds[i])) :
                    \E j \in 1 .. Len(EvidenceNodes(ds[i])) :
                      EvidenceNodes(ds[i])[j] = EvidenceRationale(AllClaims(ds[i])[k])
    <3>1. PICK Y : Y = {x \in {{}} \cup {EvidenceRationale(c) : c \in ClaimSet(ds[i])} :
                          Piece(x)}
      OBVIOUS
    <3>2. Y \subseteq X
      BY <1>7, <1>9, <3>1
    <3>3. EvidenceNodes(ds[i]) \in Seq(Y)
      BY <1>3, <3>1, NodesFit
    <3>4. EvidenceNodes(ds[i]) \in Seq(X)
      BY <3>2, <3>3, SeqMonotonic
    <3>. QED
      BY <1>3, <3>4, NodesFit
  <2>2. nodess \in [1 .. n -> Seq(X)]
    BY <1>5, <2>1
  <2>3. nodess \in Seq(Seq(X))
    BY <1>1, <2>2, SeqDef
  <2>4. DOMAIN nodess = 1 .. n
    BY <1>5
  <2>5. Len(nodess) = n
    BY <1>1, <2>3, <2>4, LenProperties
  <2>. QED
    BY <1>4, <1>5, <2>1, <2>3, <2>5
<1>11. PICK nodes : nodes = FlattenSeq(nodess)
  OBVIOUS
<1>12. /\ nodes \in Seq(X)
       /\ \A i \in 1 .. n : \A k \in 1 .. Len(nodess[i]) :
            \E j \in 1 .. Len(nodes) : nodes[j] = nodess[i][k]
       /\ Len(nodes) >= n
  <2>1. \A i \in 1 .. Len(nodess) : nodess[i] # <<>>
    BY <1>10
  <2>2. Len(FlattenSeq(nodess)) >= Len(nodess)
    BY <1>10, <2>1, FlattenFits
  <2>3. \A i \in 1 .. Len(nodess) : \A k \in 1 .. Len(nodess[i]) :
          \E j \in 1 .. Len(FlattenSeq(nodess)) : FlattenSeq(nodess)[j] = nodess[i][k]
    BY <1>10, FlattenFits
  <2>4. FlattenSeq(nodess) \in Seq(X)
    BY <1>10, FlattenFits
  <2>. QED
    BY <1>10, <1>11, <2>2, <2>3, <2>4
<1>13. \A j \in 1 .. Len(nodes) : Piece(nodes[j])
  <2>1. ASSUME NEW j \in 1 .. Len(nodes)  PROVE nodes[j] \in X
    BY <1>12, ElementOfSeq
  <2>. QED
    BY <1>9, <2>1
<1>14. ASSUME NEW i \in 1 .. n, NEW k \in 1 .. Len(claims[i])
       PROVE  \E j \in 1 .. Len(nodes) : nodes[j] = EvidenceRationale(claims[i][k])
  <2>1. PICK h \in 1 .. Len(nodess[i]) : nodess[i][h] = EvidenceRationale(claims[i][k])
    BY <1>10
  <2>. QED
    BY <1>12, <2>1
<1>. QED
  BY <1>6, <1>8, <1>11, <1>12, <1>13, <1>14 DEF RecordFits, n

(* With the lineage of one run, its decisions and nodes are the recorded   *)
(* ones; without any there are none.                                       *)
LEMMA OneLineage ==
  ASSUME NEW name
  PROVE  /\ DecisionsOf(<<name>>) = Recorded[name].claims
         /\ NodesOf(<<name>>) = Recorded[name].nodes
<1>1. ASSUME NEW x  PROVE FlattenSeq([i \in 1 .. 1 |-> x]) = x
  <2>1. [i \in 1 .. 1 |-> x] \in Seq({x})
    BY SeqDef
  <2>2. Len([i \in 1 .. 1 |-> x]) = 1
    BY <2>1, LenProperties
  <2>. QED
    BY <2>2, FlattenOne
<1>2. DOMAIN <<name>> = 1 .. 1 /\ \A i \in 1 .. 1 : <<name>>[i] = name
  OBVIOUS
<1>3. [i \in DOMAIN <<name>> |-> Recorded[<<name>>[i]].claims]
        = [i \in 1 .. 1 |-> Recorded[name].claims]
  BY <1>2
<1>4. [i \in DOMAIN <<name>> |-> Recorded[<<name>>[i]].nodes]
        = [i \in 1 .. 1 |-> Recorded[name].nodes]
  BY <1>2
<1>. QED
  BY <1>1, <1>3, <1>4 DEF DecisionsOf, NodesOf

LEMMA NoLineage ==
  DecisionsOf(<<>>) = <<>> /\ NodesOf(<<>>) = <<>> /\ FlattenSeq(<<>>) = <<>>
<1>1. Len(<<>>) = 0
  OBVIOUS
<1>2. [i \in DOMAIN <<>> |-> Recorded[<<>>[i]].claims] = <<>>
  OBVIOUS
<1>3. [i \in DOMAIN <<>> |-> Recorded[<<>>[i]].nodes] = <<>>
  OBVIOUS
<1>. QED
  BY <1>1, <1>2, <1>3 DEF DecisionsOf, NodesOf, FlattenSeq

---------------------------------------------------------------------------
(* The gate                                                                *)

Verdicts == {"VERIFIED", "CONFLICT", "UNVERIFIED"}

Lineage(names) ==
  names = <<>> \/ \E name \in DOMAIN Finals : names = <<name>>

LEMMA JoinedPieces ==
  ASSUME NEW X, NEW s \in Seq(X), NEW t \in Seq(X),
         \A j \in 1 .. Len(s) : Piece(s[j]), \A j \in 1 .. Len(t) : Piece(t[j])
  PROVE  /\ s \o t \in Seq(X)
         /\ \A j \in 1 .. Len(s \o t) : Piece((s \o t)[j])
         /\ \A e : (\E j \in 1 .. Len(s) : s[j] = e) \/ (\E j \in 1 .. Len(t) : t[j] = e)
                  => \E j \in 1 .. Len(s \o t) : (s \o t)[j] = e
<1>1. PICK u : u = s \o t
  OBVIOUS
<1>2. Len(s) \in Nat /\ Len(t) \in Nat
  BY LenProperties
<1>3. /\ u \in Seq(X) /\ Len(u) = Len(s) + Len(t)
      /\ \A i \in 1 .. Len(s) + Len(t) :
           u[i] = IF i <= Len(s) THEN s[i] ELSE t[i - Len(s)]
  BY <1>1, ConcatProperties
<1>4. ASSUME NEW j \in 1 .. Len(u)  PROVE Piece(u[j])
  <2>1. CASE j <= Len(s)
    BY <1>2, <1>3, <2>1
  <2>2. CASE ~(j <= Len(s))
    <3>1. j - Len(s) \in 1 .. Len(t) /\ u[j] = t[j - Len(s)]
      BY <1>2, <1>3, <2>2
    <3>. QED
      BY <3>1
  <2>. QED
    BY <2>1, <2>2
<1>5. ASSUME NEW e,
             (\E j \in 1 .. Len(s) : s[j] = e) \/ (\E j \in 1 .. Len(t) : t[j] = e)
      PROVE  \E j \in 1 .. Len(u) : u[j] = e
  <2>1. ASSUME NEW j \in 1 .. Len(s), s[j] = e  PROVE \E k \in 1 .. Len(u) : u[k] = e
    <3>1. j \in 1 .. Len(u) /\ u[j] = s[j]
      BY <1>2, <1>3
    <3>. QED
      BY <2>1, <3>1
  <2>2. ASSUME NEW j \in 1 .. Len(t), t[j] = e  PROVE \E k \in 1 .. Len(u) : u[k] = e
    <3>1. Len(s) + j \in 1 .. Len(s) + Len(t) /\ ~(Len(s) + j <= Len(s))
          /\ Len(s) + j - Len(s) = j
      BY <1>2
    <3>2. u[Len(s) + j] = t[j]
      BY <1>3, <3>1
    <3>. QED
      BY <1>3, <2>2, <3>1, <3>2
  <2>. QED
    BY <1>5, <2>1, <2>2
<1>. QED
  BY <1>1, <1>3, <1>4, <1>5

(* A claim gets one of the three statuses, and after a search it is never  *)
(* the one of a claim without evidence, whatever nodes of another          *)
(* experiment stand before or after those of the run.                      *)
LEMMA ResultsFit ==
  ASSUME NEW names, Lineage(names), NEW searched \in BOOLEAN,
         NEW results \in ClaimResults[names][searched]
  PROVE  /\ results \in Seq(Verdicts)
         /\ searched => "UNVERIFIED" \notin ToSet(results)
<1>. DEFINE claims == FlattenSeq(DecisionsOf(names))
            own == NodesOf(names)
            foreign == Recorded[Other].nodes
            trails == IF searched THEN {own \o foreign, foreign \o own} ELSE {<<>>}
<1>1. names \in SeqOf(DOMAIN Finals, MaxRuns)
  <2>1. CASE names = <<>>
    <3>1. <<>> \in [1 .. 0 -> DOMAIN Finals] /\ 0 \in 0 .. MaxRuns
      BY RecordAssumption
    <3>. QED
      BY <2>1, <3>1 DEF SeqOf
  <2>2. ASSUME NEW name \in DOMAIN Finals, names = <<name>>
        PROVE  names \in SeqOf(DOMAIN Finals, MaxRuns)
    <3>1. <<name>> \in [1 .. 1 -> DOMAIN Finals] /\ 1 \in 0 .. MaxRuns
      BY RecordAssumption
    <3>. QED
      BY <2>2, <3>1 DEF SeqOf
  <2>. QED
    BY <2>1, <2>2 DEF Lineage
<1>2. PICK trail \in trails :
        results = [i \in DOMAIN claims |-> ClaimStatus(claims[i], trail)]
  BY <1>1 DEF ClaimResults
<1>3. \E S : claims \in Seq(S) /\ \A c \in S : Recordable(c)
  <2>1. CASE names = <<>>
    <3>1. claims = <<>>
      BY <2>1, NoLineage
    <3>2. <<>> \in Seq({}) /\ \A c \in {} : Recordable(c)
      BY EmptySeq
    <3>. QED
      BY <3>1, <3>2, SMTT(30)
  <2>2. ASSUME NEW name \in DOMAIN Finals, names = <<name>>
        PROVE  \E S : claims \in Seq(S) /\ \A c \in S : Recordable(c)
    <3>1. PICK S : Recorded[name].claims \in Seq(Seq(S)) /\ \A c \in S : Recordable(c)
      BY RecordedFits DEF RecordFits
    <3>2. claims = FlattenSeq(Recorded[name].claims)
      BY <2>2, OneLineage
    <3>. QED
      BY <3>1, <3>2, FlattenFits
  <2>. QED
    BY <2>1, <2>2 DEF Lineage
<1>4. Len(claims) \in Nat /\ DOMAIN claims = 1 .. Len(claims)
      /\ \A i \in 1 .. Len(claims) : Recordable(claims[i])
  BY <1>3, LenProperties, ElementOfSeq
<1>5. results \in Seq(Verdicts) /\ DOMAIN results = 1 .. Len(claims)
  <2>1. \A c : ClaimStatus(c, trail) \in Verdicts
    BY DEF ClaimStatus, Verdicts
  <2>. HIDE DEF claims
  <2>2. results \in [1 .. Len(claims) -> Verdicts]
    BY <1>2, <1>4, <2>1
  <2>. QED
    BY <1>4, <2>2, SeqDef
<1>6. ASSUME searched, NEW i \in 1 .. Len(claims)
      PROVE  ClaimStatus(claims[i], trail) # "UNVERIFIED"
  <2>1. PICK name \in DOMAIN Finals : names = <<name>>
    <3>1. names # <<>>
      BY <1>4, <1>6, NoLineage
    <3>. QED
      BY <3>1 DEF Lineage
  <2>2. PICK ownNodes : ownNodes = Recorded[name].nodes
    OBVIOUS
  <2>3. PICK foreignNodes : foreignNodes = Recorded[Other].nodes
    OBVIOUS
  <2>4. Other \in DOMAIN Finals
    BY RecordAssumption
  <2>5. PICK X : ownNodes \in Seq(X)
    BY <2>2, RecordedFits DEF RecordFits
  <2>6. PICK Y : foreignNodes \in Seq(Y)
    BY <2>3, <2>4, RecordedFits DEF RecordFits
  <2>7. ownNodes \in Seq(X \cup Y) /\ foreignNodes \in Seq(X \cup Y)
    BY <2>5, <2>6, SeqMonotonic
  <2>8. /\ \A j \in 1 .. Len(ownNodes) : Piece(ownNodes[j])
        /\ \A j \in 1 .. Len(foreignNodes) : Piece(foreignNodes[j])
    BY <2>2, <2>3, <2>4, RecordedFits DEF RecordFits
  <2>9. \E j \in 1 .. Len(ownNodes) : ownNodes[j] = EvidenceRationale(claims[i])
    <3>1. PICK rows : rows = Recorded[name].claims
      OBVIOUS
    <3>2. claims = FlattenSeq(rows)
      BY <2>1, <3>1, OneLineage
    <3>3. \E S : rows \in Seq(Seq(S))
      BY <3>1, RecordedFits DEF RecordFits
    <3>. HIDE DEF claims
    <3>4. \E h \in 1 .. Len(rows) : \E k \in 1 .. Len(rows[h]) :
            FlattenSeq(rows)[i] = rows[h][k]
      <4>1. i \in 1 .. Len(FlattenSeq(rows))
        BY <1>6, <3>2
      <4>. QED
        BY <3>3, <4>1, FlattenFits
    <3>5. PICK h \in 1 .. Len(rows) : \E k \in 1 .. Len(rows[h]) :
            FlattenSeq(rows)[i] = rows[h][k]
      BY <3>4
    <3>6. PICK k \in 1 .. Len(rows[h]) : FlattenSeq(rows)[i] = rows[h][k]
      BY <3>5
    <3>7. \E j \in 1 .. Len(ownNodes) : ownNodes[j] = EvidenceRationale(rows[h][k])
      BY <2>2, <3>1, RecordedFits DEF RecordFits
    <3>. QED
      BY <3>2, <3>6, <3>7
  <2>10. trail = ownNodes \o foreignNodes \/ trail = foreignNodes \o ownNodes
    BY <1>2, <1>6, <2>1, <2>2, <2>3, OneLineage
  <2>11. /\ trail \in Seq(X \cup Y)
         /\ \A j \in 1 .. Len(trail) : Piece(trail[j])
         /\ \E j \in 1 .. Len(trail) : trail[j] = EvidenceRationale(claims[i])
    <3>. HIDE DEF claims
    <3>1. CASE trail = ownNodes \o foreignNodes
      BY <2>7, <2>8, <2>9, <3>1, JoinedPieces
    <3>2. CASE trail = foreignNodes \o ownNodes
      BY <2>7, <2>8, <2>9, <3>2, JoinedPieces, SMTT(30)
    <3>. QED
      BY <2>10, <3>1, <3>2
  <2>12. Recordable(claims[i]) /\ PageSize \in Nat \ {0}
    BY <1>4, <1>6, RecordAssumption
  <2>. HIDE DEF claims
  <2>. QED
    BY <2>11, <2>12, ClaimFound
<1>. HIDE DEF claims, trails
<1>7. ASSUME searched  PROVE "UNVERIFIED" \notin ToSet(results)
  BY <1>2, <1>4, <1>5, <1>6, <1>7 DEF ToSet
<1>. QED
  BY <1>5, <1>7

(* The most frequent status exists, and the first of those.                *)
LEMMA VerdictFits ==
  ASSUME NEW statuses \in Seq(Verdicts)
  PROVE  DecisionVerdict(statuses) \in Verdicts
<1>. DEFINE seen == ToSet(statuses)
            Times(s) == Cardinality({i \in DOMAIN statuses : statuses[i] = s})
            First(s) == CHOOSE i \in DOMAIN statuses :
                          statuses[i] = s /\ \A j \in 1 .. i - 1 : statuses[j] # s
<1>1. PICK n : n = Len(statuses)
  OBVIOUS
<1>2. n \in Nat /\ DOMAIN statuses = 1 .. n /\ \A i \in 1 .. n : statuses[i] \in Verdicts
  BY <1>1, LenProperties, ElementOfSeq
<1>3. seen \subseteq Verdicts
  BY <1>2 DEF ToSet
<1>4. ASSUME NEW s \in seen
      PROVE  /\ Times(s) \in 1 .. n
             /\ First(s) \in 1 .. n /\ statuses[First(s)] = s
  <2>1. PICK at : at = {i \in 1 .. n : statuses[i] = s}
    OBVIOUS
  <2>2. at # {} /\ at \subseteq 1 .. n
    BY <1>2, <1>4, <2>1 DEF ToSet
  <2>3. IsFiniteSet(1 .. n) /\ Cardinality(1 .. n) = n
    BY <1>2, FS_Interval
  <2>4. IsFiniteSet(at) /\ Cardinality(at) <= n
    BY <2>2, <2>3, FS_Subset
  <2>5. Cardinality(at) \in Nat /\ Cardinality(at) # 0
    BY <2>2, <2>4, FS_CardinalityType, FS_EmptySet
  <2>6. Times(s) = Cardinality(at)
    BY <1>2, <2>1
  <2>7. PICK i \in at : \A j \in at : i <= j
    <3>1. at \subseteq Nat
      BY <1>2, <2>2
    <3>. QED
      BY <2>2, <3>1, SmallestExists
  <2>8. \A j \in 1 .. i - 1 : statuses[j] # s
    BY <1>2, <2>1, <2>7
  <2>9. i \in DOMAIN statuses /\ statuses[i] = s
    BY <1>2, <2>1, <2>7
  <2>10. First(s) \in DOMAIN statuses /\ statuses[First(s)] = s
    BY <2>8, <2>9
  <2>. QED
    BY <1>2, <2>4, <2>5, <2>6, <2>10
<1>. HIDE DEF seen, Times, First
<1>5. ASSUME seen # {}
      PROVE  \E s \in seen : \A t \in seen \ {s} :
               Times(s) > Times(t) \/ (Times(s) = Times(t) /\ First(s) < First(t))
  <2>1. PICK most \in {Times(s) : s \in seen} : \A k \in {Times(s) : s \in seen} : k <= most
    <3>1. {Times(s) : s \in seen} \subseteq 1 .. n /\ {Times(s) : s \in seen} # {}
      BY <1>4, <1>5
    <3>. QED
      BY <1>2, <3>1, LargestExists
  <2>2. PICK top : top = {s \in seen : Times(s) = most}
    OBVIOUS
  <2>3. PICK least \in {First(s) : s \in top} : \A k \in {First(s) : s \in top} : least <= k
    <3>1. {First(s) : s \in top} \subseteq Nat /\ {First(s) : s \in top} # {}
      BY <1>2, <1>4, <2>1, <2>2
    <3>. QED
      BY <3>1, SmallestExists
  <2>4. PICK s \in top : First(s) = least
    BY <2>3
  <2>5. ASSUME NEW t \in seen \ {s}
        PROVE  Times(s) > Times(t) \/ (Times(s) = Times(t) /\ First(s) < First(t))
    <3>1. s \in seen /\ t \in seen /\ t # s /\ Times(s) = most
      BY <2>2, <2>4, <2>5
    <3>2. Times(t) <= Times(s) /\ Times(t) \in 1 .. n /\ Times(s) \in 1 .. n
      BY <1>4, <2>1, <3>1
    <3>3. CASE Times(t) = Times(s)
      <4>1. First(s) <= First(t)
        BY <2>2, <2>3, <2>4, <3>1, <3>3
      <4>2. First(s) # First(t) /\ First(s) \in 1 .. n /\ First(t) \in 1 .. n
        BY <1>4, <3>1
      <4>. QED
        BY <1>2, <3>3, <4>1, <4>2
    <3>. QED
      BY <1>2, <3>2, <3>3
  <2>. QED
    BY <2>2, <2>4, <2>5
<1>6. CASE "VERIFIED" \in seen
  <2>1. DecisionVerdict(statuses) = CHOOSE s \in seen : \A t \in seen \ {s} :
          Times(s) > Times(t) \/ (Times(s) = Times(t) /\ First(s) < First(t))
    BY <1>6 DEF DecisionVerdict, seen, Times, First
  <2>2. DecisionVerdict(statuses) \in seen
    BY <1>5, <1>6, <2>1
  <2>. QED
    BY <1>3, <2>2
<1>7. CASE "VERIFIED" \notin seen
  BY <1>7 DEF DecisionVerdict, seen, Verdicts
<1>. QED
  BY <1>6, <1>7

(* The share of a decision in the results is a part of them.               *)
LEMMA ShareFits ==
  ASSUME gate.results \in Seq(Verdicts), NEW S, NEW decisions \in Seq(Seq(S)),
         NEW n \in DOMAIN decisions
  PROVE  Share(decisions, n) \in Seq(Verdicts)
<1>1. PICK results : results = gate.results
  OBVIOUS
<1>2. Len(results) \in Nat /\ \A i \in 1 .. Len(results) : results[i] \in Verdicts
  BY <1>1, LenProperties, ElementOfSeq
<1>3. Len(decisions) \in Nat /\ DOMAIN decisions = 1 .. Len(decisions)
      /\ \A i \in 1 .. Len(decisions) : decisions[i] \in Seq(S)
  BY LenProperties, ElementOfSeq
<1>4. PICK before : before = Len(FlattenSeq(SubSeq(decisions, 1, n - 1)))
  OBVIOUS
<1>5. before \in Nat
  <2>1. \A i \in 1 .. n - 1 : decisions[i] \in Seq(S)
    BY <1>3
  <2>2. SubSeq(decisions, 1, n - 1) \in Seq(Seq(S))
    BY <1>3, <2>1, SubSeqProperties
  <2>. QED
    BY <1>4, <2>2, FlattenFits, LenProperties
<1>6. PICK after : after = before + Len(decisions[n])
  OBVIOUS
<1>7. after \in Nat
  BY <1>3, <1>5, <1>6, LenProperties
<1>8. Min({after, Len(results)}) \in Nat /\ Min({after, Len(results)}) <= Len(results)
  <2>1. \E x \in {after, Len(results)} : \A y \in {after, Len(results)} : x =< y
    BY <1>2, <1>7
  <2>2. Min({after, Len(results)}) \in {after, Len(results)}
        /\ \A y \in {after, Len(results)} : Min({after, Len(results)}) =< y
    BY <2>1 DEF Min
  <2>. QED
    BY <1>2, <1>7, <2>2
<1>9. Share(decisions, n) = SubSeq(results, before + 1, Min({after, Len(results)}))
  BY <1>1, <1>4, <1>6 DEF Share
<1>10. PICK m \in Nat : m = Min({after, Len(results)}) /\ m <= Len(results)
  BY <1>8
<1>11. \A i \in before + 1 .. m : results[i] \in Verdicts
  BY <1>2, <1>5, <1>10
<1>12. SubSeq(results, before + 1, m) \in Seq(Verdicts)
  BY <1>5, <1>11, SubSeqProperties
<1>. QED
  BY <1>9, <1>10, <1>12

LEMMA ReverseFits ==
  ASSUME NEW S, NEW s \in Seq(S)
  PROVE  Reverse(s) \in Seq(S) /\ (s = <<>> => Reverse(s) = <<>>)
<1>1. Len(s) \in Nat /\ \A i \in 1 .. Len(s) : s[i] \in S
  BY LenProperties, ElementOfSeq
<1>2. \A i \in 1 .. Len(s) : Len(s) - i + 1 \in 1 .. Len(s)
  BY <1>1
<1>3. Reverse(s) \in [1 .. Len(s) -> S]
  BY <1>1, <1>2 DEF Reverse
<1>4. Reverse(s) \in Seq(S)
  BY <1>1, <1>3, SeqDef
<1>5. s = <<>> => Reverse(s) = <<>>
  BY DEF Reverse
<1>. QED
  BY <1>4, <1>5

---------------------------------------------------------------------------
(* The invariant                                                           *)

RecordRows ==
  [status : {"QUEUED", "RUNNING", "COMPLETED", "FAILED"}, result : SUBSET DOMAIN Finals,
   torn : BOOLEAN]

(* The types of all variables, and what each place of the worker and of    *)
(* the gate has at hand.                                                   *)
RowsFit ==
  /\ record \in RecordRows
  /\ verification \subseteq Verdicts \cup {"REJECTED"}
  /\ runs \in Nat /\ runs <= MaxRuns
  /\ losses \in Nat /\ losses <= MaxLosses

WorkerFits ==
  /\ worker \in [at : {"idle", "persist", "memory", "commit"},
                 final : SUBSET DOMAIN Finals, lost : BOOLEAN]
  /\ worker.at # "idle" => \E name \in DOMAIN Finals : worker.final = {name}

GateFits ==
  /\ gate \in [at : {"idle", "verified", "paired", "loaded"}, searched : BOOLEAN,
               results : Seq(Verdicts), overall : Verdicts \cup {"none"},
               verdicts : SUBSET Verdicts, row : SUBSET RecordRows]
  /\ gate.at # "idle" => gate.overall # "none"
  /\ gate.at = "loaded" => \E r \in RecordRows : gate.row = {r}

(* The one lineage is that of a run with stages, and the memory is stored  *)
(* by the execution that stored the lineage.                               *)
LineageFits ==
  /\ lineages = <<>> \/ \E name \in DOMAIN Finals :
                           lineages = <<name>> /\ Finals[name].stages > 0
  /\ memories \in Nat
  /\ lineages = <<>> => memories = 0
  /\ lineages # <<>> => memories <= 1
  /\ worker.at = "memory" => lineages # <<>> /\ memories = 0

(* The lineage is there and there is a result, or a verification of one.   *)
Ended == lineages # <<>> /\ (record.result # {} \/ verification # {})

(* Who completes the row has seen the lineage of a run, unless that could  *)
(* not be stored.                                                          *)
CompletionFits ==
  /\ record.status = "COMPLETED" /\ ~worker.lost => Ended
  /\ ~worker.lost => \A name \in worker.final :
       worker.at \in {"memory", "commit"} /\ Finals[name].status = "COMPLETED"
         => lineages # <<>>
  /\ gate.verdicts # {} => lineages # <<>>

(* What a session has read is what there is: no later write changes it.    *)
SessionFits ==
  LET f == session.facts
  IN /\ DOMAIN session = {"at", "linked", "facts"}
     /\ session.linked \in BOOLEAN
     /\ DOMAIN f = DOMAIN NoFacts
     /\ ~session.linked => session.at \in {"idle", "over"} /\ f = NoFacts
     /\ session.linked =>
          session.at \in {"row", "executions", "decisions", "texts", "nodes", "rest", "over"}
     /\ session.linked /\ ~worker.lost =>
          /\ Ended
          /\ session.at # "row" => f.hasResult \/ verification # {}
          /\ session.at \in {"decisions", "texts", "nodes", "rest", "over"} =>
               f.executions = Len(Decisions)
          /\ session.at \in {"texts", "nodes", "rest", "over"} =>
               f.decisions = Len(Decisions) /\ f.memory \in Nat /\ f.memory <= memories
          /\ session.at \in {"nodes", "rest", "over"} =>
               f.withRationale = Len(Decisions) /\ f.withConfidence = Len(Decisions)
          /\ session.at \in {"rest", "over"} => f.nodes = Len(OwnNodes)
          /\ session.at = "over" =>
               /\ f.hasResult \/ f.verification # {}
               /\ f.memory > 0 => f.memoryTypes > 0

RecordInv ==
  /\ RowsFit /\ WorkerFits /\ GateFits /\ LineageFits /\ CompletionFits /\ SessionFits
  /\ ClaimsFindEvidence /\ NeverVerifiedWorse

(* The recorded decisions are as many as the run has stages, and have at   *)
(* least as many nodes.                                                    *)
LEMMA DecisionsFit ==
  ASSUME LineageFits, lineages # <<>>
  PROVE  /\ Len(Decisions) \in Nat /\ Len(Decisions) > 0
         /\ Len(OwnNodes) \in Nat /\ Len(OwnNodes) >= Len(Decisions)
<1>1. PICK name \in DOMAIN Finals : lineages = <<name>> /\ Finals[name].stages > 0
  BY DEF LineageFits
<1>2. Decisions = Recorded[name].claims /\ OwnNodes = Recorded[name].nodes
  BY <1>1, OneLineage DEF Decisions, OwnNodes
<1>3. Finals[name].stages \in 0 .. 6
  <2>1. Len(DraftTypes) = 6
    BY DEF DraftTypes
  <2>. QED
    BY <2>1, RecordAssumption
<1>4. Len(Recorded[name].nodes) \in Nat
  <2>1. PICK X : Recorded[name].nodes \in Seq(X)
    BY RecordedFits DEF RecordFits
  <2>. QED
    BY <2>1, LenProperties
<1>5. /\ Len(Recorded[name].claims) = Finals[name].stages
      /\ Len(Recorded[name].nodes) >= Len(Recorded[name].claims)
  BY RecordedFits DEF RecordFits
<1>. QED
  BY <1>1, <1>2, <1>3, <1>4, <1>5

(* There are decisions to judge only when there is a lineage.              *)
LEMMA DecisionsOfLineage ==
  ASSUME LineageFits
  PROVE  /\ \E S : Decisions \in Seq(Seq(S))
         /\ lineages = <<>> => Decisions = <<>>
<1>1. CASE lineages = <<>>
  <2>1. Decisions = <<>>
    BY <1>1, NoLineage DEF Decisions
  <2>2. <<>> \in Seq(Seq({}))
    BY EmptySeq
  <2>. QED
    BY <2>1, <2>2
<1>2. CASE lineages # <<>>
  <2>1. PICK name \in DOMAIN Finals : lineages = <<name>>
    BY <1>2 DEF LineageFits
  <2>2. Decisions = Recorded[name].claims
    BY <2>1, OneLineage DEF Decisions
  <2>3. PICK S : Recorded[name].claims \in Seq(Seq(S))
    BY RecordedFits DEF RecordFits
  <2>. QED
    BY <1>2, <2>2, <2>3
<1>. QED
  BY <1>1, <1>2

LEMMA RecordInitFits ==
  ASSUME RecordInit
  PROVE  RecordInv
<1>1. RowsFit
  BY RecordAssumption DEF RecordInit, RowsFit, RecordRows
<1>2. WorkerFits
  BY DEF RecordInit, WorkerFits
<1>3. GateFits
  BY EmptySeq DEF RecordInit, GateFits, Waiting
<1>4. LineageFits
  BY DEF RecordInit, LineageFits
<1>5. CompletionFits
  BY DEF RecordInit, CompletionFits, Waiting
<1>6. SessionFits
  BY DEF RecordInit, SessionFits, NoFacts
<1>7. ClaimsFindEvidence
  BY DEF RecordInit, ClaimsFindEvidence, Waiting
<1>8. NeverVerifiedWorse
  BY DEF RecordInit, NeverVerifiedWorse
<1>. QED
  BY <1>1, <1>2, <1>3, <1>4, <1>5, <1>6, <1>7, <1>8 DEF RecordInv

---------------------------------------------------------------------------
(* The steps                                                               *)

LEMMA RecordBounds == MaxRuns \in Nat /\ MaxLosses \in Nat
BY RecordAssumption

(* The name of the final state that a busy worker has.                     *)
LEMMA NameFits ==
  ASSUME WorkerFits, worker.at # "idle"
  PROVE  Name \in DOMAIN Finals /\ worker.final = {Name}
BY DEF WorkerFits, Name

(* There are drafts exactly for a run with stages, so for a completed one. *)
LEMMA DraftsFit ==
  ASSUME NEW name \in DOMAIN Finals
  PROVE  /\ Recorded[name].claims # <<>> => Finals[name].stages > 0
         /\ Finals[name].status = "COMPLETED" => Recorded[name].claims # <<>>
<1>1. PICK claims : claims = Recorded[name].claims
  OBVIOUS
<1>2. PICK S : claims \in Seq(S)
  BY <1>1, RecordedFits DEF RecordFits
<1>3. Len(claims) = Finals[name].stages
  BY <1>1, RecordedFits DEF RecordFits
<1>4. Len(claims) \in Nat /\ (claims = <<>> <=> Len(claims) = 0)
  BY <1>2, EmptySeq, LenProperties
<1>5. Finals[name].status = "COMPLETED" => Finals[name].stages > 0
  BY RecordAssumption
<1>. QED
  BY <1>1, <1>3, <1>4, <1>5

LEMMA ExecuteFits ==
  ASSUME RecordInv, Execute
  PROVE  RecordInv'
<1>1. RowsFit'
  BY RecordBounds DEF RecordInv, RowsFit, RecordRows, Execute
<1>2. WorkerFits'
  <2>1. PICK name \in DOMAIN Finals :
          worker' = [worker EXCEPT !.at = "persist", !.final = {name}]
    BY DEF Execute
  <2>2. worker \in [at : {"idle", "persist", "memory", "commit"},
                    final : SUBSET DOMAIN Finals, lost : BOOLEAN]
    BY DEF RecordInv, WorkerFits
  <2>3. worker'.final = {name}
    BY <2>1, <2>2
  <2>4. worker' \in [at : {"idle", "persist", "memory", "commit"},
                     final : SUBSET DOMAIN Finals, lost : BOOLEAN]
    BY <2>1, <2>2
  <2>. QED
    BY <2>3, <2>4 DEF WorkerFits
<1>3. GateFits'
  BY DEF RecordInv, GateFits, RecordRows, Execute
<1>4. LineageFits'
  BY DEF RecordInv, LineageFits, WorkerFits, Execute
<1>5. CompletionFits'
  BY DEF RecordInv, CompletionFits, Ended, Execute
<1>6. SessionFits'
  BY DEF RecordInv, SessionFits, Ended, Decisions, OwnNodes, Execute
<1>7. ClaimsFindEvidence'
  BY DEF RecordInv, ClaimsFindEvidence, Execute
<1>8. NeverVerifiedWorse'
  BY DEF RecordInv, NeverVerifiedWorse, FailedChecks, Results, Execute
<1>. QED
  BY <1>1, <1>2, <1>3, <1>4, <1>5, <1>6, <1>7, <1>8 DEF RecordInv

LEMMA PersistEvidenceFits ==
  ASSUME RecordInv, PersistEvidence
  PROVE  RecordInv'
<1>9. /\ Name \in DOMAIN Finals /\ worker.final = {Name}
      /\ Recorded[Name].claims # <<>> => Finals[Name].stages > 0
      /\ Finals[Name].status = "COMPLETED" => Recorded[Name].claims # <<>>
  BY NameFits, DraftsFit DEF RecordInv, PersistEvidence
<1>10. worker \in [at : {"idle", "persist", "memory", "commit"},
                   final : SUBSET DOMAIN Finals, lost : BOOLEAN]
  BY DEF RecordInv, WorkerFits
<1>11. <<Name>> # <<>>
  OBVIOUS
<1>12. /\ worker'.final = {Name} /\ (~worker'.lost => ~worker.lost)
       /\ \/ /\ lineages # <<>> \/ Recorded[Name].claims = <<>>
             /\ worker'.at = "commit" /\ lineages' = lineages
          \/ /\ lineages = <<>> /\ Recorded[Name].claims # <<>> /\ lineages' = <<Name>>
          \/ worker'.at = "commit" /\ worker'.lost /\ lineages' = lineages
  BY <1>9, <1>10 DEF PersistEvidence, Goes
<1>1. RowsFit'
  BY RecordBounds DEF RecordInv, RowsFit, RecordRows, PersistEvidence, Goes, Loses
<1>2. WorkerFits'
  BY DEF RecordInv, WorkerFits, PersistEvidence, Goes, Loses
<1>3. GateFits'
  BY DEF RecordInv, GateFits, RecordRows, PersistEvidence, Goes, Loses
<1>4. LineageFits'
  <2>1. memories' = memories
    BY DEF PersistEvidence
  <2>2. CASE lineages' = lineages /\ worker'.at = "commit"
    BY <2>1, <2>2 DEF RecordInv, LineageFits
  <2>3. CASE lineages = <<>> /\ Recorded[Name].claims # <<>> /\ lineages' = <<Name>>
    <3>1. memories = 0
      BY <2>3 DEF RecordInv, LineageFits
    <3>. QED
      BY <1>9, <1>11, <2>1, <2>3, <3>1 DEF LineageFits
  <2>. QED
    BY <1>12, <2>2, <2>3
<1>5. CompletionFits'
  <2>1. record' = record /\ verification' = verification /\ gate' = gate
    BY DEF PersistEvidence
  <2>2. lineages # <<>> => lineages' # <<>>
    BY <1>11, <1>12
  <2>3. record'.status = "COMPLETED" /\ ~worker'.lost => Ended'
    BY <1>12, <2>1, <2>2 DEF RecordInv, CompletionFits, Ended
  <2>4. gate'.verdicts # {} => lineages' # <<>>
    BY <2>1, <2>2 DEF RecordInv, CompletionFits
  <2>5. ~worker'.lost => \A name \in worker'.final :
          worker'.at \in {"memory", "commit"} /\ Finals[name].status = "COMPLETED"
            => lineages' # <<>>
    BY <1>9, <1>11, <1>12
  <2>. QED
    BY <2>3, <2>4, <2>5 DEF CompletionFits
<1>6. SessionFits'
  <2>1. record' = record /\ verification' = verification /\ session' = session
        /\ memories' = memories
    BY DEF PersistEvidence
  <2>2. CASE lineages' = lineages
    BY <1>12, <2>1, <2>2 DEF RecordInv, SessionFits, Ended, Decisions, OwnNodes
  <2>3. CASE lineages = <<>>
    <3>1. ~(session'.linked /\ ~worker'.lost)
      BY <1>12, <2>1, <2>3 DEF RecordInv, SessionFits, Ended
    <3>. QED
      BY <2>1, <3>1 DEF RecordInv, SessionFits
  <2>. QED
    BY <1>12, <2>2, <2>3
<1>7. ClaimsFindEvidence'
  BY DEF RecordInv, ClaimsFindEvidence, PersistEvidence, Goes, Loses
<1>8. NeverVerifiedWorse'
  BY DEF RecordInv, NeverVerifiedWorse, FailedChecks, Results, PersistEvidence, Goes, Loses
<1>. QED
  BY <1>1, <1>2, <1>3, <1>4, <1>5, <1>6, <1>7, <1>8 DEF RecordInv

LEMMA StoreMemoryFits ==
  ASSUME RecordInv, StoreMemory
  PROVE  RecordInv'
<1>1. RowsFit'
  BY RecordBounds DEF RecordInv, RowsFit, RecordRows, StoreMemory, Goes, Loses
<1>2. WorkerFits'
  BY DEF RecordInv, WorkerFits, StoreMemory, Goes, Loses
<1>3. GateFits'
  BY DEF RecordInv, GateFits, RecordRows, StoreMemory, Goes, Loses
<1>4. LineageFits'
  BY DEF RecordInv, LineageFits, WorkerFits, StoreMemory, Goes, Loses
<1>5. CompletionFits'
  BY DEF RecordInv, CompletionFits, Ended, StoreMemory, Goes, Loses
<1>6. SessionFits'
  <2>1. memories \in Nat /\ memories' \in Nat /\ memories' >= memories
    BY DEF RecordInv, LineageFits, StoreMemory
  <2>2. worker'.lost = worker.lost
    BY DEF RecordInv, WorkerFits, StoreMemory, Goes
  <2>3. /\ record' = record /\ verification' = verification /\ session' = session
        /\ lineages' = lineages
    BY DEF StoreMemory
  <2>. QED
    BY <2>1, <2>2, <2>3 DEF RecordInv, SessionFits, Ended, Decisions, OwnNodes
<1>7. ClaimsFindEvidence'
  BY DEF RecordInv, ClaimsFindEvidence, StoreMemory, Goes, Loses
<1>8. NeverVerifiedWorse'
  BY DEF RecordInv, NeverVerifiedWorse, FailedChecks, Results, StoreMemory, Goes, Loses
<1>. QED
  BY <1>1, <1>2, <1>3, <1>4, <1>5, <1>6, <1>7, <1>8 DEF RecordInv

LEMMA CommitRowFits ==
  ASSUME RecordInv, CommitRow
  PROVE  RecordInv'
<1>9. Name \in DOMAIN Finals /\ worker.final = {Name}
  BY NameFits DEF RecordInv, CommitRow
<1>10. /\ record' = [status |-> IF Finals[Name].status = "COMPLETED" THEN "COMPLETED" ELSE "FAILED",
                      result |-> {Name}, torn |-> FALSE]
       /\ worker'.final = {} /\ worker'.lost = worker.lost /\ worker'.at = "idle"
  BY <1>9 DEF RecordInv, WorkerFits, CommitRow, Forgets, Final
<1>1. RowsFit'
  BY <1>9, <1>10 DEF RecordInv, RowsFit, RecordRows, CommitRow
<1>2. WorkerFits'
  BY DEF RecordInv, WorkerFits, CommitRow, Forgets, Final, Name
<1>3. GateFits'
  BY DEF RecordInv, GateFits, RecordRows, CommitRow, Forgets, Final, Name
<1>4. LineageFits'
  BY DEF RecordInv, LineageFits, WorkerFits, CommitRow, Forgets, Final, Name
<1>5. CompletionFits'
  <2>1. lineages' = lineages /\ gate' = gate
    BY DEF CommitRow
  <2>2. Finals[Name].status = "COMPLETED" /\ ~worker.lost => lineages # <<>>
    BY <1>9 DEF RecordInv, CompletionFits, CommitRow
  <2>. QED
    BY <1>10, <2>1, <2>2 DEF RecordInv, CompletionFits, Ended
<1>6. SessionFits'
  <2>1. /\ lineages' = lineages /\ session' = session /\ verification' = verification
        /\ memories' = memories
    BY DEF CommitRow
  <2>2. Ended => Ended'
    BY <1>10, <2>1 DEF Ended
  <2>. QED
    BY <1>10, <2>1, <2>2 DEF RecordInv, SessionFits, Decisions, OwnNodes
<1>7. ClaimsFindEvidence'
  BY DEF RecordInv, ClaimsFindEvidence, CommitRow, Forgets, Final, Name
<1>8. NeverVerifiedWorse'
  <2>1. Finals[Name].status = "COMPLETED" => FailedChecks({Name}) = {}
    BY <1>9, RecordAssumption
  <2>. QED
    BY <1>10, <2>1 DEF NeverVerifiedWorse
<1>. QED
  BY <1>1, <1>2, <1>3, <1>4, <1>5, <1>6, <1>7, <1>8 DEF RecordInv

LEMMA WorkerDiesFits ==
  ASSUME RecordInv, WorkerDies
  PROVE  RecordInv'
<1>1. RowsFit'
  BY RecordBounds DEF RecordInv, RowsFit, RecordRows, WorkerDies, Forgets, Loses
<1>2. WorkerFits'
  BY DEF RecordInv, WorkerFits, WorkerDies, Forgets, Loses
<1>3. GateFits'
  BY DEF RecordInv, GateFits, RecordRows, WorkerDies, Forgets, Loses
<1>4. LineageFits'
  BY DEF RecordInv, LineageFits, WorkerFits, WorkerDies, Forgets, Loses
<1>5. CompletionFits'
  BY DEF RecordInv, CompletionFits, Ended, WorkerDies, Forgets, Loses
<1>6. SessionFits'
  BY DEF RecordInv, SessionFits, Ended, Decisions, OwnNodes, WorkerDies, Forgets, Loses
<1>7. ClaimsFindEvidence'
  BY DEF RecordInv, ClaimsFindEvidence, WorkerDies, Forgets, Loses
<1>8. NeverVerifiedWorse'
  BY DEF RecordInv, NeverVerifiedWorse, FailedChecks, Results, WorkerDies, Forgets, Loses
<1>. QED
  BY <1>1, <1>2, <1>3, <1>4, <1>5, <1>6, <1>7, <1>8 DEF RecordInv

LEMMA RestartFits ==
  ASSUME RecordInv, Restart
  PROVE  RecordInv'
<1>1. RowsFit'
  BY DEF RecordInv, RowsFit, RecordRows, Restart
<1>2. WorkerFits'
  BY DEF RecordInv, WorkerFits, Restart
<1>3. GateFits'
  BY DEF RecordInv, GateFits, RecordRows, Restart
<1>4. LineageFits'
  BY DEF RecordInv, LineageFits, WorkerFits, Restart
<1>5. CompletionFits'
  BY DEF RecordInv, CompletionFits, Ended, Restart
<1>6. SessionFits'
  BY DEF RecordInv, SessionFits, Ended, Decisions, OwnNodes, Restart
<1>7. ClaimsFindEvidence'
  BY DEF RecordInv, ClaimsFindEvidence, Restart
<1>8. NeverVerifiedWorse'
  BY DEF RecordInv, NeverVerifiedWorse, FailedChecks, Results, Restart
<1>. QED
  BY <1>1, <1>2, <1>3, <1>4, <1>5, <1>6, <1>7, <1>8 DEF RecordInv

LEMMA GateVerifyFits ==
  ASSUME RecordInv, GateVerify
  PROVE  RecordInv'
<1>9. PICK searched \in BOOLEAN : \E results \in ClaimResults[lineages][searched] :
        gate' = [gate EXCEPT !.at = "verified", !.searched = searched,
                   !.results = results, !.overall = Overall(results)]
  BY DEF GateVerify
<1>10. PICK results \in ClaimResults[lineages][searched] :
         gate' = [gate EXCEPT !.at = "verified", !.searched = searched,
                    !.results = results, !.overall = Overall(results)]
  BY <1>9
<1>11. results \in Seq(Verdicts) /\ (searched => "UNVERIFIED" \notin ToSet(results))
  <2>1. Lineage(lineages)
    BY DEF RecordInv, LineageFits, Lineage
  <2>. QED
    BY <2>1, ResultsFit
<1>12. Overall(results) \in Verdicts
  BY DEF Overall, Verdicts
<1>1. RowsFit'
  BY RecordBounds DEF RecordInv, RowsFit, RecordRows, GateVerify, Loses
<1>2. WorkerFits'
  BY DEF RecordInv, WorkerFits, GateVerify, Loses
<1>3. GateFits'
  BY <1>10, <1>11, <1>12 DEF RecordInv, GateFits, Verdicts
<1>4. LineageFits'
  BY DEF RecordInv, LineageFits, WorkerFits, GateVerify, Loses
<1>5. CompletionFits'
  <2>1. gate'.verdicts = gate.verdicts
    BY <1>10 DEF RecordInv, GateFits
  <2>. QED
    BY <2>1 DEF RecordInv, CompletionFits, Ended, GateVerify
<1>6. SessionFits'
  BY DEF RecordInv, SessionFits, Ended, Decisions, OwnNodes, GateVerify, Loses
<1>7. ClaimsFindEvidence'
  BY <1>10, <1>11 DEF RecordInv, GateFits, ClaimsFindEvidence
<1>8. NeverVerifiedWorse'
  BY DEF RecordInv, NeverVerifiedWorse, FailedChecks, Results, GateVerify, Loses
<1>. QED
  BY <1>1, <1>2, <1>3, <1>4, <1>5, <1>6, <1>7, <1>8 DEF RecordInv

LEMMA GatePairFits ==
  ASSUME RecordInv, GatePair
  PROVE  RecordInv'
<1>9. PICK decisions \in {Decisions, Reverse(Decisions)} :
        gate' = [gate EXCEPT !.at = "paired", !.searched = FALSE, !.results = <<>>,
          !.verdicts = {DecisionVerdict(Share(decisions, n)) : n \in DOMAIN decisions}]
  BY DEF GatePair
<1>10. PICK verdicts : verdicts = {DecisionVerdict(Share(decisions, n)) : n \in DOMAIN decisions}
  OBVIOUS
<1>11. verdicts \subseteq Verdicts /\ (lineages = <<>> => verdicts = {})
  <2>1. PICK S : Decisions \in Seq(Seq(S))
    BY DecisionsOfLineage DEF RecordInv
  <2>2. decisions \in Seq(Seq(S)) /\ (lineages = <<>> => decisions = <<>>)
    BY <2>1, ReverseFits, DecisionsOfLineage DEF RecordInv
  <2>3. gate.results \in Seq(Verdicts)
    BY DEF RecordInv, GateFits
  <2>4. ASSUME NEW n \in DOMAIN decisions
        PROVE  DecisionVerdict(Share(decisions, n)) \in Verdicts
    BY <2>2, <2>3, ShareFits, VerdictFits
  <2>. QED
    BY <1>10, <2>2, <2>4
<1>12. gate \in [at : {"idle", "verified", "paired", "loaded"}, searched : BOOLEAN,
                 results : Seq(Verdicts), overall : Verdicts \cup {"none"},
                 verdicts : SUBSET Verdicts, row : SUBSET RecordRows]
  BY DEF RecordInv, GateFits
<1>13. gate' = [gate EXCEPT !.at = "paired", !.searched = FALSE, !.results = <<>>,
                  !.verdicts = verdicts]
  BY <1>9, <1>10
<1>1. RowsFit'
  BY DEF RecordInv, RowsFit, RecordRows, GatePair
<1>2. WorkerFits'
  BY DEF RecordInv, WorkerFits, GatePair
<1>3. GateFits'
  <2>1. <<>> \in Seq(Verdicts)
    BY EmptySeq
  <2>. QED
    BY <1>11, <1>12, <1>13, <2>1 DEF RecordInv, GateFits, RecordRows, GatePair
<1>4. LineageFits'
  BY DEF RecordInv, LineageFits, WorkerFits, GatePair
<1>5. CompletionFits'
  <2>1. gate'.verdicts = verdicts
    BY <1>12, <1>13
  <2>. QED
    BY <1>11, <2>1 DEF RecordInv, CompletionFits, Ended, GatePair
<1>6. SessionFits'
  BY DEF RecordInv, SessionFits, Ended, Decisions, OwnNodes, GatePair
<1>7. ClaimsFindEvidence'
  BY <1>12, <1>13 DEF ClaimsFindEvidence
<1>8. NeverVerifiedWorse'
  BY DEF RecordInv, NeverVerifiedWorse, FailedChecks, Results, GatePair
<1>. QED
  BY <1>1, <1>2, <1>3, <1>4, <1>5, <1>6, <1>7, <1>8 DEF RecordInv

LEMMA GateLoadFits ==
  ASSUME RecordInv, GateLoad
  PROVE  RecordInv'
<1>1. RowsFit'
  BY DEF RecordInv, RowsFit, RecordRows, GateLoad
<1>2. WorkerFits'
  BY DEF RecordInv, WorkerFits, GateLoad
<1>3. GateFits'
  <2>1. record \in RecordRows
    BY DEF RecordInv, RowsFit
  <2>2. gate'.at = "loaded" /\ gate'.row = {record} /\ gate'.overall = gate.overall
    BY DEF RecordInv, GateFits, GateLoad
  <2>3. gate' \in [at : {"idle", "verified", "paired", "loaded"}, searched : BOOLEAN,
                   results : Seq(Verdicts), overall : Verdicts \cup {"none"},
                   verdicts : SUBSET Verdicts, row : SUBSET RecordRows]
    BY <2>1 DEF RecordInv, GateFits, GateLoad
  <2>4. gate'.overall # "none"
    BY <2>2 DEF RecordInv, GateFits, GateLoad
  <2>. QED
    BY <2>1, <2>2, <2>3, <2>4 DEF GateFits, RecordRows
<1>4. LineageFits'
  BY DEF RecordInv, LineageFits, WorkerFits, GateLoad
<1>5. CompletionFits'
  BY DEF RecordInv, CompletionFits, Ended, GateLoad
<1>6. SessionFits'
  BY DEF RecordInv, SessionFits, Ended, Decisions, OwnNodes, GateLoad
<1>7. ClaimsFindEvidence'
  BY DEF RecordInv, ClaimsFindEvidence, GateLoad
<1>8. NeverVerifiedWorse'
  BY DEF RecordInv, NeverVerifiedWorse, FailedChecks, Results, GateLoad
<1>. QED
  BY <1>1, <1>2, <1>3, <1>4, <1>5, <1>6, <1>7, <1>8 DEF RecordInv

LEMMA GateCommitFits ==
  ASSUME RecordInv, GateCommit
  PROVE  RecordInv'
<1>9. PICK row : row = CHOOSE r \in gate.row : TRUE
  OBVIOUS
<1>10. row \in RecordRows
  BY <1>9 DEF RecordInv, GateFits, GateCommit
<1>11. PICK failed : failed = FailedChecks(row.result)
  OBVIOUS
<1>12. PICK outcome : outcome = GateOutcome(failed, gate.verdicts)
  OBVIOUS
<1>13. /\ record' = [status |-> IF outcome.status = row.status
                                THEN record.status ELSE outcome.status,
                      result |-> row.result, torn |-> record # row]
       /\ verification' = {IF failed # {} THEN "REJECTED" ELSE gate.overall}
  BY <1>9, <1>11, <1>12 DEF GateCommit
<1>14. /\ outcome.status \in {"COMPLETED", "FAILED"}
       /\ outcome.status = "COMPLETED" => failed = {} /\ gate.verdicts # {}
  BY <1>12 DEF GateOutcome
<1>15. gate.overall \in Verdicts
  BY DEF RecordInv, GateFits, GateCommit
<1>1. RowsFit'
  <2>1. record' \in RecordRows
    BY <1>10, <1>13, <1>14 DEF RecordInv, RowsFit, RecordRows
  <2>2. verification' \subseteq Verdicts \cup {"REJECTED"}
    BY <1>13, <1>15
  <2>. QED
    BY <2>1, <2>2 DEF RecordInv, RowsFit, GateCommit
<1>2. WorkerFits'
  BY DEF RecordInv, WorkerFits, GateCommit, Waiting
<1>3. GateFits'
  BY DEF RecordInv, GateFits, RecordRows, GateCommit, Waiting
<1>4. LineageFits'
  BY DEF RecordInv, LineageFits, WorkerFits, GateCommit, Waiting
<1>5. CompletionFits'
  <2>1. worker' = worker /\ lineages' = lineages /\ gate'.verdicts = {}
    BY DEF GateCommit, Waiting
  <2>2. record'.status = "COMPLETED"
          => record.status = "COMPLETED" \/ gate.verdicts # {}
    BY <1>13, <1>14
  <2>3. record'.status = "COMPLETED" /\ ~worker.lost => lineages # <<>>
    BY <2>2 DEF RecordInv, CompletionFits, Ended
  <2>4. verification' # {}
    BY <1>13
  <2>5. record'.status = "COMPLETED" /\ ~worker'.lost => Ended'
    BY <2>1, <2>3, <2>4 DEF Ended
  <2>. QED
    BY <2>1, <2>5 DEF RecordInv, CompletionFits
<1>6. SessionFits'
  <2>1. /\ worker' = worker /\ lineages' = lineages /\ session' = session
        /\ memories' = memories
    BY DEF GateCommit
  <2>2. verification' # {}
    BY <1>13
  <2>. QED
    BY <2>1, <2>2 DEF RecordInv, SessionFits, Ended, Decisions, OwnNodes
<1>7. ClaimsFindEvidence'
  BY DEF RecordInv, ClaimsFindEvidence, GateCommit, Waiting
<1>8. NeverVerifiedWorse'
  <2>1. ASSUME record'.status = "COMPLETED", ~record'.torn
        PROVE  FailedChecks(record'.result) = {}
    <3>1. record = row /\ record'.result = row.result
      BY <1>13, <2>1
    <3>2. outcome.status = "COMPLETED"
      BY <1>13, <1>14, <2>1, <3>1
    <3>. QED
      BY <1>11, <1>14, <3>1, <3>2
  <2>. QED
    BY <2>1 DEF NeverVerifiedWorse
<1>. QED
  BY <1>1, <1>2, <1>3, <1>4, <1>5, <1>6, <1>7, <1>8 DEF RecordInv

LEMMA LinkExperimentFits ==
  ASSUME RecordInv, LinkExperiment
  PROVE  RecordInv'
<1>1. RowsFit'
  BY DEF RecordInv, RowsFit, RecordRows, LinkExperiment
<1>2. WorkerFits'
  BY DEF RecordInv, WorkerFits, LinkExperiment
<1>3. GateFits'
  BY DEF RecordInv, GateFits, RecordRows, LinkExperiment
<1>4. LineageFits'
  BY DEF RecordInv, LineageFits, WorkerFits, LinkExperiment
<1>5. CompletionFits'
  BY DEF RecordInv, CompletionFits, Ended, LinkExperiment
<1>6. SessionFits'
  <2>1. /\ record' = record /\ worker' = worker /\ lineages' = lineages
        /\ verification' = verification
        /\ session' = [session EXCEPT !.at = "row", !.linked = TRUE]
    BY DEF LinkExperiment
  <2>2. ~worker.lost => Ended
    BY DEF RecordInv, CompletionFits, LinkExperiment
  <2>3. DOMAIN session = {"at", "linked", "facts"}
        /\ DOMAIN session.facts = DOMAIN NoFacts
    BY DEF RecordInv, SessionFits
  <2>4. /\ DOMAIN session' = {"at", "linked", "facts"} /\ session'.at = "row"
        /\ session'.linked = TRUE /\ session'.facts = session.facts
    BY <2>1, <2>3
  <2>. QED
    BY <2>1, <2>2, <2>3, <2>4 DEF SessionFits, Ended
<1>7. ClaimsFindEvidence'
  BY DEF RecordInv, ClaimsFindEvidence, LinkExperiment
<1>8. NeverVerifiedWorse'
  BY DEF RecordInv, NeverVerifiedWorse, FailedChecks, Results, LinkExperiment
<1>. QED
  BY <1>1, <1>2, <1>3, <1>4, <1>5, <1>6, <1>7, <1>8 DEF RecordInv

LEMMA JudgeFreshFits ==
  ASSUME RecordInv, JudgeFresh
  PROVE  RecordInv'
<1>1. RowsFit'
  BY DEF RecordInv, RowsFit, RecordRows, JudgeFresh
<1>2. WorkerFits'
  BY DEF RecordInv, WorkerFits, JudgeFresh
<1>3. GateFits'
  BY DEF RecordInv, GateFits, RecordRows, JudgeFresh
<1>4. LineageFits'
  BY DEF RecordInv, LineageFits, WorkerFits, JudgeFresh
<1>5. CompletionFits'
  BY DEF RecordInv, CompletionFits, Ended, JudgeFresh
<1>6. SessionFits'
  BY DEF RecordInv, SessionFits, Ended, Decisions, OwnNodes, JudgeFresh
<1>7. ClaimsFindEvidence'
  BY DEF RecordInv, ClaimsFindEvidence, JudgeFresh
<1>8. NeverVerifiedWorse'
  BY DEF RecordInv, NeverVerifiedWorse, FailedChecks, Results, JudgeFresh
<1>. QED
  BY <1>1, <1>2, <1>3, <1>4, <1>5, <1>6, <1>7, <1>8 DEF RecordInv

LEMMA ReadFactsFits ==
  ASSUME RecordInv, ReadFacts
  PROVE  RecordInv'
<1>9. /\ record' = record /\ worker' = worker /\ lineages' = lineages
      /\ verification' = verification /\ memories' = memories
  BY DEF ReadFacts
<1>10. PICK f : f = session.facts
  OBVIOUS
<1>11. /\ DOMAIN session = {"at", "linked", "facts"}
       /\ DOMAIN f = {"problem", "executions", "agents", "decisions", "withRationale",
                      "withConfidence", "nodes", "memory", "memoryTypes", "metrics",
                      "score", "baseline", "verification", "hasResult", "failures"}
       /\ DOMAIN NoFacts = DOMAIN f
       /\ session.linked
  BY <1>10 DEF RecordInv, SessionFits, NoFacts, ReadFacts
<1>12. memories \in Nat
  BY DEF RecordInv, LineageFits
<1>13. session.linked /\ ~worker.lost => Ended
  BY DEF RecordInv, SessionFits
<1>1. RowsFit'
  BY DEF RecordInv, RowsFit, RecordRows, ReadFacts
<1>2. WorkerFits'
  BY DEF RecordInv, WorkerFits, ReadFacts
<1>3. GateFits'
  BY DEF RecordInv, GateFits, RecordRows, ReadFacts
<1>4. LineageFits'
  BY DEF RecordInv, LineageFits, WorkerFits, ReadFacts
<1>5. CompletionFits'
  BY DEF RecordInv, CompletionFits, Ended, ReadFacts
<1>6. SessionFits'
  <2>1. ASSUME NEW g, NEW at, session' = [session EXCEPT !.at = at, !.facts = g],
               DOMAIN g = DOMAIN NoFacts,
               at \in {"executions", "decisions", "texts", "nodes", "rest", "over"},
               ~worker.lost =>
                 /\ g.hasResult \/ verification # {}
                 /\ at # "executions" => g.executions = Len(Decisions)
                 /\ at \notin {"executions", "decisions"} =>
                      g.decisions = Len(Decisions) /\ g.memory \in Nat /\ g.memory <= memories
                 /\ at \in {"nodes", "rest", "over"} =>
                      g.withRationale = Len(Decisions) /\ g.withConfidence = Len(Decisions)
                 /\ at \in {"rest", "over"} => g.nodes = Len(OwnNodes)
                 /\ at = "over" =>
                      /\ g.hasResult \/ g.verification # {}
                      /\ g.memory > 0 => g.memoryTypes > 0
        PROVE  SessionFits'
    <3>1. /\ DOMAIN session' = {"at", "linked", "facts"} /\ session'.at = at
          /\ session'.linked = TRUE /\ session'.facts = g
      <4>1. session.linked = TRUE
        BY <1>11 DEF RecordInv, SessionFits
      <4>. QED
        BY <1>11, <2>1, <4>1
    <3>2. ~worker.lost => Ended'
      BY <1>9, <1>11, <1>13 DEF Ended
    <3>. QED
      BY <1>9, <2>1, <3>1, <3>2 DEF SessionFits, Decisions, OwnNodes
  <2>2. CASE session.at = "row"
    <3>1. PICK g :
            /\ session' = [session EXCEPT !.at = "executions", !.facts = g]
            /\ g = [f EXCEPT
                     !.metrics = \E r \in Results(record.result) : r.metrics # {},
                     !.hasResult = record.result # {},
                     !.score = UNION {r.score : r \in Results(record.result)},
                     !.baseline = UNION {r.baseline : r \in Results(record.result)},
                     !.failures = FailedChecks(record.result)]
      BY <1>10, <1>11, <2>2 DEF ReadFacts
    <3>2. DOMAIN g = DOMAIN f /\ (g.hasResult <=> record.result # {})
      BY <1>11, <3>1
    <3>3. ~worker.lost => g.hasResult \/ verification # {}
      BY <1>11, <1>13, <3>2 DEF Ended
    <3>. QED
      BY <1>11, <2>1, <3>1, <3>2, <3>3, ZenonT(30)
  <2>3. CASE session.at = "executions"
    <3>1. PICK g : /\ session' = [session EXCEPT !.at = "decisions", !.facts = g]
                   /\ g = [f EXCEPT !.executions = Len(Decisions)]
      BY <1>10, <1>11, <2>3 DEF ReadFacts
    <3>2. DOMAIN g = DOMAIN f /\ g.hasResult = f.hasResult /\ g.executions = Len(Decisions)
      BY <1>11, <3>1
    <3>3. ~worker.lost => f.hasResult \/ verification # {}
      BY <1>10, <1>11, <2>3 DEF RecordInv, SessionFits
    <3>. QED
      BY <1>11, <2>1, <3>1, <3>2, <3>3
  <2>4. CASE session.at = "decisions"
    <3>1. PICK g : /\ session' = [session EXCEPT !.at = "texts", !.facts = g]
                   /\ g = [f EXCEPT !.decisions = Len(Decisions), !.memory = memories,
                            !.agents = {AgentOf[i] : i \in DOMAIN Decisions}]
      BY <1>10, <1>11, <2>4 DEF ReadFacts
    <3>2. /\ DOMAIN g = DOMAIN f /\ g.hasResult = f.hasResult /\ g.executions = f.executions
          /\ g.decisions = Len(Decisions) /\ g.memory = memories
      BY <1>11, <3>1
    <3>3. ~worker.lost => /\ f.hasResult \/ verification # {}
                          /\ f.executions = Len(Decisions)
      BY <1>10, <1>11, <2>4 DEF RecordInv, SessionFits
    <3>4. memories <= memories
      BY <1>12
    <3>. QED
      BY <1>11, <1>12, <2>1, <3>1, <3>2, <3>3, <3>4
  <2>5. CASE session.at = "texts"
    <3>1. PICK g : /\ session' = [session EXCEPT !.at = "nodes", !.facts = g]
                   /\ g = [f EXCEPT !.withRationale = Len(Decisions),
                                    !.withConfidence = Len(Decisions)]
      BY <1>10, <1>11, <2>5 DEF ReadFacts
    <3>2. /\ DOMAIN g = DOMAIN f /\ g.hasResult = f.hasResult /\ g.executions = f.executions
          /\ g.decisions = f.decisions /\ g.memory = f.memory
          /\ g.withRationale = Len(Decisions) /\ g.withConfidence = Len(Decisions)
      BY <1>11, <3>1
    <3>3. ~worker.lost => /\ f.hasResult \/ verification # {}
                          /\ f.executions = Len(Decisions) /\ f.decisions = Len(Decisions)
                          /\ f.memory \in Nat /\ f.memory <= memories
      BY <1>10, <1>11, <2>5 DEF RecordInv, SessionFits
    <3>. QED
      BY <1>11, <2>1, <3>1, <3>2, <3>3
  <2>6. CASE session.at = "nodes"
    <3>1. PICK g : /\ session' = [session EXCEPT !.at = "rest", !.facts = g]
                   /\ g = [f EXCEPT !.nodes = Len(OwnNodes)]
      BY <1>10, <1>11, <2>6 DEF ReadFacts
    <3>2. /\ DOMAIN g = DOMAIN f /\ g.hasResult = f.hasResult /\ g.executions = f.executions
          /\ g.decisions = f.decisions /\ g.memory = f.memory
          /\ g.withRationale = f.withRationale /\ g.withConfidence = f.withConfidence
          /\ g.nodes = Len(OwnNodes)
      BY <1>11, <3>1
    <3>3. ~worker.lost => /\ f.hasResult \/ verification # {}
                          /\ f.executions = Len(Decisions) /\ f.decisions = Len(Decisions)
                          /\ f.memory \in Nat /\ f.memory <= memories
                          /\ f.withRationale = Len(Decisions)
                          /\ f.withConfidence = Len(Decisions)
      BY <1>10, <1>11, <2>6 DEF RecordInv, SessionFits
    <3>. QED
      BY <1>11, <2>1, <3>1, <3>2, <3>3
  <2>7. CASE session.at = "rest"
    <3>1. PICK g : /\ session' = [session EXCEPT !.at = "over", !.facts = g]
                   /\ g = [f EXCEPT !.verification = verification, !.memoryTypes = memories]
      BY <1>10, <1>11, <2>7 DEF ReadFacts
    <3>2. /\ DOMAIN g = DOMAIN f /\ g.hasResult = f.hasResult /\ g.executions = f.executions
          /\ g.decisions = f.decisions /\ g.memory = f.memory
          /\ g.withRationale = f.withRationale /\ g.withConfidence = f.withConfidence
          /\ g.nodes = f.nodes /\ g.verification = verification /\ g.memoryTypes = memories
      BY <1>11, <3>1
    <3>3. ~worker.lost => /\ f.hasResult \/ verification # {}
                          /\ f.executions = Len(Decisions) /\ f.decisions = Len(Decisions)
                          /\ f.memory \in Nat /\ f.memory <= memories
                          /\ f.withRationale = Len(Decisions)
                          /\ f.withConfidence = Len(Decisions)
                          /\ f.nodes = Len(OwnNodes)
      BY <1>10, <1>11, <2>7 DEF RecordInv, SessionFits
    <3>4. ~worker.lost => (g.memory > 0 => g.memoryTypes > 0)
      BY <1>12, <3>2, <3>3
    <3>. QED
      BY <1>11, <2>1, <3>1, <3>2, <3>3, <3>4, ZenonT(30)
  <2>. QED
    BY <2>2, <2>3, <2>4, <2>5, <2>6, <2>7 DEF ReadFacts
<1>7. ClaimsFindEvidence'
  BY DEF RecordInv, ClaimsFindEvidence, ReadFacts
<1>8. NeverVerifiedWorse'
  BY DEF RecordInv, NeverVerifiedWorse, FailedChecks, Results, ReadFacts
<1>. QED
  BY <1>1, <1>2, <1>3, <1>4, <1>5, <1>6, <1>7, <1>8 DEF RecordInv

LEMMA RecordStepFits ==
  ASSUME RecordInv, [RecordNext]_recordVars
  PROVE  RecordInv'
<1>1. CASE RecordNext
  BY <1>1, ExecuteFits, PersistEvidenceFits, StoreMemoryFits, CommitRowFits, WorkerDiesFits,
     RestartFits, GateVerifyFits, GatePairFits, GateLoadFits, GateCommitFits,
     LinkExperimentFits, JudgeFreshFits, ReadFactsFits
  DEF RecordNext
<1>2. CASE UNCHANGED recordVars
  BY <1>2 DEF recordVars, RecordInv, RowsFit, WorkerFits, GateFits, LineageFits,
     CompletionFits, SessionFits, Ended, ClaimsFindEvidence, NeverVerifiedWorse,
     Decisions, OwnNodes
<1>. QED
  BY <1>1, <1>2

THEOREM RecordSpecFits == RecordSpec => []RecordInv
BY RecordInitFits, RecordStepFits, PTL DEF RecordSpec

---------------------------------------------------------------------------
(* What follows                                                            *)

(* Rows, verdicts and counters keep their types, whoever writes them       *)
(* (evidence_persist.py, verification_service.py).                         *)
THEOREM RecordTypes == RecordSpec => []RecordTypeOK
<1>1. RecordInv => RecordTypeOK
  <2>. SUFFICES ASSUME RecordInv  PROVE RecordTypeOK
    OBVIOUS
  <2>1. runs \in 0 .. MaxRuns /\ losses \in 0 .. MaxLosses
    BY RecordBounds DEF RecordInv, RowsFit
  <2>2. /\ record.status \in {"QUEUED", "RUNNING", "COMPLETED", "FAILED"}
        /\ record.result \cup worker.final \subseteq DOMAIN Finals
    BY DEF RecordInv, RowsFit, RecordRows, WorkerFits
  <2>3. verification \subseteq {"VERIFIED", "CONFLICT", "UNVERIFIED", "REJECTED"}
        /\ gate.verdicts \subseteq {"VERIFIED", "CONFLICT", "UNVERIFIED"}
    BY DEF RecordInv, RowsFit, GateFits, Verdicts
  <2>. QED
    BY <2>1, <2>2, <2>3 DEF RecordTypeOK, RecordInv, LineageFits
<1>. QED
  BY <1>1, RecordSpecFits, PTL

(* However often a run is executed, dies and is delivered again, it has    *)
(* one lineage and one memory at most (evidence_persist.py).               *)
THEOREM LineageOnce == RecordSpec => []LineageIsOnce
<1>1. RecordInv => LineageIsOnce
  <2>. SUFFICES ASSUME RecordInv  PROVE LineageIsOnce
    OBVIOUS
  <2>1. lineages = <<>> \/ \E name \in DOMAIN Finals : lineages = <<name>>
    BY DEF RecordInv, LineageFits
  <2>2. Len(lineages) = IF lineages = <<>> THEN 0 ELSE 1
    BY <2>1
  <2>. QED
    BY <2>1, <2>2 DEF RecordInv, LineageFits, LineageIsOnce
<1>. QED
  BY <1>1, RecordSpecFits, PTL

(* Every claim of a recorded decision finds the evidence written for it,   *)
(* with any page size and any nodes of the other experiment                *)
(* (evidence_persist.py, engine/verification).                             *)
THEOREM EvidenceIsFound == RecordSpec => []ClaimsFindEvidence
<1>1. RecordInv => ClaimsFindEvidence
  BY DEF RecordInv
<1>. QED
  BY <1>1, RecordSpecFits, PTL

(* No run whose result the static checks reject is COMPLETED, by the       *)
(* worker or by a verification (verification_service.py).                  *)
THEOREM StaticGateRules == RecordSpec => []NeverVerifiedWorse
<1>1. RecordInv => NeverVerifiedWorse
  BY DEF RecordInv
<1>. QED
  BY <1>1, RecordSpecFits, PTL

(* The verdicts that need a run, from what a session that is linked has    *)
(* read, and from what one that is not finds.                              *)
LEMMA LinkedJudgement ==
  ASSUME RecordInv, session.at = "over", session.linked, ~worker.lost,
         NEW chain, chain = Objective4(session.facts)
  PROVE  /\ \A c \in {"o4_decision_rationale", "o4_decision_confidence",
                      "o4_evidence_nodes", "o4_audit_chain"} : chain[c] = "PASS"
         /\ chain["o4_experience_memory"] # "FAIL"
<1>1. PICK f : f = session.facts
  OBVIOUS
<1>2. PICK n : n = Len(Decisions)
  OBVIOUS
<1>3. PICK k : k = Len(OwnNodes)
  OBVIOUS
<1>4. n \in Nat /\ n > 0 /\ k \in Nat /\ k >= n
  BY <1>2, <1>3, DecisionsFit DEF RecordInv, SessionFits, Ended
<1>5. /\ f.executions = n /\ f.decisions = n
      /\ f.withRationale = n /\ f.withConfidence = n /\ f.nodes = k
      /\ f.hasResult \/ f.verification # {}
      /\ f.memory > 0 => f.memoryTypes > 0
  BY <1>1, <1>2, <1>3 DEF RecordInv, SessionFits
<1>6. CheckDecisionRationale(f) = "PASS" /\ CheckDecisionConfidence(f) = "PASS"
  BY <1>4, <1>5 DEF CheckDecisionRationale, CheckDecisionConfidence, Judged, PassIf
<1>7. CheckEvidenceNodes(f) = "PASS"
  BY <1>4, <1>5 DEF CheckEvidenceNodes, Judged, PassIf
<1>8. CheckExperienceMemory(f) # "FAIL"
  BY <1>5 DEF CheckExperienceMemory, Judged, PassIf
<1>9. CheckAuditChain(f) = "PASS"
  <2>1. /\ (f.executions > 0) = TRUE /\ (f.decisions > 0) = TRUE /\ (f.nodes > 0) = TRUE
        /\ (f.hasResult \/ f.verification # {}) = TRUE
    BY <1>4, <1>5
  <2>2. {f.executions > 0, f.decisions > 0, f.nodes > 0,
         f.hasResult \/ f.verification # {}} = {TRUE}
    BY <2>1
  <2>. QED
    BY <2>2 DEF CheckAuditChain, Judged, PassIf
<1>. QED
  BY <1>1, <1>6, <1>7, <1>8, <1>9 DEF Objective4

LEMMA FreshJudgement ==
  ASSUME NEW f, f = NoFacts, NEW verdicts,
         verdicts \in {Objective2(f, Repository), Objective3(f, Repository), Objective4(f)},
         NEW c \in DOMAIN verdicts \cap RuntimeChecks
  PROVE  verdicts[c] = "NOT_VERIFIED"
<1>1. /\ f.executions = 0 /\ f.decisions = 0 /\ f.nodes = 0 /\ f.memory = 0
      /\ f.metrics = FALSE /\ f.verification = {} /\ f.hasResult = FALSE
  BY DEF NoFacts
<1>2. CheckSpecialistExecutions(f) = "NOT_VERIFIED"
  BY <1>1 DEF CheckSpecialistExecutions, Judged
<1>3. /\ CheckMetricSanity(f) = "NOT_VERIFIED"
      /\ CheckBaselineDominance(f) = "NOT_VERIFIED"
      /\ CheckIndependentAgreement(f) = "NOT_VERIFIED"
  BY <1>1 DEF CheckMetricSanity, CheckBaselineDominance, CheckIndependentAgreement, Judged
<1>4. /\ CheckDecisionRationale(f) = "NOT_VERIFIED"
      /\ CheckDecisionConfidence(f) = "NOT_VERIFIED"
      /\ CheckEvidenceNodes(f) = "NOT_VERIFIED"
      /\ CheckExperienceMemory(f) = "NOT_VERIFIED"
  BY <1>1 DEF CheckDecisionRationale, CheckDecisionConfidence, CheckEvidenceNodes,
     CheckExperienceMemory, Judged
<1>5. CheckAuditChain(f) = "NOT_VERIFIED"
  <2>1. /\ (f.executions > 0) = FALSE /\ (f.decisions > 0) = FALSE /\ (f.nodes > 0) = FALSE
        /\ (f.hasResult \/ f.verification # {}) = FALSE
    BY <1>1
  <2>2. {f.executions > 0, f.decisions > 0, f.nodes > 0,
         f.hasResult \/ f.verification # {}} = {FALSE}
    BY <2>1
  <2>. QED
    BY <2>2 DEF CheckAuditChain, Judged
<1>6. CASE verdicts = Objective2(f, Repository)
  BY <1>2, <1>6 DEF Objective2, RuntimeChecks
<1>7. CASE verdicts = Objective3(f, Repository)
  BY <1>3, <1>7 DEF Objective3, RuntimeChecks
<1>8. CASE verdicts = Objective4(f)
  BY <1>4, <1>5, <1>8 DEF Objective4, RuntimeChecks
<1>. QED
  BY <1>6, <1>7, <1>8

(* A session judges the whole of the records of a linked run, though the   *)
(* queries are apart and others write in between, and nothing about a run  *)
(* that is not linked (checks.py, objective_verification_service.py).      *)
THEOREM WholeRunIsJudged == RecordSpec => []JudgedAsRecorded
<1>1. RecordInv => JudgedAsRecorded
  <2>. SUFFICES ASSUME RecordInv, session.at = "over"  PROVE JudgedAsRecorded
    BY DEF JudgedAsRecorded
  <2>1. CASE session.linked
    BY <2>1, LinkedJudgement DEF JudgedAsRecorded
  <2>2. CASE ~session.linked
    <3>1. session.facts = NoFacts
      BY <2>2 DEF RecordInv, SessionFits
    <3>. QED
      BY <2>2, <3>1, FreshJudgement DEF JudgedAsRecorded
  <2>. QED
    BY <2>1, <2>2
<1>. QED
  BY <1>1, RecordSpecFits, PTL

=============================================================================
