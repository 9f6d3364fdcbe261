----------------------- MODULE ExperimentWorkflowProofs -----------------------
(***************************************************************************)
(* Proofs about ExperimentWorkflow.                                        *)
(***************************************************************************)
EXTENDS ExperimentWorkflow, FiniteSetTheorems, WellFoundedInduction, TLAPS

---------------------------------------------------------------------------
(* The order of the candidates, and what the resolver promises.            *)

(* A set of naturals that is not empty has a smallest element.             *)
LEMMA SmallestExists ==
  ASSUME NEW S, S \subseteq Nat, S # {}
  PROVE  \E m \in S : \A n \in S : m <= n
<1>1. IsWellFoundedOn(OpToRel(<, Nat), Nat)
  BY NatLessThanWellFounded
<1>2. PICK m \in S : \A n \in S : <<n, m>> \notin OpToRel(<, Nat)
  BY <1>1, WFMin
<1>3. OpToRel(<, Nat) = {ss \in Nat \X Nat : ss[1] < ss[2]}
  BY DEF OpToRel
<1>4. \A n \in S : <<n, m>> \notin {ss \in Nat \X Nat : ss[1] < ss[2]}
  BY <1>2, <1>3
<1>5. ASSUME NEW n \in S, ~(m <= n)  PROVE FALSE
  <2>1. n \in Nat /\ m \in Nat /\ n < m
    BY <1>5
  <2>2. PICK p \in Nat \X Nat : p = <<n, m>>
    BY <2>1
  <2>3. p[1] = n /\ p[2] = m
    BY <2>2
  <2>. QED
    BY <1>4, <2>1, <2>2, <2>3
<1>. QED
  BY <1>5


LEMMA MaxOfTwo ==
  ASSUME NEW a \in Int, NEW b \in Int
  PROVE  Max({a, b}) \in {a, b} /\ Max({a, b}) >= a /\ Max({a, b}) >= b
<1>1. \E x \in {a, b} : \A y \in {a, b} : x >= y
  <2>1. CASE a >= b
    BY <2>1
  <2>2. CASE ~(a >= b)
    BY <2>2
  <2>. QED
    BY <2>1, <2>2
<1>. QED
  BY <1>1 DEF Max

LEMMA ShapeIsBounded ==
  ASSUME NEW c, NEW rows, NEW task
  PROVE  Structural(c, rows, task) \in 0 .. 450
<1>1. (450 * 4) \div 10 = 180 /\ (270 * 4) \div 10 = 108
  OBVIOUS
<1>. QED
  BY <1>1 DEF Structural

LEMMA WordsAreBounded ==
  ASSUME NEW c
  PROVE  /\ Words(c) \in {0, 800, 900}
         /\ Words(c) = 900 <=> c.named = "exactly"
BY DEF Words

(* What a candidate is worth.                                              *)
Weighed(c) ==
  /\ c.score \in Nat /\ c.score <= 1000
  /\ c.tiebreak \in Nat /\ c.tiebreak <= 1000
  /\ c.column \in Nat

LEMMA CandidatesAreWeighed ==
  ASSUME NEW schema, NEW rows, NEW task, NEW hint, NEW proposal, NEW i \in Nat,
         NEW c \in Candidates(schema, rows, task, hint, proposal, i)
  PROVE  /\ Weighed(c) /\ c.column = i
         /\ i \in hint => c.score = 1000 /\ c.by = "explicit_hint"
         /\ i \notin hint => c.score <= 900
         /\ i \notin hint /\ IdentifierLike(schema[i], rows, task) => c.score = 0
         /\ i \notin hint /\ c.score = 900 => schema[i].named = "exactly"
<1>. DEFINE shape == Structural(schema[i], rows, task)
            words == Words(schema[i])
            both == Max({shape, words})
            lifted == Max({both, Proposed})
<1>1. shape \in 0 .. 450
  BY ShapeIsBounded
<1>2. words \in {0, 800, 900} /\ (words = 900 <=> schema[i].named = "exactly")
  BY WordsAreBounded
<1>3. both \in {shape, words} /\ both >= shape /\ both >= words
  <2>1. shape \in Int /\ words \in Int
    BY <1>1, <1>2
  <2>. QED
    BY <2>1, MaxOfTwo
<1>4. both \in 0 .. 900 /\ (both = 900 => schema[i].named = "exactly")
  <2>. HIDE DEF shape, words, both
  <2>. QED
    BY <1>1, <1>2, <1>3
<1>5. lifted \in {both, Proposed} /\ lifted >= both /\ lifted >= Proposed
  <2>1. both \in Int /\ Proposed \in Int
    BY <1>4 DEF Proposed
  <2>. QED
    BY <2>1, MaxOfTwo
<1>6. lifted \in 0 .. 900 /\ (lifted = 900 => both = 900)
  <2>. HIDE DEF both, lifted
  <2>. QED
    BY <1>4, <1>5 DEF Proposed
<1>7. CASE i \in hint
  BY <1>7 DEF Candidates, Weighed, Explicit
<1>8. CASE i \notin hint /\ IdentifierLike(schema[i], rows, task)
  BY <1>8 DEF Candidates, Weighed
<1>9. CASE i \notin hint /\ ~IdentifierLike(schema[i], rows, task)
  <2>1. c \in
          (IF both > 0
           THEN {[column |-> i, score |-> both,
                  by |-> IF words >= shape THEN "objective" ELSE "structure",
                  tiebreak |-> shape, evidence |-> both]}
           ELSE {})
          \cup
          (IF i \in proposal
           THEN {[column |-> i, score |-> lifted, by |-> "model_proposal",
                  tiebreak |-> shape, evidence |-> both]}
           ELSE {})
    BY <1>9 DEF Candidates
  <2>. HIDE DEF shape, words, both, lifted
  <2>2. c.column = i /\ c.score \in {both, lifted} /\ c.tiebreak = shape
    BY <2>1
  <2>3. Weighed(c)
    <3>1. \A n \in {both, lifted} : n \in Nat /\ n <= 1000
      BY <1>4, <1>6
    <3>2. c.score \in Nat /\ c.score <= 1000
      BY <2>2, <3>1
    <3>3. c.tiebreak \in Nat /\ c.tiebreak <= 1000
      BY <1>1, <2>2
    <3>. QED
      BY <2>2, <3>2, <3>3 DEF Weighed
  <2>4. c.score <= 900 /\ (c.score = 900 => schema[i].named = "exactly")
    BY <1>4, <1>6, <2>2, SMTT(30)
  <2>. QED
    BY <1>9, <2>2, <2>3, <2>4
<1>. QED
  BY <1>7, <1>8, <1>9

LEMMA HintIsExplicit ==
  ASSUME NEW schema, NEW rows, NEW task, NEW hint, NEW proposal, NEW i \in hint
  PROVE  Candidates(schema, rows, task, hint, proposal, i) # {}
BY ZenonT(30) DEF Candidates

LEMMA SpelledIsStrong ==
  ASSUME NEW schema, NEW rows, NEW task, NEW hint, NEW proposal, NEW i \in Nat,
         i \notin hint, ~IdentifierLike(schema[i], rows, task),
         schema[i].named = "exactly"
  PROVE  /\ Candidates(schema, rows, task, hint, proposal, i) # {}
         /\ \A c \in Candidates(schema, rows, task, hint, proposal, i) : c.score = 900
<1>. DEFINE shape == Structural(schema[i], rows, task)
            words == Words(schema[i])
            both == Max({shape, words})
            lifted == Max({both, Proposed})
            mine == [column |-> i, score |-> both,
                     by |-> IF words >= shape THEN "objective" ELSE "structure",
                     tiebreak |-> shape, evidence |-> both]
            proposed == [column |-> i, score |-> lifted, by |-> "model_proposal",
                         tiebreak |-> shape, evidence |-> both]
<1>1. shape \in 0 .. 450 /\ words = 900
  BY ShapeIsBounded, WordsAreBounded
<1>2. both = 900
  <2>1. shape \in Int /\ words \in Int
    BY <1>1
  <2>2. both \in {shape, words} /\ both >= words
    BY <2>1, MaxOfTwo
  <2>. HIDE DEF shape, words, both
  <2>. QED
    BY <1>1, <2>2
<1>3. lifted = 900
  <2>1. Proposed \in Int /\ both \in Int
    BY <1>2 DEF Proposed
  <2>2. lifted \in {both, Proposed} /\ lifted >= both
    BY <2>1, MaxOfTwo
  <2>. HIDE DEF both, lifted
  <2>. QED
    BY <1>2, <2>2 DEF Proposed
<1>4. Candidates(schema, rows, task, hint, proposal, i)
        = (IF both > 0 THEN {mine} ELSE {}) \cup (IF i \in proposal THEN {proposed} ELSE {})
  BY DEF Candidates
<1>5. mine.score = 900 /\ proposed.score = 900
  BY <1>2, <1>3
<1>. HIDE DEF both, mine, proposed
<1>. QED
  BY <1>2, <1>4, <1>5

(* What Strongest asks of its choice.                                      *)
Beats(a, b) == Precedes(a, b) \/ (~Precedes(b, a) /\ b.by = "model_proposal")

LEMMA StrongestIsIn ==
  ASSUME NEW S, NEW a \in S, \A b \in S \ {a} : Beats(a, b)
  PROVE  /\ Strongest(S) \in S
         /\ \A b \in S \ {Strongest(S)} : Beats(Strongest(S), b)
BY DEF Strongest, Beats

LEMMA StrongestOfColumn ==
  ASSUME NEW schema, NEW rows, NEW task, NEW hint, NEW proposal, NEW i \in Nat,
         Candidates(schema, rows, task, hint, proposal, i) # {}
  PROVE  Strongest(Candidates(schema, rows, task, hint, proposal, i))
           \in Candidates(schema, rows, task, hint, proposal, i)
<1>. DEFINE C == Candidates(schema, rows, task, hint, proposal, i)
<1>1. SUFFICES \E a \in C : \A b \in C \ {a} : Beats(a, b)
  BY <1>1, StrongestIsIn
<1>. DEFINE shape == Structural(schema[i], rows, task)
            words == Words(schema[i])
            both == Max({shape, words})
            lifted == Max({both, Proposed})
            mine == [column |-> i, score |-> both,
                     by |-> IF words >= shape THEN "objective" ELSE "structure",
                     tiebreak |-> shape, evidence |-> both]
            proposed == [column |-> i, score |-> lifted, by |-> "model_proposal",
                         tiebreak |-> shape, evidence |-> both]
<1>2. shape \in 0 .. 450 /\ words \in {0, 800, 900}
  BY ShapeIsBounded, WordsAreBounded
<1>3. both \in Int
  <2>1. shape \in Int /\ words \in Int
    BY <1>2
  <2>2. both \in {shape, words}
    BY <2>1, MaxOfTwo
  <2>. HIDE DEF shape, words, both
  <2>. QED
    BY <2>1, <2>2
<1>4. lifted \in {both, Proposed} /\ lifted >= both /\ lifted >= Proposed
  <2>1. Proposed \in Int
    BY DEF Proposed
  <2>. QED
    BY <1>3, <2>1, MaxOfTwo
<1>5. C # {}
  OBVIOUS
<1>6. CASE i \in hint \/ IdentifierLike(schema[i], rows, task)
  <2>1. PICK c : C \subseteq {c}
    BY <1>6 DEF Candidates
  <2>. QED
    BY <2>1
<1>7. CASE i \notin hint /\ ~IdentifierLike(schema[i], rows, task)
  <2>1. C = (IF both > 0 THEN {mine} ELSE {}) \cup (IF i \in proposal THEN {proposed} ELSE {})
    BY <1>7 DEF Candidates
  <2>2. /\ mine.score = both /\ proposed.score = lifted
        /\ mine.tiebreak = shape /\ proposed.tiebreak = shape
        /\ mine.column = i /\ proposed.column = i /\ proposed.by = "model_proposal"
    OBVIOUS
  <2>. HIDE DEF C, mine, proposed, both, lifted, shape, words
  <2>3. Beats(mine, proposed) \/ Beats(proposed, mine)
    <3>1. CASE both >= Proposed
      <4>1. lifted = both
        BY <1>3, <1>4, <3>1 DEF Proposed
      <4>2. ~Precedes(proposed, mine)
        BY <1>2, <1>3, <2>2, <4>1 DEF Precedes
      <4>. QED
        BY <2>2, <4>2 DEF Beats
    <3>2. CASE ~(both >= Proposed)
      <4>1. lifted > both
        BY <1>3, <1>4, <3>2 DEF Proposed
      <4>2. Precedes(proposed, mine)
        BY <2>2, <4>1 DEF Precedes
      <4>. QED
        BY <4>2 DEF Beats
    <3>. QED
      BY <3>1, <3>2
  <2>4. C # {} /\ C \subseteq {mine, proposed}
    BY <2>1, <1>5
  <2>5. CASE mine \in C /\ proposed \in C
    BY <2>3, <2>4, <2>5
  <2>6. CASE ~(mine \in C /\ proposed \in C)
    BY <2>4, <2>6
  <2>. QED
    BY <2>5, <2>6
<1>. QED
  BY <1>6, <1>7

LEMMA OneIsWeighed ==
  ASSUME NEW a, Weighed(a)
  PROVE  1000 - a.score \in Nat /\ 1000 - a.tiebreak \in Nat /\ a.column \in Nat
BY DEF Weighed

LEMMA TwoAreWeighed ==
  ASSUME NEW a, Weighed(a), NEW b, Weighed(b)
  PROVE  /\ 1000 - a.score <= 1000 - b.score => b.score <= a.score
         /\ b.score <= a.score => a.score > b.score \/ a.score = b.score
         /\ 1000 - a.tiebreak <= 1000 - b.tiebreak
              => a.tiebreak > b.tiebreak \/ a.tiebreak = b.tiebreak
         /\ a.column <= b.column => a.column < b.column \/ a.column = b.column
         /\ a.score > b.score \/ a.score = b.score => b.score <= a.score
         /\ ~(b.score > a.score) => b.score <= a.score
BY DEF Weighed

(* Among weighed candidates of different columns one precedes all others.  *)
LEMMA StrongestOfAll ==
  ASSUME NEW R, R # {}, \A a \in R : Weighed(a),
         \A a, b \in R : a.column = b.column => a = b
  PROVE  /\ Strongest(R) \in R
         /\ \A b \in R : b.score <= Strongest(R).score
<1>1. PICK s \in {1000 - a.score : a \in R} : \A n \in {1000 - a.score : a \in R} : s <= n
  <2>1. ASSUME NEW a \in R  PROVE 1000 - a.score \in Nat
    BY OneIsWeighed
  <2>2. {1000 - a.score : a \in R} \subseteq Nat
    BY <2>1
  <2>3. {1000 - a.score : a \in R} # {}
    OBVIOUS
  <2>. QED
    BY <2>2, <2>3, SmallestExists
<1>2. PICK R1 \in SUBSET R : R1 = {a \in R : 1000 - a.score = s}
  OBVIOUS
<1>3. R1 # {}
  BY <1>1, <1>2
<1>4. PICK t \in {1000 - a.tiebreak : a \in R1} :
        \A n \in {1000 - a.tiebreak : a \in R1} : t <= n
  <2>1. ASSUME NEW a \in R1  PROVE 1000 - a.tiebreak \in Nat
    <3>1. Weighed(a)
      BY <1>2
    <3>. QED
      BY <3>1, OneIsWeighed
  <2>2. {1000 - a.tiebreak : a \in R1} \subseteq Nat
    BY <2>1
  <2>3. {1000 - a.tiebreak : a \in R1} # {}
    BY <1>3, SMTT(30)
  <2>. QED
    BY <2>2, <2>3, SmallestExists
<1>5. PICK R2 \in SUBSET R1 : R2 = {a \in R1 : 1000 - a.tiebreak = t}
  OBVIOUS
<1>6. R2 # {}
  BY <1>4, <1>5
<1>7. PICK k \in {a.column : a \in R2} : \A n \in {a.column : a \in R2} : k <= n
  <2>1. {a.column : a \in R2} \subseteq Nat
    BY <1>2, <1>5, OneIsWeighed
  <2>2. {a.column : a \in R2} # {}
    BY <1>6
  <2>. QED
    BY <2>1, <2>2, SmallestExists
<1>8. PICK a \in R2 : a.column = k
  BY <1>7
<1>9. a \in R /\ a \in R1 /\ Weighed(a)
  BY <1>2, <1>5, <1>8
<1>10. ASSUME NEW b \in R \ {a}  PROVE Precedes(a, b)
  <2>1. Weighed(b) /\ b.column # a.column
    BY <1>9, <1>10
  <2>2. b.score <= a.score
    <3>1. 1000 - a.score <= 1000 - b.score
      BY <1>1, <1>2, <1>9
    <3>. QED
      BY <1>9, <2>1, <3>1, TwoAreWeighed
  <2>3. CASE b.score = a.score
    <3>1. b \in R1
      BY <1>2, <1>9, <2>3
    <3>2. a.tiebreak > b.tiebreak \/ a.tiebreak = b.tiebreak
      <4>1. 1000 - a.tiebreak <= 1000 - b.tiebreak
        BY <1>4, <1>5, <1>8, <3>1
      <4>. QED
        BY <1>9, <2>1, <4>1, TwoAreWeighed
    <3>3. b.tiebreak = a.tiebreak => a.column < b.column
      <4>. HAVE b.tiebreak = a.tiebreak
      <4>1. b \in R2
        BY <1>5, <1>8, <3>1
      <4>2. a.column <= b.column
        BY <1>7, <1>8, <4>1
      <4>. QED
        BY <1>9, <2>1, <4>2, TwoAreWeighed
    <3>. QED
      BY <2>3, <3>2, <3>3 DEF Precedes
  <2>4. CASE b.score # a.score
    <3>1. a.score > b.score
      BY <1>9, <2>1, <2>2, <2>4, TwoAreWeighed
    <3>. QED
      BY <3>1 DEF Precedes
  <2>. QED
    BY <2>3, <2>4
<1>11. PICK top : top = Strongest(R)
  OBVIOUS
<1>12. top \in R /\ \A b \in R \ {top} : Beats(top, b)
  <2>1. \A b \in R \ {a} : Beats(a, b)
    BY <1>10 DEF Beats
  <2>. QED
    BY <1>9, <1>11, <2>1, StrongestIsIn
<1>13. ASSUME NEW b \in R  PROVE b.score <= top.score
  <2>1. Weighed(b) /\ Weighed(top)
    BY <1>12
  <2>2. b = top \/ Beats(top, b)
    BY <1>12
  <2>3. top.score > b.score \/ top.score = b.score \/ ~(b.score > top.score)
    BY <2>2 DEF Beats, Precedes
  <2>. QED
    BY <2>1, <2>3, TwoAreWeighed
<1>. QED
  BY <1>11, <1>12, <1>13

LEMMA RankedIsWeighed ==
  ASSUME NEW schema \in Seq(Column), NEW rows, NEW task, NEW hint, NEW proposal,
         NEW ranked, ranked = Ranked(schema, rows, task, hint, proposal)
  PROVE  /\ \A a \in ranked :
              /\ Weighed(a) /\ a.column \in DOMAIN schema
              /\ a \in Candidates(schema, rows, task, hint, proposal, a.column)
         /\ \A a, b \in ranked : a.column = b.column => a = b
         /\ \A i \in DOMAIN schema :
              Candidates(schema, rows, task, hint, proposal, i) # {} =>
                \E a \in ranked : a.column = i
<1>. DEFINE Of(i) == Candidates(schema, rows, task, hint, proposal, i)
<1>1. ranked = {Strongest(Of(i)) : i \in {j \in DOMAIN schema : Of(j) # {}}}
  BY DEF Ranked
<1>2. ASSUME NEW i \in DOMAIN schema, Of(i) # {}
      PROVE  /\ Strongest(Of(i)) \in Of(i)
             /\ Weighed(Strongest(Of(i))) /\ Strongest(Of(i)).column = i
  <2>1. i \in Nat
    OBVIOUS
  <2>2. Strongest(Of(i)) \in Of(i)
    BY <1>2, <2>1, StrongestOfColumn
  <2>. QED
    BY <2>1, <2>2, CandidatesAreWeighed
<1>. HIDE DEF Of
<1>3. ASSUME NEW a \in ranked
      PROVE  /\ Weighed(a) /\ a.column \in DOMAIN schema
             /\ a \in Of(a.column) /\ a = Strongest(Of(a.column))
  BY <1>1, <1>2, <1>3
<1>4. ASSUME NEW a \in ranked, NEW b \in ranked, a.column = b.column  PROVE a = b
  BY <1>3, <1>4
<1>5. ASSUME NEW i \in DOMAIN schema, Of(i) # {}  PROVE \E a \in ranked : a.column = i
  BY <1>1, <1>2, <1>5
<1>. QED
  BY <1>3, <1>4, <1>5 DEF Of

(* What the resolver promises of a column it resolves.                     *)
LEMMA ResolutionFits ==
  ASSUME NEW schema \in Seq(Column), NEW rows, NEW task, NEW hint, NEW proposal,
         NEW r, r = ResolveAndValidate(schema, rows, task, hint, proposal),
         r.status = "resolved"
  PROVE  /\ r.column \in DOMAIN schema
         /\ hint \subseteq DOMAIN schema
         /\ Usable(schema[r.column], rows, task)
         /\ IdentifierLike(schema[r.column], rows, task) => r.column \in hint
         /\ hint # {} => r.column \in hint
         /\ hint = {} =>
              \A j \in DOMAIN schema :
                schema[j].named = "exactly" /\ ~IdentifierLike(schema[j], rows, task)
                  => schema[r.column].named = "exactly"
<1>1. PICK ranked : ranked = Ranked(schema, rows, task, hint, proposal)
  OBVIOUS
<1>2. PICK top : top = Strongest(ranked)
  OBVIOUS
<1>3. r = ResolveTarget(schema, rows, task, hint, proposal)
        /\ Usable(schema[r.column], rows, task)
  BY DEF ResolveAndValidate, Unresolved
<1>4. hint \subseteq DOMAIN schema /\ ranked # {} /\ top.score # 0 /\ r.column = top.column
  <2>1. PICK tied \in BOOLEAN :
          r = CASE ~(hint \subseteq DOMAIN schema) -> Unresolved
                [] hint \subseteq DOMAIN schema /\ ranked = {} -> Unresolved
                [] OTHER -> IF top.score = 0 THEN Unresolved
                            ELSE IF tied THEN Ambiguous ELSE Resolved(top)
    BY <1>1, <1>2, <1>3 DEF ResolveTarget
  <2>2. Unresolved.status # "resolved" /\ Ambiguous.status # "resolved"
    BY DEF Unresolved, Ambiguous
  <2>3. Resolved(top).column = top.column
    BY DEF Resolved
  <2>. QED
    BY <2>1, <2>2, <2>3
<1>5. top \in ranked /\ \A b \in ranked : b.score <= top.score
  BY <1>1, <1>2, <1>4, RankedIsWeighed, StrongestOfAll
<1>6. PICK i \in DOMAIN schema : i = top.column
  BY <1>1, <1>5, RankedIsWeighed
<1>7. top \in Candidates(schema, rows, task, hint, proposal, i) /\ Weighed(top) /\ i \in Nat
  BY <1>1, <1>5, <1>6, RankedIsWeighed
<1>8. IdentifierLike(schema[i], rows, task) => i \in hint
  BY <1>4, <1>7, CandidatesAreWeighed
<1>9. ASSUME NEW j \in hint  PROVE i \in hint
  <2>1. j \in DOMAIN schema /\ j \in Nat
    BY <1>4
  <2>2. PICK b \in ranked : b.column = j
    BY <1>1, <2>1, HintIsExplicit, RankedIsWeighed
  <2>3. b \in Candidates(schema, rows, task, hint, proposal, j) /\ Weighed(b)
    BY <1>1, <2>2, RankedIsWeighed
  <2>4. b.score = 1000
    BY <2>1, <2>3, CandidatesAreWeighed
  <2>5. b.score <= top.score
    BY <1>5
  <2>6. i \notin hint => top.score <= 900
    BY <1>7, CandidatesAreWeighed
  <2>. QED
    BY <1>7, <2>4, <2>5, <2>6 DEF Weighed
<1>10. ASSUME hint = {}, NEW j \in DOMAIN schema, schema[j].named = "exactly",
              ~IdentifierLike(schema[j], rows, task)
       PROVE  schema[i].named = "exactly"
  <2>1. j \in Nat /\ j \notin hint
    BY <1>10
  <2>2. /\ Candidates(schema, rows, task, hint, proposal, j) # {}
        /\ \A c \in Candidates(schema, rows, task, hint, proposal, j) : c.score = 900
    BY <1>10, <2>1, SpelledIsStrong
  <2>3. PICK b \in ranked : b.column = j
    BY <1>1, <2>2, RankedIsWeighed
  <2>4. b \in Candidates(schema, rows, task, hint, proposal, j)
    BY <1>1, <2>3, RankedIsWeighed
  <2>5. b.score = 900 /\ b.score <= top.score
    BY <1>5, <2>2, <2>4
  <2>6. top.score <= 900 /\ (top.score = 900 => schema[i].named = "exactly")
    BY <1>7, <1>10, CandidatesAreWeighed
  <2>. QED
    BY <1>7, <2>5, <2>6 DEF Weighed
<1>. QED
  BY <1>3, <1>4, <1>6, <1>8, <1>9, <1>10


---------------------------------------------------------------------------
(* What a training writes, and what the gate lets pass.                    *)

(* A specification names a family and a sequence of candidates.            *)
Listed(spec) == \E S : spec.family \in S /\ spec.candidates \in Seq(S)

LEMMA ModelSpecIsListed ==
  ASSUME NEW S, NEW family \in S, NEW candidates \in Seq(S), NEW compare
  PROVE  Listed(ModelSpec(family, candidates, compare))
<1>1. <<family>> \o candidates \in Seq(S)
  OBVIOUS
<1>2. PICK spec : spec = ModelSpec(family, candidates, compare)
  OBVIOUS
<1>3. spec.family = family /\ spec.candidates \in Seq(S)
  BY <1>1, <1>2 DEF ModelSpec
<1>. QED
  BY <1>2, <1>3 DEF Listed

LEMMA HeuristicSpecIsListed ==
  ASSUME NEW task, NEW metric, NEW compare
  PROVE  Listed(HeuristicSpec(task, metric, compare))
<1>. DEFINE S == {"gradient_boosting", "random_forest", "logistic_regression", "ridge"}
<1>1. ASSUME NEW a \in S, NEW b \in S, NEW c \in S
      PROVE  <<a, b, c>> \in Seq(S) /\ Head(<<a, b, c>>) \in S
  OBVIOUS
<1>2. Shortlist(task, metric) \in Seq(S) /\ Head(Shortlist(task, metric)) \in S
  BY <1>1 DEF Shortlist
<1>. QED
  BY <1>2, ModelSpecIsListed DEF HeuristicSpec

(* The families of a job differ, and are finitely many.                    *)
LEMMA FamiliesDiffer ==
  ASSUME NEW spec, Listed(spec), NEW compare,
         NEW families, families = Families(spec, compare)
  PROVE  /\ IsFiniteSet(DOMAIN families)
         /\ \A i, j \in DOMAIN families : families[i] = families[j] => i = j
<1>1. CASE compare
  <2>1. PICK S : spec.family \in S /\ spec.candidates \in Seq(S)
    BY DEF Listed
  <2>2. PICK family \in S, candidates \in Seq(S) :
          spec.family = family /\ spec.candidates = candidates
    BY <2>1
  <2>3. PICK s \in Seq(S) : s = Append(candidates, family)
    <3>1. Append(candidates, family) \in Seq(S)
      OBVIOUS
    <3>. QED
      BY <3>1
  <2>4. families = [i \in {i \in DOMAIN s : \A j \in 1 .. i - 1 : s[j] # s[i]} |-> s[i]]
    BY <1>1, <2>3, <2>2 DEF Families, NoDuplicates
  <2>5. IsFiniteSet(DOMAIN families)
    <3>1. IsFiniteSet(1 .. Len(s))
      BY FS_Interval
    <3>2. DOMAIN families \subseteq 1 .. Len(s)
      BY <2>4
    <3>. QED
      BY <3>1, <3>2, FS_Subset
  <2>6. ASSUME NEW i \in DOMAIN families, NEW j \in DOMAIN families,
               families[i] = families[j], i # j
        PROVE  FALSE
    <3>1. i \in DOMAIN s /\ j \in DOMAIN s /\ s[i] = s[j]
      BY <2>4, <2>6
    <3>2. i \in Nat /\ j \in Nat /\ 1 <= i /\ 1 <= j
      BY <3>1
    <3>3. CASE i < j
      BY <2>4, <3>1, <3>2, <3>3
    <3>4. CASE j < i
      BY <2>4, <3>1, <3>2, <3>4
    <3>. QED
      BY <2>6, <3>2, <3>3, <3>4
  <2>. QED
    BY <2>5, <2>6
<1>2. CASE ~compare
  <2>1. families = <<spec.family>>
    BY <1>2 DEF Families
  <2>2. DOMAIN families = {1}
    BY <2>1
  <2>. QED
    BY <2>2, FS_Singleton
<1>. QED
  BY <1>1, <1>2

LEMMA EntryScore ==
  ASSUME NEW family, NEW outcome, NEW metric, NEW task, NEW classes
  PROVE  /\ Entry(family, outcome, metric, task, classes).model = family
         /\ Entry(family, outcome, metric, task, classes).score \subseteq {outcome}
<1>1. ASSUME NEW M  PROVE ScoreFrom([m \in M |-> outcome], metric) \subseteq {outcome}
  BY DEF ScoreFrom
<1>. QED
  BY <1>1 DEF Entry

(* What is known of what a training writes: the score is a number that no  *)
(* family of the comparison beats, and two that were evaluated are two     *)
(* models.                                                                 *)
BestOf(metric, w) ==
  \A s \in w.score :
    /\ s \in Int
    /\ \A i \in DOMAIN w.comparison : \A other \in w.comparison[i].score :
         ~Better(metric, other, s)

TwoCompared(w) ==
  ~(w.evaluated < 2) =>
    Cardinality({w.comparison[i].model : i \in DOMAIN w.comparison}) >= 2

LEMMA ComparedFits ==
  ASSUME NEW families, IsFiniteSet(DOMAIN families),
         \A i, j \in DOMAIN families : families[i] = families[j] => i = j,
         NEW outcomes, \A i \in DOMAIN families : outcomes[families[i]] \subseteq Int,
         NEW baseline, NEW metric, NEW task, NEW classes,
         NEW w, w = Compared(families, outcomes, baseline, metric, task, classes)
  PROVE  BestOf(metric, w) /\ TwoCompared(w)
<1>1. PICK fitted \in SUBSET DOMAIN families :
        fitted = {i \in DOMAIN families :
                    Buildable(families[i], task) /\ outcomes[families[i]] # {}}
  OBVIOUS
<1>2. PICK entries :
        entries = [i \in fitted |->
                     Entry(families[i], CHOOSE s \in outcomes[families[i]] : TRUE,
                           metric, task, classes)]
  OBVIOUS
<1>3. /\ w.score = UNION {entries[i].score : i \in SelectBest(entries, metric)}
      /\ w.comparison = entries
      /\ w.evaluated = Cardinality(fitted)
  BY <1>1, <1>2 DEF Compared
<1>4. ASSUME NEW i \in fitted
      PROVE  /\ entries[i].model = families[i]
             /\ \E o \in Int : entries[i].score \subseteq {o}
  <2>1. PICK o : o = CHOOSE s \in outcomes[families[i]] : TRUE
    OBVIOUS
  <2>2. o \in Int
    BY <1>1, <2>1
  <2>3. entries[i] = Entry(families[i], o, metric, task, classes)
    BY <1>2, <2>1
  <2>. QED
    BY <2>2, <2>3, EntryScore
<1>5. DOMAIN entries = fitted
  BY <1>2
<1>6. ASSUME NEW s \in w.score, NEW j \in fitted, NEW other \in entries[j].score
      PROVE  s \in Int /\ ~Better(metric, other, s)
  <2>1. PICK i \in SelectBest(entries, metric) : s \in entries[i].score
    BY <1>3
  <2>2. i \in fitted
    BY <1>5 DEF SelectBest
  <2>3. PICK o \in Int : entries[i].score \subseteq {o}
    BY <1>4, <2>2
  <2>4. PICK p \in Int : entries[j].score \subseteq {p}
    BY <1>4
  <2>5. s = (CHOOSE x \in entries[i].score : TRUE) /\ s \in Int
    BY <2>1, <2>3
  <2>6. other = (CHOOSE x \in entries[j].score : TRUE)
    BY <2>4, <1>6
  <2>7. j \in {k \in DOMAIN entries : entries[k].score # {}}
    BY <1>5, <1>6
  <2>. QED
    BY <2>1, <2>5, <2>6, <2>7 DEF SelectBest
<1>7. ASSUME NEW s \in w.score  PROVE s \in Int
  <2>1. PICK i \in SelectBest(entries, metric) : s \in entries[i].score
    BY <1>3
  <2>2. i \in fitted
    BY <1>5 DEF SelectBest
  <2>. QED
    BY <1>6, <2>1, <2>2
<1>8. BestOf(metric, w)
  BY <1>3, <1>5, <1>6, <1>7 DEF BestOf
<1>9. ASSUME ~(w.evaluated < 2)
      PROVE  Cardinality({entries[i].model : i \in fitted}) >= 2
  <2>1. PICK i \in fitted, j \in fitted : i # j
    <3>1. SUFFICES ASSUME \A i, j \in fitted : i = j  PROVE FALSE
      OBVIOUS
    <3>2. CASE fitted = {}
      BY <1>3, <1>9, <3>2, FS_EmptySet
    <3>3. CASE fitted # {}
      <4>1. PICK i \in fitted : fitted = {i}
        BY <3>1, <3>3
      <4>2. Cardinality(fitted) = 1
        BY <4>1, FS_Singleton
      <4>. QED
        BY <1>3, <1>9, <4>2
    <3>. QED
      BY <3>2, <3>3
  <2>. DEFINE models == {entries[k].model : k \in fitted}
              Two == {entries[i].model, entries[j].model}
  <2>2. entries[i].model # entries[j].model
    BY <1>1, <1>4, <2>1
  <2>3. Cardinality(Two) = 2
    <3>1. Two = {entries[i].model} \cup {entries[j].model}
      OBVIOUS
    <3>2. IsFiniteSet({entries[i].model}) /\ Cardinality({entries[i].model}) = 1
      BY FS_Singleton
    <3>3. entries[j].model \notin {entries[i].model}
      BY <2>2
    <3>4. Cardinality({entries[i].model} \cup {entries[j].model})
            = Cardinality({entries[i].model}) + 1
      BY <3>2, <3>3, FS_AddElement
    <3>. QED
      BY <3>1, <3>2, <3>4
  <2>4. IsFiniteSet(models)
    <3>1. IsFiniteSet(fitted)
      BY <1>1, FS_Subset
    <3>2. [k \in fitted |-> entries[k].model] \in Surjection(fitted, models)
      BY DEF Surjection
    <3>. QED
      BY <3>1, <3>2, FS_Surjection
  <2>5. Two \subseteq models
    BY <2>1
  <2>6. Cardinality(Two) <= Cardinality(models)
    BY <2>4, <2>5, FS_Subset
  <2>7. Cardinality(models) \in Nat
    BY <2>4, FS_CardinalityType
  <2>. HIDE DEF models, Two
  <2>8. Cardinality(models) >= 2
    BY <2>3, <2>6, <2>7
  <2>. QED
    BY <2>8 DEF models
<1>10. TwoCompared(w)
  BY <1>3, <1>5, <1>9 DEF TwoCompared
<1>. QED
  BY <1>8, <1>10

LEMMA PayloadFits ==
  ASSUME request \in Request, Listed(state.spec),
         NEW outcomes \in Outcomes
  PROVE  BestOf(Metric, Payload(outcomes)) /\ TwoCompared(Payload(outcomes))
<1>1. PICK families : families = Families(state.spec, Compare)
  OBVIOUS
<1>2. ScoresOf(Metric) \subseteq Int
  BY DEF ScoresOf, One
<1>3. \A f \in ToSet(families) : outcomes[f] \subseteq Int
  <2>1. PICK some \in [ToSet(families) \cap Fittable -> {{}} \cup {{s} : s \in ScoresOf(Metric)}] :
          outcomes = [f \in ToSet(families) |-> IF f \in Fittable THEN some[f] ELSE {}]
    BY <1>1 DEF Outcomes
  <2>. QED
    BY <1>2, <2>1
<1>4. \A i \in DOMAIN families : outcomes[families[i]] \subseteq Int
  BY <1>3 DEF ToSet
<1>5. /\ IsFiniteSet(DOMAIN families)
      /\ \A i, j \in DOMAIN families : families[i] = families[j] => i = j
  BY <1>1, FamiliesDiffer
<1>. QED
  BY <1>1, <1>4, <1>5, ComparedFits DEF Payload


LEMMA PassingResult ==
  ASSUME NEW r, NEW metric, NEW compare, Failures(r, metric, compare, Runner) = {}
  PROVE  /\ r.selected # {} /\ r.score # {}
         /\ \A s \in r.score :
              /\ 0 <= s /\ s <= One
              /\ metric \in {"accuracy", "f1", "roc_auc"} => ~(s >= One)
              /\ \A b \in r.baseline : Better(metric, s, b)
         /\ compare => ~(r.evaluated < 2)
<1>. DEFINE value == IF r.selected # {} THEN r.score ELSE {}
            InRange(s) == 0 <= s /\ s <= One
<1>1. value # {}
  BY DEF Failures
<1>2. r.selected # {} /\ value = r.score
  BY <1>1
<1>3. \A s \in r.score : InRange(s)
  BY <1>2 DEF Failures
<1>4. \A s \in r.score : InRange(s) => \A b \in r.baseline : Dominates(metric, s, b)
  BY <1>2 DEF Failures
<1>5. compare => ~(r.evaluated < 2)
  BY DEF Failures
<1>6. \A s \in r.score : ~Insane(metric, s)
  BY <1>2 DEF Failures, StaticFailures
<1>. QED
  BY <1>1, <1>2, <1>3, <1>4, <1>5, <1>6 DEF Insane, Dominates

---------------------------------------------------------------------------
(* The inductive invariant.                                                *)

StateFields ==
  {"attempt", "status", "schemaKnown", "hint", "target", "guess", "plan", "spec",
   "result", "passed"}

JobFields ==
  {"phase", "target", "workspace", "container", "exit", "written", "features", "fitted"}

Nodes ==
  {"orchestrator", "discovery", "describe", "profiler", "preprocessor",
   "model_selector", "ml_experiment", "verification", "failed",
   "awaiting_dataset", "awaiting_target", "END", "raised"}

Phases ==
  {"idle", "resolve", "probe", "prepare", "workspace", "start", "poll", "remove",
   "cleanup", "in_process", "returned"}

(* The nodes before the first training, and those from planning on.        *)
Unresolving == {"orchestrator", "discovery", "describe", "profiler"}
Untrained ==
  Unresolving \cup {"preprocessor", "model_selector", "awaiting_dataset", "awaiting_target"}
Resolving == {"preprocessor", "model_selector", "ml_experiment", "verification", "failed"}

(* The variables have their shape.                                         *)
Shaped ==
  /\ request \in Requests /\ node \in Nodes /\ disk \in {"present", "absent", "garbled"}
  /\ DOMAIN state = StateFields /\ DOMAIN job = JobFields
  /\ job.phase \in Phases

(* Attempts and trainings go together: an attempt is counted when its job  *)
(* is over, and there is a job to start only below the limit.              *)
CountFits ==
  /\ state.attempt \in Nat /\ trainings \in Nat
  /\ state.attempt <= MaxAttempts /\ trainings <= MaxAttempts
  /\ node \in Untrained => state.attempt = 0 /\ trainings = 0
  /\ node = "ml_experiment" => state.attempt < MaxAttempts
  /\ node # "ml_experiment" => job.phase = "idle"
  /\ node # "raised" =>
       trainings <= state.attempt + (IF job.phase = "idle" THEN 0 ELSE 1)

(* The status is set by the last step before the end.                      *)
StatusFits ==
  /\ state.status \in {"RUNNING", "COMPLETED", "FAILED"} \cup Parked
  /\ node # "END" => state.status = "RUNNING"
  /\ state.status \in Parked => trainings = 0

(* What a target must be: TrainsOnResolvedTarget without the job.          *)
Chosen(i) ==
  /\ Usable(request.schema[i], request.rows, request.task)
  /\ IdentifierLike(request.schema[i], request.rows, request.task) => i \in request.hint
  /\ KnownHint(request.hint) # {} => i \in request.hint
  /\ KnownHint(request.hint) = {} =>
       \A j \in DOMAIN request.schema :
         /\ request.schema[j].named = "exactly"
         /\ ~IdentifierLike(request.schema[j], request.rows, request.task)
         => request.schema[i].named = "exactly"

(* The hint of the user is untouched until the profiler has looked at it,  *)
(* and a run that read its dataset has a target once it is past there.     *)
TargetFits ==
  /\ state.target \subseteq DOMAIN request.schema
  /\ node \in Unresolving => state.hint = request.hint
  /\ state.schemaKnown /\ (node \in Resolving \/ trainings > 0) =>
       \E i \in DOMAIN request.schema :
         /\ state.target = {i} /\ Chosen(i)
         /\ trainings > 0 => job.target = i
  /\ job.target \notin job.features

(* What there is of the sandbox in each phase of the job.                  *)
SandboxFits ==
  /\ job.phase \in {"idle", "in_process", "returned"} =>
       job.workspace \in {"none", "lost"} /\ job.container \in {"none", "lost"}
  /\ job.phase \in {"resolve", "probe", "prepare", "workspace"} =>
       job.workspace = "none" /\ job.container = "none"
  /\ job.phase \in {"start", "poll", "remove", "cleanup"} =>
       job.workspace \in {"empty", "filled"}
  /\ job.phase = "start" => job.container = "none"
  /\ job.phase = "poll" => job.container = "running"
  /\ job.phase = "remove" => job.container \in {"running", "exited"}
  /\ job.phase = "cleanup" => job.container \in {"none", "lost"}

(* The result the gate looks at is the one the last job wrote, or none,    *)
(* and no other was let through.                                           *)
WrittenFits ==
  /\ node \in {"ml_experiment", "verification"} => Listed(state.spec)
  /\ BestOf(Metric, job.written) /\ TwoCompared(job.written)
  /\ node = "verification" => state.result \in {NotMeasured, job.written}
  /\ state.status = "COMPLETED" =>
       /\ state.result = job.written
       /\ Failures(state.result, Metric, Compare, Runner) = {}

WorkflowInv == Shaped /\ CountFits /\ StatusFits /\ TargetFits /\ SandboxFits /\ WrittenFits

---------------------------------------------------------------------------

LEMMA InitFits ==
  ASSUME Init  PROVE WorkflowInv
<1>. USE WorkflowAssumption
<1>1. Shaped
  BY DEF Init, Shaped, NoJob, StateFields, JobFields, Nodes, Phases
<1>2. CountFits
  BY DEF Init, CountFits, NoJob
<1>3. StatusFits
  BY DEF Init, StatusFits, NoJob, Parked
<1>4. TargetFits
  BY DEF Init, TargetFits, NoJob, Resolving
<1>5. SandboxFits
  BY DEF Init, SandboxFits, NoJob
<1>6. WrittenFits
  BY DEF Init, WrittenFits, NoJob, NotMeasured, BestOf, TwoCompared
<1>. QED
  BY <1>1, <1>2, <1>3, <1>4, <1>5, <1>6 DEF WorkflowInv

LEMMA RequestIsTyped ==
  ASSUME Shaped
  PROVE  request \in Request /\ request.schema \in Seq(Column)
<1>1. ASSUME NEW r \in Request  PROVE r.schema \in Seq(Column)
  BY DEF Request
<1>2. request \in Request
  BY WorkflowAssumption DEF Shaped
<1>. QED
  BY <1>1, <1>2

LEMMA OrchestrateFits ==
  ASSUME WorkflowInv, Orchestrate  PROVE WorkflowInv'
<1>1. Shaped'
  BY DEF WorkflowInv, Orchestrate, Goto, Shaped, Nodes, StateFields
<1>2. CountFits'
  BY DEF WorkflowInv, Orchestrate, Goto, Shaped, StateFields, CountFits, Untrained, Unresolving
<1>3. StatusFits'
  BY DEF WorkflowInv, Orchestrate, Goto, Shaped, StateFields, StatusFits
<1>4. TargetFits'
  BY DEF WorkflowInv, Orchestrate, Goto, Shaped, StateFields, TargetFits, Unresolving, Resolving, CountFits, Untrained, Chosen
<1>5. SandboxFits'
  BY DEF WorkflowInv, Orchestrate, SandboxFits
<1>6. WrittenFits'
  BY DEF WorkflowInv, Orchestrate, Goto, Shaped, StateFields, WrittenFits, StatusFits, Metric, Compare
<1>. QED
  BY <1>1, <1>2, <1>3, <1>4, <1>5, <1>6 DEF WorkflowInv

(* The target stays what it is as long as nothing it depends on changes.   *)
LEMMA TargetStays ==
  ASSUME TargetFits, request' = request, trainings' = trainings,
         job'.target = job.target, job'.features = job.features,
         state'.target = state.target, state'.hint = state.hint,
         state'.schemaKnown = state.schemaKnown,
         node' \in Unresolving => node \in Unresolving,
         node' \in Resolving => node \in Resolving
  PROVE  TargetFits'
<1>1. ASSUME NEW i, Chosen(i)  PROVE Chosen(i)'
  BY <1>1 DEF Chosen, KnownHint
<1>2. ASSUME state.schemaKnown, node \in Resolving \/ trainings > 0
      PROVE  \E i \in DOMAIN request.schema :
               state.target = {i} /\ Chosen(i)' /\ (trainings > 0 => job.target = i)
  BY <1>1, <1>2 DEF TargetFits
<1>. QED
  BY <1>2 DEF TargetFits

LEMMA DiscoveryGateFits ==
  ASSUME WorkflowInv, DiscoveryGate  PROVE WorkflowInv'
<1>1. Shaped'
  BY DEF WorkflowInv, DiscoveryGate, Goto, Shaped, Nodes, StateFields
<1>2. CountFits'
  BY DEF WorkflowInv, DiscoveryGate, Goto, Shaped, StateFields, CountFits, Untrained, Unresolving
<1>3. StatusFits'
  BY DEF WorkflowInv, DiscoveryGate, Goto, Shaped, StateFields, StatusFits, Parked
<1>4. TargetFits'
  BY DEF WorkflowInv, DiscoveryGate, Goto, Shaped, StateFields, TargetFits, Unresolving, Resolving,
         CountFits, Untrained, Chosen
<1>5. SandboxFits'
  BY DEF WorkflowInv, DiscoveryGate, SandboxFits
<1>6. WrittenFits'
  BY DEF WorkflowInv, DiscoveryGate, Goto, Shaped, StateFields, WrittenFits, StatusFits, Metric,
         Compare
<1>. QED
  BY <1>1, <1>2, <1>3, <1>4, <1>5, <1>6 DEF WorkflowInv

LEMMA DescribeFits ==
  ASSUME WorkflowInv, Describe  PROVE WorkflowInv'
<1>1. Shaped'
  BY DEF WorkflowInv, Describe, Goto, Shaped, Nodes, StateFields
<1>2. CountFits'
  BY DEF WorkflowInv, Describe, Goto, Shaped, StateFields, CountFits, Untrained, Unresolving
<1>3. StatusFits'
  BY DEF WorkflowInv, Describe, Goto, Shaped, StateFields, StatusFits, Parked
<1>4. TargetFits'
  <2>1. /\ state'.target = state.target /\ state'.hint = state.hint
        /\ job' = job /\ request' = request /\ trainings' = 0
        /\ node' \notin Resolving
    BY DEF WorkflowInv, Describe, Goto, Shaped, StateFields, CountFits, Untrained, Unresolving,
           Resolving
  <2>. QED
    BY <2>1 DEF WorkflowInv, TargetFits, Describe, Unresolving
<1>5. SandboxFits'
  BY DEF WorkflowInv, Describe, SandboxFits
<1>6. WrittenFits'
  BY DEF WorkflowInv, Describe, Goto, Shaped, StateFields, WrittenFits, StatusFits, Metric,
         Compare
<1>. QED
  BY <1>1, <1>2, <1>3, <1>4, <1>5, <1>6 DEF WorkflowInv

LEMMA MarkAwaitingDatasetFits ==
  ASSUME WorkflowInv, MarkAwaitingDataset  PROVE WorkflowInv'
<1>1. Shaped'
  BY DEF WorkflowInv, MarkAwaitingDataset, Goto, Shaped, Nodes, StateFields
<1>2. CountFits'
  BY DEF WorkflowInv, MarkAwaitingDataset, Goto, Shaped, StateFields, CountFits, Untrained, Unresolving
<1>3. StatusFits'
  BY DEF WorkflowInv, MarkAwaitingDataset, Goto, Shaped, StateFields, StatusFits, Parked, CountFits, Untrained
<1>4. TargetFits'
  BY DEF WorkflowInv, MarkAwaitingDataset, Goto, Shaped, StateFields, TargetFits, Unresolving, Resolving,
         CountFits, Untrained, Chosen
<1>5. SandboxFits'
  BY DEF WorkflowInv, MarkAwaitingDataset, SandboxFits
<1>6. WrittenFits'
  BY DEF WorkflowInv, MarkAwaitingDataset, Goto, Shaped, StateFields, WrittenFits, StatusFits, Metric,
         Compare
<1>. QED
  BY <1>1, <1>2, <1>3, <1>4, <1>5, <1>6 DEF WorkflowInv

LEMMA ProfileFits ==
  ASSUME WorkflowInv, Profile  PROVE WorkflowInv'
<1>1. Shaped'
  BY DEF WorkflowInv, Profile, Goto, Shaped, Nodes, StateFields
<1>2. CountFits'
  BY DEF WorkflowInv, Profile, Goto, Shaped, StateFields, CountFits, Untrained, Unresolving
<1>3. StatusFits'
  BY DEF WorkflowInv, Profile, Goto, Shaped, StateFields, StatusFits, Parked
<1>4. TargetFits'
  <2>1. /\ state.hint = request.hint /\ state.target \subseteq DOMAIN request.schema
        /\ trainings = 0 /\ job.target \notin job.features
        /\ UNCHANGED <<request, job, trainings>>
        /\ state'.schemaKnown = state.schemaKnown /\ node' \notin Unresolving
    BY DEF WorkflowInv, Profile, Goto, Shaped, StateFields, TargetFits, CountFits, Untrained,
           Unresolving
  <2>2. CASE ~state.schemaKnown
    <3>1. state'.target = state.target
      BY <2>2 DEF Profile, WorkflowInv, Shaped, StateFields
    <3>. QED
      BY <2>1, <2>2, <3>1 DEF TargetFits
  <2>3. CASE state.schemaKnown
    <3>. DEFINE Hint(end) ==
                  IF end = "heuristic" THEN KnownHint(state.hint) ELSE state.hint
                Settled(r) == IF r.status = "resolved" THEN {r.column} ELSE {}
    <3>1. PICK end \in RunEnds \ {"raises"},
               proposal \in {{}} \cup {{i} : i \in 0 .. Len(request.schema)} :
            LET r == Resolution(Hint(end), proposal)
            IN /\ state' = [state EXCEPT !.hint = KnownHint(@),
                                         !.target = Settled(r), !.guess = Settled(r)]
               /\ node' = IF Settled(r) = {} THEN "awaiting_target" ELSE "preprocessor"
      BY <2>3 DEF Profile, Goto
    <3>2. PICK r : r = Resolution(Hint(end), proposal)
      OBVIOUS
    <3>3. PICK hint \in {KnownHint(state.hint), state.hint} : hint = Hint(end)
      OBVIOUS
    <3>4. /\ r = Resolution(hint, proposal)
          /\ LET column == IF r.status = "resolved" THEN {r.column} ELSE {}
             IN /\ state'.target = column
                /\ node' = IF column = {} THEN "awaiting_target" ELSE "preprocessor"
      BY <3>1, <3>2, <3>3 DEF WorkflowInv, Shaped, StateFields
    <3>5. CASE r.status = "resolved"
      <4>1. request.schema \in Seq(Column)
        BY RequestIsTyped DEF WorkflowInv
      <4>2. PICK i : i = r.column
        OBVIOUS
      <4>3. /\ i \in DOMAIN request.schema
            /\ hint \subseteq DOMAIN request.schema
            /\ Usable(request.schema[i], request.rows, request.task)
            /\ IdentifierLike(request.schema[i], request.rows, request.task) => i \in hint
            /\ hint # {} => i \in hint
            /\ hint = {} =>
                 \A j \in DOMAIN request.schema :
                   /\ request.schema[j].named = "exactly"
                   /\ ~IdentifierLike(request.schema[j], request.rows, request.task)
                   => request.schema[i].named = "exactly"
        <5>1. r = ResolveAndValidate(request.schema, request.rows, request.task, hint, proposal)
          BY <3>4 DEF Resolution
        <5>2. /\ r.column \in DOMAIN request.schema
              /\ hint \subseteq DOMAIN request.schema
              /\ Usable(request.schema[r.column], request.rows, request.task)
              /\ IdentifierLike(request.schema[r.column], request.rows, request.task)
                   => r.column \in hint
              /\ hint # {} => r.column \in hint
              /\ hint = {} =>
                   \A j \in DOMAIN request.schema :
                     /\ request.schema[j].named = "exactly"
                     /\ ~IdentifierLike(request.schema[j], request.rows, request.task)
                     => request.schema[r.column].named = "exactly"
          BY <3>5, <4>1, <5>1, ResolutionFits
        <5>. QED
          BY <4>2, <5>2
      <4>4. hint = KnownHint(request.hint) /\ hint \subseteq request.hint
        BY <2>1, <3>4, <4>3 DEF KnownHint
      <4>5. Chosen(i)
        BY <4>3, <4>4 DEF Chosen
      <4>6. Chosen(i)'
        BY <2>1, <4>5 DEF Chosen, KnownHint
      <4>7. state'.target = {i}
        BY <3>4, <3>5, <4>2
      <4>. QED
        BY <2>1, <4>3, <4>6, <4>7 DEF TargetFits
    <3>6. CASE r.status # "resolved"
      <4>1. state'.target = {} /\ node' = "awaiting_target"
        BY <3>4, <3>6
      <4>. QED
        BY <2>1, <4>1 DEF TargetFits, Resolving
    <3>. QED
      BY <3>5, <3>6
  <2>. QED
    BY <2>2, <2>3
<1>5. SandboxFits'
  BY DEF WorkflowInv, Profile, SandboxFits
<1>6. WrittenFits'
  BY DEF WorkflowInv, Profile, Goto, Shaped, StateFields, WrittenFits, StatusFits, Metric,
         Compare
<1>. QED
  BY <1>1, <1>2, <1>3, <1>4, <1>5, <1>6 DEF WorkflowInv

LEMMA MarkAwaitingTargetFits ==
  ASSUME WorkflowInv, MarkAwaitingTarget  PROVE WorkflowInv'
<1>1. Shaped'
  BY DEF WorkflowInv, MarkAwaitingTarget, Goto, Shaped, Nodes, StateFields
<1>2. CountFits'
  BY DEF WorkflowInv, MarkAwaitingTarget, Goto, Shaped, StateFields, CountFits, Untrained, Unresolving
<1>3. StatusFits'
  BY DEF WorkflowInv, MarkAwaitingTarget, Goto, Shaped, StateFields, StatusFits, Parked, CountFits, Untrained
<1>4. TargetFits'
  BY DEF WorkflowInv, MarkAwaitingTarget, Goto, Shaped, StateFields, TargetFits, Unresolving, Resolving,
         CountFits, Untrained, Chosen
<1>5. SandboxFits'
  BY DEF WorkflowInv, MarkAwaitingTarget, SandboxFits
<1>6. WrittenFits'
  BY DEF WorkflowInv, MarkAwaitingTarget, Goto, Shaped, StateFields, WrittenFits, StatusFits, Metric,
         Compare
<1>. QED
  BY <1>1, <1>2, <1>3, <1>4, <1>5, <1>6 DEF WorkflowInv

LEMMA PlanDataFits ==
  ASSUME WorkflowInv, PlanData  PROVE WorkflowInv'
<1>1. Shaped'
  BY DEF WorkflowInv, PlanData, Goto, Shaped, Nodes, StateFields
<1>2. CountFits'
  BY DEF WorkflowInv, PlanData, Goto, Shaped, StateFields, CountFits, Untrained, Unresolving
<1>3. StatusFits'
  BY DEF WorkflowInv, PlanData, Goto, Shaped, StateFields, StatusFits, Parked
<1>4. TargetFits'
  BY TargetStays DEF WorkflowInv, PlanData, Goto, Shaped, StateFields, Unresolving, Resolving
<1>5. SandboxFits'
  BY DEF WorkflowInv, PlanData, SandboxFits
<1>6. WrittenFits'
  BY DEF WorkflowInv, PlanData, Goto, Shaped, StateFields, WrittenFits, StatusFits, Metric,
         Compare
<1>. QED
  BY <1>1, <1>2, <1>3, <1>4, <1>5, <1>6 DEF WorkflowInv

LEMMA SelectModelFits ==
  ASSUME WorkflowInv, SelectModel  PROVE WorkflowInv'
<1>1. Shaped'
  BY DEF WorkflowInv, SelectModel, Goto, Shaped, Nodes, StateFields
<1>2. CountFits'
  BY WorkflowAssumption DEF WorkflowInv, SelectModel, Goto, Shaped, StateFields, CountFits,
         Untrained, Unresolving
<1>3. StatusFits'
  BY DEF WorkflowInv, SelectModel, Goto, Shaped, StateFields, StatusFits, Parked
<1>4. TargetFits'
  BY TargetStays DEF WorkflowInv, SelectModel, Goto, Shaped, StateFields, Unresolving, Resolving
<1>5. SandboxFits'
  BY DEF WorkflowInv, SelectModel, SandboxFits
<1>6. WrittenFits'
  <2>1. Listed(state'.spec)
    <3>1. ASSUME NEW a \in Answers  PROVE Listed(ModelSpec(a.family, a.candidates, Compare))
      BY WorkflowAssumption, ModelSpecIsListed
    <3>2. Listed(HeuristicSpec(request.task, Metric, Compare))
      BY HeuristicSpecIsListed
    <3>. QED
      BY <3>1, <3>2 DEF SelectModel, WorkflowInv, Shaped, StateFields
  <2>. QED
    BY <2>1 DEF WorkflowInv, SelectModel, Goto, Shaped, StateFields, WrittenFits, StatusFits,
           Metric, Compare
<1>. QED
  BY <1>1, <1>2, <1>3, <1>4, <1>5, <1>6 DEF WorkflowInv

LEMMA MarkFailedFits ==
  ASSUME WorkflowInv, MarkFailed  PROVE WorkflowInv'
<1>1. Shaped'
  BY DEF WorkflowInv, MarkFailed, Goto, Shaped, Nodes, StateFields
<1>2. CountFits'
  BY DEF WorkflowInv, MarkFailed, Goto, Shaped, StateFields, CountFits, Untrained, Unresolving
<1>3. StatusFits'
  BY DEF WorkflowInv, MarkFailed, Goto, Shaped, StateFields, StatusFits, Parked
<1>4. TargetFits'
  BY TargetStays DEF WorkflowInv, MarkFailed, Goto, Shaped, StateFields, Unresolving, Resolving
<1>5. SandboxFits'
  BY DEF WorkflowInv, MarkFailed, SandboxFits
<1>6. WrittenFits'
  BY DEF WorkflowInv, MarkFailed, Goto, Shaped, StateFields, WrittenFits, StatusFits, Metric,
         Compare
<1>. QED
  BY <1>1, <1>2, <1>3, <1>4, <1>5, <1>6 DEF WorkflowInv

LEMMA AgentRaisesFits ==
  ASSUME WorkflowInv, AgentRaises  PROVE WorkflowInv'
<1>1. Shaped'
  BY DEF WorkflowInv, AgentRaises, Goto, Shaped, Nodes, StateFields, Raise, Agents
<1>2. CountFits'
  BY DEF WorkflowInv, AgentRaises, Goto, Shaped, StateFields, CountFits, Untrained, Unresolving, Raise, Agents
<1>3. StatusFits'
  BY DEF WorkflowInv, AgentRaises, Goto, Shaped, StateFields, StatusFits, Parked, Raise, Agents
<1>4. TargetFits'
  BY DEF WorkflowInv, AgentRaises, Goto, Shaped, StateFields, TargetFits, Unresolving, Resolving,
         CountFits, Untrained, Chosen, Raise, Agents
<1>5. SandboxFits'
  BY DEF WorkflowInv, AgentRaises, SandboxFits, Raise, Agents
<1>6. WrittenFits'
  BY DEF WorkflowInv, AgentRaises, Goto, Shaped, StateFields, WrittenFits, StatusFits, Metric,
         Compare, Raise, Agents
<1>. QED
  BY <1>1, <1>2, <1>3, <1>4, <1>5, <1>6 DEF WorkflowInv

LEMMA FileChangesFits ==
  ASSUME WorkflowInv, FileChanges  PROVE WorkflowInv'
<1>1. Shaped'
  BY DEF WorkflowInv, FileChanges, Goto, Shaped, Nodes, StateFields
<1>2. CountFits'
  BY DEF WorkflowInv, FileChanges, Goto, Shaped, StateFields, CountFits, Untrained, Unresolving
<1>3. StatusFits'
  BY DEF WorkflowInv, FileChanges, Goto, Shaped, StateFields, StatusFits, Parked
<1>4. TargetFits'
  BY TargetStays DEF WorkflowInv, FileChanges, Goto, Shaped, StateFields, Unresolving, Resolving
<1>5. SandboxFits'
  BY DEF WorkflowInv, FileChanges, SandboxFits
<1>6. WrittenFits'
  BY DEF WorkflowInv, FileChanges, Goto, Shaped, StateFields, WrittenFits, StatusFits, Metric,
         Compare
<1>. QED
  BY <1>1, <1>2, <1>3, <1>4, <1>5, <1>6 DEF WorkflowInv

LEMMA VerifyFits ==
  ASSUME WorkflowInv, Verify  PROVE WorkflowInv'
<1>1. PICK passed \in BOOLEAN :
        /\ passed <=> Failures(state.result, Metric, Compare, Runner) = {}
        /\ state' = [state EXCEPT !.passed = passed,
                                  !.status = IF passed THEN "COMPLETED" ELSE @]
        /\ node' = Route(passed, FALSE, state.attempt)
  BY DEF Verify, Verdict, Goto
<1>2. /\ DOMAIN state' = StateFields
      /\ state'.attempt = state.attempt /\ state'.result = state.result
      /\ state'.target = state.target /\ state'.hint = state.hint
      /\ state'.schemaKnown = state.schemaKnown /\ state'.spec = state.spec
      /\ state'.status = IF passed THEN "COMPLETED" ELSE state.status
  BY <1>1 DEF WorkflowInv, Shaped, StateFields
<1>3. /\ node = "verification" /\ UNCHANGED <<request, disk, job, trainings>>
      /\ state.attempt \in Nat /\ state.attempt <= MaxAttempts /\ MaxAttempts \in Nat
      /\ state.status = "RUNNING" /\ job.phase = "idle"
  BY WorkflowAssumption DEF Verify, WorkflowInv, CountFits, StatusFits
<1>4. node' = IF passed THEN "END"
              ELSE IF state.attempt < MaxAttempts THEN "ml_experiment" ELSE "failed"
  BY <1>1, <1>3 DEF Route
<1>5. Shaped'
  BY <1>2, <1>3, <1>4 DEF WorkflowInv, Shaped, Nodes
<1>6. CountFits'
  <2>1. node' \notin Untrained /\ node' # "raised"
    BY <1>4 DEF Untrained, Unresolving
  <2>. QED
    BY <1>2, <1>3, <1>4, <2>1 DEF WorkflowInv, CountFits
<1>7. StatusFits'
  BY <1>2, <1>3, <1>4 DEF WorkflowInv, StatusFits, Parked
<1>8. TargetFits'
  <2>1. (node' \in Unresolving => node \in Unresolving)
          /\ (node' \in Resolving => node \in Resolving)
    BY <1>3, <1>4 DEF Unresolving, Resolving
  <2>. QED
    BY <1>2, <1>3, <2>1, TargetStays DEF WorkflowInv
<1>9. SandboxFits'
  BY <1>3 DEF WorkflowInv, SandboxFits
<1>10. WrittenFits'
  <2>1. passed => state.result = job.written
    <3>. HAVE passed
    <3>1. state.result.selected # {}
      BY <1>1, PassingResult
    <3>2. NotMeasured.selected = {}
      BY DEF NotMeasured
    <3>. QED
      BY <1>3, <3>1, <3>2 DEF WorkflowInv, WrittenFits
  <2>2. Metric' = Metric /\ Compare' = Compare
    BY <1>3 DEF Metric, Compare
  <2>. QED
    BY <1>1, <1>2, <1>3, <1>4, <2>1, <2>2 DEF WorkflowInv, WrittenFits
<1>. QED
  BY <1>5, <1>6, <1>7, <1>8, <1>9, <1>10 DEF WorkflowInv

---------------------------------------------------------------------------
(* The training job.                                                       *)

LEMMA PublishResultFits ==
  ASSUME WorkflowInv, PublishResult  PROVE WorkflowInv'
<1>1. PICK result \in {NotMeasured, job.written} :
        \/ /\ state' = [state EXCEPT !.attempt = @ + 1, !.result = result]
           /\ node' = "verification"
        \/ state' = state /\ node' = "raised"
  BY DEF PublishResult, Goto
<1>2. /\ node = "ml_experiment" /\ job.phase = "returned"
      /\ UNCHANGED <<request, disk, trainings>>
      /\ state.attempt \in Nat /\ trainings \in Nat /\ MaxAttempts \in Nat
      /\ state.attempt < MaxAttempts /\ trainings <= state.attempt + 1
      /\ state.status = "RUNNING"
  BY WorkflowAssumption DEF PublishResult, JobStep, WorkflowInv, CountFits, StatusFits
<1>3. /\ DOMAIN job' = JobFields /\ job'.phase = "idle"
      /\ job'.target = job.target /\ job'.features = job.features
      /\ job'.written = job.written
      /\ job'.workspace = job.workspace /\ job'.container = job.container
  BY DEF PublishResult, Job, WorkflowInv, Shaped, JobFields
<1>4. /\ DOMAIN state' = StateFields
      /\ state'.target = state.target /\ state'.hint = state.hint
      /\ state'.schemaKnown = state.schemaKnown /\ state'.spec = state.spec
      /\ state'.status = state.status
      /\ \/ node' = "verification" /\ state'.attempt = state.attempt + 1
             /\ state'.result = result
         \/ node' = "raised" /\ state'.attempt = state.attempt
  BY <1>1 DEF WorkflowInv, Shaped, StateFields
<1>5. Shaped'
  BY <1>2, <1>3, <1>4 DEF WorkflowInv, Shaped, Nodes, Phases
<1>6. CountFits'
  <2>1. node' \notin Untrained /\ node' # "ml_experiment"
    BY <1>4 DEF Untrained, Unresolving
  <2>. QED
    BY <1>2, <1>3, <1>4, <2>1 DEF CountFits
<1>7. StatusFits'
  BY <1>2, <1>4 DEF StatusFits, Parked
<1>8. TargetFits'
  <2>1. (node' \in Unresolving => node \in Unresolving)
          /\ (node' \in Resolving => node \in Resolving)
    BY <1>2, <1>4 DEF Unresolving, Resolving
  <2>. QED
    BY <1>2, <1>3, <1>4, <2>1, TargetStays DEF WorkflowInv
<1>9. SandboxFits'
  BY <1>2, <1>3 DEF WorkflowInv, SandboxFits
<1>10. WrittenFits'
  <2>1. Metric' = Metric /\ Compare' = Compare
    BY <1>2 DEF Metric, Compare
  <2>. QED
    BY <1>2, <1>3, <1>4, <2>1 DEF WorkflowInv, WrittenFits
<1>. QED
  BY <1>5, <1>6, <1>7, <1>8, <1>9, <1>10 DEF WorkflowInv

LEMMA StartJobFits ==
  ASSUME WorkflowInv, StartJob  PROVE WorkflowInv'
<1>1. /\ node = "ml_experiment" /\ job.phase = "idle"
      /\ UNCHANGED <<request, node, state, disk>>
      /\ state.attempt \in Nat /\ trainings \in Nat /\ MaxAttempts \in Nat
      /\ state.attempt < MaxAttempts /\ trainings <= state.attempt
      /\ state.status = "RUNNING"
  <2>1. /\ node = "ml_experiment" /\ job.phase = "idle"
        /\ UNCHANGED <<request, node, state, disk>>
    BY DEF StartJob, JobStep
  <2>. QED
    BY <2>1, WorkflowAssumption DEF WorkflowInv, CountFits, StatusFits
<1>2. /\ DOMAIN job' = JobFields /\ job'.workspace = "none" /\ job'.container = "none"
      /\ job'.features = {} /\ job'.written = NotMeasured
      /\ \/ Target = {} /\ job'.phase = "returned" /\ trainings' = trainings
         \/ job'.target \in Target /\ job'.phase = "resolve" /\ trainings' = trainings + 1
  <2>1. CASE Target = {}
    BY <2>1 DEF StartJob, NoJob, JobFields
  <2>2. CASE Target # {}
    <3>1. PICK t \in Target : job' = [NoJob EXCEPT !.phase = "resolve", !.target = t]
      BY <2>2 DEF StartJob
    <3>2. trainings' = trainings + 1
      BY <2>2 DEF StartJob
    <3>. QED
      BY <3>1, <3>2 DEF NoJob, JobFields
  <2>. QED
    BY <2>1, <2>2
<1>3. Shaped'
  BY <1>1, <1>2 DEF WorkflowInv, Shaped, Phases
<1>4. CountFits'
  <2>1. node' = "ml_experiment" /\ node' \notin Untrained
    BY <1>1 DEF Untrained, Unresolving
  <2>. QED
    BY <1>1, <1>2, <2>1 DEF CountFits
<1>5. StatusFits'
  BY <1>1 DEF StatusFits, Parked
<1>6. TargetFits'
  <2>1. ASSUME NEW i, Chosen(i)  PROVE Chosen(i)'
    BY <1>1, <2>1 DEF Chosen, KnownHint
  <2>2. node \in Resolving /\ node' \notin Unresolving
    BY <1>1 DEF Resolving, Unresolving
  <2>3. ASSUME state.schemaKnown
        PROVE  \E i \in DOMAIN request.schema :
                 state.target = {i} /\ Chosen(i)' /\ job'.target = i
    <3>1. PICK i \in DOMAIN request.schema : state.target = {i} /\ Chosen(i)
      BY <2>2, <2>3 DEF WorkflowInv, TargetFits
    <3>2. Target = {i}
      BY <3>1 DEF Target
    <3>. QED
      BY <1>2, <2>1, <3>1, <3>2
  <2>. QED
    BY <1>1, <1>2, <2>2, <2>3 DEF WorkflowInv, TargetFits
<1>7. SandboxFits'
  BY <1>2 DEF SandboxFits
<1>8. WrittenFits'
  <2>1. BestOf(Metric, NotMeasured)' /\ TwoCompared(NotMeasured)'
    BY DEF BestOf, TwoCompared, NotMeasured
  <2>2. Listed(state.spec)'
    BY <1>1 DEF WorkflowInv, WrittenFits
  <2>. QED
    BY <1>1, <1>2, <2>1, <2>2 DEF WrittenFits
<1>. QED
  BY <1>3, <1>4, <1>5, <1>6, <1>7, <1>8 DEF WorkflowInv

(* A step of a job under way leaves the rest of the run alone.             *)
LEMMA JobMoves ==
  ASSUME WorkflowInv, JobStep, Unmoved, job.phase # "idle",
         DOMAIN job' = JobFields, job'.phase \in Phases \ {"idle"},
         job'.target = job.target, job.target \notin job'.features, SandboxFits',
         BestOf(Metric, job'.written), TwoCompared(job'.written)
  PROVE  WorkflowInv'
<1>1. node = "ml_experiment" /\ UNCHANGED <<request, node, state, disk, trainings>>
  BY DEF JobStep, Unmoved
<1>2. Shaped'
  BY <1>1 DEF WorkflowInv, Shaped
<1>3. CountFits'
  <2>1. job'.phase # "idle"
    OBVIOUS
  <2>. QED
    BY <1>1, <2>1 DEF WorkflowInv, CountFits, Untrained, Unresolving
<1>4. StatusFits'
  BY <1>1 DEF WorkflowInv, StatusFits
<1>5. TargetFits'
  <2>1. ASSUME NEW i, Chosen(i)  PROVE Chosen(i)'
    BY <1>1, <2>1 DEF Chosen, KnownHint
  <2>2. ASSUME state.schemaKnown
        PROVE  \E i \in DOMAIN request.schema :
                 state.target = {i} /\ Chosen(i)' /\ (trainings > 0 => job.target = i)
    <3>1. node \in Resolving
      BY <1>1 DEF Resolving
    <3>. QED
      BY <2>1, <2>2, <3>1 DEF WorkflowInv, TargetFits
  <2>3. node' \notin Unresolving
    BY <1>1 DEF Unresolving
  <2>. QED
    BY <1>1, <2>2, <2>3 DEF WorkflowInv, TargetFits
<1>6. WrittenFits'
  <2>1. Metric' = Metric
    BY <1>1 DEF Metric
  <2>2. Listed(state.spec)' /\ state'.status = "RUNNING"
    BY <1>1 DEF WorkflowInv, WrittenFits, StatusFits
  <2>3. BestOf(Metric, job.written)' /\ TwoCompared(job.written)'
    BY <2>1
  <2>. QED
    BY <1>1, <2>2, <2>3 DEF WrittenFits
<1>. QED
  BY <1>2, <1>3, <1>4, <1>5, <1>6 DEF WorkflowInv

LEMMA ResolveDatasetFits ==
  ASSUME WorkflowInv, ResolveDataset  PROVE WorkflowInv'
<1>1. /\ JobStep /\ Unmoved /\ job.phase # "idle"
      /\ DOMAIN job' = JobFields /\ job'.phase \in Phases \ {"idle"}
      /\ job'.target = job.target /\ job'.features = job.features
      /\ job'.written = job.written
  BY DEF ResolveDataset, Job, WorkflowInv, Shaped, JobFields, Phases
<1>2. SandboxFits'
  BY DEF ResolveDataset, Job, WorkflowInv, Shaped, JobFields, SandboxFits
<1>. QED
  BY <1>1, <1>2, JobMoves DEF WorkflowInv, TargetFits, WrittenFits

LEMMA ProbeFits ==
  ASSUME WorkflowInv, Probe  PROVE WorkflowInv'
<1>1. /\ JobStep /\ Unmoved /\ job.phase # "idle"
      /\ DOMAIN job' = JobFields /\ job'.phase \in Phases \ {"idle"}
      /\ job'.target = job.target /\ job'.features = job.features
      /\ job'.written = job.written
  BY DEF Probe, Job, WorkflowInv, Shaped, JobFields, Phases
<1>2. SandboxFits'
  BY DEF Probe, Job, WorkflowInv, Shaped, JobFields, SandboxFits
<1>. QED
  BY <1>1, <1>2, JobMoves DEF WorkflowInv, TargetFits, WrittenFits

LEMMA PrepareSandboxFits ==
  ASSUME WorkflowInv, PrepareSandbox  PROVE WorkflowInv'
<1>1. /\ JobStep /\ Unmoved /\ job.phase # "idle"
      /\ DOMAIN job' = JobFields /\ job'.phase \in Phases \ {"idle"}
      /\ job'.target = job.target /\ job'.features = job.features
      /\ job'.written = job.written
  BY DEF PrepareSandbox, Job, WorkflowInv, Shaped, JobFields, Phases
<1>2. SandboxFits'
  BY DEF PrepareSandbox, Job, WorkflowInv, Shaped, JobFields, SandboxFits
<1>. QED
  BY <1>1, <1>2, JobMoves DEF WorkflowInv, TargetFits, WrittenFits

LEMMA CreateWorkspaceFits ==
  ASSUME WorkflowInv, CreateWorkspace  PROVE WorkflowInv'
<1>1. /\ JobStep /\ Unmoved /\ job.phase # "idle"
      /\ DOMAIN job' = JobFields /\ job'.phase \in Phases \ {"idle"}
      /\ job'.target = job.target /\ job'.features = job.features
      /\ job'.written = job.written
  BY DEF CreateWorkspace, Job, WorkflowInv, Shaped, JobFields, Phases
<1>2. SandboxFits'
  BY DEF CreateWorkspace, Job, WorkflowInv, Shaped, JobFields, SandboxFits
<1>. QED
  BY <1>1, <1>2, JobMoves DEF WorkflowInv, TargetFits, WrittenFits

LEMMA StartContainerFits ==
  ASSUME WorkflowInv, StartContainer  PROVE WorkflowInv'
<1>1. /\ JobStep /\ Unmoved /\ job.phase # "idle"
      /\ DOMAIN job' = JobFields /\ job'.phase \in Phases \ {"idle"}
      /\ job'.target = job.target /\ job'.features = job.features
      /\ job'.written = job.written
  BY DEF StartContainer, Job, WorkflowInv, Shaped, JobFields, Phases
<1>2. SandboxFits'
  BY DEF StartContainer, Job, WorkflowInv, Shaped, JobFields, SandboxFits
<1>. QED
  BY <1>1, <1>2, JobMoves DEF WorkflowInv, TargetFits, WrittenFits

LEMMA PollFailsFits ==
  ASSUME WorkflowInv, PollFails  PROVE WorkflowInv'
<1>1. /\ JobStep /\ Unmoved /\ job.phase # "idle"
      /\ DOMAIN job' = JobFields /\ job'.phase \in Phases \ {"idle"}
      /\ job'.target = job.target /\ job'.features = job.features
      /\ job'.written = job.written
  BY DEF PollFails, Job, WorkflowInv, Shaped, JobFields, Phases
<1>2. SandboxFits'
  BY DEF PollFails, Job, WorkflowInv, Shaped, JobFields, SandboxFits
<1>. QED
  BY <1>1, <1>2, JobMoves DEF WorkflowInv, TargetFits, WrittenFits

LEMMA RemoveContainerFits ==
  ASSUME WorkflowInv, RemoveContainer  PROVE WorkflowInv'
<1>1. /\ JobStep /\ Unmoved /\ job.phase # "idle"
      /\ DOMAIN job' = JobFields /\ job'.phase \in Phases \ {"idle"}
      /\ job'.target = job.target /\ job'.features = job.features
      /\ job'.written = job.written
  BY DEF RemoveContainer, Job, WorkflowInv, Shaped, JobFields, Phases
<1>2. SandboxFits'
  BY DEF RemoveContainer, Job, WorkflowInv, Shaped, JobFields, SandboxFits
<1>. QED
  BY <1>1, <1>2, JobMoves DEF WorkflowInv, TargetFits, WrittenFits


LEMMA NotMeasuredFits ==
  BestOf(Metric, NotMeasured) /\ TwoCompared(NotMeasured)
BY DEF BestOf, TwoCompared, NotMeasured

LEMMA TargetIsNoFeature ==
  ASSUME NEW backend  PROVE job.target \notin FittedOn(backend)
BY DEF FittedOn, Prepared

LEMMA ContainerExitsFits ==
  ASSUME WorkflowInv, ContainerExits  PROVE WorkflowInv'
<1>1. /\ JobStep /\ Unmoved /\ job.phase = "poll" /\ node = "ml_experiment"
      /\ job.workspace \in {"empty", "filled"}
  BY DEF ContainerExits, JobStep, WorkflowInv, SandboxFits
<1>2. CASE \E outcomes \in Outcomes :
             LET end == ScriptEnds(Compare, Payload(outcomes))
             IN job' = [job EXCEPT !.phase = "remove", !.container = "exited",
                          !.exit = end.exit, !.written = end.written,
                          !.features = FittedOn("docker_sandbox"),
                          !.fitted = Payload(outcomes).evaluated > 0]
  <2>1. PICK outcomes \in Outcomes :
          LET end == ScriptEnds(Compare, Payload(outcomes))
          IN job' = [job EXCEPT !.phase = "remove", !.container = "exited",
                       !.exit = end.exit, !.written = end.written,
                       !.features = FittedOn("docker_sandbox"),
                       !.fitted = Payload(outcomes).evaluated > 0]
    BY <1>2
  <2>2. /\ DOMAIN job' = JobFields /\ job'.phase = "remove" /\ job'.container = "exited"
        /\ job'.target = job.target /\ job'.workspace = job.workspace
        /\ job'.features = FittedOn("docker_sandbox")
        /\ job'.written \in {Payload(outcomes), NotMeasured}
    BY <2>1 DEF WorkflowInv, Shaped, JobFields, ScriptEnds
  <2>3. BestOf(Metric, Payload(outcomes)) /\ TwoCompared(Payload(outcomes))
    BY <1>1, PayloadFits, RequestIsTyped DEF WorkflowInv, WrittenFits
  <2>4. SandboxFits'
    BY <1>1, <2>2 DEF SandboxFits
  <2>5. job'.phase \in Phases \ {"idle"} /\ job.phase # "idle"
    BY <1>1, <2>2 DEF Phases
  <2>. QED
    BY <1>1, <2>2, <2>3, <2>4, <2>5, NotMeasuredFits, TargetIsNoFeature, JobMoves
<1>3. CASE job' = [job EXCEPT !.phase = "remove", !.container = "exited", !.exit = "error"]
  <2>1. /\ DOMAIN job' = JobFields /\ job'.phase = "remove" /\ job'.container = "exited"
        /\ job'.target = job.target /\ job'.workspace = job.workspace
        /\ job'.features = job.features /\ job'.written = job.written
    BY <1>3 DEF WorkflowInv, Shaped, JobFields
  <2>2. SandboxFits'
    BY <1>1, <2>1 DEF SandboxFits
  <2>3. job'.phase \in Phases \ {"idle"} /\ job.phase # "idle"
    BY <1>1, <2>1 DEF Phases
  <2>. QED
    BY <1>1, <2>1, <2>2, <2>3, JobMoves DEF WorkflowInv, TargetFits, WrittenFits
<1>. QED
  BY <1>2, <1>3 DEF ContainerExits

LEMMA CleanupWorkspaceFits ==
  ASSUME WorkflowInv, CleanupWorkspace  PROVE WorkflowInv'
<1>1. /\ JobStep /\ Unmoved /\ job.phase = "cleanup"
      /\ job.container \in {"none", "lost"}
  BY DEF CleanupWorkspace, WorkflowInv, SandboxFits
<1>2. /\ DOMAIN job' = JobFields /\ job'.phase \in {"returned", "in_process"}
      /\ job'.workspace \in {"none", "lost"} /\ job'.container = job.container
      /\ job'.target = job.target /\ job'.features = job.features
      /\ job'.written \in {job.written, NotMeasured}
  BY DEF CleanupWorkspace, WorkflowInv, Shaped, JobFields, FromSandbox
<1>3. SandboxFits'
  BY <1>1, <1>2 DEF SandboxFits
<1>4. job'.phase \in Phases \ {"idle"} /\ job.phase # "idle"
  BY <1>1, <1>2 DEF Phases
<1>. QED
  BY <1>1, <1>2, <1>3, <1>4, NotMeasuredFits, JobMoves DEF WorkflowInv, TargetFits, WrittenFits

LEMMA TrainInProcessFits ==
  ASSUME WorkflowInv, TrainInProcess  PROVE WorkflowInv'
<1>1. /\ JobStep /\ Unmoved /\ job.phase = "in_process" /\ node = "ml_experiment"
      /\ job.workspace \in {"none", "lost"} /\ job.container \in {"none", "lost"}
  BY DEF TrainInProcess, JobStep, WorkflowInv, SandboxFits
<1>2. PICK raises \in MayRaise(disk = "present"), outcomes \in Outcomes :
        job' = [job EXCEPT !.phase = "returned",
                  !.written = InProcess(Payload(outcomes), raises).data,
                  !.features = FittedOn("in_process"),
                  !.fitted = ~raises /\ Payload(outcomes).evaluated > 0]
  BY DEF TrainInProcess
<1>3. /\ DOMAIN job' = JobFields /\ job'.phase = "returned"
      /\ job'.workspace = job.workspace /\ job'.container = job.container
      /\ job'.target = job.target /\ job'.features = FittedOn("in_process")
      /\ job'.written \in {Payload(outcomes), NotMeasured}
  BY <1>2 DEF WorkflowInv, Shaped, JobFields, InProcess
<1>4. BestOf(Metric, Payload(outcomes)) /\ TwoCompared(Payload(outcomes))
  BY <1>1, PayloadFits, RequestIsTyped DEF WorkflowInv, WrittenFits
<1>5. SandboxFits'
  BY <1>1, <1>3 DEF SandboxFits
<1>6. job'.phase \in Phases \ {"idle"} /\ job.phase # "idle"
  BY <1>1, <1>3 DEF Phases
<1>. QED
  BY <1>1, <1>3, <1>4, <1>5, <1>6, NotMeasuredFits, TargetIsNoFeature, JobMoves

---------------------------------------------------------------------------

LEMMA StutterFits ==
  ASSUME WorkflowInv, UNCHANGED vars  PROVE WorkflowInv'
<1>. USE DEF vars
<1>1. Shaped' /\ CountFits' /\ StatusFits' /\ SandboxFits'
  BY DEF WorkflowInv, Shaped, CountFits, StatusFits, SandboxFits
<1>2. TargetFits'
  BY TargetStays DEF WorkflowInv
<1>3. WrittenFits'
  BY DEF WorkflowInv, WrittenFits, Metric, Compare
<1>. QED
  BY <1>1, <1>2, <1>3 DEF WorkflowInv

LEMMA StepFits ==
  ASSUME WorkflowInv, [Next]_vars  PROVE WorkflowInv'
<1>1. CASE AgentRaises \/ Orchestrate
  BY <1>1, AgentRaisesFits, OrchestrateFits
<1>2. CASE Discover
  BY <1>2, DiscoveryGateFits, DescribeFits, MarkAwaitingDatasetFits DEF Discover
<1>3. CASE Profile \/ MarkAwaitingTarget \/ PlanData \/ SelectModel
  BY <1>3, ProfileFits, MarkAwaitingTargetFits, PlanDataFits, SelectModelFits
<1>4. CASE Train
  BY <1>4, StartJobFits, ResolveDatasetFits, ProbeFits, PrepareSandboxFits,
     CreateWorkspaceFits, StartContainerFits, ContainerExitsFits, PollFailsFits,
     RemoveContainerFits, CleanupWorkspaceFits, TrainInProcessFits, PublishResultFits
     DEF Train
<1>5. CASE Verify \/ MarkFailed
  BY <1>5, VerifyFits, MarkFailedFits
<1>6. CASE FileChanges
  BY <1>6, FileChangesFits
<1>7. CASE UNCHANGED vars
  BY <1>7, StutterFits
<1>. QED
  BY <1>1, <1>2, <1>3, <1>4, <1>5, <1>6, <1>7 DEF Next, Work, Finished

LEMMA InvariantHolds == Spec => []WorkflowInv
<1>1. Init => WorkflowInv
  BY InitFits
<1>2. WorkflowInv /\ [Next]_vars => WorkflowInv'
  BY StepFits
<1>. QED
  BY <1>1, <1>2, PTL DEF Spec

---------------------------------------------------------------------------

(* Every variable keeps its type, for any requests, answers of models and  *)
(* number of attempts (graph.py, experimenter.py).                         *)
THEOREM WorkflowTypes == Spec => []TypeOK
<1>1. WorkflowInv => TypeOK
  <2>. HAVE WorkflowInv
  <2>1. state.attempt \in 0 .. MaxAttempts /\ trainings \in 0 .. MaxAttempts
    BY WorkflowAssumption DEF WorkflowInv, CountFits
  <2>. QED
    BY <2>1 DEF TypeOK, WorkflowInv, Shaped, StatusFits, TargetFits, Nodes, Phases
<1>. QED
  BY <1>1, InvariantHolds, PTL

(* A run is COMPLETED only on the strength of its last training, for any   *)
(* requests, scores, families and number of attempts (verifier.py,         *)
(* train_script.py, metrics.py).                                           *)
THEOREM CompletionIsEarned == Spec => []CompletedIsEarned
<1>1. WorkflowInv => CompletedIsEarned
  <2>. SUFFICES ASSUME WorkflowInv, state.status = "COMPLETED"
                PROVE  CompletedIsEarned
    BY DEF CompletedIsEarned
  <2>1. PICK r : r = state.result
    OBVIOUS
  <2>2. r = job.written /\ Failures(r, Metric, Compare, Runner) = {}
    BY <2>1 DEF WorkflowInv, WrittenFits
  <2>3. /\ r.selected # {} /\ r.score # {}
        /\ \A s \in r.score :
             /\ 0 <= s /\ s <= One
             /\ Metric \in {"accuracy", "f1", "roc_auc"} => ~(s >= One)
             /\ \A b \in r.baseline : Better(Metric, s, b)
        /\ Compare => ~(r.evaluated < 2)
    BY <2>2, PassingResult
  <2>4. PICK s : s \in r.score
    BY <2>3
  <2>5. /\ s \in Int
        /\ \A i \in DOMAIN r.comparison : \A other \in r.comparison[i].score :
             ~Better(Metric, other, s)
    BY <2>2, <2>4 DEF WorkflowInv, WrittenFits, BestOf
  <2>6. Metric \in {"accuracy", "f1", "roc_auc"} => s < One
    <3>1. ~(s >= One) => s < One
      BY <2>5 DEF One
    <3>. QED
      BY <2>3, <2>4, <3>1
  <2>7. Compare => Cardinality({r.comparison[i].model : i \in DOMAIN r.comparison}) >= 2
    BY <2>2, <2>3 DEF WorkflowInv, WrittenFits, TwoCompared
  <2>. QED
    BY <2>1, <2>2, <2>3, <2>4, <2>5, <2>6, <2>7 DEF CompletedIsEarned
<1>. QED
  BY <1>1, InvariantHolds, PTL

(* No run trains more often than it may attempt, however often it is       *)
(* routed back, and none that waits for its user has trained               *)
(* (graph.py, experimenter.py).                                            *)
THEOREM TrainingEnds == Spec => []TrainingIsBounded
<1>1. WorkflowInv => TrainingIsBounded
  BY DEF WorkflowInv, CountFits, StatusFits, TrainingIsBounded
<1>. QED
  BY <1>1, InvariantHolds, PTL

(* A run that read its dataset trains on the column it resolved, for any   *)
(* schema, hint and proposal (targeting.py, profiler.py, experimenter.py). *)
THEOREM TargetIsResolved == Spec => []TrainsOnResolvedTarget
<1>1. WorkflowInv => TrainsOnResolvedTarget
  <2>. SUFFICES ASSUME WorkflowInv, trainings > 0, state.schemaKnown
                PROVE  TrainsOnResolvedTarget
    BY DEF TrainsOnResolvedTarget
  <2>1. PICK i \in DOMAIN request.schema :
          state.target = {i} /\ Chosen(i) /\ job.target = i
    BY DEF WorkflowInv, TargetFits
  <2>2. i \in state.target /\ i \notin job.features
    BY <2>1 DEF WorkflowInv, TargetFits
  <2>. DEFINE Spelled == {j \in DOMAIN request.schema :
                 /\ request.schema[j].named = "exactly"
                 /\ ~IdentifierLike(request.schema[j], request.rows, request.task)}
  <2>3. ASSUME KnownHint(request.hint) = {}, Cardinality(Spelled) = 1
        PROVE  i \in Spelled
    <3>1. PICK j \in DOMAIN request.schema : j \in Spelled
      <4>1. Spelled # {}
        BY <2>3, FS_EmptySet
      <4>. QED
        BY <4>1
    <3>2. request.schema[i].named = "exactly"
      BY <2>1, <2>3, <3>1 DEF Chosen
    <3>3. IdentifierLike(request.schema[i], request.rows, request.task) => i \in request.hint
      BY <2>1 DEF Chosen
    <3>4. i \notin request.hint
      BY <2>3 DEF KnownHint
    <3>. QED
      BY <3>2, <3>3, <3>4
  <2>. QED
    BY <2>1, <2>2, <2>3 DEF Chosen, TrainsOnResolvedTarget
<1>. QED
  BY <1>1, InvariantHolds, PTL

(* No workspace and no container outlives its job, except what a failed    *)
(* copy or start lost, by whatever order of failures (sandbox/manager.py). *)
THEOREM SandboxIsCleared == Spec => []NothingLeftBehind
<1>1. WorkflowInv => NothingLeftBehind
  <2>. SUFFICES ASSUME WorkflowInv  PROVE NothingLeftBehind
    OBVIOUS
  <2>1. job.phase \in Phases /\ SandboxFits
    BY DEF WorkflowInv, Shaped
  <2>. QED
    BY <2>1 DEF SandboxFits, Phases, NothingLeftBehind
<1>. QED
  BY <1>1, InvariantHolds, PTL

=============================================================================
