-------------------------- MODULE EvaluationProofs --------------------------
(***************************************************************************)
(* The published curve is the gate's, for every question set, every result  *)
(* retrieval may return and every setting of the thresholds.                *)
(***************************************************************************)
EXTENDS Figures, GateProofs

Asked(p) == AskedAs[p]
SignalsOf(p) == Signals(Asked(p), retrieved[p], Shipped)

\* The decision an arm records of a question: the gate's, or an answer in its place.
Taken(p, result) ==
    LET decided == Decide(Asked(p), result, Shipped)
    IN  IF arm = "ungated_rag" THEN ForceAnswer(decided, result) ELSE decided

\* What is kept of a question is what its arm took of the gate's decision on what was retrieved.
Recorded ==
    /\ arm \in {"system", "ungated_rag"}
    /\ DOMAIN outcomes \subseteq Questions
    /\ DOMAIN retrieved = DOMAIN outcomes
    /\ \A p \in DOMAIN outcomes :
         /\ outcomes[p] = AnswerOutcome(p, Taken(p, retrieved[p]), retrieved[p])
         /\ IsFiniteSet(retrieved[p])

Plotted ==
    /\ DOMAIN curve \subseteq Sweep
    /\ \A step \in DOMAIN curve :
         /\ DOMAIN outcomes = Questions
         /\ curve[step] = {p \in Questions : AnsweredAt(outcomes[p], step)}

IInv == Recorded /\ Plotted

-----------------------------------------------------------------------------
(* Only coverage depends on the swept threshold *)

\* with_primary moves one field.
LEMMA OnlyCoverageMoves ==
    ASSUME NEW x
    PROVE  LET t == WithPrimary(Shipped, x)
           IN  /\ t.min_term_coverage = x
               /\ t.min_top_fused_score = Shipped.min_top_fused_score
               /\ t.min_supporting_chunks = Shipped.min_supporting_chunks
               /\ t.min_supporting_chunks_with_exact_hit
                    = Shipped.min_supporting_chunks_with_exact_hit
               /\ t.support_score_fraction_of_top = Shipped.support_score_fraction_of_top
               /\ t.max_approved_chunks = Shipped.max_approved_chunks
BY EvaluationAssumption DEF WithPrimary

\* So the evidence and the signals are the same at every point of the curve.
LEMMA SameEvidence ==
    ASSUME NEW q, NEW result, NEW x
    PROVE  /\ SupportingChunks(result, WithPrimary(Shipped, x)) = SupportingChunks(result, Shipped)
           /\ Signals(q, result, WithPrimary(Shipped, x)) = Signals(q, result, Shipped)
<1>1. SupportingChunks(result, WithPrimary(Shipped, x)) = SupportingChunks(result, Shipped)
  BY OnlyCoverageMoves DEF SupportingChunks, AboveFloor
<1> QED
  BY <1>1 DEF Signals

\* A share in tenths, rounded down, is at most the whole.
LEMMA ShareIsInTenths ==
    ASSUME NEW part \in Nat, NEW whole \in Nat, whole # 0, part <= whole
    PROVE  (Tenths * part) \div whole \in 0..Tenths
<1> DEFINE share == (Tenths * part) \div whole
<1>1. share \in Int /\ whole * share <= Tenths * part /\ Tenths * part < whole * (share + 1)
  BY DEF Tenths
<1> HIDE DEF share
<1>2. share <= Tenths
  BY <1>1, SMT DEF Tenths
<1>3. share >= 0
  BY <1>1, SMT DEF Tenths
<1> QED
  BY <1>1, <1>2, <1>3 DEF share, Tenths

\* A coverage is a number of tenths, so below the floor and at or above it are opposites.
LEMMA CoverageIsNumber ==
    ASSUME NEW p \in Questions, NEW chunks
    PROVE  TermCoverage(AskedAs[p], chunks) \in 0..Tenths
<1> DEFINE terms == AskedAs[p].terms
           covered == {term \in terms : \E r \in chunks : term \in r.chunk.tokens}
<1>1. IsFiniteSet(terms)
  BY EvaluationAssumption
<1>2. IsFiniteSet(covered) /\ Cardinality(covered) <= Cardinality(terms)
  BY <1>1, FS_Subset
<1>3. Cardinality(terms) \in Nat /\ Cardinality(covered) \in Nat
  BY <1>1, <1>2, FS_CardinalityType
<1>4. CASE terms = {} \/ chunks = {}
  BY <1>4 DEF TermCoverage, Tenths
<1>5. CASE ~(terms = {} \/ chunks = {})
  <2>1. Cardinality(terms) # 0
    BY <1>1, <1>5, FS_EmptySet
  <2>2. TermCoverage(AskedAs[p], chunks) = (Tenths * Cardinality(covered)) \div Cardinality(terms)
    BY <1>5 DEF TermCoverage
  <2> HIDE DEF terms, covered
  <2> QED
    BY <1>2, <1>3, <2>1, <2>2, ShareIsInTenths
<1> QED
  BY <1>4, <1>5

\* is_hard_block is the gate without its coverage rule, at any threshold.
LEMMA HardBlockIsTheGate ==
    ASSUME NEW p \in Questions, NEW result, NEW x \in Sweep
    PROVE  Decide(AskedAs[p], result, WithPrimary(Shipped, x)).outcome = "ANSWER"
             <=> /\ ~IsHardBlock(Signals(AskedAs[p], result, Shipped), Shipped)
                 /\ Signals(AskedAs[p], result, Shipped).term_coverage >= x
<1> DEFINE s == Signals(AskedAs[p], result, Shipped)
           t == WithPrimary(Shipped, x)
<1>1. Decide(AskedAs[p], result, t).outcome = Outcome(s, t)
  BY SameEvidence DEF Decide
<1>2. Outcome(s, t) = "ANSWER" <=> \A i \in 1..7 : ~RuleFires(i, s, t)
  BY OnlyFallThroughAnswers
<1>3. s.term_coverage \in Int /\ x \in Int
  BY CoverageIsNumber, EvaluationAssumption DEF Signals, Tenths
<1>4. t.min_term_coverage = x
  BY OnlyCoverageMoves
<1>5. NothingScored(s, t) <=> NothingScored(s, Shipped)
  BY OnlyCoverageMoves DEF NothingScored
<1>6. RequiredSupport(s, t) = RequiredSupport(s, Shipped)
  BY OnlyCoverageMoves DEF RequiredSupport
<1> HIDE DEF s, t
<1>7. (\A i \in 1..7 : ~RuleFires(i, s, t))
        <=> /\ ~(s.supporting_chunks = 0) /\ ~s.superseded_present /\ ~NothingScored(s, t)
            /\ ~(s.supporting_chunks < RequiredSupport(s, t))
            /\ ~(s.term_coverage < t.min_term_coverage)
            /\ s.variant_agreement /\ ~s.conflicting_evidence
  BY DEF RuleFires
<1>8. ~(s.term_coverage < t.min_term_coverage) <=> s.term_coverage >= x
  BY <1>3, <1>4
<1> QED
  BY <1>1, <1>2, <1>5, <1>6, <1>7, <1>8 DEF IsHardBlock, s, t

-----------------------------------------------------------------------------
(* Inductive invariant *)

\* An arm starts with nothing recorded and nothing plotted.
LEMMA Initially == Init => IInv
BY DEF Init, IInv, Recorded, Plotted

\* Running a question and plotting a point keep the records and the curve.
LEMMA Inductive == IInv /\ [Next]_vars => IInv'
<1> SUFFICES ASSUME IInv, [Next]_vars PROVE IInv'
  OBVIOUS
<1>1. ASSUME NEW question \in Questions, NEW result \in RetrievedFor[question],
             RunQuestion(question, result)
      PROVE  IInv'
  <2> DEFINE outcome == AnswerOutcome(question, Taken(question, result), result)
  <2>1. /\ question \notin DOMAIN outcomes
        /\ retrieved' = [p \in DOMAIN retrieved \union {question} |->
                           IF p = question THEN result ELSE retrieved[p]]
        /\ outcomes' = [p \in DOMAIN outcomes \union {question} |->
                          IF p = question THEN outcome ELSE outcomes[p]]
        /\ arm' = arm /\ curve' = curve
    BY <1>1 DEF RunQuestion, Taken, Asked
  <2>2. DOMAIN curve = {}
    BY <2>1 DEF IInv, Plotted
  <2>3. \A p, r : Taken(p, r)' = Taken(p, r)
    BY <2>1 DEF Taken, Asked
  <2> HIDE DEF outcome
  <2>4. ASSUME NEW p \in DOMAIN outcomes'
        PROVE  /\ outcomes'[p] = AnswerOutcome(p, Taken(p, retrieved'[p]), retrieved'[p])
               /\ IsFiniteSet(retrieved'[p])
    <3>1. CASE p = question
      BY <2>1, <3>1, EvaluationAssumption DEF outcome, IInv, Recorded
    <3>2. CASE p # question
      <4>1. p \in DOMAIN outcomes /\ outcomes'[p] = outcomes[p] /\ retrieved'[p] = retrieved[p]
        BY <2>1, <3>2 DEF IInv, Recorded
      <4> QED
        BY <4>1 DEF IInv, Recorded
    <3> QED
      BY <3>1, <3>2
  <2>5. Recorded'
    BY <2>1, <2>4, <2>3 DEF IInv, Recorded, Taken, Asked
  <2>6. Plotted'
    BY <2>1, <2>2 DEF Plotted
  <2> QED
    BY <2>5, <2>6 DEF IInv
<1>2. ASSUME NEW threshold \in Sweep, PlotPoint(threshold)
      PROVE  IInv'
  <2>1. Recorded'
    BY <1>2 DEF PlotPoint, IInv, Recorded, Taken, Asked
  <2>2. Plotted'
    BY <1>2 DEF PlotPoint, IInv, Plotted, AnsweredAt
  <2> QED
    BY <2>1, <2>2 DEF IInv
<1>3. CASE UNCHANGED vars
  BY <1>3 DEF vars, IInv, Recorded, Plotted, Taken, Asked, AnsweredAt
<1> QED
  BY <1>1, <1>2, <1>3 DEF Next

\* So they hold throughout.
LEMMA Invariance == Spec => []IInv
BY Initially, Inductive, PTL DEF Spec

-----------------------------------------------------------------------------
(* What follows *)

\* What the record of a question says.
LEMMA RecordedFacts ==
    ASSUME IInv, NEW p \in DOMAIN outcomes
    PROVE  LET o == outcomes[p]
               decided == Decide(AskedAs[p], retrieved[p], Shipped)
           IN  /\ p \in Questions
               /\ o.gate_score = SignalsOf(p).term_coverage
               /\ o.hard_blocked = IsHardBlock(SignalsOf(p), Shipped)
               /\ o.signals = SignalsOf(p)
               /\ o.cited_variants = Variants(o.evidence)
               /\ o.supporting_chunk_exists = (Supports[p] # {})
               /\ o.supporting_chunk_retrieved
                    = \E r \in retrieved[p] : r.chunk.chunk_id \in Supports[p]
               /\ arm = "system" => /\ o.evidence = SupportingChunks(retrieved[p], Shipped)
                                    /\ o.outcome = decided.outcome
               /\ arm = "ungated_rag" => o.outcome = "ANSWER"
<1> DEFINE decision == Taken(p, retrieved[p])
<1>1. outcomes[p] = AnswerOutcome(p, decision, retrieved[p]) /\ p \in Questions
  BY DEF IInv, Recorded
<1>2. decision.signals = SignalsOf(p)
  BY DEF Taken, ForceAnswer, Decide, SignalsOf
<1>3. arm = "system" =>
        /\ WouldApprove(decision, retrieved[p]) = SupportingChunks(retrieved[p], Shipped)
        /\ decision.outcome = Decide(AskedAs[p], retrieved[p], Shipped).outcome
  BY DEF Taken, WouldApprove, Decide, Asked
<1>4. arm = "ungated_rag" => decision.outcome = "ANSWER"
  BY DEF Taken, ForceAnswer
<1> HIDE DEF decision
<1>5. LET o == AnswerOutcome(p, decision, retrieved[p])
      IN  /\ o.outcome = decision.outcome
          /\ o.gate_score = decision.signals.term_coverage
          /\ o.evidence = WouldApprove(decision, retrieved[p])
          /\ o.cited_variants = Variants(o.evidence)
          /\ o.hard_blocked = IsHardBlock(decision.signals, Shipped)
          /\ o.supporting_chunk_exists = (Supports[p] # {})
          /\ o.supporting_chunk_retrieved
               = \E r \in retrieved[p] : r.chunk.chunk_id \in Supports[p]
          /\ o.signals = decision.signals
  BY DEF AnswerOutcome
<1> QED
  BY <1>1, <1>2, <1>3, <1>4, <1>5

\* A score is a coverage.
LEMMA ScoreIsInTenths ==
    ASSUME IInv, NEW p \in DOMAIN outcomes
    PROVE  outcomes[p].gate_score \in 0..Tenths
<1>1. p \in Questions /\ outcomes[p].gate_score = SignalsOf(p).term_coverage
  BY RecordedFacts
<1>2. SignalsOf(p).term_coverage
        = TermCoverage(AskedAs[p], SupportingChunks(retrieved[p], Shipped))
  BY DEF SignalsOf, Signals, Asked
<1> QED
  BY <1>1, <1>2, CoverageIsNumber

\* A point of the curve counts a question exactly when the gate, at that threshold, answers it.
LEMMA PointIsTheGate ==
    ASSUME IInv, NEW step \in DOMAIN curve, NEW p \in Questions
    PROVE  p \in curve[step] <=> GateAt(p, step).outcome = "ANSWER"
<1>1. p \in DOMAIN outcomes /\ step \in Sweep
  BY DEF IInv, Plotted
<1>2. p \in curve[step] <=> AnsweredAt(outcomes[p], step)
  BY DEF IInv, Plotted
<1>3. /\ outcomes[p].gate_score = Signals(AskedAs[p], retrieved[p], Shipped).term_coverage
      /\ outcomes[p].hard_blocked = IsHardBlock(Signals(AskedAs[p], retrieved[p], Shipped), Shipped)
  BY <1>1, RecordedFacts DEF SignalsOf, Asked
<1> QED
  BY <1>1, <1>2, <1>3, HardBlockIsTheGate DEF AnsweredAt, GateAt

\* The counterfactual points of the curve are the decisions the gate would have taken.
THEOREM CurveAgreesWithGate == Spec => []CurveIsTheGate
<1>1. IInv => CurveIsTheGate
  BY PointIsTheGate DEF CurveIsTheGate
<1> QED
  BY <1>1, Invariance, PTL

\* A higher threshold answers no question a lower one refused.
THEOREM CoverageFalls == Spec => []CoverageNonIncreasing
<1>1. IInv => CoverageNonIncreasing
  <2> SUFFICES ASSUME IInv, NEW low \in DOMAIN curve, NEW high \in DOMAIN curve, low <= high,
                      NEW p \in curve[high]
               PROVE  p \in curve[low]
    BY DEF CoverageNonIncreasing
  <2>1. p \in Questions /\ p \in DOMAIN outcomes /\ AnsweredAt(outcomes[p], high)
    BY DEF IInv, Plotted
  <2>2. outcomes[p].gate_score \in Int
    BY <2>1, ScoreIsInTenths DEF Tenths
  <2>3. low \in Int /\ high \in Int
    <3>1. low \in Sweep /\ high \in Sweep
      BY DEF IInv, Plotted
    <3> QED
      BY <3>1, EvaluationAssumption
  <2>4. AnsweredAt(outcomes[p], low)
    BY <2>1, <2>2, <2>3 DEF AnsweredAt
  <2> QED
    BY <2>1, <2>4 DEF IInv, Plotted
<1> QED
  BY <1>1, Invariance, PTL

\* Every answer on the curve is scored on the passages it would have cited.
THEOREM EvidenceIsTheAnswers == Spec => []CounterfactualEvidence
<1>1. IInv => CounterfactualEvidence
  <2> SUFFICES ASSUME IInv, arm = "system", NEW step \in DOMAIN curve, NEW p \in curve[step]
               PROVE  outcomes[p].evidence = GateAt(p, step).approved
    BY DEF CounterfactualEvidence
  <2>1. p \in Questions /\ p \in DOMAIN outcomes
    BY DEF IInv, Plotted
  <2>2. outcomes[p].evidence = SupportingChunks(retrieved[p], Shipped)
    BY <2>1, RecordedFacts
  <2>3. GateAt(p, step).outcome = "ANSWER"
    BY <2>1, PointIsTheGate
  <2>4. GateAt(p, step).approved = SupportingChunks(retrieved[p], WithPrimary(Shipped, step))
    BY <2>3 DEF GateAt, Decide
  <2> QED
    BY <2>2, <2>4, SameEvidence
<1> QED
  BY <1>1, Invariance, PTL
\* An arm keeps one outcome and one result a question, and counts questions.
THEOREM TypeCorrect == Spec => []TypeOK
<1>1. IInv => TypeOK
  <2> SUFFICES ASSUME IInv PROVE TypeOK
    OBVIOUS
  <2>1. \A p \in DOMAIN outcomes : outcomes[p].gate_score \in 0..Tenths
    BY ScoreIsInTenths
  <2> QED
    BY <2>1 DEF IInv, Recorded, Plotted, TypeOK
<1> QED
  BY <1>1, Invariance, PTL

\* At no point of the curve does the system arm lean on a passage out of force on the date asked
\* about, or mix two machines.
THEOREM NoPointIsOutOfForce == Spec => []NoPointAnswersOutOfForce
<1>1. IInv => NoPointAnswersOutOfForce
  <2> SUFFICES ASSUME IInv, arm = "system", NEW step \in DOMAIN curve, NEW p \in curve[step]
               PROVE  /\ \A r \in outcomes[p].evidence : InForceOn(r.chunk, AskedAs[p].as_of)
                      /\ \A u, v \in outcomes[p].cited_variants : u = v
    BY DEF NoPointAnswersOutOfForce
  <2> DEFINE t == WithPrimary(Shipped, step)
             decision == Decide(AskedAs[p], retrieved[p], t)
  <2>1. p \in Questions /\ p \in DOMAIN outcomes
    BY DEF IInv, Plotted
  <2>2. decision.outcome = "ANSWER"
    BY <2>1, PointIsTheGate DEF GateAt
  <2>3. decision.approved = SupportingChunks(retrieved[p], Shipped)
    BY <2>2, SameEvidence DEF Decide
  <2>4. /\ \A r \in decision.approved : InForceOn(r.chunk, AskedAs[p].as_of)
        /\ \A r, s \in decision.approved : r.chunk.variant_id = s.chunk.variant_id
    BY <2>2, AnswerIsSound
  <2>5. outcomes[p].evidence = decision.approved
    BY <2>1, <2>3, RecordedFacts
  <2>6. outcomes[p].cited_variants = Variants(decision.approved)
    BY <2>1, <2>5, RecordedFacts
  <2> HIDE DEF decision
  <2> QED
    BY <2>4, <2>5, <2>6 DEF Variants
<1> QED
  BY <1>1, Invariance, PTL

-----------------------------------------------------------------------------
(* The published figures *)

\* Disjoint finite sets are counted one after the other.
LEMMA DisjointUnion ==
    ASSUME NEW S, NEW T, IsFiniteSet(S), IsFiniteSet(T), S \intersect T = {}
    PROVE  Cardinality(S \union T) = Cardinality(S) + Cardinality(T)
<1>1. Cardinality(S \union T) = Cardinality(S) + Cardinality(T) - Cardinality(S \intersect T)
  BY FS_Union
<1>2. Cardinality(S \intersect T) = 0
  BY FS_EmptySet
<1>3. Cardinality(S) \in Nat /\ Cardinality(T) \in Nat
  BY FS_CardinalityType
<1> QED
  BY <1>1, <1>2, <1>3

\* So are the parts of a finite set.
LEMMA Parts ==
    ASSUME NEW S, NEW T, IsFiniteSet(T), S \subseteq T
    PROVE  /\ IsFiniteSet(S) /\ IsFiniteSet(T \ S)
           /\ Cardinality(S) \in Nat /\ Cardinality(T \ S) \in Nat /\ Cardinality(T) \in Nat
           /\ Cardinality(S) + Cardinality(T \ S) = Cardinality(T)
<1>1. IsFiniteSet(S) /\ IsFiniteSet(T \ S)
  BY FS_Subset
<1>2. T = S \union (T \ S) /\ S \intersect (T \ S) = {}
  OBVIOUS
<1> QED
  BY <1>1, <1>2, DisjointUnion, FS_CardinalityType

\* Any count of questions by language adds up to the count of all of them.
LEMMA CountsAddUp ==
    ASSUME NEW S, S \subseteq Questions
    PROVE  Total([l \in Languages |-> Cardinality(In(l) \intersect S)]) = Cardinality(S)
<1> DEFINE count == [l \in Languages |-> Cardinality(In(l) \intersect S)]
           Whole == UNION {{l} \X (1..count[l]) : l \in Languages}
           Number(l, f) == f \in Bijection(In(l) \intersect S, 1..count[l])
           number == [l \in Languages |-> CHOOSE f : Number(l, f)]
           lang(p) == AskedAs[p].language
           place == [p \in S |-> <<lang(p), number[lang(p)][p]>>]
<1>1. IsFiniteSet(S)
  BY EvaluationAssumption, FS_Subset
<1>2. ASSUME NEW l \in Languages
      PROVE  Number(l, number[l])
  <2>1. IsFiniteSet(In(l) \intersect S)
    BY <1>1, FS_Subset
  <2> DEFINE n == Cardinality(In(l) \intersect S)
  <2>2. n \in Nat
    BY <2>1, FS_CardinalityType
  <2> HIDE DEF n
  <2>3. IsFiniteSet(1..n) /\ Cardinality(1..n) = n
    BY <2>2, FS_Interval
  <2>4. ExistsBijection(In(l) \intersect S, 1..n)
    BY <2>1, <2>3, FS_SameCardinalityBij DEF n
  <2>5. \E f : Number(l, f)
    BY <2>4 DEF ExistsBijection, n
  <2> HIDE DEF Number
  <2> QED
    BY <2>5
<1>3. \A p \in S : lang(p) \in Languages /\ p \in In(lang(p)) \intersect S
  BY FiguresAssumption DEF In
<1>4. \A p \in S : place[p] = <<lang(p), number[lang(p)][p]>>
  OBVIOUS
<1> HIDE DEF place, lang, number, count
<1>5. place \in Injection(S, Whole)
  <2>1. ASSUME NEW p \in S
        PROVE  place[p] \in Whole
    <3>1. number[lang(p)][p] \in 1..count[lang(p)]
      BY <1>2, <1>3 DEF Bijection, Injection, IsInjective
    <3>2. place[p] \in {lang(p)} \X (1..count[lang(p)])
      BY <1>4, <3>1
    <3> QED
      BY <1>3, <3>2
  <2>2. ASSUME NEW p \in S, NEW q \in S, place[p] = place[q]
        PROVE  p = q
    <3>1. lang(p) = lang(q) /\ number[lang(p)][p] = number[lang(p)][q]
      BY <1>4, <2>2
    <3> QED
      BY <1>2, <1>3, <3>1 DEF Bijection, Injection, IsInjective
  <2> HIDE DEF Whole
  <2> QED
    BY <2>1, <2>2 DEF Injection, IsInjective, place
<1>6. place \in Surjection(S, Whole)
  <2>1. ASSUME NEW w \in Whole
        PROVE  \E p \in S : place[p] = w
    <3>1. PICK l \in Languages : w \in {l} \X (1..count[l])
      OBVIOUS
    <3>2. PICK i \in 1..count[l] : w = <<l, i>>
      BY <3>1
    <3>3. PICK p \in In(l) \intersect S : number[l][p] = i
      BY <1>2, <3>2 DEF Bijection, Surjection
    <3>4. lang(p) = l /\ p \in S
      BY DEF In, lang
    <3> QED
      BY <1>4, <3>2, <3>3, <3>4
  <2> QED
    BY <1>5, <2>1 DEF Injection, IsInjective, Surjection
<1> HIDE DEF Whole
<1>7. Cardinality(Whole) = Cardinality(S)
  BY <1>1, <1>5, <1>6, FS_Surjection
<1> QED
  BY <1>7 DEF Total, Whole, count
\* The sets the figures count are finite.
LEMMA CountedSetsAreFinite ==
    ASSUME NEW S, S \subseteq Questions
    PROVE  IsFiniteSet(S) /\ Cardinality(S) \in Nat
BY EvaluationAssumption, FS_Subset, FS_CardinalityType

\* The languages add up.
LEMMA LanguagesAreTheWhole == LanguagesAddUp
<1> DEFINE Correct == Delivered \ Wrong(Delivered)
           scored(l) == {p \in In(l) : Supports[p] # {}}
<1>1. Delivered \subseteq Questions /\ Ended("ABSTAIN") \subseteq Questions
      /\ Correct \subseteq Questions /\ Wrong(Delivered) \subseteq Delivered
  BY DEF Delivered, Ended, Wrong
<1>2. /\ Coverage.part = Cardinality(Delivered) /\ Coverage.whole = Cardinality(Questions)
      /\ AbstentionRate.part = Cardinality(Ended("ABSTAIN"))
      /\ WrongAnswerRate.part = Cardinality(Wrong(Delivered))
      /\ WrongAnswerRate.whole = Cardinality(Delivered)
  BY DEF Coverage, AbstentionRate, WrongAnswerRate, Share
<1>3. ASSUME NEW l \in Languages
      PROVE  /\ ByLanguage[l].coverage.part = Cardinality(In(l) \intersect Delivered)
             /\ ByLanguage[l].abstention_rate.part = Cardinality(In(l) \intersect Ended("ABSTAIN"))
             /\ ByLanguage[l].end_to_end_correctness.part = Cardinality(In(l) \intersect Correct)
             /\ ByLanguage[l].retrieval.scored = Cardinality(scored(l))
             /\ ByLanguage[l].retrieval.skipped_without_relevant = Cardinality(In(l) \ scored(l))
  BY DEF ByLanguage, LanguageScores, SummariseRetrieval, Share
<1> HIDE DEF Correct
<1>4. ASSUME NEW l \in Languages
      PROVE  ByLanguage[l].retrieval.scored + ByLanguage[l].retrieval.skipped_without_relevant
               = Cardinality(In(l) \intersect Questions)
  <2>1. In(l) \subseteq Questions /\ In(l) \intersect Questions = In(l)
    BY DEF In
  <2>2. IsFiniteSet(In(l))
    BY <2>1, CountedSetsAreFinite
  <2>3. Cardinality(scored(l)) + Cardinality(In(l) \ scored(l)) = Cardinality(In(l))
    BY <2>2, Parts
  <2> QED
    BY <1>3, <2>1, <2>3
<1>5. [l \in Languages |-> ByLanguage[l].coverage.part]
        = [l \in Languages |-> Cardinality(In(l) \intersect Delivered)]
  BY <1>3
<1>6. [l \in Languages |-> ByLanguage[l].abstention_rate.part]
        = [l \in Languages |-> Cardinality(In(l) \intersect Ended("ABSTAIN"))]
  BY <1>3
<1>7. [l \in Languages |-> ByLanguage[l].end_to_end_correctness.part]
        = [l \in Languages |-> Cardinality(In(l) \intersect Correct)]
  BY <1>3
<1>8. [l \in Languages |-> ByLanguage[l].retrieval.scored
                             + ByLanguage[l].retrieval.skipped_without_relevant]
        = [l \in Languages |-> Cardinality(In(l) \intersect Questions)]
  BY <1>4
<1>9. Cardinality(Correct) + Cardinality(Wrong(Delivered)) = Cardinality(Delivered)
  <2>1. IsFiniteSet(Delivered)
    BY <1>1, CountedSetsAreFinite
  <2>2. /\ Cardinality(Wrong(Delivered)) + Cardinality(Correct) = Cardinality(Delivered)
        /\ Cardinality(Correct) \in Nat /\ Cardinality(Wrong(Delivered)) \in Nat
    BY <1>1, <2>1, Parts DEF Correct
  <2> QED
    BY <2>2
<1>10. /\ Total([l \in Languages |-> Cardinality(In(l) \intersect Delivered)])
             = Cardinality(Delivered)
       /\ Total([l \in Languages |-> Cardinality(In(l) \intersect Ended("ABSTAIN"))])
             = Cardinality(Ended("ABSTAIN"))
       /\ Total([l \in Languages |-> Cardinality(In(l) \intersect Correct)]) = Cardinality(Correct)
       /\ Total([l \in Languages |-> Cardinality(In(l) \intersect Questions)])
             = Cardinality(Questions)
  BY <1>1, CountsAddUp
<1> QED
  BY <1>2, <1>5, <1>6, <1>7, <1>8, <1>9, <1>10 DEF LanguagesAddUp

\* Where the shipped gate answers, its own signals did not say refuse.
LEMMA AnsweredAgainstNoSignal ==
    ASSUME NEW q, NEW result, Decide(q, result, Shipped).outcome = "ANSWER"
    PROVE  /\ ~Signals(q, result, Shipped).superseded_present
           /\ Signals(q, result, Shipped).variant_agreement
<1> DEFINE s == Signals(q, result, Shipped)
<1>1. Outcome(s, Shipped) = "ANSWER"
  BY DEF Decide
<1> HIDE DEF s
<1>2. ~RuleFires(2, s, Shipped) /\ ~RuleFires(6, s, Shipped)
  BY <1>1, OnlyFallThroughAnswers
<1> QED
  BY <1>2 DEF RuleFires, s

\* The headline is the point of the curve at the shipped threshold.
LEMMA HeadlineIsOnTheCurve ==
    ASSUME IInv, Published
    PROVE  HeadlineIsACurvePoint
<1> SUFFICES ASSUME arm = "system", Shipped.min_term_coverage \in Sweep
             PROVE  curve[Shipped.min_term_coverage] = Delivered
  BY DEF HeadlineIsACurvePoint, CurvePoint, SplitBlock, Coverage, WrongAnswerRate
<1> DEFINE step == Shipped.min_term_coverage
<1>1. WithPrimary(Shipped, step) = Shipped
  BY EvaluationAssumption DEF WithPrimary
<1>2. step \in DOMAIN curve /\ DOMAIN outcomes = Questions
  BY DEF Published
<1>3. curve[step] \subseteq Questions
  BY <1>2 DEF IInv, Plotted
<1> HIDE DEF step
<1>4. ASSUME NEW p \in Questions
      PROVE  p \in curve[step] <=> outcomes[p].outcome = "ANSWER"
  <2>1. p \in curve[step] <=> GateAt(p, step).outcome = "ANSWER"
    BY <1>2, PointIsTheGate
  <2>2. GateAt(p, step) = Decide(AskedAs[p], retrieved[p], Shipped)
    BY <1>1 DEF GateAt
  <2>3. outcomes[p].outcome = Decide(AskedAs[p], retrieved[p], Shipped).outcome
    BY <1>2, RecordedFacts
  <2> QED
    BY <2>1, <2>2, <2>3
<1> QED
  BY <1>3, <1>4 DEF Delivered, Ended, step
\* Every question ends in one of the gate's three outcomes, and is charged to one stage, none where
\* it was not answered wrongly.
LEMMA OutcomesAndStages ==
    ASSUME IInv, NEW p \in DOMAIN outcomes
    PROVE  /\ outcomes[p].outcome \in {"ANSWER", "REVIEW", "ABSTAIN"}
           /\ AttributeFailure(p, outcomes[p]) \in Stages
           /\ AttributeFailure(p, outcomes[p]) = "none" <=> ~IsWrong(p, outcomes[p])
<1>1. Decide(AskedAs[p], retrieved[p], Shipped).outcome \in {"ANSWER", "REVIEW", "ABSTAIN"}
  BY OnlyFallThroughAnswers DEF Decide
<1>2. outcomes[p].outcome \in {"ANSWER", "REVIEW", "ABSTAIN"}
  BY <1>1, RecordedFacts DEF IInv, Recorded
<1>3. /\ AttributeFailure(p, outcomes[p]) \in Stages
      /\ AttributeFailure(p, outcomes[p]) = "none" <=> ~IsWrong(p, outcomes[p])
  BY DEF AttributeFailure, Stages
<1> QED
  BY <1>2, <1>3

\* The stages blamed add up to the wrong answers, and the outcomes to the questions.
LEMMA BlameAddsUp ==
    ASSUME IInv, Published
    PROVE  AttributionExplainsTheRate
<1> DEFINE Blamed(stage) == {p \in Questions : AttributeFailure(p, outcomes[p]) = stage}
           Blameless == Questions \ Wrong(Delivered)
<1>1. DOMAIN outcomes = Questions
  BY DEF Published
<1>2. \A p \in Questions : IsWrong(p, outcomes[p]) <=> p \in Wrong(Delivered)
  BY DEF IsWrong, Wrong, Delivered, Ended
<1>3. Delivered \subseteq Questions /\ Wrong(Delivered) \subseteq Questions
  BY DEF Delivered, Ended, Wrong
<1>4. Wrong(Delivered) = (Blamed("retrieval") \union Blamed("generation")) \union Blamed("gate")
  BY <1>1, <1>2, <1>3, OutcomesAndStages DEF Stages
<1>5. Blamed("none") = Blameless
  BY <1>1, <1>2, OutcomesAndStages
<1>6. \A stage : IsFiniteSet(Blamed(stage)) /\ Cardinality(Blamed(stage)) \in Nat
  BY CountedSetsAreFinite
<1>7. Blamed("retrieval") \intersect Blamed("generation") = {}
      /\ (Blamed("retrieval") \union Blamed("generation")) \intersect Blamed("gate") = {}
  OBVIOUS
<1>8. \A stage \in Stages : FailureAttribution[stage] = Cardinality(Blamed(stage))
  BY DEF FailureAttribution
<1> HIDE DEF Blamed
<1>9. Cardinality(Wrong(Delivered))
        = Cardinality(Blamed("retrieval")) + Cardinality(Blamed("generation"))
            + Cardinality(Blamed("gate"))
  <2>1. /\ IsFiniteSet(Blamed("retrieval") \union Blamed("generation"))
        /\ Cardinality(Blamed("retrieval") \union Blamed("generation"))
             = Cardinality(Blamed("retrieval")) + Cardinality(Blamed("generation"))
    BY <1>6, <1>7, DisjointUnion, FS_Union
  <2> QED
    BY <1>4, <1>6, <1>7, <2>1, DisjointUnion
<1>10. Cardinality(Wrong(Delivered)) + Cardinality(Blameless) = Cardinality(Questions)
  BY <1>3, CountedSetsAreFinite, Parts
<1>11. Cardinality(Ended("ANSWER")) + Cardinality(Ended("ABSTAIN")) + Cardinality(Ended("REVIEW"))
         = Cardinality(Questions)
  <2>1. Questions = (Ended("ANSWER") \union Ended("ABSTAIN")) \union Ended("REVIEW")
    BY <1>1, OutcomesAndStages DEF Ended
  <2>2. /\ Ended("ANSWER") \intersect Ended("ABSTAIN") = {}
        /\ (Ended("ANSWER") \union Ended("ABSTAIN")) \intersect Ended("REVIEW") = {}
    BY DEF Ended
  <2>3. \A outcome : IsFiniteSet(Ended(outcome)) /\ Cardinality(Ended(outcome)) \in Nat
    BY CountedSetsAreFinite DEF Ended
  <2>4. /\ IsFiniteSet(Ended("ANSWER") \union Ended("ABSTAIN"))
        /\ Cardinality(Ended("ANSWER") \union Ended("ABSTAIN"))
             = Cardinality(Ended("ANSWER")) + Cardinality(Ended("ABSTAIN"))
    BY <2>2, <2>3, DisjointUnion, FS_Union
  <2> QED
    BY <2>1, <2>2, <2>3, <2>4, DisjointUnion
<1>12. Cardinality(Unsupported \ Delivered) + Cardinality(Unsupported \intersect Delivered)
         = Cardinality(Unsupported)
  <2>1. IsFiniteSet(Unsupported)
    BY CountedSetsAreFinite DEF Unsupported
  <2>2. Unsupported \ (Unsupported \intersect Delivered) = Unsupported \ Delivered
    OBVIOUS
  <2> QED
    BY <2>1, <2>2, Parts
<1>13. /\ SplitBlock.attribution = FailureAttribution
       /\ SplitBlock.wrong_answer_rate.part = Cardinality(Wrong(Delivered))
       /\ SplitBlock.coverage.whole = Cardinality(Questions)
       /\ Coverage.part = Cardinality(Ended("ANSWER")) /\ Coverage.whole = Cardinality(Questions)
       /\ AbstentionRate.part = Cardinality(Ended("ABSTAIN"))
       /\ ReviewRate.part = Cardinality(Ended("REVIEW"))
  BY DEF SplitBlock, WrongAnswerRate, Coverage, AbstentionRate, ReviewRate, Share, Delivered
<1>14. /\ GateReport.abstention_rate_on_unanswerable.part = Cardinality(Unsupported \ Delivered)
       /\ GateReport.abstention_rate_on_unanswerable.whole = Cardinality(Unsupported)
       /\ GateReport.answered_without_support = Cardinality(Unsupported \intersect Delivered)
  BY DEF GateReport, Share
<1> HIDE DEF Blameless
<1>15. /\ FailureAttribution["retrieval"] = Cardinality(Blamed("retrieval"))
       /\ FailureAttribution["generation"] = Cardinality(Blamed("generation"))
       /\ FailureAttribution["gate"] = Cardinality(Blamed("gate"))
       /\ FailureAttribution["none"] = Cardinality(Blameless)
  BY <1>5, <1>8 DEF Stages
<1> QED
  BY <1>9, <1>10, <1>11, <1>12, <1>13, <1>14, <1>15 DEF AttributionExplainsTheRate

\* A stage is blamed for what it did: the gate only for a question nothing supports, retrieval only
\* where it returned nothing that does.
LEMMA BlameIsDue ==
    ASSUME IInv, Published
    PROVE  GateHeedsItsSignals /\ BlameAgreesWithRecall
<1>1. DOMAIN outcomes = Questions
  BY DEF Published
<1>2. GateHeedsItsSignals
  <2> SUFFICES ASSUME arm = "system", NEW p \in Questions,
                      AttributeFailure(p, outcomes[p]) = "gate"
               PROVE  ~outcomes[p].supporting_chunk_exists
    BY DEF GateHeedsItsSignals
  <2>1. /\ IsWrong(p, outcomes[p])
        /\ \/ ~outcomes[p].supporting_chunk_exists
           \/ outcomes[p].signals.superseded_present
           \/ ~outcomes[p].signals.variant_agreement
    BY DEF AttributeFailure
  <2>2. outcomes[p].outcome = "ANSWER"
    BY <2>1 DEF IsWrong
  <2>3. Decide(AskedAs[p], retrieved[p], Shipped).outcome = "ANSWER"
    BY <1>1, <2>2, RecordedFacts
  <2>4. outcomes[p].signals = Signals(AskedAs[p], retrieved[p], Shipped)
    BY <1>1, RecordedFacts DEF SignalsOf, Asked
  <2> QED
    BY <2>1, <2>3, <2>4, AnsweredAgainstNoSignal
<1>3. BlameAgreesWithRecall
  <2> SUFFICES ASSUME NEW p \in Questions, AttributeFailure(p, outcomes[p]) = "retrieval"
               PROVE  /\ Supports[p] # {}
                      /\ SummariseRetrieval(Questions).recall_at_k[p].part = 0
                      /\ SummariseRetrieval(Questions).first_support[p] = None
    BY DEF BlameAgreesWithRecall
  <2>1. outcomes[p].supporting_chunk_exists /\ ~outcomes[p].supporting_chunk_retrieved
    BY <1>1 DEF AttributeFailure
  <2>2. Supports[p] # {} /\ \A r \in retrieved[p] : r.chunk.chunk_id \notin Supports[p]
    BY <1>1, <2>1, RecordedFacts
  <2>3. RecallAtK(p).part = 0
    <3>1. {r.chunk.chunk_id : r \in {s \in retrieved[p] : s.rank <= RetrievalK}}
            \intersect Supports[p] = {}
      BY <2>2
    <3> QED
      BY <3>1, FS_EmptySet DEF RecallAtK, Share
  <2>4. FirstSupport(p) = None
    <3>1. {r.rank : r \in {s \in retrieved[p] : s.chunk.chunk_id \in Supports[p]}} = {}
      BY <2>2
    <3> QED
      BY <3>1 DEF FirstSupport
  <2>5. /\ SummariseRetrieval(Questions).recall_at_k[p] = RecallAtK(p)
        /\ SummariseRetrieval(Questions).first_support[p] = FirstSupport(p)
    BY <2>2 DEF SummariseRetrieval
  <2> QED
    BY <2>2, <2>3, <2>4, <2>5
<1> QED
  BY <1>2, <1>3

\* Without the gate every question is answered, and the two rules of wrongness count the same.
LEMMA OneRuleOfWrongness ==
    ASSUME IInv, Published
    PROVE  UngatedRatesAgree
<1> SUFFICES ASSUME arm = "ungated_rag"
             PROVE  Delivered = Questions
  BY DEF UngatedRatesAgree, WrongAnswerRate, UngatedWrongAnswerRate
<1> QED
  BY RecordedFacts DEF Delivered, Ended, Published

\* The published figures agree with one another, for every question set, every result and every
\* setting of the thresholds.
THEOREM FiguresAgree == Spec => []PublishedFiguresAgree
<1>1. IInv => PublishedFiguresAgree
  BY HeadlineIsOnTheCurve, BlameAddsUp, BlameIsDue, OneRuleOfWrongness, LanguagesAreTheWhole
  DEF PublishedFiguresAgree
<1> QED
  BY <1>1, Invariance, PTL
=============================================================================
