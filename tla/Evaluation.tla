----------------------------- MODULE Evaluation -----------------------------
(***************************************************************************)
(* One evaluation arm (evaluation/runner.py) and the coverage curve drawn   *)
(* from it (evaluation/metrics.py).                                         *)
(*                                                                          *)
(* The gate is called once a question, at the shipped thresholds.  Every    *)
(* other point of the published curve is a claim about decisions that were  *)
(* never taken: it is recomputed from three facts kept per question, the    *)
(* score, whether the refusal was a hard block, and the evidence the gate   *)
(* would have approved.  is_hard_block restates the gate's rules to do so.  *)
(* A run of this machine draws the curve point by point, in ascending       *)
(* thresholds, with the decision of the shipped gate beside it.             *)
(***************************************************************************)
EXTENDS Gate

CONSTANTS
    Questions,      \* the question set
    AskedAs,        \* question -> its query
    RetrievedFor,   \* question -> the results its retrieval may return
    Supports,       \* question -> ids of the chunks that support it in the corpus
    FamilyDocuments, \* question -> the documents of its family: revision and validity
    Shipped,        \* the shipped GateThresholds
    Sweep,          \* the thresholds of the curve, in tenths
    ForcedLimit     \* chunks the ungated baseline hands over (5 in the code)

ASSUME EvaluationAssumption ==
    /\ Sweep \subseteq 0..Tenths
    /\ Shipped \in [min_term_coverage : 0..Tenths,
                    min_top_fused_score : Int,
                    min_supporting_chunks : Nat \ {0},
                    min_supporting_chunks_with_exact_hit : Nat \ {0},
                    support_score_fraction_of_top : 0..Tenths,
                    max_approved_chunks : Nat \ {0}]
    /\ \A question \in Questions : IsFiniteSet(AskedAs[question].terms)
    /\ \A question \in Questions : \A result \in RetrievedFor[question] : IsFiniteSet(result)
    /\ IsFiniteSet(Questions)
    /\ ForcedLimit \in Nat

VARIABLES
    arm,        \* "system" or "ungated_rag"
    retrieved,  \* question -> the result its retrieval returned, once run
    outcomes,   \* question -> its AnswerOutcome, once run
    curve       \* threshold -> the questions its point counts as answered

vars == <<arm, retrieved, outcomes, curve>>

-----------------------------------------------------------------------------

\* Mutant: is_hard_block before it knew of the score and support floors.
IsHardBlockBySignals(s, t) ==
    \/ s.supporting_chunks = 0
    \/ s.superseded_present
    \/ ~s.variant_agreement
    \/ s.conflicting_evidence

\* Mutant: a rule that ends in a review does not block.
IsHardBlockWithoutReviews(s, t) ==
    \/ s.supporting_chunks = 0
    \/ NothingScored(s, t)
    \/ s.supporting_chunks < RequiredSupport(s, t)

IsHardBlock(s, t) ==
    \/ s.supporting_chunks = 0
    \/ s.superseded_present
    \/ ~s.variant_agreement
    \/ s.conflicting_evidence
    \/ NothingScored(s, t)
    \/ s.supporting_chunks < RequiredSupport(s, t)

ForceAnswer(decision, result) ==
    [outcome |-> "ANSWER",
     signals |-> decision.signals,
     approved |-> {r \in result : r.rank <= ForcedLimit}]

\* Mutant: the evidence of the decision that was taken, empty where it abstained.
ApprovedOnly(decision, result) == decision.approved

\* What a question would have cited at a threshold that let it through.
WouldApprove(decision, result) ==
    IF decision.approved # {} THEN decision.approved ELSE SupportingChunks(result, Shipped)

\* The record metrics scores: facts, from which it derives the verdicts below.
AnswerOutcome(question, decision, result) ==
    LET evidence == WouldApprove(decision, result)
    IN  [outcome |-> decision.outcome,
         gate_score |-> decision.signals.term_coverage,
         evidence |-> evidence,
         cited_revisions |-> {r.chunk.revision : r \in evidence},
         cited_variants |-> Variants(evidence),
         hard_blocked |-> IsHardBlock(decision.signals, Shipped),
         supporting_chunk_exists |-> Supports[question] # {},
         supporting_chunk_retrieved |->
             \E r \in result : r.chunk.chunk_id \in Supports[question],
         signals |-> decision.signals]

\* Mutant: the comparison the wrong way round.
AnsweredBelow(o, threshold) == ~o.hard_blocked /\ o.gate_score <= threshold

AnsweredAt(o, threshold) == ~o.hard_blocked /\ o.gate_score >= threshold

\* The ground truth of build_artifacts: every revision of the family in force on the date, those
\* that do not support the question included.
InForceRevisions(question) ==
    {d.revision : d \in {e \in FamilyDocuments[question] : InForceOn(e, AskedAs[question].as_of)}}

RevisionIncorrect(question, o) ==
    o.cited_revisions = {} \/ o.cited_revisions \ InForceRevisions(question) # {}

VariantIncorrect(question, o) ==
    LET asked == AskedAs[question].variant_id
    IN  IF asked = None
          THEN \E u, v \in o.cited_variants : u # v
          ELSE o.cited_variants \ {asked} # {}

WouldBeWrong(question, o) == RevisionIncorrect(question, o) \/ VariantIncorrect(question, o)

IsWrong(question, o) == o.outcome = "ANSWER" /\ WouldBeWrong(question, o)

AttributeFailure(question, o) ==
    CASE ~IsWrong(question, o) -> "none"
      [] IsWrong(question, o) /\ ( \/ ~o.supporting_chunk_exists
                                   \/ o.signals.superseded_present
                                   \/ ~o.signals.variant_agreement ) -> "gate"
      [] OTHER -> IF o.supporting_chunk_retrieved THEN "generation" ELSE "retrieval"

-----------------------------------------------------------------------------

Init ==
    /\ arm \in {"system", "ungated_rag"}
    /\ retrieved = << >>
    /\ outcomes = << >>
    /\ curve = << >>

\* run_arm, one question: retrieve, decide, force the answer in the ungated arm, record.
RunQuestion(question, result) ==
    LET decided == Decide(AskedAs[question], result, Shipped)
        decision == IF arm = "ungated_rag" THEN ForceAnswer(decided, result) ELSE decided
    IN  /\ question \notin DOMAIN outcomes
        /\ retrieved' = [p \in DOMAIN retrieved \union {question} |->
                           IF p = question THEN result ELSE retrieved[p]]
        /\ outcomes' = [p \in DOMAIN outcomes \union {question} |->
                          IF p = question
                            THEN AnswerOutcome(question, decision, result)
                            ELSE outcomes[p]]
        /\ UNCHANGED <<arm, curve>>

\* coverage_curve, one point: the sorted steps are taken in ascending order.
PlotPoint(threshold) ==
    /\ DOMAIN outcomes = Questions
    /\ threshold \in Sweep \ DOMAIN curve
    /\ \A earlier \in Sweep \ DOMAIN curve : threshold <= earlier
    /\ curve' = [step \in DOMAIN curve \union {threshold} |->
                   IF step = threshold
                     THEN {p \in Questions : AnsweredAt(outcomes[p], threshold)}
                     ELSE curve[step]]
    /\ UNCHANGED <<arm, retrieved, outcomes>>

Next ==
    \/ \E question \in Questions : \E result \in RetrievedFor[question] :
         RunQuestion(question, result)
    \/ \E threshold \in Sweep : PlotPoint(threshold)

Spec == Init /\ [][Next]_vars

-----------------------------------------------------------------------------
(* Properties *)

GateAt(p, threshold) == Decide(AskedAs[p], retrieved[p], WithPrimary(Shipped, threshold))

\* Types: an outcome for every question run, a set of questions for every point drawn.
TypeOK ==
    /\ arm \in {"system", "ungated_rag"}
    /\ DOMAIN outcomes \subseteq Questions
    /\ DOMAIN retrieved = DOMAIN outcomes
    /\ \A p \in DOMAIN outcomes : outcomes[p].gate_score \in 0..Tenths
    /\ DOMAIN curve \subseteq Sweep
    /\ \A step \in DOMAIN curve : curve[step] \subseteq Questions

\* The curve is the gate's: each point counts exactly the questions the shipped gate would have
\* answered had it been configured there.  is_hard_block has to restate every rule but coverage
\* for this, and its first version left out two.
CurveIsTheGate ==
    \A step \in DOMAIN curve : \A p \in Questions :
        p \in curve[step] <=> GateAt(p, step).outcome = "ANSWER"

\* Coverage falls along the curve: no question is answered at a threshold and refused below it.
CoverageNonIncreasing ==
    \A low, high \in DOMAIN curve : low <= high => curve[high] \subseteq curve[low]

\* A counterfactual point is scored on the evidence that answer would have cited, although the
\* shipped decision may have been an abstention that approved nothing.
CounterfactualEvidence ==
    arm = "system" =>
        \A step \in DOMAIN curve : \A p \in curve[step] :
            outcomes[p].evidence = GateAt(p, step).approved

\* Nothing the system arm delivers, at any point of the curve, leans on a passage out of force
\* on the date asked about or mixes two machines, whatever retrieval handed the gate.
NoPointAnswersOutOfForce ==
    arm = "system" =>
        \A step \in DOMAIN curve : \A p \in curve[step] :
            /\ \A r \in outcomes[p].evidence : InForceOn(r.chunk, AskedAs[p].as_of)
            /\ \A u, v \in outcomes[p].cited_variants : u = v

\* What _conflicting_evidence says it detects: two passages that state different values for the
\* same quantity, that is under one heading and in one unit, whichever unit that is.
Contradict(c, d) ==
    /\ c.heading = d.heading
    /\ \E f \in c.figures : \E g \in d.figures :
         f[1] = g[1] /\ ValuesIn(c, f[1]) \intersect ValuesIn(d, f[1]) = {}

NoAnswerOverContradiction ==
    \A p \in DOMAIN outcomes :
        LET decision == GateAt(p, Shipped.min_term_coverage)
        IN  decision.outcome = "ANSWER" =>
              ~ \E r, s \in decision.approved : r # s /\ Contradict(r.chunk, s.chunk)
=============================================================================
