------------------------------ MODULE Figures -------------------------------
(***************************************************************************)
(* The figures published of one arm once every question has been run and    *)
(* the curve is drawn: the rates and the attribution table of               *)
(* evaluation/metrics.py, as evaluation/artifacts.py puts them together.    *)
(* A rate is the pair of counts it divides, since several have different    *)
(* denominators on purpose.                                                 *)
(***************************************************************************)
EXTENDS Evaluation

CONSTANTS
    RetrievalK,   \* the cut-off of recall, 10 in the code
    Languages     \* every language a corpus must be measured in

\* Language is a closed enumeration, and every question is in one of its members.
ASSUME FiguresAssumption ==
    /\ RetrievalK \in Nat \ {0}
    /\ \A question \in Questions : AskedAs[question].language \in Languages

Share(part, whole) == [part |-> Cardinality(part), whole |-> Cardinality(whole)]

Ended(outcome) == {p \in Questions : outcomes[p].outcome = outcome}
Delivered == Ended("ANSWER")
Unsupported == {p \in Questions : ~outcomes[p].supporting_chunk_exists}
Wrong(questions) == {p \in questions : WouldBeWrong(p, outcomes[p])}

Coverage == Share(Delivered, Questions)
AbstentionRate == Share(Ended("ABSTAIN"), Questions)
ReviewRate == Share(Ended("REVIEW"), Questions)
NonAnswerRate == Share(Questions \ Delivered, Questions)

\* Per answer given, not per question asked: abstaining must not improve it.
WrongAnswerRate == Share(Wrong(Delivered), Delivered)

\* The same with the gate removed, as it is published of the arm that answers everything.
UngatedWrongAnswerRate == Share(Wrong(Questions), Questions)

UnsupportedAnswerRate == Share(Delivered \intersect Unsupported, Delivered)

\* A point of the curve with its denominators.
CurvePoint(threshold) ==
    [coverage |-> Share(curve[threshold], Questions),
     wrong_answer_rate |-> Share(Wrong(curve[threshold]), curve[threshold])]

Stages == {"retrieval", "generation", "gate", "none"}

FailureAttribution ==
    [stage \in Stages |-> Cardinality({p \in Questions : AttributeFailure(p, outcomes[p]) = stage})]

\* What the evaluation artifact says of the system arm at the shipped threshold.
SplitBlock ==
    [coverage |-> Coverage, abstention_rate |-> AbstentionRate, review_rate |-> ReviewRate,
     wrong_answer_rate |-> WrongAnswerRate, unsupported_answer_rate |-> UnsupportedAnswerRate,
     attribution |-> FailureAttribution]

\* And the gate artifact of the questions the corpus cannot support: a review counts as withheld.
GateReport ==
    [answered_without_support |-> Cardinality(Unsupported \intersect Delivered),
     abstention_rate_on_unanswerable |-> Share(Unsupported \ Delivered, Unsupported),
     strict_abstention_rate |-> Share(Unsupported \intersect Ended("ABSTAIN"), Unsupported)]

-----------------------------------------------------------------------------
(* Retrieval, and the table of languages *)

\* Recall of a question: of the passages that support it, those among the first k.
RecallAtK(p) ==
    Share({r.chunk.chunk_id : r \in {s \in retrieved[p] : s.rank <= RetrievalK}}
            \intersect Supports[p],
          Supports[p])

\* The place of the first of them, wherever it is: one over the reciprocal rank.
FirstSupport(p) ==
    LET places == {r.rank : r \in {s \in retrieved[p] : s.chunk.chunk_id \in Supports[p]}}
    IN  IF places = {}
          THEN None
          ELSE CHOOSE first \in places : \A place \in places : first <= place

\* A mean is left as what it is the mean of.  A question nothing supports has no recall: it is
\* excluded, and counted.
SummariseRetrieval(questions) ==
    LET scorable == {p \in questions : Supports[p] # {}}
    IN  [scored |-> Cardinality(scorable),
         skipped_without_relevant |-> Cardinality(questions \ scorable),
         recall_at_k |-> [p \in scorable |-> RecallAtK(p)],
         first_support |-> [p \in scorable |-> FirstSupport(p)]]

In(language) == {p \in Questions : AskedAs[p].language = language}

\* by_language raises where a language has no question, or none that can be scored.
IsMeasured(language) == \E p \in In(language) : Supports[p] # {}

LanguageScores(language) ==
    LET correct == In(language) \intersect (Delivered \ Wrong(Delivered))
    IN  [retrieval |-> SummariseRetrieval(In(language)),
         answer_correctness |-> Share(correct, In(language) \intersect Delivered),
         end_to_end_correctness |-> Share(correct, In(language)),
         coverage |-> Share(In(language) \intersect Delivered, In(language)),
         abstention_rate |-> Share(In(language) \intersect Ended("ABSTAIN"), In(language))]

ByLanguage == [language \in Languages |-> LanguageScores(language)]

-----------------------------------------------------------------------------
(* Properties *)

Published == DOMAIN outcomes = Questions /\ DOMAIN curve = Sweep

\* The headline is a point of the curve: coverage and wrong answers, counted from decisions that
\* were taken, are what the curve recomputes at the shipped threshold.
HeadlineIsACurvePoint ==
    arm = "system" /\ Shipped.min_term_coverage \in Sweep =>
        LET point == CurvePoint(Shipped.min_term_coverage)
        IN  /\ SplitBlock.coverage = point.coverage
            /\ SplitBlock.wrong_answer_rate = point.wrong_answer_rate

\* Every question is counted once, and the stages blamed add up to the wrong answers of the rate.
AttributionExplainsTheRate ==
    LET blamed == SplitBlock.attribution
        faults == blamed["retrieval"] + blamed["generation"] + blamed["gate"]
    IN  /\ faults = SplitBlock.wrong_answer_rate.part
        /\ faults + blamed["none"] = SplitBlock.coverage.whole
        /\ Coverage.part + AbstentionRate.part + ReviewRate.part = Coverage.whole
        /\ GateReport.abstention_rate_on_unanswerable.part + GateReport.answered_without_support
             = GateReport.abstention_rate_on_unanswerable.whole

\* A delivered wrong answer is never charged to the gate's own signals: had they said refuse, it
\* refused.  Only a question nothing in the corpus supports is its fault.
GateHeedsItsSignals ==
    arm = "system" =>
        \A p \in Questions :
            AttributeFailure(p, outcomes[p]) = "gate" => ~outcomes[p].supporting_chunk_exists

\* With the gate removed both rules of wrongness are one, so that the ratio of the two rates
\* compares arms and not definitions.
UngatedRatesAgree ==
    arm = "ungated_rag" => WrongAnswerRate = UngatedWrongAnswerRate

\* The sum of a count over the languages, as the size of a disjoint union.
Total(count) == Cardinality(UNION {{language} \X (1..count[language]) : language \in Languages})

\* The languages are the whole: what their blocks count adds up to the headline, and those that a
\* mean leaves out are counted.
LanguagesAddUp ==
    (\A language \in Languages : IsMeasured(language)) =>
        /\ Total([l \in Languages |-> ByLanguage[l].coverage.part]) = Coverage.part
        /\ Total([l \in Languages |-> ByLanguage[l].abstention_rate.part]) = AbstentionRate.part
        /\ Total([l \in Languages |-> ByLanguage[l].end_to_end_correctness.part])
             + WrongAnswerRate.part = WrongAnswerRate.whole
        /\ Total([l \in Languages |-> ByLanguage[l].retrieval.scored
                                       + ByLanguage[l].retrieval.skipped_without_relevant])
             = Coverage.whole

\* The table never blames retrieval where recall has credited it: recall looks at the first k
\* passages, the table at all of them.
BlameAgreesWithRecall ==
    \A p \in Questions : AttributeFailure(p, outcomes[p]) = "retrieval" =>
        /\ Supports[p] # {}
        /\ SummariseRetrieval(Questions).recall_at_k[p].part = 0
        /\ SummariseRetrieval(Questions).first_support[p] = None

\* The published figures agree with one another, although the curve, the headline, the tables,
\* retrieval and the gate's report are each computed on their own.
PublishedFiguresAgree ==
    Published => /\ HeadlineIsACurvePoint
                 /\ AttributionExplainsTheRate
                 /\ GateHeedsItsSignals
                 /\ UngatedRatesAgree
                 /\ LanguagesAddUp
                 /\ BlameAgreesWithRecall
=============================================================================
