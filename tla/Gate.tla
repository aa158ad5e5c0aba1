-------------------------------- MODULE Gate --------------------------------
(***************************************************************************)
(* The gate (gate.py): from a question and the passages retrieved for it,   *)
(* decide ANSWER, REVIEW or ABSTAIN before a word is generated.  It is a    *)
(* pure function, so it is operators here; Evaluation and Ask drive it.     *)
(*                                                                          *)
(* A retrieved chunk is [chunk, fused_score, rank, exact_identifier_hit].   *)
(* A chunk is a row (Effectivity) with, in place of its text, what the gate *)
(* reads off the text:                                                      *)
(*   tokens    the words in it, as far as a question may ask for them       *)
(*   series    "manual" or "bulletin", which fixes its section label        *)
(*   heading   the heading of its first line                                *)
(*   figures   the quantities it states, as <<unit, number>> pairs          *)
(* A question has terms, the content terms of its text.  Shares (coverage,  *)
(* the support fraction) are in tenths, the grain of the threshold sweep.   *)
(***************************************************************************)
EXTENDS Effectivity, FiniteSets

Tenths == 10

\* The quantities MEASUREMENT_UNITS and the prefixed patterns can parse.
MeasurementUnits ==
    {"torque", "bar", "litres", "months", "amps", "celsius", "millimetres", "iso_vg"}

-----------------------------------------------------------------------------
(* What is read off a passage *)

\* _SECTION_LABEL is [A-Z]?\d+(\.\d+)*: it takes a manual's "3.12" and not a bulletin's "B.2".
SubjectOf(c) == IF c.series = "manual" THEN c.heading ELSE None

ValuesIn(c, unit) == {f[2] : f \in {g \in c.figures : g[1] = unit}}

\* The quantities of a passage the gate can parse, as the keys of _measurements.
Measured(c) == {f[1] : f \in c.figures} \intersect MeasurementUnits

MayConflict(c, d) ==
    /\ SubjectOf(c) = None \/ SubjectOf(d) = None \/ SubjectOf(c) = SubjectOf(d)
    /\ \E unit \in Measured(c) \intersect Measured(d) :
         ValuesIn(c, unit) \intersect ValuesIn(d, unit) = {}

ConflictingEvidence(chunks) ==
    \E r, s \in chunks : r # s /\ MayConflict(r.chunk, s.chunk)

\* Mutant: a term found in two passages counts twice.
TermCoveragePerPassage(q, chunks) ==
    LET covered == {p \in q.terms \X chunks : p[1] \in p[2].chunk.tokens}
    IN  IF q.terms = {} \/ chunks = {}
          THEN 0
          ELSE (Tenths * Cardinality(covered)) \div Cardinality(q.terms)

\* The share of the question's terms found in the passages, rounded down to a tenth; a share
\* is below a threshold of t tenths exactly when its rounding is.
TermCoverage(q, chunks) ==
    LET covered == {term \in q.terms : \E r \in chunks : term \in r.chunk.tokens}
    IN  IF q.terms = {} \/ chunks = {}
          THEN 0
          ELSE (Tenths * Cardinality(covered)) \div Cardinality(q.terms)

-----------------------------------------------------------------------------
(* The evidence *)

TopScore(retrieved) ==
    IF retrieved = {}
      THEN 0
      ELSE CHOOSE m \in {r.fused_score : r \in retrieved} :
             \A r \in retrieved : r.fused_score <= m

\* Fused score, then rank, then chunk id: the order the evidence is cut in.
Before(r, s) ==
    \/ r.fused_score > s.fused_score
    \/ r.fused_score = s.fused_score /\ r.rank < s.rank
    \/ /\ r.fused_score = s.fused_score
       /\ r.rank = s.rank
       /\ r.chunk.chunk_id < s.chunk.chunk_id

AboveFloor(retrieved, t) ==
    {r \in retrieved :
       \/ r.exact_identifier_hit
       \/ Tenths * r.fused_score >= TopScore(retrieved) * t.support_score_fraction_of_top}

SupportingChunks(retrieved, t) ==
    LET kept == AboveFloor(retrieved, t)
    IN  {r \in kept : Cardinality({s \in kept : Before(s, r)}) < t.max_approved_chunks}

-----------------------------------------------------------------------------
(* The signals *)

Variants(chunks) == {r.chunk.variant_id : r \in chunks}

Signals(q, retrieved, t) ==
    LET approved == SupportingChunks(retrieved, t)
    IN  [top_fused_score |-> TopScore(retrieved),
         supporting_chunks |-> Cardinality(approved),
         term_coverage |-> TermCoverage(q, approved),
         variant_agreement |-> \A u, v \in Variants(approved) : u = v,
         superseded_present |-> \E r \in approved : ~InForceOn(r.chunk, q.as_of),
         conflicting_evidence |-> ConflictingEvidence(approved),
         exact_identifier_hit |-> \E r \in approved : r.exact_identifier_hit]

\* Mutant: one lucky chunk is corroboration.
RequiredSupportOfOne(s, t) == t.min_supporting_chunks_with_exact_hit

RequiredSupport(s, t) ==
    IF s.exact_identifier_hit
      THEN t.min_supporting_chunks_with_exact_hit
      ELSE t.min_supporting_chunks

NothingScored(s, t) ==
    s.top_fused_score <= t.min_top_fused_score /\ ~s.exact_identifier_hit

-----------------------------------------------------------------------------
(* The rules, in order: the first that fires withholds, none firing answers. *)

\* Mutant: two machines in one answer are nobody's concern.
RuleFiresForAnyMachine(i, s, t) ==
    \/ i = 1 /\ s.supporting_chunks = 0
    \/ i = 2 /\ s.superseded_present
    \/ i = 3 /\ NothingScored(s, t)
    \/ i = 4 /\ s.supporting_chunks < RequiredSupport(s, t)
    \/ i = 5 /\ s.term_coverage < t.min_term_coverage
    \/ i = 7 /\ s.conflicting_evidence

RuleFires(i, s, t) ==
    \/ i = 1 /\ s.supporting_chunks = 0
    \/ i = 2 /\ s.superseded_present
    \/ i = 3 /\ NothingScored(s, t)
    \/ i = 4 /\ s.supporting_chunks < RequiredSupport(s, t)
    \/ i = 5 /\ s.term_coverage < t.min_term_coverage
    \/ i = 6 /\ ~s.variant_agreement
    \/ i = 7 /\ s.conflicting_evidence

RuleOutcome(i) == IF i \in {2, 6, 7} THEN "REVIEW" ELSE "ABSTAIN"

Firing(s, t) == {i \in 1..7 : RuleFires(i, s, t)}
FirstRule(s, t) == CHOOSE i \in Firing(s, t) : \A j \in Firing(s, t) : i <= j

Outcome(s, t) ==
    IF Firing(s, t) = {} THEN "ANSWER" ELSE RuleOutcome(FirstRule(s, t))

Decide(q, retrieved, t) ==
    LET s == Signals(q, retrieved, t)
        outcome == Outcome(s, t)
    IN  [outcome |-> outcome,
         signals |-> s,
         approved |-> IF outcome = "ABSTAIN" THEN {} ELSE SupportingChunks(retrieved, t)]

WithholdsAnswer(outcome) == outcome \in {"ABSTAIN", "REVIEW"}

WithPrimary(t, value) == [t EXCEPT !.min_term_coverage = value]
=============================================================================
