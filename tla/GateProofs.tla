----------------------------- MODULE GateProofs -----------------------------
(***************************************************************************)
(* The SQL fragment and the domain model are one rule, for every row, every *)
(* question and every value of the bounds; and what a decision of the gate  *)
(* entails, for every question, every result and every setting of the       *)
(* thresholds.                                                              *)
(***************************************************************************)
EXTENDS Gate, FiniteSetTheorems, TLAPS

-----------------------------------------------------------------------------
(* Which passage applies *)

\* Three-valued logic collapses where it is read: a conjunction is TRUE when both sides are, a
\* disjunction of truth values when one is.
LEMMA SqlConnectives ==
    ASSUME NEW a \in 0..2, NEW b \in 0..2
    PROVE  /\ SqlAnd(a, b) \in 0..2
           /\ SqlOr(a, b) \in 0..2
           /\ SqlAnd(a, b) = SqlTrue <=> a = SqlTrue /\ b = SqlTrue
           /\ SqlOr(a, b) = SqlTrue <=> a = SqlTrue \/ b = SqlTrue
BY DEF SqlAnd, SqlOr, SqlTrue

\* A Boolean read as a truth value is TRUE when it holds.
LEMMA SqlTests ==
    ASSUME NEW P \in BOOLEAN
    PROVE  Sql(P) \in 0..2 /\ (Sql(P) = SqlTrue <=> P)
BY DEF Sql, SqlTrue, SqlFalse

\* A comparison is TRUE when neither side is NULL and it holds.
LEMMA SqlComparisons ==
    ASSUME NEW x \in OptInt, NEW y \in OptInt
    PROVE  /\ SqlLeq(x, y) \in 0..2
           /\ SqlLess(x, y) \in 0..2
           /\ IsNull(x) \in 0..2
           /\ IsNull(x) = SqlTrue <=> x = None
           /\ SqlLeq(x, y) = SqlTrue <=> x # None /\ y # None /\ x <= y
           /\ SqlLess(x, y) = SqlTrue <=> x # None /\ y # None /\ x < y
BY NoneAssumption DEF SqlLeq, SqlLess, IsNull, Sql, SqlTrue, SqlFalse, SqlNull, OptInt

\* The valid-time predicate is in_force_on: the lower bound inclusive, the upper exclusive, an
\* open end always in force.
LEMMA AsOfMirrors ==
    ASSUME NEW r, WellFormedRow(r), NEW as_of \in Int
    PROVE  /\ AsOfPredicate(r, as_of) \in 0..2
           /\ AsOfPredicate(r, as_of) = SqlTrue <=> InForceOn(r, as_of)
<1>1. r.valid_from \in OptInt /\ r.valid_to \in OptInt /\ as_of \in OptInt
  BY DEF WellFormedRow, OptInt
<1>2. r.valid_from # None /\ as_of # None
  BY NoneAssumption DEF WellFormedRow
<1> DEFINE from == SqlLeq(r.valid_from, as_of)
           open == IsNull(r.valid_to)
           to == SqlLess(as_of, r.valid_to)
<1>3. /\ from \in 0..2 /\ (from = SqlTrue <=> r.valid_from <= as_of)
      /\ open \in 0..2 /\ (open = SqlTrue <=> r.valid_to = None)
      /\ to \in 0..2 /\ (to = SqlTrue <=> r.valid_to # None /\ as_of < r.valid_to)
  BY <1>1, <1>2, SqlComparisons
<1> HIDE DEF from, open, to
<1>4. /\ SqlOr(open, to) \in 0..2
      /\ SqlOr(open, to) = SqlTrue <=> open = SqlTrue \/ to = SqlTrue
  BY <1>3, SqlConnectives
<1>5. /\ SqlAnd(from, SqlOr(open, to)) \in 0..2
      /\ SqlAnd(from, SqlOr(open, to)) = SqlTrue <=> from = SqlTrue /\ SqlOr(open, to) = SqlTrue
  BY <1>3, <1>4, SqlConnectives
<1> QED
  BY <1>3, <1>4, <1>5 DEF AsOfPredicate, InForceOn, from, open, to

\* The knowledge-time predicate is known_on, at a date and for the present belief alike.
LEMMA KnowledgeMirrors ==
    ASSUME NEW r, WellFormedRow(r), NEW known_as_of \in OptInt
    PROVE  LET clause == IF known_as_of = None
                           THEN CurrentKnowledgePredicate(r)
                           ELSE KnownAsOfPredicate(r, known_as_of)
           IN  clause \in 0..2 /\ (clause = SqlTrue <=> KnownOn(r, known_as_of))
<1>1. r.known_from \in OptInt /\ r.known_to \in OptInt /\ r.known_from # None
  BY NoneAssumption DEF WellFormedRow, OptInt
<1>2. CASE known_as_of = None
  BY <1>1, <1>2, SqlComparisons DEF CurrentKnowledgePredicate, KnownOn
<1>3. CASE known_as_of # None
  <2> DEFINE from == SqlLeq(r.known_from, known_as_of)
             open == IsNull(r.known_to)
             to == SqlLess(known_as_of, r.known_to)
  <2>1. /\ from \in 0..2 /\ (from = SqlTrue <=> r.known_from <= known_as_of)
        /\ open \in 0..2 /\ (open = SqlTrue <=> r.known_to = None)
        /\ to \in 0..2 /\ (to = SqlTrue <=> r.known_to # None /\ known_as_of < r.known_to)
    BY <1>1, <1>3, SqlComparisons
  <2> HIDE DEF from, open, to
  <2>2. /\ SqlOr(open, to) \in 0..2
        /\ SqlOr(open, to) = SqlTrue <=> open = SqlTrue \/ to = SqlTrue
    BY <2>1, SqlConnectives
  <2>3. /\ SqlAnd(from, SqlOr(open, to)) \in 0..2
        /\ SqlAnd(from, SqlOr(open, to)) = SqlTrue <=> from = SqlTrue /\ SqlOr(open, to) = SqlTrue
    BY <2>1, <2>2, SqlConnectives
  <2> QED
    BY <1>3, <2>1, <2>2, <2>3 DEF KnownAsOfPredicate, KnownOn, from, open, to
<1> QED
  BY <1>2, <1>3

\* The serial predicate is SerialRange.covers: with no serial asked, only an unbounded range.
LEMMA SerialMirrors ==
    ASSUME NEW r, WellFormedRow(r), NEW serial \in OptInt
    PROVE  /\ SerialPredicate(r, serial) \in 0..2
           /\ SerialPredicate(r, serial) = SqlTrue
                <=> Covers(r.serial_first, r.serial_last, serial)
<1> DEFINE noFirst == IsNull(r.serial_first)
           noLast == IsNull(r.serial_last)
           first == SqlLeq(r.serial_first, serial)
           last == SqlLeq(serial, r.serial_last)
<1>1. r.serial_first \in OptInt /\ r.serial_last \in OptInt
  BY DEF WellFormedRow
<1>2. /\ noFirst \in 0..2 /\ (noFirst = SqlTrue <=> r.serial_first = None)
      /\ noLast \in 0..2 /\ (noLast = SqlTrue <=> r.serial_last = None)
      /\ first \in 0..2
      /\ first = SqlTrue <=> r.serial_first # None /\ serial # None /\ r.serial_first <= serial
      /\ last \in 0..2
      /\ last = SqlTrue <=> serial # None /\ r.serial_last # None /\ serial <= r.serial_last
  BY <1>1, SqlComparisons
<1> HIDE DEF noFirst, noLast, first, last
<1>3. /\ SqlAnd(noFirst, noLast) \in 0..2
      /\ SqlAnd(noFirst, noLast) = SqlTrue <=> noFirst = SqlTrue /\ noLast = SqlTrue
  BY <1>2, SqlConnectives
<1>4. /\ SqlOr(noFirst, first) \in 0..2
      /\ SqlOr(noFirst, first) = SqlTrue <=> noFirst = SqlTrue \/ first = SqlTrue
      /\ SqlOr(noLast, last) \in 0..2
      /\ SqlOr(noLast, last) = SqlTrue <=> noLast = SqlTrue \/ last = SqlTrue
  BY <1>2, SqlConnectives
<1>5. LET both == SqlAnd(SqlOr(noFirst, first), SqlOr(noLast, last))
      IN  /\ both \in 0..2
          /\ both = SqlTrue <=> SqlOr(noFirst, first) = SqlTrue /\ SqlOr(noLast, last) = SqlTrue
  BY <1>4, SqlConnectives
<1> QED
  BY <1>2, <1>3, <1>4, <1>5 DEF SerialPredicate, Covers, noFirst, noLast, first, last

\* The candidate filter selects exactly the rows the domain model says apply, so a stage that
\* puts the fragment in its WHERE has what store/effectivity.py promises it.
THEOREM SqlMirrorsPython ==
    ASSUME NEW r, WellFormedRow(r), NEW q, WellFormedQuery(q),
           NEW languages, NEW apply_effectivity \in BOOLEAN
    PROVE  SelectedBySql(r, q, languages, apply_effectivity)
             <=> AppliesInPython(r, q, languages, apply_effectivity)
<1> DEFINE asOf == AsOfPredicate(r, q.as_of)
           knowledge == IF q.known_as_of = None
                          THEN CurrentKnowledgePredicate(r)
                          ELSE KnownAsOfPredicate(r, q.known_as_of)
           serial == SerialPredicate(r, q.serial)
           variant == Sql(r.variant_id = q.variant_id)
           machine == IF q.variant_id = None THEN SqlTrue ELSE SqlAnd(variant, serial)
           effectivity == IF apply_effectivity
                            THEN SqlAnd(SqlAnd(asOf, knowledge), machine)
                            ELSE SqlTrue
           spoken == Selected(q, languages) # {} => r.language \in Selected(q, languages)
<1>1. q.as_of \in Int /\ q.known_as_of \in OptInt /\ q.serial \in OptInt
  BY DEF WellFormedQuery
<1>2. asOf \in 0..2 /\ (asOf = SqlTrue <=> InForceOn(r, q.as_of))
  BY <1>1, AsOfMirrors
<1>3. knowledge \in 0..2 /\ (knowledge = SqlTrue <=> KnownOn(r, q.known_as_of))
  BY <1>1, KnowledgeMirrors
<1>4. serial \in 0..2 /\ (serial = SqlTrue <=> Covers(r.serial_first, r.serial_last, q.serial))
  BY <1>1, SerialMirrors
<1>5. variant \in 0..2 /\ (variant = SqlTrue <=> r.variant_id = q.variant_id)
  BY SqlTests
<1>6. CandidateFilter(r, q, languages, apply_effectivity) = SqlAnd(effectivity, Sql(spoken))
  BY DEF CandidateFilter
<1> HIDE DEF asOf, knowledge, serial, variant
<1>7. /\ machine \in 0..2
      /\ machine = SqlTrue
           <=> (q.variant_id # None => AppliesTo(r, q.variant_id, q.serial))
  BY <1>4, <1>5, SqlConnectives DEF AppliesTo, SqlTrue
<1> HIDE DEF machine
<1>8. /\ SqlAnd(asOf, knowledge) \in 0..2
      /\ SqlAnd(asOf, knowledge) = SqlTrue <=> VisibleAt(r, q.as_of, q.known_as_of)
  BY <1>2, <1>3, SqlConnectives DEF VisibleAt
<1>9. /\ SqlAnd(SqlAnd(asOf, knowledge), machine) \in 0..2
      /\ SqlAnd(SqlAnd(asOf, knowledge), machine) = SqlTrue
           <=> SqlAnd(asOf, knowledge) = SqlTrue /\ machine = SqlTrue
  BY <1>7, <1>8, SqlConnectives
<1>10. /\ effectivity \in 0..2
       /\ effectivity = SqlTrue
            <=> (apply_effectivity =>
                   /\ VisibleAt(r, q.as_of, q.known_as_of)
                   /\ q.variant_id # None => AppliesTo(r, q.variant_id, q.serial))
  BY <1>7, <1>8, <1>9 DEF SqlTrue
<1> HIDE DEF effectivity
<1>11. Sql(spoken) \in 0..2 /\ (Sql(spoken) = SqlTrue <=> spoken)
  BY SqlTests
<1> QED
  BY <1>6, <1>10, <1>11, SqlConnectives DEF SelectedBySql, AppliesInPython

\* A handover leaves no day with two revisions in force and none with neither: where a passage
\* takes over on the day its predecessor ends, each date from the first one's issue until the
\* second one's end belongs to exactly one of them.
THEOREM HandoverIsExact ==
    ASSUME NEW c, NEW d, WellFormedRow(c), WellFormedRow(d),
           c.valid_to = d.valid_from, NEW as_of \in Int
    PROVE  /\ ~(InForceOn(c, as_of) /\ InForceOn(d, as_of))
           /\ c.valid_from <= as_of /\ (d.valid_to = None \/ as_of < d.valid_to)
                => InForceOn(c, as_of) \/ InForceOn(d, as_of)
<1>1. c.valid_from \in Int /\ d.valid_from \in Int /\ c.valid_to \in Int /\ c.valid_to # None
  BY NoneAssumption DEF WellFormedRow
<1> QED
  BY <1>1 DEF InForceOn

-----------------------------------------------------------------------------
(* What a decision entails *)

\* The gate approves nothing it was not given.
LEMMA ApprovedAreRetrieved ==
    ASSUME NEW retrieved, NEW t
    PROVE  SupportingChunks(retrieved, t) \subseteq retrieved
BY DEF SupportingChunks, AboveFloor

\* No passage, no support.
LEMMA NothingSupportsNothing ==
    ASSUME NEW q, NEW retrieved, NEW t, Signals(q, retrieved, t).supporting_chunks # 0
    PROVE  SupportingChunks(retrieved, t) # {}
BY FS_EmptySet DEF Signals

\* Rule 1, when it fires, is the first: an abstention.
LEMMA FirstOfAllRules ==
    ASSUME NEW s, NEW t, RuleFires(1, s, t)
    PROVE  Outcome(s, t) = "ABSTAIN"
<1>1. 1 \in Firing(s, t)
  BY DEF Firing
<1>2. \A j \in Firing(s, t) : 1 <= j
  BY DEF Firing
<1>3. FirstRule(s, t) \in Firing(s, t) /\ \A j \in Firing(s, t) : FirstRule(s, t) <= j
  BY <1>1, <1>2 DEF FirstRule
<1>4. FirstRule(s, t) = 1
  BY <1>1, <1>2, <1>3 DEF Firing
<1> QED
  BY <1>1, <1>4 DEF Outcome, RuleOutcome

\* Only the fall-through answers.
LEMMA OnlyFallThroughAnswers ==
    ASSUME NEW s, NEW t
    PROVE  /\ Outcome(s, t) \in {"ANSWER", "REVIEW", "ABSTAIN"}
           /\ Outcome(s, t) = "ANSWER" <=> \A i \in 1..7 : ~RuleFires(i, s, t)
BY DEF Outcome, RuleOutcome, Firing

\* An answer rests on passages, as many as the floor asks for, all of them retrieved, in force
\* on the date asked about and of one machine, no two in conflict.
THEOREM AnswerIsSound ==
    ASSUME NEW q, NEW retrieved, NEW t, Decide(q, retrieved, t).outcome = "ANSWER"
    PROVE  LET decision == Decide(q, retrieved, t)
           IN  /\ decision.approved \subseteq retrieved /\ decision.approved # {}
               /\ ~(Cardinality(decision.approved) < RequiredSupport(decision.signals, t))
               /\ \A r \in decision.approved : InForceOn(r.chunk, q.as_of)
               /\ \A r, s \in decision.approved : r.chunk.variant_id = s.chunk.variant_id
               /\ \A r, s \in decision.approved : r # s => ~MayConflict(r.chunk, s.chunk)
<1> DEFINE s == Signals(q, retrieved, t)
           approved == SupportingChunks(retrieved, t)
<1>1. Outcome(s, t) = "ANSWER" /\ Decide(q, retrieved, t).signals = s
  BY DEF Decide
<1>2. Decide(q, retrieved, t).approved = approved
  BY <1>1 DEF Decide
<1>3. \A i \in 1..7 : ~RuleFires(i, s, t)
  BY <1>1, OnlyFallThroughAnswers
<1>4. /\ s.supporting_chunks # 0
      /\ ~s.superseded_present
      /\ ~(s.supporting_chunks < RequiredSupport(s, t))
      /\ s.variant_agreement
      /\ ~s.conflicting_evidence
  <2>1. ~RuleFires(1, s, t) /\ ~RuleFires(2, s, t) /\ ~RuleFires(4, s, t)
    BY <1>3
  <2>2. ~RuleFires(6, s, t) /\ ~RuleFires(7, s, t)
    BY <1>3
  <2> HIDE DEF s
  <2> QED
    BY <2>1, <2>2 DEF RuleFires
<1>5. /\ s.supporting_chunks = Cardinality(approved)
      /\ s.superseded_present = \E r \in approved : ~InForceOn(r.chunk, q.as_of)
      /\ s.variant_agreement = \A u, v \in Variants(approved) : u = v
      /\ s.conflicting_evidence = ConflictingEvidence(approved)
  BY DEF Signals
<1>6. approved # {} /\ approved \subseteq retrieved
  BY <1>4, NothingSupportsNothing, ApprovedAreRetrieved
<1> HIDE DEF s, approved
<1>7. \A r \in approved : InForceOn(r.chunk, q.as_of)
  BY <1>4, <1>5
<1>8. \A r, u \in approved : r.chunk.variant_id = u.chunk.variant_id
  BY <1>4, <1>5 DEF Variants
<1>9. \A r, u \in approved : r # u => ~MayConflict(r.chunk, u.chunk)
  BY <1>4, <1>5 DEF ConflictingEvidence
<1> QED
  BY <1>1, <1>2, <1>4, <1>5, <1>6, <1>7, <1>8, <1>9

\* A review always has passages to show, and an abstention never carries any.
THEOREM ReviewHasPassages ==
    ASSUME NEW q, NEW retrieved, NEW t
    PROVE  LET decision == Decide(q, retrieved, t)
           IN  /\ decision.outcome = "REVIEW" =>
                    decision.approved \subseteq retrieved /\ decision.approved # {}
               /\ decision.outcome = "ABSTAIN" => decision.approved = {}
<1> DEFINE s == Signals(q, retrieved, t)
<1>1. CASE Outcome(s, t) = "REVIEW"
  <2>1. ~RuleFires(1, s, t)
    BY <1>1, FirstOfAllRules
  <2>2. s.supporting_chunks # 0
    BY <2>1 DEF RuleFires
  <2>3. SupportingChunks(retrieved, t) # {} /\ SupportingChunks(retrieved, t) \subseteq retrieved
    BY <2>2, NothingSupportsNothing, ApprovedAreRetrieved
  <2> QED
    BY <1>1, <2>3 DEF Decide
<1>2. CASE Outcome(s, t) # "REVIEW"
  BY <1>2 DEF Decide
<1> QED
  BY <1>1, <1>2
=============================================================================
