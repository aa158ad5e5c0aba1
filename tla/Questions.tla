----------------------------- MODULE Questions ------------------------------
(***************************************************************************)
(* What is asked of a corpus once it is built: the benchmark's questions    *)
(* (corpus/questions.py), answerable and not, with the checks the generator *)
(* makes of them (corpus/generate.py), the knowledge replay of the          *)
(* artifacts, and the two breaches of the dates that are planted to see     *)
(* that they are noticed.                                                   *)
(*                                                                          *)
(* The truth of a question is construction metadata: the seed is written    *)
(* from the plan and never looks at what the filter would let through.      *)
(* That is what the properties compare.  A question is a choice of every    *)
(* draw; a part number is its generation, a number the catalogue issued to  *)
(* nothing is one past the last, and a malformed one is negative.           *)
(***************************************************************************)
EXTENDS Corpus

CONSTANTS
    SerialWindow,   \* topic -> the machines its manual passages are limited to
    OmittedTopic    \* the one topic this variant's manual does not cover

\* A window is bounded on both sides or on none.
ASSUME QuestionsAssumption ==
    /\ OmittedTopic \notin Topics
    /\ \A topic \in Topics :
         LET window == SerialWindow[topic]
         IN  \/ window.first = None /\ window.last = None
             \/ window.first \in Int /\ window.last \in Int /\ window.first <= window.last

Kinds ==
    {"answerable", "absent_specification", "attribute_absent_for_existing_product",
     "near_match_different_identifier", "malformed_part_number",
     "superseded_without_replacement_asked", "contradictory_sources", "different_product_family"}

QuestionSeeds ==
    [kind : Kinds, family : {"own", "decoy"}, topic : Topics \union {OmittedTopic, None},
     part : OptInt, as_of : Int, serial : OptInt, gold : Identifiers \union {None},
     span : Figures \union Int \union {None}]

\* Python's None is not a question.
ASSUME NoQuestionAssumption == None \notin QuestionSeeds

VARIABLE question   \* the question seed, or None

qvars == <<vars, question>>

FleetWide == [first |-> None, last |-> None]

\* A bulletin is for every machine, a manual passage for its topic's window.
SerialsOf(d, topic) == IF d.id = BulletinId THEN FleetWide ELSE SerialWindow[topic]

\* A machine in the middle of a bounded window, none for a passage about the whole fleet.
SerialFor(window) ==
    IF window.first = None \/ window.last = None
      THEN None
      ELSE window.first + (window.last - window.first) \div 2

\* Mutant: the day a revision is withdrawn is still counted as its own.
DatesThroughHandover(r) ==
    LET last == IF ValidTo(r) = None THEN ValidFrom(r) + 399 ELSE ValidTo(r)
    IN  {day \in Moments \union {last} : ValidFrom(r) <= day /\ day <= last}

\* The days a question about a revision is dated at: of the days between two boundaries one
\* stands for all.
DatesIn(r) ==
    LET last == IF ValidTo(r) = None THEN ValidFrom(r) + 399 ELSE ValidTo(r) - 1
    IN  {day \in Moments \union {last} : ValidFrom(r) <= day /\ day <= last}

-----------------------------------------------------------------------------
(* The seeds *)

Unanswerable(kind, topic, as_of) ==
    [kind |-> kind, family |-> "own", topic |-> topic, part |-> None, as_of |-> as_of,
     serial |-> None, gold |-> None, span |-> None]

\* Mutant: a contradicted topic may be asked about in any revision.
AllRevisions(topic) == Revisions

\* Not while a bulletin contradicts this topic: that question has two answers.
AnswerableRevisions(topic) ==
    {r \in Revisions : bulletin # None /\ bulletin.topic = topic =>
                         ValidTo(r) # None /\ ValidTo(r) <= bulletin.valid_from}

Answerable(topic, r, as_of) ==
    [kind |-> "answerable", family |-> "own", topic |-> topic, part |-> None, as_of |-> as_of,
     serial |-> SerialFor(SerialWindow[topic]), gold |-> ManualId(r), span |-> specs[r][topic]]

AnswerableSeeds ==
    UNION {UNION {{Answerable(topic, r, as_of) : as_of \in DatesIn(r)} :
                     r \in AnswerableRevisions(topic)} : topic \in Topics}

IssuedParts == {specs[r][topic] : r \in Revisions, topic \in PartTopics}

\* The part the current manual names, and a number beside it that was issued to nothing.
RealParts == {specs[Last][topic] : topic \in PartTopics}
Neighbours(part) == {part + shift : shift \in 1..9} \ IssuedParts
NearMiss(part) == CHOOSE n \in Neighbours(part) : \A m \in Neighbours(part) : n <= m
Malformed(part) == -(part + 1)
IsWellFormed(part) == part >= 0

AbsentSeeds == {Unanswerable("absent_specification", None, ValidFrom(Last) + 30)}

AttributeAbsentSeeds ==
    {Unanswerable("attribute_absent_for_existing_product", OmittedTopic, ValidFrom(Last) + 45)}

NearMatchSeeds ==
    {[Unanswerable("near_match_different_identifier", None, ValidFrom(Last) + 60)
        EXCEPT !.part = NearMiss(part)] : part \in {p \in RealParts : Neighbours(p) # {}}}

MalformedSeeds ==
    {[Unanswerable("malformed_part_number", None, ValidFrom(Last) + 15)
        EXCEPT !.part = Malformed(part)] : part \in RealParts}

\* Parts that were in force and are not any more, with the day they stopped.
WithdrawnParts ==
    {w \in {[topic |-> topic, part |-> specs[r - 1][topic], revision |-> r,
             withdrawn_on |-> ValidFrom(r)] : r \in 2..Last, topic \in PartTopics} :
        specs[w.revision][w.topic] # w.part}

SupersededSeeds ==
    {[Unanswerable("superseded_without_replacement_asked", w.topic, w.withdrawn_on + 30)
        EXCEPT !.part = w.part] : w \in WithdrawnParts}

\* The machine is supplied, or the manual's passage would be filtered out and the bulletin
\* stand unopposed.
ContradictorySeeds ==
    IF bulletin = None THEN {} ELSE
    {[Unanswerable("contradictory_sources", bulletin.topic, bulletin.valid_from + 30)
        EXCEPT !.serial = SerialFor(SerialWindow[bulletin.topic])]}

DifferentFamilySeeds ==
    {[Unanswerable("different_product_family", topic, ValidFrom(Last) + 30)
        EXCEPT !.family = "decoy"] : topic \in Topics}

\* The build refuses a malformed number that its own pattern accepts.
Seeds ==
    UNION {AnswerableSeeds, AbsentSeeds, AttributeAbsentSeeds, NearMatchSeeds, SupersededSeeds,
           ContradictorySeeds, DifferentFamilySeeds,
           {seed \in MalformedSeeds : ~IsWellFormed(seed.part)}}

QuestionsInit == Init /\ question = None

BuildQuestions ==
    /\ stage = "built"
    /\ stage' = "asked"
    /\ question' \in Seeds
    /\ UNCHANGED <<issued, specs, bulletin, correction, documents>>

QuestionsNext == (Next /\ UNCHANGED question) \/ BuildQuestions

QuestionsSpec == QuestionsInit /\ [][QuestionsNext]_qvars

-----------------------------------------------------------------------------
(* The checks of the generator, and what the filter lets through *)

Document(id) == CHOOSE d \in documents : d.id = id

\* _check_answerable: an unanswerable seed cites nothing; the gold of the other is in force,
\* covers the machine and says the expected span.  The knowledge axis is not looked at.
ChecksPass(q) ==
    IF q.kind # "answerable"
      THEN q.gold = None
      ELSE LET gold == Document(q.gold)
               window == SerialsOf(gold, q.topic)
           IN  /\ InForceOn(gold, q.as_of)
               /\ Covers(window.first, window.last, q.serial)
               /\ gold.states[q.topic] = q.span

\* What a query of the evaluation is given: it never names a knowledge date, and one about a family
\* the corpus does not have names no machine, so it is given this family's passages as well.
Retrieved(q) ==
    {d \in documents : /\ VisibleAt(d, q.as_of, None)
                       /\ q.topic \in DOMAIN d.states =>
                            LET window == SerialsOf(d, q.topic)
                            IN  Covers(window.first, window.last, q.serial)}

\* The passages that would answer: of the family asked about, they state the topic, or the part the
\* question names.  Every passage here is of one family of the corpus.
AnsweringPassages(q) ==
    {d \in Retrieved(q) :
        /\ q.family = "own"
        /\ IF q.part = None
             THEN q.topic \in DOMAIN d.states
             ELSE \E topic \in DOMAIN d.states \intersect PartTopics : d.states[topic] = q.part}

Asked == stage = "asked"

\* Types: the corpus', and a question that the generator's own checks accept: the build never
\* refuses what it has just written.
TypeOK ==
    /\ CorpusTypeOK
    /\ question # None <=> Asked
    /\ Asked => ChecksPass(question)

\* An answerable question has one answer: whatever bulletin and correction there are, exactly one
\* passage that the filter lets through states the topic for the machine, it is of the revision
\* the question was written from, and it gives the expected figure unless that very figure has
\* been corrected since.
AnswerableHasOneAnswer ==
    Asked /\ question.kind = "answerable" =>
        \E d \in documents :
            /\ AnsweringPassages(question) = {d}
            /\ ManualId(d.revision) = question.gold
            /\ d.states[question.topic] = question.span
                 <=> ~(d.id # question.gold /\ question.topic = correction.topic)

\* A question labelled unanswerable is: no passage in force states the omitted topic or names the
\* part, a withdrawn part included, however the revisions changed it; the one kind that does find
\* passages finds two, which disagree.
NegativesHaveNoAnswer ==
    Asked /\ question.kind # "answerable" =>
        IF question.kind = "contradictory_sources"
          THEN \E d, e \in documents :
                 /\ AnsweringPassages(question) = {d, e}
                 /\ d.states[question.topic] # e.states[question.topic]
          ELSE AnsweringPassages(question) = {}

\* What a seed says of the corpus is so, although it was written from the plan alone.
SeedsTellTheTruth == AnswerableHasOneAnswer /\ NegativesHaveNoAnswer

\* The gold of every answerable question is among the passages its query may be given.
GoldIsVisible ==
    Asked /\ question.kind = "answerable" => Document(question.gold) \in Retrieved(question)

-----------------------------------------------------------------------------
(* The replay of the artifacts and the breaches planted in the dates *)

Corrected == {d \in documents : d.corrected_by # None /\ d.known_to # None}
Withdrawn == {d \in documents : d.superseded_by # None /\ d.valid_to # None}

MiddleOf(d) == d.valid_from + (d.valid_to - d.valid_from) \div 2

\* One specification asked with the knowledge of the day before its correction, of now, and of
\* the day after.
ReplayHolds(original) ==
    LET seen(known_as_of) == {d.id : d \in {e \in documents :
                                 VisibleAt(e, MiddleOf(original), known_as_of)}}
        before == seen(original.known_to - 1)
        now == seen(None)
        after == seen(original.known_to + 1)
    IN  /\ original.id \in before /\ original.corrected_by \notin before
        /\ original.corrected_by \in now /\ original.id \notin now
        /\ original.corrected_by \in after

\* The knowledge predicate replaced by TRUE: the correction leaks into the historical answer.
KnowledgeBreachCaught(original) ==
    LET corrected == Document(original.corrected_by)
    IN  /\ ~VisibleAt(corrected, MiddleOf(original), original.known_to - 1)
        /\ InForceOn(corrected, MiddleOf(original))

\* The upper bound made inclusive: on the day of a withdrawal two revisions are admitted.
StaleRevisionBreachCaught(withdrawn) ==
    LET boundary == withdrawn.valid_to
        admitted == {d \in documents : VisibleAt(d, boundary, None)}
        breached == {d \in documents : InForceOnLastDay(d, boundary) /\ KnownOn(d, None)}
        revisions(ds) == {d.valid_from : d \in ds}
    IN  Cardinality(revisions(admitted)) = 1 /\ Cardinality(revisions(breached)) > 1

\* The effectivity clauses left out: the withdrawn passage is admitted.
BypassBreachCaught(withdrawn) ==
    ~VisibleAt(withdrawn, withdrawn.valid_to + 1, None)

\* The evidence can be had from any corpus the generator builds: the replay of any correction
\* shows both axes, and each breach is seen against a clean baseline, whichever withdrawn or
\* corrected passage its fixture happens to pick.
PlantedBreachesAreCaught ==
    Built =>
        /\ \A original \in Corrected : ReplayHolds(original) /\ KnowledgeBreachCaught(original)
        /\ \A withdrawn \in Withdrawn :
             StaleRevisionBreachCaught(withdrawn) /\ BypassBreachCaught(withdrawn)
=============================================================================
