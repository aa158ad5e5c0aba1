---------------------------- MODULE CorpusProofs ----------------------------
(***************************************************************************)
(* One family's corpus and the questions asked of it, for any number of      *)
(* revisions and topics and any dates: whatever is planned, every day from   *)
(* the launch has one believed passage of the manual on a topic, and what    *)
(* the questions, the replay and the planted breaches rely on follows from   *)
(* which one it is.                                                          *)
(***************************************************************************)
EXTENDS Questions, FiniteSetTheorems, TLAPS

\* The revision that a day falls to.
OwnsDay(r, day) == issued[r] <= day /\ (r < Last => day < issued[r + 1])
DaysAreOwned(days) == \A day \in days : day >= Launch => \E r \in Revisions : OwnsDay(r, day)

\* Revisions follow each other, and no day falls between two.
CalendarHolds ==
    /\ issued \in Seq(Int) /\ Len(issued) \in 1..MaxRevisions
    /\ issued[1] = Launch
    /\ \A r, s \in Revisions : r < s => issued[r] < issued[s]

\* The figures of a revision; a topic's part number never goes back.
SpecsHold ==
    /\ DOMAIN specs = Revisions
    /\ \A r \in Revisions : DOMAIN specs[r] = Topics
    /\ \A r \in Revisions, topic \in MeasuredTopics : specs[r][topic] \in Figures
    /\ \A r \in Revisions, topic \in PartTopics :
         \E generation \in 0..MaxRevisions : specs[r][topic] = FirstPart[topic] + generation
    /\ \A r, s \in Revisions, topic \in PartTopics : r <= s => specs[r][topic] <= specs[s][topic]

BulletinHolds ==
    /\ bulletin \in Bulletins
    /\ bulletin.valid_from > issued[Last] /\ bulletin.figure # specs[Last][bulletin.topic]

CorrectionHolds ==
    /\ correction \in Corrections
    /\ correction.revision \in Revisions /\ correction.revision < Last
    /\ correction.known_from > issued[correction.revision + 1]
    /\ correction.figure # specs[correction.revision][correction.topic]

PlansHold ==
    /\ stage \in {"revisions", "bulletin", "correction", "render", "built", "asked"}
    /\ stage # "revisions" => SpecsHold
    /\ IF bulletin = None THEN TRUE ELSE stage \notin {"revisions", "bulletin"} /\ BulletinHolds
    /\ IF correction = None THEN TRUE
       ELSE stage \in {"render", "built", "asked"} /\ CorrectionHolds

\* The documents of the first revisions, each with its corrected re-issue if it has one.
ManualsTo(k) ==
    {ManualDocument(r, FALSE) : r \in 1..k}
      \union {ManualDocument(r, TRUE) : r \in {s \in 1..k : CorrectedHere(s)}}

Bulletin == IF bulletin # None THEN {BulletinDocument} ELSE {}

DocumentsHold ==
    /\ stage \in {"revisions", "bulletin", "correction"} => documents = {}
    /\ stage = "render" => \E k \in 0..Last : documents = ManualsTo(k)
    /\ stage \in {"built", "asked"} => documents = ManualsTo(Last) \union Bulletin

IInv == CalendarHolds /\ DaysAreOwned(Int) /\ PlansHold /\ DocumentsHold

-----------------------------------------------------------------------------
(* Planning *)

\* Another revision takes the days that were the last one's from its own day on.
LEMMA RevisionIssued ==
    ASSUME CalendarHolds, DaysAreOwned(Int), IssueRevision
    PROVE  CalendarHolds' /\ DaysAreOwned(Int)'
<1>1. PICK gap \in RevisionGaps : issued' = Append(issued, issued[Last] + gap)
  BY DEF IssueRevision
<1>2. /\ gap \in Nat /\ gap > 0 /\ Last \in Nat /\ Last >= 1 /\ issued \in Seq(Int)
      /\ issued[Last] \in Int /\ Len(issued) < MaxRevisions /\ MaxRevisions \in Nat
  BY CorpusAssumption DEF CalendarHolds, Last, IssueRevision
<1>3. /\ issued' \in Seq(Int) /\ Len(issued') = Last + 1
      /\ issued'[Last + 1] = issued[Last] + gap
      /\ \A r \in 1..Last : issued'[r] = issued[r]
  BY <1>1, <1>2 DEF Last
<1>4. Last' = Last + 1 /\ Revisions' = 1..(Last + 1) /\ Revisions = 1..Last
  BY <1>3 DEF Revisions, Last
<1>5. \A r \in Revisions : issued[r] \in Int /\ issued[r] <= issued[Last]
  <2> SUFFICES ASSUME NEW r \in 1..Last PROVE issued[r] \in Int /\ issued[r] <= issued[Last]
    BY <1>4
  <2>1. issued[r] \in Int /\ r \in Int /\ Last \in 1..Last
    BY <1>2 DEF Last
  <2>2. CASE r = Last
    BY <1>2, <2>1, <2>2
  <2>3. CASE r # Last
    BY <1>2, <1>4, <2>1, <2>3 DEF CalendarHolds
  <2> QED
    BY <2>2, <2>3
<1>6. \A r, s \in Revisions' : r < s => issued'[r] < issued'[s]
  <2> SUFFICES ASSUME NEW r \in 1..(Last + 1), NEW s \in 1..(Last + 1), r < s
               PROVE  issued'[r] < issued'[s]
    BY <1>4
  <2>1. r \in 1..Last
    BY <1>2
  <2>2. CASE s = Last + 1
    BY <1>2, <1>3, <1>4, <1>5, <2>1, <2>2
  <2>3. CASE s # Last + 1
    BY <1>2, <1>3, <1>4, <2>1, <2>3 DEF CalendarHolds
  <2> QED
    BY <2>2, <2>3
<1>7. CalendarHolds'
  <2>1. Len(issued') \in 1..MaxRevisions
    BY <1>2, <1>3 DEF Last
  <2>2. issued'[1] = Launch
    BY <1>2, <1>3 DEF CalendarHolds
  <2> QED
    BY <1>3, <1>6, <2>1, <2>2 DEF CalendarHolds
<1>8. ASSUME NEW day \in Int, day >= Launch
      PROVE  \E r \in Revisions' : OwnsDay(r, day)'
  <2>1. PICK r \in 1..Last : OwnsDay(r, day)
    BY <1>4, <1>8 DEF DaysAreOwned
  <2>2. CASE r < Last
    <3>1. r + 1 \in 1..Last /\ r \in 1..(Last + 1) /\ r < Last + 1
      BY <1>2, <2>2
    <3> QED
      BY <1>3, <1>4, <2>1, <2>2, <3>1 DEF OwnsDay
  <2>3. CASE r = Last /\ day < issued'[Last + 1]
    <3>1. r \in 1..(Last + 1) /\ issued'[r] = issued[r] /\ r + 1 = Last + 1
      BY <1>2, <1>3, <2>3
    <3> QED
      BY <1>4, <2>1, <2>3, <3>1 DEF OwnsDay
  <2>4. CASE day >= issued'[Last + 1]
    <3>1. Last + 1 \in 1..(Last + 1) /\ ~(Last + 1 < Last + 1)
      BY <1>2
    <3> QED
      BY <1>4, <2>4, <3>1 DEF OwnsDay
  <2>5. issued'[Last + 1] \in Int
    BY <1>2, <1>3
  <2> QED
    BY <1>2, <2>2, <2>3, <2>4, <2>5
<1> QED
  BY <1>7, <1>8, <1>4 DEF DaysAreOwned

\* A generation counts boundaries, and no boundary is passed twice.
LEMMA GenerationGrows ==
    ASSUME NEW n \in Nat, n <= MaxRevisions, NEW changed \in SUBSET (2..n)
    PROVE  LET passed(r) == {boundary \in changed : boundary <= r}
           IN  \A r, s \in 1..n :
                 /\ Cardinality(passed(r)) \in 0..MaxRevisions
                 /\ r <= s => Cardinality(passed(r)) <= Cardinality(passed(s))
<1> DEFINE passed(r) == {boundary \in changed : boundary <= r}
<1> SUFFICES ASSUME NEW r \in 1..n, NEW s \in 1..n
             PROVE  /\ Cardinality(passed(r)) \in 0..MaxRevisions
                    /\ r <= s => Cardinality(passed(r)) <= Cardinality(passed(s))
  OBVIOUS
<1>1. IsFiniteSet(2..n) /\ Cardinality(2..n) <= n /\ MaxRevisions \in Nat
  <2>1. Cardinality(2..n) = IF 2 > n THEN 0 ELSE n - 2 + 1
    BY FS_Interval
  <2> QED
    BY <2>1, FS_Interval, CorpusAssumption
<1>2. \A t : IsFiniteSet(passed(t)) /\ Cardinality(passed(t)) <= Cardinality(2..n)
  <2>1. \A t : passed(t) \subseteq 2..n
    OBVIOUS
  <2> HIDE DEF passed
  <2> QED
    BY <1>1, <2>1, FS_Subset
<1>3. \A t : Cardinality(passed(t)) \in Nat
  BY <1>2, FS_CardinalityType
<1>4. r <= s => passed(r) \subseteq passed(s)
  <2> SUFFICES ASSUME r <= s, NEW boundary \in changed, boundary <= r PROVE boundary <= s
    OBVIOUS
  <2>1. boundary \in Int /\ r \in Int /\ s \in Int
    OBVIOUS
  <2> QED
    BY <2>1
<1>5. Cardinality(2..n) \in Nat
  BY <1>1, FS_CardinalityType
<1> HIDE DEF passed
<1>6. Cardinality(passed(r)) \in 0..MaxRevisions
  BY <1>1, <1>2, <1>3, <1>5
<1>7. r <= s => Cardinality(passed(r)) <= Cardinality(passed(s))
  BY <1>2, <1>4, FS_Subset
<1> QED
  BY <1>6, <1>7 DEF passed

\* The figures that are planned.
LEMMA SpecsPlanned ==
    ASSUME CalendarHolds, PlanSpecs
    PROVE  SpecsHold'
<1>1. PICK measured \in [Revisions -> [MeasuredTopics -> Figures]],
           changed \in [PartTopics -> SUBSET (2..Last)] :
         specs' = [r \in Revisions |-> [topic \in Topics |->
                     IF topic \in PartTopics THEN PartNumber(topic, changed[topic], r)
                                             ELSE measured[r][topic]]]
  BY DEF PlanSpecs
<1>2. Revisions' = Revisions /\ Revisions = 1..Last /\ Last \in Nat /\ Last <= MaxRevisions
  BY DEF PlanSpecs, Revisions, Last, CalendarHolds
<1>3. PartTopics \subseteq Topics /\ \A topic \in PartTopics : FirstPart[topic] \in Nat
  BY CorpusAssumption, PartsAssumption
<1>4. ASSUME NEW topic \in PartTopics, NEW r \in Revisions, NEW s \in Revisions
      PROVE  /\ \E generation \in 0..MaxRevisions : specs'[r][topic] = FirstPart[topic] + generation
             /\ r <= s => specs'[r][topic] <= specs'[s][topic]
  <2> DEFINE passed(t) == {boundary \in changed[topic] : boundary <= t}
  <2>1. changed[topic] \in SUBSET (2..Last)
    OBVIOUS
  <2>2. /\ Cardinality(passed(r)) \in 0..MaxRevisions /\ Cardinality(passed(s)) \in 0..MaxRevisions
        /\ r <= s => Cardinality(passed(r)) <= Cardinality(passed(s))
    BY <1>2, <2>1, GenerationGrows
  <2>3. /\ specs'[r][topic] = FirstPart[topic] + Cardinality(passed(r))
        /\ specs'[s][topic] = FirstPart[topic] + Cardinality(passed(s))
    BY <1>1, <1>3 DEF PartNumber
  <2> HIDE DEF passed
  <2> QED
    BY <1>3, <2>2, <2>3, CorpusAssumption
<1>5. DOMAIN specs' = Revisions' /\ \A r \in Revisions' : DOMAIN specs'[r] = Topics
  BY <1>1, <1>2
<1>6. \A r \in Revisions', topic \in MeasuredTopics : specs'[r][topic] \in Figures
  BY <1>1, <1>2 DEF MeasuredTopics
<1>7. \A r, s \in Revisions', topic \in PartTopics : r <= s => specs'[r][topic] <= specs'[s][topic]
  BY <1>2, <1>4
<1>8. \A r \in Revisions', topic \in PartTopics :
         \E generation \in 0..MaxRevisions : specs'[r][topic] = FirstPart[topic] + generation
  BY <1>2, <1>4
<1> QED
  BY <1>5, <1>6, <1>7, <1>8 DEF SpecsHold

\* The bulletin that is planned, if there is one.
LEMMA BulletinPlanned ==
    ASSUME IInv, PlanBulletin
    PROVE  bulletin' = None \/ BulletinHolds'
<1>1. CASE bulletin' = None
  BY <1>1
<1>2. CASE \E delay \in BulletinDelays, topic \in MeasuredTopics, figure \in Figures :
             /\ figure # specs[Last][topic]
             /\ bulletin' = [valid_from |-> ValidFrom(Last) + delay,
                            topic |-> topic, figure |-> figure]
  <2>1. PICK delay \in BulletinDelays, topic \in MeasuredTopics, figure \in Figures :
             /\ figure # specs[Last][topic]
             /\ bulletin' = [valid_from |-> ValidFrom(Last) + delay,
                            topic |-> topic, figure |-> figure]
    BY <1>2
  <2>2. issued' = issued /\ specs' = specs /\ issued[Last] \in Int /\ delay \in Nat /\ delay > 0
    BY CorpusAssumption DEF PlanBulletin, IInv, CalendarHolds, Last
  <2>3. /\ bulletin'.valid_from = issued[Last] + delay
        /\ bulletin'.topic = topic /\ bulletin'.figure = figure
    BY <2>1 DEF ValidFrom
  <2>4. bulletin' \in Bulletins
    BY <2>1, <2>2 DEF Bulletins, ValidFrom
  <2> QED
    BY <2>1, <2>2, <2>3, <2>4 DEF BulletinHolds, Last
<1> QED
  BY <1>1, <1>2 DEF PlanBulletin

\* The correction that is planned is of a revision that was withdrawn before the discovery.
LEMMA CorrectionPlanned ==
    ASSUME IInv, PlanCorrection
    PROVE  correction' = None \/ CorrectionHolds'
<1>1. CASE correction' = None
  BY <1>1
<1>2. CASE \E r \in 1..(Last - 1), delay \in DiscoveryDelays, topic \in MeasuredTopics, figure \in Figures :
             /\ figure # specs[r][topic]
             /\ correction' = [revision |-> r, known_from |-> DiscoveredOn(r, delay),
                              topic |-> topic, figure |-> figure]
  <2>1. PICK r \in 1..(Last - 1), delay \in DiscoveryDelays, topic \in MeasuredTopics, figure \in Figures :
             /\ figure # specs[r][topic]
             /\ correction' = [revision |-> r, known_from |-> DiscoveredOn(r, delay),
                              topic |-> topic, figure |-> figure]
    BY <1>2
  <2>2. /\ issued' = issued /\ specs' = specs /\ delay \in Nat /\ delay > 0
        /\ Last \in Nat /\ r \in Nat /\ r \in 1..Last /\ r < Last /\ r + 1 \in 1..Last
    BY CorpusAssumption DEF PlanCorrection, IInv, CalendarHolds, Last
  <2>3. issued[r + 1] \in Int /\ DiscoveredOn(r, delay) = issued[r + 1] + delay
    BY <2>2 DEF DiscoveredOn, ValidTo, IInv, CalendarHolds, Last
  <2>4. correction' \in Corrections
    BY <2>1, <2>2, <2>3 DEF Corrections
  <2>5. /\ correction'.revision = r /\ correction'.known_from = issued[r + 1] + delay
        /\ correction'.topic = topic /\ correction'.figure = figure
    BY <2>1, <2>3
  <2> QED
    BY <2>1, <2>2, <2>3, <2>4, <2>5 DEF CorrectionHolds, Revisions, Last
<1> QED
  BY <1>1, <1>2 DEF PlanCorrection

-----------------------------------------------------------------------------
(* Rendering *)

\* What is rendered of a plan does not change with the rendering.
LEMMA ManualsStay ==
    ASSUME issued' = issued, specs' = specs, correction' = correction
    PROVE  \A k : ManualsTo(k)' = ManualsTo(k)
BY DEF ManualsTo, ManualDocument, CorrectedHere, Original, ManualId, CorrectedId, ValidFrom, ValidTo,
       KnownFrom, KnownTo, Successor, FigureStated, Last

\* A revision is rendered when its own document is there.
LEMMA RenderedAre ==
    ASSUME NEW k \in Nat, documents = ManualsTo(k), NEW x
    PROVE  Rendered(x) <=> x \in 1..k
<1>1. \A r : /\ ManualDocument(r, FALSE).id = <<"man", r>>
             /\ ManualDocument(r, TRUE).id = <<"manc", r>>
  BY DEF ManualDocument, ManualId, CorrectedId
<1>2. ManualId(x) = <<"man", x>>
  BY DEF ManualId
<1>3. ASSUME Rendered(x)
      PROVE  x \in 1..k
  <2>1. PICK d \in ManualsTo(k) : d.id = <<"man", x>>
    BY <1>2, <1>3 DEF Rendered
  <2>2. CASE \E r \in 1..k : d = ManualDocument(r, FALSE)
    <3>1. PICK r \in 1..k : d = ManualDocument(r, FALSE)
      BY <2>2
    <3>2. <<"man", r>> = <<"man", x>>
      BY <1>1, <2>1, <3>1
    <3>3. <<"man", r>>[2] = r /\ <<"man", x>>[2] = x
      OBVIOUS
    <3> QED
      BY <3>2, <3>3
  <2>3. CASE \E r \in 1..k : d = ManualDocument(r, TRUE)
    <3>1. PICK r \in 1..k : d = ManualDocument(r, TRUE)
      BY <2>3
    <3>2. <<"manc", r>> = <<"man", x>>
      BY <1>1, <2>1, <3>1
    <3>3. <<"manc", r>>[1] = "manc" /\ <<"man", x>>[1] = "man"
      OBVIOUS
    <3> QED
      BY <3>2, <3>3
  <2> QED
    BY <2>1, <2>2, <2>3 DEF ManualsTo
<1>4. ASSUME x \in 1..k
      PROVE  Rendered(x)
  <2>1. ManualDocument(x, FALSE) \in documents
    BY <1>4 DEF ManualsTo
  <2> QED
    BY <1>1, <1>2, <2>1 DEF Rendered
<1> QED
  BY <1>3, <1>4

\* Rendering adds the next revision.
LEMMA RevisionRendered ==
    ASSUME IInv, NEW r \in Revisions, RenderRevision(r)
    PROVE  DocumentsHold'
<1>1. /\ stage = "render" /\ stage' = stage /\ issued' = issued /\ specs' = specs
      /\ correction' = correction /\ bulletin' = bulletin /\ ~Rendered(r)
      /\ \A earlier \in 1..(r - 1) : Rendered(earlier)
      /\ documents' = documents \union {ManualDocument(r, FALSE)}
                                \union (IF CorrectedHere(r) THEN {ManualDocument(r, TRUE)} ELSE {})
  BY DEF RenderRevision
<1>2. PICK k \in 0..Last : documents = ManualsTo(k)
  BY <1>1 DEF IInv, DocumentsHold
<1>3. Last \in Nat /\ r \in 1..Last /\ k \in Nat
  BY DEF Revisions, Last, IInv, CalendarHolds
<1>4. r = k + 1
  <2>1. r \notin 1..k
    BY <1>1, <1>2, <1>3, RenderedAre
  <2>2. ~(k + 1 \in 1..(r - 1))
    <3> SUFFICES ASSUME k + 1 \in 1..(r - 1) PROVE FALSE
      OBVIOUS
    <3>1. k + 1 \in 1..k
      BY <1>1, <1>2, <1>3, RenderedAre
    <3> QED
      BY <1>3, <3>1
  <2> QED
    BY <1>3, <2>1, <2>2
<1>5. documents' = ManualsTo(k + 1)
  <2>1. \A s : s \in 1..(k + 1) <=> s \in 1..k \/ s = r
    BY <1>3, <1>4
  <2> QED
    BY <1>1, <1>2, <2>1 DEF ManualsTo
<1>6. k + 1 \in 0..Last /\ Last' = Last
  BY <1>1, <1>3, <1>4 DEF Last
<1>7. documents' = ManualsTo(k + 1)'
  <2>1. ManualsTo(k + 1)' = ManualsTo(k + 1)
    BY <1>1, ManualsStay
  <2> QED
    BY <1>5, <2>1
<1> QED
  BY <1>1, <1>6, <1>7 DEF DocumentsHold

\* The build ends with all of them and the bulletin.
LEMMA BuildFinished ==
    ASSUME IInv, FinishBuild
    PROVE  DocumentsHold'
<1>1. /\ stage = "render" /\ stage' = "built" /\ issued' = issued /\ specs' = specs
      /\ correction' = correction /\ bulletin' = bulletin
      /\ \A r \in Revisions : Rendered(r)
      /\ documents' = documents \union Bulletin
  BY DEF FinishBuild, Bulletin
<1>2. PICK k \in 0..Last : documents = ManualsTo(k)
  BY <1>1 DEF IInv, DocumentsHold
<1>3. k = Last
  <2>1. Last \in Nat /\ Last >= 1 /\ Revisions = 1..Last /\ k \in Nat
    BY DEF Revisions, Last, IInv, CalendarHolds
  <2>2. Last \in 1..k
    BY <1>1, <1>2, <2>1, RenderedAre
  <2> QED
    BY <2>1, <2>2
<1>4. Bulletin' = Bulletin
  BY <1>1 DEF Bulletin, BulletinDocument, BulletinId
<1>5. ManualsTo(Last)' = ManualsTo(Last)
  <2>1. Last' = Last
    BY <1>1 DEF Last
  <2> QED
    BY <1>1, <2>1 DEF ManualsTo, ManualDocument, CorrectedHere, Original, ManualId, CorrectedId,
        ValidFrom, ValidTo, KnownFrom, KnownTo, Successor, FigureStated
<1> QED
  BY <1>1, <1>2, <1>3, <1>4, <1>5 DEF DocumentsHold

-----------------------------------------------------------------------------
(* The invariant *)

\* The calendar is drawn once.
LEMMA CalendarStays ==
    ASSUME CalendarHolds, DaysAreOwned(Int), issued' = issued
    PROVE  CalendarHolds' /\ DaysAreOwned(Int)'
BY DEF CalendarHolds, DaysAreOwned, OwnsDay, Revisions, Last

\* So are the plans.
LEMMA PlansStay ==
    ASSUME issued' = issued, specs' = specs
    PROVE  /\ SpecsHold => SpecsHold'
           /\ bulletin' = bulletin /\ BulletinHolds => BulletinHolds'
           /\ correction' = correction /\ CorrectionHolds => CorrectionHolds'
BY DEF SpecsHold, BulletinHolds, CorrectionHolds, Revisions, Last

\* Every step of the build, the questions' included.
LEMMA BuildIsKept ==
    ASSUME IInv, [QuestionsNext]_qvars
    PROVE  IInv'
<1> USE DEF IInv
<1>1. CASE IssueRevision
  <2>1. CalendarHolds' /\ DaysAreOwned(Int)'
    BY <1>1, RevisionIssued
  <2>2. /\ stage = "revisions" /\ stage' = stage /\ bulletin' = bulletin
        /\ correction' = correction /\ documents' = documents
    BY <1>1 DEF IssueRevision
  <2>3. PlansHold'
    BY <2>2 DEF PlansHold
  <2>4. DocumentsHold'
    BY <2>2 DEF DocumentsHold
  <2> QED
    BY <2>1, <2>3, <2>4
<1>2. CASE PlanSpecs
  <2>1. /\ stage = "revisions" /\ stage' = "bulletin" /\ bulletin' = bulletin
        /\ correction' = correction /\ documents' = documents /\ issued' = issued
    BY <1>2 DEF PlanSpecs
  <2>2. SpecsHold'
    BY <1>2, SpecsPlanned
  <2>3. PlansHold'
    BY <2>1, <2>2 DEF PlansHold
  <2>4. DocumentsHold'
    BY <2>1 DEF DocumentsHold
  <2> QED
    BY <2>1, <2>3, <2>4, CalendarStays
<1>3. CASE PlanBulletin
  <2>1. /\ stage = "bulletin" /\ stage' = "correction" /\ correction' = correction
        /\ documents' = documents /\ issued' = issued /\ specs' = specs
    BY <1>3 DEF PlanBulletin
  <2>2. bulletin' = None \/ BulletinHolds'
    BY <1>3, BulletinPlanned
  <2>3. PlansHold'
    BY <2>1, <2>2, PlansStay DEF PlansHold
  <2>4. DocumentsHold'
    BY <2>1 DEF DocumentsHold
  <2> QED
    BY <2>1, <2>3, <2>4, CalendarStays
<1>4. CASE PlanCorrection
  <2>1. /\ stage = "correction" /\ stage' = "render" /\ bulletin' = bulletin
        /\ documents' = documents /\ issued' = issued /\ specs' = specs
    BY <1>4 DEF PlanCorrection
  <2>2. correction' = None \/ CorrectionHolds'
    BY <1>4, CorrectionPlanned
  <2>3. PlansHold'
    BY <2>1, <2>2, PlansStay DEF PlansHold
  <2>4. DocumentsHold'
    <3>1. 0 \in 0..Last' /\ documents' = {}
      BY <2>1 DEF DocumentsHold, CalendarHolds, Last
    <3>2. ManualsTo(0)' = {}
      BY DEF ManualsTo
    <3> QED
      BY <2>1, <3>1, <3>2 DEF DocumentsHold
  <2> QED
    BY <2>1, <2>3, <2>4, CalendarStays
<1>5. ASSUME NEW r \in Revisions, RenderRevision(r)
      PROVE  IInv'
  <2>1. /\ stage = "render" /\ stage' = stage /\ issued' = issued /\ specs' = specs
        /\ correction' = correction /\ bulletin' = bulletin
    BY <1>5 DEF RenderRevision
  <2>2. PlansHold'
    BY <2>1, PlansStay DEF PlansHold
  <2> QED
    BY <1>5, <2>1, <2>2, CalendarStays, RevisionRendered
<1>6. CASE FinishBuild
  <2>1. /\ stage = "render" /\ stage' = "built" /\ issued' = issued /\ specs' = specs
        /\ correction' = correction /\ bulletin' = bulletin
    BY <1>6 DEF FinishBuild
  <2>2. PlansHold'
    BY <2>1, PlansStay DEF PlansHold
  <2> QED
    BY <1>6, <2>1, <2>2, CalendarStays, BuildFinished
<1>7. CASE BuildQuestions \/ UNCHANGED vars
  <2>1. /\ stage' = stage \/ (stage = "built" /\ stage' = "asked")
        /\ issued' = issued /\ specs' = specs
        /\ correction' = correction /\ bulletin' = bulletin /\ documents' = documents
    BY <1>7 DEF BuildQuestions, vars
  <2>2. PlansHold'
    BY <2>1, PlansStay DEF PlansHold
  <2>3. Last' = Last /\ Bulletin' = Bulletin
    BY <2>1 DEF Last, Bulletin, BulletinDocument, BulletinId
  <2>4. \A k : ManualsTo(k)' = ManualsTo(k)
    BY <2>1, ManualsStay
  <2>5. ManualsTo(Last)' = ManualsTo(Last)
    BY <2>1, <2>3 DEF ManualsTo, ManualDocument, CorrectedHere, Original, ManualId, CorrectedId,
        ValidFrom, ValidTo, KnownFrom, KnownTo, Successor, FigureStated
  <2>6. DocumentsHold'
    BY <2>1, <2>3, <2>4, <2>5 DEF DocumentsHold
  <2> QED
    BY <2>1, <2>2, <2>6, CalendarStays
<1> QED
  BY <1>1, <1>2, <1>3, <1>4, <1>5, <1>6, <1>7 DEF QuestionsNext, Next, qvars

\* One revision is on issue when planning begins.
LEMMA Initially == Init => IInv
<1> SUFFICES ASSUME Init PROVE IInv
  OBVIOUS
<1>1. issued = <<Launch>> /\ Last = 1 /\ Revisions = {1} /\ Launch \in Int
  BY CorpusAssumption DEF Init, Last, Revisions
<1>2. CalendarHolds
  <2>1. 1 \in 1..MaxRevisions
    BY CorpusAssumption
  <2> QED
    BY <1>1, <2>1 DEF CalendarHolds, Last
<1>3. DaysAreOwned(Int)
  BY <1>1 DEF DaysAreOwned, OwnsDay
<1>4. PlansHold /\ DocumentsHold
  BY DEF Init, PlansHold, DocumentsHold
<1> QED
  BY <1>2, <1>3, <1>4 DEF IInv

\* So it holds throughout.
LEMMA Invariance == QuestionsSpec => []IInv
<1>1. QuestionsInit => IInv
  BY Initially DEF QuestionsInit
<1> QED
  BY <1>1, BuildIsKept, PTL DEF QuestionsSpec

-----------------------------------------------------------------------------
(* Which document is believed *)

\* Both axes of a document of the manual.
LEMMA ManualFields ==
    ASSUME NEW r
    PROVE  /\ ManualDocument(r, FALSE).id = <<"man", r>> /\ ManualDocument(r, TRUE).id = <<"manc", r>>
           /\ \A c \in BOOLEAN :
                /\ ManualDocument(r, c).revision = r
                /\ ManualDocument(r, c).valid_from = issued[r]
                /\ ManualDocument(r, c).valid_to = IF r < Last THEN issued[r + 1] ELSE None
                /\ ManualDocument(r, c).superseded_by = IF r < Last THEN <<"man", r + 1>> ELSE None
                /\ ManualDocument(r, c).states = [topic \in Topics |-> FigureStated(r, c, topic)]
           /\ ManualDocument(r, TRUE).known_from = correction.known_from
           /\ ManualDocument(r, TRUE).known_to = None /\ ManualDocument(r, TRUE).corrected_by = None
           /\ ManualDocument(r, FALSE).known_from = issued[r]
           /\ ManualDocument(r, FALSE).known_to = IF CorrectedHere(r) THEN correction.known_from ELSE None
           /\ ManualDocument(r, FALSE).corrected_by = IF CorrectedHere(r) THEN <<"manc", r>> ELSE None
<1>1. /\ ManualDocument(r, FALSE).id = <<"man", r>> /\ ManualDocument(r, TRUE).id = <<"manc", r>>
  BY DEF ManualDocument, ManualId, CorrectedId
<1>2. ASSUME NEW c \in BOOLEAN
      PROVE  /\ ManualDocument(r, c).revision = r
             /\ ManualDocument(r, c).valid_from = issued[r]
             /\ ManualDocument(r, c).valid_to = IF r < Last THEN issued[r + 1] ELSE None
             /\ ManualDocument(r, c).superseded_by = IF r < Last THEN <<"man", r + 1>> ELSE None
             /\ ManualDocument(r, c).states = [topic \in Topics |-> FigureStated(r, c, topic)]
  BY DEF ManualDocument, ValidFrom, ValidTo, Successor, ManualId
<1>3. /\ ManualDocument(r, TRUE).known_from = correction.known_from
      /\ ManualDocument(r, TRUE).known_to = None /\ ManualDocument(r, TRUE).corrected_by = None
  BY DEF ManualDocument, KnownFrom, KnownTo, Original
<1>4. /\ ManualDocument(r, FALSE).known_from = issued[r]
      /\ ManualDocument(r, FALSE).known_to = IF CorrectedHere(r) THEN correction.known_from ELSE None
      /\ ManualDocument(r, FALSE).corrected_by = IF CorrectedHere(r) THEN <<"manc", r>> ELSE None
  BY DEF ManualDocument, KnownFrom, KnownTo, Original, ValidFrom, CorrectedId
<1> QED
  BY <1>1, <1>2, <1>3, <1>4

\* What it states of a topic.
LEMMA StatesOf ==
    ASSUME NEW r, NEW topic \in Topics
    PROVE  /\ ManualDocument(r, FALSE).states[topic] = FigureStated(r, FALSE, topic)
           /\ ManualDocument(r, TRUE).states[topic] = FigureStated(r, TRUE, topic)
<1>1. ManualDocument(r, FALSE).states = [t \in Topics |-> FigureStated(r, FALSE, t)]
  BY DEF ManualDocument
<1>2. ManualDocument(r, TRUE).states = [t \in Topics |-> FigureStated(r, TRUE, t)]
  BY DEF ManualDocument
<1> QED
  BY <1>1, <1>2

\* The calendar, in numbers.
LEMMA Calendar ==
    ASSUME IInv
    PROVE  /\ Last \in Nat /\ Last >= 1 /\ Revisions = 1..Last /\ issued[1] = Launch
           /\ \A r \in Revisions : r \in Int /\ issued[r] \in Int /\ issued[r] # None
           /\ \A r \in Revisions : r < Last => r + 1 \in Revisions /\ issued[r] < issued[r + 1]
           /\ \A r, s \in Revisions : r <= s => issued[r] <= issued[s]
<1>1. /\ Last \in Nat /\ Last >= 1 /\ Revisions = 1..Last /\ issued[1] = Launch
      /\ \A r \in Revisions : r \in Int /\ issued[r] \in Int
  BY DEF IInv, CalendarHolds, Revisions, Last
<1>2. \A r, s \in Revisions : r < s => issued[r] < issued[s]
  BY DEF IInv, CalendarHolds
<1>3. \A r, s \in Revisions : r <= s => issued[r] <= issued[s]
  <2> SUFFICES ASSUME NEW r \in Revisions, NEW s \in Revisions, r <= s
               PROVE  issued[r] <= issued[s]
    OBVIOUS
  <2>1. CASE r = s
    BY <1>1, <2>1
  <2>2. CASE r # s
    BY <1>1, <1>2, <2>2
  <2> QED
    BY <2>1, <2>2
<1>4. \A r \in Revisions : r < Last => r + 1 \in Revisions /\ issued[r] < issued[r + 1]
  <2> SUFFICES ASSUME NEW r \in Revisions, r < Last
               PROVE  r + 1 \in Revisions /\ issued[r] < issued[r + 1]
    OBVIOUS
  <2>1. r + 1 \in Revisions /\ r < r + 1
    BY <1>1
  <2> QED
    BY <1>2, <2>1
<1> QED
  BY <1>1, <1>3, <1>4, NoneAssumption

\* A correction is known from a day after the handover that ended the revision.
LEMMA CorrectionFacts ==
    ASSUME IInv, NEW r, CorrectedHere(r)
    PROVE  /\ correction # None /\ CorrectionHolds /\ correction.revision = r
           /\ r \in Revisions /\ r < Last
           /\ correction.known_from \in Int /\ correction.known_from # None
           /\ issued[r] < issued[r + 1] /\ issued[r + 1] < correction.known_from
<1>1. correction # None /\ CorrectionHolds /\ correction.revision = r
  BY DEF IInv, PlansHold, CorrectedHere
<1>2. correction.known_from \in Int /\ r \in Revisions /\ r < Last
      /\ correction.known_from > issued[r + 1]
  BY <1>1 DEF CorrectionHolds, Corrections
<1>3. r + 1 \in Revisions /\ issued[r] < issued[r + 1] /\ issued[r + 1] \in Int
  BY <1>2, Calendar
<1> QED
  BY <1>1, <1>2, <1>3, NoneAssumption

\* No day falls to two revisions.
LEMMA OneOwner ==
    ASSUME IInv, NEW r \in Revisions, NEW s \in Revisions, NEW day \in Int,
           OwnsDay(r, day), OwnsDay(s, day)
    PROVE  r = s
<1>1. /\ r \in Int /\ s \in Int /\ Last \in Int /\ r <= Last /\ s <= Last
      /\ issued[r] \in Int /\ issued[s] \in Int
      /\ issued[r] <= day /\ issued[s] <= day
      /\ r < Last => r + 1 \in Revisions /\ day < issued[r + 1]
      /\ s < Last => s + 1 \in Revisions /\ day < issued[s + 1]
  BY Calendar DEF OwnsDay
<1>2. ASSUME r < s PROVE FALSE
  <2>1. r < Last /\ r + 1 <= s /\ r + 1 \in Revisions /\ day < issued[r + 1]
    BY <1>1, <1>2
  <2>2. issued[r + 1] <= issued[s] /\ issued[r + 1] \in Int
    BY <2>1, Calendar
  <2> QED
    BY <1>1, <2>1, <2>2
<1>3. ASSUME s < r PROVE FALSE
  <2>1. s < Last /\ s + 1 <= r /\ s + 1 \in Revisions /\ day < issued[s + 1]
    BY <1>1, <1>3
  <2>2. issued[s + 1] <= issued[r] /\ issued[s + 1] \in Int
    BY <2>1, Calendar
  <2> QED
    BY <1>1, <2>1, <2>2
<1> QED
  BY <1>1, <1>2, <1>3

\* A document of the manual is in force on the days of its revision.
LEMMA InForceIsOwner ==
    ASSUME IInv, NEW r \in Revisions, NEW c \in BOOLEAN, NEW day \in Int
    PROVE  InForceOn(ManualDocument(r, c), day) <=> OwnsDay(r, day)
<1>1. /\ ManualDocument(r, c).valid_from = issued[r]
      /\ ManualDocument(r, c).valid_to = IF r < Last THEN issued[r + 1] ELSE None
  BY ManualFields
<1>2. r < Last => issued[r + 1] # None
  BY Calendar
<1> QED
  BY <1>1, <1>2 DEF InForceOn, OwnsDay

\* The document of a revision that is believed at a date, or now.
Believed(r, known) ==
    IF CorrectedHere(r) /\ (known = None \/ correction.known_from <= known)
      THEN ManualDocument(r, TRUE) ELSE ManualDocument(r, FALSE)

\* Of a revision's two documents one is known at any date after its issue.
LEMMA KnownIsBelieved ==
    ASSUME IInv, NEW r \in Revisions, NEW c \in BOOLEAN, c => CorrectedHere(r),
           NEW known \in OptInt
    PROVE  KnownOn(ManualDocument(r, c), known)
             <=> ManualDocument(r, c) = Believed(r, known) /\ (known = None \/ issued[r] <= known)
<1>1. ManualDocument(r, TRUE) # ManualDocument(r, FALSE)
  <2>1. <<"man", r>>[1] # <<"manc", r>>[1]
    OBVIOUS
  <2>2. ManualDocument(r, FALSE).id = <<"man", r>> /\ ManualDocument(r, TRUE).id = <<"manc", r>>
    BY ManualFields
  <2>3. <<"man", r>> # <<"manc", r>>
    BY <2>1
  <2> QED
    BY <2>2, <2>3
<1>2. issued[r] \in Int
  BY Calendar
<1>3. CASE CorrectedHere(r) /\ c = TRUE
  <2>1. /\ ManualDocument(r, TRUE).known_from = correction.known_from
        /\ ManualDocument(r, TRUE).known_to = None
    BY ManualFields
  <2>2. correction.known_from \in Int /\ issued[r] < correction.known_from
    <3>1. issued[r + 1] \in Int
      BY <1>3, CorrectionFacts, Calendar
    <3> QED
      BY <1>2, <1>3, <3>1, CorrectionFacts
  <2>3. ManualDocument(r, c) = ManualDocument(r, TRUE)
    BY <1>3
  <2>4. KnownOn(ManualDocument(r, TRUE), known)
          <=> known = None \/ correction.known_from <= known
    BY <2>1 DEF KnownOn
  <2>5. Believed(r, known) = ManualDocument(r, TRUE)
          <=> known = None \/ correction.known_from <= known
    BY <1>1, <1>3 DEF Believed
  <2>6. known # None => known \in Int
    BY DEF OptInt
  <2>7. CASE known = None
    BY <2>3, <2>4, <2>5, <2>7
  <2>8. CASE known # None
    <3>1. known \in Int
      BY <2>6, <2>8
    <3>2. correction.known_from <= known => issued[r] <= known
      BY <1>2, <2>2, <3>1
    <3>3. ~(correction.known_from <= known) <=> known < correction.known_from
      BY <2>2, <3>1
    <3> QED
      BY <2>3, <2>4, <2>5, <2>8, <3>2, <3>3, Zenon
  <2> QED
    BY <2>7, <2>8
<1>4. CASE CorrectedHere(r) /\ c = FALSE
  <2>1. /\ ManualDocument(r, FALSE).known_from = issued[r]
        /\ ManualDocument(r, FALSE).known_to = correction.known_from
    BY <1>4, ManualFields
  <2>2. correction.known_from \in Int /\ correction.known_from # None
    BY <1>4, CorrectionFacts
  <2>3. ManualDocument(r, c) = ManualDocument(r, FALSE)
    BY <1>4
  <2>4. KnownOn(ManualDocument(r, FALSE), known)
          <=> known # None /\ issued[r] <= known /\ known < correction.known_from
    BY <2>1, <2>2 DEF KnownOn
  <2>5. Believed(r, known) = ManualDocument(r, FALSE)
          <=> ~(known = None \/ correction.known_from <= known)
    BY <1>1, <1>4 DEF Believed
  <2>6. known # None => known \in Int
    BY DEF OptInt
  <2>7. CASE known = None
    BY <2>3, <2>4, <2>5, <2>7
  <2>8. CASE known # None
    <3>1. known \in Int
      BY <2>6, <2>8
    <3>2. ~(correction.known_from <= known) <=> known < correction.known_from
      BY <2>2, <3>1
    <3> QED
      BY <2>3, <2>4, <2>5, <2>8, <3>2, Zenon
  <2> QED
    BY <2>7, <2>8
<1>5. CASE ~CorrectedHere(r)
  <2>1. /\ ManualDocument(r, FALSE).known_from = issued[r]
        /\ ManualDocument(r, FALSE).known_to = None
    BY <1>5, ManualFields
  <2>2. c = FALSE
    BY <1>5
  <2> QED
    BY <1>2, <1>5, <2>1, <2>2 DEF KnownOn, Believed, OptInt
<1> QED
  BY <1>3, <1>4, <1>5

\* So on a day one document of the manual is visible, or none if it was not issued yet.
LEMMA VisibleManual ==
    ASSUME IInv, NEW r \in Revisions, NEW day \in Int, OwnsDay(r, day), NEW known \in OptInt
    PROVE  /\ Believed(r, known) \in ManualsTo(Last)
           /\ \A d \in ManualsTo(Last) :
                VisibleAt(d, day, known)
                  <=> d = Believed(r, known) /\ (known = None \/ issued[r] <= known)
<1>1. Revisions = 1..Last
  BY Calendar
<1>2. Believed(r, known) \in ManualsTo(Last)
  BY <1>1 DEF Believed, ManualsTo
<1>3. ASSUME NEW s \in Revisions, NEW c \in BOOLEAN, c => CorrectedHere(s)
      PROVE  VisibleAt(ManualDocument(s, c), day, known)
               <=> /\ ManualDocument(s, c) = Believed(r, known)
                   /\ known = None \/ issued[r] <= known
  <2>1. CASE s = r
    BY <1>3, <2>1, InForceIsOwner, KnownIsBelieved DEF VisibleAt
  <2>2. CASE s # r
    <3>1. ~VisibleAt(ManualDocument(s, c), day, known)
      BY <2>2, InForceIsOwner, OneOwner DEF VisibleAt
    <3>2. ManualDocument(s, c).revision = s /\ Believed(r, known).revision = r
      BY ManualFields DEF Believed
    <3> QED
      BY <2>2, <3>1, <3>2
  <2> QED
    BY <2>1, <2>2
<1>4. ASSUME NEW d \in ManualsTo(Last)
      PROVE  \E s \in Revisions, c \in BOOLEAN : d = ManualDocument(s, c) /\ (c => CorrectedHere(s))
  BY <1>1, <1>4 DEF ManualsTo
<1> QED
  BY <1>2, <1>3, <1>4

\* Nothing of the manual is visible before the launch.
LEMMA NothingBeforeLaunch ==
    ASSUME IInv, NEW d \in ManualsTo(Last), NEW day \in Int, NEW known, VisibleAt(d, day, known)
    PROVE  day >= Launch
<1>1. Revisions = 1..Last
  BY Calendar
<1>2. PICK s \in Revisions, c \in BOOLEAN : d = ManualDocument(s, c)
  BY <1>1 DEF ManualsTo
<1>3. issued[s] <= day
  BY <1>2, InForceIsOwner DEF VisibleAt, OwnsDay
<1>4. 1 \in Revisions /\ 1 <= s /\ issued[1] = Launch
  BY <1>1, Calendar
<1>5. issued[1] <= issued[s] /\ issued[1] \in Int /\ issued[s] \in Int
  BY <1>4, Calendar
<1> QED
  BY <1>3, <1>4, <1>5

\* The bulletin is visible from its day on, and only the last revision's days are left then.
LEMMA VisibleBulletin ==
    ASSUME IInv, bulletin # None, NEW day \in Int
    PROVE  /\ VisibleAt(BulletinDocument, day, None) <=> bulletin.valid_from <= day
           /\ bulletin.valid_from <= day => OwnsDay(Last, day)
           /\ bulletin.valid_from \in Int /\ bulletin.topic \in MeasuredTopics
           /\ issued[Last] < bulletin.valid_from
           /\ bulletin.figure # specs[Last][bulletin.topic]
           /\ BulletinDocument.id = BulletinId
           /\ BulletinDocument.states = [topic \in {bulletin.topic} |-> bulletin.figure]
<1>1. BulletinHolds
  BY DEF IInv, PlansHold
<1>2. /\ bulletin.valid_from \in Int /\ bulletin.topic \in MeasuredTopics
      /\ issued[Last] < bulletin.valid_from /\ bulletin.figure # specs[Last][bulletin.topic]
  <2>1. issued[Last] \in Int
    BY Calendar
  <2> QED
    BY <1>1, <2>1 DEF BulletinHolds, Bulletins
<1>3. /\ BulletinDocument.valid_from = bulletin.valid_from /\ BulletinDocument.valid_to = None
      /\ BulletinDocument.known_to = None /\ BulletinDocument.id = BulletinId
      /\ BulletinDocument.states = [topic \in {bulletin.topic} |-> bulletin.figure]
  BY DEF BulletinDocument
<1>4. VisibleAt(BulletinDocument, day, None) <=> bulletin.valid_from <= day
  BY <1>3 DEF VisibleAt, InForceOn, KnownOn
<1>5. bulletin.valid_from <= day => OwnsDay(Last, day)
  <2>1. issued[Last] \in Int /\ Last \in Int
    BY Calendar
  <2> QED
    BY <1>2, <2>1 DEF OwnsDay
<1> QED
  BY <1>2, <1>3, <1>4, <1>5

\* A document of the manual is not the bulletin.
LEMMA ManualIsNotBulletin ==
    ASSUME NEW k, NEW d \in ManualsTo(k)
    PROVE  d.id # BulletinId
<1>1. PICK r \in 1..k, c \in BOOLEAN : d = ManualDocument(r, c)
  BY DEF ManualsTo
<1>2. d.id = <<"man", r>> \/ d.id = <<"manc", r>>
  BY <1>1, ManualFields
<1>3. <<"man", r>>[1] # "bul" /\ <<"manc", r>>[1] # "bul" /\ BulletinId[1] = "bul"
  BY DEF BulletinId
<1> QED
  BY <1>2, <1>3

-----------------------------------------------------------------------------
(* What the corpus promises *)

Complete == stage \in {"built", "asked"}

\* Every document is of the manual, or the bulletin.
LEMMA DocumentsAre ==
    ASSUME IInv, NEW d \in documents
    PROVE  d \in ManualsTo(Last) \/ (bulletin # None /\ d = BulletinDocument)
<1>1. CASE stage = "render"
  <2>1. PICK k \in 0..Last : documents = ManualsTo(k)
    BY <1>1 DEF IInv, DocumentsHold
  <2>2. Last \in Nat /\ \A r : r \in 1..k => r \in 1..Last
    BY Calendar
  <2> QED
    BY <2>1, <2>2 DEF ManualsTo
<1>2. CASE stage \in {"built", "asked"}
  BY <1>2 DEF IInv, DocumentsHold, Bulletin
<1> QED
  BY <1>1, <1>2 DEF IInv, PlansHold, DocumentsHold

\* The dates of a document, and the edges that say by what it ended.
LEMMA DocumentTypes ==
    ASSUME IInv, NEW d \in documents
    PROVE  /\ d.valid_from \in Int /\ d.valid_to \in OptInt
           /\ d.known_from \in Int /\ d.known_to \in OptInt
           /\ d.superseded_by = None <=> d.valid_to = None
           /\ d.corrected_by = None <=> d.known_to = None
<1>1. CASE d \in ManualsTo(Last)
  <2>1. PICK r \in Revisions, c \in BOOLEAN : d = ManualDocument(r, c) /\ (c => CorrectedHere(r))
    BY <1>1, Calendar DEF ManualsTo
  <2>2. /\ d.valid_from = issued[r]
        /\ d.valid_to = IF r < Last THEN issued[r + 1] ELSE None
        /\ d.superseded_by = IF r < Last THEN <<"man", r + 1>> ELSE None
    BY <2>1, ManualFields
  <2>3. /\ issued[r] \in Int /\ r \in Nat
        /\ r < Last => r + 1 \in Revisions /\ issued[r + 1] \in Int /\ issued[r + 1] # None
    BY Calendar
  <2>4. <<"man", r + 1>> # None /\ <<"manc", r>> # None
    <3>1. <<"man", r + 1>> \in Identifiers /\ <<"manc", r>> \in Identifiers
      BY <2>3 DEF Identifiers
    <3> QED
      BY <3>1, NothingPlannedAssumption
  <2>5. /\ d.valid_from \in Int /\ d.valid_to \in OptInt
        /\ d.superseded_by = None <=> d.valid_to = None
    BY <2>2, <2>3, <2>4 DEF OptInt
  <2>6. CASE c = TRUE
    <3>1. /\ d.known_from = correction.known_from /\ d.known_to = None /\ d.corrected_by = None
      BY <2>1, <2>6, ManualFields
    <3> QED
      BY <2>1, <2>5, <2>6, <3>1, CorrectionFacts DEF OptInt
  <2>7. CASE c = FALSE
    <3>1. /\ d.known_from = issued[r]
          /\ d.known_to = IF CorrectedHere(r) THEN correction.known_from ELSE None
          /\ d.corrected_by = IF CorrectedHere(r) THEN <<"manc", r>> ELSE None
      BY <2>1, <2>7, ManualFields
    <3>2. CorrectedHere(r) => correction.known_from \in Int /\ correction.known_from # None
      BY CorrectionFacts
    <3> QED
      BY <2>3, <2>4, <2>5, <3>1, <3>2 DEF OptInt
  <2> QED
    BY <2>6, <2>7
<1>2. CASE bulletin # None /\ d = BulletinDocument
  <2>1. bulletin.valid_from \in Int
    BY <1>2, VisibleBulletin
  <2> QED
    BY <1>2, <2>1 DEF BulletinDocument, OptInt
<1> QED
  BY <1>1, <1>2, DocumentsAre

\* So the moments at which an answer can change are days.
LEMMA MomentsAreDays ==
    ASSUME IInv
    PROVE  Moments \subseteq Int
<1>1. Days \subseteq Int
  BY DocumentTypes DEF Days
<1> QED
  <2> SUFFICES ASSUME NEW m \in Moments PROVE m \in Int
    OBVIOUS
  <2>1. CASE m \in Days
    BY <1>1, <2>1
  <2>2. CASE m \in {day - 1 : day \in Days}
    <3>1. PICK day \in Days : m = day - 1
      BY <2>2
    <3>2. day \in Int
      BY <1>1
    <3> QED
      BY <3>1, <3>2
  <2> QED
    BY <2>1, <2>2 DEF Moments

\* On a day of a revision a topic has one manual document, the one that is believed.
LEMMA BelievedManual ==
    ASSUME IInv, Complete, NEW topic \in Topics, NEW r \in Revisions, NEW day \in Int,
           OwnsDay(r, day), NEW known \in OptInt
    PROVE  Manuals(Visible(topic, day, known))
             = IF known = None \/ issued[r] <= known THEN {Believed(r, known)} ELSE {}
<1>1. documents = ManualsTo(Last) \union Bulletin
  BY DEF IInv, DocumentsHold, Complete
<1>2. \A d \in ManualsTo(Last) :
         /\ d.id # BulletinId /\ topic \in DOMAIN d.states
         /\ VisibleAt(d, day, known) <=> d = Believed(r, known) /\ (known = None \/ issued[r] <= known)
  <2> SUFFICES ASSUME NEW d \in ManualsTo(Last)
               PROVE  d.id # BulletinId /\ topic \in DOMAIN d.states
    BY VisibleManual
  <2>1. PICK s \in 1..Last, c \in BOOLEAN : d = ManualDocument(s, c)
    BY DEF ManualsTo
  <2>2. d.states = [t \in Topics |-> FigureStated(s, c, t)]
    BY <2>1, ManualFields
  <2> QED
    BY <2>2, ManualIsNotBulletin
<1>3. \A d \in Bulletin : d.id = BulletinId
  BY DEF Bulletin, BulletinDocument
<1>4. Believed(r, known) \in ManualsTo(Last)
  BY VisibleManual
<1> QED
  BY <1>1, <1>2, <1>3, <1>4 DEF Manuals, Visible

\* Every day from the launch on has its revision.
LEMMA DayHasRevision ==
    ASSUME IInv, NEW day \in Int, day >= Launch
    PROVE  InForce(day) \in Revisions /\ OwnsDay(InForce(day), day)
<1>1. PICK r \in Revisions : OwnsDay(r, day)
  BY DEF IInv, DaysAreOwned
<1> QED
  BY <1>1 DEF InForce, OwnsDay

\* Whatever date is asked about and with whatever knowledge, a topic has one manual document from
\* the launch on, or none before its revision was issued.
THEOREM OneManual == QuestionsSpec => []OneManualBelieved
<1>1. IInv => OneManualBelieved
  <2> SUFFICES ASSUME IInv, Built, NEW topic \in Topics, NEW as_of \in Moments, as_of >= Launch
               PROVE  /\ Cardinality(Manuals(Visible(topic, as_of, None))) = 1
                      /\ \A known \in Moments :
                           Cardinality(Manuals(Visible(topic, as_of, known)))
                             = IF known >= issued[InForce(as_of)] THEN 1 ELSE 0
    BY DEF OneManualBelieved
  <2>1. as_of \in Int /\ Complete
    BY MomentsAreDays DEF Built, Complete
  <2> DEFINE r == InForce(as_of)
  <2>2. r \in Revisions /\ OwnsDay(r, as_of) /\ issued[r] \in Int
    BY <2>1, DayHasRevision, Calendar
  <2> HIDE DEF r
  <2>3. Manuals(Visible(topic, as_of, None)) = {Believed(r, None)}
    BY <2>1, <2>2, BelievedManual DEF OptInt
  <2>4. ASSUME NEW known \in Moments
        PROVE  Cardinality(Manuals(Visible(topic, as_of, known)))
                 = IF known >= issued[r] THEN 1 ELSE 0
    <3>1. known \in Int /\ known # None
      BY MomentsAreDays, NoneAssumption
    <3>2. Manuals(Visible(topic, as_of, known))
            = IF issued[r] <= known THEN {Believed(r, known)} ELSE {}
      BY <2>1, <2>2, <3>1, BelievedManual DEF OptInt
    <3>3. issued[r] <= known <=> known >= issued[r]
      BY <2>2, <3>1
    <3> QED
      BY <3>2, <3>3, FS_EmptySet, FS_Singleton
  <2>5. Cardinality({Believed(r, None)}) = 1
    BY FS_Singleton
  <2> QED
    BY <2>3, <2>4, <2>5 DEF r
<1> QED
  BY <1>1, Invariance, PTL

\* What is believed of a corrected revision, before the discovery and after it.
LEMMA HistoryKept ==
    ASSUME IInv, Complete, correction # None
    PROVE  LET r == correction.revision
               figures(topic, known) == {d.states[topic] : d \in Manuals(Visible(topic, issued[r], known))}
           IN  \A topic \in Topics, known \in {correction.known_from - 1, correction.known_from, None} :
                 figures(topic, known)
                   = {IF topic = correction.topic /\ known # correction.known_from - 1
                        THEN correction.figure ELSE specs[r][topic]}
<1> DEFINE r == correction.revision
           figures(topic, known) == {d.states[topic] : d \in Manuals(Visible(topic, issued[r], known))}
<1>1. CorrectedHere(r)
  BY DEF CorrectedHere
<1>2. /\ r \in Revisions /\ r < Last /\ correction.known_from \in Int
      /\ issued[r] \in Int /\ issued[r + 1] \in Int
      /\ issued[r] < issued[r + 1] /\ issued[r + 1] < correction.known_from
  BY <1>1, CorrectionFacts, Calendar
<1>3. OwnsDay(r, issued[r])
  BY <1>2 DEF OwnsDay
<1> SUFFICES ASSUME NEW topic \in Topics,
                    NEW known \in {correction.known_from - 1, correction.known_from, None}
             PROVE  figures(topic, known)
                      = {IF topic = correction.topic /\ known # correction.known_from - 1
                           THEN correction.figure ELSE specs[r][topic]}
  OBVIOUS
<1> HIDE DEF r
<1>4. known \in OptInt /\ (known = None \/ issued[r] <= known)
  BY <1>2 DEF OptInt
<1>5. Manuals(Visible(topic, issued[r], known)) = {Believed(r, known)}
  BY <1>2, <1>3, <1>4, BelievedManual
<1>6. Believed(r, known) = ManualDocument(r, IF known = correction.known_from - 1 THEN FALSE ELSE TRUE)
  <2>1. CASE known = correction.known_from - 1
    <3>1. known # None /\ ~(correction.known_from <= known)
      BY <1>2, <2>1, NoneAssumption
    <3> QED
      BY <2>1, <3>1 DEF Believed
  <2>2. CASE known # correction.known_from - 1
    <3>1. known = None \/ correction.known_from <= known
      BY <1>2, <2>2
    <3> QED
      BY <1>1, <2>2, <3>1 DEF Believed, r
  <2> QED
    BY <2>1, <2>2
<1>7. Believed(r, known).states[topic]
        = IF topic = correction.topic /\ known # correction.known_from - 1
            THEN correction.figure ELSE specs[r][topic]
  <2>1. CASE known = correction.known_from - 1
    <3>1. ManualDocument(r, FALSE).states[topic] = FigureStated(r, FALSE, topic)
      BY StatesOf
    <3> QED
      BY <1>6, <2>1, <3>1 DEF FigureStated
  <2>2. CASE known # correction.known_from - 1
    <3>1. ManualDocument(r, TRUE).states[topic] = FigureStated(r, TRUE, topic)
      BY StatesOf
    <3> QED
      BY <1>6, <2>2, <3>1 DEF FigureStated
  <2> QED
    BY <2>1, <2>2
<1> QED
  BY <1>5, <1>7

\* A correction does not rewrite what was published before it was found.
THEOREM HistoryIsKept == QuestionsSpec => []CorrectionKeepsHistory
<1>1. IInv => CorrectionKeepsHistory
  <2> SUFFICES ASSUME IInv, Built, correction # None
               PROVE  CorrectionKeepsHistory
    BY DEF CorrectionKeepsHistory
  <2> DEFINE r == correction.revision
             figures(topic, known) == {d.states[topic] : d \in Manuals(Visible(topic, issued[r], known))}
  <2>1. Complete
    BY DEF Built, Complete
  <2>2. /\ CorrectionHolds /\ correction.topic \in Topics /\ correction.known_from \in Int
        /\ correction.figure # specs[r][correction.topic]
    BY DEF IInv, PlansHold, CorrectionHolds, Corrections, MeasuredTopics
  <2>3. /\ correction.known_from - 1 # correction.known_from
        /\ None # correction.known_from - 1
    BY <2>2, NoneAssumption
  <2>4. \A topic \in Topics, known \in {correction.known_from - 1, correction.known_from, None} :
           figures(topic, known)
             = {IF topic = correction.topic /\ known # correction.known_from - 1
                  THEN correction.figure ELSE specs[r][topic]}
    BY <2>1, HistoryKept
  <2> HIDE DEF figures
  <2>5. /\ figures(correction.topic, correction.known_from - 1) = {specs[r][correction.topic]}
        /\ figures(correction.topic, correction.known_from) = {correction.figure}
        /\ figures(correction.topic, None) = {correction.figure}
        /\ \A topic \in Topics \ {correction.topic} :
             figures(topic, None) = figures(topic, correction.known_from - 1)
    BY <2>2, <2>3, <2>4
  <2> QED
    BY <2>2, <2>5 DEF CorrectionKeepsHistory, figures, ValidFrom
<1> QED
  BY <1>1, Invariance, PTL

\* Two believed documents disagree where a bulletin was planted and nowhere else.
THEOREM ConflictsArePlanted == QuestionsSpec => []ConflictOnlyWherePlanted
<1>1. IInv => ConflictOnlyWherePlanted
  <2> SUFFICES ASSUME IInv, Built, NEW topic \in Topics, NEW as_of \in Moments
               PROVE  (\E d, e \in Visible(topic, as_of, None) : d.states[topic] # e.states[topic])
                        <=> (bulletin # None /\ topic = bulletin.topic /\ as_of >= bulletin.valid_from)
    BY DEF ConflictOnlyWherePlanted
  <2>1. as_of \in Int /\ Complete /\ None \in OptInt
    BY MomentsAreDays DEF Built, Complete, OptInt
  <2>2. documents = ManualsTo(Last) \union Bulletin
    BY <2>1 DEF IInv, DocumentsHold, Complete
  <2> DEFINE planted == bulletin # None /\ topic = bulletin.topic /\ as_of >= bulletin.valid_from
  <2>3. \A d \in Visible(topic, as_of, None) :
           \/ d \in Manuals(Visible(topic, as_of, None)) /\ d \in ManualsTo(Last)
           \/ planted /\ d = BulletinDocument
    <3> SUFFICES ASSUME NEW d \in Visible(topic, as_of, None), d \notin ManualsTo(Last)
                 PROVE  planted /\ d = BulletinDocument
      BY ManualIsNotBulletin DEF Manuals
    <3>1. bulletin # None /\ d = BulletinDocument
      BY <2>2 DEF Visible, Bulletin
    <3>2. topic \in DOMAIN BulletinDocument.states /\ VisibleAt(BulletinDocument, as_of, None)
      BY <3>1 DEF Visible
    <3> QED
      BY <2>1, <3>1, <3>2, VisibleBulletin
  <2>4. CASE planted
    <3>1. /\ OwnsDay(Last, as_of) /\ Last \in Revisions
          /\ VisibleAt(BulletinDocument, as_of, None)
          /\ BulletinDocument.states = [t \in {topic} |-> bulletin.figure]
          /\ bulletin.figure # specs[Last][topic]
      BY <2>1, <2>4, VisibleBulletin, Calendar
    <3>2. BulletinDocument \in Visible(topic, as_of, None)
      BY <2>2, <2>4, <3>1 DEF Visible, Bulletin
    <3>3. Believed(Last, None) \in Visible(topic, as_of, None)
      BY <2>1, <3>1, BelievedManual DEF Manuals
    <3>4. Believed(Last, None) = ManualDocument(Last, FALSE)
      <4>1. ~CorrectedHere(Last)
        BY CorrectionFacts, Calendar
      <4> QED
        BY <4>1 DEF Believed
    <3>5. ManualDocument(Last, FALSE).states[topic] = specs[Last][topic]
      BY StatesOf DEF FigureStated
    <3>6. BulletinDocument.states[topic] # Believed(Last, None).states[topic]
      <4>1. BulletinDocument.states[topic] = bulletin.figure
        BY <3>1
      <4> QED
        BY <3>1, <3>4, <3>5, <4>1
    <3>7. \E d, e \in Visible(topic, as_of, None) : d.states[topic] # e.states[topic]
      BY <3>2, <3>3, <3>6
    <3> QED
      BY <2>4, <3>7
  <2>5. CASE ~planted
    <3>1. \A d, e \in Visible(topic, as_of, None) : d = e
      <4>1. CASE as_of >= Launch
        <5>1. PICK r \in Revisions : OwnsDay(r, as_of)
          BY <2>1, <4>1 DEF IInv, DaysAreOwned
        <5>2. Manuals(Visible(topic, as_of, None)) = {Believed(r, None)}
          BY <2>1, <5>1, BelievedManual
        <5> QED
          BY <2>3, <2>5, <5>2
      <4>2. CASE ~(as_of >= Launch)
        <5>1. Visible(topic, as_of, None) = {}
          BY <2>1, <2>3, <2>5, <4>2, NothingBeforeLaunch DEF Visible
        <5> QED
          BY <5>1
      <4> QED
        BY <4>1, <4>2
    <3> QED
      BY <2>5, <3>1
  <2> QED
    BY <2>4, <2>5
<1> QED
  BY <1>1, Invariance, PTL

-----------------------------------------------------------------------------
(* The replay and the planted breaches *)

\* No two documents have one identifier.
LEMMA OneDocument ==
    ASSUME IInv, NEW d \in documents
    PROVE  Document(d.id) = d
<1>1. ASSUME NEW e \in documents, e.id = d.id
      PROVE  e = d
  <2>1. CASE d \in ManualsTo(Last) /\ e \in ManualsTo(Last)
    <3>1. PICK r \in 1..Last, c \in BOOLEAN : d = ManualDocument(r, c)
      BY <2>1 DEF ManualsTo
    <3>2. PICK s \in 1..Last, b \in BOOLEAN : e = ManualDocument(s, b)
      BY <2>1 DEF ManualsTo
    <3>3. /\ ManualDocument(r, FALSE).id = <<"man", r>> /\ ManualDocument(r, TRUE).id = <<"manc", r>>
          /\ ManualDocument(s, FALSE).id = <<"man", s>> /\ ManualDocument(s, TRUE).id = <<"manc", s>>
      BY ManualFields
    <3>4. /\ <<"man", r>>[1] = "man" /\ <<"man", r>>[2] = r /\ <<"manc", r>>[1] = "manc" /\ <<"manc", r>>[2] = r
          /\ <<"man", s>>[1] = "man" /\ <<"man", s>>[2] = s /\ <<"manc", s>>[1] = "manc" /\ <<"manc", s>>[2] = s
      OBVIOUS
    <3>5. d.id[2] = r /\ e.id[2] = s
      <4>1. c = TRUE \/ c = FALSE
        OBVIOUS
      <4>2. b = TRUE \/ b = FALSE
        OBVIOUS
      <4> QED
        BY <3>1, <3>2, <3>3, <3>4, <4>1, <4>2
    <3>6. r = s
      BY <1>1, <3>5
    <3>7. (c = TRUE /\ b = TRUE) \/ (c = FALSE /\ b = FALSE)
      BY <1>1, <3>1, <3>2, <3>3, <3>4
    <3> QED
      BY <3>1, <3>2, <3>6, <3>7
  <2>2. BulletinDocument.id = BulletinId
    BY DEF BulletinDocument
  <2> QED
    BY <1>1, <2>1, <2>2, DocumentsAre, ManualIsNotBulletin
<1> QED
  BY <1>1 DEF Document

\* The documents of the manual that are visible on a day of a revision.
LEMMA SeenManual ==
    ASSUME IInv, Complete, NEW r \in Revisions, NEW day \in Int, OwnsDay(r, day),
           NEW known \in OptInt, known = None \/ issued[r] <= known
    PROVE  /\ Believed(r, known) \in documents
           /\ \A d \in documents : d.id # BulletinId =>
                (VisibleAt(d, day, known) <=> d = Believed(r, known))
<1>1. documents = ManualsTo(Last) \union Bulletin
  BY DEF IInv, DocumentsHold, Complete
<1>2. BulletinDocument.id = BulletinId
  BY DEF BulletinDocument
<1> QED
  BY <1>1, <1>2, VisibleManual DEF Bulletin

\* Half way between two days is on or after the first and before the second.
LEMMA HalfWay ==
    ASSUME NEW a \in Int, NEW b \in Int
    PROVE  /\ a + (b - a) \div 2 \in Int
           /\ a < b => a <= a + (b - a) \div 2 /\ a + (b - a) \div 2 < b
           /\ a <= b => a <= a + (b - a) \div 2 /\ a + (b - a) \div 2 <= b
OBVIOUS

\* The original that was corrected, and the document that corrects it.
LEMMA CorrectedAre ==
    ASSUME IInv, Complete, NEW original \in Corrected
    PROVE  \E r \in Revisions :
             /\ CorrectedHere(r) /\ original = ManualDocument(r, FALSE)
             /\ ManualDocument(r, TRUE) \in documents
             /\ Document(original.corrected_by) = ManualDocument(r, TRUE)
<1>1. original \in documents /\ original.corrected_by # None /\ original.known_to # None
  BY DEF Corrected
<1>2. original \in ManualsTo(Last)
  <2>1. BulletinDocument.corrected_by = None
    BY DEF BulletinDocument
  <2> QED
    BY <1>1, <2>1, DocumentsAre
<1>3. PICK r \in Revisions, c \in BOOLEAN : original = ManualDocument(r, c)
  BY <1>2, Calendar DEF ManualsTo
<1>4. CorrectedHere(r) /\ original = ManualDocument(r, FALSE)
  <2>1. /\ ManualDocument(r, TRUE).corrected_by = None
        /\ ManualDocument(r, FALSE).corrected_by = IF CorrectedHere(r) THEN <<"manc", r>> ELSE None
    BY ManualFields
  <2>2. c = TRUE \/ c = FALSE
    OBVIOUS
  <2> QED
    BY <1>1, <1>3, <2>1, <2>2
<1>5. ManualDocument(r, TRUE) \in documents
  <2>1. r \in {s \in 1..Last : CorrectedHere(s)}
    BY <1>4, Calendar
  <2> QED
    BY <2>1 DEF IInv, DocumentsHold, Complete, ManualsTo
<1>6. original.corrected_by = ManualDocument(r, TRUE).id
  BY <1>4, ManualFields
<1> QED
  BY <1>4, <1>5, <1>6, OneDocument

\* The replay of a correction shows both axes, and a knowledge predicate that is always true shows.
LEMMA CorrectionIsReplayed ==
    ASSUME IInv, Complete, NEW original \in Corrected
    PROVE  ReplayHolds(original) /\ KnowledgeBreachCaught(original)
<1>1. PICK r \in Revisions :
         /\ CorrectedHere(r) /\ original = ManualDocument(r, FALSE)
         /\ ManualDocument(r, TRUE) \in documents
         /\ Document(original.corrected_by) = ManualDocument(r, TRUE)
  BY CorrectedAre
<1> DEFINE original_id == <<"man", r>>
           corrected_id == <<"manc", r>>
           day == MiddleOf(original)
           known_from == correction.known_from
<1>2. /\ original.id = original_id /\ original.corrected_by = corrected_id
      /\ ManualDocument(r, TRUE).id = corrected_id
      /\ original.known_to = known_from
      /\ original.valid_from = issued[r] /\ original.valid_to = IF r < Last THEN issued[r + 1] ELSE None
  BY <1>1, ManualFields
<1>3. /\ r < Last /\ known_from \in Int /\ known_from # None
      /\ issued[r] \in Int /\ issued[r + 1] \in Int
      /\ issued[r] < issued[r + 1] /\ issued[r + 1] < known_from
  BY <1>1, CorrectionFacts, Calendar
<1>4. original_id # corrected_id /\ original_id # BulletinId /\ corrected_id # BulletinId
  <2>1. original_id[1] = "man" /\ corrected_id[1] = "manc" /\ BulletinId[1] = "bul"
    BY DEF BulletinId
  <2> QED
    BY <2>1
<1>5. day \in Int /\ OwnsDay(r, day)
  <2>1. day = issued[r] + (issued[r + 1] - issued[r]) \div 2
    BY <1>2, <1>3 DEF MiddleOf
  <2> QED
    BY <1>3, <2>1, HalfWay DEF OwnsDay
<1>6. original \in documents
  BY DEF Corrected
<1>7. /\ Believed(r, known_from - 1) = original
      /\ Believed(r, None) = ManualDocument(r, TRUE)
      /\ Believed(r, known_from + 1) = ManualDocument(r, TRUE)
  <2>1. known_from - 1 # None /\ ~(known_from <= known_from - 1) /\ known_from <= known_from + 1
    BY <1>3, NoneAssumption
  <2> QED
    BY <1>1, <2>1 DEF Believed
<1> HIDE DEF day, original_id, corrected_id, known_from
<1> DEFINE seen(known) == {d.id : d \in {e \in documents : VisibleAt(e, day, known)}}
<1>8. /\ original_id \in seen(known_from - 1) /\ corrected_id \notin seen(known_from - 1)
      /\ ~VisibleAt(ManualDocument(r, TRUE), day, known_from - 1)
  <2>1. known_from - 1 \in OptInt /\ issued[r] <= known_from - 1
    BY <1>3 DEF OptInt
  <2>2. \A d \in documents : d.id # BulletinId =>
           (VisibleAt(d, day, known_from - 1) <=> d = original)
    <3> DEFINE before == known_from - 1
    <3>1. before \in OptInt /\ issued[r] <= before /\ Believed(r, before) = original
      BY <1>7, <2>1
    <3> HIDE DEF before
    <3>2. \A d \in documents : d.id # BulletinId =>
             (VisibleAt(d, day, before) <=> d = original)
      BY <1>5, <3>1, SeenManual
    <3> QED
      BY <3>2 DEF before
  <2> QED
    BY <1>1, <1>2, <1>4, <1>6, <2>2
<1>9. \A known \in {None, known_from + 1} : corrected_id \in seen(known) /\ original_id \notin seen(known)
  <2> SUFFICES ASSUME NEW known \in {None, known_from + 1}
               PROVE  corrected_id \in seen(known) /\ original_id \notin seen(known)
    OBVIOUS
  <2>1. known \in OptInt /\ (known = None \/ issued[r] <= known)
    BY <1>3 DEF OptInt
  <2>2. \A d \in documents : d.id # BulletinId =>
           (VisibleAt(d, day, known) <=> d = ManualDocument(r, TRUE))
    <3>1. Believed(r, known) = ManualDocument(r, TRUE)
      BY <1>7
    <3>2. \A d \in documents : d.id # BulletinId =>
             (VisibleAt(d, day, known) <=> d = Believed(r, known))
      <4>1. /\ IInv /\ Complete /\ r \in Revisions /\ day \in Int /\ OwnsDay(r, day)
            /\ known \in OptInt /\ (known = None \/ issued[r] <= known)
        BY <1>5, <2>1
      <4> QED
        BY <4>1, SeenManual, Zenon
    <3> QED
      BY <3>1, <3>2
  <2> QED
    BY <1>1, <1>2, <1>4, <2>2
<1>10. ReplayHolds(original)
  BY <1>2, <1>8, <1>9 DEF ReplayHolds, day
<1>11. InForceOn(ManualDocument(r, TRUE), day)
  BY <1>5, InForceIsOwner
<1> QED
  BY <1>1, <1>2, <1>8, <1>10, <1>11 DEF KnowledgeBreachCaught, day

\* There are finitely many documents.
LEMMA FinitelyManyDocuments ==
    ASSUME IInv, Complete
    PROVE  IsFiniteSet(documents)
<1> DEFINE corrected == {s \in 1..Last : CorrectedHere(s)}
           originals == {ManualDocument(r, FALSE) : r \in 1..Last}
           reissues == {ManualDocument(r, TRUE) : r \in corrected}
<1>1. IsFiniteSet(1..Last) /\ IsFiniteSet(corrected)
  <2>1. Last \in Int /\ 1 \in Int
    BY Calendar
  <2>2. IsFiniteSet(1..Last)
    BY <2>1, FS_Interval
  <2>3. corrected \subseteq 1..Last
    OBVIOUS
  <2> HIDE DEF corrected
  <2> QED
    BY <2>2, <2>3, FS_Subset
<1>2. IsFiniteSet(originals)
  <2> DEFINE f == [r \in 1..Last |-> ManualDocument(r, FALSE)]
  <2>1. f \in Surjection(1..Last, originals)
    BY DEF Surjection
  <2> HIDE DEF f, originals
  <2> QED
    BY <1>1, <2>1, FS_Surjection
<1>3. IsFiniteSet(reissues)
  <2> HIDE DEF corrected
  <2> DEFINE f == [r \in corrected |-> ManualDocument(r, TRUE)]
  <2>1. f \in Surjection(corrected, reissues)
    BY DEF Surjection
  <2> HIDE DEF f, reissues
  <2> QED
    BY <1>1, <2>1, FS_Surjection
<1>4. IsFiniteSet(Bulletin)
  BY FS_EmptySet, FS_Singleton DEF Bulletin
<1>5. documents = (originals \union reissues) \union Bulletin
  BY DEF IInv, DocumentsHold, Complete, ManualsTo
<1> HIDE DEF originals, reissues
<1>6. IsFiniteSet(originals \union reissues)
  BY <1>2, <1>3, FS_Union
<1> QED
  BY <1>4, <1>5, <1>6, FS_Union

\* On the day of a withdrawal one revision is admitted; with the upper bound inclusive, two are.
LEMMA WithdrawalIsSeen ==
    ASSUME IInv, Complete, NEW withdrawn \in Withdrawn
    PROVE  StaleRevisionBreachCaught(withdrawn) /\ BypassBreachCaught(withdrawn)
<1>1. withdrawn \in documents /\ withdrawn.superseded_by # None /\ withdrawn.valid_to # None
  BY DEF Withdrawn
<1>2. withdrawn \in ManualsTo(Last)
  <2>1. BulletinDocument.superseded_by = None
    BY DEF BulletinDocument
  <2> QED
    BY <1>1, <2>1, DocumentsAre
<1>3. PICK r \in Revisions, c \in BOOLEAN : withdrawn = ManualDocument(r, c)
  BY <1>2, Calendar DEF ManualsTo
<1>4. r < Last /\ withdrawn.valid_to = issued[r + 1]
  <2>1. withdrawn.valid_to = IF r < Last THEN issued[r + 1] ELSE None
    BY <1>3, ManualFields
  <2> QED
    BY <1>1, <2>1
<1> DEFINE boundary == issued[r + 1]
           next == r + 1
<1>5. /\ next \in Revisions /\ boundary \in Int /\ issued[r] \in Int /\ issued[r] < boundary
      /\ Last \in Revisions /\ boundary <= issued[Last] /\ issued[Last] \in Int
      /\ next < Last => issued[next + 1] \in Int /\ boundary < issued[next + 1] /\ issued[next + 1] # None
      /\ boundary # None
  <2>1. Last \in Revisions /\ r + 1 \in Revisions /\ r + 1 <= Last
    BY <1>4, Calendar
  <2> QED
    BY <1>4, <2>1, Calendar
<1>6. OwnsDay(next, boundary)
  BY <1>5 DEF OwnsDay
<1>7. None \in OptInt
  BY DEF OptInt
<1> HIDE DEF next
<1> DEFINE admitted == {d \in documents : VisibleAt(d, boundary, None)}
           breached == {d \in documents : InForceOnLastDay(d, boundary) /\ KnownOn(d, None)}
           revisions(ds) == {d.valid_from : d \in ds}
<1>8. Believed(next, None).valid_from = boundary /\ Believed(r, None).valid_from = issued[r]
  BY ManualFields DEF Believed, next
<1>9. admitted = {Believed(next, None)}
  <2>1. /\ Believed(next, None) \in documents
        /\ \A d \in documents : d.id # BulletinId =>
             (VisibleAt(d, boundary, None) <=> d = Believed(next, None))
    BY <1>5, <1>6, <1>7, SeenManual
  <2>2. Believed(next, None).id # BulletinId
    <3>1. Believed(next, None) \in ManualsTo(Last)
      BY <1>5, <1>6, <1>7, VisibleManual
    <3> QED
      BY <3>1, ManualIsNotBulletin
  <2>3. ASSUME NEW d \in documents, VisibleAt(d, boundary, None)
        PROVE  d.id # BulletinId
    <3>1. CASE d \in ManualsTo(Last)
      BY <3>1, ManualIsNotBulletin
    <3>2. CASE bulletin # None /\ d = BulletinDocument
      <4>1. /\ bulletin.valid_from <= boundary /\ bulletin.valid_from \in Int
            /\ issued[Last] < bulletin.valid_from
        BY <1>5, <2>3, <3>2, VisibleBulletin
      <4> QED
        BY <1>5, <4>1
    <3> QED
      BY <3>1, <3>2, DocumentsAre
  <2> QED
    BY <2>1, <2>2, <2>3
<1>10. \A s \in {r, next} : Believed(s, None) \in breached
  <2>1. ASSUME NEW s \in Revisions
        PROVE  /\ Believed(s, None) \in documents /\ KnownOn(Believed(s, None), None)
               /\ Believed(s, None).valid_from = issued[s]
               /\ Believed(s, None).valid_to = IF s < Last THEN issued[s + 1] ELSE None
    <3>1. Believed(s, None) \in ManualsTo(Last)
      BY Calendar DEF Believed, ManualsTo
    <3>2. documents = ManualsTo(Last) \union Bulletin
      BY DEF IInv, DocumentsHold, Complete
    <3>3. KnownOn(Believed(s, None), None)
      <4>1. \E b \in BOOLEAN : Believed(s, None) = ManualDocument(s, b) /\ (b => CorrectedHere(s))
        BY DEF Believed
      <4> QED
        BY <1>7, <4>1, KnownIsBelieved
    <3> QED
      BY <3>1, <3>2, <3>3, ManualFields DEF Believed
  <2>2. InForceOnLastDay(Believed(r, None), boundary)
    <3>1. /\ Believed(r, None).valid_from = issued[r] /\ Believed(r, None).valid_to = boundary
      BY <1>4, <2>1
    <3> QED
      BY <1>5, <3>1 DEF InForceOnLastDay
  <2>3. InForceOnLastDay(Believed(next, None), boundary)
    <3>1. /\ Believed(next, None).valid_from = boundary
          /\ Believed(next, None).valid_to = IF next < Last THEN issued[next + 1] ELSE None
      BY <1>5, <2>1 DEF next
    <3> QED
      BY <1>5, <3>1 DEF InForceOnLastDay
  <2> QED
    BY <1>5, <2>1, <2>2, <2>3
<1>11. Cardinality(revisions(admitted)) = 1
  <2>1. revisions(admitted) = {boundary}
    BY <1>8, <1>9
  <2> QED
    BY <2>1, FS_Singleton
<1>12. Cardinality(revisions(breached)) > 1
  <2>1. IsFiniteSet(breached)
    BY FinitelyManyDocuments, FS_Subset
  <2>2. IsFiniteSet(revisions(breached))
    <3> HIDE DEF breached
    <3> DEFINE f == [d \in breached |-> d.valid_from]
    <3>1. f \in Surjection(breached, revisions(breached))
      BY DEF Surjection
    <3> HIDE DEF f, revisions
    <3> QED
      BY <2>1, <3>1, FS_Surjection
  <2>3. {boundary, issued[r]} \subseteq revisions(breached)
    <3> HIDE DEF breached
    <3> QED
      BY <1>8, <1>10
  <2>4. IsFiniteSet({boundary}) /\ Cardinality({boundary}) = 1 /\ issued[r] \notin {boundary}
    <3>1. issued[r] # boundary
      BY <1>5
    <3> HIDE DEF boundary
    <3> QED
      BY <3>1, FS_Singleton
  <2>5. Cardinality({boundary} \union {issued[r]}) = 2
    <3> HIDE DEF boundary
    <3>1. Cardinality({boundary} \union {issued[r]}) = Cardinality({boundary}) + 1
      BY <2>4, FS_AddElement
    <3> QED
      BY <2>4, <3>1
  <2>6. {boundary, issued[r]} = {boundary} \union {issued[r]}
    OBVIOUS
  <2> HIDE DEF breached, revisions
  <2>7. Cardinality(revisions(breached)) \in Nat
    BY <2>2, FS_CardinalityType
  <2>8. Cardinality({boundary} \union {issued[r]}) <= Cardinality(revisions(breached))
    BY <2>2, <2>3, <2>6, FS_Subset
  <2> QED
    BY <2>5, <2>7, <2>8
<1>13. StaleRevisionBreachCaught(withdrawn)
  BY <1>4, <1>11, <1>12 DEF StaleRevisionBreachCaught
<1>14. BypassBreachCaught(withdrawn)
  <2>1. ~OwnsDay(r, boundary + 1) /\ boundary + 1 \in Int
    BY <1>4, <1>5 DEF OwnsDay
  <2> QED
    BY <1>3, <1>4, <2>1, InForceIsOwner DEF BypassBreachCaught, VisibleAt
<1> QED
  BY <1>13, <1>14

\* The replay shows both axes of any correction, and each planted breach is seen against a clean
\* baseline, whichever document it is planted on.
THEOREM BreachesAreCaught == QuestionsSpec => []PlantedBreachesAreCaught
<1>1. IInv => PlantedBreachesAreCaught
  BY CorrectionIsReplayed, WithdrawalIsSeen DEF PlantedBreachesAreCaught, Built, Complete
<1> QED
  BY <1>1, Invariance, PTL

-----------------------------------------------------------------------------
(* The questions *)

QuestionHolds ==
    /\ question = None <=> stage # "asked"
    /\ stage = "asked" => question \in Seeds

\* The seeds are written from the plan and the documents, which asking leaves alone.
LEMMA SeedsStay ==
    ASSUME issued' = issued, specs' = specs, bulletin' = bulletin, documents' = documents
    PROVE  Seeds' = Seeds
<1>1. Last' = Last /\ Revisions' = Revisions
  BY DEF Last, Revisions
<1>2. \A r : ValidFrom(r)' = ValidFrom(r) /\ ValidTo(r)' = ValidTo(r)
  BY <1>1 DEF ValidFrom, ValidTo
<1>3. Moments' = Moments
  BY DEF Moments, Days
<1>4. \A r : DatesIn(r)' = DatesIn(r)
  BY <1>2, <1>3 DEF DatesIn
<1>5. \A topic : AnswerableRevisions(topic)' = AnswerableRevisions(topic)
  BY <1>1, <1>2 DEF AnswerableRevisions
<1>6. \A topic, r, as_of : Answerable(topic, r, as_of)' = Answerable(topic, r, as_of)
  BY DEF Answerable, SerialFor, ManualId
<1>7. AnswerableSeeds' = AnswerableSeeds
  BY <1>4, <1>5, <1>6 DEF AnswerableSeeds
<1>8. IssuedParts' = IssuedParts /\ RealParts' = RealParts
  BY <1>1 DEF IssuedParts, RealParts
<1>9. \A part : Neighbours(part)' = Neighbours(part) /\ NearMiss(part)' = NearMiss(part)
  BY <1>8 DEF Neighbours, NearMiss
<1>10. AbsentSeeds' = AbsentSeeds /\ AttributeAbsentSeeds' = AttributeAbsentSeeds
       /\ DifferentFamilySeeds' = DifferentFamilySeeds
  BY <1>1, <1>2 DEF AbsentSeeds, AttributeAbsentSeeds, DifferentFamilySeeds, Unanswerable
<1>11. NearMatchSeeds' = NearMatchSeeds
  BY <1>1, <1>2, <1>8, <1>9 DEF NearMatchSeeds, Unanswerable
<1>12. MalformedSeeds' = MalformedSeeds
  BY <1>1, <1>2, <1>8 DEF MalformedSeeds, Unanswerable, Malformed
<1>13. WithdrawnParts' = WithdrawnParts
  BY <1>1, <1>2 DEF WithdrawnParts
<1>14. SupersededSeeds' = SupersededSeeds
  BY <1>13 DEF SupersededSeeds, Unanswerable
<1>15. ContradictorySeeds' = ContradictorySeeds
  BY DEF ContradictorySeeds, Unanswerable, SerialFor
<1> QED
  BY <1>7, <1>10, <1>11, <1>12, <1>14, <1>15 DEF Seeds, IsWellFormed

\* The part number of a topic in a revision, as a number of that topic.
LEMMA PartsAreNumbers ==
    ASSUME IInv, stage # "revisions", NEW r \in Revisions, NEW topic \in PartTopics
    PROVE  /\ specs[r][topic] \in Nat
           /\ \A s \in Revisions : r <= s => specs[r][topic] <= specs[s][topic]
           /\ \A s \in Revisions, other \in PartTopics :
                specs[r][topic] = specs[s][other] => topic = other
<1>1. SpecsHold
  BY DEF IInv, PlansHold
<1>2. /\ FirstPart[topic] \in Nat /\ MaxRevisions \in Nat
      /\ \E generation \in 0..MaxRevisions : specs[r][topic] = FirstPart[topic] + generation
  BY <1>1, PartsAssumption, CorpusAssumption DEF SpecsHold
<1>3. specs[r][topic] \in Nat
  BY <1>2
<1>4. \A s \in Revisions : r <= s => specs[r][topic] <= specs[s][topic]
  BY <1>1 DEF SpecsHold
<1>5. ASSUME NEW s \in Revisions, NEW other \in PartTopics, specs[r][topic] = specs[s][other]
      PROVE  topic = other
  <2>1. \E generation \in 0..MaxRevisions : specs[s][other] = FirstPart[other] + generation
    BY <1>1 DEF SpecsHold
  <2> QED
    BY <1>2, <1>5, <2>1, PartsAssumption
<1> QED
  BY <1>3, <1>4, <1>5

\* Nine candidates beside a number, and the least of those that were not issued.
LEMMA NearMissIsNear ==
    ASSUME NEW part \in Nat, Neighbours(part) # {}
    PROVE  NearMiss(part) \in Neighbours(part) /\ NearMiss(part) \in Nat
<1>1. \A n \in Neighbours(part) : n \in Nat /\ \E shift \in 1..9 : n = part + shift
  BY DEF Neighbours
<1> DEFINE free(shift) == part + shift \in Neighbours(part)
<1>2. \E shift \in 1..9 : free(shift)
  BY <1>1
<1>3. \E least \in 1..9 : free(least) /\ \A shift \in 1..9 : free(shift) => least <= shift
  <2> HIDE DEF free
  <2>1. PICK shift \in 1..9 : free(shift)
    BY <1>2
  <2>2. 1..9 = {1, 2, 3, 4, 5, 6, 7, 8, 9}
    OBVIOUS
  <2>3. CASE free(1)
    BY <2>3
  <2>4. CASE ~free(1) /\ free(2)
    BY <2>2, <2>4
  <2>5. CASE ~free(1) /\ ~free(2) /\ free(3)
    BY <2>2, <2>5
  <2>6. CASE ~free(1) /\ ~free(2) /\ ~free(3) /\ free(4)
    BY <2>2, <2>6
  <2>7. CASE ~free(1) /\ ~free(2) /\ ~free(3) /\ ~free(4) /\ free(5)
    BY <2>2, <2>7
  <2>8. CASE ~free(1) /\ ~free(2) /\ ~free(3) /\ ~free(4) /\ ~free(5) /\ free(6)
    BY <2>2, <2>8
  <2>9. CASE ~free(1) /\ ~free(2) /\ ~free(3) /\ ~free(4) /\ ~free(5) /\ ~free(6) /\ free(7)
    BY <2>2, <2>9
  <2>10. CASE ~free(1) /\ ~free(2) /\ ~free(3) /\ ~free(4) /\ ~free(5) /\ ~free(6) /\ ~free(7) /\ free(8)
    BY <2>2, <2>10
  <2>11. CASE ~free(1) /\ ~free(2) /\ ~free(3) /\ ~free(4) /\ ~free(5) /\ ~free(6) /\ ~free(7) /\ ~free(8)
    BY <2>1, <2>2, <2>11
  <2> QED
    BY <2>3, <2>4, <2>5, <2>6, <2>7, <2>8, <2>9, <2>10, <2>11
<1>4. PICK least \in 1..9 : free(least) /\ \A shift \in 1..9 : free(shift) => least <= shift
  BY <1>3
<1>5. \A m \in Neighbours(part) : part + least <= m
  BY <1>1, <1>4
<1>6. \E n \in Neighbours(part) : \A m \in Neighbours(part) : n <= m
  BY <1>4, <1>5
<1>7. NearMiss(part) \in Neighbours(part)
  BY <1>6 DEF NearMiss
<1> QED
  BY <1>1, <1>7

\* What is claimed of an answerable question, and of one that is not.
HasOneAnswer(q) ==
    \E d \in documents :
        /\ AnsweringPassages(q) = {d}
        /\ ManualId(d.revision) = q.gold
        /\ d.states[q.topic] = q.span <=> ~(d.id # q.gold /\ q.topic = correction.topic)

HasNoAnswer(q) ==
    IF q.kind = "contradictory_sources"
      THEN \E d, e \in documents :
             /\ AnsweringPassages(q) = {d, e}
             /\ d.states[q.topic] # e.states[q.topic]
      ELSE AnsweringPassages(q) = {}

IsTrue(q) ==
    /\ q \in QuestionSeeds /\ ChecksPass(q)
    /\ IF q.kind = "answerable" THEN HasOneAnswer(q) ELSE HasNoAnswer(q)

\* The types of a question's fields.
LEMMA SeedTypes ==
    ASSUME NEW kind \in Kinds, NEW family \in {"own", "decoy"},
           NEW topic \in Topics \union {OmittedTopic, None}, NEW part \in OptInt, NEW as_of \in Int,
           NEW serial \in OptInt, NEW gold \in Identifiers \union {None},
           NEW span \in Figures \union Int \union {None}
    PROVE  [kind |-> kind, family |-> family, topic |-> topic, part |-> part, as_of |-> as_of,
            serial |-> serial, gold |-> gold, span |-> span] \in QuestionSeeds
BY DEF QuestionSeeds

\* The machine that is asked for is one of the window's.
LEMMA MachineIsCovered ==
    ASSUME NEW topic \in Topics
    PROVE  LET window == SerialWindow[topic]
           IN  /\ SerialFor(window) \in OptInt
               /\ Covers(window.first, window.last, SerialFor(window))
<1> DEFINE window == SerialWindow[topic]
<1>1. CASE window.first = None /\ window.last = None
  BY <1>1 DEF SerialFor, Covers, OptInt
<1>2. CASE window.first \in Int /\ window.last \in Int /\ window.first <= window.last
  <2>1. window.first # None /\ window.last # None
    BY <1>2, NoneAssumption
  <2> DEFINE middle == window.first + (window.last - window.first) \div 2
  <2>2. middle \in Int /\ window.first <= middle /\ middle <= window.last
    BY <1>2, HalfWay
  <2>3. SerialFor(window) = middle
    BY <2>1 DEF SerialFor
  <2> HIDE DEF middle
  <2>4. middle # None
    BY <2>2, NoneAssumption
  <2> QED
    BY <1>2, <2>1, <2>2, <2>3, <2>4 DEF Covers, OptInt
<1> QED
  BY <1>1, <1>2, QuestionsAssumption

\* The dates a question about a revision is given are days of it.
LEMMA DatesAreItsOwn ==
    ASSUME IInv, NEW r \in Revisions, NEW day \in DatesIn(r)
    PROVE  day \in Int /\ OwnsDay(r, day)
<1>1. /\ issued[r] \in Int /\ r \in Int /\ Last \in Int
      /\ r < Last => issued[r + 1] \in Int /\ issued[r + 1] # None
  BY Calendar
<1>2. CASE r < Last
  <2>1. ValidTo(r) = issued[r + 1] /\ ValidTo(r) # None /\ ValidFrom(r) = issued[r]
    BY <1>1, <1>2 DEF ValidTo, ValidFrom
  <2>2. day \in Moments \union {issued[r + 1] - 1} /\ issued[r] <= day /\ day <= issued[r + 1] - 1
    BY <2>1 DEF DatesIn
  <2>3. day \in Int
    BY <1>1, <1>2, <2>2, MomentsAreDays
  <2> QED
    BY <1>1, <1>2, <2>2, <2>3 DEF OwnsDay
<1>3. CASE ~(r < Last)
  <2>1. ValidTo(r) = None /\ ValidFrom(r) = issued[r]
    BY <1>3 DEF ValidTo, ValidFrom
  <2>2. day \in Moments \union {issued[r] + 399} /\ issued[r] <= day
    BY <2>1 DEF DatesIn
  <2>3. day \in Int
    BY <1>1, <2>2, MomentsAreDays
  <2> QED
    BY <1>3, <2>2, <2>3 DEF OwnsDay
<1> QED
  BY <1>2, <1>3

\* A question with a topic and a machine finds the believed passage of its day's revision, and the
\* bulletin when it is about that topic and in force.
LEMMA TopicPassages ==
    ASSUME IInv, Complete, NEW q, q.family = "own", q.part = None, q.topic \in Topics,
           q.as_of \in Int, q.serial = SerialFor(SerialWindow[q.topic]),
           NEW r \in Revisions, OwnsDay(r, q.as_of)
    PROVE  AnsweringPassages(q)
             = {Believed(r, None)}
                 \union (IF bulletin # None /\ bulletin.topic = q.topic /\ bulletin.valid_from <= q.as_of
                           THEN {BulletinDocument} ELSE {})
<1> DEFINE window == SerialWindow[q.topic]
           speaks == bulletin # None /\ bulletin.topic = q.topic /\ bulletin.valid_from <= q.as_of
<1>1. Covers(window.first, window.last, q.serial) /\ q.serial \in OptInt
  BY MachineIsCovered
<1>2. None \in OptInt
  BY DEF OptInt
<1>3. documents = ManualsTo(Last) \union Bulletin
  BY DEF IInv, DocumentsHold, Complete
<1>4. Believed(r, None) \in ManualsTo(Last)
  BY <1>2, VisibleManual
<1>5. ASSUME NEW d \in ManualsTo(Last)
      PROVE  d \in AnsweringPassages(q) <=> d = Believed(r, None)
  <2>1. PICK s \in 1..Last, c \in BOOLEAN : d = ManualDocument(s, c)
    BY DEF ManualsTo
  <2>2. DOMAIN d.states = Topics
    <3>1. d.states = [t \in Topics |-> FigureStated(s, c, t)]
      BY <2>1, ManualFields
    <3> QED
      BY <3>1
  <2>3. SerialsOf(d, q.topic) = window
    BY ManualIsNotBulletin DEF SerialsOf
  <2>4. VisibleAt(d, q.as_of, None) <=> d = Believed(r, None)
    BY <1>2, VisibleManual
  <2>5. d \in documents
    BY <1>3
  <2> HIDE DEF window
  <2> QED
    BY <1>1, <2>2, <2>3, <2>4, <2>5 DEF AnsweringPassages, Retrieved
<1>6. ASSUME bulletin # None
      PROVE  BulletinDocument \in AnsweringPassages(q) <=> speaks
  <2>1. /\ VisibleAt(BulletinDocument, q.as_of, None) <=> bulletin.valid_from <= q.as_of
        /\ BulletinDocument.id = BulletinId
        /\ BulletinDocument.states = [topic \in {bulletin.topic} |-> bulletin.figure]
    BY <1>6, VisibleBulletin
  <2>2. Covers(SerialsOf(BulletinDocument, q.topic).first, SerialsOf(BulletinDocument, q.topic).last, q.serial)
    BY <2>1 DEF SerialsOf, FleetWide, Covers
  <2>3. BulletinDocument \in documents
    BY <1>3, <1>6 DEF Bulletin
  <2>4. q.topic \in DOMAIN BulletinDocument.states <=> bulletin.topic = q.topic
    BY <2>1
  <2> HIDE DEF window
  <2> QED
    BY <1>6, <2>1, <2>2, <2>3, <2>4 DEF AnsweringPassages, Retrieved
<1>7. AnsweringPassages(q) \subseteq ManualsTo(Last) \union Bulletin
  BY <1>3 DEF AnsweringPassages, Retrieved
<1> QED
  BY <1>4, <1>5, <1>6, <1>7 DEF Bulletin

\* An answerable question has one answer: the believed passage of the revision it was written from.
LEMMA AnswerableIsTrue ==
    ASSUME IInv, Complete, NEW q \in AnswerableSeeds
    PROVE  IsTrue(q)
<1>1. PICK topic \in Topics : q \in UNION {{Answerable(topic, r, as_of) : as_of \in DatesIn(r)} :
                                             r \in AnswerableRevisions(topic)}
  BY DEF AnswerableSeeds
<1>2. PICK r \in AnswerableRevisions(topic) : q \in {Answerable(topic, r, as_of) : as_of \in DatesIn(r)}
  BY <1>1
<1>3. PICK as_of \in DatesIn(r) : q = Answerable(topic, r, as_of)
  BY <1>2
<1>4. /\ q.kind = "answerable" /\ q.family = "own" /\ q.topic = topic /\ q.part = None
      /\ q.as_of = as_of /\ q.serial = SerialFor(SerialWindow[topic])
      /\ q.gold = ManualId(r) /\ q.span = specs[r][topic]
  BY <1>3 DEF Answerable
<1>5. /\ r \in Revisions
      /\ bulletin # None /\ bulletin.topic = topic =>
           ValidTo(r) # None /\ ValidTo(r) <= bulletin.valid_from
  BY DEF AnswerableRevisions
<1>6. as_of \in Int /\ OwnsDay(r, as_of)
  BY <1>5, DatesAreItsOwn
<1>7. SerialFor(SerialWindow[topic]) \in OptInt
      /\ Covers(SerialWindow[topic].first, SerialWindow[topic].last, SerialFor(SerialWindow[topic]))
  BY MachineIsCovered
<1>8. q \in QuestionSeeds
  <2>1. ManualId(r) \in Identifiers
    <3>1. r \in Nat
      BY <1>5, Calendar
    <3> QED
      BY <3>1 DEF ManualId, Identifiers
  <2>2. specs[r][topic] \in Figures \union Int
    <3>1. SpecsHold
      BY DEF IInv, PlansHold, Complete
    <3>2. CASE topic \in PartTopics
      BY <1>5, <3>2, PartsAreNumbers DEF Complete
    <3>3. CASE topic \notin PartTopics
      BY <1>5, <3>1, <3>3 DEF SpecsHold, MeasuredTopics
    <3> QED
      BY <3>2, <3>3
  <2>3. None \in OptInt
    BY DEF OptInt
  <2> QED
    <3>1. q = [kind |-> "answerable", family |-> "own", topic |-> topic, part |-> None,
               as_of |-> as_of, serial |-> SerialFor(SerialWindow[topic]), gold |-> ManualId(r),
               span |-> specs[r][topic]]
      BY <1>3 DEF Answerable
    <3>2. /\ topic \in Topics \union {OmittedTopic, None}
          /\ ManualId(r) \in Identifiers \union {None}
          /\ specs[r][topic] \in Figures \union Int \union {None}
      BY <2>1, <2>2
    <3> QED
      <4> DEFINE serial == SerialFor(SerialWindow[topic])
                 span == specs[r][topic]
                 gold == ManualId(r)
      <4>1. /\ serial \in OptInt /\ gold \in Identifiers \union {None} /\ as_of \in Int
            /\ span \in Figures \union Int \union {None} /\ None \in OptInt
            /\ topic \in Topics \union {OmittedTopic, None}
            /\ "answerable" \in Kinds /\ "own" \in {"own", "decoy"}
            /\ q = [kind |-> "answerable", family |-> "own", topic |-> topic, part |-> None,
                   as_of |-> as_of, serial |-> serial, gold |-> gold, span |-> span]
        <5>1. serial \in OptInt
          BY <1>7
        <5>2. gold \in Identifiers \union {None} /\ as_of \in Int
          BY <1>6, <3>2
        <5>3. span \in Figures \union Int \union {None} /\ None \in OptInt
          BY <2>3, <3>2
        <5>4. topic \in Topics \union {OmittedTopic, None}
          BY <3>2
        <5>5. "answerable" \in Kinds /\ "own" \in {"own", "decoy"}
          BY DEF Kinds
        <5>6. q = [kind |-> "answerable", family |-> "own", topic |-> topic, part |-> None,
                   as_of |-> as_of, serial |-> serial, gold |-> gold, span |-> span]
          BY <3>1
        <5> QED
          BY <5>1, <5>2, <5>3, <5>4, <5>5, <5>6
      <4> HIDE DEF serial, span, gold
      <4> QED
        BY <4>1, SeedTypes
<1>9. ManualDocument(r, FALSE) \in documents /\ Document(ManualId(r)) = ManualDocument(r, FALSE)
  <2>1. ManualDocument(r, FALSE) \in documents
    BY <1>5, Calendar DEF IInv, DocumentsHold, Complete, ManualsTo
  <2>2. ManualDocument(r, FALSE).id = ManualId(r)
    BY ManualFields DEF ManualId
  <2> QED
    BY <2>1, <2>2, OneDocument
<1>10. ChecksPass(q)
  <2>1. InForceOn(ManualDocument(r, FALSE), as_of)
    BY <1>5, <1>6, InForceIsOwner
  <2>2. SerialsOf(ManualDocument(r, FALSE), topic) = SerialWindow[topic]
    <3>1. ManualDocument(r, FALSE) \in ManualsTo(Last)
      BY <1>5, Calendar DEF ManualsTo
    <3> QED
      BY <3>1, ManualIsNotBulletin DEF SerialsOf
  <2>3. ManualDocument(r, FALSE).states[topic] = specs[r][topic]
    BY StatesOf DEF FigureStated
  <2> QED
    BY <1>4, <1>7, <1>9, <2>1, <2>2, <2>3 DEF ChecksPass
<1>11. AnsweringPassages(q) = {Believed(r, None)}
  <2>1. ~(bulletin # None /\ bulletin.topic = topic /\ bulletin.valid_from <= as_of)
    <3> SUFFICES ASSUME bulletin # None, bulletin.topic = topic, bulletin.valid_from <= as_of
                 PROVE  FALSE
      OBVIOUS
    <3>1. /\ ValidTo(r) # None /\ ValidTo(r) <= bulletin.valid_from
          /\ bulletin.valid_from \in Int
      BY <1>5, <1>6, VisibleBulletin
    <3>2. r < Last /\ ValidTo(r) = issued[r + 1] /\ issued[r + 1] \in Int /\ as_of < issued[r + 1]
      BY <1>5, <1>6, <3>1, Calendar DEF ValidTo, OwnsDay
    <3> QED
      BY <1>6, <3>1, <3>2
  <2>2. AnsweringPassages(q)
          = {Believed(r, None)}
              \union (IF bulletin # None /\ bulletin.topic = q.topic /\ bulletin.valid_from <= q.as_of
                        THEN {BulletinDocument} ELSE {})
    BY <1>4, <1>5, <1>6, TopicPassages
  <2> QED
    BY <1>4, <2>1, <2>2
<1>12. /\ Believed(r, None) \in documents
       /\ ManualId(Believed(r, None).revision) = ManualId(r)
  <2>1. Believed(r, None) \in documents
    BY <1>11 DEF AnsweringPassages, Retrieved
  <2>2. Believed(r, None).revision = r
    BY ManualFields DEF Believed
  <2> QED
    BY <2>1, <2>2
<1>13. Believed(r, None).states[topic] = specs[r][topic]
         <=> ~(Believed(r, None).id # ManualId(r) /\ topic = correction.topic)
  <2>1. CASE CorrectedHere(r)
    <3>1. Believed(r, None) = ManualDocument(r, TRUE)
      BY <2>1 DEF Believed
    <3>2. ManualDocument(r, TRUE).id # ManualId(r)
      <4>1. <<"man", r>>[1] # <<"manc", r>>[1]
        OBVIOUS
      <4>2. ManualDocument(r, TRUE).id = <<"manc", r>> /\ ManualId(r) = <<"man", r>>
        BY ManualFields DEF ManualId
      <4> QED
        BY <4>1, <4>2
    <3>3. ManualDocument(r, TRUE).states[topic]
            = IF correction.topic = topic THEN correction.figure ELSE specs[r][topic]
      BY StatesOf DEF FigureStated
    <3>4. correction.figure # specs[r][correction.topic]
      BY <2>1, CorrectionFacts DEF CorrectionHolds
    <3> QED
      BY <3>1, <3>2, <3>3, <3>4
  <2>2. CASE ~CorrectedHere(r)
    <3>1. Believed(r, None) = ManualDocument(r, FALSE)
      BY <2>2 DEF Believed
    <3>2. ManualDocument(r, FALSE).id = ManualId(r)
      BY ManualFields DEF ManualId
    <3>3. ManualDocument(r, FALSE).states[topic] = specs[r][topic]
      BY StatesOf DEF FigureStated
    <3> QED
      BY <3>1, <3>2, <3>3
  <2> QED
    BY <2>1, <2>2
<1>14. HasOneAnswer(q)
  BY <1>4, <1>11, <1>12, <1>13 DEF HasOneAnswer
<1> QED
  BY <1>4, <1>8, <1>10, <1>14 DEF IsTrue

\* A question that expects nothing is true when nothing is found.
LEMMA SilenceIsTrue ==
    ASSUME NEW q \in QuestionSeeds, q.kind \notin {"answerable", "contradictory_sources"}, q.gold = None,
           AnsweringPassages(q) = {}
    PROVE  IsTrue(q)
BY DEF IsTrue, ChecksPass, HasNoAnswer

\* Its fields, with the topic or the part that it names.
LEMMA UnanswerableFields ==
    ASSUME NEW kind \in Kinds, NEW topic \in Topics \union {OmittedTopic, None}, NEW as_of \in Int,
           NEW part \in OptInt
    PROVE  LET q == [Unanswerable(kind, topic, as_of) EXCEPT !.part = part]
           IN  /\ q \in QuestionSeeds /\ Unanswerable(kind, topic, as_of) \in QuestionSeeds
               /\ q.kind = kind /\ q.family = "own" /\ q.topic = topic /\ q.part = part
               /\ q.as_of = as_of /\ q.gold = None
               /\ Unanswerable(kind, topic, as_of) = [Unanswerable(kind, topic, as_of) EXCEPT !.part = None]
<1>1. Unanswerable(kind, topic, as_of)
        = [kind |-> kind, family |-> "own", topic |-> topic, part |-> None, as_of |-> as_of,
           serial |-> None, gold |-> None, span |-> None]
  BY DEF Unanswerable
<1>2. None \in OptInt /\ "own" \in {"own", "decoy"}
  BY DEF OptInt
<1>3. Unanswerable(kind, topic, as_of) \in QuestionSeeds
  BY <1>1, <1>2, SeedTypes
<1>4. [Unanswerable(kind, topic, as_of) EXCEPT !.part = part]
        = [kind |-> kind, family |-> "own", topic |-> topic, part |-> part, as_of |-> as_of,
           serial |-> None, gold |-> None, span |-> None]
  BY <1>1
<1>5. [Unanswerable(kind, topic, as_of) EXCEPT !.part = part] \in QuestionSeeds
  BY <1>2, <1>4, SeedTypes
<1>6. Unanswerable(kind, topic, as_of) = [Unanswerable(kind, topic, as_of) EXCEPT !.part = None]
  BY <1>1
<1> QED
  BY <1>3, <1>4, <1>5, <1>6

\* No passage states a topic that the manual does not cover.
LEMMA OtherTopicsAreSilent ==
    ASSUME IInv, NEW q, q.part = None, q.topic \notin Topics
    PROVE  AnsweringPassages(q) = {}
<1>1. ASSUME NEW d \in documents
      PROVE  q.topic \notin DOMAIN d.states
  <2>1. CASE d \in ManualsTo(Last)
    <3>1. PICK s \in 1..Last, c \in BOOLEAN : d = ManualDocument(s, c)
      BY <2>1 DEF ManualsTo
    <3>2. d.states = [t \in Topics |-> FigureStated(s, c, t)]
      BY <3>1, ManualFields
    <3> QED
      BY <3>2
  <2>2. CASE bulletin # None /\ d = BulletinDocument
    <3>1. BulletinDocument.states = [topic \in {bulletin.topic} |-> bulletin.figure]
      BY DEF BulletinDocument
    <3>2. BulletinHolds
      BY <2>2 DEF IInv, PlansHold
    <3>3. bulletin.topic \in Topics
      BY <3>2 DEF BulletinHolds, Bulletins, MeasuredTopics
    <3> QED
      BY <2>2, <3>1, <3>3
  <2> QED
    BY <2>1, <2>2, DocumentsAre
<1> QED
  BY <1>1 DEF AnsweringPassages, Retrieved

\* A passage that names a part is of a revision whose days the question's is one of.
LEMMA PartIsNamed ==
    ASSUME IInv, Complete, NEW q, q.part # None, q.as_of \in Int, NEW d \in AnsweringPassages(q)
    PROVE  \E s \in Revisions, topic \in PartTopics :
             OwnsDay(s, q.as_of) /\ specs[s][topic] = q.part
<1>1. /\ d \in documents /\ VisibleAt(d, q.as_of, None)
      /\ \E topic \in DOMAIN d.states \intersect PartTopics : d.states[topic] = q.part
  BY DEF AnsweringPassages, Retrieved
<1>2. PICK topic \in DOMAIN d.states \intersect PartTopics : d.states[topic] = q.part
  BY <1>1
<1>3. topic \in Topics /\ topic \notin MeasuredTopics
  BY CorpusAssumption DEF MeasuredTopics
<1>4. d \in ManualsTo(Last)
  <2>1. ASSUME bulletin # None, d = BulletinDocument PROVE FALSE
    <3>1. /\ BulletinDocument.states = [t \in {bulletin.topic} |-> bulletin.figure]
          /\ bulletin.topic \in MeasuredTopics
      BY <1>1, <2>1, VisibleBulletin DEF IInv
    <3>2. topic \in {bulletin.topic}
      BY <1>2, <2>1, <3>1
    <3> QED
      BY <1>3, <3>1, <3>2
  <2> QED
    BY <1>1, <2>1, DocumentsAre
<1>5. PICK s \in Revisions, c \in BOOLEAN : d = ManualDocument(s, c) /\ (c => CorrectedHere(s))
  BY <1>4, Calendar DEF ManualsTo
<1>6. OwnsDay(s, q.as_of)
  BY <1>1, <1>5, InForceIsOwner DEF VisibleAt
<1>7. specs[s][topic] = d.states[topic]
  <2>1. CASE c = TRUE
    <3>1. CorrectionHolds
      BY <1>5, <2>1, CorrectionFacts
    <3>2. correction.topic # topic
      BY <1>3, <3>1 DEF CorrectionHolds, Corrections
    <3>3. d.states[topic] = FigureStated(s, TRUE, topic)
      BY <1>3, <1>5, <2>1, StatesOf
    <3> QED
      BY <3>2, <3>3 DEF FigureStated
  <2>2. CASE c = FALSE
    <3>1. d.states[topic] = FigureStated(s, FALSE, topic)
      BY <1>3, <1>5, <2>2, StatesOf
    <3> QED
      BY <3>1 DEF FigureStated
  <2> QED
    BY <2>1, <2>2
<1> QED
  BY <1>2, <1>6, <1>7

\* A number that was issued to nothing is named by no passage.
LEMMA UnissuedIsSilent ==
    ASSUME IInv, Complete, NEW q, q.part # None, q.as_of \in Int, q.part \notin IssuedParts
    PROVE  AnsweringPassages(q) = {}
<1> SUFFICES ASSUME NEW d \in AnsweringPassages(q) PROVE FALSE
  OBVIOUS
<1>1. PICK s \in Revisions, topic \in PartTopics : specs[s][topic] = q.part
  BY PartIsNamed
<1> QED
  BY <1>1 DEF IssuedParts

\* The questions about what does not exist, of the manual's own family.
LEMMA AbsentIsTrue ==
    ASSUME IInv, Complete, NEW q \in AbsentSeeds \union AttributeAbsentSeeds
    PROVE  IsTrue(q)
<1>1. issued[Last] \in Int /\ ValidFrom(Last) = issued[Last]
  BY Calendar DEF ValidFrom
<1>2. PICK kind \in Kinds \ {"answerable", "contradictory_sources"}, topic \in {None, OmittedTopic},
           as_of \in Int : q = Unanswerable(kind, topic, as_of)
  <2>1. {"absent_specification", "attribute_absent_for_existing_product"}
          \subseteq Kinds \ {"answerable", "contradictory_sources"}
    BY DEF Kinds
  <2>2. issued[Last] + 30 \in Int /\ issued[Last] + 45 \in Int
    BY <1>1
  <2> QED
    BY <1>1, <2>1, <2>2 DEF AbsentSeeds, AttributeAbsentSeeds
<1>3. /\ q \in QuestionSeeds /\ q.kind = kind /\ q.topic = topic /\ q.part = None /\ q.gold = None
  <2>1. None \in OptInt /\ topic \in Topics \union {OmittedTopic, None} /\ kind \in Kinds
    BY <1>2 DEF OptInt
  <2>2. Unanswerable(kind, topic, as_of) \in QuestionSeeds
    BY <1>2, <2>1, SeedTypes DEF Unanswerable
  <2>3. q.kind = kind /\ q.topic = topic /\ q.part = None /\ q.gold = None
    BY <1>2 DEF Unanswerable
  <2> QED
    BY <1>2, <2>2, <2>3
<1>4. topic \notin Topics
  BY QuestionsAssumption, NothingPlannedAssumption
<1>5. AnsweringPassages(q) = {}
  BY <1>3, <1>4, OtherTopicsAreSilent
<1> QED
  BY <1>2, <1>3, <1>5, SilenceIsTrue

\* The numbers beside a real one, and those that are not well formed.
LEMMA NoSuchPartIsTrue ==
    ASSUME IInv, Complete, NEW q \in NearMatchSeeds \union MalformedSeeds
    PROVE  IsTrue(q)
<1>1. /\ issued[Last] \in Int /\ ValidFrom(Last) = issued[Last] /\ Last \in Revisions
      /\ issued[Last] + 60 \in Int /\ issued[Last] + 15 \in Int
  BY Calendar DEF ValidFrom
<1>2. IssuedParts \subseteq Nat /\ RealParts \subseteq Nat
  BY <1>1, PartsAreNumbers DEF IssuedParts, RealParts, Complete
<1>3. None \in Topics \union {OmittedTopic, None}
  OBVIOUS
<1>4. PICK kind \in Kinds \ {"answerable", "contradictory_sources"}, as_of \in Int, part \in Int \ IssuedParts :
         q = [Unanswerable(kind, None, as_of) EXCEPT !.part = part]
  <2>1. {"near_match_different_identifier", "malformed_part_number"}
          \subseteq Kinds \ {"answerable", "contradictory_sources"}
    BY DEF Kinds
  <2>2. CASE q \in NearMatchSeeds
    <3>1. PICK part \in RealParts : /\ Neighbours(part) # {}
                                    /\ q = [Unanswerable("near_match_different_identifier", None, ValidFrom(Last) + 60)
                                              EXCEPT !.part = NearMiss(part)]
      BY <2>2 DEF NearMatchSeeds
    <3>2. NearMiss(part) \in Nat /\ NearMiss(part) \in Neighbours(part)
      BY <1>2, <3>1, NearMissIsNear
    <3>3. NearMiss(part) \in Int \ IssuedParts
      BY <3>2 DEF Neighbours
    <3> QED
      BY <1>1, <2>1, <3>1, <3>3
  <2>3. CASE q \in MalformedSeeds
    <3>1. PICK part \in RealParts :
             q = [Unanswerable("malformed_part_number", None, ValidFrom(Last) + 15)
                    EXCEPT !.part = Malformed(part)]
      BY <2>3 DEF MalformedSeeds
    <3>2. part \in Nat /\ Malformed(part) \in Int /\ Malformed(part) < 0
      BY <1>2, <3>1 DEF Malformed
    <3>3. Malformed(part) \in Int \ IssuedParts
      BY <1>2, <3>2
    <3> QED
      BY <1>1, <2>1, <3>1, <3>3
  <2> QED
    BY <2>2, <2>3
<1>5. part \in OptInt /\ part # None
  BY NoneAssumption DEF OptInt
<1>6. q \in QuestionSeeds /\ q.kind = kind /\ q.part = part /\ q.as_of = as_of /\ q.gold = None
  BY <1>3, <1>4, <1>5, UnanswerableFields
<1>7. AnsweringPassages(q) = {}
  BY <1>5, <1>6, UnissuedIsSilent
<1> QED
  BY <1>4, <1>6, <1>7, SilenceIsTrue

\* A part that was withdrawn is named by no revision from its withdrawal on.
LEMMA SupersededIsTrue ==
    ASSUME IInv, Complete, NEW q \in SupersededSeeds
    PROVE  IsTrue(q)
<1>1. PICK w \in WithdrawnParts :
         q = [Unanswerable("superseded_without_replacement_asked", w.topic, w.withdrawn_on + 30)
                EXCEPT !.part = w.part]
  BY DEF SupersededSeeds
<1>2. PICK r \in 2..Last, topic \in PartTopics :
         /\ w.topic = topic /\ w.part = specs[r - 1][topic] /\ w.revision = r
         /\ w.withdrawn_on = issued[r] /\ specs[r][topic] # specs[r - 1][topic]
  BY DEF WithdrawnParts, ValidFrom
<1>3. /\ r \in Revisions /\ r - 1 \in Revisions /\ r - 1 <= r /\ r \in Int
      /\ issued[r] \in Int /\ issued[r] + 30 \in Int /\ issued[r] <= issued[r] + 30
      /\ topic \in Topics
  <2>1. r \in Revisions /\ r - 1 \in Revisions /\ r - 1 <= r /\ r \in Int
    BY <1>2, Calendar
  <2> QED
    BY <2>1, Calendar, CorpusAssumption
<1>4. specs[r - 1][topic] \in Nat /\ specs[r][topic] \in Nat /\ specs[r - 1][topic] < specs[r][topic]
  <2>1. specs[r - 1][topic] \in Nat /\ specs[r][topic] \in Nat /\ specs[r - 1][topic] <= specs[r][topic]
    BY <1>3, PartsAreNumbers DEF Complete
  <2> QED
    BY <1>2, <2>1
<1> DEFINE day == issued[r] + 30
           part == specs[r - 1][topic]
<1>5. part \in OptInt /\ part # None
  BY <1>4, NoneAssumption DEF OptInt
<1>6. /\ q \in QuestionSeeds /\ q.kind = "superseded_without_replacement_asked" /\ q.part = part
      /\ q.as_of = day /\ q.gold = None
  <2>1. /\ "superseded_without_replacement_asked" \in Kinds
        /\ topic \in Topics \union {OmittedTopic, None} /\ day \in Int
    BY <1>3 DEF Kinds
  <2>2. q = [Unanswerable("superseded_without_replacement_asked", topic, day) EXCEPT !.part = part]
    BY <1>1, <1>2
  <2> HIDE DEF day, part
  <2> QED
    BY <1>5, <2>1, <2>2, UnanswerableFields
<1>7. AnsweringPassages(q) = {}
  <2> SUFFICES ASSUME NEW d \in AnsweringPassages(q) PROVE FALSE
    OBVIOUS
  <2>1. q.part # None /\ q.as_of \in Int
    BY <1>3, <1>5, <1>6
  <2>2. PICK s \in Revisions, other \in PartTopics : OwnsDay(s, q.as_of) /\ specs[s][other] = q.part
    BY <2>1, PartIsNamed
  <2>3. other = topic
    BY <1>3, <1>6, <2>2, PartsAreNumbers DEF Complete
  <2>4. r <= s
    <3> SUFFICES ASSUME s < r PROVE FALSE
      BY <1>3, Calendar
    <3>1. s < Last /\ s + 1 \in Revisions /\ s + 1 <= r
      BY <1>2, <1>3, Calendar
    <3>2. issued[s + 1] <= issued[r] /\ issued[s + 1] \in Int
      BY <1>3, <3>1, Calendar
    <3>3. day < issued[s + 1]
      BY <1>6, <2>2, <3>1 DEF OwnsDay
    <3> QED
      BY <1>3, <3>2, <3>3
  <2>5. specs[r][topic] <= specs[s][topic] /\ specs[s][topic] \in Nat
    BY <1>3, <2>4, PartsAreNumbers DEF Complete
  <2> QED
    BY <1>4, <1>6, <2>2, <2>3, <2>5
<1> QED
  BY <1>6, <1>7, SilenceIsTrue

\* No passage of this family answers a question about another.
LEMMA OtherFamilyIsTrue ==
    ASSUME IInv, Complete, NEW q \in DifferentFamilySeeds
    PROVE  IsTrue(q)
<1>1. PICK topic \in Topics :
         q = [Unanswerable("different_product_family", topic, ValidFrom(Last) + 30) EXCEPT !.family = "decoy"]
  BY DEF DifferentFamilySeeds
<1>2. q = [kind |-> "different_product_family", family |-> "decoy", topic |-> topic, part |-> None,
           as_of |-> ValidFrom(Last) + 30, serial |-> None, gold |-> None, span |-> None]
  BY <1>1 DEF Unanswerable
<1>3. ValidFrom(Last) + 30 \in Int
  BY Calendar DEF ValidFrom
<1>4. q \in QuestionSeeds
  <2>1. /\ "different_product_family" \in Kinds /\ "decoy" \in {"own", "decoy"} /\ None \in OptInt
        /\ topic \in Topics \union {OmittedTopic, None}
    BY DEF Kinds, OptInt
  <2> QED
    BY <1>2, <1>3, <2>1, SeedTypes
<1>5. AnsweringPassages(q) = {}
  BY <1>2 DEF AnsweringPassages, Retrieved
<1> QED
  BY <1>2, <1>4, <1>5, SilenceIsTrue

\* A contradicted topic has two believed passages, and they disagree.
LEMMA ContradictionIsTrue ==
    ASSUME IInv, Complete, NEW q \in ContradictorySeeds
    PROVE  IsTrue(q)
<1>1. /\ bulletin # None
      /\ q = [Unanswerable("contradictory_sources", bulletin.topic, bulletin.valid_from + 30)
                EXCEPT !.serial = SerialFor(SerialWindow[bulletin.topic])]
  BY DEF ContradictorySeeds
<1> DEFINE topic == bulletin.topic
           day == bulletin.valid_from + 30
           serial == SerialFor(SerialWindow[topic])
<1>2. q = [kind |-> "contradictory_sources", family |-> "own", topic |-> topic, part |-> None,
           as_of |-> day, serial |-> serial, gold |-> None, span |-> None]
  BY <1>1 DEF Unanswerable
<1>3. /\ bulletin.valid_from \in Int /\ topic \in Topics /\ day \in Int
      /\ bulletin.valid_from <= day
      /\ bulletin.figure # specs[Last][topic]
      /\ BulletinDocument.states = [t \in {topic} |-> bulletin.figure]
  <2>1. 0 \in Int
    OBVIOUS
  <2>2. /\ bulletin.valid_from \in Int /\ topic \in MeasuredTopics
        /\ bulletin.figure # specs[Last][topic]
        /\ BulletinDocument.states = [t \in {topic} |-> bulletin.figure]
    BY <1>1, <2>1, VisibleBulletin
  <2> QED
    BY <2>2 DEF MeasuredTopics
<1>4. OwnsDay(Last, day) /\ Last \in Revisions
  BY <1>1, <1>3, VisibleBulletin, Calendar
<1>5. serial \in OptInt
  BY <1>3, MachineIsCovered
<1> HIDE DEF day, serial
<1>6. q \in QuestionSeeds
  <2>1. /\ "contradictory_sources" \in Kinds /\ "own" \in {"own", "decoy"} /\ None \in OptInt
        /\ topic \in Topics \union {OmittedTopic, None}
    BY <1>3 DEF Kinds, OptInt
  <2> HIDE DEF topic
  <2> QED
    BY <1>2, <1>3, <1>5, <2>1, SeedTypes
<1>7. AnsweringPassages(q) = {Believed(Last, None), BulletinDocument}
  <2>1. /\ q.family = "own" /\ q.part = None /\ q.topic = topic /\ q.as_of = day /\ q.serial = serial
    BY <1>2
  <2>2. AnsweringPassages(q)
          = {Believed(Last, None)}
              \union (IF bulletin # None /\ bulletin.topic = q.topic /\ bulletin.valid_from <= q.as_of
                        THEN {BulletinDocument} ELSE {})
    BY <1>3, <1>4, <2>1, TopicPassages DEF serial
  <2> QED
    BY <1>1, <1>3, <2>1, <2>2
<1>8. Believed(Last, None).states[topic] # BulletinDocument.states[topic]
  <2>1. ~CorrectedHere(Last)
    BY CorrectionFacts, Calendar
  <2>2. Believed(Last, None) = ManualDocument(Last, FALSE)
    BY <2>1 DEF Believed
  <2>3. ManualDocument(Last, FALSE).states[topic] = specs[Last][topic]
    BY <1>3, StatesOf DEF FigureStated
  <2> QED
    BY <1>3, <2>2, <2>3
<1>9. HasNoAnswer(q)
  <2>1. Believed(Last, None) \in documents /\ BulletinDocument \in documents
    BY <1>7 DEF AnsweringPassages, Retrieved
  <2> QED
    BY <1>2, <1>7, <1>8, <2>1 DEF HasNoAnswer
<1> QED
  BY <1>2, <1>6, <1>9 DEF IsTrue, ChecksPass

\* So every seed is true of the corpus it is written for.
LEMMA SeedsAreTrue ==
    ASSUME IInv, Complete, NEW q \in Seeds
    PROVE  IsTrue(q)
BY AnswerableIsTrue, AbsentIsTrue, NoSuchPartIsTrue, SupersededIsTrue, ContradictionIsTrue, OtherFamilyIsTrue
   DEF Seeds

\* And the question that is asked is one of them.
LEMMA QuestionInvariance == QuestionsSpec => []QuestionHolds
<1>1. QuestionsInit => QuestionHolds
  BY DEF QuestionsInit, Init, QuestionHolds
<1>2. IInv /\ QuestionHolds /\ [QuestionsNext]_qvars => QuestionHolds'
  <2> SUFFICES ASSUME IInv, QuestionHolds, [QuestionsNext]_qvars PROVE QuestionHolds'
    OBVIOUS
  <2>1. CASE Next /\ UNCHANGED question
    <3>1. stage # "asked" /\ stage' # "asked"
      BY <2>1 DEF Next, IssueRevision, PlanSpecs, PlanBulletin, PlanCorrection, RenderRevision, FinishBuild
    <3> QED
      BY <2>1, <3>1 DEF QuestionHolds
  <2>2. CASE BuildQuestions
    <3>1. /\ stage = "built" /\ stage' = "asked" /\ question' \in Seeds
          /\ issued' = issued /\ specs' = specs /\ bulletin' = bulletin /\ documents' = documents
      BY <2>2 DEF BuildQuestions
    <3>2. question' \in QuestionSeeds /\ question' # None
      BY <3>1, SeedsAreTrue, NoQuestionAssumption DEF Complete, IsTrue
    <3> QED
      BY <3>1, <3>2, SeedsStay DEF QuestionHolds
  <2>3. CASE UNCHANGED qvars
    BY <2>3, SeedsStay DEF qvars, vars, QuestionHolds
  <2> QED
    BY <2>1, <2>2, <2>3 DEF QuestionsNext
<1> QED
  BY <1>1, <1>2, Invariance, PTL DEF QuestionsSpec

\* Both time axes have their edges, and the generator's own checks accept every question it writes.
THEOREM TypeCorrect == QuestionsSpec => []TypeOK
<1>1. IInv /\ QuestionHolds => TypeOK
  <2> SUFFICES ASSUME IInv, QuestionHolds PROVE TypeOK
    OBVIOUS
  <2>1. CorpusTypeOK
    BY DocumentTypes DEF CorpusTypeOK, IInv, CalendarHolds, PlansHold
  <2>2. Asked => ChecksPass(question)
    BY SeedsAreTrue DEF QuestionHolds, Asked, Complete, IsTrue
  <2> QED
    BY <2>1, <2>2 DEF TypeOK, QuestionHolds, Asked
<1> QED
  BY <1>1, Invariance, QuestionInvariance, PTL

\* What a question says of the corpus is so: an answerable one has one answer, and none of the
\* others has any but the two that contradict each other.
THEOREM SeedsTellTruth == QuestionsSpec => []SeedsTellTheTruth
<1>1. IInv /\ QuestionHolds => SeedsTellTheTruth
  <2> SUFFICES ASSUME IInv, QuestionHolds, stage = "asked" PROVE SeedsTellTheTruth
    BY DEF SeedsTellTheTruth, AnswerableHasOneAnswer, NegativesHaveNoAnswer, Asked
  <2>1. IsTrue(question)
    BY SeedsAreTrue DEF QuestionHolds, Complete
  <2> QED
    BY <2>1 DEF IsTrue, HasOneAnswer, HasNoAnswer, SeedsTellTheTruth, AnswerableHasOneAnswer,
               NegativesHaveNoAnswer
<1> QED
  BY <1>1, Invariance, QuestionInvariance, PTL
=============================================================================
