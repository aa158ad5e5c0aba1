------------------------------- MODULE Corpus -------------------------------
(***************************************************************************)
(* How one product family's documents come to be (corpus/builder.py): the   *)
(* revisions of its manual, the field bulletin that disagrees with the      *)
(* current one, the correction of a revision already withdrawn, and the     *)
(* documents and passages rendered from them, with both time axes copied    *)
(* onto every passage.                                                      *)
(*                                                                          *)
(* The generator draws every number from a seeded stream; here each draw is *)
(* a choice.  One variant and one language stand for all: the others are    *)
(* rendered by the same loop from disjoint value bands.  A passage's text   *)
(* is the topic it states and the figure it gives.                          *)
(***************************************************************************)
EXTENDS Effectivity, FiniteSets, Sequences

CONSTANTS
    Topics,             \* the topics this variant's manual covers
    PartTopics,         \* those answered by a part number and not by a measurement
    FirstPart,          \* a part topic's number in its first generation
    Figures,            \* spec_options: the values of the variant's band
    Launch,             \* the day the first revision is issued
    MinRevisions, MaxRevisions,
    RevisionGaps,       \* days from one revision to the next (240..480)
    BulletinDelays,     \* days from the current revision to its bulletin (45..150)
    DiscoveryDelays     \* days from a withdrawal to the discovery of its error (30..400)

ASSUME CorpusAssumption ==
    /\ PartTopics \subseteq Topics
    /\ Launch \in Int
    /\ MinRevisions \in Nat \ {0} /\ MaxRevisions \in Nat /\ MinRevisions <= MaxRevisions
    /\ RevisionGaps \subseteq Nat \ {0}
    /\ BulletinDelays \subseteq Nat \ {0}
    /\ DiscoveryDelays \subseteq Nat \ {0}

\* The measured topics are the ones a bulletin or a correction may be about.
MeasuredTopics == Topics \ PartTopics

Identifiers == {"man", "manc", "bul"} \X Nat
Bulletins == [valid_from : Int, topic : MeasuredTopics, figure : Figures]
Corrections == [revision : Nat, known_from : Int, topic : MeasuredTopics, figure : Figures]

\* Python's None is not a topic, an identifier, a planned bulletin or a planned correction.
ASSUME NothingPlannedAssumption ==
    None \notin Topics /\ None \notin Identifiers /\ None \notin Bulletins /\ None \notin Corrections

\* _collect_parts: the build stops when two topics are issued one number.
ASSUME PartsAssumption ==
    /\ FirstPart \in [PartTopics -> Nat]
    /\ \A topic, other \in PartTopics : topic # other =>
          \A i, j \in 0..MaxRevisions : FirstPart[topic] + i # FirstPart[other] + j

VARIABLES
    stage,       \* the planning or rendering step that comes next
    issued,      \* the day each revision is issued, in order
    specs,       \* revision -> topic -> the figure it states
    bulletin,    \* the planned bulletin, or None
    correction,  \* the planned correction, or None
    documents    \* the documents rendered so far

vars == <<stage, issued, specs, bulletin, correction, documents>>

Revisions == 1..Len(issued)
Last == Len(issued)

ValidFrom(r) == issued[r]
ValidTo(r) == IF r < Last THEN issued[r + 1] ELSE None

ManualId(r) == <<"man", r>>
CorrectedId(r) == <<"manc", r>>
BulletinId == <<"bul", 1>>

-----------------------------------------------------------------------------
(* Planning *)

Init ==
    /\ stage = "revisions"
    /\ issued = <<Launch>>
    /\ specs = << >>
    /\ bulletin = None
    /\ correction = None
    /\ documents = {}

\* plan_revisions draws the count first and then each gap; the last revision is left open.
IssueRevision ==
    /\ stage = "revisions"
    /\ Len(issued) < MaxRevisions
    /\ \E gap \in RevisionGaps : issued' = Append(issued, issued[Last] + gap)
    /\ UNCHANGED <<stage, specs, bulletin, correction, documents>>

\* The part number of a generation, a generation being the boundaries passed at which the part
\* was changed: each generation has a number of its own.
PartNumber(topic, changed, r) == FirstPart[topic] + Cardinality({boundary \in changed : boundary <= r})

\* spec_for: a measurement stays at a boundary or is re-rolled to a different one, and so may
\* return to an earlier value; a part number never does.
PlanSpecs ==
    /\ stage = "revisions"
    /\ Len(issued) >= MinRevisions
    /\ \E measured \in [Revisions -> [MeasuredTopics -> Figures]],
          changed \in [PartTopics -> SUBSET (2..Last)] :
         specs' = [r \in Revisions |-> [topic \in Topics |->
                     IF topic \in PartTopics THEN PartNumber(topic, changed[topic], r)
                                             ELSE measured[r][topic]]]
    /\ stage' = "bulletin"
    /\ UNCHANGED <<issued, bulletin, correction, documents>>

\* Mutant: the bulletin may repeat the figure of the manual.
PlanAnyBulletin ==
    /\ stage = "bulletin"
    /\ \/ bulletin' = None
       \/ \E delay \in BulletinDelays, topic \in MeasuredTopics, figure \in Figures :
            bulletin' = [valid_from |-> ValidFrom(Last) + delay,
                         topic |-> topic, figure |-> figure]
    /\ stage' = "correction"
    /\ UNCHANGED <<issued, specs, correction, documents>>

\* A bulletin disagrees with the current revision about the same variant, where it has one.
PlanBulletin ==
    /\ stage = "bulletin"
    /\ \/ bulletin' = None
       \/ \E delay \in BulletinDelays, topic \in MeasuredTopics, figure \in Figures :
            /\ figure # specs[Last][topic]
            /\ bulletin' = [valid_from |-> ValidFrom(Last) + delay,
                            topic |-> topic, figure |-> figure]
    /\ stage' = "correction"
    /\ UNCHANGED <<issued, specs, correction, documents>>

DiscoveredOn(r, delay) == ValidTo(r) + delay

\* The error of a revision that is no longer in force, found after its withdrawal.
PlanCorrection ==
    /\ stage = "correction"
    /\ \/ correction' = None
       \/ /\ Len(issued) >= 3
          /\ \E r \in 1..(Last - 1), delay \in DiscoveryDelays, topic \in MeasuredTopics, figure \in Figures :
               /\ figure # specs[r][topic]
               /\ correction' = [revision |-> r, known_from |-> DiscoveredOn(r, delay),
                                 topic |-> topic, figure |-> figure]
    /\ stage' = "render"
    /\ UNCHANGED <<issued, specs, bulletin, documents>>

-----------------------------------------------------------------------------
(* Rendering *)

CorrectedHere(r) == correction # None /\ correction.revision = r

Original(r, as_correction) == CorrectedHere(r) /\ ~as_correction

\* Mutant: the corrected text is backdated to the issue it corrects.
KnownSinceIssue(r, as_correction) == ValidFrom(r)

KnownFrom(r, as_correction) == IF as_correction THEN correction.known_from ELSE ValidFrom(r)

\* Mutant: the text that was corrected stays believed.
NeverForgotten(r, as_correction) == None

KnownTo(r, as_correction) == IF Original(r, as_correction) THEN correction.known_from ELSE None

Successor(r) == IF r < Last THEN ManualId(r + 1) ELSE None

FigureStated(r, as_correction, topic) ==
    IF as_correction /\ correction.topic = topic THEN correction.figure ELSE specs[r][topic]

\* The passages carry their document's dates, so that the filter needs no join.
ManualDocument(r, as_correction) ==
    [id |-> IF as_correction THEN CorrectedId(r) ELSE ManualId(r),
     revision |-> r,
     valid_from |-> ValidFrom(r),
     valid_to |-> ValidTo(r),
     known_from |-> KnownFrom(r, as_correction),
     known_to |-> KnownTo(r, as_correction),
     superseded_by |-> Successor(r),
     corrected_by |-> IF Original(r, as_correction) THEN CorrectedId(r) ELSE None,
     states |-> [topic \in Topics |-> FigureStated(r, as_correction, topic)]]

BulletinDocument ==
    [id |-> BulletinId, revision |-> None,
     valid_from |-> bulletin.valid_from, valid_to |-> None,
     known_from |-> bulletin.valid_from, known_to |-> None,
     superseded_by |-> None, corrected_by |-> None,
     states |-> [topic \in {bulletin.topic} |-> bulletin.figure]]

Rendered(r) == \E d \in documents : d.id = ManualId(r)

\* One revision, and next to it the corrected re-issue if it has one.
RenderRevision(r) ==
    /\ stage = "render"
    /\ ~Rendered(r)
    /\ \A earlier \in 1..(r - 1) : Rendered(earlier)
    /\ documents' = documents \union {ManualDocument(r, FALSE)}
                              \union (IF CorrectedHere(r) THEN {ManualDocument(r, TRUE)} ELSE {})
    /\ UNCHANGED <<stage, issued, specs, bulletin, correction>>

FinishBuild ==
    /\ stage = "render"
    /\ \A r \in Revisions : Rendered(r)
    /\ documents' = documents \union (IF bulletin # None THEN {BulletinDocument} ELSE {})
    /\ stage' = "built"
    /\ UNCHANGED <<issued, specs, bulletin, correction>>

Next ==
    \/ IssueRevision
    \/ PlanSpecs
    \/ PlanBulletin
    \/ PlanCorrection
    \/ \E r \in Revisions : RenderRevision(r)
    \/ FinishBuild

Spec == Init /\ [][Next]_vars

-----------------------------------------------------------------------------
(* Properties of the corpus a question is then asked of *)

Built == stage = "built"

\* Every date at which an answer can change: the two axes meet all their boundaries here.
Days == UNION {{d.valid_from, d.known_from} : d \in documents}
Moments == Days \union {day - 1 : day \in Days}

\* What the filter lets through for a topic, at a date, as known at another (or as known now).
Visible(topic, as_of, known_as_of) ==
    {d \in documents : topic \in DOMAIN d.states /\ VisibleAt(d, as_of, known_as_of)}

Manuals(ds) == {d \in ds : d.id # BulletinId}

InForce(as_of) == CHOOSE r \in Revisions :
    issued[r] <= as_of /\ (r < Last => as_of < issued[r + 1])

\* Types: both axes of a document end together with the edge that says by what.
CorpusTypeOK ==
    /\ stage \in {"revisions", "bulletin", "correction", "render", "built", "asked"}
    /\ Len(issued) \in 1..MaxRevisions
    /\ \A d \in documents :
         /\ d.valid_from \in Int /\ d.valid_to \in OptInt
         /\ d.known_from \in Int /\ d.known_to \in OptInt
         /\ d.superseded_by = None <=> d.valid_to = None
         /\ d.corrected_by = None <=> d.known_to = None

\* From the launch on, whatever date is asked about and whatever date's knowledge it is asked
\* with, a topic has exactly one manual passage: two never, on no day of a handover or of a
\* discovery; and none only when the knowledge date is before the revision was issued at all.
OneManualBelieved ==
    Built => \A topic \in Topics, as_of \in Moments :
        as_of >= Launch =>
            /\ Cardinality(Manuals(Visible(topic, as_of, None))) = 1
            /\ \A known \in Moments :
                 Cardinality(Manuals(Visible(topic, as_of, known)))
                   = IF known >= issued[InForce(as_of)] THEN 1 ELSE 0

\* A correction does not rewrite history: asked about the corrected period, the figure is the
\* published one as known the day before the discovery, the corrected one from that day and
\* now; and nothing else in the manual changed.
CorrectionKeepsHistory ==
    Built /\ correction # None =>
        LET asked == ValidFrom(correction.revision)
            figures(topic, known) == {d.states[topic] : d \in Manuals(Visible(topic, asked, known))}
            stated == specs[correction.revision]
        IN  /\ figures(correction.topic, correction.known_from - 1) = {stated[correction.topic]}
            /\ figures(correction.topic, correction.known_from) = {correction.figure}
            /\ figures(correction.topic, None) = {correction.figure}
            /\ stated[correction.topic] # correction.figure
            /\ \A topic \in Topics \ {correction.topic} :
                 figures(topic, None) = figures(topic, correction.known_from - 1)

\* Two believed passages disagree about one topic only where a contradiction was planted: from
\* the bulletin's date on, about its topic, for as long as the current revision stays in force.
ConflictOnlyWherePlanted ==
    Built => \A topic \in Topics, as_of \in Moments :
        (\E d, e \in Visible(topic, as_of, None) : d.states[topic] # e.states[topic])
          <=> (bulletin # None /\ topic = bulletin.topic /\ as_of >= bulletin.valid_from)
=============================================================================
