------------------------------ MODULE Evidence ------------------------------
(***************************************************************************)
(* The author's workspace: how the evidence in artifacts/ comes to be about *)
(* the corpus in data/generated and the hold-out that was frozen.           *)
(*                                                                          *)
(* Scripts write files one after another and may be stopped between two of  *)
(* them: the generator its corpus, precompute_embeddings the pair of cache  *)
(* files, build_artifacts the graded artifacts.  freeze_holdout may be run  *)
(* from a second terminal while another script works; the others are run    *)
(* one at a time.  Seeding is one transaction (module Loader).              *)
(*                                                                          *)
(* A corpus is what one state of the generator's source produces, so a file *)
(* on disk is named by the corpus it was written from.  A text is a number, *)
(* which is also its content hash; its true vector is the text itself.      *)
(***************************************************************************)
EXTENDS Integers, FiniteSets, Sequences, Functions

CONSTANTS
    None,
    Corpora,      \* each with its documents, chunks and questions
    HeldOut,      \* the families the hash of the identifier holds out
    Graded,       \* the artifacts of build_all, in the order they are written
    ReadFrom,     \* kill condition -> the artifact that it grades
    Breached,     \* kill condition -> the corpora whose scores do not meet it
    Disclosed,    \* DISCLOSED_FAILURES, the conditions recorded as failing
    MaxGenerated  \* bound: times the generator is started

ASSUME EvidenceAssumption ==
    /\ None \notin DOMAIN Corpora
    /\ \A name \in DOMAIN Corpora :
         /\ IsFiniteSet(DOMAIN Corpora[name].chunks)
         /\ IsFiniteSet(DOMAIN Corpora[name].questions)
         /\ \A c \in DOMAIN Corpora[name].chunks : Corpora[name].chunks[c].text \in Nat
         /\ \A q \in DOMAIN Corpora[name].questions : Corpora[name].questions[q].text \in Nat
    /\ Graded \in Seq(Range(Graded)) /\ Graded # << >>
    /\ \A condition \in DOMAIN ReadFrom : ReadFrom[condition] \in Range(Graded)
    /\ MaxGenerated \in Nat

VARIABLES
    disk,         \* the corpus each file in data/generated was written from, or None
    cache,        \* the texts whose vectors and whose hashes are in the two cache files
    index,        \* chunk id -> its row: the text, and the text its vector is of
    frozen,       \* holdout.json: the membership, or None
    artifacts,    \* graded artifact -> what it is stamped with and was scored from, or None
    others,       \* the other files in artifacts/ that are looked for and not read
    report,       \* release_gate.json, or None
    job,          \* the script that is writing, or None
    generated,    \* history: times the generator was started
    chain,        \* history: how far corpus, freeze, index, artifacts, release gate have run
                  \* in this order
    mispaired     \* history: a precompute was stopped between its two files, and the hashes
                  \* it found were of other texts, as many

vars == <<disk, cache, index, frozen, artifacts, others, report, job, generated, chain, mispaired>>

CorpusFiles == {"documents", "chunks", "questions", "manifest"}
Others == {"corpus.json", "breaches.json"}

-----------------------------------------------------------------------------
(* The split (holdout.py, splits.py, generate.py) *)

SplitOf(family) == IF family \in HeldOut THEN "holdout" ELSE "development"

Documents == Corpora[disk["documents"]].documents
Chunks == Corpora[disk["chunks"]].chunks
Questions == Corpora[disk["questions"]].questions

\* compute: the families on the hold-out side, named by documents or by questions, and what
\* belongs to them.  The digest is of these identifiers and of nothing else.
Compute(documents, questions) ==
    LET held(records) == {id \in DOMAIN records : SplitOf(records[id].family) = "holdout"}
        families(records) == {records[id].family : id \in held(records)}
    IN  [families |-> families(documents) \union families(questions),
         documents |-> held(documents), questions |-> held(questions)]

\* verify_partition: a chunk that the map does not have resolves to nothing and is passed over.
PartitionHolds(documents, questions, documentOf) ==
    \A q \in DOMAIN questions : \A c \in questions[q].cites \intersect DOMAIN documentOf :
        /\ documentOf[c] \in DOMAIN documents
        /\ SplitOf(documents[documentOf[c]].family) = SplitOf(questions[q].family)

\* The memberships there can be.
Memberships ==
    {Compute(Corpora[d].documents, Corpora[q].questions) : d \in DOMAIN Corpora, q \in DOMAIN Corpora}

\* _leaked_documents: reached from both splits, or from a split other than its family's.  Every
\* document of a family has the family's split here, as document_records gives it.
LeakedDocuments(corpus) ==
    LET reachedBy(d) == {corpus.questions[q].split : q \in {p \in DOMAIN corpus.questions :
                            \E c \in corpus.questions[p].cites : corpus.chunks[c].document = d}}
    IN  {d \in DOMAIN corpus.documents :
            reachedBy(d) # {} /\ reachedBy(d) # {SplitOf(corpus.documents[d].family)}}

-----------------------------------------------------------------------------
(* Scripts *)

Start(script) == job = None /\ job' = script

Init ==
    /\ disk = [file \in CorpusFiles |-> None]
    /\ cache = [vectors |-> None, hashes |-> None]
    /\ index = << >>
    /\ frozen = None
    /\ artifacts = [name \in Range(Graded) |-> None]
    /\ others = {}
    /\ report = None
    /\ job = None
    /\ generated = 0 /\ chain = 0 /\ mispaired = FALSE

\* Mutant: the questions are written before the passages they cite.
QuestionsFirst == <<"documents", "questions", "chunks", "manifest">>

CorpusFilesInOrder == <<"documents", "chunks", "questions", "manifest">>

\* build: everything is checked in memory before the first file is written.
Generate(name) ==
    /\ LeakedDocuments(Corpora[name]) = {}
    /\ Start([script |-> "generate", corpus |-> name,
              todo |-> CorpusFilesInOrder])
    /\ generated < MaxGenerated
    /\ generated' = generated + 1
    /\ chain' = 0
    /\ UNCHANGED <<disk, cache, index, frozen, artifacts, others, report, mispaired>>

WriteCorpusFile ==
    /\ job # None /\ job.script = "generate" /\ job.todo # << >>
    /\ disk' = [disk EXCEPT ![Head(job.todo)] = job.corpus]
    /\ job' = [job EXCEPT !.todo = Tail(@)]
    /\ UNCHANGED <<cache, index, frozen, artifacts, others, report, generated, chain, mispaired>>

WriteCorpusArtifact ==
    /\ job # None /\ job.script = "generate" /\ job.todo = << >>
    /\ others' = others \union {"corpus.json"}
    /\ chain' = 1
    /\ job' = None
    /\ UNCHANGED <<disk, cache, index, frozen, artifacts, report, generated, mispaired>>

\* freeze: the first run writes the membership, a later one that finds it moved does so only when
\* it is told to.  With chunks.json missing the references have nothing to resolve through.
Freeze(allow_refreeze) ==
    /\ disk["documents"] # None /\ disk["questions"] # None
    /\ PartitionHolds(Documents, Questions,
           IF disk["chunks"] = None THEN << >>
                                    ELSE [c \in DOMAIN Chunks |-> Chunks[c].document])
    /\ LET computed == Compute(Documents, Questions)
       IN  /\ frozen \in {None, computed} \/ allow_refreeze
           /\ frozen' = computed
           /\ job' = IF job # None /\ job.script = "build" /\ frozen # computed
                       THEN [job EXCEPT !.refrozen = @ \/ job.stamp = None] ELSE job
    /\ chain' = IF chain = 1 THEN 2 ELSE IF frozen' = frozen THEN chain ELSE 0
    /\ UNCHANGED <<disk, cache, index, artifacts, others, report, generated, mispaired>>

-----------------------------------------------------------------------------
(* The vector cache (precomputed.py) and the index *)

\* sorted(by_hash): in the i-th place the text that has i - 1 before it.
SortedByHash(texts) ==
    [i \in 1..Cardinality(texts) |->
        CHOOSE text \in texts : Cardinality({earlier \in texts : earlier < text}) = i - 1]

\* The distinct texts of the passages, and of the questions when there are any.
DistinctTexts ==
    {Chunks[c].text : c \in DOMAIN Chunks}
      \union IF disk["questions"] = None THEN {} ELSE {Questions[q].text : q \in DOMAIN Questions}

CacheJobs ==
    [script : {"precompute"}, texts : Seq(Nat), todo : {<<"vectors", "hashes">>, <<"hashes">>}]

Precompute ==
    /\ disk["chunks"] # None
    /\ Start([script |-> "precompute", texts |-> SortedByHash(DistinctTexts), todo |-> <<"vectors", "hashes">>])
    /\ UNCHANGED <<disk, cache, index, frozen, artifacts, others, report, chain, generated, mispaired>>

WriteCacheFile ==
    /\ job # None /\ job.script = "precompute"
    /\ cache' = [cache EXCEPT ![Head(job.todo)] = job.texts]
    /\ IF Len(job.todo) = 1
         THEN job' = None
         ELSE job' = [job EXCEPT !.todo = Tail(@)]
    /\ UNCHANGED <<disk, index, frozen, artifacts, others, report, chain, generated, mispaired>>

Readable == cache.vectors # None /\ cache.hashes # None

\* Mutant: the pair of files is not compared at all.
AnyPairLoads == TRUE

\* load_cache refuses a pair only when the counts differ.
CountsAgree == Readable => Len(cache.vectors) = Len(cache.hashes)

\* The vector CachedEmbedder gives a text: the one in its hash's place, or a fresh one.
VectorOf(text) ==
    IF Readable /\ \E i \in DOMAIN cache.hashes \intersect DOMAIN cache.vectors : cache.hashes[i] = text
      THEN cache.vectors[CHOOSE i \in DOMAIN cache.hashes : cache.hashes[i] = text]
      ELSE text

\* Mutant: a row that is there is left alone.
RowExists(c) == c \in DOMAIN index

\* A row whose text is unchanged keeps the vector it has, and no row is ever deleted.
Unchanged(c) == c \in DOMAIN index /\ index[c].text = Chunks[c].text

Seed ==
    /\ job = None
    /\ disk["documents"] # None /\ disk["chunks"] # None
    /\ CountsAgree
    /\ index' = [c \in DOMAIN Chunks \union DOMAIN index |->
                   IF c \notin DOMAIN Chunks \/ Unchanged(c) THEN index[c]
                   ELSE [text |-> Chunks[c].text, vector |-> VectorOf(Chunks[c].text)]]
    /\ chain' = IF chain = 2 THEN 3 ELSE chain
    /\ UNCHANGED <<disk, cache, frozen, artifacts, others, report, job, generated, mispaired>>

-----------------------------------------------------------------------------
(* The artifacts *)

\* What build_artifacts reads of the corpus, and what an artifact is written from.
TruthFiles == {"documents", "chunks", "questions"}
Scores == [stamp : Memberships, truth : [TruthFiles -> DOMAIN Corpora], refrozen : BOOLEAN]

\* Mutant: a corpus with another membership is scored too.
ScoresAnyMembership == frozen # None

\* _load_corpus refuses to score a membership other than the frozen one.
MayScore == frozen # None /\ Compute(Documents, Questions) = frozen

StartBuild ==
    /\ \A file \in TruthFiles : disk[file] # None
    /\ MayScore
    /\ Start([script |-> "build", stamp |-> None, refrozen |-> FALSE, todo |-> Graded,
              truth |-> [file \in TruthFiles |-> disk[file]]])
    /\ UNCHANGED <<disk, cache, index, frozen, artifacts, others, report, chain, generated, mispaired>>

\* _provenance reads the freeze again, after every arm has been scored.
StampProvenance ==
    /\ job # None /\ job.script = "build" /\ job.stamp = None
    /\ job' = [job EXCEPT !.stamp = frozen]
    /\ UNCHANGED <<disk, cache, index, frozen, artifacts, others, report, generated, chain, mispaired>>

WriteArtifact ==
    /\ job # None /\ job.script = "build" /\ job.stamp # None
    /\ artifacts' = [artifacts EXCEPT ![Head(job.todo)] =
                       [stamp |-> job.stamp, truth |-> job.truth, refrozen |-> job.refrozen]]
    /\ IF Len(job.todo) = 1
         THEN job' = None /\ chain' = IF chain = 3 THEN 4 ELSE chain
         ELSE job' = [job EXCEPT !.todo = Tail(@)] /\ UNCHANGED chain
    /\ UNCHANGED <<disk, cache, index, frozen, others, report, generated, mispaired>>

\* plant_breaches needs a corpus and an index that is not empty.
PlantBreaches ==
    /\ job = None
    /\ disk["chunks"] # None /\ DOMAIN index # {}
    /\ others' = others \union {"breaches.json"}
    /\ UNCHANGED <<disk, cache, index, frozen, artifacts, report, job, chain, generated, mispaired>>

-----------------------------------------------------------------------------
(* The release gate (release_gate.py), and what the pages make of it (app.py) *)

\* What the kill test says of a condition now: a missing artifact fails it.
Grade(condition) ==
    LET artifact == artifacts[ReadFrom[condition]]
    IN  IF artifact = None \/ artifact.truth["questions"] \in Breached[condition]
          THEN "FAIL" ELSE "PASS"

Reports == [release_gate : {"PASSED", "FAILED"},
            conditions : [DOMAIN ReadFrom -> {"PASS", "FAIL", "NOT RUN"}]]

\* Python's None is not a membership, an artifact, a report or a script at work.
ASSUME NoneAssumption ==
    None \notin Memberships /\ None \notin Scores /\ None \notin Reports /\ None \notin CacheJobs

\* A test whose name is nowhere in the output was not run, and so was none when it does not start.
RunKillTest(starts) ==
    [condition \in DOMAIN ReadFrom |-> IF starts THEN Grade(condition) ELSE "NOT RUN"]

\* The report is written before what did not run is looked at.  Success is the failures that are
\* recorded, no fewer and no more.
ReleaseGate(starts) ==
    LET verdicts == RunKillTest(starts)
        failing == {condition \in DOMAIN verdicts : verdicts[condition] = "FAIL"}
        succeeds == starts /\ failing = Disclosed
    IN  /\ job = None
        /\ report' = [release_gate |-> IF failing = {} THEN "PASSED" ELSE "FAILED",
                      conditions |-> verdicts]
        /\ chain' = IF chain < 4 THEN chain ELSE IF succeeds THEN 5 ELSE 4
        /\ UNCHANGED <<disk, cache, index, frozen, artifacts, others, job, generated, mispaired>>

\* The banner of every page, and the verdict in a condition's row beside what its artifact says.
Banner == IF report = None THEN "NOT RUN" ELSE report.release_gate
WithVerdict(condition) == IF report = None THEN "NOT RUN" ELSE report.conditions[condition]

\* The process is stopped: what it has written stays.
Interrupt ==
    /\ job # None
    /\ job' = None
    /\ mispaired' = (mispaired \/ /\ job.script = "precompute" /\ Len(job.todo) = 1
                                  /\ cache.hashes \notin {None, job.texts}
                                  /\ Len(cache.hashes) = Len(job.texts))
    /\ UNCHANGED <<disk, cache, index, frozen, artifacts, others, report, generated, chain>>

Next ==
    \/ \E name \in DOMAIN Corpora : Generate(name)
    \/ WriteCorpusFile \/ WriteCorpusArtifact
    \/ \E allow_refreeze \in BOOLEAN : Freeze(allow_refreeze)
    \/ Precompute \/ WriteCacheFile \/ Seed
    \/ StartBuild \/ StampProvenance \/ WriteArtifact
    \/ PlantBreaches
    \/ \E starts \in BOOLEAN : ReleaseGate(starts)
    \/ Interrupt

Spec == Init /\ [][Next]_vars

-----------------------------------------------------------------------------
(* Properties *)

\* check_artifacts_current: every artifact and sidecar is there, and every graded one is stamped
\* with the membership now frozen.
Accepted ==
    /\ frozen # None
    /\ others = Others /\ report # None
    /\ \A name \in Range(Graded) : artifacts[name] # None /\ artifacts[name].stamp = frozen

Scored(artifact) ==
    Compute(Corpora[artifact.truth["documents"]].documents, Corpora[artifact.truth["questions"]].questions)

\* Types; and the questions are never on disk without the passages they cite, so that freezing
\* always has the references to look through.
TypeOK ==
    /\ disk \in [CorpusFiles -> DOMAIN Corpora \union {None}]
    /\ others \subseteq Others
    /\ generated \in 0..MaxGenerated /\ chain \in 0..5 /\ mispaired \in BOOLEAN
    /\ disk["questions"] # None => disk["chunks"] # None /\ disk["documents"] # None
    /\ \A c \in DOMAIN index : index[c].text \in Nat /\ index[c].vector \in Nat

\* Evidence that is accepted was scored on the hold-out that is frozen, whatever was regenerated,
\* refrozen, rebuilt and interrupted before; the one way around it is a refreeze while the build
\* that wrote the artifact was still scoring.
AcceptedEvidenceIsOfTheFreeze ==
    Accepted => \A name \in Range(Graded) :
        artifacts[name].refrozen \/ Scored(artifacts[name]) = frozen

\* A vector that is not its text's comes from a precompute stopped between its two files over a
\* corpus with as many texts as the one before; a cache left from another corpus never misleads,
\* however corpora, caches and loads follow each other.  (Once in the index such a vector stays,
\* the cache repaired or not: the loader sees that the text has not changed.)
WrongVectorsComeFromACrash ==
    (\E c \in DOMAIN index : index[c].vector # index[c].text) => mispaired

\* Run to the end in this order, whatever half-finished state was there before, the generator,
\* the freeze, the seed and the build leave one corpus behind: on disk, in the index, under the
\* scores, and evidence that is accepted; and when the release gate then succeeds, the pages give
\* every condition the verdict of the artifact beside it.  (release_gate.json has no stamp and the
\* build does not touch it, so in any other order an old verdict stands beside new figures; and
\* where the kill test did not start, the banner says PASSED.)
ChainLeavesOneCorpus ==
    /\ chain >= 4 =>
        /\ \A file \in CorpusFiles : disk[file] = disk["manifest"]
        /\ \A name \in Range(Graded) : \A file \in DOMAIN artifacts[name].truth :
              artifacts[name].truth[file] = disk[file]
        /\ \A c \in DOMAIN Chunks : index[c].text = Chunks[c].text
        /\ others = Others /\ report # None => Accepted
    /\ chain = 5 =>
        /\ \A condition \in DOMAIN ReadFrom : WithVerdict(condition) = Grade(condition)
        /\ Banner = "FAILED" <=> Disclosed # {}
=============================================================================
