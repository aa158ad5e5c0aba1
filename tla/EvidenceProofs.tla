--------------------------- MODULE EvidenceProofs ---------------------------
(***************************************************************************)
(* The author's workspace, for any number of corpora, artifacts and          *)
(* conditions and any number of runs of the scripts: evidence that is        *)
(* accepted was scored on the freeze, a wrong vector comes from one crash    *)
(* only, and the scripts run in order leave one corpus behind.               *)
(***************************************************************************)
EXTENDS Evidence, FiniteSetTheorems, TLAPS

\* The script at work, if there is one.
Running(script) == job # None /\ job.script = script

Files == CorpusFilesInOrder
Left == <<Files, <<"chunks", "questions", "manifest">>, <<"questions", "manifest">>, <<"manifest">>, << >> >>

\* A file names a corpus; the questions come after what they cite; and the generator has written
\* what it no longer has to.
FilesHold ==
    /\ disk \in [CorpusFiles -> DOMAIN Corpora \union {None}]
    /\ disk["questions"] # None => disk["chunks"] # None /\ disk["documents"] # None
    /\ Running("generate") =>
         /\ DOMAIN job = {"script", "corpus", "todo"}
         /\ job.corpus \in DOMAIN Corpora
         /\ \E k \in 1..5 : /\ job.todo = Left[k]
                            /\ \A i \in 1..(k - 1) : disk[Files[i]] = job.corpus

\* The two cache files are of one list of texts, unless the counts tell or the pair is mixed: by a
\* precompute between its two files, or by one that was stopped there.
CacheHolds ==
    /\ DOMAIN cache = {"vectors", "hashes"}
    /\ cache.vectors # None => cache.vectors \in Seq(Nat)
    /\ cache.hashes # None => cache.hashes \in Seq(Nat)
    /\ Running("precompute") =>
         job \in CacheJobs /\ (job.todo = <<"hashes">> => cache.vectors = job.texts)
    /\ \/ ~Readable
       \/ cache.vectors = cache.hashes
       \/ Len(cache.vectors) # Len(cache.hashes)
       \/ mispaired
       \/ Running("precompute") /\ job.todo = <<"hashes">>

IndexHolds ==
    /\ \A c \in DOMAIN index : index[c].text \in Nat /\ index[c].vector \in Nat
    /\ mispaired \/ \A c \in DOMAIN index : index[c].vector = index[c].text

HistoryHolds ==
    /\ others \subseteq Others
    /\ generated \in 0..MaxGenerated /\ chain \in 0..5 /\ mispaired \in BOOLEAN

\* A build scores the corpus that is on disk; unless the freeze was moved meanwhile, what it stamps
\* is the membership that it scored.
BuildHolds ==
    /\ frozen \in Memberships \union {None}
    /\ Running("build") =>
         /\ DOMAIN job = {"script", "stamp", "refrozen", "todo", "truth"}
         /\ frozen # None
         /\ job.truth \in [TruthFiles -> DOMAIN Corpora]
         /\ \A file \in TruthFiles : job.truth[file] = disk[file]
         /\ job.refrozen \in BOOLEAN
         /\ job.refrozen \/ Scored(job) = IF job.stamp = None THEN frozen ELSE job.stamp
         /\ job.stamp # None => job.stamp \in Memberships

\* So what is on disk was scored from what it is stamped with, unless it says that it was not.
ArtifactsHold ==
    /\ DOMAIN artifacts = Range(Graded)
    /\ \A name \in Range(Graded) : artifacts[name] # None =>
         /\ artifacts[name] \in Scores
         /\ artifacts[name].refrozen \/ Scored(artifacts[name]) = artifacts[name].stamp

IInv == FilesHold /\ CacheHolds /\ IndexHolds /\ HistoryHolds /\ BuildHolds /\ ArtifactsHold

-----------------------------------------------------------------------------
(* The scripts in order *)

\* Scored from what is on disk, and stamped with what is frozen.
Current(artifact) ==
    /\ artifact # None /\ artifact.stamp = frozen
    /\ \A file \in TruthFiles : artifact.truth[file] = disk[file]

AfterGenerate ==
    /\ disk["manifest"] # None /\ ~Running("generate")
    /\ \A file \in CorpusFiles : disk[file] = disk["manifest"]

AfterFreeze == frozen = Compute(Documents, Questions)

\* A build that began now has written the first artifacts of the list.
AfterSeed ==
    /\ \A c \in DOMAIN Chunks : c \in DOMAIN index /\ index[c].text = Chunks[c].text
    /\ Running("build") =>
         /\ job.stamp \in {None, frozen}
         /\ \E k \in 1..Len(Graded) :
              /\ job.todo = SubSeq(Graded, k, Len(Graded))
              /\ \A i \in 1..(k - 1) : Current(artifacts[Graded[i]])

AfterBuild == \A name \in Range(Graded) : Current(artifacts[name])

AfterReleaseGate ==
    /\ report # None
    /\ report.conditions = [condition \in DOMAIN ReadFrom |-> Grade(condition)]
    /\ report.release_gate = IF Disclosed = {} THEN "PASSED" ELSE "FAILED"

ChainHolds ==
    /\ chain >= 1 => AfterGenerate
    /\ chain >= 2 => AfterFreeze
    /\ chain >= 3 => AfterSeed
    /\ chain >= 4 => AfterBuild
    /\ chain >= 5 => AfterReleaseGate

-----------------------------------------------------------------------------
(* The steps of each script *)

\* The generator takes the files in order.
LEMMA OneFileLess ==
    ASSUME NEW k \in 1..4
    PROVE  /\ Left[k] # << >> /\ Head(Left[k]) = Files[k] /\ Tail(Left[k]) = Left[k + 1]
           /\ Files[k] \in CorpusFiles
<1>1. CASE k = 1
  BY <1>1 DEF Left, Files, CorpusFilesInOrder, CorpusFiles
<1>2. CASE k = 2
  BY <1>2 DEF Left, Files, CorpusFilesInOrder, CorpusFiles
<1>3. CASE k = 3
  BY <1>3 DEF Left, Files, CorpusFilesInOrder, CorpusFiles
<1>4. CASE k = 4
  BY <1>4 DEF Left, Files, CorpusFilesInOrder, CorpusFiles
<1> QED
  BY <1>1, <1>2, <1>3, <1>4

\* Whoever is not the generator leaves the corpus alone.
LEMMA FilesStay ==
    ASSUME FilesHold, disk' = disk, Running("generate")' => job' = job
    PROVE  FilesHold'
BY DEF FilesHold, Running

\* A file of the corpus is written after those it refers to.
LEMMA CorpusFileWritten ==
    ASSUME FilesHold, WriteCorpusFile
    PROVE  FilesHold'
<1>1. PICK k \in 1..5 : /\ job.todo = Left[k]
                        /\ \A i \in 1..(k - 1) : disk[Files[i]] = job.corpus
  BY DEF FilesHold, WriteCorpusFile, Running
<1>2. k \in 1..4
  <2>1. Left[5] = << >>
    BY DEF Left
  <2> QED
    BY <1>1, <2>1 DEF WriteCorpusFile
<1>3. /\ disk' = [disk EXCEPT ![Files[k]] = job.corpus] /\ Files[k] \in CorpusFiles
      /\ job' = [job EXCEPT !.todo = Left[k + 1]]
  BY <1>1, <1>2, OneFileLess DEF WriteCorpusFile
<1>4. /\ job.script = "generate" /\ job.corpus \in DOMAIN Corpora
      /\ DOMAIN job = {"script", "corpus", "todo"}
      /\ disk \in [CorpusFiles -> DOMAIN Corpora \union {None}]
      /\ disk["questions"] # None => disk["chunks"] # None /\ disk["documents"] # None
  BY DEF FilesHold, WriteCorpusFile, Running
<1>5. disk' \in [CorpusFiles -> DOMAIN Corpora \union {None}]
  BY <1>3, <1>4
<1>6. /\ job'.corpus = job.corpus /\ job'.todo = Left[k + 1]
      /\ DOMAIN job' = {"script", "corpus", "todo"}
  BY <1>3, <1>4
<1>7. \A i \in 1..k : disk'[Files[i]] = job.corpus
  <2> SUFFICES ASSUME NEW i \in 1..k PROVE disk'[Files[i]] = job.corpus
    OBVIOUS
  <2>1. Files[i] \in CorpusFiles
    BY <1>2, OneFileLess
  <2>2. CASE i = k
    BY <1>3, <1>4, <2>2
  <2>3. CASE i # k
    BY <1>1, <1>2, <1>3, <1>4, <2>1, <2>3
  <2> QED
    BY <2>2, <2>3
<1>8. disk'["questions"] # None => disk'["chunks"] # None /\ disk'["documents"] # None
  <2>1. job.corpus # None
    BY <1>4, EvidenceAssumption
  <2>2. Files[1] = "documents" /\ Files[2] = "chunks" /\ Files[3] = "questions"
        /\ Files[4] = "manifest"
    BY DEF Files, CorpusFilesInOrder
  <2>3. \A file \in CorpusFiles : disk'[file] = disk[file] \/ disk'[file] = job.corpus
    BY <1>3, <1>4
  <2>4. {"documents", "chunks", "questions"} \subseteq CorpusFiles
    BY DEF CorpusFiles
  <2>5. CASE k <= 2
    <3>1. disk'["questions"] = disk["questions"]
      <4>1. Files[k] # "questions"
        BY <1>2, <2>2, <2>5
      <4> QED
        BY <1>3, <1>4, <2>4, <4>1
    <3> QED
      BY <1>4, <2>1, <2>3, <2>4, <3>1
  <2>6. CASE k >= 3
    BY <1>2, <1>7, <2>1, <2>2, <2>6
  <2> QED
    BY <1>2, <2>5, <2>6
<1>9. k + 1 \in 1..5 /\ (k + 1) - 1 = k
  BY <1>2
<1> QED
  BY <1>5, <1>6, <1>7, <1>8, <1>9, <1>4 DEF FilesHold, Running

\* A freeze beside a build is noted in it, if it moved the membership before the stamp.
LEMMA FreezeBesideAJob ==
    ASSUME BuildHolds, NEW allow_refreeze \in BOOLEAN, Freeze(allow_refreeze)
    PROVE  \/ job' = job /\ (Running("build") => frozen' = frozen)
           \/ /\ Running("build") /\ frozen' # frozen
              /\ DOMAIN job' = DOMAIN job /\ job'.script = "build" /\ job'.stamp = job.stamp
              /\ job'.truth = job.truth /\ job'.todo = job.todo
              /\ job'.refrozen = (job.refrozen \/ job.stamp = None)
<1> DEFINE computed == Compute(Documents, Questions)
<1>1. /\ frozen' = computed
      /\ job' = IF job # None /\ job.script = "build" /\ frozen # computed
                  THEN [job EXCEPT !.refrozen = @ \/ job.stamp = None] ELSE job
  BY DEF Freeze
<1> HIDE DEF computed
<1>2. CASE Running("build") /\ frozen # computed
  <2>1. DOMAIN job = {"script", "stamp", "refrozen", "todo", "truth"} /\ job.script = "build"
    BY <1>2 DEF BuildHolds, Running
  <2>2. job' = [job EXCEPT !.refrozen = @ \/ job.stamp = None]
    BY <1>1, <1>2 DEF Running
  <2> QED
    BY <1>1, <1>2, <2>1, <2>2
<1>3. CASE ~(Running("build") /\ frozen # computed)
  BY <1>1, <1>3 DEF Running
<1> QED
  BY <1>2, <1>3

\* The corpus on disk, step by step.
LEMMA FilesAreKept ==
    ASSUME FilesHold, CacheHolds, BuildHolds, [Next]_vars
    PROVE  FilesHold'
<1>1. CASE \E name \in DOMAIN Corpora : Generate(name)
  <2>1. PICK name \in DOMAIN Corpora : Generate(name)
    BY <1>1
  <2>2. /\ disk' = disk
        /\ job' = [script |-> "generate", corpus |-> name, todo |-> CorpusFilesInOrder]
    BY <2>1 DEF Generate, Start
  <2>3. job'.todo = Left[1] /\ \A i \in 1..(1 - 1) : disk'[Files[i]] = job'.corpus
    BY <2>2 DEF Left, Files
  <2>4. 1 \in 1..5
    OBVIOUS
  <2>5. DOMAIN job' = {"script", "corpus", "todo"} /\ job'.corpus \in DOMAIN Corpora
    BY <2>2
  <2> QED
    BY <2>2, <2>3, <2>4, <2>5 DEF FilesHold
<1>2. CASE WriteCorpusFile
  BY <1>2, CorpusFileWritten
<1>3. CASE WriteCorpusArtifact \/ Interrupt
  BY <1>3, FilesStay DEF WriteCorpusArtifact, Interrupt, Running
<1>4. CASE \E allow_refreeze \in BOOLEAN : Freeze(allow_refreeze)
  <2>1. PICK allow_refreeze \in BOOLEAN : Freeze(allow_refreeze)
    BY <1>4
  <2>2. disk' = disk
    BY <2>1 DEF Freeze
  <2> QED
    BY <2>1, <2>2, FreezeBesideAJob, FilesStay DEF Running
<1>5. CASE Precompute \/ StartBuild
  BY <1>5, FilesStay DEF Precompute, StartBuild, Start, Running
<1>6. CASE WriteCacheFile
  <2>1. job \in CacheJobs /\ disk' = disk
    BY <1>6 DEF WriteCacheFile, CacheHolds, Running
  <2> QED
    BY <1>6, <2>1, FilesStay DEF WriteCacheFile, CacheJobs, Running
<1>7. CASE StampProvenance \/ WriteArtifact
  <2>1. /\ DOMAIN job = {"script", "stamp", "refrozen", "todo", "truth"} /\ job.script = "build"
        /\ disk' = disk
    BY <1>7 DEF StampProvenance, WriteArtifact, BuildHolds, Running
  <2> QED
    BY <1>7, <2>1, FilesStay DEF StampProvenance, WriteArtifact, Running
<1>8. CASE Seed \/ PlantBreaches \/ \E starts \in BOOLEAN : ReleaseGate(starts)
  BY <1>8, FilesStay DEF Seed, PlantBreaches, ReleaseGate
<1>9. CASE UNCHANGED vars
  BY <1>9, FilesStay DEF vars
<1> QED
  BY <1>1, <1>2, <1>3, <1>4, <1>5, <1>6, <1>7, <1>8, <1>9 DEF Next

\* Sorting a finite set of texts by hash gives a list of them: every place has its text.
LEMMA SortedAreTexts ==
    ASSUME NEW texts, texts \subseteq Nat, IsFiniteSet(texts)
    PROVE  SortedByHash(texts) \in [1..Cardinality(texts) -> texts]
<1> DEFINE n == Cardinality(texts)
           Earlier(text) == {earlier \in texts : earlier < text}
           rank == [text \in texts |-> Cardinality(Earlier(text))]
<1>1. n \in Nat
  BY FS_CardinalityType
<1>2. ASSUME NEW text \in texts
      PROVE  /\ IsFiniteSet(Earlier(text)) /\ Cardinality(Earlier(text)) \in 0..(n - 1)
  <2>1. IsFiniteSet(Earlier(text)) /\ Cardinality(Earlier(text)) <= n
    BY FS_Subset
  <2>2. Cardinality(Earlier(text)) # n
    <3>1. text \notin Earlier(text)
      OBVIOUS
    <3>2. Earlier(text) # texts
      BY <3>1
    <3> QED
      BY <3>2, FS_Subset
  <2>3. Cardinality(Earlier(text)) \in Nat
    BY <2>1, FS_CardinalityType
  <2> HIDE DEF Earlier, n
  <2> QED
    BY <1>1, <2>1, <2>2, <2>3
<1>3. ASSUME NEW a \in texts, NEW b \in texts, a < b
      PROVE  Cardinality(Earlier(a)) # Cardinality(Earlier(b))
  <2>1. Earlier(a) \subseteq Earlier(b)
    <3> SUFFICES ASSUME NEW text \in texts, text < a PROVE text < b
      OBVIOUS
    <3>1. text \in Nat /\ a \in Nat /\ b \in Nat
      OBVIOUS
    <3> QED
      BY <1>3, <3>1
  <2>2. a \in Earlier(b) /\ a \notin Earlier(a)
    BY <1>3
  <2>3. IsFiniteSet(Earlier(b))
    BY <1>2
  <2> HIDE DEF Earlier
  <2> QED
    BY <2>1, <2>2, <2>3, FS_Subset
<1>4. rank \in Injection(texts, 0..(n - 1))
  <2>1. rank \in [texts -> 0..(n - 1)]
    BY <1>2
  <2>2. ASSUME NEW a \in texts, NEW b \in texts, rank[a] = rank[b]
        PROVE  a = b
    <3>1. a \in Nat /\ b \in Nat
      OBVIOUS
    <3>2. ~(a < b) /\ ~(b < a)
      BY <1>3, <2>2
    <3> QED
      BY <3>1, <3>2
  <2> HIDE DEF rank
  <2> QED
    BY <2>1, <2>2 DEF Injection, IsInjective
<1>5. IsFiniteSet(0..(n - 1)) /\ Cardinality(0..(n - 1)) = n
  <2> HIDE DEF n
  <2>1. 0 \in Int /\ n - 1 \in Int
    BY <1>1
  <2>2. IsFiniteSet(0..(n - 1)) /\ Cardinality(0..(n - 1)) = IF 0 > n - 1 THEN 0 ELSE (n - 1) - 0 + 1
    BY <2>1, FS_Interval
  <2> QED
    BY <1>1, <2>2
<1>6. rank \in Surjection(texts, 0..(n - 1))
  BY <1>4, <1>5, FS_Injection
<1>7. ASSUME NEW i \in 1..n
      PROVE  (CHOOSE text \in texts : Cardinality(Earlier(text)) = i - 1) \in texts
  <2>1. i - 1 \in 0..(n - 1)
    BY <1>1
  <2>2. \E text \in texts : rank[text] = i - 1
    BY <1>6, <2>1 DEF Surjection
  <2>3. \E text \in texts : Cardinality(Earlier(text)) = i - 1
    BY <2>2
  <2> HIDE DEF Earlier
  <2> QED
    BY <2>3
<1> QED
  BY <1>7 DEF SortedByHash

\* The texts a precompute encodes.
LEMMA TextsAreTexts ==
    ASSUME FilesHold, disk["chunks"] # None
    PROVE  SortedByHash(DistinctTexts) \in Seq(Nat)
<1>1. disk["chunks"] \in DOMAIN Corpora
  BY DEF FilesHold, CorpusFiles
<1>2. /\ IsFiniteSet({Chunks[c].text : c \in DOMAIN Chunks})
      /\ {Chunks[c].text : c \in DOMAIN Chunks} \subseteq Nat
  <2> DEFINE f == [c \in DOMAIN Chunks |-> Chunks[c].text]
  <2>1. IsFiniteSet(DOMAIN Chunks)
    BY <1>1, EvidenceAssumption DEF Chunks
  <2>2. f \in Surjection(DOMAIN Chunks, {Chunks[c].text : c \in DOMAIN Chunks})
    BY DEF Surjection
  <2>3. {Chunks[c].text : c \in DOMAIN Chunks} \subseteq Nat
    BY <1>1, EvidenceAssumption DEF Chunks
  <2> HIDE DEF f
  <2> QED
    BY <2>1, <2>2, <2>3, FS_Surjection
<1>3. ASSUME disk["questions"] # None
      PROVE  /\ IsFiniteSet({Questions[q].text : q \in DOMAIN Questions})
             /\ {Questions[q].text : q \in DOMAIN Questions} \subseteq Nat
  <2> DEFINE f == [q \in DOMAIN Questions |-> Questions[q].text]
  <2>1. disk["questions"] \in DOMAIN Corpora
    BY <1>3 DEF FilesHold, CorpusFiles
  <2>2. IsFiniteSet(DOMAIN Questions)
    BY <2>1, EvidenceAssumption DEF Questions
  <2>3. f \in Surjection(DOMAIN Questions, {Questions[q].text : q \in DOMAIN Questions})
    BY DEF Surjection
  <2>4. {Questions[q].text : q \in DOMAIN Questions} \subseteq Nat
    BY <2>1, EvidenceAssumption DEF Questions
  <2> HIDE DEF f
  <2> QED
    BY <2>2, <2>3, <2>4, FS_Surjection
<1>4. IsFiniteSet(DistinctTexts) /\ DistinctTexts \subseteq Nat
  BY <1>2, <1>3, FS_Union, FS_EmptySet DEF DistinctTexts
<1>5. SortedByHash(DistinctTexts) \in [1..Cardinality(DistinctTexts) -> DistinctTexts]
  BY <1>4, SortedAreTexts
<1>6. Cardinality(DistinctTexts) \in Nat
  BY <1>4, FS_CardinalityType
<1>7. ASSUME NEW n \in Nat, NEW list \in [1..n -> DistinctTexts]
      PROVE  list \in Seq(Nat)
  <2>1. list \in [1..n -> Nat]
    <3> SUFFICES ASSUME NEW i \in 1..n PROVE list[i] \in Nat
      OBVIOUS
    <3> QED
      BY <1>4
  <2> QED
    BY <2>1
<1> QED
  BY <1>5, <1>6, <1>7

\* The pair of cache files, step by step.
LEMMA CacheIsKept ==
    ASSUME FilesHold, CacheHolds, BuildHolds, [Next]_vars
    PROVE  CacheHolds'
<1>1. ASSUME cache' = cache, mispaired' = mispaired,
             Running("precompute")' => job' = job, Running("precompute") => job' = job
      PROVE  CacheHolds'
  BY <1>1 DEF CacheHolds, Running, Readable
<1>2. CASE \E name \in DOMAIN Corpora : Generate(name)
  BY <1>1, <1>2 DEF Generate, Start, Running
<1>3. CASE WriteCorpusFile
  <2>1. DOMAIN job = {"script", "corpus", "todo"} /\ job.script = "generate"
    BY <1>3 DEF WriteCorpusFile, FilesHold, Running
  <2> QED
    BY <1>1, <1>3, <2>1 DEF WriteCorpusFile, Running
<1>4. CASE WriteCorpusArtifact
  BY <1>1, <1>4 DEF WriteCorpusArtifact, Running
<1>5. CASE \E allow_refreeze \in BOOLEAN : Freeze(allow_refreeze)
  <2>1. PICK allow_refreeze \in BOOLEAN : Freeze(allow_refreeze)
    BY <1>5
  <2>2. cache' = cache /\ mispaired' = mispaired
    BY <2>1 DEF Freeze
  <2> QED
    BY <1>1, <2>1, <2>2, FreezeBesideAJob DEF Running
<1>6. CASE Precompute
  <2>1. /\ job = None /\ disk["chunks"] # None
        /\ job' = [script |-> "precompute", texts |-> SortedByHash(DistinctTexts),
                   todo |-> <<"vectors", "hashes">>]
        /\ cache' = cache /\ mispaired' = mispaired
    BY <1>6 DEF Precompute, Start
  <2>2. SortedByHash(DistinctTexts) \in Seq(Nat)
    BY <2>1, TextsAreTexts
  <2>3. job' \in CacheJobs /\ job'.todo # <<"hashes">>
    <3>1. Len(<<"vectors", "hashes">>) # Len(<<"hashes">>)
      OBVIOUS
    <3> QED
      BY <2>1, <2>2, <3>1 DEF CacheJobs
  <2> QED
    BY <2>1, <2>2, <2>3 DEF CacheHolds, Running, Readable
<1>7. CASE WriteCacheFile
  <2>1. /\ job \in CacheJobs /\ job # None
        /\ job.todo = <<"hashes">> => cache.vectors = job.texts
        /\ cache' = [cache EXCEPT ![Head(job.todo)] = job.texts] /\ mispaired' = mispaired
    BY <1>7 DEF WriteCacheFile, CacheHolds, Running
  <2>2. DOMAIN cache = {"vectors", "hashes"}
    BY DEF CacheHolds
  <2>3. CASE job.todo = <<"vectors", "hashes">>
    <3>1. Head(job.todo) = "vectors" /\ Len(job.todo) # 1 /\ Tail(job.todo) = <<"hashes">>
      BY <2>3
    <3>2. job' = [job EXCEPT !.todo = Tail(job.todo)]
      BY <1>7, <3>1 DEF WriteCacheFile
    <3>3. job' \in CacheJobs /\ job'.script = "precompute" /\ job'.texts = job.texts
          /\ job'.todo = <<"hashes">>
      BY <2>1, <3>1, <3>2 DEF CacheJobs
    <3>4. /\ cache'.vectors = job.texts /\ cache'.hashes = cache.hashes
          /\ DOMAIN cache' = {"vectors", "hashes"}
      BY <2>1, <2>2, <3>1
    <3>5. job' # None /\ job.texts \in Seq(Nat)
      BY <2>1, <3>3, NoneAssumption DEF CacheJobs
    <3> QED
      BY <2>1, <3>3, <3>4, <3>5 DEF CacheHolds, Running, Readable
  <2>4. CASE job.todo = <<"hashes">>
    <3>1. Head(job.todo) = "hashes" /\ Len(job.todo) = 1
      BY <2>4
    <3>2. job' = None
      BY <1>7, <3>1 DEF WriteCacheFile
    <3>3. cache'.vectors = job.texts /\ cache'.hashes = job.texts
          /\ DOMAIN cache' = {"vectors", "hashes"}
      BY <2>1, <2>2, <2>4, <3>1
    <3>4. job.texts \in Seq(Nat)
      BY <2>1 DEF CacheJobs
    <3> QED
      BY <2>1, <3>2, <3>3, <3>4 DEF CacheHolds, Running
  <2> QED
    BY <2>1, <2>3, <2>4 DEF CacheJobs
<1>8. CASE Interrupt
  <2>1. /\ job # None /\ job' = None /\ cache' = cache
        /\ mispaired' = (mispaired \/ /\ job.script = "precompute" /\ Len(job.todo) = 1
                                      /\ cache.hashes \notin {None, job.texts}
                                      /\ Len(cache.hashes) = Len(job.texts))
    BY <1>8 DEF Interrupt
  <2>2. CASE Running("precompute") /\ job.todo = <<"hashes">> /\ Readable
    <3>1. cache.vectors = job.texts /\ cache.hashes # None /\ Len(job.todo) = 1
      BY <2>2 DEF CacheHolds, Readable
    <3>2. \/ cache.vectors = cache.hashes
          \/ Len(cache.vectors) # Len(cache.hashes)
          \/ mispaired'
      BY <2>1, <2>2, <3>1 DEF Running
    <3> QED
      BY <2>1, <3>2 DEF CacheHolds, Running
  <2>3. CASE ~(Running("precompute") /\ job.todo = <<"hashes">> /\ Readable)
    BY <2>1, <2>3 DEF CacheHolds, Running, Readable
  <2> QED
    BY <2>2, <2>3
<1>9. CASE StartBuild
  BY <1>1, <1>9 DEF StartBuild, Start, Running
<1>10. CASE StampProvenance \/ WriteArtifact
  <2>1. /\ DOMAIN job = {"script", "stamp", "refrozen", "todo", "truth"} /\ job.script = "build"
        /\ cache' = cache /\ mispaired' = mispaired
    BY <1>10 DEF StampProvenance, WriteArtifact, BuildHolds, Running
  <2> QED
    BY <1>1, <1>10, <2>1 DEF StampProvenance, WriteArtifact, Running
<1>11. CASE Seed \/ PlantBreaches \/ \E starts \in BOOLEAN : ReleaseGate(starts)
  BY <1>1, <1>11 DEF Seed, PlantBreaches, ReleaseGate
<1>12. CASE UNCHANGED vars
  BY <1>1, <1>12 DEF vars
<1> QED
  BY <1>2, <1>3, <1>4, <1>5, <1>6, <1>7, <1>8, <1>9, <1>10, <1>11, <1>12 DEF Next

\* The vector a text is given is its own, where the pair of cache files is of one list.
LEMMA VectorsAreOfTexts ==
    ASSUME NEW text \in Nat, CacheHolds, CountsAgree
    PROVE  /\ VectorOf(text) \in Nat
           /\ cache.vectors = cache.hashes => VectorOf(text) = text
<1> DEFINE Found == Readable /\ \E i \in DOMAIN cache.hashes \intersect DOMAIN cache.vectors :
                                  cache.hashes[i] = text
           place == CHOOSE i \in DOMAIN cache.hashes : cache.hashes[i] = text
<1>1. CASE Found
  <2>1. place \in DOMAIN cache.hashes /\ cache.hashes[place] = text
    BY <1>1
  <2>2. VectorOf(text) = cache.vectors[place]
    BY <1>1 DEF VectorOf
  <2>3. /\ cache.vectors \in Seq(Nat) /\ cache.hashes \in Seq(Nat)
        /\ Len(cache.vectors) = Len(cache.hashes)
    BY <1>1 DEF CacheHolds, CountsAgree, Readable
  <2> HIDE DEF place
  <2> QED
    BY <2>1, <2>2, <2>3
<1>2. CASE ~Found
  BY <1>2 DEF VectorOf
<1> QED
  BY <1>1, <1>2

\* The index, step by step: only a seed touches it, and no cache is half written then.
LEMMA IndexIsKept ==
    ASSUME FilesHold, CacheHolds, IndexHolds, HistoryHolds, [Next]_vars
    PROVE  IndexHolds'
<1>1. CASE Seed
  <2>1. /\ job = None /\ disk["chunks"] # None /\ CountsAgree /\ mispaired' = mispaired
        /\ index' = [c \in DOMAIN Chunks \union DOMAIN index |->
                       IF c \notin DOMAIN Chunks \/ Unchanged(c) THEN index[c]
                       ELSE [text |-> Chunks[c].text, vector |-> VectorOf(Chunks[c].text)]]
    BY <1>1 DEF Seed
  <2>2. disk["chunks"] \in DOMAIN Corpora
    BY <2>1 DEF FilesHold, CorpusFiles
  <2>3. \A c \in DOMAIN Chunks : Chunks[c].text \in Nat
    BY <2>2, EvidenceAssumption DEF Chunks
  <2>4. mispaired \/ ~Readable \/ cache.vectors = cache.hashes
    BY <2>1 DEF CacheHolds, CountsAgree, Running
  <2>5. ASSUME NEW c \in DOMAIN index'
        PROVE  /\ index'[c].text \in Nat /\ index'[c].vector \in Nat
               /\ mispaired \/ index'[c].vector = index'[c].text
    <3>1. CASE c \notin DOMAIN Chunks \/ Unchanged(c)
      <4>1. c \in DOMAIN index /\ index'[c] = index[c]
        BY <2>1, <3>1 DEF Unchanged
      <4> QED
        BY <4>1 DEF IndexHolds
    <3>2. CASE c \in DOMAIN Chunks /\ ~Unchanged(c)
      <4> DEFINE text == Chunks[c].text
      <4>1. index'[c].text = text /\ index'[c].vector = VectorOf(text) /\ text \in Nat
        BY <2>1, <2>3, <3>2
      <4>2. VectorOf(text) \in Nat /\ (cache.vectors = cache.hashes => VectorOf(text) = text)
        BY <2>1, <4>1, VectorsAreOfTexts
      <4>3. ~Readable => VectorOf(text) = text
        BY DEF VectorOf
      <4> QED
        BY <2>4, <4>1, <4>2, <4>3
    <3> QED
      BY <3>1, <3>2
  <2> QED
    BY <2>1, <2>5 DEF IndexHolds
<1>2. CASE UNCHANGED index /\ (mispaired => mispaired')
  BY <1>2 DEF IndexHolds
<1>3. [Next]_vars => Seed \/ (UNCHANGED index /\ (mispaired => mispaired'))
  BY DEF Next, vars, Generate, WriteCorpusFile, WriteCorpusArtifact, Freeze, Precompute,
         WriteCacheFile, StartBuild, StampProvenance, WriteArtifact, PlantBreaches, ReleaseGate,
         Interrupt
<1> QED
  BY <1>1, <1>2, <1>3

\* The counters and histories, step by step.
LEMMA HistoryIsKept ==
    ASSUME HistoryHolds, [Next]_vars
    PROVE  HistoryHolds'
<1>1. CASE \E name \in DOMAIN Corpora : Generate(name)
  BY <1>1, EvidenceAssumption DEF Generate, HistoryHolds
<1>2. CASE WriteCorpusFile \/ WriteCorpusArtifact
  BY <1>2 DEF WriteCorpusFile, WriteCorpusArtifact, HistoryHolds, Others
<1>3. CASE \E allow_refreeze \in BOOLEAN : Freeze(allow_refreeze)
  BY <1>3 DEF Freeze, HistoryHolds
<1>4. CASE Precompute \/ WriteCacheFile \/ Seed
  BY <1>4 DEF Precompute, WriteCacheFile, Seed, HistoryHolds
<1>5. CASE StartBuild \/ StampProvenance \/ WriteArtifact \/ PlantBreaches
  BY <1>5 DEF StartBuild, StampProvenance, WriteArtifact, PlantBreaches, HistoryHolds, Others
<1>6. CASE \E starts \in BOOLEAN : ReleaseGate(starts)
  BY <1>6 DEF ReleaseGate, HistoryHolds
<1>7. CASE Interrupt
  <2>1. mispaired' \in BOOLEAN
    BY <1>7 DEF Interrupt
  <2> QED
    BY <1>7, <2>1 DEF Interrupt, HistoryHolds
<1>8. CASE UNCHANGED vars
  BY <1>8 DEF vars, HistoryHolds
<1> QED
  BY <1>1, <1>2, <1>3, <1>4, <1>5, <1>6, <1>7, <1>8 DEF Next

\* The membership of what is on disk.
LEMMA ComputedIsMembership ==
    ASSUME FilesHold, disk["documents"] # None, disk["questions"] # None
    PROVE  Compute(Documents, Questions) \in Memberships /\ Compute(Documents, Questions) # None
<1>1. disk["documents"] \in DOMAIN Corpora /\ disk["questions"] \in DOMAIN Corpora
  BY DEF FilesHold, CorpusFiles
<1> QED
  BY <1>1, NoneAssumption DEF Memberships, Documents, Questions

\* A build at work, step by step.
LEMMA BuildIsKept ==
    ASSUME FilesHold, CacheHolds, BuildHolds, [Next]_vars
    PROVE  BuildHolds'
<1>1. ASSUME frozen' = frozen, Running("build")' => job' = job /\ disk' = disk
      PROVE  BuildHolds'
  BY <1>1 DEF BuildHolds, Running
<1>2. CASE \E name \in DOMAIN Corpora : Generate(name)
  BY <1>1, <1>2 DEF Generate, Start, Running
<1>3. CASE WriteCorpusFile
  <2>1. DOMAIN job = {"script", "corpus", "todo"} /\ job.script = "generate"
    BY <1>3 DEF WriteCorpusFile, FilesHold, Running
  <2> QED
    BY <1>1, <1>3, <2>1 DEF WriteCorpusFile, Running
<1>4. CASE WriteCorpusArtifact \/ Interrupt
  BY <1>1, <1>4 DEF WriteCorpusArtifact, Interrupt, Running
<1>5. CASE \E allow_refreeze \in BOOLEAN : Freeze(allow_refreeze)
  <2>1. PICK allow_refreeze \in BOOLEAN : Freeze(allow_refreeze)
    BY <1>5
  <2>2. disk' = disk /\ frozen' = Compute(Documents, Questions)
        /\ disk["documents"] # None /\ disk["questions"] # None
    BY <2>1 DEF Freeze
  <2>3. frozen' \in Memberships /\ frozen' # None
    BY <2>2, ComputedIsMembership
  <2>4. CASE job' = job /\ (Running("build") => frozen' = frozen)
    BY <2>2, <2>3, <2>4 DEF BuildHolds, Running
  <2>5. CASE /\ Running("build") /\ frozen' # frozen
             /\ DOMAIN job' = DOMAIN job /\ job'.script = "build" /\ job'.stamp = job.stamp
             /\ job'.truth = job.truth /\ job'.todo = job.todo
             /\ job'.refrozen = (job.refrozen \/ job.stamp = None)
    <3>1. Scored(job') = Scored(job)
      BY <2>5 DEF Scored
    <3>2. job'.refrozen \in BOOLEAN
      BY <2>5
    <3>3. job'.refrozen \/ Scored(job') = IF job'.stamp = None THEN frozen' ELSE job'.stamp
      BY <2>5, <3>1 DEF BuildHolds
    <3> QED
      BY <2>2, <2>3, <2>5, <3>2, <3>3 DEF BuildHolds, Running
  <2> QED
    BY <2>1, <2>4, <2>5, FreezeBesideAJob
<1>6. CASE Precompute
  BY <1>1, <1>6 DEF Precompute, Start, Running
<1>7. CASE WriteCacheFile
  <2>1. job \in CacheJobs
    BY <1>7 DEF WriteCacheFile, CacheHolds, Running
  <2> QED
    BY <1>1, <1>7, <2>1 DEF WriteCacheFile, CacheJobs, Running
<1>8. CASE StartBuild
  <2>1. /\ \A file \in TruthFiles : disk[file] # None
        /\ frozen # None /\ Compute(Documents, Questions) = frozen
        /\ job' = [script |-> "build", stamp |-> None, refrozen |-> FALSE, todo |-> Graded,
                   truth |-> [file \in TruthFiles |-> disk[file]]]
        /\ disk' = disk /\ frozen' = frozen
    BY <1>8 DEF StartBuild, MayScore, Start
  <2>2. job'.truth = [file \in TruthFiles |-> disk[file]] /\ job'.stamp = None
        /\ job'.refrozen = FALSE
        /\ DOMAIN job' = {"script", "stamp", "refrozen", "todo", "truth"}
    BY <2>1
  <2>3. job'.truth \in [TruthFiles -> DOMAIN Corpora]
    BY <2>1, <2>2 DEF FilesHold, TruthFiles, CorpusFiles
  <2>4. Scored(job') = Compute(Documents, Questions)
    BY <2>2 DEF Scored, Documents, Questions, TruthFiles
  <2> QED
    BY <2>1, <2>2, <2>3, <2>4 DEF BuildHolds
<1>9. CASE StampProvenance
  <2>1. /\ Running("build") /\ job.stamp = None /\ job' = [job EXCEPT !.stamp = frozen]
        /\ disk' = disk /\ frozen' = frozen
    BY <1>9 DEF StampProvenance, Running
  <2>2. /\ DOMAIN job = {"script", "stamp", "refrozen", "todo", "truth"}
        /\ frozen # None /\ frozen \in Memberships
        /\ job.refrozen \/ Scored(job) = frozen
    BY <2>1 DEF BuildHolds
  <2>3. /\ DOMAIN job' = DOMAIN job /\ job'.stamp = frozen /\ job'.truth = job.truth
        /\ job'.refrozen = job.refrozen
    BY <2>1, <2>2
  <2>4. Scored(job') = Scored(job)
    BY <2>3 DEF Scored
  <2> QED
    BY <2>1, <2>2, <2>3, <2>4 DEF BuildHolds
<1>10. CASE WriteArtifact
  <2>1. /\ Running("build") /\ disk' = disk /\ frozen' = frozen
        /\ job' = None \/ job' = [job EXCEPT !.todo = Tail(@)]
    BY <1>10 DEF WriteArtifact, Running
  <2>2. CASE job' = None
    BY <2>1, <2>2 DEF BuildHolds, Running
  <2>3. CASE job' = [job EXCEPT !.todo = Tail(@)]
    <3>1. /\ DOMAIN job' = DOMAIN job /\ job'.stamp = job.stamp /\ job'.truth = job.truth
          /\ job'.refrozen = job.refrozen
      BY <2>1, <2>3 DEF BuildHolds
    <3>2. Scored(job') = Scored(job)
      BY <3>1 DEF Scored
    <3> QED
      BY <2>1, <3>1, <3>2 DEF BuildHolds
  <2> QED
    BY <2>1, <2>2, <2>3
<1>11. CASE Seed \/ PlantBreaches \/ \E starts \in BOOLEAN : ReleaseGate(starts)
  BY <1>1, <1>11 DEF Seed, PlantBreaches, ReleaseGate
<1>12. CASE UNCHANGED vars
  BY <1>1, <1>12 DEF vars
<1> QED
  BY <1>2, <1>3, <1>4, <1>5, <1>6, <1>7, <1>8, <1>9, <1>10, <1>11, <1>12 DEF Next

\* The artifacts on disk, step by step.
LEMMA ArtifactsAreKept ==
    ASSUME BuildHolds, ArtifactsHold, [Next]_vars
    PROVE  ArtifactsHold'
<1>1. CASE WriteArtifact
  <2>1. /\ Running("build") /\ job.stamp # None
        /\ artifacts' = [artifacts EXCEPT ![Head(job.todo)] =
                           [stamp |-> job.stamp, truth |-> job.truth, refrozen |-> job.refrozen]]
    BY <1>1 DEF WriteArtifact, Running
  <2> DEFINE new == [stamp |-> job.stamp, truth |-> job.truth, refrozen |-> job.refrozen]
  <2>2. new \in Scores
    BY <2>1 DEF BuildHolds, Scores
  <2>3. Scored(new) = Scored(job)
    BY DEF Scored
  <2>4. new.refrozen \/ Scored(new) = new.stamp
    BY <2>1, <2>3 DEF BuildHolds
  <2> HIDE DEF new
  <2>5. /\ DOMAIN artifacts' = Range(Graded)
        /\ \A name \in Range(Graded) : artifacts'[name] = artifacts[name] \/ artifacts'[name] = new
    BY <2>1 DEF ArtifactsHold, new
  <2> QED
    BY <2>2, <2>4, <2>5 DEF ArtifactsHold
<1>2. CASE UNCHANGED artifacts
  BY <1>2 DEF ArtifactsHold
<1>3. [Next]_vars => WriteArtifact \/ UNCHANGED artifacts
  BY DEF Next, vars, Generate, WriteCorpusFile, WriteCorpusArtifact, Freeze, Precompute,
         WriteCacheFile, Seed, StartBuild, StampProvenance, PlantBreaches, ReleaseGate, Interrupt
<1> QED
  BY <1>1, <1>2, <1>3

\* They hold when the workspace is empty.
LEMMA Initially == Init => IInv
<1> SUFFICES ASSUME Init PROVE IInv
  OBVIOUS
<1>1. FilesHold
  BY DEF Init, FilesHold, Running, CorpusFiles
<1>2. CacheHolds
  BY DEF Init, CacheHolds, Running, Readable
<1>3. IndexHolds /\ HistoryHolds
  <2>1. 0 \in 0..MaxGenerated /\ 0 \in 0..5
    BY EvidenceAssumption
  <2>2. HistoryHolds
    BY <2>1 DEF Init, HistoryHolds
  <2>3. DOMAIN index = {}
    BY DEF Init
  <2> QED
    BY <2>2, <2>3 DEF IndexHolds
<1>4. BuildHolds /\ ArtifactsHold
  BY DEF Init, BuildHolds, ArtifactsHold, Running
<1> QED
  BY <1>1, <1>2, <1>3, <1>4 DEF IInv

\* So they hold throughout.
LEMMA Invariance == Spec => []IInv
<1>1. IInv /\ [Next]_vars => IInv'
  BY FilesAreKept, CacheIsKept, IndexIsKept, HistoryIsKept, BuildIsKept, ArtifactsAreKept DEF IInv
<1> QED
  BY <1>1, Initially, PTL DEF Spec

-----------------------------------------------------------------------------
(* What follows *)

\* Every file is of a corpus or missing, and the questions are never there without what they cite.
THEOREM TypeCorrect == Spec => []TypeOK
<1>1. IInv => TypeOK
  BY DEF IInv, FilesHold, IndexHolds, HistoryHolds, TypeOK
<1> QED
  BY <1>1, Invariance, PTL

\* Evidence that is accepted was scored on the membership that is frozen, or says that the freeze
\* was moved while it was being scored.
THEOREM AcceptedIsOfTheFreeze == Spec => []AcceptedEvidenceIsOfTheFreeze
<1>1. IInv => AcceptedEvidenceIsOfTheFreeze
  BY DEF IInv, ArtifactsHold, Accepted, AcceptedEvidenceIsOfTheFreeze
<1> QED
  BY <1>1, Invariance, PTL

\* No cache left over from another corpus puts a wrong vector into the index: only a pair that a
\* stopped precompute mixed does.
THEOREM OnlyACrashMisleads == Spec => []WrongVectorsComeFromACrash
<1>1. IInv => WrongVectorsComeFromACrash
  BY DEF IInv, IndexHolds, WrongVectorsComeFromACrash
<1> QED
  BY <1>1, Invariance, PTL

-----------------------------------------------------------------------------
(* Run in order *)

\* The artifacts are written one after the other.
LEMMA OneArtifactLess ==
    ASSUME NEW k \in 1..Len(Graded)
    PROVE  LET todo == SubSeq(Graded, k, Len(Graded))
           IN  /\ Head(todo) = Graded[k] /\ Graded[k] \in Range(Graded)
               /\ Len(todo) = 1 <=> k = Len(Graded)
               /\ k # Len(Graded) => Tail(todo) = SubSeq(Graded, k + 1, Len(Graded))
<1> DEFINE n == Len(Graded)
           todo == SubSeq(Graded, k, n)
<1>1. Graded \in Seq(Range(Graded)) /\ n \in Nat
  BY EvidenceAssumption
<1>2. /\ todo = [i \in 1..(n - k + 1) |-> Graded[i + k - 1]] /\ Len(todo) = n - k + 1
      /\ todo \in Seq(Range(Graded))
  BY <1>1
<1>3. Head(todo) = Graded[k] /\ Graded[k] \in Range(Graded)
  BY <1>1, <1>2
<1>4. ASSUME k # n
      PROVE  Tail(todo) = SubSeq(Graded, k + 1, n)
  <2> DEFINE rest == SubSeq(Graded, k + 1, n)
  <2>1. k + 1 \in 1..n
    BY <1>1, <1>4
  <2>2. rest = [i \in 1..(n - (k + 1) + 1) |-> Graded[i + (k + 1) - 1]]
    BY <1>1, <2>1
  <2>3. Tail(todo) = [i \in 1..(Len(todo) - 1) |-> todo[i + 1]]
    BY <1>1, <1>2, <1>4
  <2> HIDE DEF rest, todo
  <2>4. ASSUME NEW i \in 1..(n - k)
        PROVE  todo[i + 1] = Graded[i + k] /\ Graded[i + (k + 1) - 1] = Graded[i + k]
    <3>1. i + 1 \in 1..(n - k + 1) /\ (i + 1) + k - 1 = i + k /\ i + (k + 1) - 1 = i + k
      BY <1>1
    <3> QED
      BY <1>2, <3>1
  <2>5. Len(todo) - 1 = n - k /\ n - (k + 1) + 1 = n - k
    BY <1>1, <1>2
  <2> QED
    BY <2>2, <2>3, <2>4, <2>5 DEF rest
<1>5. Len(todo) = 1 <=> k = n
  BY <1>1, <1>2
<1> QED
  BY <1>3, <1>4, <1>5

\* What touches none of the files that a later script reads leaves the chain as it is.
LEMMA ChainStays ==
    ASSUME ChainHolds, chain' = chain, disk' = disk, frozen' = frozen, index' = index,
           artifacts' = artifacts, report' = report,
           Running("generate")' => Running("generate"), Running("build")' => job' = job
    PROVE  ChainHolds'
BY DEF ChainHolds, AfterGenerate, AfterFreeze, AfterSeed, AfterBuild, AfterReleaseGate, Current,
       Running, Documents, Questions, Chunks, Grade

\* At the end of the generator all four files are of one corpus.
LEMMA GeneratorEnds ==
    ASSUME FilesHold, WriteCorpusArtifact
    PROVE  ChainHolds'
<1>1. Running("generate") /\ job.todo = << >> /\ job' = None /\ chain' = 1 /\ disk' = disk
  BY DEF WriteCorpusArtifact, Running
<1>2. PICK k \in 1..5 : /\ job.todo = Left[k]
                        /\ \A i \in 1..(k - 1) : disk[Files[i]] = job.corpus
  BY <1>1 DEF FilesHold
<1>3. k = 5
  <2>1. k \notin 1..4
    BY <1>1, <1>2, OneFileLess
  <2> QED
    BY <2>1
<1>4. \A file \in CorpusFiles : disk[file] = job.corpus
  <2>1. /\ Files[1] = "documents" /\ Files[2] = "chunks" /\ Files[3] = "questions"
        /\ Files[4] = "manifest"
    BY DEF Files, CorpusFilesInOrder
  <2>2. 1 \in 1..(k - 1) /\ 2 \in 1..(k - 1) /\ 3 \in 1..(k - 1) /\ 4 \in 1..(k - 1)
    BY <1>3
  <2>3. /\ disk[Files[1]] = job.corpus /\ disk[Files[2]] = job.corpus
        /\ disk[Files[3]] = job.corpus /\ disk[Files[4]] = job.corpus
    BY <1>2, <2>2
  <2> QED
    BY <2>1, <2>3 DEF CorpusFiles
<1>5. disk["manifest"] # None
  BY <1>1, <1>4, EvidenceAssumption DEF FilesHold, CorpusFiles
<1>6. AfterGenerate'
  BY <1>1, <1>4, <1>5 DEF AfterGenerate, Running, CorpusFiles
<1> QED
  BY <1>1, <1>6 DEF ChainHolds

\* A freeze after it is of that corpus, and one later on that moves the membership ends the chain.
LEMMA FreezeInOrder ==
    ASSUME IInv, ChainHolds, NEW allow_refreeze \in BOOLEAN, Freeze(allow_refreeze)
    PROVE  ChainHolds'
<1>1. /\ disk' = disk /\ index' = index /\ artifacts' = artifacts /\ report' = report
      /\ frozen' = Compute(Documents, Questions)
      /\ chain' = IF chain = 1 THEN 2 ELSE IF frozen' = frozen THEN chain ELSE 0
  BY DEF Freeze
<1>2. /\ Running("generate")' => Running("generate")
      /\ frozen' = frozen => job' = job
  BY FreezeBesideAJob DEF IInv, Running
<1>3. CASE chain = 1
  <2>1. AfterGenerate'
    BY <1>1, <1>2, <1>3 DEF ChainHolds, AfterGenerate
  <2>2. AfterFreeze'
    BY <1>1 DEF AfterFreeze, Documents, Questions
  <2> QED
    BY <1>1, <1>3, <2>1, <2>2 DEF ChainHolds
<1>4. CASE chain # 1 /\ frozen' = frozen
  BY <1>1, <1>2, <1>4, ChainStays
<1>5. CASE chain # 1 /\ frozen' # frozen
  BY <1>1, <1>5 DEF ChainHolds
<1> QED
  BY <1>3, <1>4, <1>5

\* A seed leaves the texts of that corpus in the index.
LEMMA SeedInOrder ==
    ASSUME IInv, ChainHolds, Seed
    PROVE  ChainHolds'
<1>1. /\ job = None /\ job' = job /\ disk' = disk /\ frozen' = frozen
      /\ artifacts' = artifacts /\ report' = report
      /\ index' = [c \in DOMAIN Chunks \union DOMAIN index |->
                     IF c \notin DOMAIN Chunks \/ Unchanged(c) THEN index[c]
                     ELSE [text |-> Chunks[c].text, vector |-> VectorOf(Chunks[c].text)]]
      /\ chain' = IF chain = 2 THEN 3 ELSE chain
  BY DEF Seed
<1>2. chain \in 0..5
  BY DEF IInv, HistoryHolds
<1>3. \A c \in DOMAIN Chunks : c \in DOMAIN index' /\ index'[c].text = Chunks[c].text
  BY <1>1 DEF Unchanged
<1>4. AfterSeed'
  BY <1>1, <1>3 DEF AfterSeed, Running, Chunks
<1>5. chain >= 1 => AfterGenerate'
  BY <1>1 DEF ChainHolds, AfterGenerate, Running
<1>6. chain >= 2 => AfterFreeze'
  BY <1>1 DEF ChainHolds, AfterFreeze, Documents, Questions
<1>7. chain >= 4 => AfterBuild'
  BY <1>1 DEF ChainHolds, AfterBuild, Current
<1>8. chain >= 5 => AfterReleaseGate'
  BY <1>1 DEF ChainHolds, AfterReleaseGate, Grade
<1> QED
  BY <1>1, <1>2, <1>4, <1>5, <1>6, <1>7, <1>8 DEF ChainHolds

\* A build begins at the head of the list.
LEMMA BuildBeginsInOrder ==
    ASSUME ChainHolds, StartBuild
    PROVE  ChainHolds'
<1>1. /\ job' = [script |-> "build", stamp |-> None, refrozen |-> FALSE, todo |-> Graded,
                 truth |-> [file \in TruthFiles |-> disk[file]]]
      /\ disk' = disk /\ frozen' = frozen /\ index' = index
      /\ artifacts' = artifacts /\ report' = report /\ chain' = chain
  BY DEF StartBuild, Start
<1>2. job'.stamp = None /\ job'.todo = Graded /\ job'.script = "build"
  BY <1>1
<1>3. chain >= 1 => AfterGenerate'
  BY <1>1, <1>2 DEF ChainHolds, AfterGenerate, Running
<1>4. chain >= 2 => AfterFreeze'
  BY <1>1 DEF ChainHolds, AfterFreeze, Documents, Questions
<1>5. chain >= 3 => AfterSeed'
  <2>1. 1 \in 1..Len(Graded) /\ Graded = SubSeq(Graded, 1, Len(Graded))
    BY EvidenceAssumption
  <2>2. \A i \in 1..(1 - 1) : Current(artifacts[Graded[i]])'
    OBVIOUS
  <2>3. chain >= 3 => \A c \in DOMAIN Chunks' : c \in DOMAIN index' /\ index'[c].text = Chunks'[c].text
    BY <1>1 DEF ChainHolds, AfterSeed, Chunks
  <2> QED
    BY <1>2, <2>1, <2>2, <2>3 DEF AfterSeed
<1>6. chain >= 4 => AfterBuild'
  BY <1>1 DEF ChainHolds, AfterBuild, Current
<1>7. chain >= 5 => AfterReleaseGate'
  BY <1>1 DEF ChainHolds, AfterReleaseGate, Grade
<1> QED
  BY <1>1, <1>3, <1>4, <1>5, <1>6, <1>7 DEF ChainHolds

\* What it stamps is what is frozen.
LEMMA StampInOrder ==
    ASSUME IInv, ChainHolds, StampProvenance
    PROVE  ChainHolds'
<1>1. /\ Running("build") /\ job' = [job EXCEPT !.stamp = frozen]
      /\ disk' = disk /\ frozen' = frozen /\ index' = index
      /\ artifacts' = artifacts /\ report' = report /\ chain' = chain
  BY DEF StampProvenance, Running
<1>2. /\ DOMAIN job = {"script", "stamp", "refrozen", "todo", "truth"} /\ job.script = "build"
  BY <1>1 DEF IInv, BuildHolds, Running
<1>3. job'.stamp = frozen /\ job'.todo = job.todo /\ job'.script = "build"
  BY <1>1, <1>2
<1>4. chain >= 1 => AfterGenerate'
  BY <1>1, <1>3 DEF ChainHolds, AfterGenerate, Running
<1>5. chain >= 2 => AfterFreeze'
  BY <1>1 DEF ChainHolds, AfterFreeze, Documents, Questions
<1>6. chain >= 3 => AfterSeed'
  BY <1>1, <1>3 DEF ChainHolds, AfterSeed, Running, Current, Chunks
<1>7. chain >= 4 => AfterBuild'
  BY <1>1 DEF ChainHolds, AfterBuild, Current
<1>8. chain >= 5 => AfterReleaseGate'
  BY <1>1 DEF ChainHolds, AfterReleaseGate, Grade
<1> QED
  BY <1>1, <1>4, <1>5, <1>6, <1>7, <1>8 DEF ChainHolds

\* Every artifact it writes is scored from what is on disk and stamped with what is frozen, and
\* after the last one all of them are; one that it replaces gets the grade that it had.
LEMMA ArtifactInOrder ==
    ASSUME IInv, ChainHolds, WriteArtifact
    PROVE  ChainHolds'
<1> DEFINE new == [stamp |-> job.stamp, truth |-> job.truth, refrozen |-> job.refrozen]
           n == Len(Graded)
<1>1. /\ Running("build") /\ job.stamp # None
      /\ artifacts' = [artifacts EXCEPT ![Head(job.todo)] = new]
      /\ disk' = disk /\ frozen' = frozen /\ index' = index /\ report' = report
      /\ \/ Len(job.todo) = 1 /\ job' = None /\ chain' = IF chain = 3 THEN 4 ELSE chain
         \/ Len(job.todo) # 1 /\ job' = [job EXCEPT !.todo = Tail(@)] /\ chain' = chain
  BY DEF WriteArtifact, Running
<1>2. /\ DOMAIN job = {"script", "stamp", "refrozen", "todo", "truth"} /\ job.script = "build"
      /\ \A file \in TruthFiles : job.truth[file] = disk[file]
      /\ job.stamp \in Memberships
      /\ DOMAIN artifacts = Range(Graded) /\ chain \in 0..5
  BY <1>1 DEF IInv, BuildHolds, ArtifactsHold, HistoryHolds, Running
<1>3. new \in Scores /\ new # None
  BY <1>1, <1>2, NoneAssumption DEF IInv, BuildHolds, Scores
<1>4. Len(job.todo) # 1 =>
        /\ DOMAIN job' = DOMAIN job /\ job'.script = "build" /\ job'.stamp = job.stamp
        /\ job'.todo = Tail(job.todo)
  BY <1>1, <1>2
<1>5. chain >= 1 => AfterGenerate'
  BY <1>1, <1>4 DEF ChainHolds, AfterGenerate, Running
<1>6. chain >= 2 => AfterFreeze'
  BY <1>1 DEF ChainHolds, AfterFreeze, Documents, Questions
<1>7. CASE chain < 3
  BY <1>1, <1>2, <1>5, <1>6, <1>7 DEF ChainHolds
<1>8. CASE chain >= 3
  <2>1. AfterSeed /\ job.stamp = frozen
    BY <1>1, <1>8 DEF ChainHolds, AfterSeed
  <2>2. PICK k \in 1..n : /\ job.todo = SubSeq(Graded, k, n)
                         /\ \A i \in 1..(k - 1) : Current(artifacts[Graded[i]])
    BY <1>1, <2>1 DEF AfterSeed
  <2>3. /\ Head(job.todo) = Graded[k] /\ Graded[k] \in Range(Graded)
        /\ Len(job.todo) = 1 <=> k = n
        /\ k # n => Tail(job.todo) = SubSeq(Graded, k + 1, n)
    BY <2>2, OneArtifactLess
  <2>4. /\ new.stamp = frozen' /\ new.truth = job.truth
    BY <1>1, <2>1
  <2> HIDE DEF new
  <2>5. Current(new)
    BY <1>1, <1>2, <1>3, <2>4 DEF Current
  <2>6. /\ artifacts'[Graded[k]] = new
        /\ \A name \in Range(Graded) : artifacts'[name] = new \/ artifacts'[name] = artifacts[name]
    BY <1>1, <1>2, <2>3
  <2>7. \A name \in Range(Graded) : Current(artifacts[name]) => Current(artifacts'[name])
    BY <1>1, <2>5, <2>6 DEF Current
  <2>8. n \in Nat /\ \A i \in 1..n : Graded[i] \in Range(Graded)
    BY EvidenceAssumption DEF Range
  <2> HIDE DEF n
  <2>9. \A i \in 1..k : Current(artifacts'[Graded[i]])
    <3> SUFFICES ASSUME NEW i \in 1..k PROVE Current(artifacts'[Graded[i]])
      OBVIOUS
    <3>1. CASE i = k
      BY <2>5, <2>6, <3>1
    <3>2. CASE i # k
      <4>1. i \in 1..(k - 1) /\ i \in 1..n
        BY <2>8, <3>2
      <4> QED
        BY <2>2, <2>7, <2>8, <4>1
    <3> QED
      BY <3>1, <3>2
  <2>10. AfterSeed'
    <3>1. \A c \in DOMAIN Chunks' : c \in DOMAIN index' /\ index'[c].text = Chunks'[c].text
      BY <1>1, <2>1 DEF AfterSeed, Chunks
    <3>2. CASE k = n
      BY <1>1, <2>3, <3>1, <3>2 DEF AfterSeed, Running
    <3>3. CASE k # n
      <4>1. k + 1 \in 1..n /\ (k + 1) - 1 = k
        BY <2>8, <3>3
      <4>2. job'.todo = SubSeq(Graded, k + 1, n) /\ job'.stamp = frozen'
        BY <1>1, <1>4, <2>1, <2>3, <3>3
      <4> QED
        <5>1. \A i \in 1..((k + 1) - 1) : Current(artifacts[Graded[i]])'
          BY <1>1, <2>9, <4>1 DEF Current
        <5>2. k + 1 \in 1..Len(Graded) /\ job'.todo = SubSeq(Graded, k + 1, Len(Graded))
          BY <4>1, <4>2 DEF n
        <5>3. job'.stamp \in {None, frozen'}
          BY <4>2
        <5> QED
          BY <3>1, <5>1, <5>2, <5>3 DEF AfterSeed
    <3> QED
      BY <3>2, <3>3
  <2>11. CASE chain >= 4
    <3>1. AfterBuild /\ chain' = chain
      BY <1>1, <1>2, <2>11 DEF ChainHolds
    <3>2. AfterBuild'
      BY <1>1, <2>7, <3>1 DEF AfterBuild, Current
    <3>3. chain >= 5 => AfterReleaseGate'
      <4>1. \A condition \in DOMAIN ReadFrom : Grade(condition)' = Grade(condition)
        <5> SUFFICES ASSUME NEW condition \in DOMAIN ReadFrom
                     PROVE  Grade(condition)' = Grade(condition)
          OBVIOUS
        <5>1. ReadFrom[condition] \in Range(Graded)
          BY EvidenceAssumption
        <5>2. /\ Current(artifacts[ReadFrom[condition]])
              /\ Current(artifacts'[ReadFrom[condition]])
          BY <2>7, <3>1, <5>1 DEF AfterBuild
        <5>3. "questions" \in TruthFiles
          BY DEF TruthFiles
        <5> QED
          BY <1>1, <5>2, <5>3 DEF Current, Grade
      <4> QED
        BY <1>1, <4>1 DEF ChainHolds, AfterReleaseGate
    <3> QED
      BY <1>5, <1>6, <2>10, <3>1, <3>2, <3>3 DEF ChainHolds
  <2>12. CASE chain = 3 /\ k = n
    <3>1. AfterBuild'
      BY <1>1, <2>9, <2>12 DEF AfterBuild, Current, n, Range
    <3>2. chain' = 4
      BY <1>1, <2>3, <2>12
    <3> QED
      BY <1>5, <1>6, <2>10, <2>12, <3>1, <3>2 DEF ChainHolds
  <2>13. CASE chain = 3 /\ k # n
    <3>1. chain' = 3
      BY <1>1, <2>3, <2>13
    <3> QED
      BY <1>5, <1>6, <2>10, <2>13, <3>1 DEF ChainHolds
  <2> QED
    BY <1>2, <1>8, <2>11, <2>12, <2>13
<1> QED
  BY <1>2, <1>7, <1>8

\* A release gate that succeeds has graded the artifacts that are there.
LEMMA ReleaseGateInOrder ==
    ASSUME IInv, ChainHolds, NEW starts \in BOOLEAN, ReleaseGate(starts)
    PROVE  ChainHolds'
<1> DEFINE verdicts == RunKillTest(starts)
           failing == {condition \in DOMAIN verdicts : verdicts[condition] = "FAIL"}
<1>1. /\ job = None /\ job' = job /\ disk' = disk /\ frozen' = frozen /\ index' = index
      /\ artifacts' = artifacts
      /\ report' = [release_gate |-> IF failing = {} THEN "PASSED" ELSE "FAILED",
                    conditions |-> verdicts]
      /\ chain' = IF chain < 4 THEN chain ELSE IF starts /\ failing = Disclosed THEN 5 ELSE 4
      /\ chain \in 0..5
  BY DEF ReleaseGate, IInv, HistoryHolds
<1>2. verdicts \in [DOMAIN ReadFrom -> {"PASS", "FAIL", "NOT RUN"}]
  BY DEF RunKillTest, Grade
<1> HIDE DEF verdicts
<1>3. report' \in Reports /\ report' # None
  <2>1. (IF failing = {} THEN "PASSED" ELSE "FAILED") \in {"PASSED", "FAILED"}
    OBVIOUS
  <2> HIDE DEF failing
  <2>2. report' \in Reports
    BY <1>1, <1>2, <2>1 DEF Reports
  <2> QED
    BY <2>2, NoneAssumption
<1>4. chain >= 1 => AfterGenerate'
  BY <1>1 DEF ChainHolds, AfterGenerate, Running
<1>5. chain >= 2 => AfterFreeze'
  BY <1>1 DEF ChainHolds, AfterFreeze, Documents, Questions
<1>6. chain >= 3 => AfterSeed'
  BY <1>1 DEF ChainHolds, AfterSeed, Running, Chunks
<1>7. chain >= 4 => AfterBuild'
  BY <1>1 DEF ChainHolds, AfterBuild, Current
<1>8. ASSUME chain' = 5
      PROVE  AfterReleaseGate'
  <2>1. starts /\ failing = Disclosed
    BY <1>1, <1>8
  <2>2. verdicts = [condition \in DOMAIN ReadFrom |-> Grade(condition)]
    BY <2>1 DEF verdicts, RunKillTest
  <2>3. \A condition : Grade(condition)' = Grade(condition)
    BY <1>1 DEF Grade
  <2> QED
    BY <1>1, <1>3, <2>1, <2>2, <2>3 DEF AfterReleaseGate
<1> QED
  BY <1>1, <1>4, <1>5, <1>6, <1>7, <1>8 DEF ChainHolds

\* Each script leaves the chain as far as it has run.
LEMMA ChainIsKept ==
    ASSUME IInv, ChainHolds, [Next]_vars
    PROVE  ChainHolds'
<1>1. CASE \E name \in DOMAIN Corpora : Generate(name)
  BY <1>1 DEF Generate, ChainHolds
<1>2. CASE WriteCorpusFile
  <2>1. Running("generate") /\ chain' = chain
    BY <1>2 DEF WriteCorpusFile, Running
  <2>2. ~(chain >= 1) /\ chain \in 0..5
    BY <2>1 DEF ChainHolds, AfterGenerate, IInv, HistoryHolds
  <2> QED
    BY <2>1, <2>2 DEF ChainHolds
<1>3. CASE WriteCorpusArtifact
  BY <1>3, GeneratorEnds DEF IInv
<1>4. CASE \E allow_refreeze \in BOOLEAN : Freeze(allow_refreeze)
  BY <1>4, FreezeInOrder
<1>5. CASE Precompute
  BY <1>5, ChainStays DEF Precompute, Start, Running
<1>6. CASE WriteCacheFile
  <2>1. job \in CacheJobs
    BY <1>6 DEF WriteCacheFile, IInv, CacheHolds, Running
  <2>2. job' = None \/ job'.script = "precompute"
    BY <1>6, <2>1 DEF WriteCacheFile, CacheJobs
  <2> QED
    BY <1>6, <2>2, ChainStays DEF WriteCacheFile, Running
<1>7. CASE Seed
  BY <1>7, SeedInOrder
<1>8. CASE StartBuild
  BY <1>8, BuildBeginsInOrder
<1>9. CASE StampProvenance
  BY <1>9, StampInOrder
<1>10. CASE WriteArtifact
  BY <1>10, ArtifactInOrder
<1>11. CASE PlantBreaches
  BY <1>11, ChainStays DEF PlantBreaches, Running
<1>12. CASE \E starts \in BOOLEAN : ReleaseGate(starts)
  BY <1>12, ReleaseGateInOrder
<1>13. CASE Interrupt
  BY <1>13, ChainStays DEF Interrupt, Running
<1>14. CASE UNCHANGED vars
  BY <1>14, ChainStays DEF vars, Running
<1> QED
  BY <1>1, <1>2, <1>3, <1>4, <1>5, <1>6, <1>7, <1>8, <1>9, <1>10, <1>11, <1>12, <1>13, <1>14
  DEF Next

\* Run in order, the scripts leave one corpus on disk, in the index and under the scores, and after
\* a release gate that succeeds the pages give every condition the verdict of its artifact.
THEOREM ChainLeavesOne == Spec => []ChainLeavesOneCorpus
<1>1. Init => ChainHolds
  BY DEF Init, ChainHolds
<1>2. IInv /\ ChainHolds /\ [Next]_vars => ChainHolds'
  BY ChainIsKept
<1>3. IInv /\ ChainHolds => ChainLeavesOneCorpus
  <2> SUFFICES ASSUME IInv, ChainHolds PROVE ChainLeavesOneCorpus
    OBVIOUS
  <2>1. chain \in 0..5
    BY DEF IInv, HistoryHolds
  <2>2. ASSUME chain >= 4
        PROVE  /\ \A file \in CorpusFiles : disk[file] = disk["manifest"]
               /\ \A name \in Range(Graded) : \A file \in DOMAIN artifacts[name].truth :
                     artifacts[name].truth[file] = disk[file]
               /\ \A c \in DOMAIN Chunks : index[c].text = Chunks[c].text
               /\ others = Others /\ report # None => Accepted
    <3>1. AfterGenerate /\ AfterSeed /\ AfterBuild
      BY <2>1, <2>2 DEF ChainHolds
    <3>2. \A name \in Range(Graded) : artifacts[name] # None /\ artifacts[name] \in Scores
      BY <3>1 DEF AfterBuild, Current, IInv, ArtifactsHold
    <3>3. \A name \in Range(Graded) : DOMAIN artifacts[name].truth = TruthFiles
      BY <3>2 DEF Scores
    <3>4. frozen # None
      <4>1. PICK name \in Range(Graded) : TRUE
        BY EvidenceAssumption DEF Range
      <4>2. artifacts[name].stamp = frozen /\ artifacts[name].stamp \in Memberships
        BY <3>1, <3>2 DEF AfterBuild, Current, Scores
      <4> QED
        BY <4>2, NoneAssumption
    <3> QED
      BY <3>1, <3>2, <3>3, <3>4 DEF AfterGenerate, AfterSeed, AfterBuild, Current, Accepted
  <2>3. ASSUME chain = 5
        PROVE  /\ \A condition \in DOMAIN ReadFrom : WithVerdict(condition) = Grade(condition)
               /\ Banner = "FAILED" <=> Disclosed # {}
    <3>1. AfterReleaseGate
      BY <2>3 DEF ChainHolds
    <3> QED
      BY <3>1 DEF AfterReleaseGate, WithVerdict, Banner
  <2> QED
    BY <2>2, <2>3 DEF ChainLeavesOneCorpus
<1>4. Spec => []ChainHolds
  BY <1>1, <1>2, Invariance, PTL DEF Spec
<1> QED
  BY <1>3, <1>4, Invariance, PTL
=============================================================================
