---------------------------- MODULE LoaderProofs ----------------------------
(***************************************************************************)
(* The check-then-act of load_chunks is sound for every number of seeders,  *)
(* every corpus and every interleaving: the document rows a seeder holds    *)
(* keep every other seeder off the chunks it has decided about.             *)
(***************************************************************************)
EXTENDS Loader, FiniteSetTheorems, TLAPS

Shape == seen = [p \in Procs |-> seen[p]]

IInv ==
    /\ TypeOK
    /\ Shape
    /\ DocumentsStayLocked
    /\ SeenIsCurrent
    /\ VectorDescribesText
    /\ LastLoadIsWhole

-----------------------------------------------------------------------------
(* What the constants and the definitions give a seeder *)

\* A seeder works on its image's corpus, whatever the probe has sampled.
LEMMA SeederFacts ==
    ASSUME NEW p \in Seeders
    PROVE  /\ p \in Procs /\ p # Probe
           /\ ImageOf[p] \in Images
           /\ MyDocs(p) = CorpusDocs[ImageOf[p]] /\ MyDocs(p) \subseteq Docs
           /\ MyChunks(p) = CorpusChunks[ImageOf[p]] /\ MyChunks(p) \subseteq Chunks
           /\ MyChunks(p)' = MyChunks(p)
           /\ \A c \in MyChunks(p) : DocOf[c] \in MyDocs(p)
           /\ \A c : HashFrom(p, c) = ContentHash(ModelOf[ImageOf[p]], TextOf[ImageOf[p]][c])
<1>1. p \in Procs /\ p # Probe
  BY LoaderAssumption DEF Procs
<1>2. ImageOf[p] \in Images
  BY <1>1, LoaderAssumption
<1>3. /\ MyDocs(p) = CorpusDocs[ImageOf[p]]
      /\ MyChunks(p) = CorpusChunks[ImageOf[p]]
      /\ MyChunks(p)' = MyChunks(p)
  BY <1>1 DEF MyDocs, MyChunks
<1>4. CorpusDocs[ImageOf[p]] \subseteq Docs /\ CorpusChunks[ImageOf[p]] \subseteq Chunks
  BY <1>2, LoaderAssumption
<1>5. \A c \in CorpusChunks[ImageOf[p]] : DocOf[c] \in CorpusDocs[ImageOf[p]]
  BY <1>2, LoaderAssumption
<1>6. \A c : HashFrom(p, c) = ContentHash(ModelOf[ImageOf[p]], TextOf[ImageOf[p]][c])
  BY <1>1 DEF HashFrom, ModelFrom, TextFrom
<1> QED
  BY <1>1, <1>2, <1>3, <1>4, <1>5, <1>6

\* A freshly written row describes its own text.
LEMMA FreshRowFacts ==
    ASSUME NEW v, NEW c
    PROVE  /\ DOMAIN FreshRow(v, c) = {"text", "meta", "hash", "vector", "model"}
           /\ FreshRow(v, c).hash = ContentHash(FreshRow(v, c).model, FreshRow(v, c).text)
           /\ FreshRow(v, c).vector = Embedding(FreshRow(v, c).model, FreshRow(v, c).text)
           /\ FreshRow(v, c).hash = ContentHash(ModelOf[v], TextOf[v][c])
           /\ FreshRow(v, c).model = ModelOf[v]
BY DEF FreshRow

\* _existing_state returns the hash and the model of the row.
LEMMA StoredStateFacts ==
    ASSUME NEW c
    PROVE  StoredState(c).hash = chunks[c].hash /\ StoredState(c).model = chunks[c].model
BY DEF StoredState

\* Two seeders that have both read the state share no chunk: its document is locked by one.
LEMMA DecidersAreDisjoint ==
    ASSUME DocumentsStayLocked,
           NEW p \in Seeders, NEW q \in Seeders, p # q, Deciding(p), Deciding(q)
    PROVE  MyChunks(p) \intersect MyChunks(q) = {}
BY SeederFacts DEF DocumentsStayLocked

\* A row is only kept when it is, column for column, the row the load would have written.
LEMMA KeptRowIsFresh ==
    ASSUME IInv, NEW p \in Seeders, Deciding(p), NEW c \in MyChunks(p) \ Stale(p)
    PROVE  c \in DOMAIN chunks /\ UnchangedRow(ImageOf[p], c) = FreshRow(ImageOf[p], c)
<1> DEFINE v == ImageOf[p]
<1>1. /\ c \in DOMAIN seen[p]
      /\ seen[p][c].hash = HashFrom(p, c)
      /\ seen[p][c].model = ModelOf[v]
  BY DEF Stale, NeedsEmbedding, ModelFrom
<1>2. c \in DOMAIN chunks /\ seen[p][c] = StoredState(c)
  BY <1>1 DEF IInv, SeenIsCurrent
<1>3. chunks[c].hash = ContentHash(ModelOf[v], TextOf[v][c]) /\ chunks[c].model = ModelOf[v]
  BY <1>1, <1>2, SeederFacts DEF StoredState
<1>4. /\ chunks[c].vector = Embedding(chunks[c].model, chunks[c].text)
      /\ chunks[c].hash = ContentHash(chunks[c].model, chunks[c].text)
  BY <1>2 DEF IInv, VectorDescribesText
<1>5. chunks[c].text = TextOf[v][c]
  BY <1>3, <1>4 DEF ContentHash
<1> QED
  BY <1>2, <1>3, <1>4, <1>5 DEF UnchangedRow, FreshRow

\* So a commit leaves, on every chunk of its corpus, the row of its image.
LEMMA CommitWritesImage ==
    ASSUME IInv, NEW p \in Seeders, Commit(p)
    PROVE  /\ DOMAIN chunks' = DOMAIN chunks \union MyChunks(p)
           /\ \A c \in MyChunks(p) : chunks'[c] = FreshRow(ImageOf[p], c)
           /\ \A c \in DOMAIN chunks \ MyChunks(p) : chunks'[c] = chunks[c]
<1>1. Deciding(p)
  BY DEF Commit, Deciding
<1>2. chunks' = [c \in DOMAIN chunks \union MyChunks(p) |->
                   CASE c \in Stale(p) -> FreshRow(ImageOf[p], c)
                     [] c \in MyChunks(p) \ Stale(p) -> UnchangedRow(ImageOf[p], c)
                     [] OTHER -> chunks[c]]
  BY DEF Commit
<1>3. ASSUME NEW c \in MyChunks(p)
      PROVE  chunks'[c] = FreshRow(ImageOf[p], c)
  <2>1. CASE c \in Stale(p)
    BY <1>2, <2>1
  <2>2. CASE c \notin Stale(p)
    <3>1. UnchangedRow(ImageOf[p], c) = FreshRow(ImageOf[p], c)
      BY <1>1, <2>2, KeptRowIsFresh
    <3> QED
      BY <1>2, <2>2, <3>1
  <2> QED
    BY <2>1, <2>2
<1>4. ASSUME NEW c \in DOMAIN chunks \ MyChunks(p)
      PROVE  chunks'[c] = chunks[c]
  BY <1>2, <1>4 DEF Stale
<1> QED
  BY <1>2, <1>3, <1>4
-----------------------------------------------------------------------------
(* Inductive invariant *)

\* Tables that are empty, or one earlier load, satisfy the invariant.
LEMMA Initially == ASSUME Init PROVE IInv
<1> USE DEF Init
<1>1. Shape /\ DocumentsStayLocked /\ SeenIsCurrent
  BY SeederFacts DEF Shape, DocumentsStayLocked, SeenIsCurrent, Deciding, Procs
<1>2. /\ pc \in [Procs -> {"start", "skipped", "done", "failed"} \union InTransaction]
      /\ docLock \in [Docs -> Procs \union {Free}]
      /\ chunkLock \in [Chunks -> Procs \union {Free}]
      /\ \A p \in Procs : DOMAIN seen[p] \subseteq Chunks
      /\ DOMAIN sampled \subseteq Chunks
      /\ restarts \in [Seeders -> 0..MaxRestarts]
  BY LoaderAssumption
<1>3. CASE documents = << >> /\ chunks = << >> /\ lastImage = NoImage
  <2>1. DOMAIN documents = {} /\ DOMAIN chunks = {}
    BY <1>3
  <2> QED
    BY <1>1, <1>2, <1>3, <2>1 DEF IInv, TypeOK, VectorDescribesText, LastLoadIsWhole
<1>4. CASE \E v \in Images : /\ documents = [d \in CorpusDocs[v] |-> MetaOf[v][d]]
                            /\ chunks = Loaded(v)
                            /\ lastImage = v
  <2>1. PICK v \in Images : /\ documents = [d \in CorpusDocs[v] |-> MetaOf[v][d]]
                           /\ chunks = [c \in CorpusChunks[v] |-> FreshRow(v, c)]
                           /\ lastImage = v
    BY <1>4 DEF Loaded
  <2>2. CorpusDocs[v] \subseteq Docs /\ CorpusChunks[v] \subseteq Chunks
    BY LoaderAssumption
  <2>3. VectorDescribesText /\ LastLoadIsWhole
    BY <2>1, FreshRowFacts DEF VectorDescribesText, LastLoadIsWhole
  <2>4. TypeOK
    BY <1>2, <2>1, <2>2, FreshRowFacts DEF TypeOK
  <2> QED
    BY <1>1, <2>3, <2>4 DEF IInv
<1> QED
  BY <1>3, <1>4

\* Most steps leave the tables alone and start nobody deciding: they cannot break what is
\* decided unless they take a lock away from a seeder that still holds its decision.
LEMMA QuietStep ==
    ASSUME IInv, TypeOK', Shape', UNCHANGED tables,
           \A p \in Seeders : Deciding(p)' =>
               /\ Deciding(p)
               /\ seen'[p] = seen[p]
               /\ \A d \in MyDocs(p) : docLock[d] = p => docLock'[d] = p
    PROVE  IInv'
<1>1. VectorDescribesText' /\ LastLoadIsWhole'
  BY DEF IInv, tables, VectorDescribesText, LastLoadIsWhole, FreshRow
<1>2. DocumentsStayLocked'
  BY DEF IInv, DocumentsStayLocked
<1>3. SeenIsCurrent'
  BY SeederFacts DEF IInv, tables, SeenIsCurrent, StoredState
<1> QED
  BY <1>1, <1>2, <1>3 DEF IInv

\* The read is what starts a decision, with every document row of the corpus in hand.
LEMMA ReadStateStep ==
    ASSUME IInv, NEW p \in Procs, ReadState(p)
    PROVE  IInv'
<1> USE DEF ReadState, tables
<1>1. TypeOK'
  BY DEF IInv, TypeOK, InTransaction
<1>2. /\ Shape'
      /\ seen'[p] = [c \in MyChunks(p) \intersect DOMAIN chunks |-> StoredState(c)]
      /\ \A q \in Procs \ {p} : seen'[q] = seen[q] /\ pc'[q] = pc[q]
  BY DEF IInv, Shape, TypeOK
<1>3. VectorDescribesText' /\ LastLoadIsWhole'
  BY DEF IInv, VectorDescribesText, LastLoadIsWhole, FreshRow
<1>4. DocumentsStayLocked'
  BY <1>2, SeederFacts DEF IInv, DocumentsStayLocked, Deciding, Unlocked
<1>5. SeenIsCurrent'
  <2> SUFFICES ASSUME NEW q \in Seeders, Deciding(q)'
               PROVE  /\ DOMAIN seen'[q] = MyChunks(q) \intersect DOMAIN chunks
                      /\ \A c \in DOMAIN seen'[q] : seen'[q][c] = StoredState(c)
    BY SeederFacts DEF SeenIsCurrent, StoredState, Deciding
  <2>1. CASE q = p
    BY <1>2, <2>1
  <2>2. CASE q # p
    BY <1>2, <2>2, SeederFacts DEF IInv, SeenIsCurrent, Deciding
  <2> QED
    BY <2>1, <2>2
<1> QED
  BY <1>1, <1>2, <1>3, <1>4, <1>5 DEF IInv

\* A commit replaces the chunks of its own corpus, which nobody else has decided about.
LEMMA CommitStep ==
    ASSUME IInv, NEW p \in Seeders, Commit(p)
    PROVE  IInv'
<1> DEFINE v == ImageOf[p]
<1>1. Deciding(p)
  BY DEF Commit, Deciding
<1>2. /\ p \in Procs /\ v \in Images
      /\ MyDocs(p) = CorpusDocs[v] /\ MyDocs(p) \subseteq Docs
      /\ MyChunks(p) = CorpusChunks[v] /\ MyChunks(p) \subseteq Chunks
  BY SeederFacts
<1>3. /\ DOMAIN chunks' = DOMAIN chunks \union MyChunks(p)
      /\ \A c \in MyChunks(p) : chunks'[c] = FreshRow(v, c)
      /\ \A c \in DOMAIN chunks \ MyChunks(p) : chunks'[c] = chunks[c]
  BY CommitWritesImage
<1>4. /\ documents' = [d \in DOMAIN documents \union MyDocs(p) |->
                         IF d \in MyDocs(p) THEN MetaOf[v][d] ELSE documents[d]]
      /\ lastImage' = v
      /\ pc' = [pc EXCEPT ![p] = "done"]
      /\ docLock' = [d \in Docs |-> IF docLock[d] = p THEN Free ELSE docLock[d]]
      /\ chunkLock' = [c \in Chunks |-> IF chunkLock[c] = p THEN Free ELSE chunkLock[c]]
      /\ UNCHANGED <<seen, sampled, restarts>>
  BY DEF Commit, ReleaseLocks
<1>5. pc'[p] = "done" /\ \A q \in Procs \ {p} : pc'[q] = pc[q]
  BY <1>2, <1>4 DEF IInv, TypeOK
<1>6. TypeOK'
  <2>1. DOMAIN documents' \subseteq Docs /\ DOMAIN chunks' \subseteq Chunks
    BY <1>2, <1>3, <1>4 DEF IInv, TypeOK
  <2>2. \A c \in DOMAIN chunks' : DOMAIN chunks'[c] = {"text", "meta", "hash", "vector", "model"}
    BY <1>3, FreshRowFacts DEF IInv, TypeOK
  <2>3. /\ pc' \in [Procs -> {"start", "skipped", "done", "failed"} \union InTransaction]
        /\ docLock' \in [Docs -> Procs \union {Free}]
        /\ chunkLock' \in [Chunks -> Procs \union {Free}]
    BY <1>4 DEF IInv, TypeOK
  <2> QED
    BY <1>2, <1>4, <2>1, <2>2, <2>3 DEF IInv, TypeOK
<1>7. Shape'
  BY <1>4 DEF IInv, Shape
<1>8. \A q \in Seeders : Deciding(q)' =>
          q # p /\ Deciding(q) /\ MyChunks(p) \intersect MyChunks(q) = {}
  BY <1>1, <1>5, SeederFacts, DecidersAreDisjoint DEF IInv, Deciding
<1>9. DocumentsStayLocked'
  BY <1>4, <1>8, SeederFacts DEF IInv, DocumentsStayLocked
<1>10. SeenIsCurrent'
  BY <1>3, <1>4, <1>8, SeederFacts DEF IInv, SeenIsCurrent, StoredState
<1>11. VectorDescribesText'
  <2> SUFFICES ASSUME NEW c \in DOMAIN chunks'
               PROVE  /\ chunks'[c].vector = Embedding(chunks'[c].model, chunks'[c].text)
                      /\ chunks'[c].hash = ContentHash(chunks'[c].model, chunks'[c].text)
    BY DEF VectorDescribesText, Embedding, ContentHash
  <2>1. CASE c \in MyChunks(p)
    BY <1>3, <2>1, FreshRowFacts
  <2>2. CASE c \notin MyChunks(p)
    BY <1>3, <2>2 DEF IInv, VectorDescribesText
  <2> QED
    BY <2>1, <2>2
<1>12. LastLoadIsWhole'
  <2>1. \A c \in CorpusChunks[v] : c \in DOMAIN chunks' /\ chunks'[c] = FreshRow(v, c)
    BY <1>2, <1>3
  <2>2. \A d \in CorpusDocs[v] : d \in DOMAIN documents' /\ documents'[d] = MetaOf[v][d]
    BY <1>2, <1>4
  <2> QED
    BY <1>4, <2>1, <2>2 DEF LastLoadIsWhole, FreshRow
<1> QED
  BY <1>6, <1>7, <1>9, <1>10, <1>11, <1>12 DEF IInv

\* Every other step is a quiet one.
LEMMA OtherSteps ==
    ASSUME IInv
    PROVE  /\ \A p \in Seeders : CountChunks(p) \/ UpsertDocument(p) \/ Restart(p) => IInv'
           /\ \A p \in Procs : Embed(p) \/ WriteChunk(p) \/ Abort(p) => IInv'
           /\ SampleChunks \/ RollbackProbe => IInv'
<1> USE DEF tables
<1>1. ASSUME NEW p \in Seeders, CountChunks(p)
      PROVE  IInv'
  <2>1. TypeOK' /\ Shape'
    BY <1>1 DEF CountChunks, IInv, TypeOK, Shape, InTransaction
  <2> QED
    BY <1>1, <2>1, SeederFacts, QuietStep DEF CountChunks, IInv, TypeOK, Deciding
<1>2. ASSUME NEW p \in Seeders, UpsertDocument(p)
      PROVE  IInv'
  <2>1. PICK d \in MyDocs(p) : docLock[d] = Free /\ docLock' = [docLock EXCEPT ![d] = p]
    BY <1>2 DEF UpsertDocument
  <2>2. p \in Procs
    BY SeederFacts
  <2>3. UNCHANGED <<documents, chunks, lastImage, pc, chunkLock, seen, sampled, restarts>>
    BY <1>2 DEF UpsertDocument
  <2>4. TypeOK' /\ Shape'
    BY <2>1, <2>2, <2>3 DEF IInv, TypeOK, Shape
  <2>5. \A q \in Seeders : \A e \in MyDocs(q) : docLock[e] = q => docLock'[e] = q
    BY <2>1, LoaderAssumption, SeederFacts DEF IInv, TypeOK
  <2> QED
    BY <2>3, <2>4, <2>5, QuietStep DEF Deciding
<1>3. ASSUME NEW p \in Seeders, Restart(p)
      PROVE  IInv'
  <2>1. TypeOK'
    BY <1>3, SeederFacts, LoaderAssumption DEF Restart, IInv, TypeOK, Shape
  <2>2. Shape'
    BY <1>3 DEF Restart, IInv, Shape
  <2> QED
    BY <1>3, <2>1, <2>2, SeederFacts, QuietStep DEF Restart, IInv, TypeOK, Shape, Deciding
<1>4. ASSUME NEW p \in Procs, Embed(p)
      PROVE  IInv'
  <2>1. TypeOK' /\ Shape'
    BY <1>4 DEF Embed, IInv, TypeOK, Shape, InTransaction
  <2> QED
    BY <1>4, <2>1, SeederFacts, QuietStep DEF Embed, IInv, TypeOK, Deciding
<1>5. ASSUME NEW p \in Procs, WriteChunk(p)
      PROVE  IInv'
  <2>1. TypeOK' /\ Shape'
    BY <1>5 DEF WriteChunk, IInv, TypeOK, Shape
  <2> QED
    BY <1>5, <2>1, QuietStep DEF WriteChunk, Deciding
<1>6. ASSUME NEW p \in Procs, Abort(p)
      PROVE  IInv'
  <2>1. TypeOK' /\ Shape'
    BY <1>6 DEF Abort, ReleaseLocks, IInv, TypeOK, Shape
  <2>2. \A q \in Seeders : Deciding(q)' => q # p /\ Deciding(q)
    BY <1>6, SeederFacts DEF Abort, IInv, TypeOK, Deciding
  <2>3. \A q \in Seeders : \A e \in MyDocs(q) : q # p /\ docLock[e] = q => docLock'[e] = q
    BY <1>6, SeederFacts DEF Abort, ReleaseLocks
  <2> QED
    BY <1>6, <2>1, <2>2, <2>3, QuietStep DEF Abort
<1>7. ASSUME SampleChunks
      PROVE  IInv'
  <2>1. TypeOK' /\ Shape'
    BY <1>7 DEF SampleChunks, IInv, TypeOK, Shape, InTransaction
  <2> QED
    BY <1>7, <2>1, SeederFacts, QuietStep DEF SampleChunks, IInv, TypeOK, Deciding
<1>8. ASSUME RollbackProbe
      PROVE  IInv'
  <2>1. TypeOK' /\ Shape'
    BY <1>8 DEF RollbackProbe, ReleaseLocks, IInv, TypeOK, Shape
  <2>2. \A q \in Seeders : Deciding(q)' => Deciding(q)
    BY <1>8, SeederFacts DEF RollbackProbe, IInv, TypeOK, Deciding
  <2>3. \A q \in Seeders : \A e \in MyDocs(q) : docLock[e] = q => docLock'[e] = q
    BY <1>8, SeederFacts DEF RollbackProbe, ReleaseLocks
  <2> QED
    BY <1>8, <2>1, <2>2, <2>3, QuietStep DEF RollbackProbe
<1> QED
  BY <1>1, <1>2, <1>3, <1>4, <1>5, <1>6, <1>7, <1>8

\* Every step of every process keeps it.
LEMMA Inductive == IInv /\ [Next]_vars => IInv'
<1> SUFFICES ASSUME IInv, [Next]_vars PROVE IInv'
  OBVIOUS
<1>1. CASE UNCHANGED vars
  <2>1. TypeOK' /\ Shape'
    BY <1>1 DEF vars, IInv, TypeOK, Shape
  <2> QED
    BY <1>1, <2>1, QuietStep DEF vars, tables, Deciding
<1>2. ASSUME NEW p \in Seeders, Seed(p) \/ Restart(p)
      PROVE  IInv'
  BY <1>2, SeederFacts, ReadStateStep, CommitStep, OtherSteps DEF Seed, LoadChunks
<1>3. CASE MeasureIndexLifecycle
  <2>1. Probe \in Procs
    BY DEF Procs
  <2> QED
    BY <1>3, <2>1, ReadStateStep, OtherSteps DEF MeasureIndexLifecycle, LoadChunks
<1>4. ASSUME NEW p \in Procs, Abort(p) \/ CancelDeadlocked(p)
      PROVE  IInv'
  BY <1>4, OtherSteps DEF CancelDeadlocked
<1> QED
  BY <1>1, <1>2, <1>3, <1>4 DEF Next

\* So it holds throughout.
LEMMA Invariance == Spec => []IInv
<1>1. Init => IInv
  BY Initially
<1> QED
  BY <1>1, Inductive, PTL DEF Spec

-----------------------------------------------------------------------------
(* Why two loads never wait for each other in a circle *)

\* A finite set of integers has a highest: the integers above an element of it get fewer as the
\* element gets higher.
LEMMA HasHighest ==
    ASSUME NEW T, T \subseteq Int, IsFiniteSet(T), T # {}
    PROVE  \E m \in T : \A x \in T : x <= m
<1> DEFINE above(x) == {y \in T : x < y}
           family == {above(x) : x \in T}
<1>1. IsWellFoundedOn(StrictSubsetOrdering(T), FiniteSubsetsOf(T))
  BY FS_StrictSubsetOrderingWellFounded
<1>2. family \subseteq FiniteSubsetsOf(T) /\ family # {}
  <2>1. \A x \in T : above(x) \in SUBSET T /\ IsFiniteSet(above(x))
    BY FS_Subset
  <2> HIDE DEF above
  <2> QED
    BY <2>1 DEF FiniteSubsetsOf
<1>3. PICK A \in family : \A B \in family : <<B, A>> \notin StrictSubsetOrdering(T)
  <2> HIDE DEF family
  <2> QED
    BY <1>1, <1>2, WFMin
<1>4. PICK m \in T : A = above(m)
  BY <1>3
<1>5. ASSUME NEW x \in T, ~(x <= m)
      PROVE  FALSE
  <2>0. x \in Int /\ m \in Int /\ m < x
    BY <1>5
  <2>1. x \in above(m) /\ x \notin above(x) /\ above(x) \subseteq above(m)
    <3>1. x \in above(m) /\ x \notin above(x)
      BY <2>0
    <3>2. \A y \in T : x < y => m < y
      BY <2>0
    <3> QED
      BY <3>1, <3>2
  <2>2. above(x) \in SUBSET T /\ above(m) \in SUBSET T /\ above(x) # above(m)
    BY <2>1
  <2>3. <<above(x), above(m)>> \in StrictSubsetOrdering(T)
    BY <2>1, <2>2 DEF StrictSubsetOrdering
  <2> QED
    BY <1>3, <1>4, <2>3
<1> QED
  BY <1>5

\* A step that takes no key for p, nor takes p out of its transaction before its keys are free,
\* keeps the order of p's keys.
LEMMA NoKeyTaken ==
    ASSUME LocksInOrder, NEW p \in Seeders,
           \A d \in Docs : docLock'[d] = p => docLock[d] = p,
           \A c \in Chunks : chunkLock'[c] = p => chunkLock[c] = p,
           \/ pc'[p] = pc[p] /\ \A d \in Docs : docLock[d] = p => docLock'[d] = p
           \/ /\ \A d \in Docs : docLock'[d] # p
              /\ \A c \in Chunks : chunkLock'[c] # p
           \/ pc[p] = "documents" /\ pc'[p] = "embed"
           \/ pc[p] = "embed" /\ pc'[p] = "write"
    PROVE  /\ \A c \in Chunks : chunkLock'[c] = p => pc'[p] = "write" /\ c \in MyChunks(p)
           /\ \A d \in Docs : docLock'[d] = p => pc'[p] \in InTransaction
           /\ pc'[p] = "documents" =>
                \A d \in Docs, e \in MyDocs(p) : docLock'[d] = p /\ e < d => docLock'[e] = p
<1>1. MyDocs(p) \subseteq Docs
  BY SeederFacts
<1> QED
  BY <1>1 DEF LocksInOrder, InTransaction

\* Documents are taken lowest first and chunks while writing: the order is kept by every step.
LEMMA LocksStayInOrder == TypeOK /\ LocksInOrder /\ [Next]_vars => LocksInOrder'
<1> SUFFICES ASSUME TypeOK, LocksInOrder, [Next]_vars, NEW p \in Seeders
             PROVE  /\ \A c \in Chunks : chunkLock'[c] = p => pc'[p] = "write" /\ c \in MyChunks(p)
                    /\ \A d \in Docs : docLock'[d] = p => pc'[p] \in InTransaction
                    /\ pc'[p] = "documents" => \A d \in Docs, e \in MyDocs(p) :
                                                  docLock'[d] = p /\ e < d => docLock'[e] = p
  <2>1. \A p \in Seeders : MyChunks(p)' = MyChunks(p) /\ MyDocs(p)' = MyDocs(p)
    BY SeederFacts DEF MyDocs
  <2> QED
    BY <2>1 DEF LocksInOrder
<1> DEFINE goal == /\ \A c \in Chunks : chunkLock'[c] = p => pc'[p] = "write" /\ c \in MyChunks(p)
                   /\ \A d \in Docs : docLock'[d] = p => pc'[p] \in InTransaction
                   /\ pc'[p] = "documents" => \A d \in Docs, e \in MyDocs(p) :
                                                 docLock'[d] = p /\ e < d => docLock'[e] = p
<1>0. /\ p \in Procs /\ p # Probe /\ MyDocs(p) \subseteq Docs /\ MyChunks(p) \subseteq Chunks
      /\ Free # p
  BY SeederFacts, LoaderAssumption
<1>1. ASSUME NEW q \in Seeders, CountChunks(q) \/ Restart(q)
      PROVE  goal
  <2>1. UNCHANGED <<docLock, chunkLock>> /\ \A r \in Procs \ {q} : pc'[r] = pc[r]
    BY <1>1 DEF CountChunks, Restart, TypeOK
  <2>2. pc[q] \notin InTransaction
    BY <1>1 DEF CountChunks, Restart, InTransaction
  <2>3. CASE q = p
    <3>1. \A d \in Docs : docLock'[d] # p
      BY <2>1, <2>2, <2>3 DEF LocksInOrder
    <3>2. \A c \in Chunks : chunkLock'[c] # p
      BY <2>1, <2>2, <2>3 DEF LocksInOrder, InTransaction
    <3> QED
      BY <1>0, <3>1, <3>2
  <2>4. CASE q # p
    BY <1>0, <2>1, <2>4, NoKeyTaken
  <2> QED
    BY <2>3, <2>4
<1>2. ASSUME NEW q \in Seeders, UpsertDocument(q)
      PROVE  goal
  <2>1. PICK d \in MyDocs(q) : /\ NextDoc(q, d) /\ docLock[d] = Free
                               /\ docLock' = [docLock EXCEPT ![d] = q]
    BY <1>2 DEF UpsertDocument
  <2>2. UNCHANGED <<pc, chunkLock>> /\ pc[q] = "documents"
    BY <1>2 DEF UpsertDocument
  <2>3. d \in Docs /\ d \in Int
    BY <2>1, SeederFacts, LoaderAssumption
  <2>4. docLock'[d] = q /\ \A e \in Docs \ {d} : docLock'[e] = docLock[e]
    BY <2>1, <2>3 DEF TypeOK
  <2>5. CASE q = p
    <3>1. \A e \in MyDocs(p) : e < d => docLock[e] = p
      BY <1>0, <2>1, <2>3, <2>5, LoaderAssumption DEF NextDoc, Unlocked
    <3>2. \A e \in Docs, f \in MyDocs(p) : docLock'[e] = p /\ f < e => docLock'[f] = p
      <4> SUFFICES ASSUME NEW e \in Docs, NEW f \in MyDocs(p), docLock'[e] = p, f < e
                   PROVE  docLock'[f] = p
        OBVIOUS
      <4>1. docLock[f] = p
        BY <2>2, <2>4, <2>5, <3>1 DEF LocksInOrder
      <4> QED
        BY <1>0, <2>1, <2>4, <4>1
    <3>3. \A e \in Docs : docLock'[e] = p => pc'[p] \in InTransaction
      BY <2>2, <2>5 DEF InTransaction
    <3> QED
      BY <2>2, <3>2, <3>3 DEF LocksInOrder
  <2>6. CASE q # p
    BY <1>0, <2>1, <2>2, <2>4, <2>6, NoKeyTaken
  <2> QED
    BY <2>5, <2>6
<1>3. ASSUME NEW q \in Procs, ReadState(q) \/ Embed(q)
      PROVE  goal
  <2>1. UNCHANGED <<docLock, chunkLock>> /\ \A r \in Procs \ {q} : pc'[r] = pc[r]
    BY <1>3 DEF ReadState, Embed, TypeOK
  <2>2. \/ pc[q] = "documents" /\ pc'[q] = "embed"
        \/ pc[q] = "embed" /\ pc'[q] = "write"
    BY <1>3 DEF ReadState, Embed, TypeOK
  <2> QED
    BY <1>0, <2>1, <2>2, NoKeyTaken
<1>4. ASSUME NEW q \in Procs, WriteChunk(q)
      PROVE  goal
  <2>1. PICK c \in MyChunks(q) : chunkLock[c] = Free /\ chunkLock' = [chunkLock EXCEPT ![c] = q]
    BY <1>4 DEF WriteChunk
  <2>2. UNCHANGED <<pc, docLock>> /\ pc[q] = "write"
    BY <1>4 DEF WriteChunk
  <2>3. \A b \in Chunks : chunkLock'[b] = p => chunkLock[b] = p \/ (q = p /\ b = c)
    BY <2>1 DEF TypeOK
  <2>4. CASE q = p
    BY <2>1, <2>2, <2>3, <2>4 DEF LocksInOrder
  <2>5. CASE q # p
    BY <1>0, <2>2, <2>3, <2>5, NoKeyTaken
  <2> QED
    BY <2>4, <2>5
<1>5. ASSUME NEW q \in Procs, ReleaseLocks(q), \A r \in Procs \ {q} : pc'[r] = pc[r]
      PROVE  goal
  <2>1. /\ \A d \in Docs : docLock'[d] = IF docLock[d] = q THEN Free ELSE docLock[d]
        /\ \A c \in Chunks : chunkLock'[c] = IF chunkLock[c] = q THEN Free ELSE chunkLock[c]
    BY <1>5 DEF ReleaseLocks
  <2>2. CASE q = p
    BY <1>0, <2>1, <2>2, NoKeyTaken
  <2>3. CASE q # p
    BY <1>0, <1>5, <2>1, <2>3, NoKeyTaken
  <2> QED
    BY <2>2, <2>3
<1>6. ASSUME NEW q \in Procs, (q \in Seeders /\ Commit(q)) \/ Abort(q) \/ (q = Probe /\ RollbackProbe)
      PROVE  goal
  <2>1. ReleaseLocks(q) /\ \A r \in Procs \ {q} : pc'[r] = pc[r]
    BY <1>6 DEF Commit, Abort, RollbackProbe, TypeOK
  <2> QED
    BY <1>5, <2>1
<1>7. CASE SampleChunks
  <2>1. UNCHANGED <<docLock, chunkLock>> /\ pc'[p] = pc[p]
    BY <1>0, <1>7 DEF SampleChunks, TypeOK
  <2> QED
    BY <1>0, <2>1, NoKeyTaken
<1>8. CASE UNCHANGED vars
  BY <1>0, <1>8, NoKeyTaken DEF vars
<1>9. \A q \in Seeders : q \in Procs
  BY SeederFacts
<1>10. Probe \in Procs
  BY DEF Procs
<1> QED
  BY <1>1, <1>2, <1>3, <1>4, <1>6, <1>7, <1>8, <1>9, <1>10
     DEF Next, Seed, LoadChunks, MeasureIndexLifecycle, CancelDeadlocked

\* So a wait circle of seeders would have to climb for ever.
LEMMA NoCircle ==
    ASSUME IInv, LocksInOrder, NEW S \in SUBSET Seeders, Deadlocked(S)
    PROVE  FALSE
<1>1. ASSUME NEW p \in S
      PROVE  \E q \in S, d \in MyDocs(p) : /\ pc[p] = "documents"
                                           /\ NextDoc(p, d) /\ docLock[d] = q
  <2>1. PICK q \in S : WaitsFor(p, q)
    BY DEF Deadlocked
  <2>2. ASSUME NEW c \in MyChunks(p), pc[p] = "write", chunkLock[c] = q, q # p
        PROVE  FALSE
    <3>1. c \in Chunks
      BY SeederFacts
    <3>2. pc[q] = "write" /\ c \in MyChunks(q)
      BY <2>2, <3>1 DEF LocksInOrder
    <3> QED
      BY <2>2, <3>2, DecidersAreDisjoint DEF IInv, Deciding
  <2> QED
    BY <2>1, <2>2 DEF WaitsFor
<1> DEFINE next == {d \in Docs : \E p \in S : pc[p] = "documents" /\ NextDoc(p, d)}
<1>2. next \subseteq Int /\ IsFiniteSet(next) /\ next # {}
  <2>1. next \subseteq Docs
    OBVIOUS
  <2>2. next # {}
    <3>1. PICK p \in S : TRUE
      BY DEF Deadlocked
    <3> QED
      BY <1>1, <3>1, SeederFacts
  <2> HIDE DEF next
  <2> QED
    BY <2>1, <2>2, LoaderAssumption, FS_Subset
<1>3. PICK m \in next : \A x \in next : x <= m
  <2> HIDE DEF next
  <2> QED
    BY <1>2, HasHighest
<1>4. PICK p \in S : pc[p] = "documents" /\ NextDoc(p, m)
  BY <1>3
<1>5. PICK q \in S : docLock[m] = q
  <2>1. PICK q \in S, d \in MyDocs(p) : NextDoc(p, d) /\ docLock[d] = q
    BY <1>1
  <2>2. m \in Int /\ d \in Int /\ m \in Unlocked(p) /\ d \in Unlocked(p)
    BY <1>3, <1>4, <2>1, SeederFacts, LoaderAssumption DEF NextDoc
  <2>3. d = m
    BY <1>4, <2>1, <2>2 DEF NextDoc
  <2> QED
    BY <2>1, <2>3
<1>6. PICK e \in MyDocs(q) : pc[q] = "documents" /\ NextDoc(q, e)
  BY <1>1
<1>7. e \in next /\ e \in Int /\ m \in Docs /\ m \in Int
  BY <1>3, <1>6, SeederFacts, LoaderAssumption
<1>8. docLock[e] # q
  BY <1>6 DEF NextDoc, Unlocked
<1>9. ~(e < m) /\ e # m
  BY <1>5, <1>6, <1>7, <1>8 DEF LocksInOrder
<1> QED
  BY <1>3, <1>7, <1>9

-----------------------------------------------------------------------------
(* What follows *)

\* Rows, locks and program counters keep their types.
THEOREM TypeCorrect == Spec => []TypeOK
<1>1. IInv => TypeOK
  BY DEF IInv
<1> QED
  BY <1>1, Invariance, PTL

\* No interleaving of loads, and no crash, leaves an embedding or a hash beside another text.
THEOREM VectorsDescribeTexts == Spec => []VectorDescribesText
<1>1. IInv => VectorDescribesText
  BY DEF IInv
<1> QED
  BY <1>1, Invariance, PTL

\* Concurrent loads come out as if one had followed the other.
THEOREM LoadsAreWhole == Spec => []LastLoadIsWhole
<1>1. IInv => LastLoadIsWhole
  BY DEF IInv
<1> QED
  BY <1>1, Invariance, PTL

\* The check of the check-then-act is still true at the act.
THEOREM DecisionsHold == Spec => []DecisionStillHolds
<1>1. IInv => DecisionStillHolds
  <2> SUFFICES ASSUME IInv, NEW p \in Seeders, Deciding(p), NEW c \in MyChunks(p) \ Stale(p)
               PROVE  c \in DOMAIN chunks /\ chunks[c].hash = HashFrom(p, c)
    BY DEF DecisionStillHolds, Deciding
  <2>1. c \in DOMAIN seen[p] /\ seen[p][c].hash = HashFrom(p, c)
    BY DEF Stale, NeedsEmbedding
  <2>2. c \in DOMAIN chunks /\ seen[p][c] = StoredState(c)
    BY <2>1 DEF IInv, SeenIsCurrent
  <2> QED
    BY <2>1, <2>2, StoredStateFacts
<1> QED
  BY <1>1, Invariance, PTL

\* Nothing is embedded that the table already holds an embedding of.
THEOREM EmbedsOnlyChanges == Spec => []NothingReembeddedTwice
<1>1. IInv => NothingReembeddedTwice
  <2> SUFFICES ASSUME IInv, NEW p \in Seeders, Deciding(p)
               PROVE  /\ lastImage = ImageOf[p] => Stale(p) = {}
                      /\ \A c \in Stale(p) \intersect DOMAIN chunks : chunks[c].hash # HashFrom(p, c)
    BY DEF NothingReembeddedTwice, Deciding
  <2>1. \A c \in MyChunks(p) \intersect DOMAIN chunks :
            c \in DOMAIN seen[p] /\ seen[p][c] = StoredState(c)
    BY DEF IInv, SeenIsCurrent
  <2>2. ASSUME NEW c \in MyChunks(p) \intersect DOMAIN chunks, chunks[c].hash = HashFrom(p, c)
        PROVE  c \notin Stale(p)
    <3>1. chunks[c].model = ModelOf[ImageOf[p]]
      BY <2>2, SeederFacts DEF IInv, VectorDescribesText, ContentHash
    <3>2. seen[p][c].hash = HashFrom(p, c) /\ seen[p][c].model = ModelFrom(p)
      BY <2>1, <2>2, <3>1, StoredStateFacts DEF ModelFrom
    <3> QED
      BY <2>1, <3>2 DEF Stale, NeedsEmbedding
  <2>3. ASSUME lastImage = ImageOf[p], NEW c \in MyChunks(p)
        PROVE  c \notin Stale(p)
    <3>1. c \in DOMAIN chunks /\ chunks[c] = FreshRow(ImageOf[p], c)
      BY <2>3, SeederFacts, LoaderAssumption DEF IInv, LastLoadIsWhole
    <3>2. chunks[c].hash = HashFrom(p, c)
      BY <3>1, FreshRowFacts, SeederFacts
    <3> QED
      BY <2>2, <3>1, <3>2
  <2> QED
    BY <2>2, <2>3 DEF Stale
<1> QED
  BY <1>1, Invariance, PTL

\* Only a seeder's commit writes, and it removes nothing.
THEOREM OnlyCommitsWrite == Spec => OnlyCommitsChangeTables
<1> DEFINE Writes == documents' # documents \/ chunks' # chunks =>
                       /\ \E p \in Seeders : pc[p] = "write" /\ pc'[p] = "done"
                       /\ DOMAIN chunks \subseteq DOMAIN chunks'
<1>1. IInv /\ [Next]_vars => [Writes]_vars
  <2> SUFFICES ASSUME IInv, [Next]_vars, documents' # documents \/ chunks' # chunks
               PROVE  /\ \E p \in Seeders : pc[p] = "write" /\ pc'[p] = "done"
                      /\ DOMAIN chunks \subseteq DOMAIN chunks'
    OBVIOUS
  <2>1. PICK p \in Seeders : Commit(p)
    BY DEF Next, vars, tables, Seed, LoadChunks, MeasureIndexLifecycle, CountChunks, UpsertDocument,
           ReadState, Embed, WriteChunk, Restart, SampleChunks, RollbackProbe, Abort,
           CancelDeadlocked
  <2>2. pc[p] = "write" /\ pc'[p] = "done"
    BY <2>1, SeederFacts DEF Commit, IInv, TypeOK
  <2> QED
    BY <2>1, <2>2, CommitWritesImage
<1> QED
  BY <1>1, Invariance, PTL DEF Spec, OnlyCommitsChangeTables
\* However many loads run at once, none of them waits for another in a circle: only the probe,
\* which holds chunks and no document, can close one.
THEOREM SeedersDoNotDeadlock == Spec => []SeedersNeverDeadlock
<1>1. Init => LocksInOrder
  <2> SUFFICES ASSUME Init, NEW p \in Seeders
               PROVE  /\ \A d \in Docs : docLock[d] # p
                      /\ \A c \in Chunks : chunkLock[c] # p
    BY SeederFacts DEF LocksInOrder
  <2> QED
    BY SeederFacts, LoaderAssumption DEF Init
<1>2. IInv /\ LocksInOrder /\ [Next]_vars => LocksInOrder'
  BY LocksStayInOrder DEF IInv
<1>3. IInv /\ LocksInOrder => SeedersNeverDeadlock
  BY NoCircle DEF SeedersNeverDeadlock
<1> QED
  BY <1>1, <1>2, <1>3, Invariance, PTL DEF Spec

\* A start-up that goes on after its seed goes on with an index, whatever it skipped, waited for
\* or had to repeat.
THEOREM SeedsLeaveAnIndex == Spec => []EndedSeedLeavesAnIndex
<1>1. Init => EndedSeedLeavesAnIndex
  BY SeederFacts DEF Init, EndedSeedLeavesAnIndex
<1>2. IInv /\ EndedSeedLeavesAnIndex /\ [Next]_vars => EndedSeedLeavesAnIndex'
  <2> SUFFICES ASSUME IInv, EndedSeedLeavesAnIndex, [Next]_vars,
                      NEW p \in Seeders, pc'[p] \in {"done", "skipped"}
               PROVE  DOMAIN chunks' # {}
    BY DEF EndedSeedLeavesAnIndex
  <2>1. CASE \E q \in Seeders : Commit(q)
    <3>1. PICK q \in Seeders : Commit(q)
      BY <2>1
    <3>2. MyChunks(q) # {}
      BY SeederFacts, LoaderAssumption
    <3> QED
      BY <3>1, <3>2, CommitWritesImage
  <2>2. CASE ~ \E q \in Seeders : Commit(q)
    <3>1. chunks' = chunks
      BY <2>2
         DEF Next, vars, tables, Seed, LoadChunks, MeasureIndexLifecycle, CountChunks,
             UpsertDocument, ReadState, Embed, WriteChunk, Restart, SampleChunks, RollbackProbe,
             Abort, CancelDeadlocked
    <3>2. CASE pc'[p] = pc[p]
      BY <3>1, <3>2 DEF EndedSeedLeavesAnIndex
    <3>3. CASE CountChunks(p)
      BY <3>1, <3>3, SeederFacts DEF CountChunks, IInv, TypeOK
    <3>4. pc'[p] = pc[p] \/ CountChunks(p)
      BY <2>2, SeederFacts
         DEF Next, vars, Seed, LoadChunks, MeasureIndexLifecycle, CountChunks, UpsertDocument,
             ReadState, Embed, WriteChunk, Restart, SampleChunks, RollbackProbe, Abort,
             CancelDeadlocked, IInv, TypeOK, Procs
    <3> QED
      BY <3>2, <3>3, <3>4
  <2> QED
    BY <2>1, <2>2
<1> QED
  BY <1>1, <1>2, Invariance, PTL DEF Spec
=============================================================================
