------------------------------- MODULE Loader -------------------------------
(***************************************************************************)
(* Loading the index: any number of scripts/seed_index.py processes, each   *)
(* upserting its own image's corpus in one READ COMMITTED transaction, and  *)
(* the index-lifecycle probe, which drives the same load_chunks under a     *)
(* savepoint it always rolls back.                                          *)
(*                                                                          *)
(* load_chunks is a check followed, after minutes of embedding, by an act:  *)
(* it reads the stored hashes, decides which chunks keep their vector, and  *)
(* upserts on that decision.  Nothing in it locks what it read.  What keeps *)
(* the decision true is load_documents, which upserts every document of the *)
(* corpus first, in the same transaction: its row locks are held to the     *)
(* commit, so two corpora that share a chunk, and therefore its document,   *)
(* take turns.                                                              *)
(*                                                                          *)
(* The tables hold what is committed.  A row a transaction has written but  *)
(* not committed is its lock: PostgreSQL lets nobody else write that key,   *)
(* so the row it will leave is computed at the commit.                      *)
(***************************************************************************)
EXTENDS Integers, FiniteSets

CONSTANTS
    Seeders,            \* the seed_index.py processes
    Probe,              \* the process running measure_index_lifecycle
    Docs, Chunks,       \* ids, integers in the order a corpus lists them
    DocOf,              \* the document a chunk id is derived from
    Images,             \* container images: a corpus and an embedding model
    CorpusDocs, CorpusChunks, TextOf, MetaOf, ModelOf,   \* what an image holds
    ImageOf,            \* the image each process runs
    SkipIfPopulated,    \* the seeders started with --skip-if-populated
    SampleSize,         \* the probe's sample (40 in the code)
    MaxRestarts         \* bound: restarts of a failed seeder

Procs == Seeders \union {Probe}
Free == "free"   \* the holder of a key nobody has written
NoImage == "no image"

ASSUME LoaderAssumption ==
    /\ Probe \notin Seeders /\ Free \notin Procs /\ NoImage \notin Images
    /\ Docs \subseteq Int /\ Chunks \subseteq Int
    \* a corpus is a list read from a file
    /\ IsFiniteSet(Docs)
    /\ DocOf \in [Chunks -> Docs]
    /\ CorpusDocs \in [Images -> SUBSET Docs]
    /\ CorpusChunks \in [Images -> SUBSET Chunks]
    \* a chunk's document is in its corpus: chunk_id is the document's id and an ordinal
    /\ \A v \in Images : \A c \in CorpusChunks[v] : DocOf[c] \in CorpusDocs[v]
    \* the image is built with a generated corpus in it
    /\ \A v \in Images : CorpusChunks[v] # {}
    /\ ImageOf \in [Procs -> Images]
    /\ SampleSize \in Nat /\ MaxRestarts \in Nat

VARIABLES
    documents,    \* committed document rows: the columns a chunk denormalises
    chunks,       \* committed chunk rows
    pc,           \* where each process is
    docLock,      \* document key -> the transaction that wrote it
    chunkLock,    \* chunk key -> the transaction that wrote it
    seen,         \* what _existing_state returned to a process
    sampled,      \* the texts the probe read to build its changed chunks
    restarts,     \* restarts so far of each seeder
    lastImage     \* history: the image of the last load to commit, for the properties

vars == <<documents, chunks, pc, docLock, chunkLock, seen, sampled, restarts, lastImage>>
tables == <<documents, chunks, lastImage>>

ProbeMarker == "probe"

-----------------------------------------------------------------------------
(* Rows *)

\* content_hash binds the model and the text; an embedding is a function of the two.
ContentHash(model, text) == <<model, text>>
Embedding(model, text) == <<model, text>>

MyDocs(p) == IF p = Probe THEN {} ELSE CorpusDocs[ImageOf[p]]
MyChunks(p) == IF p = Probe THEN DOMAIN sampled ELSE CorpusChunks[ImageOf[p]]

\* The text a process hands to load_chunks, and the hash it computes for it.
TextFrom(p, c) == IF p = Probe THEN <<sampled[c], ProbeMarker>> ELSE TextOf[ImageOf[p]][c]
ModelFrom(p) == ModelOf[ImageOf[p]]
HashFrom(p, c) == ContentHash(ModelFrom(p), TextFrom(p, c))

\* _existing_state reads the hash and the vector's model, never the text.
StoredState(c) == [hash |-> chunks[c].hash, model |-> chunks[c].model]

\* Mutant: only a change of model re-embeds.
NeedsEmbeddingByModel(p, c) == c \notin DOMAIN seen[p] \/ seen[p][c].model # ModelFrom(p)

\* Mutant: everything is embedded on every load.
NeedsEmbeddingAlways(p, c) == c \in MyChunks(p)

NeedsEmbedding(p, c) ==
    \/ c \notin DOMAIN seen[p]
    \/ seen[p][c].hash # HashFrom(p, c)
    \/ seen[p][c].model # ModelFrom(p)

Stale(p) == {c \in MyChunks(p) : NeedsEmbedding(p, c)}

\* Written with include_embedding=True, then with include_embedding=False.
FreshRow(v, c) ==
    [text |-> TextOf[v][c], meta |-> MetaOf[v][DocOf[c]],
     hash |-> ContentHash(ModelOf[v], TextOf[v][c]),
     vector |-> Embedding(ModelOf[v], TextOf[v][c]), model |-> ModelOf[v]]

\* Mutant: include_embedding=False blanks the columns it should leave alone.
UnchangedRowWithoutVector(v, c) ==
    [text |-> TextOf[v][c], meta |-> MetaOf[v][DocOf[c]], hash |-> chunks[c].hash]

UnchangedRow(v, c) ==
    [text |-> TextOf[v][c], meta |-> MetaOf[v][DocOf[c]],
     hash |-> chunks[c].hash, vector |-> chunks[c].vector, model |-> chunks[c].model]

-----------------------------------------------------------------------------
(* Locks *)

InTransaction == {"documents", "embed", "write"}

Held(p) == {c \in Chunks : chunkLock[c] = p}
Unlocked(p) == {d \in MyDocs(p) : docLock[d] # p}
Unwritten(p) == MyChunks(p) \ Held(p)

\* One multi-row statement takes its keys in the order of its VALUES.
\* Mutant: documents already stored as they are go first, as unchanged chunks go last.
NextDocStoredFirst(p, d) ==
    LET stored(e) == e \in DOMAIN documents /\ documents[e] = MetaOf[ImageOf[p]][e]
    IN  /\ d \in Unlocked(p)
        /\ \A e \in Unlocked(p) : IF stored(d) <=> stored(e) THEN d <= e ELSE stored(d)

NextDoc(p, d) == d \in Unlocked(p) /\ \A e \in Unlocked(p) : d <= e

\* The fresh rows are upserted before the unchanged ones.
WrittenBefore(p, c, d) ==
    IF c \in Stale(p) <=> d \in Stale(p) THEN c <= d ELSE c \in Stale(p)
NextChunk(p, c) == c \in Unwritten(p) /\ \A d \in Unwritten(p) : WrittenBefore(p, c, d)

WaitsFor(p, q) ==
    /\ q # p
    /\ \/ pc[p] = "documents" /\ \E d \in MyDocs(p) : NextDoc(p, d) /\ docLock[d] = q
       \/ pc[p] = "write" /\ \E c \in MyChunks(p) : NextChunk(p, c) /\ chunkLock[c] = q

\* A process waits for one other at most, so these S are the unions of wait cycles.
Deadlocked(S) ==
    /\ S # {}
    /\ \A p \in S : \E q \in S : WaitsFor(p, q)
    /\ \A q \in S : \E p \in S : WaitsFor(p, q)

ReleaseLocks(p) ==
    /\ docLock' = [d \in Docs |-> IF docLock[d] = p THEN Free ELSE docLock[d]]
    /\ chunkLock' = [c \in Chunks |-> IF chunkLock[c] = p THEN Free ELSE chunkLock[c]]

-----------------------------------------------------------------------------
(* The tables start empty or as an earlier load of some image left them. *)

Loaded(v) == [c \in CorpusChunks[v] |-> FreshRow(v, c)]

Init ==
    /\ \/ documents = << >> /\ chunks = << >> /\ lastImage = NoImage
       \/ \E v \in Images :
            /\ documents = [d \in CorpusDocs[v] |-> MetaOf[v][d]]
            /\ chunks = Loaded(v)
            /\ lastImage = v
    /\ pc = [p \in Procs |-> "start"]
    /\ docLock = [d \in Docs |-> Free]
    /\ chunkLock = [c \in Chunks |-> Free]
    /\ seen = [p \in Procs |-> << >>]
    /\ sampled = << >>
    /\ restarts = [p \in Seeders |-> 0]

\* Mutant: --skip-if-populated skips, populated or not.
CountChunksSkipping(p) ==
    /\ pc[p] = "start"
    /\ pc' = [pc EXCEPT ![p] = IF p \in SkipIfPopulated THEN "skipped" ELSE "documents"]
    /\ UNCHANGED <<tables, docLock, chunkLock, seen, sampled, restarts>>

\* main, first session: the count that --skip-if-populated decides on.
CountChunks(p) ==
    /\ pc[p] = "start"
    /\ pc' = [pc EXCEPT ![p] =
                IF p \in SkipIfPopulated /\ DOMAIN chunks # {} THEN "skipped" ELSE "documents"]
    /\ UNCHANGED <<tables, docLock, chunkLock, seen, sampled, restarts>>

\* load_documents: one row of its upsert, which waits while another transaction holds the key.
UpsertDocument(p) ==
    /\ pc[p] = "documents"
    /\ \E d \in MyDocs(p) :
         /\ NextDoc(p, d)
         /\ docLock[d] = Free
         /\ docLock' = [docLock EXCEPT ![d] = p]
    /\ UNCHANGED <<tables, pc, chunkLock, seen, sampled, restarts>>

\* The probe reads rows to modify, all but one at most, and refuses an empty store.
SampleChunks ==
    LET lowest == {c \in DOMAIN chunks :
                     Cardinality({b \in DOMAIN chunks : b < c}) < SampleSize}
        sample == lowest \ {c \in DOMAIN chunks : \A b \in DOMAIN chunks : b <= c}
    IN  /\ pc[Probe] = "start"
        /\ sampled' = [c \in sample |-> chunks[c].text]
        /\ pc' = [pc EXCEPT ![Probe] = IF sample = {} THEN "failed" ELSE "documents"]
        /\ UNCHANGED <<tables, docLock, chunkLock, seen, restarts>>

\* Mutant: the state is read before the documents are written.
ReadStateFirst(p) ==
    /\ pc[p] = "documents"
    /\ seen' = [seen EXCEPT ![p] = [c \in MyChunks(p) \intersect DOMAIN chunks |-> StoredState(c)]]
    /\ pc' = [pc EXCEPT ![p] = "embed"]
    /\ UNCHANGED <<tables, docLock, chunkLock, sampled, restarts>>

\* Mutant: the documents have a transaction of their own, which ends before the chunks' begins.
ReadStateInNewTransaction(p) ==
    /\ pc[p] = "documents"
    /\ Unlocked(p) = {}
    /\ seen' = [seen EXCEPT ![p] = [c \in MyChunks(p) \intersect DOMAIN chunks |-> StoredState(c)]]
    /\ pc' = [pc EXCEPT ![p] = "embed"]
    /\ ReleaseLocks(p)
    /\ UNCHANGED <<tables, sampled, restarts>>

\* load_chunks: _existing_state, once the documents are written (the probe writes none).
ReadState(p) ==
    /\ pc[p] = "documents"
    /\ Unlocked(p) = {}
    /\ seen' = [seen EXCEPT ![p] = [c \in MyChunks(p) \intersect DOMAIN chunks |-> StoredState(c)]]
    /\ pc' = [pc EXCEPT ![p] = "embed"]
    /\ UNCHANGED <<tables, docLock, chunkLock, sampled, restarts>>

\* The encoder runs on the stale texts: minutes, in which anybody else may act.
Embed(p) ==
    /\ pc[p] = "embed"
    /\ pc' = [pc EXCEPT ![p] = "write"]
    /\ UNCHANGED <<tables, docLock, chunkLock, seen, sampled, restarts>>

\* _upsert_chunks: one row, which waits while another transaction holds the key.
WriteChunk(p) ==
    /\ pc[p] = "write"
    /\ \E c \in MyChunks(p) :
         /\ NextChunk(p, c)
         /\ chunkLock[c] = Free
         /\ chunkLock' = [chunkLock EXCEPT ![c] = p]
    /\ UNCHANGED <<tables, pc, docLock, seen, sampled, restarts>>

\* session_scope commits: every written row becomes the row.
Commit(p) ==
    LET v == ImageOf[p]
    IN  /\ p # Probe
        /\ pc[p] = "write"
        /\ Unwritten(p) = {}
        /\ documents' = [d \in DOMAIN documents \union MyDocs(p) |->
                           IF d \in MyDocs(p) THEN MetaOf[v][d] ELSE documents[d]]
        /\ chunks' = [c \in DOMAIN chunks \union MyChunks(p) |->
                        CASE c \in Stale(p) -> FreshRow(v, c)
                          [] c \in MyChunks(p) \ Stale(p) -> UnchangedRow(v, c)
                          [] OTHER -> chunks[c]]
        /\ lastImage' = v
        /\ pc' = [pc EXCEPT ![p] = "done"]
        /\ ReleaseLocks(p)
        /\ UNCHANGED <<seen, sampled, restarts>>

\* Mutant: the savepoint is released, and the transaction committed.
CommitProbe ==
    /\ pc[Probe] = "write"
    /\ Unwritten(Probe) = {}
    /\ chunks' = [c \in DOMAIN chunks |->
                    IF c \in DOMAIN sampled
                      THEN [chunks[c] EXCEPT !.text = TextFrom(Probe, c)]
                      ELSE chunks[c]]
    /\ pc' = [pc EXCEPT ![Probe] = "done"]
    /\ ReleaseLocks(Probe)
    /\ UNCHANGED <<documents, lastImage, seen, sampled, restarts>>

\* Mutant: the probe ends and leaves its savepoint, and so its rows, open.
LeaveSavepointOpen ==
    /\ pc[Probe] = "write"
    /\ Unwritten(Probe) = {}
    /\ pc' = [pc EXCEPT ![Probe] = "done"]
    /\ UNCHANGED <<tables, docLock, chunkLock, seen, sampled, restarts>>

\* The probe measures its own rows and rolls its savepoint back, which frees their keys.
RollbackProbe ==
    /\ pc[Probe] = "write"
    /\ Unwritten(Probe) = {}
    /\ pc' = [pc EXCEPT ![Probe] = "done"]
    /\ ReleaseLocks(Probe)
    /\ UNCHANGED <<tables, seen, sampled, restarts>>

\* An exception, a kill or a lost connection inside the transaction: it leaves nothing behind.
Abort(p) ==
    /\ pc[p] \in InTransaction
    /\ pc' = [pc EXCEPT ![p] = "failed"]
    /\ ReleaseLocks(p)
    /\ UNCHANGED <<tables, seen, sampled, restarts>>

\* PostgreSQL's deadlock detector cancels one transaction of a wait cycle.
CancelDeadlocked(p) ==
    /\ \E S \in SUBSET Procs : p \in S /\ Deadlocked(S)
    /\ Abort(p)

\* The container comes back, or somebody runs the script again.
Restart(p) ==
    /\ pc[p] \in {"failed", "done"}
    /\ restarts[p] < MaxRestarts
    /\ restarts' = [restarts EXCEPT ![p] = @ + 1]
    /\ seen' = [seen EXCEPT ![p] = << >>]
    /\ pc' = [pc EXCEPT ![p] = "start"]
    /\ UNCHANGED <<tables, docLock, chunkLock, sampled>>

LoadChunks(p) == ReadState(p) \/ Embed(p) \/ WriteChunk(p)
Seed(p) == CountChunks(p) \/ UpsertDocument(p) \/ LoadChunks(p) \/ Commit(p)
MeasureIndexLifecycle == SampleChunks \/ LoadChunks(Probe) \/ RollbackProbe

Next ==
    \/ \E p \in Seeders : Seed(p) \/ Restart(p)
    \/ MeasureIndexLifecycle
    \/ \E p \in Procs : Abort(p) \/ CancelDeadlocked(p)

Spec == Init /\ [][Next]_vars

\* A process that can run does, and PostgreSQL breaks every wait cycle; nothing has to fail.
Fairness ==
    /\ \A p \in Seeders : WF_vars(Seed(p))
    /\ WF_vars(MeasureIndexLifecycle)
    /\ \A p \in Procs : WF_vars(CancelDeadlocked(p))

FairSpec == Spec /\ Fairness

-----------------------------------------------------------------------------
(* Properties *)

\* Types: rows have their five columns, locks name processes, a probe's sample is of real rows.
TypeOK ==
    /\ DOMAIN documents \subseteq Docs
    /\ DOMAIN chunks \subseteq Chunks
    /\ \A c \in DOMAIN chunks :
         DOMAIN chunks[c] = {"text", "meta", "hash", "vector", "model"}
    /\ pc \in [Procs -> {"start", "skipped", "done", "failed"} \union InTransaction]
    /\ docLock \in [Docs -> Procs \union {Free}]
    /\ chunkLock \in [Chunks -> Procs \union {Free}]
    /\ \A p \in Procs : DOMAIN seen[p] \subseteq Chunks
    /\ DOMAIN sampled \subseteq Chunks
    /\ restarts \in [Seeders -> 0..MaxRestarts]
    /\ lastImage \in Images \union {NoImage}

\* The claim of the vector column: every committed embedding, and the hash that will decide
\* whether it is kept, is of the text beside it, under the model the row names.  The unchanged
\* upsert writes the text and leaves both alone, so a decision made on a hash that has since
\* been replaced would break it silently and for good: the next load sees a matching hash.
VectorDescribesText ==
    \A c \in DOMAIN chunks :
        /\ chunks[c].vector = Embedding(chunks[c].model, chunks[c].text)
        /\ chunks[c].hash = ContentHash(chunks[c].model, chunks[c].text)

\* Loads are serialised whole: every row of the last image to commit is that image's row,
\* never one mixed with a concurrent load, and its documents are its documents.
LastLoadIsWhole ==
    lastImage # NoImage =>
        /\ \A d \in CorpusDocs[lastImage] :
             d \in DOMAIN documents /\ documents[d] = MetaOf[lastImage][d]
        /\ \A c \in CorpusChunks[lastImage] :
             c \in DOMAIN chunks /\ chunks[c] = FreshRow(lastImage, c)

\* What a seeder decided from its read is still so when it writes, however long it embedded:
\* a chunk keeps its stored vector only if the committed vector is the one it would compute.
DecisionStillHolds ==
    \A p \in Seeders : pc[p] \in {"embed", "write"} =>
        \A c \in MyChunks(p) \ Stale(p) :
            c \in DOMAIN chunks /\ chunks[c].hash = HashFrom(p, c)

\* Re-embed only what changed: a load of the image that is already there embeds nothing, and
\* no load embeds a chunk whose committed row already has its hash.
NothingReembeddedTwice ==
    \A p \in Seeders : pc[p] \in {"embed", "write"} =>
        /\ lastImage = ImageOf[p] => Stale(p) = {}
        /\ \A c \in Stale(p) \intersect DOMAIN chunks : chunks[c].hash # HashFrom(p, c)

\* Two loads may wait for each other's documents, never in a circle: the corpora list the
\* documents they share in one order.  (The probe, which holds no document, can be in one.)
SeedersNeverDeadlock == \A S \in SUBSET Seeders : ~Deadlocked(S)

\* The probe and every failed load leave the tables as they were, and a row is never removed.
OnlyCommitsChangeTables ==
    [][ documents' # documents \/ chunks' # chunks =>
          /\ \E p \in Seeders : pc[p] = "write" /\ pc'[p] = "done"
          /\ DOMAIN chunks \subseteq DOMAIN chunks' ]_vars

\* A seed that ended well, by loading or by skipping, leaves an index that is not empty.
EndedSeedLeavesAnIndex ==
    \A p \in Seeders : pc[p] \in {"done", "skipped"} => DOMAIN chunks # {}

\* Every transaction ends: no process waits for a row for ever, the probe's included.
EveryTransactionEnds ==
    \A p \in Procs : pc[p] \in InTransaction ~> pc[p] \in {"done", "failed"}

\* Why a decision holds, for the proofs: from its read to its commit a seeder holds the row of
\* every document of its corpus, and what it read is what is stored.
Deciding(p) == pc[p] \in {"embed", "write"}

DocumentsStayLocked == \A p \in Seeders : Deciding(p) => \A d \in MyDocs(p) : docLock[d] = p

SeenIsCurrent ==
    \A p \in Seeders : Deciding(p) =>
        /\ DOMAIN seen[p] = MyChunks(p) \intersect DOMAIN chunks
        /\ \A c \in DOMAIN seen[p] : seen[p][c] = StoredState(c)

\* Why seeders do not deadlock: a seeder has keys only inside its transaction, chunks only while
\* it writes its own, and documents from the lowest up.
LocksInOrder ==
    \A p \in Seeders :
        /\ \A c \in Chunks : chunkLock[c] = p => pc[p] = "write" /\ c \in MyChunks(p)
        /\ \A d \in Docs : docLock[d] = p => pc[p] \in InTransaction
        /\ pc[p] = "documents" =>
             \A d \in Docs, e \in MyDocs(p) : docLock[d] = p /\ e < d => docLock[e] = p

\* What domain.py says of the columns a chunk copies from its document.
ChunksAgreeWithDocuments ==
    \A c \in DOMAIN chunks : chunks[c].meta = documents[DocOf[c]]
=============================================================================
