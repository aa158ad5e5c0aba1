--------------------------------- MODULE Ask ---------------------------------
(***************************************************************************)
(* One question from the form to the reply (api/app.py _answer, over        *)
(* retrieval/pipeline.py and gate.py), while seed_index.py may commit a     *)
(* corpus at any moment.                                                    *)
(*                                                                          *)
(* A request holds one session in READ COMMITTED and makes four SELECTs:    *)
(* the identifier lookup, the candidates, the nearest vectors and the       *)
(* revision labels.  Each sees what was committed when it ran, and between  *)
(* the second and the third the encoder embeds the question.  The two ANN   *)
(* and BM25 rankings may return any part of what they are given; fusion and *)
(* reranking are scored in tenths: 10 is the top of the normalised pool, an *)
(* exact hit adds 5, and the other three features at most 4 together.       *)
(*                                                                          *)
(* A row has, beside Gate's chunk fields, a document_id and the identifiers *)
(* its text contains.                                                       *)
(***************************************************************************)
EXTENDS Gate

CONSTANTS
    Queries,      \* the questions, with the identifiers each one names
    Corpora,      \* the corpora a seed may commit, as sets of rows
    Shipped,      \* the shipped GateThresholds
    TopK          \* Query.top_k

ASSUME AskAssumption ==
    /\ \A q \in Queries : WellFormedQuery(q)
    /\ \A corpus \in Corpora : \A r \in corpus : WellFormedRow(r)
    \* chunk_id is the primary key, and ids are compared
    /\ \A corpus \in Corpora :
         /\ IsFiniteSet(corpus)
         /\ \A r \in corpus : r.chunk_id \in Int
         /\ \A r, s \in corpus : r.chunk_id = s.chunk_id => r = s
    /\ TopK \in Nat
    \* DEFAULT_MIN_SUPPORTING_CHUNKS is 2: one passage is not corroboration
    /\ Shipped.min_supporting_chunks \in Nat \ {0, 1}

VARIABLES
    query,
    chunks,       \* the chunk table: committed rows
    documents,    \* the document table: ids with a revision label
    pc,           \* the next step of the request
    exact_ids,    \* what the identifier lookup returned
    candidates,   \* the rows fetch_candidates returned
    dense_ids,    \* what the vector search returned
    retrieved,    \* the ranked result
    decision,
    reply,
    interleaved   \* history: a corpus was committed between two of the request's SELECTs

vars == <<query, chunks, documents, pc, exact_ids, candidates, dense_ids, retrieved,
          decision, reply, interleaved>>

tables == <<query, chunks, documents>>

NoReply == [kind |-> "none", shown |-> {}]
Undecided == [outcome |-> "none"]

Ids(rows) == {r.chunk_id : r \in rows}
DocumentsOf(rows) == {r.document_id : r \in rows}

\* Mutant: apply_effectivity=False reaches the service.
Unfiltered == {r \in chunks : SelectedBySql(r, query, None, FALSE)}

\* The rows one statement of the request sees through the filter.
Filtered == {r \in chunks : SelectedBySql(r, query, None, TRUE)}

-----------------------------------------------------------------------------

Init ==
    /\ query \in Queries
    /\ \E corpus \in Corpora : chunks = corpus /\ documents = DocumentsOf(corpus)
    /\ pc = "exact"
    /\ exact_ids = {}
    /\ candidates = {}
    /\ dense_ids = {}
    /\ retrieved = {}
    /\ decision = Undecided
    /\ reply = NoReply
    /\ interleaved = FALSE

\* A seed commits: its rows replace those with their ids, and no row is removed.
CommitCorpus(corpus) ==
    /\ chunks' = {r \in chunks : r.chunk_id \notin Ids(corpus)} \union corpus
    /\ documents' = documents \union DocumentsOf(corpus)
    /\ interleaved' = (interleaved \/ (pc # "exact" /\ reply = NoReply /\ chunks' # chunks))
    /\ UNCHANGED <<query, pc, exact_ids, candidates, dense_ids, retrieved, decision, reply>>

\* No identifier in the question, no lookup.
ExactStage ==
    /\ pc = "exact"
    /\ exact_ids' = {r.chunk_id : r \in {s \in Filtered : s.identifiers \intersect query.identifiers # {}}}
    /\ pc' = "candidates"
    /\ UNCHANGED <<tables, candidates, dense_ids, retrieved, decision, reply, interleaved>>

FetchCandidates ==
    /\ pc = "candidates"
    /\ candidates' = Filtered
    /\ pc' = "dense"
    /\ UNCHANGED <<tables, exact_ids, dense_ids, retrieved, decision, reply, interleaved>>

\* Mutant: the vector search forgets the WHERE clause of the others.
DenseStageUnfiltered ==
    /\ pc = "dense"
    /\ dense_ids' \in SUBSET Ids(chunks)
    /\ pc' = "fuse"
    /\ UNCHANGED <<tables, exact_ids, candidates, retrieved, decision, reply, interleaved>>

\* The nearest of the filtered rows: an index search may miss some, and the depth cuts it.
DenseStage ==
    /\ pc = "dense"
    /\ dense_ids' \in SUBSET Ids(Filtered)
    /\ pc' = "fuse"
    /\ UNCHANGED <<tables, exact_ids, candidates, retrieved, decision, reply, interleaved>>

\* Min-max normalisation: a flat pool is all at the top, any other spans the scale.
Normalised(pool) ==
    {f \in [pool -> {0, 5, 10}] :
       \/ \A c \in pool : f[c] = 10
       \/ (\E c \in pool : f[c] = 10) /\ (\E c \in pool : f[c] = 0)}

\* identifier_coverage, term_coverage and language_match weigh 0.20, 0.15 and 0.05.
OtherFeatures(pool) == [pool -> {0, 4}]

\* Mutant: equal scores are not told apart.
RankedWithTies(pool, fused, others) ==
    LET score == [r \in pool |->
                    fused[r] + others[r] + (IF r.chunk_id \in exact_ids THEN 5 ELSE 0)]
        ahead(r) == {s \in pool : score[s] > score[r]}
    IN  {[chunk |-> r, fused_score |-> score[r], rank |-> 1 + Cardinality(ahead(r)),
          exact_identifier_hit |-> r.chunk_id \in exact_ids]
         : r \in {s \in pool : Cardinality(ahead(s)) < TopK}}

Ranked(pool, fused, others) ==
    LET score == [r \in pool |->
                    fused[r] + others[r] + (IF r.chunk_id \in exact_ids THEN 5 ELSE 0)]
        ahead(r) == {s \in pool : \/ score[s] > score[r]
                                  \/ score[s] = score[r] /\ s.chunk_id < r.chunk_id}
    IN  {[chunk |-> r, fused_score |-> score[r], rank |-> 1 + Cardinality(ahead(r)),
          exact_identifier_hit |-> r.chunk_id \in exact_ids]
         : r \in {s \in pool : Cardinality(ahead(s)) < TopK}}

\* The pool is what the identifiers, the vectors and BM25 over the candidates name; an id among
\* them with no candidate row ends the request in a RuntimeError.
FuseAndRank ==
    /\ pc = "fuse"
    /\ IF exact_ids \union dense_ids \subseteq Ids(candidates)
         THEN /\ \E pool \in SUBSET candidates :
                   /\ exact_ids \union dense_ids \subseteq Ids(pool)
                   /\ \E fused \in Normalised(pool), others \in OtherFeatures(pool) :
                        retrieved' = Ranked(pool, fused, others)
              /\ pc' = "decide"
              /\ reply' = reply
         ELSE /\ reply' = [kind |-> "ERROR", shown |-> {}]
              /\ pc' = "done"
              /\ retrieved' = retrieved
    /\ UNCHANGED <<tables, exact_ids, candidates, dense_ids, decision, interleaved>>

\* Mutant: an abstention returns nothing at all.
AbstainInSilence ==
    /\ pc = "decide"
    /\ decision' = Decide(query, retrieved, Shipped)
    /\ pc' = IF decision'.outcome = "ABSTAIN" THEN "done" ELSE "labels"
    /\ UNCHANGED <<tables, exact_ids, candidates, dense_ids, retrieved, reply, interleaved>>

\* The gate decides, and only then is an answerer asked for anything.
DecideGate ==
    /\ pc = "decide"
    /\ decision' = Decide(query, retrieved, Shipped)
    /\ IF decision'.outcome = "ABSTAIN"
         THEN reply' = [kind |-> "ABSTAIN", shown |-> {}] /\ pc' = "done"
         ELSE reply' = reply /\ pc' = "labels"
    /\ UNCHANGED <<tables, exact_ids, candidates, dense_ids, retrieved, interleaved>>

\* Mutant: the answer cites what was retrieved, not what was approved.
CiteRetrieved ==
    LET cited == {r.chunk : r \in retrieved}
    IN  /\ pc = "labels"
        /\ reply' = [kind |-> decision.outcome, shown |-> cited]
        /\ pc' = "done"
        /\ UNCHANGED <<tables, exact_ids, candidates, dense_ids, retrieved, decision, interleaved>>

\* Every cited document must have a label; the answer is the quotes of what was approved, and a
\* review is the same citations with no text.
CiteAndAnswer ==
    LET cited == {r.chunk : r \in decision.approved}
    IN  /\ pc = "labels"
        /\ reply' = IF DocumentsOf(cited) \subseteq documents
                      THEN [kind |-> decision.outcome, shown |-> cited]
                      ELSE [kind |-> "ERROR", shown |-> {}]
        /\ pc' = "done"
        /\ UNCHANGED <<tables, exact_ids, candidates, dense_ids, retrieved, decision, interleaved>>

Request == ExactStage \/ FetchCandidates \/ DenseStage \/ FuseAndRank \/ DecideGate \/ CiteAndAnswer

Next == Request \/ \E corpus \in Corpora : CommitCorpus(corpus)

\* The request runs on a thread of its own; nobody owes the index another load.
Spec == Init /\ [][Next]_vars /\ WF_vars(Request)

-----------------------------------------------------------------------------
(* Properties *)

\* Types, and ranks that number the results from one.
TypeOK ==
    /\ query \in Queries
    /\ pc \in {"exact", "candidates", "dense", "fuse", "decide", "labels", "done"}
    /\ exact_ids \union dense_ids \subseteq Ids(UNION Corpora)
    /\ candidates \subseteq UNION Corpora
    /\ {r.rank : r \in retrieved} = 1..Cardinality(retrieved)
    /\ Cardinality(retrieved) <= TopK
    /\ reply.kind \in {"none", "ANSWER", "REVIEW", "ABSTAIN", "ERROR"}
    /\ interleaved \in BOOLEAN

\* Only passages that apply are shown, by the rule of the domain model rather than the SQL that
\* selected them, and all from one reading: a row replaced between two SELECTs never lends its
\* rank to one text and its words to another's citation.
ShownPassagesApply ==
    /\ reply.shown \subseteq candidates
    /\ \A r \in reply.shown : AppliesInPython(r, query, None, TRUE)

\* An answer delivered as text is corroborated and speaks of one machine in one voice.
AnswersAreCorroborated ==
    reply.kind = "ANSWER" =>
        /\ Cardinality(reply.shown) >= 2 \/ \E r \in reply.shown : r.chunk_id \in exact_ids
        /\ \A r, s \in reply.shown : r.variant_id = s.variant_id
        /\ \A r, s \in reply.shown : r # s => ~MayConflict(r, s)

\* A fused id outside the candidates, which the pipeline calls a fault of the ranking stages, is
\* only ever the index changing between two SELECTs; so is an exact hit whose text, as shown, has
\* none of the question's identifiers.
TornOnlyByACommit ==
    ~interleaved =>
        /\ reply.kind # "ERROR"
        /\ \A r \in reply.shown :
             r.chunk_id \in exact_ids => r.identifiers \intersect query.identifiers # {}

\* Every question gets a reply, however often the index is reloaded under it.
EveryQuestionGetsAReply == <>(reply # NoReply)

\* The service keeps its promise: the candidates SELECT is where it reads.
Promise == INSTANCE AnswerPromise WITH
    index <- chunks,
    reading <- [taken |-> pc \notin {"exact", "candidates"},
                passages |-> {r \in candidates : AppliesInPython(r, query, None, TRUE)}]

KeepsPromise == Promise!Spec

\* Why, for the proofs.  The tables: a row for an id, and a document for a row.
TablesHold ==
    /\ chunks \subseteq UNION Corpora /\ IsFiniteSet(chunks)
    /\ \A r, s \in chunks : r.chunk_id = s.chunk_id => r = s
    /\ DocumentsOf(chunks) \subseteq documents

\* What was read of them.
ReadingHolds ==
    /\ candidates \subseteq UNION Corpora /\ IsFiniteSet(candidates)
    /\ \A r, s \in candidates : r.chunk_id = s.chunk_id => r = s
    /\ DocumentsOf(candidates) \subseteq documents
    /\ exact_ids \union dense_ids \subseteq Ids(UNION Corpora)

\* The ranking: one result a passage, numbered from one, each marked if it is an exact hit.
RankingHolds ==
    /\ IsFiniteSet(retrieved)
    /\ {r.rank : r \in retrieved} = 1..Cardinality(retrieved)
    /\ Cardinality(retrieved) <= TopK
    /\ \A r \in retrieved : r.exact_identifier_hit = (r.chunk.chunk_id \in exact_ids)
    /\ \A r, s \in retrieved : r.chunk = s.chunk => r = s

NamesOne(r) == r.identifiers \intersect query.identifiers # {}

\* While no corpus comes in between, every SELECT sees the same rows.
Undisturbed ==
    ~interleaved =>
        /\ pc \notin {"exact", "done"} => exact_ids = Ids({r \in Filtered : NamesOne(r)})
        /\ pc \in {"dense", "fuse", "decide", "labels"} => candidates = Filtered
        /\ pc = "fuse" => dense_ids \subseteq Ids(Filtered)
        /\ \A r \in candidates : r.chunk_id \in exact_ids => NamesOne(r)
        /\ reply.kind # "ERROR"

\* What pipeline.py says at the pool: a fused id outside the candidates cannot happen.
FusedWithinCandidates ==
    pc = "fuse" => exact_ids \union dense_ids \subseteq Ids(candidates)
=============================================================================
