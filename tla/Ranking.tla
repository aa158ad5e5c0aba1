------------------------------ MODULE Ranking -------------------------------
(***************************************************************************)
(* How the filtered passages of a question are put in order                 *)
(* (retrieval/): the identifier lookup, BM25 (bm25.py) and the nearest      *)
(* vectors (dense.py) each rank them, reciprocal rank fusion (fusion.py)    *)
(* adds up the positions, a rerank (rerank.py) adds four features, and the  *)
(* first top_k are kept (pipeline.py).  Ask leaves all of this open; here   *)
(* it is computed.                                                          *)
(*                                                                          *)
(* A passage has a chunk_id, which is its place in the order of ids, a      *)
(* language and a text (Quoting); a question has its terms, each of them    *)
(* once, its identifiers and its language.  The code's fractions are whole  *)
(* numbers here: fused scores exactly, as multiples of 1 / FusionScale; the *)
(* shares of the rerank and the BM25 scores, whose logarithms are a table,  *)
(* rounded down to multiples as small as one chooses.                       *)
(***************************************************************************)
EXTENDS Quoting, Functions

CONSTANTS
    StageDepth,     \* max(top_k * STAGE_DEPTH_MULTIPLIER, MIN_STAGE_DEPTH)
    TopK,           \* Query.top_k
    MaxCandidates,  \* how many passages a filter admits, at most
    FusionScale,    \* a fused score of one
    ShareScale,     \* a share of one
    Idf             \* [n][df]: the inverse frequency of a word in df of n texts

RRF_K == 60

\* log((n - df + 0.5) / (df + 0.5)) is no fraction: whatever whole numbers stand for it.
ASSUME RankingAssumption ==
    /\ StageDepth \in Nat
    /\ TopK \in Nat
    /\ MaxCandidates \in Nat \ {0}
    /\ FusionScale \in Nat \ {0}
    /\ \A position \in 1..MaxCandidates : FusionScale % (RRF_K + position) = 0
    /\ ShareScale \in Nat \ {0}
    /\ \A n \in 1..MaxCandidates : \A df \in 1..n : Idf[n][df] \in Int

ShippedWeights == [exact_identifier |-> 2, lexical |-> 1, dense |-> 1]

\* The arms that remove a signal remove it here and nowhere else.
StageWeights ==
    [system |-> ShippedWeights,
     bm25_only |-> [ShippedWeights EXCEPT !.dense = 0],
     dense_only |-> [ShippedWeights EXCEPT !.exact_identifier = 0, !.lexical = 0]]

\* A set in the order of a relation that tells any two of its elements apart.
Sorted(S, before) ==
    [n \in 1..Cardinality(S) |->
       CHOOSE x \in S : Cardinality({y \in S : <<y, x>> \in before}) = n - 1]

\* Mutant: one more than the limit.
FirstAndOneMore(ranking, n) == SubSeq(ranking, 1, IF n + 1 < Len(ranking) THEN n + 1 ELSE Len(ranking))

FirstOf(ranking, n) == SubSeq(ranking, 1, IF n < Len(ranking) THEN n ELSE Len(ranking))
IdsOf(rows) == [i \in DOMAIN rows |-> rows[i].chunk_id]
Members(ranking) == {ranking[i] : i \in DOMAIN ranking}

\* The highest score first; an id, which is a key, breaks a tie.
BestFirst(score) ==
    Sorted(DOMAIN score,
           {p \in (DOMAIN score) \X (DOMAIN score) :
              \/ score[p[1]] > score[p[2]]
              \/ score[p[1]] = score[p[2]] /\ p[1].chunk_id < p[2].chunk_id})

-----------------------------------------------------------------------------
(* The three stages *)

Shared(q, r) == Cardinality(q.identifiers \intersect PartNumbersIn(r.text))

\* The most of the question's identifiers first.
ExactRanking(q, rows) ==
    IdsOf(BestFirst([r \in {c \in Members(rows) : Shared(q, c) > 0} |-> Shared(q, r)]))

\* Where a text has a word.
WordsAt(text) == {i \in DOMAIN text : text[i] \notin Blank \union {"."}}

\* BM25Okapi with k1 = 3/2 and b = 3/4.  A word that more than half of the texts have would weigh
\* less than nothing, and is given a quarter of the mean of all words instead: all weights times
\* four times the vocabulary, to stay whole.  A word adds more the more often a passage has it,
\* less and less so, and the more so in a passage that is short beside the others.
Bm25Scores(q, passages) ==
    LET n == Cardinality(passages)
        vocabulary == UNION {TokensIn(r.text) : r \in passages}
        idf == [word \in vocabulary |->
                  Idf[n][Cardinality({r \in passages : word \in TokensIn(r.text)})]]
        weight == [word \in vocabulary |->
                     IF idf[word] < 0 THEN SumFunction(idf) ELSE 4 * Cardinality(vocabulary) * idf[word]]
        length == [r \in passages |-> Cardinality(WordsAt(r.text))]
        total == SumFunction(length)
        added(r, word, count) == (weight[word] * 20 * total * count)
                                     \div (8 * total * count + 3 * total + 9 * n * length[r])
    IN  [r \in passages |->
           SumFunction([word \in q.terms \intersect TokensIn(r.text) |->
                          added(r, word, Cardinality({i \in WordsAt(r.text) : r.text[i] = word}))])]

\* Mutant: a passage the stage has no opinion of is ranked all the same.
OrderByScoreWithZeros(score) == IdsOf(BestFirst(score))

OrderByScore(score) == IdsOf(BestFirst([r \in {c \in DOMAIN score : score[c] > 0} |-> score[r]]))

LexicalRanking(q, rows) == FirstOf(OrderByScore(Bm25Scores(q, Members(rows))), StageDepth)

\* Mutant: rows at one distance come in the order the table has them.
NearerByDistance(distance, r, s) == distance[r.chunk_id] < distance[s.chunk_id]

\* ORDER BY distance, chunk_id.
Nearer(distance, r, s) ==
    \/ distance[r.chunk_id] < distance[s.chunk_id]
    \/ distance[r.chunk_id] = distance[s.chunk_id] /\ r.chunk_id < s.chunk_id

\* Rows the ORDER BY does not tell apart come as the table has them.  Exhaustive: what an
\* approximate index may miss is in Ask.
DenseRanking(rows, distance) ==
    LET before == {p \in (DOMAIN rows) \X (DOMAIN rows) :
                     \/ Nearer(distance, rows[p[1]], rows[p[2]])
                     \/ ~Nearer(distance, rows[p[2]], rows[p[1]]) /\ p[1] < p[2]}
        order == Sorted(DOMAIN rows, before)
    IN  FirstOf([n \in DOMAIN rows |-> rows[order[n]].chunk_id], StageDepth)

-----------------------------------------------------------------------------
(* Fusion and rerank *)

\* The sum of weight / (60 + position) over the stages that rank a passage; a stage of no weight
\* ranks nothing.
ReciprocalRankFusion(stages, weights) ==
    LET voting == {name \in DOMAIN stages : weights[name] # 0}
        position(name, id) == CHOOSE i \in DOMAIN stages[name] : stages[name][i] = id
        vote(name, id) == IF id \in Members(stages[name])
                            THEN weights[name] * (FusionScale \div (RRF_K + position(name, id)))
                            ELSE 0
    IN  [id \in UNION {Members(stages[name]) : name \in voting} |->
           vote("exact_identifier", id) + vote("lexical", id) + vote("dense", id)]

\* In two hundredths of the score at the top of the pool.
RERANK_WEIGHTS == [exact_identifier |-> 100, identifier_coverage |-> 40,
                   term_coverage |-> 30, language_match |-> 10]

RerankScale == 200 * ShareScale

\* The share of what is wanted that is present; an empty question covers nothing.
Coverage(wanted, present) ==
    IF wanted = {}
      THEN 0
      ELSE (ShareScale * Cardinality(wanted \intersect present)) \div Cardinality(wanted)

FeaturesOf(q, r, exact_ids) ==
      RERANK_WEIGHTS.exact_identifier * (IF r.chunk_id \in exact_ids THEN ShareScale ELSE 0)
    + RERANK_WEIGHTS.identifier_coverage * Coverage(q.identifiers, PartNumbersIn(r.text))
    + RERANK_WEIGHTS.term_coverage * Coverage(q.terms, TokensIn(r.text))
    + RERANK_WEIGHTS.language_match * (IF r.language = q.language THEN ShareScale ELSE 0)

\* The fused score between the lowest, zero, and the highest, one, of the pool, and the features
\* on top: over a common denominator.  A flat pool is all at one.
RerankScore(q, pool, fused, exact_ids) ==
    LET scores == {fused[r.chunk_id] : r \in pool}
        low == CHOOSE s \in scores : \A t \in scores : s <= t
        high == CHOOSE s \in scores : \A t \in scores : t <= s
    IN  [r \in pool |->
           IF high = low
             THEN RerankScale + FeaturesOf(q, r, exact_ids)
             ELSE   RerankScale * (fused[r.chunk_id] - low)
                  + FeaturesOf(q, r, exact_ids) * (high - low)]

\* The pool is every fused passage.
Rerank(q, rows, fused, exact_ids) ==
    FirstOf(BestFirst(RerankScore(q, {r \in Members(rows) : r.chunk_id \in DOMAIN fused}, fused, exact_ids)),
            TopK)
=============================================================================
