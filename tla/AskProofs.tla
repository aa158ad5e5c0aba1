------------------------------ MODULE AskProofs ------------------------------
(***************************************************************************)
(* The service keeps its promise for every corpus, question and threshold,  *)
(* however often the index is replaced while it answers.                    *)
(***************************************************************************)
EXTENDS Ask, GateProofs

Applies(r) == AppliesInPython(r, query, None, TRUE)

\* What a request carries from one statement to the next.
Carried ==
    /\ \A r \in candidates : Applies(r)
    /\ \A r \in retrieved : r.chunk \in candidates
    /\ reply.shown \subseteq candidates

\* Where it is: it reads at most once, decides at most once and replies at the end.
Progress ==
    /\ pc \in {"exact", "candidates"} => candidates = {} /\ retrieved = {}
    /\ pc # "done" => reply = NoReply
    /\ pc = "labels" => decision = Decide(query, retrieved, Shipped) /\ decision.outcome # "ABSTAIN"

IInv ==
    /\ query \in Queries
    /\ \A r \in chunks : WellFormedRow(r)
    /\ Carried
    /\ Progress

\* Each statement sees exactly the rows that apply.
LEMMA FilteredApply ==
    ASSUME IInv
    PROVE  Filtered = {r \in chunks : Applies(r)}
<1>1. WellFormedQuery(query)
  BY AskAssumption DEF IInv
<1>2. \A r \in chunks : SelectedBySql(r, query, None, TRUE) <=> AppliesInPython(r, query, None, TRUE)
  BY <1>1, SqlMirrorsPython DEF IInv
<1> QED
  BY <1>2 DEF Filtered, Applies

\* A ranked result is a passage of the pool.
LEMMA RankedFromPool ==
    ASSUME NEW pool, NEW fused, NEW others
    PROVE  \A r \in Ranked(pool, fused, others) : r.chunk \in pool
<1> DEFINE score == [r \in pool |->
                       fused[r] + others[r] + (IF r.chunk_id \in exact_ids THEN 5 ELSE 0)]
           ahead(r) == {s \in pool : \/ score[s] > score[r]
                                     \/ score[s] = score[r] /\ s.chunk_id < r.chunk_id}
           place(r) == 1 + Cardinality(ahead(r))
           kept == {s \in pool : Cardinality(ahead(s)) < TopK}
<1>1. Ranked(pool, fused, others) =
        {[chunk |-> r, fused_score |-> score[r], rank |-> place(r),
          exact_identifier_hit |-> r.chunk_id \in exact_ids] : r \in kept}
  BY DEF Ranked
<1>2. kept \subseteq pool
  OBVIOUS
<1> HIDE DEF score, place, kept
<1> QED
  BY <1>1, <1>2

\* Scores are numbers and ids are different numbers, so that one passage is first, one second
\* and so on, for as many as are kept.
LEMMA RankedInOrder ==
    ASSUME NEW pool, IsFiniteSet(pool), \A r \in pool : r.chunk_id \in Int,
           \A r, s \in pool : r.chunk_id = s.chunk_id => r = s,
           NEW fused \in [pool -> Int], NEW others \in [pool -> Int]
    PROVE  LET result == Ranked(pool, fused, others)
           IN  /\ IsFiniteSet(result)
               /\ {r.rank : r \in result} = 1..Cardinality(result)
               /\ Cardinality(result) <= TopK
               /\ \A r \in result : r.exact_identifier_hit = (r.chunk.chunk_id \in exact_ids)
               /\ \A r, s \in result : r.chunk = s.chunk => r = s
<1> DEFINE score == [r \in pool |->
                       fused[r] + others[r] + (IF r.chunk_id \in exact_ids THEN 5 ELSE 0)]
           ahead(r) == {s \in pool : \/ score[s] > score[r]
                                     \/ score[s] = score[r] /\ s.chunk_id < r.chunk_id}
           place(r) == 1 + Cardinality(ahead(r))
           kept == {s \in pool : Cardinality(ahead(s)) < TopK}
           result_of(r) == [chunk |-> r, fused_score |-> score[r], rank |-> place(r),
                            exact_identifier_hit |-> r.chunk_id \in exact_ids]
           result == {result_of(r) : r \in kept}
           N == Cardinality(pool)
           M == IF N <= TopK THEN N ELSE TopK
<1>1. Ranked(pool, fused, others) = result
  BY DEF Ranked
<1>2. \A r \in pool : score[r] \in Int
  OBVIOUS
<1> HIDE DEF score
<1>3. N \in Nat /\ TopK \in Nat /\ M \in Nat
  BY FS_CardinalityType, AskAssumption
<1>4. \A r \in pool : IsFiniteSet(ahead(r)) /\ Cardinality(ahead(r)) \in Nat
  BY FS_Subset, FS_CardinalityType
<1>5. ASSUME NEW r \in pool, NEW s \in ahead(r)
      PROVE  place(s) < place(r)
  <2>1. s \in pool /\ s \notin ahead(s)
    BY <1>2
  <2>2. ahead(s) \in SUBSET (ahead(r) \ {s})
    <3> SUFFICES ASSUME NEW u \in ahead(s) PROVE u \in ahead(r) /\ u # s
      OBVIOUS
    <3>1. /\ score[u] \in Int /\ score[s] \in Int /\ score[r] \in Int
          /\ u.chunk_id \in Int /\ s.chunk_id \in Int /\ r.chunk_id \in Int
      BY <1>2
    <3>2. score[u] > score[s] \/ (score[u] = score[s] /\ u.chunk_id < s.chunk_id)
      OBVIOUS
    <3>3. score[s] > score[r] \/ (score[s] = score[r] /\ s.chunk_id < r.chunk_id)
      OBVIOUS
    <3>4. score[u] > score[r] \/ (score[u] = score[r] /\ u.chunk_id < r.chunk_id)
      BY <3>1, <3>2, <3>3
    <3> QED
      BY <2>1, <3>4
  <2>3. /\ IsFiniteSet(ahead(r) \ {s})
        /\ Cardinality(ahead(r) \ {s}) = Cardinality(ahead(r)) - 1
    BY <1>4, FS_RemoveElement
  <2>4. Cardinality(ahead(s)) <= Cardinality(ahead(r) \ {s})
    BY <2>2, <2>3, FS_Subset
  <2> HIDE DEF ahead
  <2>5. Cardinality(ahead(r)) \in Nat /\ Cardinality(ahead(s)) \in Nat
    BY <1>4, <2>1
  <2> QED
    BY <2>3, <2>4, <2>5
<1>6. \A r, s \in pool : r # s => s \in ahead(r) \/ r \in ahead(s)
  BY <1>2
<1>7. ASSUME NEW r \in pool
      PROVE  place(r) \in 1..N
  <2>1. ahead(r) \in SUBSET (pool \ {r})
    <3>1. ~(score[r] > score[r]) /\ ~(r.chunk_id < r.chunk_id)
      BY <1>2
    <3> QED
      BY <3>1
  <2>2. IsFiniteSet(pool \ {r}) /\ Cardinality(pool \ {r}) = N - 1
    BY FS_RemoveElement
  <2>3. Cardinality(ahead(r)) <= N - 1
    BY <2>1, <2>2, FS_Subset
  <2> HIDE DEF ahead, N
  <2>4. Cardinality(ahead(r)) \in Nat
    BY <1>4
  <2> QED
    BY <1>3, <2>3, <2>4
<1>8. ASSUME NEW r \in pool, NEW s \in pool, place(r) = place(s)
      PROVE  r = s
  <2> HIDE DEF ahead
  <2>1. Cardinality(ahead(r)) \in Nat /\ Cardinality(ahead(s)) \in Nat
    BY <1>4
  <2>2. ~(place(s) < place(r)) /\ ~(place(r) < place(s))
    BY <1>8, <2>1
  <2> HIDE DEF place
  <2> QED
    BY <1>5, <1>6, <2>2
<1> HIDE DEF ahead
<1>9. \A n \in 1..N : \E r \in pool : place(r) = n
  <2> DEFINE f == [r \in pool |-> place(r)]
  <2>1. f \in Injection(pool, 1..N)
    BY <1>7, <1>8 DEF Injection, IsInjective
  <2>2. IsFiniteSet(1..N) /\ Cardinality(1..N) = N
    BY <1>3, FS_Interval
  <2>3. f \in Surjection(pool, 1..N)
    <3> HIDE DEF f
    <3> QED
      BY <2>1, <2>2, FS_Injection
  <2> QED
    BY <2>3 DEF Surjection
<1>10. \A r \in pool : r \in kept <=> place(r) \in 1..M
  BY <1>3, <1>4, <1>7
<1> HIDE DEF kept, place
<1>11. IsFiniteSet(kept) /\ Cardinality(kept) = M
  <2> DEFINE f == [r \in kept |-> place(r)]
  <2>1. kept \subseteq pool
    BY DEF kept
  <2>2. f \in Injection(kept, 1..M)
    BY <1>8, <1>10, <2>1 DEF Injection, IsInjective
  <2>3. f \in Surjection(kept, 1..M)
    <3>1. \A n \in 1..M : \E r \in kept : place(r) = n
      BY <1>3, <1>9, <1>10
    <3> QED
      BY <2>2, <3>1 DEF Injection, IsInjective, Surjection
  <2> HIDE DEF f, M
  <2>4. IsFiniteSet(1..M) /\ Cardinality(1..M) = M
    BY <1>3, FS_Interval
  <2> QED
    BY <2>2, <2>3, <2>4, FS_Injection
<1>12. IsFiniteSet(result) /\ Cardinality(result) = M
  <2> DEFINE f == [r \in kept |-> result_of(r)]
  <2>1. f \in Surjection(kept, result) /\ f \in Injection(kept, result)
    BY DEF Surjection, Injection, IsInjective
  <2> HIDE DEF f, result
  <2> QED
    BY <1>11, <2>1, FS_Surjection
<1>13. {r.rank : r \in result} = 1..M
  <2>1. ASSUME NEW r \in result
        PROVE  r.rank \in 1..M
    <3>1. PICK s \in kept : r = result_of(s)
      OBVIOUS
    <3>2. r.rank = place(s) /\ s \in pool
      BY <3>1 DEF kept
    <3> QED
      BY <1>10, <3>1, <3>2
  <2>2. ASSUME NEW n \in 1..M
        PROVE  \E r \in result : r.rank = n
    <3>1. PICK s \in pool : place(s) = n
      BY <1>3, <1>9
    <3>2. s \in kept /\ result_of(s).rank = n
      BY <1>10, <3>1
    <3> QED
      BY <3>2
  <2> HIDE DEF result, M
  <2> QED
    BY <2>1, <2>2
<1>14. M <= TopK
  BY <1>3
<1>15. /\ \A r \in result : r.exact_identifier_hit = (r.chunk.chunk_id \in exact_ids)
       /\ \A r, s \in result : r.chunk = s.chunk => r = s
  OBVIOUS
<1> QED
  BY <1>1, <1>12, <1>13, <1>14, <1>15

\* Before anything is read there is nothing to show.
LEMMA Initially == ASSUME Init PROVE IInv
BY AskAssumption DEF Init, IInv, Carried, Progress, NoReply, Undecided

\* The invariant, action by action.
LEMMA Inductive == IInv /\ [Next]_vars => IInv'
<1> SUFFICES ASSUME IInv, [Next]_vars PROVE IInv'
  OBVIOUS
<1> USE DEF IInv, Carried, Progress, tables
<1>1. ASSUME NEW corpus \in Corpora, CommitCorpus(corpus)
      PROVE  IInv'
  <2>1. \A r \in chunks' : WellFormedRow(r)
    BY <1>1, AskAssumption DEF CommitCorpus
  <2> QED
    BY <1>1, <2>1 DEF CommitCorpus, Applies
<1>2. CASE ExactStage
  BY <1>2 DEF ExactStage, Applies
<1>3. CASE FetchCandidates
  <2>1. \A r \in candidates' : Applies(r)
    BY <1>3, FilteredApply DEF FetchCandidates
  <2> QED
    BY <1>3, <2>1 DEF FetchCandidates, Applies, NoReply
<1>4. CASE DenseStage
  BY <1>4 DEF DenseStage, Applies
<1>5. CASE FuseAndRank
  <2> DEFINE within == exact_ids \union dense_ids \subseteq Ids(candidates)
  <2>1. UNCHANGED <<query, chunks, candidates, decision>> /\ pc = "fuse" /\ reply = NoReply
    BY <1>5 DEF FuseAndRank
  <2>2. CASE within
    <3>1. /\ \E pool \in SUBSET candidates : \E fused \in Normalised(pool), others \in OtherFeatures(pool) :
               retrieved' = Ranked(pool, fused, others)
          /\ pc' = "decide" /\ reply' = reply
      BY <1>5, <2>2 DEF FuseAndRank
    <3>2. PICK pool \in SUBSET candidates :
               \E fused \in Normalised(pool), others \in OtherFeatures(pool) :
                   retrieved' = Ranked(pool, fused, others)
      BY <3>1
    <3>3. \A r \in retrieved' : r.chunk \in candidates
      BY <3>2, RankedFromPool
    <3> QED
      BY <2>1, <3>1, <3>3 DEF Applies
  <2>3. CASE ~within
    <3>1. reply' = [kind |-> "ERROR", shown |-> {}] /\ pc' = "done" /\ retrieved' = retrieved
      BY <1>5, <2>3 DEF FuseAndRank
    <3> QED
      BY <2>1, <3>1 DEF Applies
  <2> QED
    BY <2>2, <2>3
<1>6. CASE DecideGate
  <2>1. /\ UNCHANGED <<query, chunks, candidates, retrieved>> /\ pc = "decide" /\ reply = NoReply
        /\ decision' = Decide(query, retrieved, Shipped)
    BY <1>6 DEF DecideGate
  <2>2. CASE decision'.outcome = "ABSTAIN"
    <3>1. reply' = [kind |-> "ABSTAIN", shown |-> {}] /\ pc' = "done"
      BY <1>6, <2>2 DEF DecideGate
    <3> QED
      BY <2>1, <3>1 DEF Applies
  <2>3. CASE decision'.outcome # "ABSTAIN"
    <3>1. reply' = reply /\ pc' = "labels"
      BY <1>6, <2>3 DEF DecideGate
    <3> QED
      BY <2>1, <2>3, <3>1 DEF Applies
  <2> QED
    BY <2>2, <2>3
<1>7. CASE CiteAndAnswer
  <2>1. decision.approved \subseteq retrieved
    BY <1>7, AnswerIsSound, ReviewHasPassages, OnlyFallThroughAnswers DEF CiteAndAnswer, Decide
  <2>2. {r.chunk : r \in decision.approved} \subseteq candidates
    BY <2>1
  <2>3. reply'.shown \subseteq candidates
    BY <1>7, <2>2 DEF CiteAndAnswer
  <2>4. UNCHANGED <<query, chunks, candidates, retrieved>> /\ pc' = "done"
    BY <1>7 DEF CiteAndAnswer
  <2> QED
    BY <2>3, <2>4 DEF Applies
<1>8. CASE UNCHANGED vars
  BY <1>8 DEF vars, Applies
<1> QED
  BY <1>1, <1>2, <1>3, <1>4, <1>5, <1>6, <1>7, <1>8 DEF Next, Request

\* So it holds throughout.
LEMMA Invariance == Spec => []IInv
<1>1. Init => IInv
  BY Initially
<1> QED
  BY <1>1, Inductive, PTL DEF Spec

-----------------------------------------------------------------------------
(* What the tables, the reading and the ranking are like *)

\* A row of a corpus: an integer for an id, and no other row of that corpus has it.
LEMMA CorpusFacts ==
    ASSUME NEW corpus \in Corpora
    PROVE  /\ corpus \subseteq UNION Corpora /\ IsFiniteSet(corpus)
           /\ \A r, s \in corpus : r.chunk_id = s.chunk_id => r = s
BY AskAssumption

\* A commit replaces rows by id, so that there is still one for an id.
LEMMA TablesStay == TablesHold /\ [Next]_vars => TablesHold'
<1> SUFFICES ASSUME TablesHold, [Next]_vars PROVE TablesHold'
  OBVIOUS
<1>1. ASSUME NEW corpus \in Corpora, CommitCorpus(corpus)
      PROVE  TablesHold'
  <2> DEFINE kept == {r \in chunks : r.chunk_id \notin Ids(corpus)}
  <2>1. chunks' = kept \union corpus /\ documents' = documents \union DocumentsOf(corpus)
    BY <1>1 DEF CommitCorpus
  <2>2. IsFiniteSet(kept)
    BY FS_Subset DEF TablesHold
  <2>3. IsFiniteSet(chunks')
    BY <2>1, <2>2, CorpusFacts, FS_Union
  <2>4. \A r, s \in chunks' : r.chunk_id = s.chunk_id => r = s
    BY <2>1, CorpusFacts DEF TablesHold, Ids
  <2>5. chunks' \subseteq UNION Corpora /\ DocumentsOf(chunks') \subseteq documents'
    BY <2>1, CorpusFacts DEF TablesHold, DocumentsOf
  <2> QED
    BY <2>3, <2>4, <2>5 DEF TablesHold
<1>2. CASE Request
  BY <1>2 DEF Request, ExactStage, FetchCandidates, DenseStage, FuseAndRank, DecideGate,
              CiteAndAnswer, tables, TablesHold
<1>3. CASE UNCHANGED vars
  BY <1>3 DEF vars, TablesHold
<1> QED
  BY <1>1, <1>2, <1>3 DEF Next

\* What a statement returns is part of the table, and stays what it was when the table changes.
LEMMA ReadingStays == TablesHold /\ ReadingHolds /\ [Next]_vars => ReadingHolds'
<1> SUFFICES ASSUME TablesHold, ReadingHolds, [Next]_vars PROVE ReadingHolds'
  OBVIOUS
<1>1. ASSUME NEW corpus \in Corpora, CommitCorpus(corpus)
      PROVE  ReadingHolds'
  BY <1>1 DEF CommitCorpus, ReadingHolds
<1>2. Filtered \subseteq chunks
  BY DEF Filtered
<1>3. CASE ExactStage
  <2>1. exact_ids' \subseteq Ids(UNION Corpora)
    BY <1>2, <1>3 DEF ExactStage, TablesHold, Ids
  <2> QED
    BY <1>3, <2>1 DEF ExactStage, ReadingHolds, tables
<1>4. CASE FetchCandidates
  <2>1. candidates' = Filtered /\ UNCHANGED <<documents, exact_ids, dense_ids>>
    BY <1>4 DEF FetchCandidates, tables
  <2>2. IsFiniteSet(Filtered)
    BY <1>2, FS_Subset DEF TablesHold
  <2> QED
    BY <1>2, <2>1, <2>2 DEF TablesHold, ReadingHolds, DocumentsOf
<1>5. CASE DenseStage
  <2>1. dense_ids' \subseteq Ids(UNION Corpora)
    BY <1>2, <1>5 DEF DenseStage, TablesHold, Ids
  <2> QED
    BY <1>5, <2>1 DEF DenseStage, ReadingHolds, tables
<1>6. CASE FuseAndRank \/ DecideGate \/ CiteAndAnswer
  BY <1>6 DEF FuseAndRank, DecideGate, CiteAndAnswer, tables, ReadingHolds
<1>7. CASE UNCHANGED vars
  BY <1>7 DEF vars, ReadingHolds
<1> QED
  BY <1>1, <1>3, <1>4, <1>5, <1>6, <1>7 DEF Next, Request

\* Nothing is ranked before there is a pool, and what was ranked is not ranked again.
LEMMA RankingStays == IInv /\ ReadingHolds /\ RankingHolds /\ [Next]_vars => RankingHolds'
<1> SUFFICES ASSUME IInv, ReadingHolds, RankingHolds, [Next]_vars PROVE RankingHolds'
  OBVIOUS
<1>1. CASE UNCHANGED <<retrieved, exact_ids>>
  BY <1>1 DEF RankingHolds
<1>2. CASE ExactStage
  <2>1. retrieved = {} /\ retrieved' = retrieved
    BY <1>2 DEF ExactStage, IInv, Progress
  <2> QED
    BY <2>1 DEF RankingHolds
<1>3. CASE FuseAndRank /\ exact_ids \union dense_ids \subseteq Ids(candidates)
  <2>1. PICK pool \in SUBSET candidates :
             \E fused \in Normalised(pool), others \in OtherFeatures(pool) :
                 retrieved' = Ranked(pool, fused, others)
    BY <1>3 DEF FuseAndRank
  <2>2. PICK fused \in [pool -> Int], others \in [pool -> Int] :
             retrieved' = Ranked(pool, fused, others)
    BY <2>1 DEF Normalised, OtherFeatures
  <2>3. /\ IsFiniteSet(pool)
        /\ \A r \in pool : r.chunk_id \in Int
        /\ \A r, s \in pool : r.chunk_id = s.chunk_id => r = s
    BY AskAssumption, FS_Subset DEF ReadingHolds
  <2>4. exact_ids' = exact_ids
    BY <1>3 DEF FuseAndRank
  <2> QED
    BY <2>2, <2>3, <2>4, RankedInOrder DEF RankingHolds
<1>4. UNCHANGED <<retrieved, exact_ids>> \/ ExactStage
        \/ (FuseAndRank /\ exact_ids \union dense_ids \subseteq Ids(candidates))
  BY DEF Next, Request, CommitCorpus, FetchCandidates, DenseStage, FuseAndRank, DecideGate,
         CiteAndAnswer, vars
<1> QED
  BY <1>1, <1>2, <1>3, <1>4

\* The tables, the reading and the ranking, throughout.
LEMMA DataInvariance == Spec => [](TablesHold /\ ReadingHolds /\ RankingHolds)
<1>1. Init => TablesHold /\ ReadingHolds /\ RankingHolds
  <2> SUFFICES ASSUME Init PROVE TablesHold /\ ReadingHolds /\ RankingHolds
    OBVIOUS
  <2>1. TablesHold
    BY CorpusFacts DEF Init, TablesHold
  <2>2. IsFiniteSet({}) /\ Cardinality({}) = 0
    BY FS_EmptySet
  <2>3. ReadingHolds
    BY <2>2 DEF Init, ReadingHolds, DocumentsOf
  <2>4. RankingHolds
    BY <2>2, AskAssumption DEF Init, RankingHolds
  <2> QED
    BY <2>1, <2>3, <2>4
<1> QED
  BY <1>1, Invariance, TablesStay, ReadingStays, RankingStays, PTL DEF Spec

\* Questions, rows, ranks and replies keep their types.
THEOREM TypeCorrect == Spec => []TypeOK
<1> DEFINE Places == /\ pc \in {"exact", "candidates", "dense", "fuse", "decide", "labels", "done"}
                     /\ reply.kind \in {"none", "ANSWER", "REVIEW", "ABSTAIN", "ERROR"}
                     /\ interleaved \in BOOLEAN
<1>1. Init => Places
  <2> SUFFICES ASSUME Init PROVE Places
    OBVIOUS
  <2>1. pc = "exact" /\ reply.kind = "none"
    BY DEF Init, NoReply
  <2>2. interleaved \in BOOLEAN
    BY DEF Init
  <2> QED
    BY <2>1, <2>2
<1>2. IInv /\ Places /\ [Next]_vars => Places'
  <2> SUFFICES ASSUME IInv, Places, [Next]_vars PROVE Places'
    OBVIOUS
  <2>1. CASE CiteAndAnswer
    <3>1. decision.outcome \in {"ANSWER", "REVIEW", "ABSTAIN"}
      BY <2>1, OnlyFallThroughAnswers DEF CiteAndAnswer, IInv, Progress, Decide
    <3> QED
      BY <2>1, <3>1 DEF CiteAndAnswer
  <2>2. CASE \E corpus \in Corpora : CommitCorpus(corpus)
    BY <2>2 DEF CommitCorpus
  <2>3. CASE ExactStage \/ FetchCandidates \/ DenseStage
    BY <2>3 DEF ExactStage, FetchCandidates, DenseStage
  <2>4. CASE FuseAndRank \/ DecideGate
    BY <2>4 DEF FuseAndRank, DecideGate
  <2>5. CASE UNCHANGED vars
    BY <2>5 DEF vars
  <2> QED
    BY <2>1, <2>2, <2>3, <2>4, <2>5 DEF Next, Request
<1>3. IInv /\ ReadingHolds /\ RankingHolds /\ Places => TypeOK
  BY DEF IInv, ReadingHolds, RankingHolds, TypeOK
<1> QED
  BY <1>1, <1>2, <1>3, Invariance, DataInvariance, PTL DEF Spec

\* No passage is shown that does not apply by the domain model's rule, and none that was not
\* read with the candidates.
THEOREM ShownPassagesDoApply == Spec => []ShownPassagesApply
<1>1. IInv => ShownPassagesApply
  BY DEF IInv, Carried, Applies, ShownPassagesApply
<1> QED
  BY <1>1, Invariance, PTL
\* What the answer of a decision shows.
LEMMA AnsweredIsCorroborated ==
    ASSUME IInv, RankingHolds, CiteAndAnswer, decision.outcome = "ANSWER"
    PROVE  LET shown == {r.chunk : r \in decision.approved}
           IN  /\ Cardinality(shown) >= 2 \/ \E r \in shown : r.chunk_id \in exact_ids
               /\ \A r, s \in shown : r.variant_id = s.variant_id
               /\ \A r, s \in shown : r # s => ~MayConflict(r, s)
<1> DEFINE approved == decision.approved
           shown == {r.chunk : r \in approved}
<1>1. decision = Decide(query, retrieved, Shipped)
  BY DEF IInv, Progress, CiteAndAnswer
<1>2. /\ approved \subseteq retrieved
      /\ ~(Cardinality(approved) < RequiredSupport(decision.signals, Shipped))
      /\ \A r, s \in approved : r.chunk.variant_id = s.chunk.variant_id
      /\ \A r, s \in approved : r # s => ~MayConflict(r.chunk, s.chunk)
  BY <1>1, AnswerIsSound
<1>3. approved = SupportingChunks(retrieved, Shipped)
  BY <1>1 DEF Decide
<1>4. decision.signals.exact_identifier_hit = \E r \in approved : r.exact_identifier_hit
  BY <1>1, <1>3 DEF Decide, Signals
<1> HIDE DEF approved
<1>5. IsFiniteSet(approved)
  BY <1>2, FS_Subset DEF RankingHolds
<1>6. IsFiniteSet(shown) /\ Cardinality(shown) = Cardinality(approved)
  <2> DEFINE f == [r \in approved |-> r.chunk]
  <2>1. f \in Surjection(approved, shown) /\ f \in Injection(approved, shown)
    BY <1>2 DEF Surjection, Injection, IsInjective, RankingHolds
  <2> HIDE DEF f, shown
  <2> QED
    BY <1>5, <2>1, FS_Surjection
<1>7. ASSUME decision.signals.exact_identifier_hit
      PROVE  \E r \in shown : r.chunk_id \in exact_ids
  <2>1. PICK r \in approved : r.exact_identifier_hit
    BY <1>4, <1>7
  <2>2. r.chunk.chunk_id \in exact_ids
    BY <1>2, <2>1 DEF RankingHolds
  <2>3. r.chunk \in shown
    BY <2>1
  <2> HIDE DEF shown
  <2> QED
    BY <2>2, <2>3
<1>8. ASSUME ~decision.signals.exact_identifier_hit
      PROVE  Cardinality(shown) >= 2
  <2>1. RequiredSupport(decision.signals, Shipped) \in Nat \ {0, 1}
    BY <1>8, AskAssumption DEF RequiredSupport
  <2>2. Cardinality(approved) \in Nat
    BY <1>5, FS_CardinalityType
  <2> HIDE DEF shown
  <2> QED
    BY <1>2, <1>6, <2>1, <2>2
<1>9. /\ \A r, s \in shown : r.variant_id = s.variant_id
      /\ \A r, s \in shown : r # s => ~MayConflict(r, s)
  BY <1>2
<1>10. Cardinality(shown) >= 2 \/ \E r \in shown : r.chunk_id \in exact_ids
  BY <1>7, <1>8
<1> QED
  BY <1>9, <1>10 DEF approved

\* An answer is corroborated when it is delivered, and the corpora that come after change neither
\* what it shows nor which of that was an exact hit.
THEOREM AnswersHaveSupport == Spec => []AnswersAreCorroborated
<1>1. Init => AnswersAreCorroborated
  BY DEF Init, NoReply, AnswersAreCorroborated
<1>2. IInv /\ RankingHolds /\ AnswersAreCorroborated /\ [Next]_vars => AnswersAreCorroborated'
  <2> SUFFICES ASSUME IInv, RankingHolds, AnswersAreCorroborated, [Next]_vars
               PROVE  AnswersAreCorroborated'
    OBVIOUS
  <2>1. CASE UNCHANGED <<reply, exact_ids>>
    BY <2>1 DEF AnswersAreCorroborated
  <2>2. CASE reply'.kind # "ANSWER"
    BY <2>2 DEF AnswersAreCorroborated
  <2>3. CASE CiteAndAnswer /\ reply'.kind = "ANSWER"
    <3>1. /\ reply' = [kind |-> "ANSWER", shown |-> {r.chunk : r \in decision.approved}]
          /\ decision.outcome = "ANSWER" /\ exact_ids' = exact_ids
      BY <2>3 DEF CiteAndAnswer
    <3> QED
      BY <2>3, <3>1, AnsweredIsCorroborated DEF AnswersAreCorroborated
  <2>4. ExactStage => reply' = NoReply
    BY DEF ExactStage, IInv, Progress
  <2>5. UNCHANGED <<reply, exact_ids>> \/ reply'.kind # "ANSWER" \/ CiteAndAnswer
    BY <2>4 DEF Next, Request, CommitCorpus, FetchCandidates, DenseStage, FuseAndRank, DecideGate,
                vars, NoReply
  <2> QED
    BY <2>1, <2>2, <2>3, <2>5
<1> QED
  BY <1>1, <1>2, Invariance, DataInvariance, PTL DEF Spec

\* Where no corpus comes in between, what the four SELECTs return belongs together.
LEMMA UndisturbedStays ==
    IInv /\ TablesHold /\ ReadingHolds /\ Undisturbed /\ [Next]_vars => Undisturbed'
<1> SUFFICES ASSUME IInv, TablesHold, ReadingHolds, Undisturbed, [Next]_vars, ~interleaved'
             PROVE  Undisturbed'
  BY DEF Undisturbed
<1> DEFINE hits == Ids({r \in Filtered : NamesOne(r)})
<1>1. Filtered \subseteq chunks
  BY DEF Filtered
<1>2. ASSUME NEW corpus \in Corpora, CommitCorpus(corpus)
      PROVE  Undisturbed'
  <2>1. /\ ~interleaved /\ (pc = "exact" \/ reply # NoReply \/ chunks' = chunks)
        /\ UNCHANGED <<query, pc, exact_ids, candidates, dense_ids, retrieved, decision, reply>>
    BY <1>2 DEF CommitCorpus
  <2>2. pc \in {"exact", "done"} \/ chunks' = chunks
    BY <2>1 DEF IInv, Progress
  <2>3. chunks' = chunks => Filtered' = Filtered
    BY <2>1 DEF Filtered
  <2> QED
    BY <2>1, <2>2, <2>3 DEF Undisturbed, NamesOne
<1>3. CASE ExactStage
  <2>1. /\ exact_ids' = hits /\ pc' = "candidates"
        /\ UNCHANGED <<query, chunks, candidates, reply, interleaved>>
    BY <1>3 DEF ExactStage, NamesOne, Ids, tables
  <2>2. candidates = {} /\ Filtered' = Filtered
    BY <1>3, <2>1 DEF ExactStage, IInv, Progress, Filtered
  <2> QED
    BY <2>1, <2>2 DEF Undisturbed, NamesOne
<1>4. CASE FetchCandidates
  <2>1. /\ candidates' = Filtered /\ pc = "candidates" /\ pc' = "dense"
        /\ UNCHANGED <<query, chunks, exact_ids, reply, interleaved>>
    BY <1>4 DEF FetchCandidates, tables
  <2>2. Filtered' = Filtered
    BY <2>1 DEF Filtered
  <2>3. exact_ids = hits
    BY <2>1 DEF Undisturbed
  <2>4. \A r \in Filtered : r.chunk_id \in exact_ids => NamesOne(r)
    BY <1>1, <2>3 DEF TablesHold, Ids
  <2> QED
    BY <2>1, <2>2, <2>3, <2>4 DEF Undisturbed, NamesOne
<1>5. CASE DenseStage
  <2>1. /\ dense_ids' \subseteq Ids(Filtered) /\ pc = "dense" /\ pc' = "fuse"
        /\ UNCHANGED <<query, chunks, exact_ids, candidates, reply, interleaved>>
    BY <1>5 DEF DenseStage, tables
  <2>2. Filtered' = Filtered
    BY <2>1 DEF Filtered
  <2> QED
    BY <2>1, <2>2 DEF Undisturbed, NamesOne
<1>6. CASE FuseAndRank
  <2>1. /\ pc = "fuse" /\ UNCHANGED <<query, chunks, exact_ids, candidates, dense_ids, interleaved>>
    BY <1>6 DEF FuseAndRank, tables
  <2>2. Filtered' = Filtered
    BY <2>1 DEF Filtered
  <2>3. exact_ids \union dense_ids \subseteq Ids(candidates)
    BY <2>1 DEF Undisturbed, Ids
  <2>4. pc' = "decide" /\ reply' = reply
    BY <1>6, <2>3 DEF FuseAndRank
  <2> QED
    BY <2>1, <2>2, <2>4 DEF Undisturbed, NamesOne
<1>7. CASE DecideGate
  <2>1. /\ pc = "decide" /\ UNCHANGED <<query, chunks, exact_ids, candidates, dense_ids, interleaved>>
        /\ pc' \in {"labels", "done"} /\ (reply' = reply \/ reply'.kind = "ABSTAIN")
    BY <1>7 DEF DecideGate, tables
  <2>2. Filtered' = Filtered
    BY <2>1 DEF Filtered
  <2> QED
    BY <2>1, <2>2 DEF Undisturbed, NamesOne
<1>8. CASE CiteAndAnswer
  <2> DEFINE cited == {r.chunk : r \in decision.approved}
  <2>1. /\ pc = "labels" /\ pc' = "done"
        /\ UNCHANGED <<query, chunks, exact_ids, candidates, dense_ids, interleaved>>
    BY <1>8 DEF CiteAndAnswer, tables
  <2>2. decision.approved \subseteq retrieved /\ decision.outcome \in {"ANSWER", "REVIEW", "ABSTAIN"}
    BY <1>8, AnswerIsSound, ReviewHasPassages, OnlyFallThroughAnswers
       DEF CiteAndAnswer, IInv, Progress, Decide
  <2>3. cited \subseteq candidates
    BY <2>2 DEF IInv, Carried
  <2>4. DocumentsOf(cited) \subseteq documents
    BY <2>3 DEF ReadingHolds, DocumentsOf
  <2>5. reply' = [kind |-> decision.outcome, shown |-> cited]
    BY <1>8, <2>4 DEF CiteAndAnswer
  <2>6. reply'.kind # "ERROR"
    BY <2>2, <2>5
  <2> QED
    BY <2>1, <2>6 DEF Undisturbed, NamesOne
<1>9. CASE UNCHANGED vars
  BY <1>9 DEF vars, Undisturbed, NamesOne, Filtered
<1> QED
  BY <1>2, <1>3, <1>4, <1>5, <1>6, <1>7, <1>8, <1>9 DEF Next, Request

\* So what the pipeline calls a fault of its ranking stages is only ever the index changing
\* between two SELECTs, and so is an exact hit shown with a text that does not name the part.
THEOREM OnlyACommitTears == Spec => []TornOnlyByACommit
<1>1. Init => Undisturbed
  BY DEF Init, Undisturbed, NoReply
<1>2. IInv /\ Undisturbed => TornOnlyByACommit
  BY DEF IInv, Carried, Undisturbed, TornOnlyByACommit, NamesOne
<1> QED
  BY <1>1, <1>2, Invariance, DataInvariance, UndisturbedStays, PTL DEF Spec
-----------------------------------------------------------------------------
(* The refinement: the candidates SELECT is the reading, the last step the reply. *)

\* The promise and the service mean the same rule.
LEMMA SameRule ==
    ASSUME NEW r, NEW q
    PROVE  Promise!AppliesInPython(r, q, None, TRUE) <=> AppliesInPython(r, q, None, TRUE)
BY DEF AppliesInPython, Selected, VisibleAt, InForceOn, KnownOn, AppliesTo, Covers,
       Promise!AppliesInPython, Promise!Selected, Promise!VisibleAt, Promise!InForceOn,
       Promise!KnownOn, Promise!AppliesTo, Promise!Covers

\* The service starts as the promise does: nothing read, nothing said.
LEMMA PromiseInit == ASSUME Init PROVE Promise!Init
BY DEF Init, Promise!Init, Promise!Unread, Promise!NoReply, NoReply

\* What a decision that does not abstain puts on the screen is within what the promise allows.
LEMMA ShownIsPromised ==
    ASSUME IInv, CiteAndAnswer, DocumentsOf({r.chunk : r \in decision.approved}) \subseteq documents
    PROVE  LET shown == {r.chunk : r \in decision.approved}
           IN  /\ shown \subseteq {r \in candidates : Applies(r)}
               /\ Promise!Answer(shown) \/ Promise!Review(shown)
<1> DEFINE shown == {r.chunk : r \in decision.approved}
<1>1. decision = Decide(query, retrieved, Shipped) /\ decision.outcome # "ABSTAIN"
  BY DEF IInv, Progress, CiteAndAnswer
<1>2. decision.outcome \in {"ANSWER", "REVIEW"}
  BY <1>1, OnlyFallThroughAnswers DEF Decide
<1>3. reply' = [kind |-> decision.outcome, shown |-> shown]
  BY DEF CiteAndAnswer
<1>4. decision.approved \subseteq retrieved /\ decision.approved # {}
  BY <1>1, <1>2, AnswerIsSound, ReviewHasPassages
<1>5. shown # {} /\ shown \subseteq {r \in candidates : Applies(r)}
  BY <1>4 DEF IInv, Carried
<1>6. CASE decision.outcome = "ANSWER"
  <2>1. \A r, s \in decision.approved : r.chunk.variant_id = s.chunk.variant_id
    BY <1>1, <1>6, AnswerIsSound
  <2>2. Promise!OneMachine(shown)
    BY <2>1 DEF Promise!OneMachine
  <2> QED
    BY <1>3, <1>5, <1>6, <2>2 DEF Promise!Answer
<1>7. CASE decision.outcome = "REVIEW"
  BY <1>3, <1>5, <1>7 DEF Promise!Review
<1> QED
  BY <1>2, <1>5, <1>6, <1>7

\* Every step of the request is a step of the promise or none.
LEMMA PromiseNext == IInv /\ [Next]_vars => [Promise!Next]_(Promise!vars)
<1> SUFFICES ASSUME IInv, [Next]_vars PROVE [Promise!Next]_(Promise!vars)
  OBVIOUS
<1> DEFINE passages == {r \in candidates : AppliesInPython(r, query, None, TRUE)}
           taken == pc \notin {"exact", "candidates"}
           reading == [taken |-> taken, passages |-> passages]
           still == UNCHANGED <<query, chunks, taken, passages, reply>>
<1>1. still => [Promise!Next]_(Promise!vars)
  BY DEF Promise!vars
<1>2. ASSUME NEW corpus \in Corpora, CommitCorpus(corpus)
      PROVE  [Promise!Next]_(Promise!vars)
  BY <1>2 DEF CommitCorpus, Promise!Next, Promise!IndexChanges
<1>3. CASE ExactStage
  BY <1>1, <1>3 DEF ExactStage, tables
<1>4. CASE FetchCandidates
  <2>1. candidates' = {r \in chunks : AppliesInPython(r, query, None, TRUE)}
    BY <1>4, FilteredApply DEF FetchCandidates, Applies
  <2>2. UNCHANGED <<query, chunks, reply>> /\ pc = "candidates" /\ pc' = "dense"
    BY <1>4 DEF FetchCandidates, tables
  <2>3. passages' = Promise!Applicable(chunks)
    BY <2>1, <2>2, SameRule DEF Promise!Applicable
  <2>4. taken = FALSE /\ taken' = TRUE /\ passages = {}
    BY <2>2 DEF IInv, Progress
  <2>5. reading = Promise!Unread /\ reading' = [taken |-> TRUE, passages |-> Promise!Applicable(chunks)]
    BY <2>3, <2>4 DEF Promise!Unread
  <2>6. Promise!Read
    BY <2>2, <2>5 DEF Promise!Read
  <2> QED
    BY <2>6 DEF Promise!Next
<1>5. CASE DenseStage
  BY <1>1, <1>5 DEF DenseStage, tables
<1>6. CASE FuseAndRank
  <2>1. /\ UNCHANGED <<query, chunks, candidates>> /\ pc = "fuse"
        /\ \/ pc' = "decide" /\ reply' = reply
           \/ pc' = "done" /\ reply' = [kind |-> "ERROR", shown |-> {}]
    BY <1>6 DEF FuseAndRank, tables
  <2>2. UNCHANGED <<taken, passages>> /\ reading.taken /\ reply = NoReply
    BY <2>1 DEF IInv, Progress
  <2> QED
    BY <1>1, <2>1, <2>2
       DEF Promise!Next, Promise!Reply, Promise!Fail, Promise!NoReply, NoReply
<1>7. CASE DecideGate
  <2>1. /\ UNCHANGED <<query, chunks, candidates>> /\ pc = "decide"
        /\ \/ pc' = "labels" /\ reply' = reply
           \/ pc' = "done" /\ reply' = [kind |-> "ABSTAIN", shown |-> {}]
    BY <1>7 DEF DecideGate, tables
  <2>2. UNCHANGED <<taken, passages>> /\ reading.taken /\ reply = NoReply
    BY <2>1 DEF IInv, Progress
  <2> QED
    BY <1>1, <2>1, <2>2
       DEF Promise!Next, Promise!Reply, Promise!Abstain, Promise!NoReply, NoReply
<1>8. CASE CiteAndAnswer
  <2> DEFINE shown == {r.chunk : r \in decision.approved}
  <2>1. UNCHANGED <<query, chunks, candidates>> /\ pc = "labels" /\ pc' = "done"
    BY <1>8 DEF CiteAndAnswer, tables
  <2>2. UNCHANGED <<taken, passages>> /\ reading.taken /\ reply = NoReply
    BY <2>1 DEF IInv, Progress
  <2>3. CASE DocumentsOf(shown) \subseteq documents
    <3>1. shown \in SUBSET passages /\ (Promise!Answer(shown) \/ Promise!Review(shown))
      BY <1>8, <2>3, ShownIsPromised DEF Applies
    <3> QED
      BY <2>1, <2>2, <3>1 DEF Promise!Next, Promise!Reply, Promise!NoReply, NoReply
  <2>4. CASE ~(DocumentsOf(shown) \subseteq documents)
    <3>1. reply' = [kind |-> "ERROR", shown |-> {}]
      BY <1>8, <2>4 DEF CiteAndAnswer
    <3> QED
      BY <2>1, <2>2, <3>1
         DEF Promise!Next, Promise!Reply, Promise!Fail, Promise!NoReply, NoReply
  <2> QED
    BY <2>3, <2>4
<1>9. CASE UNCHANGED vars
  BY <1>1, <1>9 DEF vars
<1> QED
  BY <1>2, <1>3, <1>4, <1>5, <1>6, <1>7, <1>8, <1>9 DEF Next, Request

\* The whole request, races included, is one reading followed by one reply about it.
THEOREM ServiceKeepsPromise == Spec => KeepsPromise
<1>1. Init => Promise!Init
  BY PromiseInit
<1> QED
  BY <1>1, Invariance, PromiseNext, PTL DEF Spec, KeepsPromise, Promise!Spec
=============================================================================
