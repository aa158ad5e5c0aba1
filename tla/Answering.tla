----------------------------- MODULE Answering ------------------------------
(***************************************************************************)
(* A question ranked twice, as the determinism artifact ranks it, and then  *)
(* answered from what was ranked (retrieval/pipeline.py, answerer.py).      *)
(*                                                                          *)
(* The table keeps its rows in an order of its own, and an update of other  *)
(* columns, which writes a row again, may change it at any moment: nothing  *)
(* a statement returns is in a known order unless it asks for one.  The     *)
(* encoder is deterministic, so both rankings measure the same distances.   *)
(* What the gate approves of a ranking is left open (see Gate and Ask).     *)
(***************************************************************************)
EXTENDS Ranking, SequencesExt

CONSTANTS
    Passages,       \* every passage a filter may admit
    Questions,
    Distances,      \* how far a passage may be from the question
    DocumentText    \* document_id -> its whole text

ASSUME AnsweringAssumption ==
    /\ IsFiniteSet(Passages)
    /\ \A d \in DOMAIN DocumentText : DocumentText[d] \in Seq(STRING)
    \* _check_offsets stops the build at a passage whose offsets do not hold its text
    /\ \A c \in Passages :
         /\ c.chunk_id \in Nat
         /\ c.document_id \in DOMAIN DocumentText
         /\ c.end_offset \in 0..Len(DocumentText[c.document_id])
         /\ c.start_offset \in 0..c.end_offset
         /\ c.text = Slice(DocumentText[c.document_id],
                           [start |-> c.start_offset, end |-> c.end_offset])
    \* chunk_id is the primary key
    /\ \A c, d \in Passages : c.chunk_id = d.chunk_id => c = d
    /\ Distances \subseteq Int
    /\ \A q \in Questions : IsFiniteSet(q.terms) /\ IsFiniteSet(q.identifiers)

VARIABLES
    question,
    arm,        \* the evaluation arm, which fixes the stage weights
    distance,   \* chunk_id -> cosine distance from the question
    rows,       \* the admitted rows as the table keeps them
    rewritten,  \* whether that order has changed
    pc,
    stages,     \* the ranking of each stage so far
    fused,      \* chunk_id -> fused score
    retrieved,  \* the ranked passages
    runs,       \* the chunk ids of each run, in rank order
    reply

avars == <<question, arm, distance, rows, rewritten, pc, stages, fused, retrieved, runs, reply>>

asked == <<question, arm, distance>>

NoStages == [exact_identifier |-> <<>>, lexical |-> <<>>, dense |-> <<>>]
NoAnswer == [kind |-> "none", text |-> <<>>, citations |-> <<>>]

Admitted == {c \in SUBSET Passages : c # {} /\ Cardinality(c) <= MaxCandidates}

\* The table starts in the order of ids, until a row is written again.
Init ==
    /\ question \in Questions
    /\ arm \in DOMAIN StageWeights
    /\ \E admitted \in Admitted : rows = BestFirst([c \in admitted |-> 0])
    /\ distance \in [{r.chunk_id : r \in Members(rows)} -> Distances]
    /\ rewritten = FALSE
    /\ pc = "exact"
    /\ stages = NoStages
    /\ fused = <<>>
    /\ retrieved = <<>>
    /\ runs = <<>>
    /\ reply = NoAnswer

\* An update writes some row again, elsewhere in the table.  Once is enough to tell two runs apart.
RewriteRows ==
    /\ ~rewritten
    /\ pc \in {"exact", "lexical", "dense"}
    /\ rows' \in SetToSeqs(Members(rows)) \ {rows}
    /\ rewritten' = TRUE
    /\ UNCHANGED <<asked, pc, stages, fused, retrieved, runs, reply>>

ExactStage ==
    /\ pc = "exact"
    /\ stages' = [NoStages EXCEPT !.exact_identifier = ExactRanking(question, rows)]
    /\ pc' = "lexical"
    /\ UNCHANGED <<asked, rows, rewritten, fused, retrieved, runs, reply>>

LexicalStage ==
    /\ pc = "lexical"
    /\ stages' = [stages EXCEPT !.lexical = LexicalRanking(question, rows)]
    /\ pc' = "dense"
    /\ UNCHANGED <<asked, rows, rewritten, fused, retrieved, runs, reply>>

DenseStage ==
    /\ pc = "dense"
    /\ stages' = [stages EXCEPT !.dense = DenseRanking(rows, distance)]
    /\ pc' = "fuse"
    /\ UNCHANGED <<asked, rows, rewritten, fused, retrieved, runs, reply>>

Fuse ==
    /\ pc = "fuse"
    /\ fused' = ReciprocalRankFusion(stages, StageWeights[arm])
    /\ pc' = "rerank"
    /\ UNCHANGED <<asked, rows, rewritten, stages, retrieved, runs, reply>>

\* A run is recorded as its chunk ids in rank order, and a question is run twice.
RerankAndRecord ==
    LET ranked == Rerank(question, rows, fused, Members(stages.exact_identifier))
    IN  /\ pc = "rerank"
        /\ retrieved' = ranked
        /\ runs' = Append(runs, IdsOf(ranked))
        /\ pc' = IF Len(runs) = 0 THEN "exact" ELSE "answer"
        /\ UNCHANGED <<asked, rows, rewritten, stages, fused, reply>>

-----------------------------------------------------------------------------
(* The answerer *)

\* A blank line, which no part number contains.
AnswerSeparator == <<LineEnd, LineEnd>>

\* The quotes in rank order, a separator between any two.
JoinedQuotes(citations) ==
    FlattenSeq([i \in DOMAIN citations |->
                  IF i = 1 THEN citations[i].quote ELSE AnswerSeparator \o citations[i].quote])

\* What is kept of a list, in its order.
Among(list, kept) ==
    LET places == {i \in DOMAIN list : list[i] \in kept}
        order == Sorted(places, {p \in places \X places : p[1] < p[2]})
    IN  [n \in DOMAIN order |-> list[order[n]]]

\* A blank quote cites nothing.
Quotable(citations) ==
    Among(citations, {c \in Members(citations) : \E i \in DOMAIN c.quote : c.quote[i] \notin Blank})

\* Compared with the quotes shown, not with the passages they come from.
UngroundedPartNumbers(text, citations) ==
    PartNumbersIn(text) \ UNION {PartNumbersIn(c.quote) : c \in Members(citations)}

\* A review has its citations and no text; an answer with nothing to quote, a passage whose
\* offsets do not fit its text, or a part number nothing cited contains, ends in an error.
ExtractiveAnswer(outcome, approved) ==
    LET citations == Quotable(BuildCitations(approved, question.terms))
        text == IF outcome = "ANSWER" THEN JoinedQuotes(citations) ELSE <<>>
    IN  IF \/ \E r \in Members(approved) : ~Located(r)
           \/ outcome = "ANSWER" /\ citations = <<>>
           \/ UngroundedPartNumbers(text, citations) # {}
          THEN [kind |-> "ERROR", text |-> <<>>, citations |-> <<>>]
          ELSE [kind |-> outcome, text |-> text, citations |-> citations]

\* The gate approves some of what was retrieved, or nothing, which is an abstention.
AnswerQuestion ==
    /\ pc = "answer"
    /\ \E approved \in SUBSET Members(retrieved) :
         \E outcome \in IF approved = {} THEN {"ABSTAIN"} ELSE {"ANSWER", "REVIEW"} :
           reply' = ExtractiveAnswer(outcome, Among(retrieved, approved))
    /\ pc' = "done"
    /\ UNCHANGED <<asked, rows, rewritten, stages, fused, retrieved, runs>>

\* _determinism: the digests of two runs, of chunk ids in rank order.
RetrievalDigestStable == Len(runs) = 2 => runs[1] = runs[2]

\* _groundedness: answers alone are looked at, a review's citations are not.
Groundedness ==
    LET citations == IF reply.kind = "ANSWER" THEN reply.citations ELSE <<>>
    IN  [ungrounded_part_numbers |-> UngroundedPartNumbers(reply.text, citations),
         unfaithful_citations |-> UnfaithfulCitations(Members(citations), DocumentText)]

Next ==
    \/ RewriteRows
    \/ ExactStage \/ LexicalStage \/ DenseStage \/ Fuse \/ RerankAndRecord
    \/ AnswerQuestion

Spec == Init /\ [][Next]_avars

-----------------------------------------------------------------------------
(* Properties *)

\* Types: at most two runs, of candidates, none twice, and never more than top_k.
TypeOK ==
    /\ pc \in {"exact", "lexical", "dense", "fuse", "rerank", "answer", "done"}
    /\ Len(runs) <= 2
    /\ \A run \in Members(runs) :
         /\ Members(run) \subseteq {r.chunk_id : r \in Members(rows)}
         /\ Cardinality(Members(run)) = Len(run)
         /\ Len(run) <= TopK
    /\ reply.kind \in {"none", "ANSWER", "REVIEW", "ABSTAIN", "ERROR"}

\* Two runs of one question over one corpus return the same passages in the same order, whatever
\* the table did with its rows in between: every tie on the way is broken by id.
TwoRunsAgree == RetrievalDigestStable

\* What a stage says of two passages: the first ahead, or no opinion of either.
Ahead(stage, r, s) ==
    LET bm25 == Bm25Scores(question, Members(rows))
    IN  CASE stage = "exact_identifier" -> Shared(question, r) > Shared(question, s)
          [] stage = "lexical" -> bm25[r] > 0 /\ bm25[r] > bm25[s]
          [] stage = "dense" -> distance[r.chunk_id] < distance[s.chunk_id]

Silent(stage, r, s) ==
    LET bm25 == Bm25Scores(question, Members(rows))
    IN  CASE stage = "exact_identifier" -> Shared(question, r) = 0 /\ Shared(question, s) = 0
          [] stage = "lexical" -> bm25[r] <= 0 /\ bm25[s] <= 0
          [] stage = "dense" -> FALSE

\* What no stage disputes stands: a passage that every stage with a weight has ahead, or has no
\* opinion of, and whose features are no worse, is never behind in the result or cut off from it.
UnanimousOrderStands ==
    pc \in {"answer", "done"} =>
        LET exact_ids == Members(stages.exact_identifier)
            voting == {name \in DOMAIN stages : StageWeights[arm][name] # 0}
            place(r) == CHOOSE i \in DOMAIN retrieved : retrieved[i] = r
        IN  \A r \in Members(rows) : \A s \in Members(retrieved) :
              (/\ r # s
               /\ \A name \in voting : Ahead(name, r, s) \/ Silent(name, r, s)
               /\ FeaturesOf(question, r, exact_ids) >= FeaturesOf(question, s, exact_ids))
              => r \in Members(retrieved) /\ place(r) < place(s)

\* Reranking is a tie-break: the features never bring the lowest of a fusion ahead of its highest.
\* With two candidates this is the whole order, and no feature can change it.
FeaturesOnlyBreakTies ==
    pc \in {"answer", "done"} =>
        \A i, j \in DOMAIN retrieved :
            LET score(k) == fused[retrieved[k].chunk_id]
            IN  (/\ score(i) # score(j)
                 /\ \A id \in DOMAIN fused : fused[id] <= score(i) /\ score(j) <= fused[id])
                => i < j

\* The stages decide the order: what they agree on stands, and features add no more than a
\* tie-break to it.
StagesDecideTheOrder == UnanimousOrderStands /\ FeaturesOnlyBreakTies

\* An answer is its citations: no part number arises where two quotes meet (the rule at the exit
\* never fires), every quote, a review's too, is found in its document where the citation says, and
\* one past the cap is a single sentence.  Only a passage with nothing to see in it ends in an
\* error.
AnswerIsItsQuotes ==
    /\ Groundedness = [ungrounded_part_numbers |-> {}, unfaithful_citations |-> {}]
    /\ UnfaithfulCitations(Members(reply.citations), DocumentText) = {}
    /\ \A i \in DOMAIN reply.citations :
         LET quote == reply.citations[i].quote
         IN  Len(quote) > MaxQuoteChars => Len(SentenceSpans(quote)) = 1
    /\ reply.kind = "ERROR" =>
         \E r \in Members(retrieved) : \A i \in DOMAIN r.text : r.text[i] \in Blank
=============================================================================
