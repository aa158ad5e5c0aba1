---------------------------- MODULE MCEvaluation ----------------------------
(***************************************************************************)
(* Three questions about one product.  The passages are the ones the gate has *)
(* to tell apart: a manual's figure, another figure of the same unit under  *)
(* another heading, the bulletin that contradicts the first, the revision   *)
(* withdrawn before the date asked about, and another machine's.            *)
(* The evidence is cut at two passages, so the cap is reached.              *)
(***************************************************************************)
EXTENDS Figures

CONSTANTS q1, q2, q3, v1, v2, tighten, drive, hub

Passage(id, revision, variant, valid_from, valid_to, series, heading, figures, tokens) ==
    [chunk_id |-> id, revision |-> revision, variant_id |-> variant,
     valid_from |-> valid_from, valid_to |-> valid_to, series |-> series,
     heading |-> heading, figures |-> figures, tokens |-> tokens]

Manual == Passage(1, "B", v1, 2, None, "manual", "coupling", {<<"torque", 40>>}, {tighten, drive, hub})
Flange == Passage(2, "B", v1, 2, None, "manual", "flange", {<<"torque", 52>>}, {tighten, hub})
Note == Passage(3, "FB1", v1, 2, None, "bulletin", "coupling", {<<"torque", 44>>}, {tighten, drive})
Withdrawn == Passage(4, "A", v1, 1, 2, "manual", "coupling", {<<"torque", 40>>}, {tighten, drive})
Sibling == Passage(5, "B", v2, 2, None, "manual", "coupling", {<<"torque", 64>>}, {tighten})
Fuse == Passage(6, "B", v1, 2, None, "manual", "fuse", {<<"amps", 4>>}, {drive})

Passages == {Manual, Flange, Note, Withdrawn, Sibling, Fuse}

\* Retrieval ranks by score, ties by chunk id.
Ranked(chunks, score, exact) ==
    {[chunk |-> c, fused_score |-> score[c], exact_identifier_hit |-> c \in exact,
      rank |-> 1 + Cardinality({d \in chunks : \/ score[d] > score[c]
                                               \/ score[d] = score[c] /\ d.chunk_id < c.chunk_id})]
     : c \in chunks}

Results(passages, size, scores, exactable) ==
    UNION {UNION {{Ranked(chunks, score, exact) : score \in [chunks -> scores]}
                  : exact \in SUBSET (chunks \intersect exactable)}
           : chunks \in {cs \in SUBSET passages : Cardinality(cs) <= size}}

MCQuestions == {q1, q2, q3}
MCAskedAs == [p \in MCQuestions |->
    [as_of |-> 2, terms |-> {tighten, drive, hub}, variant_id |-> IF p = q1 THEN None ELSE v1,
     language |-> IF p = q3 THEN "tr" ELSE "en"]]
MCRetrievedFor == [p \in MCQuestions |->
    CASE p = q1 -> Results(Passages, 3, {0, 1, 2}, {Manual, Withdrawn})
      [] p = q2 -> Results({Flange, Fuse}, 2, {2}, {Fuse})
      [] p = q3 -> {result \in Results({Manual}, 1, {2}, {Manual}) :
                      \A r \in result : r.exact_identifier_hit}]

\* What the run on a contradiction gives the gate: a supply rail whose bulletin disagrees with
\* the manual in volts.
Rail == Passage(7, "B", v1, 2, None, "manual", "rail", {<<"volts", 24>>}, {tighten, drive, hub})
RailNote == Passage(8, "FB1", v1, 2, None, "bulletin", "rail", {<<"volts", 30>>}, {tighten, drive})

RailRetrievedFor == [p \in MCQuestions |-> Results({Rail, RailNote, Fuse}, 2, {1, 2}, {})]

MCSupports == [p \in MCQuestions |-> IF p = q2 THEN {} ELSE {1}]
MCLanguages == {"en", "tr"}
MCFamilyDocuments == [p \in MCQuestions |->
    {[revision |-> c.revision, valid_from |-> c.valid_from, valid_to |-> c.valid_to] : c \in Passages}]
MCShipped == [min_term_coverage |-> 6, min_top_fused_score |-> 0,
              min_supporting_chunks |-> 2, min_supporting_chunks_with_exact_hit |-> 1,
              support_score_fraction_of_top |-> 5, max_approved_chunks |-> 2]
MCSweep == {0, 4, 6, 9}
=============================================================================
