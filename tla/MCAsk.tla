------------------------------- MODULE MCAsk -------------------------------
(***************************************************************************)
(* One question against two corpora.  The later one moves the part number   *)
(* from the text of chunk 1 to that of chunk 2, takes back the day chunk 2  *)
(* was withdrawn, changes a figure, corrects chunk 3 away and adds chunk 4. *)
(***************************************************************************)
EXTENDS Ask

CONSTANTS en, m1, m2, part, torque, bolt

Row(id, doc, variant, from, to, known_to, first, identifiers, tokens, figures) ==
    [chunk_id |-> id, document_id |-> doc, variant_id |-> variant, language |-> en,
     valid_from |-> from, valid_to |-> to, known_from |-> 0, known_to |-> known_to,
     serial_first |-> first, serial_last |-> None,
     identifiers |-> identifiers, tokens |-> tokens,
     series |-> "manual", heading |-> "bolts", figures |-> figures]

\* Chunks 1 and 2 are pages of one machine, 2 for serials from 5 on; 3 and 4 of the other.
Earlier ==
    {Row(1, "d1", m1, 0, None, None, None, {part}, {torque, bolt}, {<<"torque", 10>>}),
     Row(2, "d2", m1, 0, 3, None, 5, {}, {torque, bolt}, {<<"torque", 10>>}),
     Row(3, "d3", m2, 0, None, None, None, {part}, {bolt}, {})}

Later ==
    {Row(1, "d1", m1, 0, None, None, None, {}, {bolt}, {<<"torque", 10>>}),
     Row(2, "d2", m1, 0, None, None, None, {part}, {torque, bolt}, {<<"torque", 12>>}),
     Row(3, "d3", m2, 0, None, 4, None, {part}, {bolt}, {}),
     Row(4, "d4", m2, 0, None, None, None, {}, {torque, bolt}, {})}

MCCorpora == {Earlier, Later}

Question(variant, serial, known_as_of, identifiers) ==
    [as_of |-> 3, known_as_of |-> known_as_of, language |-> en, variant_id |-> variant,
     serial |-> serial, terms |-> {torque, bolt}, identifiers |-> identifiers]

MCQueries ==
    {Question(m1, None, None, {part}), Question(m1, 7, None, {}), Question(None, None, None, {part}),
     Question(m2, None, 2, {part}), Question(m2, None, None, {})}

\* The shipped thresholds in tenths, with a cap of two passages for five.
MCShipped ==
    [support_score_fraction_of_top |-> 5, max_approved_chunks |-> 2, min_top_fused_score |-> 0,
     min_supporting_chunks |-> 2, min_supporting_chunks_with_exact_hit |-> 1,
     min_term_coverage |-> 6]
=============================================================================
