----------------------------- MODULE MCAnswering -----------------------------
(* Six passages of two documents.  1 and 2 hold the same sentence at two places; 3 ends and 4
   begins with half a part number; 5 is blank; 6 is a table, and a sentence after it. *)
EXTENDS Answering

Text ==
    <<<<"a", " ", "P", "Q", ".", " ", "b", ".">>,
      <<"c", "|", "a", " ", "P", "Q", ".">>,
      <<"b", " ", "P", "|", "c">>,
      <<"Q", " ", "a", "|", "c">>,
      <<" ", "|">>,
      <<"c", " ", "c", " ", "c", " ", "P", "R", "|", "b", " ", "a">>>>

MCDocumentText ==
    [manual |-> Text[1] \o <<"|">> \o Text[2] \o <<"|">> \o Text[5],
     bulletin |-> Text[3] \o <<"|">> \o Text[4] \o <<"|">> \o Text[6]]

Passage(id, document, start, language) ==
    [chunk_id |-> id, document_id |-> document, language |-> language, text |-> Text[id],
     start_offset |-> start, end_offset |-> start + Len(Text[id])]

MCPassages ==
    {Passage(1, "manual", 0, "en"), Passage(2, "manual", 9, "en"), Passage(5, "manual", 17, "en"),
     Passage(3, "bulletin", 0, "tr"), Passage(4, "bulletin", 6, "en"), Passage(6, "bulletin", 12, "en")}

MCQuestions ==
    {[terms |-> {"a", "b"}, identifiers |-> {}, language |-> "en"],
     [terms |-> {"b", "Q"}, identifiers |-> {<<"P", "Q">>}, language |-> "en"],
     [terms |-> {"c", "R"}, identifiers |-> {<<"P", "Q">>, <<"P", "R">>}, language |-> "tr"]}

\* What three positions are divided by, and the logarithms in hundredths.
MCFusionScale == 61 * 62 * 63
MCIdf == <<<<-110>>, <<0, -161>>, <<51, -51, -195>>>>
==============================================================================
