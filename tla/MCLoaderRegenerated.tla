------------------------ MODULE MCLoaderRegenerated ------------------------
(***************************************************************************)
(* One database, seeded from a corpus and then from the corpus regenerated: *)
(* the same document, withdrawn and one passage shorter.                    *)
(***************************************************************************)
EXTENDS Loader, TLC

CONSTANTS s1, probe, a, b, x, y, m1

MCSeeders == {s1}
MCDocs == {1}
MCChunks == {1, 2}
MCDocOf == <<1, 1>>
MCImages == {"first", "regenerated"}

MCCorpusDocs == [v \in MCImages |-> {1}]
MCCorpusChunks == [first |-> {1, 2}, regenerated |-> {1}]
MCTextOf == [v \in MCImages |-> <<a, b>>]
MCMetaOf == [first |-> <<x>>, regenerated |-> <<y>>]
MCModelOf == [v \in MCImages |-> m1]
MCImageOf == [p \in {s1, probe} |-> "regenerated"]
=============================================================================
