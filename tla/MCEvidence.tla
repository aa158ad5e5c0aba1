------------------------------ MODULE MCEvidence ----------------------------
EXTENDS Evidence, TLC

doc(family) == [family |-> family]
chunk(document, text) == [document |-> document, text |-> text]
asks(family, chunk_id, text) ==
    [family |-> family, split |-> SplitOf(family), cites |-> {chunk_id}, text |-> text]

First == [documents |-> "d1" :> doc("held") @@ "d2" :> doc("dev"),
          chunks |-> "k1" :> chunk("d1", 1) @@ "k2" :> chunk("d2", 2),
          questions |-> "q1" :> asks("held", "k1", 8) @@ "q2" :> asks("dev", "k2", 9)]
Reworded == [First EXCEPT !.chunks["k1"].text = 3]
Grown == [documents |-> First.documents @@ "d3" :> doc("held"),
          chunks |-> First.chunks @@ "k3" :> chunk("d3", 4),
          questions |-> First.questions @@ "q3" :> asks("held", "k3", 10)]
Leaky == [First EXCEPT !.questions["q1"].split = "development"]

MCCorpora == [first |-> First, reworded |-> Reworded, grown |-> Grown, leaky |-> Leaky]
MCHeldOut == {"held"}
MCGraded == <<"gate", "evaluation">>

\* Condition E fails on two of the corpora and is recorded as failing, G on the one that grew.
MCReadFrom == [E |-> "gate", G |-> "evaluation"]
MCBreached == [E |-> {"first", "grown"}, G |-> {"grown"}]
MCDisclosed == {"E"}
=============================================================================
