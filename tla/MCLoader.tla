------------------------------ MODULE MCLoader ------------------------------
(***************************************************************************)
(* Two deployments of one service, blue and green, seed one database at     *)
(* once while the lifecycle probe runs.  Blue alone lists document 1, green *)
(* alone document 4; of the two they share, green withdraws one, whose      *)
(* passage reads the same, and rewrites the passage of the other.  Old is   *)
(* an index embedded with the previous model, which either may find.        *)
(***************************************************************************)
EXTENDS Loader, TLC

CONSTANTS s1, s2, probe, a, b, b2, x, y, m0, m1

MCSeeders == {s1, s2}
MCDocs == 1..4
MCChunks == 1..4
MCDocOf == <<1, 2, 3, 4>>
MCImages == {"old", "blue", "green"}

MCCorpusDocs == [old |-> {3}, blue |-> {1, 2, 3}, green |-> {2, 3, 4}]
MCCorpusChunks == [old |-> {3}, blue |-> {1, 2, 3}, green |-> {2, 3, 4}]
MCTextOf == [old |-> <<a, a, b, a>>, blue |-> <<a, a, b, a>>, green |-> <<a, a, b2, a>>]
MCMetaOf == [old |-> <<x, x, x, x>>, blue |-> <<x, x, x, x>>, green |-> <<x, y, x, x>>]
MCModelOf == [old |-> m0, blue |-> m1, green |-> m1]
MCImageOf == (s1 :> "blue") @@ (s2 :> "green") @@ (probe :> "blue")
MCSkipIfPopulated == {s1}

=============================================================================
