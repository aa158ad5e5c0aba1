------------------------------ MODULE MCStartup -----------------------------
(* Two containers of a rolling deployment, and one that was given no database. *)
EXTENDS Startup

CONSTANTS asked, beside, bare

MCContainers == {asked, beside, bare}
MCWithDatabase == {asked, beside}
MCSkipSeed == {bare}
MCAsked == {asked, bare}
=============================================================================
