------------------------------ MODULE MCCorpus ------------------------------
(***************************************************************************)
(* Four revisions, the least the generator draws, in days.  A revision      *)
(* follows after the shortest gap or the longest, so that a discovery may   *)
(* fall before, on and after the next handover.  One topic is a measurement *)
(* for a range of machines, the other a part number for the whole fleet.    *)
(***************************************************************************)
EXTENDS Questions

CONSTANTS torque, filter, omitted

MCTopics == {torque, filter}
MCPartTopics == {filter}
MCFirstPart == [topic \in MCPartTopics |-> 10]
MCFigures == {40, 44}
MCRevisionGaps == {240, 480}
MCBulletinDelays == {45}
MCDiscoveryDelays == {240, 400}
MCSerialWindow == [topic \in MCTopics |->
    IF topic = torque THEN [first |-> 100, last |-> 300] ELSE FleetWide]
=============================================================================
