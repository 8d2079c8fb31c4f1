------------------------------ MODULE MCCollect ------------------------------
(* Instances of Collect for TLC. *)
EXTENDS Collect

CONSTANTS k1, k2, s1, s2

MCOneCollector == {k1}
MCTwoCollectors == {k1, k2}
MCSets == {s1, s2}
MCAllMine == [k \in Collectors |-> Sets]
MCOneEach == [k \in Collectors |-> IF k = k1 THEN {s1} ELSE {s2}]
MCRank == [s \in Sets |-> IF s = s1 THEN 1 ELSE 2]
=============================================================================
