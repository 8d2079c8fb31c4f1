----------------------------- MODULE MCQiSystem -----------------------------
(* Instances of QiSystem for TLC. *)
EXTENDS QiSystem

CONSTANTS k1, s1, s2

MCOneCollector == {k1}
MCSets == {s1, s2}
MCAllMine == [k \in Collectors |-> Sets]
MCRank == [s \in Sets |-> IF s = s1 THEN 1 ELSE 2]
MCNone == {}
MCFirst == {s1}
MCWatched == {"ready", "waiting"}
MCWelcome == {"welcome"}
=============================================================================
