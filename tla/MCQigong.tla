------------------------------ MODULE MCQigong ------------------------------
(* Instances of Qigong for TLC. *)
EXTENDS Qigong, TLC

CONSTANTS a, b, c1, c2, p1, p2

MCNames     == {a, b}
MCOneName   == {a}
MCConns     == {c1, c2}
MCOneConn   == {c1}
MCPtr       == {p1, p2}
MCOnePtr    == {p1}
MCIntervals == {1, 2}
MCOneInterval == {1}
MCJumps     == {-1, 2}
MCNoJumps   == {}

MCSymmetry == Permutations(MCConns) \cup Permutations(MCPtr)
=============================================================================
