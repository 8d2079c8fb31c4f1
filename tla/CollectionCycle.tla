--------------------------- MODULE CollectionCycle ---------------------------
(***************************************************************************)
(* What setting up a collection means, without lines, time or retries: on  *)
(* one connection each collection set goes through Phases steps, asked and *)
(* answered one at a time, the sets in order; losing the connection makes  *)
(* every set start over on the next one.                                   *)
(***************************************************************************)
EXTENDS Naturals

CONSTANTS Collectors, Sets, Mpcs, Rank, NoSet, Phases

VARIABLES
    linked,  \* the collectors that have a connection
    phase,   \* steps each set has been through on it
    asked    \* the set whose step awaits its answer

vars == <<linked, phase, asked>>

Init ==
    /\ linked = {}
    /\ phase = [k \in Collectors |-> [s \in Sets |-> 0]]
    /\ asked = [k \in Collectors |-> NoSet]

Link(k) ==
    /\ linked' = linked \cup {k}
    /\ phase' = [phase EXCEPT ![k] = [s \in Sets |-> IF s \in Mpcs[k] THEN 0 ELSE @[s]]]
    /\ asked' = [asked EXCEPT ![k] = NoSet]

Lose(k) ==
    /\ linked' = linked \ {k}
    /\ asked' = [asked EXCEPT ![k] = NoSet]
    /\ UNCHANGED phase

Ask(k, s) ==
    /\ k \in linked
    /\ asked[k] = NoSet
    /\ phase[k][s] < Phases
    /\ \A r \in Mpcs[k] : Rank[r] < Rank[s] => phase[k][r] = Phases
    /\ asked' = [asked EXCEPT ![k] = s]
    /\ UNCHANGED <<linked, phase>>

Answer(k, s) ==
    /\ k \in linked
    /\ asked[k] = s
    /\ asked' = [asked EXCEPT ![k] = NoSet]
    /\ phase' = [phase EXCEPT ![k][s] = @ + 1]
    /\ UNCHANGED linked

Next ==
    \E k \in Collectors :
        \/ Link(k) \/ Lose(k)
        \/ \E s \in Mpcs[k] : Ask(k, s) \/ Answer(k, s)

Spec == Init /\ [][Next]_vars
=============================================================================
