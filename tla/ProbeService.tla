---------------------------- MODULE ProbeService ----------------------------
(***************************************************************************)
(* What the probe promises its clients: the books of ProbeBooks, changed   *)
(* by clients that are there, and lines of measures.  A line goes to       *)
(* exactly the subscribers of its record set, as long as the set runs at   *)
(* least one cycle.                                                        *)
(***************************************************************************)
EXTENDS ProbeBooks

VARIABLE delivered  \* the lines the last step sent

vars == <<books, delivered>>

Init == BooksInit /\ delivered = {}

LineFor(n) == [name |-> n, to |-> subscribers[n]]

\* An activation measures at once, and so does, again and again, a cycle.
Measure(S) ==
    /\ clients # {} /\ Activate(S)
    /\ delivered' = {LineFor(n) : n \in S}

Deliver(n) ==
    /\ up /\ n \in sets /\ cycles[n] > 0
    /\ delivered' = {LineFor(n)}
    /\ UNCHANGED books

\* Nothing else sends a line.
Unmeasured ==
    \/ UNCHANGED books \/ End
    \/ \E c \in Conns : Open(c) \/ Leave(c)
    \/ \E n \in Names : clients # {} /\ Create(n)
    \/ \E S \in SUBSET Names :
         \/ clients # {} /\ Delete(S)
         \/ \E c \in Conns : Subscribe(c, S) \/ Unsubscribe(c, S)

Next ==
    \/ delivered' = {} /\ Unmeasured
    \/ UNCHANGED delivered /\ (Hang \/ Start)
    \/ \E n \in Names : Deliver(n)
    \/ \E S \in SUBSET Names : Measure(S)

Spec == Init /\ [][Next]_vars
=============================================================================
