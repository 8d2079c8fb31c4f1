----------------------------- MODULE ProbeBooks -----------------------------
(***************************************************************************)
(* The books of the probe, with no addresses, no schedule and no double    *)
(* bookkeeping: which record sets exist, who is subscribed to each, how    *)
(* many measuring cycles it runs.  Whoever models a probe keeps these      *)
(* books: Qigong alone, and QiSystem in front of its collectors, where a   *)
(* command may be obeyed after the client that sent it has left.           *)
(***************************************************************************)
EXTENDS Naturals

CONSTANTS Names, Conns

VARIABLES
    up,           \* the service answers
    clients,      \* open connections
    sets,         \* the record sets that exist
    subscribers,  \* name -> connections
    cycles        \* name -> measuring cycles that run

books == <<up, clients, sets, subscribers, cycles>>

BooksInit ==
    /\ up = TRUE
    /\ clients = {}
    /\ sets = {}
    /\ subscribers = [n \in Names |-> {}]
    /\ cycles = [n \in Names |-> 0]

Open(c) ==
    /\ up /\ c \notin clients
    /\ clients' = clients \cup {c}
    /\ UNCHANGED <<up, sets, subscribers, cycles>>

\* A client that leaves is no longer a subscriber of anything.
Leave(c) ==
    /\ up
    /\ clients' = clients \ {c}
    /\ subscribers' = [n \in Names |-> subscribers[n] \ {c}]
    /\ UNCHANGED <<up, sets, cycles>>

\* A new record set starts with no subscriber and no cycle, whatever an
\* earlier one of that name had: Delete leaves none behind.
Create(n) ==
    /\ up /\ n \notin sets
    /\ sets' = sets \cup {n}
    /\ UNCHANGED <<up, clients, subscribers, cycles>>

Delete(S) ==
    /\ up /\ S \subseteq sets
    /\ sets' = sets \ S
    /\ subscribers' = [n \in Names |-> IF n \in S THEN {} ELSE subscribers[n]]
    /\ cycles' = [n \in Names |-> IF n \in S THEN 0 ELSE cycles[n]]
    /\ UNCHANGED <<up, clients>>

\* Each activation starts one more cycle.
Activate(S) ==
    /\ up /\ S \subseteq sets
    /\ cycles' = [n \in Names |-> IF n \in S THEN cycles[n] + 1 ELSE cycles[n]]
    /\ UNCHANGED <<up, clients, sets, subscribers>>

Subscribe(c, S) ==
    /\ up /\ c \in clients /\ S \subseteq sets
    /\ subscribers' = [n \in Names |->
                         IF n \in S THEN subscribers[n] \cup {c} ELSE subscribers[n]]
    /\ UNCHANGED <<up, clients, sets, cycles>>

Unsubscribe(c, S) ==
    /\ up /\ c \in clients /\ \A n \in S : c \in subscribers[n]
    /\ subscribers' = [n \in Names |->
                         IF n \in S THEN subscribers[n] \ {c} ELSE subscribers[n]]
    /\ UNCHANGED <<up, clients, sets, cycles>>

\* The daemon hangs (its clients notice nothing yet), ends, or starts again.
Hang == up' = FALSE /\ UNCHANGED <<clients, sets, subscribers, cycles>>

End ==
    /\ up' = FALSE
    /\ clients' = {}
    /\ sets' = {}
    /\ subscribers' = [n \in Names |-> {}]
    /\ cycles' = [n \in Names |-> 0]

Start ==
    /\ ~up /\ clients = {} /\ sets = {}
    /\ up' = TRUE
    /\ UNCHANGED <<clients, sets, subscribers, cycles>>

BooksNext ==
    \/ Hang \/ End \/ Start
    \/ \E c \in Conns : Open(c) \/ Leave(c)
    \/ \E n \in Names : Create(n)
    \/ \E S \in SUBSET Names :
         \/ Delete(S) \/ Activate(S)
         \/ \E c \in Conns : Subscribe(c, S) \/ Unsubscribe(c, S)

BooksSpec == BooksInit /\ [][BooksNext]_books
=============================================================================
