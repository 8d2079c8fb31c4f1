----------------------------- MODULE LineChannel -----------------------------
(***************************************************************************)
(* What the encrypted transport is to the two programs that speak through  *)
(* it, with no packets, salts or ciphers: a connection that either end     *)
(* may find acceptable if the peer is one it trusts; who has accepted says *)
(* lines, the first one at once; who has accepted hears the peer's lines   *)
(* of this connection, in order, until it ends, and at times an empty line *)
(* that nobody said.                                                       *)
(***************************************************************************)
EXTENDS Naturals, Sequences

CONSTANTS Ends, Peer(_), Messages

VARIABLES
    trusted,   \* the key the connections are opened with is one of the ring
    open,      \* there is a connection, or what is left of it to be read
    accepted,  \* the ends that have accepted it
    said,      \* the lines each end has said on it
    heard,     \* the lines each end has heard on it
    blanks     \* the empty lines each end has heard on it that nobody said

vars == <<trusted, open, accepted, said, heard, blanks>>

Nothing == [e \in Ends |-> <<>>]
None    == [e \in Ends |-> 0]

Init ==
    /\ trusted \in BOOLEAN
    /\ open = FALSE
    /\ accepted = {}
    /\ said = Nothing /\ heard = Nothing /\ blanks = None

Open ==
    /\ ~open /\ open' = TRUE
    /\ accepted' = {}
    /\ said' = Nothing /\ heard' = Nothing /\ blanks' = None
    /\ UNCHANGED trusted

Close ==
    /\ open /\ open' = FALSE
    /\ UNCHANGED <<trusted, accepted, said, heard, blanks>>

Accept(e, m) ==
    /\ open /\ trusted /\ e \notin accepted
    /\ accepted' = accepted \cup {e}
    /\ said[e] = <<>> /\ said' = [said EXCEPT ![e] = <<m>>]
    /\ UNCHANGED <<trusted, open, heard, blanks>>

Say(e, m) ==
    /\ open /\ e \in accepted
    /\ said' = [said EXCEPT ![e] = Append(@, m)]
    /\ UNCHANGED <<trusted, open, accepted, heard, blanks>>

Hear(e) ==
    /\ open /\ e \in accepted
    /\ Len(heard[e]) < Len(said[Peer(e)])
    /\ heard' = [heard EXCEPT ![e] = Append(@, said[Peer(e)][Len(@) + 1])]
    /\ UNCHANGED <<trusted, open, accepted, said, blanks>>

HearBlank(e) ==
    /\ open /\ e \in accepted
    /\ blanks' = [blanks EXCEPT ![e] = @ + 1]
    /\ UNCHANGED <<trusted, open, accepted, said, heard>>

Next ==
    \/ Open \/ Close
    \/ \E e \in Ends : Hear(e) \/ HearBlank(e) \/ \E m \in Messages : Accept(e, m) \/ Say(e, m)

Spec == Init /\ [][Next]_vars
=============================================================================
