------------------------------- MODULE Collect -------------------------------
(***************************************************************************)
(* The collector's connections (CollectingConn, qicollect.cpp): each one   *)
(* keeps trying to reach its probe, negotiates, then takes its collection  *)
(* sets one after the other through delete, create, activate and           *)
(* subscribe, and falls back to reconnecting when the peer closes or stays *)
(* silent.                                                                 *)
(*                                                                         *)
(* The peer is left open: any line may arrive at any time.  A line stands  *)
(* for all the lines that start alike, as far as lineread tells them apart;*)
(* what it does with a data line's values is module RrdUpdate's.  QiSystem *)
(* closes the loop with a probe.                                           *)
(***************************************************************************)
EXTENDS Integers, Sequences, FiniteSets

CONSTANTS
    Collectors,    \* the CollectingConn objects, one per probe address
    Sets,          \* collection sets, by fullkey
    Mpcs,          \* [Collectors -> SUBSET Sets]: CollectingConn::mpcs
    Rank,          \* [Sets -> Nat]: the order of the map mpcs
    NoSet,         \* waiting_pcs == NULL
    SilenceLimit,  \* 45s, in ticks
    WakeLimit,     \* 4 wake-up attempts
    CC__MAXRETRY,  \* 7 lines that are not the answer to "qiging ?"
    MaxTx          \* bound: lines the peer may leave unread while it sends

ASSUME CollectAssumption ==
    /\ Mpcs \in [Collectors -> SUBSET Sets]
    /\ Rank \in [Sets -> Nat]
    /\ \A r, s \in Sets : Rank[r] = Rank[s] => r = s
    /\ NoSet \notin Sets
    /\ SilenceLimit \in Nat /\ WakeLimit \in Nat /\ MaxTx \in Nat
    /\ CC__MAXRETRY \in Nat \ {0}

VARIABLES
    state,         \* CollectingConn::state
    nbtest,        \* lines read in "verify" that were not the answer
    cs,            \* CollectionSet::state of each set of the connection
    pending,       \* some set may need a command
    is_collecting, \* data lines are taken, silence is watched
    wait_string, waiting_pcs, waiting_pcs_nextstate,
    silence,       \* now - lastlineread, counted up to SilenceLimit + 1
    nbwakeattempt, \* wake-ups since the last reconnection
    hold,          \* delay_reconnect has not elapsed since lastattempt
    tx             \* the lines written on the connection and not yet read

link    == <<state, nbtest, is_collecting, nbwakeattempt, hold>>
waiting == <<wait_string, waiting_pcs, waiting_pcs_nextstate>>
work    == <<cs, pending, waiting>>
collectVars == <<link, work, silence, tx>>

\* What poll does for a set in each state (CSState): the command it sends,
\* the start of the line that acknowledges it, the state that follows.
Cycle == [del_remote_for_create |->
            [cmd |-> "delete", ack |-> "delete:", next |-> "create_remote"],
          create_remote |->
            [cmd |-> "create", ack |-> "creation done.", next |-> "activate_remote"],
          activate_remote |->
            [cmd |-> "activate", ack |-> "activate:", next |-> "sub_remote"],
          sub_remote |->
            [cmd |-> "sub", ack |-> "subscribed", next |-> "collect"]]

ConnStat == {"needtoconnect", "challenging", "welcome", "verify", "ready",
             "waiting", "timeout"}
CSState  == DOMAIN Cycle \cup {"collect"}
Acks     == {Cycle[x].ack : x \in DOMAIN Cycle}
Lines    == Acks \cup {"qigong[", "qigong.", "-->", "other"}

\* What a connection writes: a command about a set, "qiging ?", the wake-up
\* (printed with eos where eos() was meant: the peer knows no "qiging1"),
\* or a bare end of string.
Commands == [cmd : {Cycle[x].cmd : x \in DOMAIN Cycle}, set : Sets]
                \cup [cmd : {"qiging", "qiging1", "eos"}, set : {NoSet}]
Plain(c) == [cmd |-> c, set |-> NoSet]

Write(k, m) == tx' = [tx EXCEPT ![k] = Append(@, m)]

TypeOK ==
    /\ state \in [Collectors -> ConnStat]
    /\ nbtest \in [Collectors -> 0..CC__MAXRETRY]
    /\ cs \in [Collectors -> [Sets -> CSState]]
    /\ pending \in [Collectors -> BOOLEAN]
    /\ is_collecting \in [Collectors -> BOOLEAN]
    /\ wait_string \in [Collectors -> Acks]
    /\ waiting_pcs \in [Collectors -> Sets \cup {NoSet}]
    /\ waiting_pcs_nextstate \in [Collectors -> CSState]
    /\ silence \in [Collectors -> 0..(SilenceLimit + 1)]
    /\ nbwakeattempt \in [Collectors -> 0..WakeLimit]
    /\ hold \in [Collectors -> BOOLEAN]
    /\ tx \in [Collectors -> Seq(Commands)]

\* The constructor, and assign for every set of the connection.  The value
\* of wait_string is never read before poll sets it.
Init ==
    /\ state = [k \in Collectors |-> "needtoconnect"]
    /\ nbtest = [k \in Collectors |-> 0]
    /\ cs = [k \in Collectors |-> [s \in Sets |-> "del_remote_for_create"]]
    /\ pending = [k \in Collectors |-> TRUE]
    /\ is_collecting = [k \in Collectors |-> FALSE]
    /\ wait_string = [k \in Collectors |-> "delete:"]
    /\ waiting_pcs = [k \in Collectors |-> NoSet]
    /\ waiting_pcs_nextstate = [k \in Collectors |-> "collect"]
    /\ silence = [k \in Collectors |-> 0]
    /\ nbwakeattempt = [k \in Collectors |-> 0]
    /\ hold = [k \in Collectors |-> FALSE]
    /\ tx = [k \in Collectors |-> <<>>]

----------------------------------------------------------------------------
(* poll, called for every connection at every turn of the select loop.     *)

SilentWhenReady(k) ==  \* mutant: silence is not watched while waiting
    state[k] = "ready" /\ silence[k] > SilenceLimit
Silent(k)    == is_collecting[k] /\ silence[k] > SilenceLimit
WokenOnceMore(k) == nbwakeattempt[k] > WakeLimit  \* mutant: off by one
TooManyWakes(k) == nbwakeattempt[k] >= WakeLimit
\* Sets that still need a command, and the first of them in mpcs.
Unfinished(k) == {s \in Mpcs[k] : cs[k][s] # "collect"}
IsAnyUnfinished(k, s) == s \in Unfinished(k)  \* mutant: goes on after the first
IsNext(k, s)  == s \in Unfinished(k) /\ \A r \in Unfinished(k) : Rank[s] <= Rank[r]

\* mutant: the state that follows is left to what it was
CommandForgetsNext(k, s, before) ==
    LET step == Cycle[cs[k][s]] IN
    /\ state' = [state EXCEPT ![k] = "waiting"]
    /\ wait_string' = [wait_string EXCEPT ![k] = step.ack]
    /\ waiting_pcs' = [waiting_pcs EXCEPT ![k] = s]
    /\ pending' = [pending EXCEPT ![k] = TRUE]
    /\ tx' = [tx EXCEPT ![k] = @ \o Append(before, [cmd |-> step.cmd, set |-> s])]
    /\ UNCHANGED <<cs, waiting_pcs_nextstate>>

\* case ready: one command for the first set that needs one, after what the
\* call has already written.
Command(k, s, before) ==
    LET step == Cycle[cs[k][s]] IN
    /\ state' = [state EXCEPT ![k] = "waiting"]
    /\ wait_string' = [wait_string EXCEPT ![k] = step.ack]
    /\ waiting_pcs' = [waiting_pcs EXCEPT ![k] = s]
    /\ waiting_pcs_nextstate' = [waiting_pcs_nextstate EXCEPT ![k] = step.next]
    /\ pending' = [pending EXCEPT ![k] = TRUE]
    /\ tx' = [tx EXCEPT ![k] = @ \o Append(before, [cmd |-> step.cmd, set |-> s])]
    /\ UNCHANGED cs

\* case ready, or any state with nothing to do
Serve(k, before) ==
    \/ /\ state[k] = "ready" /\ pending[k]
       /\ \E s \in Mpcs[k] : IsNext(k, s) /\ Command(k, s, before)
    \/ /\ state[k] = "ready" /\ pending[k]
       /\ Unfinished(k) = {}
       /\ pending' = [pending EXCEPT ![k] = FALSE]
       /\ tx' = [tx EXCEPT ![k] = @ \o before]
       /\ UNCHANGED <<state, cs, waiting>>
    \/ /\ ~(state[k] = "ready" /\ pending[k])
       /\ tx' = [tx EXCEPT ![k] = @ \o before]
       /\ UNCHANGED <<state, cs, pending, waiting>>

\* mutant: the sets start over, pending does not
ConnectedNotPending(k) ==
    /\ state' = [state EXCEPT ![k] = "challenging"]
    /\ cs' = [cs EXCEPT ![k] = [s \in Sets |->
                IF s \in Mpcs[k] THEN "del_remote_for_create" ELSE @[s]]]
    /\ hold' = [hold EXCEPT ![k] = FALSE]
    /\ tx' = [tx EXCEPT ![k] = <<>>]
    /\ UNCHANGED <<pending, waiting>>

\* mutant: the sets go on where the last connection left them
ConnectedKeepsSets(k) ==
    /\ state' = [state EXCEPT ![k] = "challenging"]
    /\ pending' = [pending EXCEPT ![k] = TRUE]
    /\ hold' = [hold EXCEPT ![k] = FALSE]
    /\ tx' = [tx EXCEPT ![k] = <<>>]
    /\ UNCHANGED <<cs, waiting>>

\* init_connect succeeds: a new stream, every set starts over.
Connected(k) ==
    /\ state' = [state EXCEPT ![k] = "challenging"]
    /\ cs' = [cs EXCEPT ![k] = [s \in Sets |->
                IF s \in Mpcs[k] THEN "del_remote_for_create" ELSE @[s]]]
    /\ pending' = [pending EXCEPT ![k] = TRUE]
    /\ hold' = [hold EXCEPT ![k] = FALSE]
    /\ tx' = [tx EXCEPT ![k] = <<>>]
    /\ UNCHANGED waiting

\* init_connect fails: failconnect_treat puts the next attempt off.
Unreachable(k) ==
    /\ state' = [state EXCEPT ![k] = "needtoconnect"]
    /\ hold' = [hold EXCEPT ![k] = TRUE]
    /\ tx' = [tx EXCEPT ![k] = <<>>]
    /\ UNCHANGED work

PollServe(k) ==
    /\ state[k] = "ready" /\ pending[k]
    /\ ~Silent(k)
    /\ Serve(k, <<>>)
    /\ UNCHANGED <<nbtest, is_collecting, nbwakeattempt, hold, silence>>

PollWake(k) ==
    /\ Silent(k)
    /\ ~TooManyWakes(k)
    /\ silence' = [silence EXCEPT ![k] = 0]
    /\ nbwakeattempt' = [nbwakeattempt EXCEPT ![k] = @ + 1]
    /\ Serve(k, <<Plain("qiging1")>>)
    /\ UNCHANGED <<nbtest, is_collecting, hold>>

PollConnect(k) ==
    /\ state[k] = "needtoconnect"
    /\ ~hold[k]
    /\ Connected(k) \/ Unreachable(k)
    /\ UNCHANGED <<nbtest, is_collecting, nbwakeattempt, silence>>

\* Too many wake-ups: reconnect_hook, and the same call goes on with case
\* needtoconnect.  delay_reconnect is 1 and the last failed attempt predates
\* this connection by more, so it attempts to connect at once.
PollGiveUp(k) ==
    /\ Silent(k)
    /\ TooManyWakes(k)
    /\ silence' = [silence EXCEPT ![k] = 0]
    /\ nbwakeattempt' = [nbwakeattempt EXCEPT ![k] = 0]
    /\ is_collecting' = [is_collecting EXCEPT ![k] = FALSE]
    /\ Connected(k) \/ Unreachable(k)
    /\ UNCHANGED nbtest

Poll(k) == PollServe(k) \/ PollWake(k) \/ PollConnect(k) \/ PollGiveUp(k)

----------------------------------------------------------------------------
(* What the peer causes.                                                   *)

\* mutant: reconnect_hook leaves is_collecting alone
PeerClosedStillCollecting(k) ==
    /\ state[k] # "needtoconnect"
    /\ hold' = [hold EXCEPT ![k] = state[k] = "challenging"]
    /\ nbwakeattempt' = [nbwakeattempt EXCEPT ![k] = 0]
    /\ state' = [state EXCEPT ![k] = "needtoconnect"]
    /\ tx' = [tx EXCEPT ![k] = <<>>]
    /\ UNCHANGED <<nbtest, is_collecting, work, silence>>

\* read returns 0: reconnect_hook.  Only a failed handshake delays the next
\* attempt.  The interrupted work is left as it is.
PeerClosed(k) ==
    /\ state[k] # "needtoconnect"
    /\ hold' = [hold EXCEPT ![k] = state[k] = "challenging"]
    /\ is_collecting' = [is_collecting EXCEPT ![k] = FALSE]
    /\ nbwakeattempt' = [nbwakeattempt EXCEPT ![k] = 0]
    /\ state' = [state EXCEPT ![k] = "needtoconnect"]
    /\ tx' = [tx EXCEPT ![k] = <<>>]
    /\ UNCHANGED <<nbtest, work, silence>>

\* The handshake of CryptConnection succeeds.
FirstPrompt(k) ==
    /\ state[k] = "challenging"
    /\ state' = [state EXCEPT ![k] = "welcome"]
    /\ Write(k, Plain("qiging"))
    /\ UNCHANGED <<nbtest, is_collecting, nbwakeattempt, hold, work, silence>>

\* mutant: the banner is taken for the prompt
WelcomeAtOnce(k, line) ==
    /\ state[k] = "welcome"
    /\ state' = [state EXCEPT ![k] = "verify"]
    /\ nbtest' = [nbtest EXCEPT ![k] = 0]
    /\ Write(k, Plain("qiging"))
    /\ UNCHANGED <<is_collecting, work>>

Welcome(k, line) ==
    /\ state[k] = "welcome"
    /\ IF line = "qigong["
       THEN /\ state' = [state EXCEPT ![k] = "verify"]
            /\ nbtest' = [nbtest EXCEPT ![k] = 0]
            /\ Write(k, Plain("qiging"))
       ELSE /\ Write(k, Plain("eos"))
            /\ UNCHANGED <<state, nbtest>>
    /\ UNCHANGED <<is_collecting, work>>

Verify(k, line) ==
    /\ state[k] = "verify"
    /\ IF line = "qigong."
       THEN /\ state' = [state EXCEPT ![k] = "ready"]
            /\ is_collecting' = [is_collecting EXCEPT ![k] = TRUE]
            /\ UNCHANGED <<nbtest, tx>>
       ELSE /\ nbtest' = [nbtest EXCEPT ![k] = @ + 1]
            /\ state' = [state EXCEPT ![k] =
                           IF nbtest[k] + 1 >= CC__MAXRETRY THEN "timeout" ELSE @]
            /\ Write(k, Plain("qiging"))
            /\ UNCHANGED is_collecting
    /\ UNCHANGED work

Acknowledge(k, line) ==
    /\ state[k] = "waiting"
    /\ line = wait_string[k]
    /\ state' = [state EXCEPT ![k] = "ready"]
    /\ cs' = [cs EXCEPT ![k][waiting_pcs[k]] = waiting_pcs_nextstate[k]]
    /\ waiting_pcs' = [waiting_pcs EXCEPT ![k] = NoSet]
    /\ UNCHANGED <<nbtest, is_collecting, pending, wait_string, waiting_pcs_nextstate, tx>>

\* Any other line in "waiting", and every line in "ready" and "timeout", only
\* breaks the silence.
Ignore(k, line) ==
    /\ \/ state[k] = "waiting" /\ line # wait_string[k]
       \/ state[k] \in {"ready", "timeout"}
    /\ UNCHANGED <<state, nbtest, is_collecting, work, tx>>

LineRead(k, line) ==
    /\ Len(tx[k]) < MaxTx
    /\ \/ Welcome(k, line) \/ Verify(k, line)
       \/ Acknowledge(k, line) \/ Ignore(k, line)
    /\ silence' = [silence EXCEPT ![k] = 0]
    /\ UNCHANGED <<nbwakeattempt, hold>>

----------------------------------------------------------------------------
(* Time, and the peer reading what was written.                            *)

Tick ==
    /\ silence' = [k \in Collectors |->
                     IF silence[k] <= SilenceLimit THEN silence[k] + 1 ELSE silence[k]]
    /\ UNCHANGED <<link, work, tx>>

\* now - lastattempt exceeds delay_reconnect
DelayOver(k) ==
    /\ hold[k]
    /\ hold' = [hold EXCEPT ![k] = FALSE]
    /\ UNCHANGED <<state, nbtest, is_collecting, nbwakeattempt, work, silence, tx>>

PeerReads(k) ==
    /\ tx[k] # <<>>
    /\ tx' = [tx EXCEPT ![k] = Tail(@)]
    /\ UNCHANGED <<link, work, silence>>

----------------------------------------------------------------------------

Next ==
    \/ Tick
    \/ \E k \in Collectors :
         \/ Poll(k) \/ DelayOver(k)
         \/ PeerClosed(k) \/ FirstPrompt(k) \/ PeerReads(k)
         \/ \E line \in Lines : LineRead(k, line)

Spec == Init /\ [][Next]_collectVars

\* The select loop polls every 25ms and time passes; nothing is assumed of
\* the peer.
FairSpec ==
    /\ Spec
    /\ WF_collectVars(Tick)
    /\ \A k \in Collectors : WF_collectVars(Poll(k)) /\ WF_collectVars(DelayOver(k))

----------------------------------------------------------------------------
(* Properties.                                                             *)

\* Silence is watched exactly while sets are worked on or collected: the
\* three assignments to is_collecting follow those of state.
WatchedWhileWorking ==
    \A k \in Collectors : is_collecting[k] <=> state[k] \in {"ready", "waiting"}

\* A waiting connection waits for the answer to the command of the set it
\* points to, whatever an earlier connection left in the same fields.
AwaitsItsAnswer ==
    \A k \in Collectors : state[k] = "waiting" =>
        /\ waiting_pcs[k] \in Unfinished(k)
        /\ wait_string[k] = Cycle[cs[k][waiting_pcs[k]]].ack
        /\ waiting_pcs_nextstate[k] = Cycle[cs[k][waiting_pcs[k]]].next

\* poll looks at the sets only while pending is set, and clears it before it
\* looks: a connection never has an unfinished set and pending clear.
NoForgottenSet ==
    \A k \in Collectors : Unfinished(k) # {} => pending[k]

\* The connection as module CollectionCycle sees it.
Phase == [del_remote_for_create |-> 0, create_remote |-> 1,
          activate_remote |-> 2, sub_remote |-> 3, collect |-> 4]
Linked  == {k \in Collectors : state[k] # "needtoconnect"}
PhaseOf == [k \in Collectors |-> [s \in Sets |-> Phase[cs[k][s]]]]
Asked   == [k \in Collectors |-> IF state[k] = "waiting" THEN waiting_pcs[k] ELSE NoSet]
Setup == INSTANCE CollectionCycle WITH
    Phases <- 4, linked <- Linked, phase <- PhaseOf, asked <- Asked

\* The three fields of a wait, the states of the sets, pending and the
\* reconnections work together as CollectionCycle says: every set is set up
\* step by step on one connection, each step answered before the next one
\* and the sets in order, and a lost connection repeats all of it.
ImplementsCycle == Setup!Spec

\* A connection whose answer never comes does not wait for ever in silence:
\* the wake-ups and the reconnection end it.
NeverStuckInSilence ==
    \A k \in Collectors :
        \/ []<>(state[k] # "waiting")
        \/ []<><<\E line \in Lines : LineRead(k, line)>>_collectVars
=============================================================================
