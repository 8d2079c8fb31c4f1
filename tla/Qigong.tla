------------------------------- MODULE Qigong -------------------------------
(***************************************************************************)
(* The probe daemon (qigong.cpp): its record sets, the schedule that       *)
(* re-measures them, and the connections that create, activate, subscribe  *)
(* to and delete them.                                                     *)
(*                                                                         *)
(* A RecordSet is known by its address, as in the code: mrecordsets maps   *)
(* names to addresses, the schedule and the connections' subs hold bare    *)
(* addresses, and an address freed by "delete" may be handed out again by  *)
(* the next "create".  A stale address is therefore a state of this model, *)
(* not something it rules out by construction.                             *)
(*                                                                         *)
(* One thread runs everything, so a command is one step.  The measuring    *)
(* loop of MeasurePool::select_poll is unrolled, one step per visited      *)
(* schedule entry, because the loop inserts into the multimap it walks.    *)
(*                                                                         *)
(* Times are kept relative to the clock: an entry in slot s is due s       *)
(* seconds from now, and a tick moves every entry one slot down.           *)
(***************************************************************************)
EXTENDS Integers, FiniteSets

CONSTANTS
    Names,       \* record set identifiers
    Conns,       \* client connections (CollectedConn objects)
    Ptr,         \* addresses a RecordSet can be allocated at
    Intervals,   \* refresh intervals, in ticks
    NoName,      \* what a free address holds
    NoPtr,       \* "not in mrecordsets"
    MaxLate,     \* bound: no entry is overdue by more ticks than this
    MaxAhead,    \* bound: no entry is due later than this
    MaxEntries,  \* bound: schedule entries of one record set
    Jumps,       \* amounts the administrator may set the clock by (+ forward)
    MaxJumps     \* bound: how many times that happens

ASSUME QigongAssumption ==
    /\ Intervals \subseteq Nat \ {0}
    /\ MaxLate \in Nat /\ MaxAhead \in Nat /\ MaxEntries \in Nat /\ MaxJumps \in Nat
    /\ \A i \in Intervals : i <= MaxAhead
    /\ Jumps \subseteq Int
    /\ NoName \notin Names
    /\ NoPtr \notin Ptr

Slots == (-MaxLate)..MaxAhead

VARIABLES
    proc,         \* the daemon: "up", "off" (turned off), "dead" (aborted), "hung"
    conn,         \* life of each connection
    doomed,       \* connections the pool is about to destroy
    subs,         \* CollectedConn::subs
    mrecordsets,  \* the global registry, name -> address
    rs,           \* the heap: what each address holds
    schedule,     \* the global multimap, as the number of entries per address and slot
    polling,      \* inside the loop of MeasurePool::select_poll
    lmi,          \* the entries that loop has visited and will erase
    lines,        \* the data lines sent by the last step
    prompt,       \* the global prompt string is not empty
    jumps         \* clock settings so far

registry == <<subs, mrecordsets, rs>>
network  == <<conn, doomed, prompt>>
timing   == <<schedule, polling, lmi>>
vars     == <<proc, network, registry, timing, lines, jumps>>

FreeCell == [name |-> NoName, interval |-> 0, channels |-> {}]
Cell     == [name : Names \cup {NoName}, interval : Nat, channels : SUBSET Conns]
Line     == [name : Names, to : SUBSET Conns]
Idle     == [s \in Slots |-> 0]

TypeOK ==
    /\ proc \in {"up", "off", "dead", "hung"}
    /\ conn \in [Conns -> {"none", "handshake", "open"}]
    /\ doomed \in SUBSET Conns
    /\ subs \in [Conns -> SUBSET Ptr]
    /\ mrecordsets \in [Names -> Ptr \cup {NoPtr}]
    /\ rs \in [Ptr -> Cell]
    /\ \A p \in Ptr : rs[p] # FreeCell => rs[p].name \in Names /\ rs[p].interval > 0
    /\ schedule \in [Ptr -> [Slots -> Nat]]
    /\ lmi \in [Ptr -> [Slots -> Nat]]
    /\ polling \in BOOLEAN
    /\ lines \in SUBSET Line
    /\ prompt \in BOOLEAN
    /\ jumps \in Nat

----------------------------------------------------------------------------
(* Reading the state.                                                      *)

Registered  == {n \in Names : mrecordsets[n] # NoPtr}
Allocated   == {p \in Ptr : rs[p].name # NoName}
\* The record sets an identifier list resolves to (mrecordsets.find).
Found(S)    == {mrecordsets[n] : n \in S \cap Registered}
\* The entries of p the measuring loop will not erase: how many in each slot,
\* each of them numbered within its slot, and how many in all.
Remaining(p)   == [s \in Slots |-> schedule[p][s] - lmi[p][s]]
Entries(f)     == UNION {{s} \X (1..f[s]) : s \in Slots}
Outstanding(p) == Cardinality(Entries(Remaining(p)))
OverdueByOne(p) == {s \in Slots : s = -1 /\ schedule[p][s] > lmi[p][s]}  \* mutant: == for <
Overdue(p)  == {s \in Slots : s < 0 /\ schedule[p][s] > lmi[p][s]}

Ready       == proc = "up" /\ ~polling
\* A connection marked for destruction still works off the lines it has read.
Speaks(c)   == Ready /\ conn[c] = "open"

----------------------------------------------------------------------------
(* The two halves of a subscription.                                       *)

AddChannel(cell, c)    == [cell EXCEPT !.channels = @ \cup {c}]
KeepChannel(cell, c)   == cell  \* mutant: the destructor forgets the channels
RemoveChannel(cell, c) == [cell EXCEPT !.channels = @ \ {c}]

\* Both halves, for every record set in P.
AddSubs(c, P) ==
    /\ subs' = [subs EXCEPT ![c] = @ \cup P]
    /\ rs' = [p \in Ptr |-> IF p \in P THEN AddChannel(rs[p], c) ELSE rs[p]]
RemoveSubs(c, P) ==
    /\ subs' = [subs EXCEPT ![c] = @ \ P]
    /\ rs' = [p \in Ptr |-> IF p \in P THEN RemoveChannel(rs[p], c) ELSE rs[p]]

\* RecordSet::measure re-arms its set one interval after the time t it is
\* called for, and sends one line down every channel.
MeasureOnce(p, t) == schedule[p]  \* mutant: measured once, never re-armed
Rearm(p, t)   == [schedule[p] EXCEPT ![t + rs[p].interval] = @ + 1]
DataLine(p)   == [name |-> rs[p].name, to |-> rs[p].channels]

\* The process is gone and its memory with it.
Die(how) ==
    /\ proc' = how
    /\ conn' = [c \in Conns |-> "none"]
    /\ doomed' = {}
    /\ subs' = [c \in Conns |-> {}]
    /\ mrecordsets' = [n \in Names |-> NoPtr]
    /\ rs' = [p \in Ptr |-> FreeCell]
    /\ schedule' = [p \in Ptr |-> Idle]
    /\ lmi' = [p \in Ptr |-> Idle]
    /\ polling' = FALSE
    /\ lines' = {}
    /\ prompt' = TRUE
    /\ UNCHANGED jumps

Init ==
    /\ proc = "up"
    /\ conn = [c \in Conns |-> "none"]
    /\ doomed = {}
    /\ subs = [c \in Conns |-> {}]
    /\ mrecordsets = [n \in Names |-> NoPtr]
    /\ rs = [p \in Ptr |-> FreeCell]
    /\ schedule = [p \in Ptr |-> Idle]
    /\ lmi = [p \in Ptr |-> Idle]
    /\ polling = FALSE
    /\ lines = {}
    /\ prompt = TRUE
    /\ jumps = 0

----------------------------------------------------------------------------
(* Connections.                                                            *)

\* SocketBinder::connection_binder
Accept(c) ==
    /\ Ready
    /\ conn[c] = "none"
    /\ conn' = [conn EXCEPT ![c] = "handshake"]
    /\ lines' = {}
    /\ UNCHANGED <<proc, doomed, prompt, registry, timing, jumps>>

\* The cryptographic handshake succeeds and calls firstprompt.
FirstPrompt(c) ==
    /\ Ready
    /\ conn[c] = "handshake"
    /\ c \notin doomed
    /\ conn' = [conn EXCEPT ![c] = "open"]
    /\ prompt' = TRUE
    /\ lines' = {}
    /\ UNCHANGED <<proc, doomed, registry, timing, jumps>>

\* "quit", the peer closing, a refused handshake or an output buffer beyond
\* setmaxpendsize: the pool will destroy the connection.
Doom(c) ==
    /\ Ready
    /\ conn[c] # "none"
    /\ c \notin doomed
    /\ doomed' = doomed \cup {c}
    /\ lines' = {}
    /\ UNCHANGED <<proc, conn, prompt, registry, timing, jumps>>

\* The pool destroys it: the destructor undoes the channels of its
\* subscriptions, and its own subs vanish with it.
Destroy(c) ==
    /\ Ready
    /\ c \in doomed
    /\ conn' = [conn EXCEPT ![c] = "none"]
    /\ doomed' = doomed \ {c}
    /\ RemoveSubs(c, subs[c])
    /\ lines' = {}
    /\ UNCHANGED <<proc, prompt, mrecordsets, timing, jumps>>

----------------------------------------------------------------------------
(* Commands (CollectedConn::lineread).                                     *)

\* mutant: no check for a null interval
CreateAnyInterval(c, n, i) ==
    /\ Speaks(c)
    /\ n \notin Registered
    /\ \E p \in Ptr \ Allocated :
         /\ rs' = [rs EXCEPT ![p] = [name |-> n, interval |-> i, channels |-> {}]]
         /\ mrecordsets' = [mrecordsets EXCEPT ![n] = p]
    /\ lines' = {}
    /\ UNCHANGED <<proc, network, subs, timing, jumps>>

\* "create": refused (no change) when the name is registered, the interval
\* null or no measure point could be built.
Create(c, n, i) ==
    /\ Speaks(c)
    /\ n \notin Registered
    /\ i # 0
    /\ \E p \in Ptr \ Allocated :
         /\ rs' = [rs EXCEPT ![p] = [name |-> n, interval |-> i, channels |-> {}]]
         /\ mrecordsets' = [mrecordsets EXCEPT ![n] = p]
    /\ lines' = {}
    /\ UNCHANGED <<proc, network, subs, timing, jumps>>

\* mutants of suppressrecordset: one of its four erasures forgotten
SuppressKeepsSchedule(P) ==
    /\ mrecordsets' = [n \in Names |->
                         IF mrecordsets[n] \in P THEN NoPtr ELSE mrecordsets[n]]
    /\ subs' = [d \in Conns |-> subs[d] \ {p \in P : d \in rs[p].channels}]
    /\ rs' = [p \in Ptr |-> IF p \in P THEN FreeCell ELSE rs[p]]
    /\ UNCHANGED schedule
SuppressKeepsName(P) ==
    /\ schedule' = [p \in Ptr |-> IF p \in P THEN Idle ELSE schedule[p]]
    /\ subs' = [d \in Conns |-> subs[d] \ {p \in P : d \in rs[p].channels}]
    /\ rs' = [p \in Ptr |-> IF p \in P THEN FreeCell ELSE rs[p]]
    /\ UNCHANGED mrecordsets

\* suppressrecordset for every set in P: schedule entries, registry entry,
\* the subscribers' half of the subscriptions, then the object.
Suppress(P) ==
    /\ schedule' = [p \in Ptr |-> IF p \in P THEN Idle ELSE schedule[p]]
    /\ mrecordsets' = [n \in Names |->
                         IF mrecordsets[n] \in P THEN NoPtr ELSE mrecordsets[n]]
    /\ subs' = [d \in Conns |->
                  subs[d] \ {p \in P : d \in rs[p].channels}]
    /\ rs' = [p \in Ptr |-> IF p \in P THEN FreeCell ELSE rs[p]]

\* "delete id ..."
Delete(c, S) ==
    /\ Speaks(c)
    /\ Found(S) # {}
    /\ Suppress(Found(S))
    /\ lines' = {}
    /\ UNCHANGED <<proc, network, polling, lmi, jumps>>

\* Suppressing a set that has channels walks prs->channels while remove_subs
\* erases the very element the iterator stands on: undefined.  Where freed
\* nodes keep their links the walk completes (Delete); where the allocator
\* overwrites them the increment faults.
DeleteFault(c, S) ==
    /\ Speaks(c)
    /\ \E p \in Found(S) : rs[p].channels # {}
    /\ Die("dead")

\* "activate id ...": RecordSet::measure for the current time.
Activate(c, S) ==
    /\ Speaks(c)
    /\ Found(S) # {}
    /\ \A p \in Found(S) : Outstanding(p) < MaxEntries
    /\ schedule' = [p \in Ptr |-> IF p \in Found(S) THEN Rearm(p, 0) ELSE schedule[p]]
    /\ lines' = {DataLine(p) : p \in Found(S)}
    /\ UNCHANGED <<proc, network, registry, polling, lmi, jumps>>

\* "subscribe id ..."
Subscribe(c, S) ==
    /\ Speaks(c)
    /\ Found(S) # {}
    /\ AddSubs(c, Found(S))
    /\ lines' = {}
    /\ UNCHANGED <<proc, network, mrecordsets, timing, jumps>>

\* "unsubscribe id ..." of sets this connection is subscribed to
Unsubscribe(c, S) ==
    /\ Speaks(c)
    /\ Found(S) # {}
    /\ Found(S) \subseteq subs[c]
    /\ RemoveSubs(c, Found(S))
    /\ lines' = {}
    /\ UNCHANGED <<proc, network, mrecordsets, timing, jumps>>

\* remove_subs of a set the connection never subscribed to erases
\* subs.end(): undefined.  On an empty map the tree walk never ends; on any
\* other it frees the header node and the process aborts.
UnsubscribeFault(c, S) ==
    /\ Speaks(c)
    /\ \E p \in Found(S) : p \notin subs[c]
    /\ \/ /\ subs[c] \subseteq Found(S)
          /\ proc' = "hung"
          /\ UNCHANGED <<network, registry, timing, lines, jumps>>
       \/ /\ subs[c] # {}
          /\ Die("dead")

\* "qiging": the collectors' way to turn prompts off, for everybody.
Qiging(c) ==
    /\ Speaks(c)
    /\ prompt' = FALSE
    /\ lines' = {}
    /\ UNCHANGED <<proc, conn, doomed, registry, timing, jumps>>

\* "turnoff" ends select_loop and the daemon.
Turnoff(c) == Speaks(c) /\ Die("off")

----------------------------------------------------------------------------
(* The measuring loop (MeasurePool::select_poll).                          *)

PollStart ==
    /\ Ready
    /\ \E p \in Ptr : Overdue(p) # {}
    /\ polling' = TRUE
    /\ lines' = {}
    /\ UNCHANGED <<proc, network, registry, schedule, lmi, jumps>>

\* The entries are visited in time order, the ones measure inserts included.
PollVisit(p, s) ==
    /\ polling
    /\ s \in Overdue(p)
    /\ \A q \in Ptr : \A r \in Overdue(q) : s <= r
    /\ lmi' = [lmi EXCEPT ![p][s] = @ + 1]
    /\ schedule' = [schedule EXCEPT ![p] = Rearm(p, s)]
    /\ lines' = {DataLine(p)}
    /\ UNCHANGED <<proc, network, registry, polling, jumps>>

\* mutant: the visited entries stay in the schedule
PollEndErasesNothing ==
    /\ polling
    /\ \A p \in Ptr : Overdue(p) = {}
    /\ lmi' = [p \in Ptr |-> Idle]
    /\ polling' = FALSE
    /\ lines' = {}
    /\ UNCHANGED <<proc, network, registry, schedule, jumps>>

\* The loop reached an entry that is not overdue: erase what it visited.
PollEnd ==
    /\ polling
    /\ \A p \in Ptr : Overdue(p) = {}
    /\ schedule' = [p \in Ptr |-> [s \in Slots |-> schedule[p][s] - lmi[p][s]]]
    /\ lmi' = [p \in Ptr |-> Idle]
    /\ polling' = FALSE
    /\ lines' = {}
    /\ UNCHANGED <<proc, network, registry, jumps>>

----------------------------------------------------------------------------
(* The clock, and what surrounds the process.                              *)

\* The clock moves d seconds forward (back when d is negative).
Shift(d) ==
    /\ \A p \in Ptr : \A s \in Slots : schedule[p][s] > 0 => s - d \in Slots
    /\ schedule' = [p \in Ptr |->
                      [s \in Slots |-> IF s + d \in Slots THEN schedule[p][s + d] ELSE 0]]
    /\ UNCHANGED <<network, registry, polling, lmi, lines>>

Tick == Ready /\ Shift(1) /\ UNCHANGED <<proc, jumps>>

SetClock(d) ==
    /\ Ready
    /\ jumps < MaxJumps
    /\ jumps' = jumps + 1
    /\ Shift(d)
    /\ UNCHANGED proc

\* An operator kills a hung daemon.
Kill == proc = "hung" /\ Die("dead")

\* The init script starts it again, with nothing left of its former state.
Restart ==
    /\ proc \in {"off", "dead"}
    /\ proc' = "up"
    /\ UNCHANGED <<network, registry, timing, lines, jumps>>

----------------------------------------------------------------------------

Session(c) ==
    \/ Accept(c) \/ FirstPrompt(c) \/ Doom(c) \/ Destroy(c)
    \/ Qiging(c) \/ Turnoff(c)
    \/ \E n \in Names, i \in Intervals \cup {0} : Create(c, n, i)
    \/ \E S \in SUBSET Names :
         \/ Delete(c, S) \/ DeleteFault(c, S)
         \/ Activate(c, S)
         \/ Subscribe(c, S)
         \/ Unsubscribe(c, S) \/ UnsubscribeFault(c, S)

Poll == PollStart \/ PollEnd \/ \E p \in Ptr, s \in Slots : PollVisit(p, s)

Environment == Tick \/ Kill \/ Restart \/ \E d \in Jumps : SetClock(d)

Next == Poll \/ Environment \/ \E c \in Conns : Session(c)

Spec == Init /\ [][Next]_vars

\* The loop runs every 100ms, the clock runs, and the pool destroys what it
\* marked.  Nothing is assumed of the clients.
Fairness == WF_vars(Poll) /\ WF_vars(Tick) /\ \A c \in Conns : WF_vars(Destroy(c))

FairSpec == Spec /\ Fairness

----------------------------------------------------------------------------
(* Properties.                                                             *)

\* The two halves of a subscription agree: a connection's subs and the
\* record sets' channels are the same relation, between connections that
\* exist and record sets that are allocated.  add_subs, remove_subs, the
\* destructor and suppressrecordset each maintain it from a different side.
SubscriptionsAgree ==
    /\ \A c \in Conns, p \in Ptr : p \in subs[c] <=> c \in rs[p].channels
    /\ \A c \in Conns : subs[c] # {} => conn[c] = "open"
    /\ \A c \in Conns : subs[c] \subseteq Allocated

\* The registry owns the heap: every allocated record set is reachable under
\* its own name and under no other, and no name leads to a freed one.
RegistryOwnsHeap ==
    /\ \A n \in Registered : rs[mrecordsets[n]].name = n
    /\ \A p \in Allocated : mrecordsets[rs[p].name] = p

\* The schedule, and the list of entries the measuring loop is about to
\* erase, hold no address of a deleted record set, and the loop erases no
\* more than there is.
ScheduleLive ==
    \A p \in Ptr, s \in Slots :
        /\ lmi[p][s] <= schedule[p][s]
        /\ schedule[p][s] > 0 => p \in Allocated
        /\ ~polling => lmi[p][s] = 0

\* measure only inserts and the loop only erases afterwards: a visit, and a
\* whole poll, leave each record set with as many entries as it had.
PollRearmsOnce ==
    [][polling \/ polling' => \A p \in Ptr : Outstanding(p)' = Outstanding(p)]_vars

\* The service as module ProbeService sees it, from the connections' half of
\* the bookkeeping.
Clients       == {c \in Conns : conn[c] = "open"}
SubscribersOf == [n \in Names |->
                    {c \in Conns : n \in Registered /\ mrecordsets[n] \in subs[c]}]
CyclesOf      == [n \in Names |->
                    IF n \in Registered THEN Outstanding(mrecordsets[n]) ELSE 0]
Service == INSTANCE ProbeService WITH
    up <- proc = "up", clients <- Clients, sets <- Registered,
    subscribers <- SubscribersOf, cycles <- CyclesOf, delivered <- lines

\* The daemon keeps the promise of ProbeService: each line goes to exactly
\* the connections that subscribed and did not unsubscribe or leave, a
\* re-created set inherits nothing, and the measuring loop runs one cycle
\* per activation (RecordSet::channels and the schedule implement
\* CollectedConn::subs and the activations).
ImplementsService == Service!Spec

\* A record set that stays activated is measured again and again, however
\* late the loop is and whatever the clients do.
Measured(p) == \E s \in Slots : PollVisit(p, s)
MeasuredForever ==
    \A p \in Ptr :
        []<>(Outstanding(p) = 0 \/ proc # "up") \/ []<><<Measured(p)>>_vars

\* "intended to be as light and robust as possible" (qigong.8:26): whatever
\* commands the clients send, the daemon runs until it is turned off.
StaysUp == proc \in {"up", "off"}
=============================================================================
