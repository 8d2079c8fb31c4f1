------------------------------ MODULE QiSystem ------------------------------
(***************************************************************************)
(* Collectors and one probe, joined by the lines they send each other: the *)
(* collector's side is module Collect, the probe's side what module Qigong *)
(* answers to the commands a collector sends (ProbeBooks, with replies).   *)
(*                                                                         *)
(* Connections may close, vanish without a word, or leave commands behind  *)
(* that the probe still reads after the collector has connected again; the *)
(* probe may stop and be started again.                                    *)
(* A packet is read with its terminator: the empty line that a read which  *)
(* ends inside of it adds (CryptHandshake) gets nothing but a prompt from  *)
(* the probe (qigong.cpp:239), and is one of the lines of Collect.         *)
(***************************************************************************)
EXTENDS Collect

CONSTANTS
    Refused,       \* sets the probe cannot create (it knows none of their measures)
    QuietLoss,     \* collector states in which a connection may vanish without a word
    MaxStale,      \* bound: commands of lost connections the probe still reads
    MaxFaults,     \* bound: losses, crashes, commands left behind by a give-up
    MaxRx,         \* bound: no data line is sent to a collector this far behind
    Synchronous    \* lines and closes take less than a tick

ASSUME SystemAssumption ==
    /\ Refused \subseteq Sets
    /\ QuietLoss \subseteq ConnStat
    /\ MaxStale \in Nat /\ MaxFaults \in Nat /\ MaxRx \in Nat
    /\ Synchronous \in BOOLEAN

\* No two collectors of the probe have a set of the same fullkey: they would
\* delete each other's record sets.
ASSUME SetsApart == \A j, k \in Collectors : j # k => Mpcs[j] \cap Mpcs[k] = {}

VARIABLES
    up,           \* the probe runs
    server,       \* the probe's side of each connection
    wire,         \* "up", "eof" (the collector will read 0), "gone" (it never will)
    rx,           \* lines on their way to each collector
    stale,        \* commands of lost connections the probe has yet to read
    records,      \* the record sets of the probe (mrecordsets)
    subscribers,  \* record set -> collectors subscribed on their present connection
    cycles,       \* record set -> its entries in the schedule
    due,          \* record sets to be measured before the next tick
    prompt,       \* the probe's global prompt is not empty
    late,         \* history: sets a command of a lost connection reached after
                  \* the last delete of a present one
    faults

probe   == <<records, subscribers, cycles, due, prompt>>
network == <<server, wire, rx, stale, late>>
sysVars == <<collectVars, probe, network, up, faults>>

SystemTypeOK ==
    /\ TypeOK
    /\ up \in BOOLEAN
    /\ server \in [Collectors -> {"none", "handshake", "open"}]
    /\ wire \in [Collectors -> {"up", "eof", "gone"}]
    /\ rx \in [Collectors -> Seq(Lines)]
    /\ stale \in Seq(Commands)
    /\ records \subseteq Sets /\ due \subseteq records
    /\ subscribers \in [Sets -> SUBSET Collectors]
    /\ cycles \in [Sets -> Nat]
    /\ prompt \in BOOLEAN
    /\ late \subseteq Sets
    /\ faults \in 0..MaxFaults

SystemInit ==
    /\ Init
    /\ up = TRUE
    /\ server = [k \in Collectors |-> "none"]
    /\ wire = [k \in Collectors |-> "eof"]
    /\ rx = [k \in Collectors |-> <<>>]
    /\ stale = <<>>
    /\ records = {} /\ due = {}
    /\ subscribers = [s \in Sets |-> {}]
    /\ cycles = [s \in Sets |-> 0]
    /\ prompt = TRUE
    /\ late = {}
    /\ faults = 0

----------------------------------------------------------------------------
(* The probe obeys one command (CollectedConn::lineread).                  *)

Deliver(S) ==  \* the data lines of the sets in S
    [j \in Collectors |-> IF \E s \in S : j \in subscribers[s] THEN Append(rx[j], "-->") ELSE rx[j]]

\* The lines that tell a collector something; the others break no more than
\* its silence.
Reply(m) ==
    CASE m.cmd = "qiging"   -> <<"other", "qigong.">>
      [] m.cmd = "delete"   -> <<"delete:">>
      [] m.cmd = "create"   -> IF m.set \in records \cup Refused THEN <<"other">>
                                                                 ELSE <<"creation done.">>
      [] m.cmd = "activate" -> <<"activate:">>
      [] m.cmd = "sub"      -> IF m.set \in records THEN <<"subscribed">> ELSE <<"other">>
      [] m.cmd = "qiging1"  -> <<"other">>
      [] m.cmd = "eos"      -> <<>>

\* An answer ends with the prompt; without one, flush still sends a line.
WithPrompt(reply) ==
    reply \o IF prompt' THEN <<"qigong[">> ELSE IF reply = <<>> THEN <<"other">> ELSE <<>>

\* mutant: a deleted set stays in the schedule
ObeyKeepsDue(K, m) ==
    \/ /\ m.cmd = "delete"
       /\ records' = records \ {m.set}
       /\ subscribers' = [subscribers EXCEPT ![m.set] = {}]
       /\ cycles' = [cycles EXCEPT ![m.set] = 0]
       /\ UNCHANGED <<due, prompt>>
    \/ /\ m.cmd = "create"
       /\ records' = records \cup ({m.set} \ Refused)
       /\ UNCHANGED <<subscribers, cycles, due, prompt>>
    \/ /\ m.cmd = "activate"
       /\ cycles' = [cycles EXCEPT ![m.set] = IF m.set \in records THEN @ + 1 ELSE @]
       /\ UNCHANGED <<records, subscribers, due, prompt>>
    \/ /\ m.cmd = "sub"
       /\ subscribers' = [subscribers EXCEPT ![m.set] =
                            IF m.set \in records THEN @ \cup K ELSE @]
       /\ UNCHANGED <<records, cycles, due, prompt>>
    \/ /\ m.cmd = "qiging"
       /\ prompt' = FALSE
       /\ UNCHANGED <<records, subscribers, cycles, due>>
    \/ /\ m.cmd \in {"qiging1", "eos"}
       /\ UNCHANGED probe

\* Its effect; K is the collector whose present connection sent it, if any.
Obey(K, m) ==
    \/ /\ m.cmd = "delete"
       /\ records' = records \ {m.set}
       /\ due' = due \ {m.set}
       /\ subscribers' = [subscribers EXCEPT ![m.set] = {}]
       /\ cycles' = [cycles EXCEPT ![m.set] = 0]
       /\ UNCHANGED prompt
    \/ /\ m.cmd = "create"
       /\ records' = records \cup ({m.set} \ Refused)
       /\ UNCHANGED <<subscribers, cycles, due, prompt>>
    \/ /\ m.cmd = "activate"
       /\ cycles' = [cycles EXCEPT ![m.set] = IF m.set \in records THEN @ + 1 ELSE @]
       /\ UNCHANGED <<records, subscribers, due, prompt>>
    \/ /\ m.cmd = "sub"
       /\ subscribers' = [subscribers EXCEPT ![m.set] =
                            IF m.set \in records THEN @ \cup K ELSE @]
       /\ UNCHANGED <<records, cycles, due, prompt>>
    \/ /\ m.cmd = "qiging"
       /\ prompt' = FALSE
       /\ UNCHANGED <<records, subscribers, cycles, due>>
    \/ /\ m.cmd \in {"qiging1", "eos"}
       /\ UNCHANGED probe

\* "activate" measures at once.
Measures(m) == IF m.cmd = "activate" THEN {m.set} ELSE {}

ProbeReads(k) ==
    /\ server[k] = "open"
    /\ PeerReads(k)
    /\ Obey({k}, Head(tx[k]))
    /\ rx' = [Deliver(Measures(Head(tx[k]))) EXCEPT
                ![k] = @ \o WithPrompt(Reply(Head(tx[k])))]
    /\ late' = IF Head(tx[k]).cmd = "delete" THEN late \ {Head(tx[k]).set} ELSE late
    /\ UNCHANGED <<server, wire, stale, up, faults>>

ProbeReadsStale ==
    /\ stale # <<>>
    /\ stale' = Tail(stale)
    /\ late' = late \cup ({Head(stale).set} \ {NoSet})
    /\ Obey({}, Head(stale))
    /\ rx' = Deliver(Measures(Head(stale)))
    /\ UNCHANGED <<collectVars, server, wire, up, faults>>

\* The probe's handshake succeeds: firstprompt.
ProbeFirstPrompt(k) ==
    /\ server[k] = "handshake"
    /\ server' = [server EXCEPT ![k] = "open"]
    /\ prompt' = TRUE
    /\ rx' = [rx EXCEPT ![k] = @ \o <<"other", "other", "qigong[">>]
    /\ UNCHANGED <<collectVars, wire, stale, late, records, subscribers, cycles, due, up, faults>>

\* MeasurePool::select_poll measures a set that is due.
Measure(s) ==
    /\ s \in due
    /\ \A j \in subscribers[s] : Len(rx[j]) < MaxRx
    /\ due' = due \ {s}
    /\ rx' = Deliver({s})
    /\ UNCHANGED <<collectVars, server, wire, stale, late, records, subscribers, cycles,
                   prompt, up, faults>>

----------------------------------------------------------------------------
(* The two ends of a connection.                                           *)

\* The collector connects, or finds nobody.
Connects(k) ==
    \/ /\ state'[k] = "challenging"
       /\ up
       /\ server' = [server EXCEPT ![k] = "handshake"]
       /\ wire' = [wire EXCEPT ![k] = "up"]
    \/ /\ state'[k] = "needtoconnect"
       /\ ~up
       /\ server' = [server EXCEPT ![k] = "none"]
       /\ wire' = [wire EXCEPT ![k] = "eof"]

\* mutant: no destructor, the subscriptions of a lost connection stay
EndsSubscribed(k) ==
    /\ \E n \in 0..Len(tx[k]) :
         /\ n > 0 => server[k] = "open" /\ Len(stale) + n <= MaxStale
         /\ stale' = stale \o SubSeq(tx[k], 1, n)
    /\ UNCHANGED <<probe, late>>

\* The probe's side of a connection ends: the destructor removes its
\* subscriptions.  Some of the commands it had not read may reach it first,
\* or after a new connection.
Ends(k) ==
    /\ subscribers' = [s \in Sets |-> subscribers[s] \ {k}]
    /\ \E n \in 0..Len(tx[k]) :
         /\ n > 0 => server[k] = "open" /\ Len(stale) + n <= MaxStale
         /\ stale' = stale \o SubSeq(tx[k], 1, n)
    /\ UNCHANGED <<records, cycles, due, prompt, late>>

CollectorPolls(k) ==
    \/ /\ PollServe(k) \/ PollWake(k)
       /\ UNCHANGED <<probe, network, up, faults>>
    \/ /\ PollConnect(k)
       /\ Connects(k)
       /\ UNCHANGED <<probe, rx, stale, late, up, faults>>
    \/ /\ PollGiveUp(k)
       /\ Connects(k)
       /\ Ends(k)
       /\ rx' = [rx EXCEPT ![k] = <<>>]
       /\ faults' \in (IF stale' = stale THEN {faults} ELSE {faults + 1}) \cap 0..MaxFaults
       /\ UNCHANGED up

CollectorFirstPrompt(k) ==
    /\ wire[k] = "up"
    /\ FirstPrompt(k)
    /\ UNCHANGED <<probe, network, up, faults>>

CollectorReads(k) ==
    /\ rx[k] # <<>>
    /\ LineRead(k, Head(rx[k]))
    /\ rx' = [rx EXCEPT ![k] = Tail(@)]
    /\ UNCHANGED <<probe, server, wire, stale, late, up, faults>>

CollectorSeesEnd(k) ==
    /\ wire[k] = "eof"
    /\ rx[k] = <<>> \/ state[k] = "challenging"
    /\ PeerClosed(k)
    /\ rx' = [rx EXCEPT ![k] = <<>>]
    /\ UNCHANGED <<probe, server, wire, stale, late, up, faults>>

----------------------------------------------------------------------------
(* Faults, and time.                                                       *)

\* Of the lines under way to the collectors in K some are lost.
LosesLines(K) ==
    \E n \in [K -> UNION {0..Len(rx[k]) : k \in Collectors}] :
        /\ \A k \in K : n[k] <= Len(rx[k])
        /\ rx' = [k \in Collectors |-> IF k \in K THEN SubSeq(rx[k], 1, n[k]) ELSE rx[k]]

\* A connection closes, or vanishes without a word.
Lost(k) ==
    /\ faults < MaxFaults /\ faults' = faults + 1
    /\ wire[k] = "up"
    /\ \/ wire' = [wire EXCEPT ![k] = "eof"]
       \/ state[k] \in QuietLoss /\ wire' = [wire EXCEPT ![k] = "gone"]
    /\ server' = [server EXCEPT ![k] = "none"]
    /\ Ends(k)
    /\ LosesLines({k})
    /\ tx' = [tx EXCEPT ![k] = <<>>]
    /\ UNCHANGED <<link, work, silence, up>>

\* What is written on a lost connection goes nowhere.
Vanishes(k) ==
    /\ wire[k] # "up"
    /\ PeerReads(k)
    /\ UNCHANGED <<probe, network, up, faults>>

\* The probe stops: its memory and its connections are gone.
Crash ==
    /\ faults < MaxFaults /\ faults' = faults + 1
    /\ up
    /\ up' = FALSE
    /\ server' = [k \in Collectors |-> "none"]
    /\ wire' = [k \in Collectors |-> IF wire[k] = "up" THEN "eof" ELSE wire[k]]
    /\ stale' = <<>> /\ late' = {}
    /\ records' = {} /\ due' = {}
    /\ subscribers' = [s \in Sets |-> {}]
    /\ cycles' = [s \in Sets |-> 0]
    /\ prompt' = TRUE
    /\ LosesLines({k \in Collectors : wire[k] = "up"})
    /\ tx' = [k \in Collectors |-> IF wire[k] = "up" THEN <<>> ELSE tx[k]]
    /\ UNCHANGED <<link, work, silence>>

Start ==
    /\ ~up
    /\ up' = TRUE
    /\ UNCHANGED <<collectVars, probe, network, faults>>

\* Nothing is under way and nobody has anything left to do.
Settled ==
    /\ stale = <<>> /\ due = {}
    /\ \A k \in Collectors :
         /\ rx[k] = <<>> /\ tx[k] = <<>>
         /\ wire[k] = "up" => server[k] = "open" /\ state[k] # "challenging"
         /\ wire[k] = "eof" => state[k] = "needtoconnect" /\ hold[k]
         /\ ~Silent(k) /\ ~(state[k] = "ready" /\ pending[k])

\* Time passes: silence grows, and the intervals of some sets elapse.
SystemTick ==
    /\ Synchronous => Settled
    /\ Tick
    /\ due' \in SUBSET {s \in records : cycles[s] > 0}
    /\ UNCHANGED <<records, subscribers, cycles, prompt, network, up, faults>>

Waits(k) == DelayOver(k) /\ UNCHANGED <<probe, network, up, faults>>

\* Another client connects, or sends "qiging": the prompt is one for them all.
OtherClient ==
    /\ up
    /\ prompt' = ~prompt
    /\ UNCHANGED <<collectVars, records, subscribers, cycles, due, network, up, faults>>

----------------------------------------------------------------------------

Exchange(k) ==
    \/ CollectorPolls(k) \/ CollectorFirstPrompt(k) \/ CollectorReads(k)
    \/ CollectorSeesEnd(k) \/ Waits(k)
    \/ ProbeReads(k) \/ ProbeFirstPrompt(k) \/ Vanishes(k)

SystemNext ==
    \/ SystemTick \/ Crash \/ Start \/ ProbeReadsStale \/ OtherClient
    \/ \E s \in Sets : Measure(s)
    \/ \E k \in Collectors : Exchange(k) \/ Lost(k)

SystemSpec == SystemInit /\ [][SystemNext]_sysVars

\* Both select loops run, what was sent arrives, a stopped probe is started
\* again, a set that is due is measured, and time passes.
SystemFairSpec ==
    /\ SystemSpec
    /\ WF_sysVars(SystemTick) /\ WF_sysVars(Start) /\ WF_sysVars(ProbeReadsStale)
    /\ \A s \in Sets : WF_sysVars(Measure(s))
    /\ \A k \in Collectors :
         /\ WF_sysVars(CollectorPolls(k)) /\ WF_sysVars(CollectorFirstPrompt(k))
         /\ WF_sysVars(CollectorReads(k)) /\ WF_sysVars(CollectorSeesEnd(k))
         /\ WF_sysVars(Waits(k))
         /\ WF_sysVars(ProbeReads(k)) /\ WF_sysVars(ProbeFirstPrompt(k))
         /\ WF_sysVars(Vanishes(k))

----------------------------------------------------------------------------
(* Properties.                                                             *)

Working(k) == wire[k] = "up" /\ state[k] \in {"ready", "waiting"}

\* The two ends agree on each set, whatever interrupted earlier connections,
\* unless a command of a lost one was read after the present one's delete:
\* a set the collector takes for collected is subscribed to by its present
\* connection and measured by exactly one cycle, and one it has not created
\* yet does not exist at the probe.
EndsAgree ==
    \A k \in Collectors : Working(k) => \A s \in Mpcs[k] \ late :
        /\ cs[k][s] = "collect" => /\ s \in records
                                   /\ k \in subscribers[s]
                                   /\ cycles[s] = 1
        /\ cs[k][s] = "create_remote" /\ waiting_pcs[k] # s => s \notin records

\* The probe as module ProbeBooks sees it.
Present == {k \in Collectors : server[k] = "open"}
Books == INSTANCE ProbeBooks WITH
    Names <- Sets, Conns <- Collectors, clients <- Present, sets <- records

\* Commands are read late, after the connection that sent them is gone, lines
\* are lost, the probe stops and starts: it keeps the same books as module
\* Qigong, changes them only as a command says, one command at a time, and
\* who has left is a subscriber of nothing.
ImplementsBooks == Books!BooksSpec

\* The retries of "verify" are never used up against a probe: however the
\* prompts, the answers and other clients' "qiging" interleave, its answer
\* is read before a second line is counted.  (An empty line from a packet
\* read in two would be counted too.)
OneRetryEnough == \A k \in Collectors : nbtest[k] <= 1

\* "doit pouvoir reprendre la collection a tout moment" (manifest:20-21):
\* whatever was lost, and wherever, every set the probe can create is again
\* and again subscribed to and measured.
Collected(k) ==
    /\ Working(k)
    /\ \A s \in Mpcs[k] \ Refused : s \in records /\ k \in subscribers[s] /\ cycles[s] > 0
CollectsAgain == \A k \in Collectors : []<>Collected(k)
=============================================================================
