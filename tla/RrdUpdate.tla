------------------------------ MODULE RrdUpdate ------------------------------
(***************************************************************************)
(* From a measure to the archive: the lines a probe sends for one record   *)
(* set, and what CollectingConn::lineread does with them                   *)
(* (qicollect.cpp:92-186), when the probe's clock is not the collector's,  *)
(* lines take their time, and what is measured cannot be read.  The values *)
(* of a line are module DataLine's.                                        *)
(*                                                                         *)
(* Every time is relative to the collector's clock, as in Qigong: a tick   *)
(* makes each of them one older, and what is older than any record that    *)
(* may still arrive is held at Old.  A set without an entry in             *)
(* rrdlastupdate has the value Old: every record passes either.            *)
(***************************************************************************)
EXTENDS Integers, Sequences, SequencesExt, DataLine

CONSTANTS
    Future,      \* 30s, in ticks: a record further ahead is given the present time
    WeirdLimit,  \* 15 errors of librrd without errno
    MaxOff,      \* bound: the probe's clock is at most that far off
    MaxDelay,    \* bound: ticks a line is under way
    MaxQueue,    \* bound: lines under way
    Offsets,     \* what the probe's clock may be off by at the start
    Archives,    \* the archive's last update at the start
    Jumps,       \* amounts the probe's clock may be set by
    Lmps,        \* lists of measure points a set may have, see DataLine
    Sources,     \* what may become unreadable
    MaxUpsets    \* bound: clock settings, signals, changes of a source

ASSUME RrdAssumption ==
    /\ Future \in Nat /\ MaxOff \in Nat /\ MaxDelay \in Nat /\ MaxQueue \in Nat
    /\ WeirdLimit \in Nat \ {0} /\ MaxUpsets \in Nat
    /\ Jumps \subseteq Int
    /\ Offsets \subseteq (-MaxOff)..MaxOff
    /\ Archives \subseteq (-(MaxOff + MaxDelay + 1))..0

\* lmp is a list, and so are the variables of memcached and mysqlgstatus.
IsList(s) == Len(s) \in Nat /\ s = [i \in 1..Len(s) |-> s[i]]
ASSUME LmpsAssumption ==
    \A l \in Lmps :
        /\ IsList(l)
        /\ \A i \in DOMAIN l : l[i].fn \in {"memcached", "mysqlgstatus"} => IsList(l[i].keys)

VARIABLES
    lmp,            \* the measure points of the set
    offset,         \* the probe's clock minus the collector's
    failing,        \* the sources that cannot be read
    rx,             \* data lines under way: timestamp, age, what failed
    rrdlastupdate,  \* CollectingConn::rrdlastupdate of the set
    last_up,        \* the last update librrd accepted, or the archive's creation
    nbweirderrors,
    collector,      \* "up", "signalled" (SIGUSR1 pending), "down" (before execvp)
    outcome,        \* the last step: "recorded", "dropped", "refused" by librrd
                    \* as too old, or "malformed" for it
    steady,         \* history: the clock has been ahead by 0 to Future, never set back
    upsets

memory == <<rrdlastupdate, nbweirderrors, collector>>
vars   == <<lmp, offset, failing, rx, memory, last_up, outcome, steady, upsets>>

Old     == -(MaxOff + MaxDelay + 1)
Stamps  == Old..(MaxOff + Future)
Line    == [stamp : Stamps, age : 0..MaxDelay, failing : SUBSET Sources]
Outcome == {"none", "recorded", "dropped", "refused", "malformed"}

TypeOK ==
    /\ offset \in (-MaxOff)..MaxOff
    /\ rx \in Seq(Line)
    /\ Len(rx) <= MaxQueue
    /\ rrdlastupdate \in Stamps /\ last_up \in Stamps
    /\ nbweirderrors \in 0..(WeirdLimit + MaxQueue)
    /\ nbweirderrors >= WeirdLimit => collector # "up"
    /\ collector \in {"up", "signalled", "down"}
    /\ lmp \in Lmps
    /\ failing \subseteq Sources
    /\ outcome \in Outcome
    /\ steady \in BOOLEAN
    /\ upsets \in 0..MaxUpsets

\* The archive exists from an earlier life (Old, or some time ago), or
\* buildmissing_rrd creates it (0), with the columns of the set.
Init ==
    /\ offset \in Offsets
    /\ rx = <<>>
    /\ rrdlastupdate = Old
    /\ last_up \in Archives
    /\ nbweirderrors = 0
    /\ collector = "up"
    /\ lmp \in Lmps /\ failing = {}
    /\ outcome = "none"
    /\ steady = (offset \in 0..Future /\ last_up = Old)
    /\ upsets = 0

----------------------------------------------------------------------------
\* RecordSet::measure stamps a line with the probe's present time; a loop
\* that catches up sends several lines of one second.
Measure ==
    /\ collector = "up"
    /\ Len(rx) < MaxQueue
    /\ rx' = Append(rx, [stamp |-> offset, age |-> 0, failing |-> failing])
    /\ outcome' = "none"
    /\ UNCHANGED <<lmp, offset, failing, memory, last_up, steady, upsets>>

Uncorrected(stamp) == stamp  \* mutant: no correction
\* "received timestamps from the future (corrected)"
Corrected(stamp) == IF stamp > Future THEN 0 ELSE stamp

EqualPasses(trecord) == trecord >= rrdlastupdate  \* mutant: == not looked at
AlwaysLate(trecord)  == trecord > trecord  \* mutant: the entry is updated first
MustRecord(trecord)  == trecord > rrdlastupdate

\* mutant: one error more before the restart
WeirdErrorOneMore ==
    /\ nbweirderrors' = nbweirderrors + 1
    /\ collector' = IF nbweirderrors = WeirdLimit THEN "signalled" ELSE collector
\* An error of librrd leaves errno at zero, or not.
WeirdError ==
    \/ /\ nbweirderrors' = nbweirderrors + 1
       /\ collector' = IF nbweirderrors + 1 = WeirdLimit THEN "signalled" ELSE collector
    \/ UNCHANGED <<nbweirderrors, collector>>

\* librrd takes a line that fits the archive and is later than its last
\* update.  What it makes of an odd value is left open.
RrdUpdate(trecord, values) ==
    LET fits == Fits(values, Columns(lmp)) IN
    \/ /\ fits /\ trecord > last_up
       /\ last_up' = trecord
       /\ outcome' = "recorded"
       /\ UNCHANGED <<nbweirderrors, collector>>
    \/ /\ outcome' \in (IF fits /\ WellFormed(values) THEN {} ELSE {"malformed"})
                      \cup (IF trecord <= last_up THEN {"refused"} ELSE {})
       /\ UNCHANGED last_up
       /\ WeirdError

\* The data branch of lineread.
LineRead ==
    /\ collector # "down"
    /\ rx # <<>>
    /\ rx' = Tail(rx)
    /\ LET trecord == Corrected(Head(rx).stamp) IN
         /\ rrdlastupdate' = trecord
         /\ \/ /\ MustRecord(trecord)
               /\ RrdUpdate(trecord, Values(lmp, Head(rx).failing))
            \/ /\ ~MustRecord(trecord)
               /\ outcome' = "dropped"
               /\ UNCHANGED <<last_up, nbweirderrors, collector>>
    /\ UNCHANGED <<lmp, offset, failing, steady, upsets>>

----------------------------------------------------------------------------
\* treat_signal ends the select loop: the connections are closed.
TreatSignal ==
    /\ collector = "signalled"
    /\ collector' = "down"
    /\ rx' = <<>>
    /\ outcome' = "none"
    /\ UNCHANGED <<lmp, offset, failing, rrdlastupdate, nbweirderrors, last_up, steady, upsets>>

Older(t) == IF t > Old THEN t - 1 ELSE Old

\* A tick of time.
Elapse ==
    /\ \A i \in 1..Len(rx) : rx[i].age < MaxDelay
    /\ rx' = [i \in 1..Len(rx) |->
                 [rx[i] EXCEPT !.stamp = Older(@), !.age = @ + 1]]
    /\ last_up' = Older(last_up)
    /\ outcome' = "none"
    /\ UNCHANGED <<lmp, offset, failing, steady>>

Tick ==
    /\ Elapse
    /\ rrdlastupdate' = Older(rrdlastupdate)
    /\ UNCHANGED <<nbweirderrors, collector, upsets>>

\* sleep, execvp: a new process, with nothing of the old one's memory.
Relaunch ==
    /\ collector = "down"
    /\ Elapse
    /\ collector' = "up"
    /\ rrdlastupdate' = Old
    /\ nbweirderrors' = 0
    /\ UNCHANGED upsets

\* The probe's clock is set.
ProbeClock(d) ==
    /\ upsets < MaxUpsets /\ upsets' = upsets + 1
    /\ offset + d \in (-MaxOff)..MaxOff
    /\ offset' = offset + d
    /\ steady' = (steady /\ d >= 0 /\ offset' <= Future)
    /\ outcome' = "none"
    /\ UNCHANGED <<lmp, failing, rx, memory, last_up>>

\* A source of the set cannot be read any more, or again.
Source(s) ==
    /\ \E i \in DOMAIN lmp : s \in SourcesOf(lmp[i])
    /\ upsets < MaxUpsets /\ upsets' = upsets + 1
    /\ failing' = IF s \in failing THEN failing \ {s} ELSE failing \cup {s}
    /\ outcome' = "none"
    /\ UNCHANGED <<lmp, offset, rx, memory, last_up, steady>>

\* An operator sends SIGUSR1.
Signal ==
    /\ upsets < MaxUpsets /\ upsets' = upsets + 1
    /\ collector = "up"
    /\ collector' = "signalled"
    /\ outcome' = "none"
    /\ UNCHANGED <<lmp, offset, failing, rx, rrdlastupdate, nbweirderrors, last_up, steady>>

Next ==
    \/ Measure \/ LineRead \/ TreatSignal \/ Relaunch
    \/ Tick \/ Signal \/ \E d \in Jumps : ProbeClock(d)
    \/ \E s \in Sources : Source(s)

Spec == Init /\ [][Next]_vars

\* The set is measured, its lines are read, time passes, a signal is treated.
FairSpec ==
    /\ Spec
    /\ WF_vars(Measure) /\ WF_vars(LineRead) /\ WF_vars(Tick)
    /\ WF_vars(TreatSignal) /\ WF_vars(Relaunch)

----------------------------------------------------------------------------
(* Properties.                                                             *)

\* However far ahead the probe's clock was set, and for however long, the
\* archive is never locked for longer than the tolerated lead: no record
\* that librrd accepted lies further in the future.
NeverLockedLong == last_up <= Future

\* "we prevent a rrd feature/bug that completely put the librrd out of
\* order" (qicollect.cpp:147,151): as long as the probe's clock is ahead by
\* no more than the tolerated lead and is never set back, librrd is never
\* handed a timestamp that is not later than the last one it accepted,
\* through delays, bursts and restarts.
NeverBackwards == steady => outcome # "refused"

\* Nothing in a data line says which column a value is for: whatever cannot
\* be read, each value that librrd accepts is for the column it is put into.
InItsColumn ==
    [][LineRead /\ outcome' = "recorded" =>
         LET values == Values(lmp, Head(rx).failing)
         IN  \A i \in DOMAIN values : values[i].of = Columns(lmp)[i]]_vars

\* Clock settings, refused records and the restarts they cause all pass:
\* measures are recorded again and again, unless the lines of the set have
\* come not to fit its archive.
Sound == Fits(Values(lmp, failing), Columns(lmp)) /\ WellFormed(Values(lmp, failing))
RecordsAgain == <>[]Sound => []<><<LineRead /\ outcome' = "recorded">>_vars

\* A line has as many values as the measure points of its set announce
\* (get_nbpoints, "the number of measure reported", qimeasure.h:86), whatever
\* cannot be read, with one exception: the memory's when /proc/meminfo cannot
\* be opened.
ReportsNbpoints ==
    \A i \in DOMAIN rx :
        LET exception(p) == p.fn = "meminfo" /\ p.src \in rx[i].failing
        IN  (\A j \in DOMAIN lmp : ~exception(lmp[j])) =>
              Fits(Values(lmp, rx[i].failing), Columns(lmp))
=============================================================================
