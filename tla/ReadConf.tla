------------------------------ MODULE ReadConf ------------------------------
(***************************************************************************)
(* The collector's configuration: ReadConf::readconf (qicollect.cpp:602)   *)
(* reads the file word by word in the states of RCState, CollectionsConf   *)
(* takes the collection sets; buildmissing_rrd creates the archives there  *)
(* are not, startnpoll gives each set its connection.                      *)
(*                                                                         *)
(* A word is of the kind a state looks for, with the value that matters,   *)
(* or wrong; the characters of the file are abstracted.  An identifier is  *)
(* a sequence of its parts, for joining them with '_' is not injective.    *)
(***************************************************************************)
EXTENDS Naturals, Sequences, FiniteSets, FiniteSetsExt

CONSTANTS
    Serverkeys, Hosts, Names,  \* identifiers, sequences of parts
    Fqdns, Ports,              \* of connections, the default port included
    Intervals, Durations,      \* in seconds
    Nothing,                   \* NULL
    MaxSets, MaxFreqs, MaxTags \* bounds: sets, frequencies and tags of a set

ASSUME ReadConfAssumption ==
    /\ Intervals \subseteq Nat \ {0} /\ Durations \subseteq Nat \ {0}
    /\ <<>> \notin Hosts  \* getidentifier found something
    /\ MaxSets \in Nat /\ MaxFreqs \in Nat /\ MaxTags \in Nat

VARIABLES
    state,      \* ReadConf::state, or "accepted", "rejected" (main returns -1)
    serverkey, metaname,
    curcs_name,
    freq,       \* interval and duration of the frequency being read
    pcurcs,     \* the set in creation
    mpcs,       \* CollectionsConf::mpcs: the sets by their fullkey
    rrd,        \* the archives there are, by key: step and RRAs
    examined,   \* sets buildmissing_rrd has looked at
    mpcc,       \* the connections: the sets assigned to each
    pcc,        \* the connection each set is bound to
    ended       \* history: sets whose definition was read to its end

words == <<serverkey, metaname, curcs_name, freq>>
run   == <<rrd, examined, mpcc, pcc>>
built == <<mpcs, run, ended>>
vars  == <<state, words, pcurcs, built>>

RCState == {"seekdeclare", "seekhostname", "seekserverkey", "seekhostbegin",
            "seekcollect", "seekcollectname", "seekconnection", "seekcolentry",
            "seekrddtabledef", "seekmultiplier", "seekrddtable2nd", "seekrddenpar",
            "seektagorend", "seektagname", "seekequal", "seekcollectfn", "seekendparam"}

CollectionSet ==
    [serverkey : Serverkeys \cup {<<>>}, metaname : Hosts, name : Names,
     fp : Fqdns \X Ports, lfreq : SUBSET (Intervals \X Durations),
     lptagmp : 0..MaxTags, base_interval : Intervals \cup {0}]

ASSUME NothingAssumption == Nothing \notin CollectionSet

\* The name of the round-robin archive.
Key(s)     == s.metaname \o s.name
Fullkey(s) == s.serverkey \o Key(s)

TypeOK ==
    /\ state \in RCState \cup {"accepted", "rejected"}
    /\ serverkey \in Serverkeys \cup {<<>>}
    /\ metaname \in Hosts \cup {<<>>}
    /\ freq \in {<<>>} \cup (Intervals \X {0}) \cup (Intervals \X Durations)
    /\ curcs_name \in Names \cup {<<>>}
    /\ pcurcs \in CollectionSet \cup {Nothing}
    /\ ended \in 0..MaxSets
    /\ \A k \in DOMAIN mpcs : mpcs[k] \in CollectionSet /\ Fullkey(mpcs[k]) = k
    /\ state \in {"seekcolentry", "seekrddtabledef", "seekmultiplier", "seekrddtable2nd",
                  "seekrddenpar", "seektagorend", "seektagname", "seekequal",
                  "seekcollectfn", "seekendparam"} <=> pcurcs # Nothing
    /\ metaname = <<>> =>
         state \in {"seekdeclare", "seekserverkey", "seekhostname", "accepted", "rejected"}

Init ==
    /\ state = "seekdeclare"
    /\ serverkey = <<>> /\ metaname = <<>> /\ curcs_name = <<>>
    /\ freq = <<>>
    /\ pcurcs = Nothing
    /\ mpcs = <<>>
    /\ rrd = <<>> /\ examined = {}
    /\ mpcc = <<>> /\ pcc = <<>>
    /\ ended = 0

----------------------------------------------------------------------------
(* One action per state of readconf.                                       *)

Goes(from, to) == state = from /\ state' = to

Declare ==
    /\ Goes("seekdeclare", "seekhostname") \/ Goes("seekdeclare", "seekserverkey")
    /\ Cardinality(DOMAIN mpcs) < MaxSets
    /\ UNCHANGED <<words, pcurcs, built>>

Serverkey(id) ==
    /\ Goes("seekserverkey", "seekdeclare")
    /\ serverkey' = id
    /\ UNCHANGED <<metaname, curcs_name, freq, pcurcs, built>>

Hostname(id) ==
    /\ Goes("seekhostname", "seekhostbegin")
    /\ metaname' = id
    /\ UNCHANGED <<serverkey, curcs_name, freq, pcurcs, built>>

\* '{', then "collect".
HostBegin ==
    /\ Goes("seekhostbegin", "seekcollect") \/ Goes("seekcollect", "seekcollectname")
    /\ UNCHANGED <<words, pcurcs, built>>

Collectname(id) ==
    /\ Goes("seekcollectname", "seekconnection")
    /\ curcs_name' = id
    /\ UNCHANGED <<serverkey, metaname, freq, pcurcs, built>>

Connection(fqdn, port) ==
    /\ Goes("seekconnection", "seekcolentry")
    /\ pcurcs' = [serverkey |-> serverkey, metaname |-> metaname, name |-> curcs_name,
                  fp |-> <<fqdn, port>>, lfreq |-> {}, lptagmp |-> 0, base_interval |-> 0]
    /\ UNCHANGED <<words, built>>

\* '(' begins a frequency, anything else is left to seektagname.
ColEntry ==
    /\ \/ Goes("seekcolentry", "seekrddtabledef") /\ Cardinality(pcurcs.lfreq) < MaxFreqs
       \/ Goes("seekcolentry", "seektagname")
       \/ Goes("seekmultiplier", "seekrddtable2nd")
    /\ UNCHANGED <<words, pcurcs, built>>

Interval(v) ==
    /\ Goes("seekrddtabledef", "seekmultiplier")
    /\ freq' = <<v, 0>>
    /\ UNCHANGED <<serverkey, metaname, curcs_name, pcurcs, built>>

Duration(v) ==
    /\ Goes("seekrddtable2nd", "seekrddenpar")
    /\ freq' = <<freq[1], v>>
    /\ UNCHANGED <<serverkey, metaname, curcs_name, pcurcs, built>>

EndPar ==
    /\ Goes("seekrddenpar", "seekcolentry")
    /\ pcurcs' = [pcurcs EXCEPT !.lfreq = @ \cup {freq}]
    /\ UNCHANGED <<words, built>>

Tagname ==
    /\ Goes("seektagname", "seekequal")
    /\ pcurcs.lptagmp < MaxTags
    /\ UNCHANGED <<words, pcurcs, built>>

Equal ==
    /\ Goes("seekequal", "seekcollectfn")
    /\ UNCHANGED <<words, pcurcs, built>>

PushPoint == pcurcs' = [pcurcs EXCEPT !.lptagmp = @ + 1]

\* A function mmpcreators knows, with or without parameters.
CollectFn ==
    /\ \/ Goes("seekcollectfn", "seekendparam") /\ UNCHANGED pcurcs
       \/ Goes("seekcollectfn", "seektagorend") /\ PushPoint
    /\ UNCHANGED <<words, built>>

EndParam ==
    /\ Goes("seekendparam", "seektagorend")
    /\ PushPoint
    /\ UNCHANGED <<words, built>>

TagOrEnd ==
    /\ Goes("seektagorend", "seektagname")
    /\ UNCHANGED <<words, pcurcs, built>>

----------------------------------------------------------------------------
(* The end of a set.                                                       *)

\* What base_interval may become: the smallest interval.  The head of an
\* empty list is no interval at all.
BaseInterval(lfreq) ==
    IF lfreq = {} THEN Intervals \cup {0} ELSE {Min({f[1] : f \in lfreq})}

\* validate_freqs finds nothing to round.
Validate(lfreq, base) == \A f \in lfreq : f[1] % base = 0

\* mutant: a set takes the place of another one of its fullkey
PushBackReplaces(s) ==
    mpcs' = [k \in DOMAIN mpcs \cup {Fullkey(s)} |-> IF k = Fullkey(s) THEN s ELSE mpcs[k]]
\* CollectionsConf::push_back, when it is true.
PushBack(s) ==
    /\ Fullkey(s) \notin DOMAIN mpcs
    /\ mpcs' = [k \in DOMAIN mpcs \cup {Fullkey(s)} |-> IF k = Fullkey(s) THEN s ELSE mpcs[k]]

\* mutant: the temporary set is not forgotten
EndSetKeeps ==
    /\ Goes("seektagorend", "seekdeclare")
    /\ \E base \in BaseInterval(pcurcs.lfreq) :
         /\ Validate(pcurcs.lfreq, base)
         /\ PushBack([pcurcs EXCEPT !.base_interval = base])
    /\ metaname' = <<>>
    /\ ended' = ended + 1
    /\ UNCHANGED <<serverkey, curcs_name, freq, pcurcs, run>>
\* '}' ends the host with the set, "collect" begins the next one of the host.
EndSet ==
    /\ \/ Goes("seektagorend", "seekdeclare") /\ metaname' = <<>>
       \/ /\ Goes("seektagname", "seekcollectname") /\ UNCHANGED metaname
          /\ Cardinality(DOMAIN mpcs) + 1 < MaxSets
    /\ \E base \in BaseInterval(pcurcs.lfreq) :
         /\ Validate(pcurcs.lfreq, base)
         /\ PushBack([pcurcs EXCEPT !.base_interval = base])
    /\ pcurcs' = Nothing
    /\ ended' = ended + 1
    /\ UNCHANGED <<serverkey, curcs_name, freq, run>>

\* A word the state does not look for, frequencies that would be rounded, a
\* set that is registered already, the end of the file too early.
Reject ==
    /\ state \in RCState
    /\ state' = "rejected"
    /\ pcurcs' = Nothing
    /\ UNCHANGED <<words, built>>

EndOfFile ==
    /\ Goes("seekdeclare", "accepted")
    /\ UNCHANGED <<words, pcurcs, built>>

----------------------------------------------------------------------------
\* mutant: as many steps as the interval has seconds
RraUnscaled(f, base) == [steps |-> f[1], rows |-> f[2] \div f[1]]
\* A round-robin archive: base intervals a row consolidates, number of rows.
Rra(f, base) == [steps |-> f[1] \div base, rows |-> f[2] \div f[1]]

Archive(s) == [step |-> s.base_interval, rra |-> {Rra(f, s.base_interval) : f \in s.lfreq}]

\* buildmissing_rrd, for each set before any is bound.  librrd creates no
\* archive without an RRA, and may fail otherwise.
BuildMissing(k) ==
    /\ state = "accepted"
    /\ k \in DOMAIN mpcs \ examined
    /\ examined' = examined \cup {k}
    /\ LET key == Key(mpcs[k]) IN
         \/ UNCHANGED rrd
         \/ /\ key \notin DOMAIN rrd /\ mpcs[k].lfreq # {}
            /\ rrd' = [j \in DOMAIN rrd \cup {key} |->
                         IF j = key THEN Archive(mpcs[k]) ELSE rrd[j]]
    /\ UNCHANGED <<state, words, pcurcs, mpcs, mpcc, pcc, ended>>

\* mutant: any connection to the host does
HostOnly(fp) == {c \in DOMAIN mpcc : c[1] = fp[1]}
\* startnpoll: the connection there is already for that fqdn and port.
Found(fp) == DOMAIN mpcc \cap {fp}

\* One turn of startnpoll's loop.
Bind(k) ==
    /\ state = "accepted"
    /\ examined = DOMAIN mpcs
    /\ k \in DOMAIN mpcs \ DOMAIN pcc
    /\ LET fp == mpcs[k].fp
           to == IF Found(fp) = {} THEN fp ELSE CHOOSE c \in Found(fp) : TRUE
       IN  /\ mpcc' = [c \in DOMAIN mpcc \cup {to} |->
                         IF c # to THEN mpcc[c]
                         ELSE {k} \cup IF c \in DOMAIN mpcc THEN mpcc[c] ELSE {}]
           /\ pcc' = [j \in DOMAIN pcc \cup {k} |-> IF j = k THEN to ELSE pcc[j]]
    /\ UNCHANGED <<state, words, pcurcs, mpcs, rrd, examined, ended>>

Next ==
    \/ Declare \/ HostBegin \/ ColEntry \/ EndPar \/ Tagname \/ Equal
    \/ CollectFn \/ EndParam \/ TagOrEnd \/ EndSet \/ Reject \/ EndOfFile
    \/ \E id \in Serverkeys : Serverkey(id)
    \/ \E id \in Hosts : Hostname(id)
    \/ \E id \in Names : Collectname(id)
    \/ \E fqdn \in Fqdns, port \in Ports : Connection(fqdn, port)
    \/ \E v \in Intervals : Interval(v)
    \/ \E v \in Durations : Duration(v)
    \/ \E k \in DOMAIN mpcs : BuildMissing(k) \/ Bind(k)

Spec == Init /\ [][Next]_vars

----------------------------------------------------------------------------
(* Properties.                                                             *)

\* No set of an accepted file is lost, though names joined by '_' may be the
\* same: two sets with one fullkey are refused, and two sets with one archive
\* are told apart by their serverkey.
NoSetLost ==
    /\ state # "rejected" => Cardinality(DOMAIN mpcs) = ended
    /\ \A j, k \in DOMAIN mpcs :
         Key(mpcs[j]) = Key(mpcs[k]) /\ j # k => mpcs[j].serverkey # mpcs[k].serverkey

\* The archive there is for a set that shares its key with no other.
HasArchive(k) ==
    /\ Key(mpcs[k]) \in DOMAIN rrd
    /\ \A j \in DOMAIN mpcs : Key(mpcs[j]) = Key(mpcs[k]) => j = k

\* Some round-robin archive has rows as wide as f's interval, which reach
\* back for reach.
Keeps(archive, f, reach) ==
    \E a \in archive.rra : LET width == a.steps * archive.step
                           IN  width = f[1] /\ a.rows * width = reach

\* The archive of a set keeps each frequency that needs no rounding as the
\* file asks for it: rows exactly as wide as the interval, that reach back
\* exactly as far as the duration, though widths are counted in steps of the
\* smallest interval and rows in widths.
ArchiveHolds ==
    \A k \in DOMAIN mpcs : HasArchive(k) =>
        \A f \in mpcs[k].lfreq : f[2] % f[1] = 0 => Keeps(rrd[Key(mpcs[k])], f, f[2])

\* "isn't a multiple of interval [...] It will be rounded to
\* (1+duration/rounded)*interval" (validate_freqs, qicollect.cpp:468-471):
\* upwards, so that the archive reaches back as far as the file asks for.
RoundedUp ==
    \A k \in DOMAIN mpcs : HasArchive(k) =>
        \A f \in mpcs[k].lfreq : f[2] % f[1] # 0 =>
            Keeps(rrd[Key(mpcs[k])], f, (1 + f[2] \div f[1]) * f[1])

\* A set is served by the connection to its own host and port, there is one
\* connection for each, and it serves what is bound to it and nothing else.
BoundToItsHost ==
    /\ \A k \in DOMAIN pcc : pcc[k] = mpcs[k].fp
    /\ \A c \in DOMAIN mpcc : mpcc[c] = {k \in DOMAIN pcc : pcc[k] = c}
=============================================================================
