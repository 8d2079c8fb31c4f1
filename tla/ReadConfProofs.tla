--------------------------- MODULE ReadConfProofs ---------------------------
(***************************************************************************)
(* Proofs about ReadConf, for every set of identifiers, intervals and      *)
(* durations: the parser's temporary state is what each of its states      *)
(* expects, an accepted file loses no set, the archives hold what the file *)
(* asks for, and every set is bound to the connection of its own host.     *)
(***************************************************************************)
EXTENDS ReadConf, Integers, FiniteSetTheorems, WellFoundedInduction, TLAPS

Building == {"seekcolentry", "seekrddtabledef", "seekmultiplier", "seekrddtable2nd",
             "seekrddenpar", "seektagorend", "seektagname", "seekequal",
             "seekcollectfn", "seekendparam"}

\* What the words read so far are worth to the states that use them.
WordsRead ==
    /\ state = "seekconnection" => curcs_name \in Names
    /\ state \in {"seekmultiplier", "seekrddtable2nd"} => freq \in Intervals \X {0}
    /\ state = "seekrddenpar" => freq \in Intervals \X Durations
    /\ state \in {"seekequal", "seekcollectfn", "seekendparam"} => pcurcs.lptagmp < MaxTags

\* There are as many sets as definitions that came to their end.
Counted ==
    /\ IsFiniteSet(DOMAIN mpcs) /\ Cardinality(DOMAIN mpcs) = ended
    /\ state \notin {"seekdeclare", "accepted", "rejected"} => ended < MaxSets

\* The intervals of a registered set are multiples of its smallest.
Valid(s) == \A f \in s.lfreq : s.base_interval \in Intervals /\ f[1] % s.base_interval = 0

\* An archive is that of a set; nothing runs before the file is accepted.
Archives ==
    /\ \A k \in DOMAIN mpcs : Valid(mpcs[k])
    /\ \A key \in DOMAIN rrd : \E k \in DOMAIN mpcs :
          Key(mpcs[k]) = key /\ rrd[key] = Archive(mpcs[k])
    /\ state # "accepted" => DOMAIN rrd = {} /\ DOMAIN pcc = {} /\ DOMAIN mpcc = {}

Connected ==
    /\ DOMAIN pcc \subseteq DOMAIN mpcs
    /\ \A k \in DOMAIN pcc : pcc[k] \in DOMAIN mpcc

Inv == TypeOK /\ WordsRead /\ Counted /\ Archives /\ Connected /\ BoundToItsHost

USE ReadConfAssumption, NothingAssumption

----------------------------------------------------------------------------
(* Operators.                                                              *)

\* A non-empty set of naturals has a minimum.
LEMMA MinNat ==
    ASSUME NEW S, S \subseteq Nat, S # {}
    PROVE  Min(S) \in S /\ \A y \in S : Min(S) <= y
<1>1. PICK x \in S : \A y \in S : ~ (<<y, x>> \in OpToRel(<, Nat))
  BY NatLessThanWellFounded, WFMin
<1>2. ASSUME NEW y \in S PROVE x <= y
  <2>1. ~ (<<y, x>> \in {ss \in Nat \X Nat : ss[1] < ss[2]})
    BY <1>1, Zenon DEF OpToRel
  <2>2. ~ (y < x)
    BY <2>1, SMT
  <2> QED
    BY <2>2
<1> QED
  BY <1>2 DEF Min

\* The base interval is one of the intervals of the file.
LEMMA BaseIntervalType ==
    ASSUME NEW lfreq, lfreq \subseteq Intervals \X Durations, NEW base \in BaseInterval(lfreq)
    PROVE  /\ base \in Intervals \cup {0}
           /\ lfreq # {} => base \in Intervals
<1>1. CASE lfreq = {}
  BY <1>1 DEF BaseInterval
<1>2. CASE lfreq # {}
  <2> DEFINE S == {f[1] : f \in lfreq}
  <2>1. S \subseteq Intervals /\ S # {}
    BY <1>2
  <2>2. base = Min(S)
    BY <1>2 DEF BaseInterval
  <2> QED
    BY <2>1, <2>2, MinNat
<1> QED
  BY <1>1, <1>2

\* Counted in steps of a divisor, an interval keeps its width, and a duration
\* its length.
LEMMA Exact ==
    ASSUME NEW a \in Nat, NEW b \in Nat \ {0}, a % b = 0
    PROVE  (a \div b) * b = a
OBVIOUS

\* The RRA of a frequency is as wide as its interval, and as long as asked if
\* that is a multiple.
LEMMA RraHolds ==
    ASSUME NEW f \in Intervals \X Durations, NEW base \in Intervals, f[1] % base = 0
    PROVE  LET a == Rra(f, base) IN
             /\ a.steps * base = f[1]
             /\ f[2] % f[1] = 0 => a.rows * f[1] = f[2]
<1>1. f[1] \in Nat \ {0} /\ f[2] \in Nat /\ base \in Nat \ {0}
  OBVIOUS
<1>2. (f[1] \div base) * base = f[1]
  BY <1>1, Exact
<1>3. f[2] % f[1] = 0 => (f[2] \div f[1]) * f[1] = f[2]
  BY <1>1, Exact
<1> QED
  BY <1>2, <1>3 DEF Rra

----------------------------------------------------------------------------
(* The parser.                                                             *)

\* What a step that registers, builds and binds nothing has to keep.
LEMMA BuiltKept ==
    ASSUME Inv, UNCHANGED built, state # "accepted", state' # "accepted" \/ state = "seekdeclare",
           state' \notin {"seekdeclare", "accepted", "rejected"} => ended < MaxSets
    PROVE  Counted' /\ Archives' /\ Connected' /\ BoundToItsHost'
BY DEF Inv, Counted, Archives, Connected, BoundToItsHost, built, run

LEMMA InitInv == Init => Inv
<1> SUFFICES ASSUME Init PROVE Inv
  OBVIOUS
<1>1. DOMAIN mpcs = {} /\ DOMAIN rrd = {} /\ DOMAIN pcc = {} /\ DOMAIN mpcc = {}
  BY DEF Init
<1>2. TypeOK /\ WordsRead
  BY <1>1 DEF Init, TypeOK, WordsRead, RCState
<1>3. Counted
  BY <1>1, FS_EmptySet DEF Init, Counted
<1> QED
  BY <1>1, <1>2, <1>3 DEF Inv, Archives, Connected, BoundToItsHost

\* A step of the parser between two sets.
LEMMA OutsideSet ==
    ASSUME Inv,
           \/ Declare \/ HostBegin \/ EndOfFile \/ Reject
           \/ \E id \in Serverkeys : Serverkey(id)
           \/ \E id \in Hosts : Hostname(id)
           \/ \E id \in Names : Collectname(id)
    PROVE  Inv'
<1> USE DEF Goes, words
<1>1. UNCHANGED built /\ state \in RCState
  BY DEF Declare, HostBegin, EndOfFile, Reject, Serverkey, Hostname, Collectname, RCState
<1>2. \/ pcurcs' = pcurcs /\ state \notin Building /\ state' \notin Building
      \/ pcurcs' = Nothing /\ state' = "rejected"
  BY DEF Declare, HostBegin, EndOfFile, Reject, Serverkey, Hostname, Collectname, Building
<1>3. state' \notin {"seekdeclare", "accepted", "rejected"} => ended < MaxSets
  BY DEF Inv, Counted, Declare, HostBegin, EndOfFile, Reject, Serverkey, Hostname, Collectname
<1>4. TypeOK'
  <2>1. /\ state' \in RCState \cup {"accepted", "rejected"}
        /\ serverkey' \in Serverkeys \cup {<<>>}
        /\ metaname' \in Hosts \cup {<<>>}
        /\ curcs_name' \in Names \cup {<<>>}
        /\ freq' = freq
        /\ metaname' = <<>> => state' \in {"seekdeclare", "seekserverkey", "seekhostname",
                                           "accepted", "rejected"}
    BY DEF Inv, TypeOK, RCState, Declare, HostBegin, EndOfFile, Reject,
           Serverkey, Hostname, Collectname
  <2>2. pcurcs' \in CollectionSet \cup {Nothing} /\ (state' \in Building <=> pcurcs' # Nothing)
    BY <1>2 DEF Inv, TypeOK, Building
  <2> QED
    BY <1>1, <2>1, <2>2, Zenon DEF Inv, TypeOK, Building, built
<1>5. WordsRead'
  BY <1>2 DEF Inv, WordsRead, Building, Declare, HostBegin, EndOfFile, Reject,
              Serverkey, Hostname, Collectname
<1> QED
  BY <1>1, <1>3, <1>4, <1>5, BuiltKept DEF Inv, RCState, EndOfFile,
     Declare, HostBegin, Reject, Serverkey, Hostname, Collectname

\* A step inside a set: it ends inside, or begins it.
LEMMA InsideSet ==
    ASSUME Inv,
           \/ \E fqdn \in Fqdns, port \in Ports : Connection(fqdn, port)
           \/ ColEntry \/ EndPar \/ Tagname \/ Equal \/ CollectFn \/ EndParam \/ TagOrEnd
           \/ \E v \in Intervals : Interval(v)
           \/ \E v \in Durations : Duration(v)
    PROVE  Inv'
<1> USE DEF Goes, words
<1>1. /\ UNCHANGED <<built, serverkey, metaname, curcs_name>>
      /\ state \in Building \cup {"seekconnection"} /\ state' \in Building
  BY DEF Connection, ColEntry, EndPar, Tagname, Equal, CollectFn, EndParam, TagOrEnd,
         Interval, Duration, Building
<1>2. /\ state = "seekconnection" => curcs_name \in Names /\ metaname \in Hosts
      /\ state \in Building => pcurcs \in CollectionSet
      /\ serverkey \in Serverkeys \cup {<<>>} /\ metaname # <<>>
  BY <1>1 DEF Inv, TypeOK, WordsRead, Building
<1>3. pcurcs' \in CollectionSet
  <2>1. CASE \E fqdn \in Fqdns, port \in Ports : Connection(fqdn, port)
    BY <1>2, <2>1 DEF Connection, CollectionSet
  <2>2. CASE EndPar
    <3>1. freq \in Intervals \X Durations /\ pcurcs \in CollectionSet
      BY <1>2, <2>2 DEF EndPar, Inv, WordsRead, Building
    <3>2. pcurcs' = [pcurcs EXCEPT !.lfreq = @ \cup {freq}]
      BY <2>2 DEF EndPar
    <3> QED
      BY <3>1, <3>2 DEF CollectionSet
  <2>3. ASSUME PushPoint, state \in {"seekcollectfn", "seekendparam"}
        PROVE  pcurcs' \in CollectionSet
    <3>1. pcurcs \in CollectionSet /\ pcurcs.lptagmp < MaxTags
      BY <1>2, <2>3 DEF Inv, WordsRead, Building
    <3>2. pcurcs.lptagmp + 1 \in 0..MaxTags
      BY <3>1 DEF CollectionSet
    <3> QED
      BY <2>3, <3>1, <3>2 DEF PushPoint, CollectionSet
  <2>4. \/ pcurcs' = pcurcs /\ state \in Building
        \/ \E fqdn \in Fqdns, port \in Ports : Connection(fqdn, port)
        \/ EndPar
        \/ PushPoint /\ state \in {"seekcollectfn", "seekendparam"}
    BY DEF ColEntry, Tagname, Equal, CollectFn, EndParam, TagOrEnd, Interval, Duration,
           Building
  <2> QED
    BY <1>2, <2>1, <2>2, <2>3, <2>4
<1>4. /\ freq' \in {<<>>} \cup (Intervals \X {0}) \cup (Intervals \X Durations)
      /\ state' \in {"seekmultiplier", "seekrddtable2nd"} => freq' \in Intervals \X {0}
      /\ state' = "seekrddenpar" => freq' \in Intervals \X Durations
  BY DEF Inv, TypeOK, WordsRead, Connection, ColEntry, EndPar, Tagname, Equal, CollectFn,
         EndParam, TagOrEnd, Interval, Duration
<1>5. state' \in {"seekequal", "seekcollectfn", "seekendparam"} => pcurcs'.lptagmp < MaxTags
  BY DEF Inv, WordsRead, Connection, ColEntry, EndPar, Tagname, Equal, CollectFn,
         EndParam, TagOrEnd, Interval, Duration
<1>6. WordsRead'
  BY <1>1, <1>4, <1>5 DEF WordsRead, Building
<1>7. TypeOK'
  <2>1. pcurcs' # Nothing
    BY <1>3
  <2>2. state' \in RCState
    BY <1>1 DEF Building, RCState
  <2> QED
    BY <1>1, <1>2, <1>3, <1>4, <2>1, <2>2, Zenon DEF Inv, TypeOK, Building, built
<1>8. Counted' /\ Archives' /\ Connected' /\ BoundToItsHost'
  BY <1>1, BuiltKept DEF Inv, Counted, Building
<1> QED
  BY <1>6, <1>7, <1>8 DEF Inv

\* The end of a set: it is registered under a key of its own.
LEMMA EndSetInv == ASSUME Inv, EndSet PROVE Inv'
<1> USE DEF Goes
<1>1. PICK base \in BaseInterval(pcurcs.lfreq) :
         /\ Validate(pcurcs.lfreq, base)
         /\ PushBack([pcurcs EXCEPT !.base_interval = base])
  BY DEF EndSet
<1>2. /\ state \in {"seektagorend", "seektagname"} /\ pcurcs \in CollectionSet
      /\ state' \in {"seekdeclare", "seekcollectname"}
      /\ pcurcs' = Nothing /\ ended' = ended + 1
      /\ UNCHANGED <<serverkey, curcs_name, freq, rrd, examined, mpcc, pcc>>
  BY DEF EndSet, Inv, TypeOK, run
<1> DEFINE s == [pcurcs EXCEPT !.base_interval = base]
<1>3. base \in Intervals \cup {0} /\ (pcurcs.lfreq # {} => base \in Intervals)
  BY <1>2, BaseIntervalType DEF CollectionSet
<1>4. s \in CollectionSet /\ Valid(s)
  BY <1>1, <1>2, <1>3 DEF CollectionSet, Valid, Validate
<1>5. /\ Fullkey(s) \notin DOMAIN mpcs
      /\ DOMAIN mpcs' = DOMAIN mpcs \cup {Fullkey(s)}
      /\ mpcs'[Fullkey(s)] = s
      /\ \A k \in DOMAIN mpcs : mpcs'[k] = mpcs[k]
  BY <1>1 DEF PushBack
<1> HIDE DEF s
<1>6. ended \in 0..MaxSets /\ ended < MaxSets
  BY <1>2 DEF Inv, TypeOK, Counted
<1>7. TypeOK'
  <2>1. \A k \in DOMAIN mpcs' : mpcs'[k] \in CollectionSet /\ Fullkey(mpcs'[k]) = k
    BY <1>4, <1>5 DEF Inv, TypeOK
  <2>2. metaname' \in Hosts \cup {<<>>} /\ (metaname' = <<>> => state' = "seekdeclare")
    BY DEF EndSet, Inv, TypeOK
  <2>3. ended' \in 0..MaxSets
    BY <1>2, <1>6
  <2>4. state' \in RCState /\ state' \notin Building
    BY <1>2 DEF RCState, Building
  <2>5. /\ serverkey' \in Serverkeys \cup {<<>>} /\ curcs_name' \in Names \cup {<<>>}
        /\ freq' \in {<<>>} \cup (Intervals \X {0}) \cup (Intervals \X Durations)
        /\ pcurcs' \in CollectionSet \cup {Nothing} /\ pcurcs' = Nothing
    BY <1>2 DEF Inv, TypeOK
  <2> QED
    BY <2>1, <2>2, <2>3, <2>4, <2>5, Zenon DEF TypeOK, Building
<1>8. WordsRead'
  BY <1>2 DEF WordsRead
<1>9. Counted'
  <2>1. IsFiniteSet(DOMAIN mpcs) /\ Cardinality(DOMAIN mpcs) = ended
    BY DEF Inv, Counted
  <2>2. IsFiniteSet(DOMAIN mpcs') /\ Cardinality(DOMAIN mpcs') = ended'
    BY <1>2, <1>5, <2>1, FS_AddElement
  <2>3. state' = "seekcollectname" => ended' < MaxSets
    BY <1>2, <2>1 DEF EndSet
  <2> QED
    BY <1>2, <2>2, <2>3 DEF Counted
<1>10. Archives'
  <2>1. \A k \in DOMAIN mpcs' : Valid(mpcs'[k])
    BY <1>4, <1>5 DEF Inv, Archives
  <2>2. DOMAIN rrd' = {} /\ DOMAIN pcc' = {} /\ DOMAIN mpcc' = {}
    BY <1>2 DEF Inv, Archives
  <2> QED
    BY <2>1, <2>2 DEF Archives
<1>11. Connected' /\ BoundToItsHost'
  BY <1>2, <1>5 DEF Inv, Archives, Connected, BoundToItsHost
<1> QED
  BY <1>7, <1>8, <1>9, <1>10, <1>11 DEF Inv

----------------------------------------------------------------------------
(* The accepted configuration.                                             *)

\* Archives are created one by one, each from the set of its key.
LEMMA BuildMissingInv == ASSUME Inv, NEW k \in DOMAIN mpcs, BuildMissing(k) PROVE Inv'
<1>1. /\ UNCHANGED <<state, words, pcurcs, mpcs, mpcc, pcc, ended>>
      /\ state = "accepted"
  BY DEF BuildMissing
<1>2. TypeOK' /\ WordsRead' /\ Counted' /\ Connected' /\ BoundToItsHost'
  BY <1>1 DEF Inv, TypeOK, WordsRead, Counted, Connected, BoundToItsHost, words
<1>3. \A key \in DOMAIN rrd' :
         \/ key \in DOMAIN rrd /\ rrd'[key] = rrd[key]
         \/ key = Key(mpcs[k]) /\ rrd'[key] = Archive(mpcs[k])
  BY DEF BuildMissing
<1>4. Archives'
  BY <1>1, <1>3 DEF Inv, Archives
<1> QED
  BY <1>2, <1>4 DEF Inv

\* A set is bound to the connection of its own host and port.
LEMMA BindInv == ASSUME Inv, NEW k \in DOMAIN mpcs, Bind(k) PROVE Inv'
<1>1. /\ UNCHANGED <<state, words, pcurcs, mpcs, rrd, examined, ended>>
      /\ state = "accepted" /\ k \notin DOMAIN pcc
  BY DEF Bind
<1> DEFINE to == mpcs[k].fp
<1>2. (IF Found(mpcs[k].fp) = {} THEN mpcs[k].fp
       ELSE CHOOSE c \in Found(mpcs[k].fp) : TRUE) = to
  BY DEF Found
<1>3. /\ mpcc' = [c \in DOMAIN mpcc \cup {to} |->
                    IF c # to THEN mpcc[c]
                    ELSE {k} \cup IF c \in DOMAIN mpcc THEN mpcc[c] ELSE {}]
      /\ pcc' = [j \in DOMAIN pcc \cup {k} |-> IF j = k THEN to ELSE pcc[j]]
  BY <1>2, Zenon DEF Bind
<1> HIDE DEF to
<1>4. TypeOK' /\ WordsRead' /\ Counted' /\ Archives'
  BY <1>1 DEF Inv, TypeOK, WordsRead, Counted, Archives, words
<1>5. Connected'
  BY <1>1, <1>3 DEF Inv, Connected
<1>6. BoundToItsHost'
  <2>1. \A j \in DOMAIN pcc' : pcc'[j] = mpcs'[j].fp
    BY <1>1, <1>3 DEF Inv, BoundToItsHost, to
  <2>2. ASSUME NEW c \in DOMAIN mpcc' PROVE mpcc'[c] = {j \in DOMAIN pcc' : pcc'[j] = c}
    <3>1. c \in DOMAIN mpcc => mpcc[c] = {j \in DOMAIN pcc : pcc[j] = c}
      BY DEF Inv, BoundToItsHost
    <3>2. c \notin DOMAIN mpcc => {j \in DOMAIN pcc : pcc[j] = c} = {}
      BY DEF Inv, Connected
    <3>3. DOMAIN pcc' = DOMAIN pcc \cup {k} /\ pcc'[k] = to
          /\ \A j \in DOMAIN pcc : pcc'[j] = pcc[j]
      BY <1>1, <1>3
    <3> QED
      BY <1>1, <1>3, <3>1, <3>2, <3>3
  <2> QED
    BY <2>1, <2>2 DEF BoundToItsHost
<1> QED
  BY <1>4, <1>5, <1>6 DEF Inv

LEMMA NextInv == Inv /\ [Next]_vars => Inv'
<1> SUFFICES ASSUME Inv, [Next]_vars PROVE Inv'
  OBVIOUS
<1>1. CASE UNCHANGED vars
  BY <1>1 DEF vars, words, built, run, Inv, TypeOK, WordsRead, Counted, Archives, Connected,
              BoundToItsHost
<1>2. CASE EndSet
  BY <1>2, EndSetInv
<1>3. CASE \E k \in DOMAIN mpcs : BuildMissing(k) \/ Bind(k)
  BY <1>3, BuildMissingInv, BindInv
<1> QED
  BY <1>1, <1>2, <1>3, OutsideSet, InsideSet, Zenon DEF Next

----------------------------------------------------------------------------
(* Theorems.                                                               *)

\* The inductive invariant holds in every reachable state.
THEOREM InvCorrect == Spec => []Inv
BY InitInv, NextInv, PTL DEF Spec

\* ReadConf is well typed; there is a temporary set exactly in the states
\* that fill it.
THEOREM TypeCorrect == Spec => []TypeOK
BY InvCorrect, PTL DEF Inv

\* Whatever the names join to, no set of an accepted file is lost.
THEOREM NoSetLostCorrect == Spec => []NoSetLost
<1>1. Inv => NoSetLost
  <2> SUFFICES ASSUME Inv PROVE NoSetLost
    OBVIOUS
  <2>1. Cardinality(DOMAIN mpcs) = ended
    BY DEF Inv, Counted
  <2>2. ASSUME NEW j \in DOMAIN mpcs, NEW k \in DOMAIN mpcs,
               Key(mpcs[j]) = Key(mpcs[k]), mpcs[j].serverkey = mpcs[k].serverkey
        PROVE  j = k
    <3>1. Fullkey(mpcs[j]) = j /\ Fullkey(mpcs[k]) = k
      BY DEF Inv, TypeOK
    <3> QED
      BY <2>2, <3>1 DEF Fullkey
  <2> QED
    BY <2>1, <2>2 DEF NoSetLost
<1> QED
  BY <1>1, InvCorrect, PTL

\* For any intervals and durations, an archive keeps each frequency whose
\* duration is a multiple of its interval: rows exactly as wide, reaching back
\* exactly as far.
THEOREM ArchiveHoldsCorrect == Spec => []ArchiveHolds
<1>1. Inv => ArchiveHolds
  <2> SUFFICES ASSUME Inv, NEW k \in DOMAIN mpcs, HasArchive(k),
                      NEW f \in mpcs[k].lfreq, f[2] % f[1] = 0
               PROVE  Keeps(rrd[Key(mpcs[k])], f, f[2])
    BY DEF ArchiveHolds
  <2> DEFINE base == mpcs[k].base_interval
  <2>1. rrd[Key(mpcs[k])] = Archive(mpcs[k])
    BY DEF Inv, Archives, HasArchive
  <2>2. rrd[Key(mpcs[k])].step = base /\ Rra(f, base) \in rrd[Key(mpcs[k])].rra
    BY <2>1 DEF Archive
  <2>3. f \in Intervals \X Durations
    BY DEF Inv, TypeOK, CollectionSet
  <2>4. base \in Intervals /\ f[1] % base = 0
    BY DEF Inv, Archives, Valid
  <2>5. Rra(f, base).steps * base = f[1] /\ Rra(f, base).rows * f[1] = f[2]
    BY <2>3, <2>4, RraHolds
  <2> HIDE DEF base
  <2> QED
    BY <2>2, <2>5 DEF Keeps
<1> QED
  BY <1>1, InvCorrect, PTL

\* Every set is served by the connection to its own host and port, and a
\* connection serves what is bound to it.
THEOREM BoundToItsHostCorrect == Spec => []BoundToItsHost
BY InvCorrect, PTL DEF Inv
=============================================================================
