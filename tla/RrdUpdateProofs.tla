--------------------------- MODULE RrdUpdateProofs ---------------------------
(***************************************************************************)
(* Proofs about RrdUpdate: type correctness, with the bound of the error   *)
(* counter; that the archive is never locked for longer than the tolerated *)
(* lead, whatever the clocks, delays and restarts; and that librrd is      *)
(* never handed a timestamp it refuses while the probe's clock is steady;  *)
(* that what librrd accepts is put into the columns it is for.             *)
(***************************************************************************)
EXTENDS RrdUpdate, TLAPS, NaturalsInduction, WellFoundedInduction

\* The counter passes its limit only while the signal it raised is pending:
\* what it may still grow by is what is still under way.
CounterBounded ==
    nbweirderrors >= WeirdLimit => nbweirderrors + Len(rx) <= WeirdLimit + MaxQueue

Inv == TypeOK /\ CounterBounded /\ NeverLockedLong

USE RrdAssumption

\* A record handed to librrd is no further in the future than tolerated.
LEMMA CorrectedBound ==
    ASSUME NEW stamp \in Stamps
    PROVE  Corrected(stamp) \in Stamps /\ Corrected(stamp) <= Future
BY DEF Corrected, Stamps, Old

\* Ageing keeps a time within bounds, and never moves it forward.
LEMMA OlderBound ==
    ASSUME NEW t \in Stamps
    PROVE  Older(t) \in Stamps /\ Older(t) <= t
BY DEF Older, Stamps, Old

\* The elapsing of a tick keeps the lines under way well typed, and ages the
\* archive.
LEMMA ElapseKeeps ==
    ASSUME TypeOK, Elapse
    PROVE  /\ rx' \in Seq(Line)
           /\ Len(rx') = Len(rx)
           /\ last_up' \in Stamps /\ last_up' <= last_up
           /\ offset' = offset /\ steady' = steady /\ outcome' \in Outcome
           /\ UNCHANGED <<lmp, failing>>
<1>1. \A i \in 1..Len(rx) :
         [rx[i] EXCEPT !.stamp = Older(@), !.age = @ + 1] \in Line
  <2> SUFFICES ASSUME NEW i \in 1..Len(rx)
               PROVE  [rx[i] EXCEPT !.stamp = Older(@), !.age = @ + 1] \in Line
    OBVIOUS
  <2>1. rx[i] \in Line
    BY DEF TypeOK
  <2>2. rx[i].stamp \in Stamps /\ rx[i].age \in 0..MaxDelay
    BY <2>1 DEF Line
  <2>3. rx[i].age + 1 \in 0..MaxDelay
    <3>1. rx[i].age < MaxDelay
      BY Zenon DEF Elapse
    <3> QED
      BY <2>2, <3>1
  <2>4. Older(rx[i].stamp) \in Stamps
    BY <2>2, OlderBound
  <2> QED
    BY <2>1, <2>3, <2>4 DEF Line
<1>2. Len(rx) \in Nat
  BY DEF TypeOK
<1>3. rx' \in Seq(Line) /\ Len(rx') = Len(rx)
  <2>1. rx' = [i \in 1..Len(rx) |-> [rx[i] EXCEPT !.stamp = Older(@), !.age = @ + 1]]
    BY DEF Elapse
  <2>2. rx' \in [1..Len(rx) -> Line]
    BY <1>1, <2>1, Zenon
  <2> QED
    BY <1>2, <2>2
<1>4. last_up' \in Stamps /\ last_up' <= last_up
  BY OlderBound DEF TypeOK, Elapse
<1> QED
  BY <1>3, <1>4 DEF Elapse, Outcome

LEMMA InitInv == Init => Inv
BY DEF Init, Inv, TypeOK, CounterBounded, NeverLockedLong, Stamps, Old, Outcome

\* One step per action.
LEMMA NextInv == Inv /\ [Next]_vars => Inv'
<1> SUFFICES ASSUME Inv, [Next]_vars PROVE Inv'
  OBVIOUS
<1> USE DEF Inv, CounterBounded, NeverLockedLong, memory
<1>1. CASE Measure
  <2> USE <1>1 DEF Measure
  <2>1. [stamp |-> offset, age |-> 0, failing |-> failing] \in Line
    BY DEF TypeOK, Line, Stamps, Old
  <2>2. rx' \in Seq(Line) /\ Len(rx') = Len(rx) + 1
    BY <2>1 DEF TypeOK
  <2> QED
    BY <2>2 DEF TypeOK, Outcome
<1>2. CASE LineRead
  <2>1. /\ rx' \in Seq(Line)
        /\ Len(rx') = Len(rx) - 1 /\ Len(rx) \in Nat /\ Len(rx') \in Nat
    BY <1>2 DEF LineRead, TypeOK
  <2>2. Head(rx).stamp \in Stamps
    <3>1. Head(rx) \in Line
      BY <1>2 DEF LineRead, TypeOK
    <3> QED
      BY <3>1 DEF Line
  <2> DEFINE trecord == Corrected(Head(rx).stamp)
  <2>3. trecord \in Stamps /\ trecord <= Future
    BY <2>2, CorrectedBound
  <2>4. rrdlastupdate' = trecord /\ UNCHANGED <<lmp, offset, failing, steady, upsets>>
    BY <1>2, Zenon DEF LineRead
  <2>5. \/ MustRecord(trecord) /\ RrdUpdate(trecord, Values(lmp, Head(rx).failing))
        \/ outcome' = "dropped" /\ UNCHANGED <<last_up, nbweirderrors, collector>>
    BY <1>2, Zenon DEF LineRead
  <2> HIDE DEF trecord
  <2>6. last_up' \in Stamps /\ last_up' <= Future /\ outcome' \in Outcome
    BY <2>3, <2>5 DEF RrdUpdate, TypeOK, Outcome
  <2>7. \/ UNCHANGED <<nbweirderrors, collector>>
        \/ /\ nbweirderrors' = nbweirderrors + 1
           /\ collector' = IF nbweirderrors + 1 = WeirdLimit THEN "signalled" ELSE collector
    BY <2>5 DEF RrdUpdate, WeirdError
  <2>8. CounterBounded' /\ nbweirderrors' \in 0..(WeirdLimit + MaxQueue)
    BY <2>1, <2>7 DEF TypeOK
  <2>9. /\ nbweirderrors' >= WeirdLimit => collector' # "up"
        /\ collector' \in {"up", "signalled", "down"}
    BY <2>7 DEF TypeOK
  <2>10. Len(rx') <= MaxQueue
    BY <2>1 DEF TypeOK
  <2>11. /\ offset' \in (-MaxOff)..MaxOff /\ steady' \in BOOLEAN /\ upsets' \in 0..MaxUpsets
        /\ lmp' \in Lmps /\ failing' \subseteq Sources
    BY <2>4 DEF TypeOK
  <2>12. TypeOK'
    BY <2>1, <2>3, <2>4, <2>6, <2>8, <2>9, <2>10, <2>11 DEF TypeOK
  <2> QED
    BY <2>6, <2>8, <2>12
<1>3. CASE TreatSignal
  BY <1>3 DEF TreatSignal, TypeOK, Outcome
<1>4. CASE Relaunch
  BY <1>4, ElapseKeeps DEF Relaunch, TypeOK, Stamps, Old
<1>5. CASE Tick
  <2>1. /\ rx' \in Seq(Line) /\ Len(rx') = Len(rx)
        /\ last_up' \in Stamps /\ last_up' <= last_up
        /\ offset' = offset /\ steady' = steady /\ outcome' \in Outcome
        /\ UNCHANGED <<lmp, failing>>
    BY <1>5, ElapseKeeps DEF Tick
  <2>2. rrdlastupdate' \in Stamps
    BY <1>5, OlderBound DEF Tick, TypeOK
  <2>3. UNCHANGED <<nbweirderrors, collector, upsets>>
    BY <1>5 DEF Tick
  <2>4. last_up' <= Future
    BY <2>1 DEF TypeOK, Stamps, Old
  <2>5. TypeOK'
    BY <2>1, <2>2, <2>3 DEF TypeOK
  <2> QED
    BY <2>1, <2>3, <2>4, <2>5
<1>6. CASE Signal
  BY <1>6 DEF Signal, TypeOK, Outcome
<1>7. CASE \E d \in Jumps : ProbeClock(d)
  BY <1>7 DEF ProbeClock, TypeOK, Outcome
<1>8. CASE \E s \in Sources : Source(s)
  BY <1>8 DEF Source, TypeOK, Outcome
<1>9. CASE UNCHANGED vars
  BY <1>9 DEF vars, TypeOK
<1> QED
  BY <1>1, <1>2, <1>3, <1>4, <1>5, <1>6, <1>7, <1>8, <1>9 DEF Next

\* The inductive invariant holds in every reachable state.
THEOREM InvCorrect == Spec => []Inv
BY InitInv, NextInv, PTL DEF Spec

\* RrdUpdate is well typed; in particular the error counter passes its limit
\* by no more than the lines under way when the restart was decided.
THEOREM TypeCorrect == Spec => []TypeOK
BY InvCorrect, PTL DEF Inv

\* Whatever the clocks do, librrd has accepted no record further in the
\* future than tolerated.
THEOREM NeverLockedCorrect == Spec => []NeverLockedLong
BY InvCorrect, PTL DEF Inv

----------------------------------------------------------------------------
(* While the probe's clock is steady: lines arrive in the order of their   *)
(* timestamps, none later than the probe's present time.  What librrd has  *)
(* accepted is no later than the entry of rrdlastupdate; after a restart,  *)
(* which loses the entry, it is earlier than all that is still to come.    *)

InOrder ==
    /\ \A i \in 1..Len(rx) : rx[i].stamp + rx[i].age >= 0 /\ rx[i].stamp <= offset
    /\ \A i, j \in 1..Len(rx) : i <= j => rx[i].stamp <= rx[j].stamp

EntryFirst ==
    /\ rrdlastupdate <= offset
    /\ \A i \in 1..Len(rx) : rrdlastupdate <= rx[i].stamp

ArchiveBehind ==
    \/ last_up <= rrdlastupdate
    \/ last_up < offset /\ \A i \in 1..Len(rx) : last_up < rx[i].stamp

SteadyOrder ==
    steady => offset \in 0..Future /\ InOrder /\ EntryFirst /\ ArchiveBehind

SInv == Inv /\ SteadyOrder /\ NeverBackwards /\ (collector = "down" => rx = <<>>)

\* Ageing keeps the order of two times, and a strict order above Old.
LEMMA OlderMonotone ==
    ASSUME NEW t \in Stamps, NEW u \in Stamps, t <= u
    PROVE  /\ Older(t) <= Older(u)
           /\ t < u /\ Old < u - 1 => Older(t) < Older(u)
           /\ Older(t) < u \/ u = Old
BY DEF Older, Stamps, Old

\* What a line under way looks like after a tick.
LEMMA ElapseLine ==
    ASSUME TypeOK, Elapse, NEW i \in 1..Len(rx)
    PROVE  /\ rx[i].stamp \in Stamps /\ rx[i].age \in Nat
           /\ rx'[i].stamp = Older(rx[i].stamp) /\ rx'[i].age = rx[i].age + 1
           /\ rx[i].age < MaxDelay
<1>1. rx[i] \in Line
  BY DEF TypeOK
<1>2. rx'[i] = [rx[i] EXCEPT !.stamp = Older(@), !.age = @ + 1]
  BY Zenon DEF Elapse
<1>3. rx[i].age < MaxDelay
  BY Zenon DEF Elapse
<1> QED
  BY <1>1, <1>2, <1>3 DEF Line

\* A tick keeps the order.
LEMMA ElapseOrder ==
    ASSUME TypeOK, Elapse, offset \in 0..Future, InOrder
    PROVE  InOrder'
<1>1. Len(rx') = Len(rx) /\ offset' = offset
  BY ElapseKeeps
<1>2. ASSUME NEW i \in 1..Len(rx)
      PROVE  rx'[i].stamp + rx'[i].age >= 0 /\ rx'[i].stamp <= offset
  <2>1. rx[i].stamp + rx[i].age >= 0 /\ rx[i].stamp <= offset
    BY DEF InOrder
  <2>2. Older(rx[i].stamp) = rx[i].stamp - 1
    BY <2>1, ElapseLine DEF Older, Stamps, Old, TypeOK
  <2> QED
    BY <2>1, <2>2, ElapseLine DEF TypeOK, Stamps, Old
<1>3. ASSUME NEW i \in 1..Len(rx), NEW j \in 1..Len(rx), i <= j
      PROVE  rx'[i].stamp <= rx'[j].stamp
  BY <1>3, ElapseLine, OlderMonotone DEF InOrder
<1> QED
  BY <1>1, <1>2, <1>3 DEF InOrder

LEMMA InitSInv == Init => SInv
<1> SUFFICES ASSUME Init PROVE SInv
  OBVIOUS
<1>1. rx = <<>> /\ rrdlastupdate = Old /\ outcome = "none" /\ collector = "up"
  BY DEF Init
<1>2. steady => offset \in 0..Future /\ last_up = Old
  BY Zenon DEF Init
<1>3. steady => InOrder /\ EntryFirst /\ ArchiveBehind
  BY <1>1, <1>2 DEF InOrder, EntryFirst, ArchiveBehind, Old
<1> QED
  BY InitInv, <1>1, <1>2, <1>3 DEF SInv, SteadyOrder, NeverBackwards

\* One step per action.
LEMMA NextSInv == SInv /\ [Next]_vars => SInv'
<1> SUFFICES ASSUME SInv, [Next]_vars PROVE SInv'
  OBVIOUS
<1>1. Inv /\ Inv' /\ TypeOK
  BY NextInv DEF SInv, Inv
<1>2. offset \in Int /\ last_up \in Int /\ rrdlastupdate \in Int /\ Len(rx) \in Nat
  BY <1>1 DEF TypeOK, Stamps, Old
<1>3. \A i \in 1..Len(rx) : rx[i] \in Line /\ rx[i].stamp \in Stamps /\ rx[i].age \in Nat
  <2>1. \A i \in 1..Len(rx) : rx[i] \in Line
    BY <1>1 DEF TypeOK
  <2>2. \A line \in Line : line.stamp \in Stamps /\ line.age \in Nat
    BY DEF Line
  <2> QED
    BY <2>1, <2>2
<1> USE DEF SInv, SteadyOrder, NeverBackwards, memory
<1>4. CASE Measure
  <2> USE <1>4 DEF Measure
  <2>1. Len(rx') = Len(rx) + 1
    BY <1>1 DEF TypeOK
  <2>2. \A i \in 1..Len(rx) : rx'[i] = rx[i]
    BY <1>1 DEF TypeOK
  <2>3. rx'[Len(rx')].stamp = offset /\ rx'[Len(rx')].age = 0
    BY <1>1 DEF TypeOK
  <2>4. ASSUME steady PROVE InOrder'
    BY <1>2, <1>3, <2>1, <2>2, <2>3, <2>4 DEF InOrder
  <2>5. ASSUME steady PROVE EntryFirst'
    BY <1>2, <1>3, <2>1, <2>2, <2>3, <2>5 DEF EntryFirst
  <2>6. ASSUME steady PROVE ArchiveBehind'
    BY <1>2, <1>3, <2>1, <2>2, <2>3, <2>6 DEF ArchiveBehind
  <2> QED
    BY <1>1, <2>4, <2>5, <2>6
<1>5. CASE LineRead
  <2>1. /\ Len(rx') = Len(rx) - 1
        /\ \A i \in 1..Len(rx') : rx'[i] = rx[i + 1] /\ i + 1 \in 1..Len(rx)
        /\ Head(rx) = rx[1] /\ 1 \in 1..Len(rx)
    BY <1>1, <1>5 DEF LineRead, TypeOK
  <2> DEFINE trecord == Corrected(Head(rx).stamp)
  <2>2. rrdlastupdate' = trecord /\ UNCHANGED <<offset, steady>>
    BY <1>5, Zenon DEF LineRead
  <2>3. \/ /\ MustRecord(trecord)
           /\ RrdUpdate(trecord, Values(lmp, Head(rx).failing))
        \/ outcome' = "dropped" /\ UNCHANGED last_up
    BY <1>5, Zenon DEF LineRead
  <2>4. collector' # "down"
    BY <1>5 DEF LineRead, RrdUpdate, WeirdError
  <2>5. ASSUME steady PROVE trecord = rx[1].stamp /\ trecord \in Int
    BY <1>2, <1>3, <2>1, <2>5 DEF Corrected, InOrder, Stamps, Old
  <2> HIDE DEF trecord
  <2>6. ASSUME steady PROVE InOrder'
    <3>1. InOrder /\ offset' = offset
      BY <2>2, <2>6
    <3>2. \A i \in 1..Len(rx') : rx'[i].stamp + rx'[i].age >= 0 /\ rx'[i].stamp <= offset
      BY <2>1, <3>1 DEF InOrder
    <3>3. ASSUME NEW i \in 1..Len(rx'), NEW j \in 1..Len(rx'), i <= j
          PROVE  rx'[i].stamp <= rx'[j].stamp
      <4>1. i + 1 <= j + 1 /\ rx'[i] = rx[i + 1] /\ rx'[j] = rx[j + 1]
        BY <1>2, <2>1, <3>3
      <4> QED
        BY <2>1, <3>1, <4>1 DEF InOrder
    <3> QED
      BY <3>1, <3>2, <3>3 DEF InOrder
  <2>7. ASSUME steady PROVE EntryFirst'
    BY <1>2, <1>3, <2>1, <2>2, <2>5, <2>7 DEF InOrder, EntryFirst
  <2>8. ASSUME steady PROVE last_up' <= rrdlastupdate'
    <3>1. last_up <= trecord
      BY <1>2, <1>3, <2>1, <2>5, <2>8 DEF EntryFirst, ArchiveBehind, Stamps, Old
    <3>2. last_up' = last_up \/ last_up' = trecord
      BY <2>3 DEF RrdUpdate
    <3> QED
      BY <2>2, <2>5, <2>8, <3>1, <3>2
  <2>9. ASSUME steady PROVE outcome' # "refused"
    <3>1. CASE MustRecord(trecord)
      <4>1. last_up < trecord
        BY <1>2, <1>3, <2>1, <2>5, <2>9, <3>1 DEF MustRecord, ArchiveBehind, Stamps, Old
      <4> QED
        BY <1>2, <2>3, <2>5, <2>9, <4>1 DEF RrdUpdate
    <3>2. CASE ~MustRecord(trecord)
      BY <2>3, <3>2
    <3> QED
      BY <3>1, <3>2
  <2> QED
    BY <1>1, <2>2, <2>4, <2>6, <2>7, <2>8, <2>9 DEF ArchiveBehind
<1>6. CASE TreatSignal
  <2> USE <1>6 DEF TreatSignal
  <2>1. Len(rx') = 0
    OBVIOUS
  <2>2. ASSUME steady PROVE ArchiveBehind'
    BY <1>2, <2>1, <2>2 DEF ArchiveBehind
  <2> QED
    BY <1>1, <2>1, <2>2 DEF InOrder, EntryFirst
<1>7. CASE Relaunch
  <2>1. /\ Elapse /\ collector = "down" /\ collector' = "up"
        /\ rrdlastupdate' = Old
    BY <1>7 DEF Relaunch
  <2>2. Len(rx) = 0 /\ Len(rx') = 0 /\ UNCHANGED <<offset, steady>>
    BY <1>1, <2>1, ElapseKeeps
  <2>3. last_up' = Older(last_up) /\ last_up \in Stamps /\ outcome' = "none"
    BY <1>1, <2>1, Zenon DEF Elapse, TypeOK
  <2>4. ASSUME steady PROVE last_up' < offset
    BY <1>2, <2>3, <2>4 DEF Older, ArchiveBehind, EntryFirst, Stamps, Old
  <2>5. ASSUME steady PROVE Old <= offset
    BY <2>5 DEF Old
  <2> QED
    BY <1>1, <2>1, <2>2, <2>3, <2>4, <2>5 DEF InOrder, EntryFirst, ArchiveBehind
<1>8. CASE Tick
  <2>1. /\ Elapse /\ rrdlastupdate' = Older(rrdlastupdate)
        /\ UNCHANGED collector
    BY <1>8 DEF Tick
  <2>2. Len(rx') = Len(rx) /\ UNCHANGED <<offset, steady>>
    BY <1>1, <2>1, ElapseKeeps
  <2>3. /\ last_up' = Older(last_up) /\ outcome' = "none"
        /\ last_up \in Stamps /\ rrdlastupdate \in Stamps
    BY <1>1, <2>1, Zenon DEF Elapse, TypeOK
  <2>4. collector' = "down" => rx' = <<>>
    <3>1. rx' \in Seq(Line)
      BY <1>1, <2>1, ElapseKeeps
    <3>2. collector = "down" => Len(rx) = 0
      OBVIOUS
    <3> QED
      BY <2>1, <2>2, <3>1, <3>2
  <2>5. ASSUME steady PROVE InOrder'
    BY <1>1, <2>1, <2>5, ElapseOrder
  <2>6. ASSUME steady PROVE EntryFirst'
    <3>1. rrdlastupdate' <= offset
      BY <2>1, <2>3, <2>6, OlderBound DEF EntryFirst, Stamps, Old
    <3>2. \A i \in 1..Len(rx) : rrdlastupdate' <= rx'[i].stamp
      BY <1>1, <2>1, <2>3, <2>6, ElapseLine, OlderMonotone DEF EntryFirst
    <3> QED
      BY <2>2, <3>1, <3>2 DEF EntryFirst
  <2>7. ASSUME steady PROVE ArchiveBehind'
    <3>1. CASE last_up <= rrdlastupdate
      BY <2>1, <2>3, <3>1, OlderMonotone DEF ArchiveBehind
    <3>2. CASE last_up < offset /\ \A i \in 1..Len(rx) : last_up < rx[i].stamp
      <4>1. last_up' < offset
        BY <2>3, <2>7, <3>2, OlderBound DEF Stamps, Old
      <4>2. ASSUME NEW i \in 1..Len(rx) PROVE last_up' < rx'[i].stamp
        <5>1. rx[i].stamp + rx[i].age >= 0
          BY <2>7 DEF InOrder
        <5>2. Old < rx[i].stamp - 1
          BY <1>1, <2>1, <5>1, ElapseLine DEF Stamps, Old
        <5> QED
          BY <1>1, <2>1, <2>3, <3>2, <5>2, ElapseLine, OlderMonotone DEF Stamps, Old
      <4> QED
        BY <2>2, <4>1, <4>2 DEF ArchiveBehind
    <3> QED
      BY <2>7, <3>1, <3>2 DEF ArchiveBehind
  <2> QED
    BY <1>1, <2>2, <2>3, <2>4, <2>5, <2>6, <2>7
<1>9. CASE Signal
  BY <1>1, <1>9 DEF Signal, InOrder, EntryFirst, ArchiveBehind
<1>10. CASE \E d \in Jumps : ProbeClock(d)
  <2>1. PICK d \in Jumps : ProbeClock(d)
    BY <1>10
  <2>2. /\ offset' = offset + d /\ outcome' = "none" /\ d \in Int
        /\ steady' = (steady /\ d >= 0 /\ offset' <= Future)
        /\ UNCHANGED <<rx, memory, last_up>>
    BY <2>1 DEF ProbeClock
  <2>3. ASSUME steady' PROVE steady /\ offset <= offset' /\ offset' \in 0..Future
    <3>1. steady /\ d >= 0 /\ offset' <= Future
      BY <2>2, <2>3, Zenon
    <3> QED
      BY <1>2, <2>2, <3>1
  <2>4. ASSUME steady' PROVE InOrder' /\ EntryFirst' /\ ArchiveBehind'
    BY <1>2, <1>3, <2>2, <2>3, <2>4 DEF InOrder, EntryFirst, ArchiveBehind, Stamps, Old
  <2> QED
    BY <1>1, <2>2, <2>3, <2>4
<1>11. CASE \E s \in Sources : Source(s)
  BY <1>1, <1>11 DEF Source, InOrder, EntryFirst, ArchiveBehind
<1>12. CASE UNCHANGED vars
  BY <1>1, <1>12 DEF vars, InOrder, EntryFirst, ArchiveBehind
<1> QED
  BY <1>4, <1>5, <1>6, <1>7, <1>8, <1>9, <1>10, <1>11, <1>12 DEF Next

\* As long as the probe's clock is ahead by no more than the tolerated lead
\* and is never set back, librrd is never handed a timestamp that it refuses,
\* through delays, bursts, lines it does not take and restarts.
THEOREM NeverBackwardsCorrect == Spec => []NeverBackwards
<1>1. Spec => []SInv
  BY InitSInv, NextSInv, PTL DEF Spec
<1>2. SInv => NeverBackwards
  BY DEF SInv
<1> QED
  BY <1>1, <1>2, PTL

----------------------------------------------------------------------------
(* A line is positional: each of its values is matched with a column by    *)
(* its place alone.  Each measure point writes at most as many values as   *)
(* it has columns, and if as many, then in the order of the columns; this  *)
(* carries over from the points to the whole line, because a line that     *)
(* fits the archive has no point that fell short.  FlattenSeq is recursive *)
(* over the points: the induction is by the least index that fails.        *)

\* Induction over 1..n, for a set: a least index outside it would have a
\* predecessor inside.
LEMMA SetInduction ==
    ASSUME NEW n \in Nat, NEW D, 1 \in D,
           \A m \in 1..n : m \in D /\ m < n => m + 1 \in D
    PROVE  \A m \in 1..n : m \in D
<1> DEFINE S == (1..n) \ D
<1> SUFFICES ASSUME S # {} PROVE FALSE
  OBVIOUS
<1>1. S \subseteq Nat
  OBVIOUS
<1> HIDE DEF S
<1>2. PICK x \in S : \A y \in S : ~ (<<y, x>> \in OpToRel(<, Nat))
  BY <1>1, NatLessThanWellFounded, WFMin
<1>3. \A y \in S : ~ (y < x)
  <2> SUFFICES ASSUME NEW y \in S PROVE ~ (y < x)
    OBVIOUS
  <2>1. ~ (<<y, x>> \in {ss \in Nat \X Nat : ss[1] < ss[2]})
    BY <1>2, Zenon DEF OpToRel
  <2> QED BY <1>1, <2>1, SMT
<1>4. x \in 1..n /\ x \notin D /\ x # 1
  BY DEF S
<1>5. x - 1 \in 1..n /\ x - 1 < x /\ x - 1 < n /\ (x - 1) + 1 = x
  BY <1>4
<1>6. x - 1 \in D
  BY <1>3, <1>5 DEF S
<1> QED BY <1>4, <1>5, <1>6

\* fl are the concatenations of the first sequences of s.
Flattens(fl, s, n) == fl = [i \in 1..n |-> IF i = 1 THEN s[i] ELSE fl[i-1] \o s[i]]

\* There are such concatenations: what is recursively defined exists.
LEMMA Recursion ==
    ASSUME NEW W, NEW n \in Nat \ {0}, NEW s \in [1..n -> Seq(W)]
    PROVE  \E fl \in [1..n -> Seq(W)] : Flattens(fl, s, n)
<1> DEFINE D == {m \in 1..n : \E fl \in [1..m -> Seq(W)] :
                   fl = [i \in 1..m |-> IF i = 1 THEN s[i] ELSE fl[i-1] \o s[i]]}
<1>1. 1 \in D
  <2> DEFINE fl == [i \in 1..1 |-> s[i]]
  <2>1. fl \in [1..1 -> Seq(W)]
    OBVIOUS
  <2>2. fl = [i \in 1..1 |-> IF i = 1 THEN s[i] ELSE fl[i-1] \o s[i]]
    OBVIOUS
  <2>3. 1 \in 1..n
    OBVIOUS
  <2> HIDE DEF fl
  <2> QED BY <2>1, <2>2, <2>3
<1>2. ASSUME NEW m \in 1..n, m \in D, m < n PROVE m + 1 \in D
  <2>1. PICK g \in [1..m -> Seq(W)] :
           g = [i \in 1..m |-> IF i = 1 THEN s[i] ELSE g[i-1] \o s[i]]
    BY <1>2
  <2> DEFINE fl == [i \in 1..(m + 1) |-> IF i <= m THEN g[i] ELSE g[m] \o s[m + 1]]
  <2>2. m + 1 \in 1..n /\ m \in 1..m
    BY <1>2
  <2>3. fl \in [1..(m + 1) -> Seq(W)]
    <3>1. g[m] \in Seq(W) /\ s[m + 1] \in Seq(W)
      BY <2>2
    <3>2. g[m] \o s[m + 1] \in Seq(W)
      BY <3>1
    <3> QED BY <3>2
  <2>4. ASSUME NEW i \in 1..(m + 1)
        PROVE  fl[i] = IF i = 1 THEN s[i] ELSE fl[i-1] \o s[i]
    <3>1. CASE i <= m
      <4>1. i \in 1..m /\ (i # 1 => i - 1 \in 1..m /\ i - 1 \in 1..(m + 1) /\ i - 1 <= m)
        BY <3>1
      <4>2. g[i] = IF i = 1 THEN s[i] ELSE g[i-1] \o s[i]
        BY <2>1, <4>1, Zenon
      <4>3. fl[i] = g[i] /\ (i # 1 => fl[i-1] = g[i-1])
        BY <3>1, <4>1
      <4> HIDE DEF fl
      <4> QED BY <4>2, <4>3
    <3>2. CASE i = m + 1
      <4>1. i # 1 /\ i - 1 = m /\ ~(i <= m) /\ m \in 1..(m + 1) /\ m <= m
        BY <3>2
      <4>2. fl[i] = g[m] \o s[m + 1] /\ fl[m] = g[m]
        BY <4>1
      <4> HIDE DEF fl
      <4> QED BY <3>2, <4>1, <4>2
    <3> QED BY <3>1, <3>2
  <2>5. fl = [i \in 1..(m + 1) |-> IF i = 1 THEN s[i] ELSE fl[i-1] \o s[i]]
    <3>1. fl = [i \in 1..(m + 1) |-> fl[i]]
      OBVIOUS
    <3> HIDE DEF fl
    <3> QED BY <2>4, <3>1
  <2> HIDE DEF fl
  <2> QED BY <2>2, <2>3, <2>5
<1> HIDE DEF D
<1>3. n \in 1..n
  OBVIOUS
<1>4. n \in D
  BY <1>1, <1>2, <1>3, SetInduction
<1> QED BY <1>4 DEF D, Flattens

\* FlattenSeq(s) is the last of them.
LEMMA Flat ==
    ASSUME NEW W, NEW n \in Nat \ {0}, NEW s \in [1..n -> Seq(W)], Len(s) = n
    PROVE  \E fl : Flattens(fl, s, n) /\ FlattenSeq(s) = fl[n]
<1>1. PICK fl \in [1..n -> Seq(W)] : Flattens(fl, s, n)
  BY Recursion
<1> DEFINE flatten[i \in 1..n] == IF i = 1 THEN s[i] ELSE flatten[i-1] \o s[i]
<1>2. Flattens(flatten, s, n)
  BY <1>1, Zenon DEF flatten, Flattens
<1>3. FlattenSeq(s) = flatten[n]
  BY n # 0, SMT DEF FlattenSeq, flatten
<1> HIDE DEF flatten
<1> QED BY <1>2, <1>3, Zenon

\* a is no longer than b, and if as long, then related to it place by place.
Aligns(R, a, b) ==
    /\ Len(a) <= Len(b)
    /\ Len(a) = Len(b) => \A j \in 1..Len(a) : <<a[j], b[j]>> \in R

\* Aligned sequences stay aligned when they are joined: if the whole is as
\* long, so is each part, and no part shifts what follows it.
LEMMA JoinAligns ==
    ASSUME NEW V, NEW W, NEW R,
           NEW a \in Seq(V), NEW b \in Seq(W), NEW c \in Seq(V), NEW d \in Seq(W),
           Aligns(R, a, b), Aligns(R, c, d)
    PROVE  Aligns(R, a \o c, b \o d)
<1>1. /\ Len(a) \in Nat /\ Len(b) \in Nat /\ Len(c) \in Nat /\ Len(d) \in Nat
      /\ Len(a \o c) = Len(a) + Len(c) /\ Len(b \o d) = Len(b) + Len(d)
      /\ Len(a) <= Len(b) /\ Len(c) <= Len(d)
  BY DEF Aligns
<1>2. Len(a \o c) <= Len(b \o d)
  BY <1>1
<1>3. ASSUME Len(a \o c) = Len(b \o d), NEW j \in 1..Len(a \o c)
      PROVE  <<(a \o c)[j], (b \o d)[j]>> \in R
  <2>1. Len(a) = Len(b) /\ Len(c) = Len(d)
    BY <1>1, <1>3
  <2>2. CASE j <= Len(a)
    <3>1. (a \o c)[j] = a[j] /\ (b \o d)[j] = b[j] /\ j \in 1..Len(a)
      BY <1>1, <2>1, <2>2
    <3> QED BY <2>1, <3>1 DEF Aligns
  <2>3. CASE j > Len(a)
    <3>1. /\ (a \o c)[j] = c[j - Len(a)] /\ (b \o d)[j] = d[j - Len(a)]
          /\ j - Len(a) \in 1..Len(c)
      BY <1>1, <2>1, <2>3
    <3> QED BY <2>1, <3>1 DEF Aligns
  <2>4. Len(a \o c) \in Nat
    BY <1>1
  <2>5. j <= Len(a) \/ j > Len(a)
    BY <1>1, <2>4
  <2> QED BY <2>2, <2>3, <2>5
<1> QED BY <1>2, <1>3 DEF Aligns

\* So do any number of them.
LEMMA FlattenAligns ==
    ASSUME NEW V, NEW W, NEW R, NEW n \in Nat \ {0},
           NEW a \in [1..n -> Seq(V)], Len(a) = n,
           NEW b \in [1..n -> Seq(W)], Len(b) = n,
           \A i \in 1..n : Aligns(R, a[i], b[i])
    PROVE  FlattenSeq(a) \in Seq(V) /\ Aligns(R, FlattenSeq(a), FlattenSeq(b))
<1>1. PICK fa : Flattens(fa, a, n) /\ FlattenSeq(a) = fa[n]
  BY ONLY n \in Nat \ {0}, a \in [1..n -> Seq(V)], Len(a) = n, Flat
<1>2. PICK fb : Flattens(fb, b, n) /\ FlattenSeq(b) = fb[n]
  BY ONLY n \in Nat \ {0}, b \in [1..n -> Seq(W)], Len(b) = n, Flat
<1> DEFINE D == {m \in 1..n : fa[m] \in Seq(V) /\ fb[m] \in Seq(W) /\ Aligns(R, fa[m], fb[m])}
<1>3. \A i \in 1..n : fa[i] = IF i = 1 THEN a[i] ELSE fa[i-1] \o a[i]
  BY <1>1, Zenon DEF Flattens
<1>4. \A i \in 1..n : fb[i] = IF i = 1 THEN b[i] ELSE fb[i-1] \o b[i]
  BY <1>2, Zenon DEF Flattens
<1>5. 1 \in D
  <2>1. 1 \in 1..n
    OBVIOUS
  <2>2. fa[1] = a[1] /\ fb[1] = b[1]
    BY <1>3, <1>4, <2>1, Zenon
  <2> QED BY <2>1, <2>2
<1>6. ASSUME NEW m \in 1..n, m \in D, m < n PROVE m + 1 \in D
  <2>1. m + 1 \in 1..n /\ m + 1 # 1 /\ (m + 1) - 1 = m
    BY <1>6
  <2>2. fa[m + 1] = fa[m] \o a[m + 1]
    BY <1>3, <2>1, Zenon
  <2>3. fb[m + 1] = fb[m] \o b[m + 1]
    BY <1>4, <2>1, Zenon
  <2>4. fa[m] \in Seq(V) /\ fb[m] \in Seq(W) /\ Aligns(R, fa[m], fb[m])
    BY <1>6
  <2>5. a[m + 1] \in Seq(V) /\ b[m + 1] \in Seq(W) /\ Aligns(R, a[m + 1], b[m + 1])
    BY <2>1
  <2>6. Aligns(R, fa[m + 1], fb[m + 1])
    BY ONLY <2>2, <2>3, <2>4, <2>5, JoinAligns
  <2>7. fa[m + 1] \in Seq(V) /\ fb[m + 1] \in Seq(W)
    BY <2>2, <2>3, <2>4, <2>5
  <2> QED BY <2>1, <2>6, <2>7
<1> HIDE DEF D
<1>7. n \in 1..n
  OBVIOUS
<1>8. n \in D
  BY <1>5, <1>6, <1>7, SetInduction
<1> QED BY <1>1, <1>2, <1>8 DEF D

\* The same of a measure point's values m and its columns d.
Matches(m, d) ==
    /\ IsList(m) /\ IsList(d)
    /\ Len(m) <= Len(d)
    /\ Len(m) = Len(d) => \A j \in 1..Len(m) : m[j].of = d[j]

\* A function on 1..n is a list.
LEMMA ListOf ==
    ASSUME NEW n \in Nat, NEW f, f = [i \in 1..n |-> f[i]]
    PROVE  IsList(f) /\ Len(f) = n /\ DOMAIN f = 1..n /\ f \in Seq({f[i] : i \in 1..n})
<1> DEFINE V == {f[i] : i \in 1..n}
<1>1. f \in [1..n -> V]
  BY Zenon
<1> HIDE DEF V
<1>2. f \in Seq(V) /\ Len(f) = n
  BY <1>1
<1> QED BY <1>2 DEF IsList, V

\* A point with one column (nbpoints 1) reports one value, of that column.
LEMMA OnePoint ==
    ASSUME NEW p, NEW is, p.fn \notin {"meminfo", "memcached", "mysqlgstatus"}
    PROVE  Matches(<<Value(p, p.fn, is)>>, DSdef(p))
<1>1. /\ Nbpoints(p) = 1
      /\ Tagsub(p, 1) = p.fn
  BY DEF Nbpoints, Tagsub
<1>2. DSdef(p) = <<<<p.src, p.fn>>>>
  BY <1>1 DEF DSdef
<1>3. Value(p, p.fn, is).of = <<p.src, p.fn>>
  BY DEF Value
<1> DEFINE v == Value(p, p.fn, is)
           c == <<p.src, p.fn>>
<1> HIDE DEF v, c
<1>4. /\ <<v>> = [i \in 1..1 |-> <<v>>[i]] /\ <<c>> = [i \in 1..1 |-> <<c>>[i]]
      /\ <<v>>[1] = v /\ <<c>>[1] = c
  OBVIOUS
<1>5. IsList(<<v>>) /\ IsList(<<c>>) /\ Len(<<v>>) = 1 /\ Len(<<c>>) = 1
  BY DEF IsList
<1> QED BY <1>2, <1>3, <1>4, <1>5 DEF Matches, v, c

\* m has a value for each key, in the order of the keys.
InKeyOrder(m, p) ==
    /\ m = [i \in DOMAIN p.keys |-> m[i]]
    /\ \A i \in DOMAIN p.keys : m[i].of = <<p.src, p.keys[i]>>

\* MMemcached and MMySQLGStatus report their variables in the order of the
\* map their columns come from.
LEMMA KeyedPoint ==
    ASSUME NEW p, p.fn \in {"memcached", "mysqlgstatus"}, IsList(p.keys),
           NEW m, InKeyOrder(m, p)
    PROVE  Matches(m, DSdef(p))
<1> DEFINE n == Len(p.keys)
           d == DSdef(p)
<1>1. n \in Nat /\ DOMAIN p.keys = 1..n
  BY DEF IsList
<1>2. Nbpoints(p) = n /\ \A i \in 1..n : Tagsub(p, i) = p.keys[i]
  BY DEF Nbpoints, Tagsub
<1>3. d = [i \in 1..n |-> <<p.src, p.keys[i]>>]
  BY <1>2 DEF DSdef
<1>4. d = [i \in 1..n |-> d[i]] /\ \A i \in 1..n : d[i] = <<p.src, p.keys[i]>>
  BY <1>3
<1>5. m = [i \in 1..n |-> m[i]] /\ \A i \in 1..n : m[i].of = <<p.src, p.keys[i]>>
  BY <1>1, Zenon DEF InKeyOrder
<1>6. n \in Nat /\ d = [i \in 1..n |-> d[i]] /\ m = [i \in 1..n |-> m[i]]
  BY <1>1, <1>4, <1>5
<1> HIDE DEF n, d
<1>7. IsList(d) /\ Len(d) = n
  BY ONLY <1>6, ListOf
<1>8. IsList(m) /\ Len(m) = n
  BY ONLY <1>6, ListOf
<1>9. \A i \in 1..n : m[i].of = d[i]
  BY <1>4, <1>5
<1>10. /\ Len(m) = Len(d) /\ Len(m) \in Nat
       /\ \A j \in 1..Len(m) : m[j].of = d[j]
  BY <1>6, <1>7, <1>8, <1>9, Zenon
<1>11. Matches(m, d)
  <2>1. Len(m) <= Len(d)
    BY ONLY <1>10
  <2> QED BY <1>7, <1>8, <1>10, <2>1, Zenon DEF Matches
<1> QED BY <1>11 DEF d

\* MPmeminfo reports its six values in the order of its tags; without
\* /proc/meminfo it reports one less.
LEMMA MeminfoPoint ==
    ASSUME NEW p, NEW unread, p.fn = "meminfo"
    PROVE  Matches(MPmeminfo(p, unread), DSdef(p))
<1> DEFINE of == <<"free", "buffers", "cached", "used", "sw_used", "sw_free">>
           d  == DSdef(p)
           m  == MPmeminfo(p, unread)
<1>0. DOMAIN of = 1..6
  OBVIOUS
<1>1. Nbpoints(p) = 6 /\ \A i \in 1..6 : Tagsub(p, i) = of[i]
  BY DEF Nbpoints, Tagsub
<1>2. d = [i \in 1..6 |-> <<p.src, of[i]>>]
  BY <1>1 DEF DSdef
<1>3. CASE p.src \in unread
  <2>1. m = [i \in 1..5 |-> Value(p, "free", "U")]
    BY <1>3 DEF MPmeminfo
  <2>2. m = [i \in 1..5 |-> m[i]] /\ d = [i \in 1..6 |-> d[i]]
    BY <1>2, <2>1
  <2> HIDE DEF m, d
  <2>3. IsList(m) /\ IsList(d) /\ Len(m) = 5 /\ Len(d) = 6
    BY <2>2, ListOf
  <2>4. Matches(m, d)
    BY <2>3 DEF Matches
  <2> QED BY <2>4 DEF m, d
<1>4. CASE p.src \notin unread
  <2>1. m = [i \in 1..6 |-> Value(p, of[i], "number")]
    BY <1>0, <1>4 DEF MPmeminfo
  <2> HIDE DEF of
  <2>2. m = [i \in 1..6 |-> m[i]] /\ d = [i \in 1..6 |-> d[i]]
    BY <1>2, <2>1
  <2>3. \A i \in 1..6 : m[i].of = d[i]
    BY <1>2, <2>1 DEF Value
  <2> HIDE DEF m, d
  <2>4. IsList(m) /\ IsList(d) /\ Len(m) = 6 /\ Len(d) = 6
    BY <2>2, ListOf
  <2>5. Matches(m, d)
    BY <2>3, <2>4 DEF Matches
  <2> QED BY <2>5 DEF m, d
<1> QED BY <1>3, <1>4

\* Every measure function reports what its columns say, but conncount's: it
\* reads the load average into a column named conncount (qimeasure.cpp:1093).
LEMMA PointMatches ==
    ASSUME NEW p, NEW unread, p.fn # "conncount",
           p.fn \in {"memcached", "mysqlgstatus"} => IsList(p.keys)
    PROVE  Matches(Measured(p, unread), DSdef(p))
<1>1. CASE p.fn = "meminfo"
  <2>1. Measured(p, unread) = MPmeminfo(p, unread)
    BY <1>1 DEF Measured
  <2> QED BY <1>1, <2>1, MeminfoPoint
<1>2. CASE p.fn = "memcached"
  <2> DEFINE m == MMemcached(p, unread)
  <2>1. Measured(p, unread) = m
    BY <1>2 DEF Measured
  <2>2. m = [i \in DOMAIN p.keys |-> m[i]]
    BY DEF MMemcached
  <2>3. \A i \in DOMAIN p.keys : m[i].of = <<p.src, p.keys[i]>>
    BY DEF MMemcached, Read, Value
  <2> HIDE DEF m
  <2>4. p.fn \in {"memcached", "mysqlgstatus"} /\ IsList(p.keys)
    BY <1>2
  <2>5. InKeyOrder(m, p)
    BY <2>2, <2>3, Zenon DEF InKeyOrder
  <2>6. Matches(m, DSdef(p))
    BY ONLY <2>4, <2>5, KeyedPoint
  <2> QED BY <2>1, <2>6
<1>3. CASE p.fn = "mysqlgstatus"
  <2> DEFINE m == MMySQLGStatus(p, unread)
  <2>1. Measured(p, unread) = m
    BY <1>3 DEF Measured
  <2>2. m = [i \in DOMAIN p.keys |-> m[i]]
    BY DEF MMySQLGStatus
  <2>3. \A i \in DOMAIN p.keys : m[i].of = <<p.src, p.keys[i]>>
    BY DEF MMySQLGStatus, Read, Value
  <2> HIDE DEF m
  <2>4. p.fn \in {"memcached", "mysqlgstatus"} /\ IsList(p.keys)
    BY <1>3
  <2>5. InKeyOrder(m, p)
    BY <2>2, <2>3, Zenon DEF InKeyOrder
  <2>6. Matches(m, DSdef(p))
    BY ONLY <2>4, <2>5, KeyedPoint
  <2> QED BY <2>1, <2>6
<1>4. CASE p.fn \notin {"meminfo", "memcached", "mysqlgstatus"}
  <2>1. \E is : Measured(p, unread) = <<Value(p, p.fn, is)>>
    BY <1>4 DEF Measured, MPdiskstats, MPnetstats, MPloadavg, MPfilevalue, MPfreespace, Read
  <2> QED BY <1>4, <2>1, OnePoint
<1> QED BY <1>1, <1>2, <1>3, <1>4

\* From the points to the line.
LEMMA LineMatches ==
    ASSUME NEW a, IsList(a), NEW b, IsList(b), Len(a) = Len(b), Len(a) # 0,
           \A i \in 1..Len(a) : Matches(a[i], b[i]),
           Len(FlattenSeq(a)) = Len(FlattenSeq(b))
    PROVE  \A i \in DOMAIN FlattenSeq(a) : FlattenSeq(a)[i].of = FlattenSeq(b)[i]
<1> DEFINE n == Len(a)
           V == UNION {{a[i][j] : j \in 1..Len(a[i])} : i \in 1..n}
           W == UNION {{b[i][j] : j \in 1..Len(b[i])} : i \in 1..n}
           R == {x \in V \X W : x[1].of = x[2]}
<1>0. /\ n \in Nat \ {0} /\ Len(b) = n
      /\ a = [i \in 1..n |-> a[i]] /\ b = [i \in 1..n |-> b[i]]
  BY DEF IsList
<1>9. \A i \in 1..n : Matches(a[i], b[i])
  OBVIOUS
<1> HIDE DEF n
<1>1. ASSUME NEW i \in 1..n PROVE a[i] \in Seq(V) /\ b[i] \in Seq(W)
  <2>1. /\ Len(a[i]) \in Nat /\ a[i] = [j \in 1..Len(a[i]) |-> a[i][j]]
        /\ Len(b[i]) \in Nat /\ b[i] = [j \in 1..Len(b[i]) |-> b[i][j]]
    BY <1>9, Zenon DEF Matches, IsList
  <2>2. /\ \A j \in 1..Len(a[i]) : a[i][j] \in V
        /\ \A j \in 1..Len(b[i]) : b[i][j] \in W
    OBVIOUS
  <2> HIDE DEF V, W
  <2>3. a[i] \in [1..Len(a[i]) -> V]
    BY <2>1, <2>2, Zenon
  <2>4. b[i] \in [1..Len(b[i]) -> W]
    BY <2>1, <2>2, Zenon
  <2>5. \A U, k, f : k \in Nat /\ f \in [1..k -> U] => f \in Seq(U)
    OBVIOUS
  <2> QED BY <2>1, <2>3, <2>4, <2>5, Zenon
<1>2. ASSUME NEW i \in 1..n PROVE Aligns(R, a[i], b[i])
  <2>1. Len(a[i]) <= Len(b[i])
    BY <1>9, Zenon DEF Matches
  <2>2. ASSUME Len(a[i]) = Len(b[i]), NEW j \in 1..Len(a[i]) PROVE <<a[i][j], b[i][j]>> \in R
    <3>1. a[i][j].of = b[i][j]
      BY <1>9, <2>2, Zenon DEF Matches
    <3>2. a[i][j] \in V /\ b[i][j] \in W
      BY <2>2
    <3> HIDE DEF V, W
    <3> QED BY <3>1, <3>2
  <2> HIDE DEF R
  <2> QED BY <2>1, <2>2 DEF Aligns
<1> HIDE DEF V, W
<1>3. a \in [1..n -> Seq(V)] /\ b \in [1..n -> Seq(W)]
  BY <1>0, <1>1, Zenon
<1>4. Len(a) = n /\ Len(b) = n
  BY <1>0 DEF n
<1> HIDE DEF R
<1>5. FlattenSeq(a) \in Seq(V) /\ Aligns(R, FlattenSeq(a), FlattenSeq(b))
  BY <1>0, <1>2, <1>3, <1>4, FlattenAligns
<1>6. \A i \in 1..Len(FlattenSeq(a)) : <<FlattenSeq(a)[i], FlattenSeq(b)[i]>> \in R
  BY <1>5, Zenon DEF Aligns
<1>7. \A U, q : q \in Seq(U) => DOMAIN q = 1..Len(q)
  OBVIOUS
<1>8. DOMAIN FlattenSeq(a) = 1..Len(FlattenSeq(a))
  BY <1>5, <1>7, Zenon
<1> QED BY <1>6, <1>8 DEF R

\* A line that has as many values as the archive has columns has each of
\* them in its place, whatever could not be read.
LEMMA ValuesMatch ==
    ASSUME NEW l \in Lmps, NEW f, \A i \in DOMAIN l : l[i].fn # "conncount",
           Fits(Values(l, f), Columns(l))
    PROVE  \A i \in DOMAIN Values(l, f) : Values(l, f)[i].of = Columns(l)[i]
<1> DEFINE n == Len(l)
           a == [i \in 1..n |-> Measured(l[i], f)]
           b == [i \in 1..n |-> DSdef(l[i])]
<1>1. n \in Nat /\ DOMAIN l = 1..n
  BY LmpsAssumption DEF IsList
<1>2. Values(l, f) = FlattenSeq(a) /\ Columns(l) = FlattenSeq(b)
  BY <1>1 DEF Values, Columns
<1>3. a = [i \in 1..n |-> a[i]] /\ b = [i \in 1..n |-> b[i]]
  OBVIOUS
<1>4. IsList(a) /\ IsList(b) /\ Len(a) = n /\ Len(b) = n
  <2> HIDE DEF a, b, n
  <2> QED BY <1>1, <1>3, ListOf
<1>5. \A i \in 1..n : Matches(a[i], b[i])
  <2> SUFFICES ASSUME NEW i \in 1..n PROVE Matches(Measured(l[i], f), DSdef(l[i]))
    OBVIOUS
  <2>1. l[i].fn \in {"memcached", "mysqlgstatus"} => IsList(l[i].keys)
    BY <1>1, LmpsAssumption
  <2>2. l[i].fn # "conncount"
    BY <1>1
  <2> HIDE DEF n, a, b
  <2> QED BY ONLY <2>1, <2>2, PointMatches
<1> HIDE DEF n, a, b
<1>6. CASE n = 0
  <2>1. Len(a) = 0 /\ a = << >>
    BY <1>3, <1>6
  <2>2. FlattenSeq(a) = << >>
    BY <2>1 DEF FlattenSeq
  <2> QED BY <1>2, <2>2
<1>7. CASE n # 0
  <2>1. Len(FlattenSeq(a)) = Len(FlattenSeq(b))
    BY <1>2, Zenon DEF Fits
  <2>2. n \in Nat \ {0}
    BY <1>1, <1>7
  <2>3. \A i \in DOMAIN FlattenSeq(a) : FlattenSeq(a)[i].of = FlattenSeq(b)[i]
    BY ONLY <2>1, <2>2, <1>4, <1>5, LineMatches
  <2> QED BY <1>2, <2>3, Zenon
<1> QED BY <1>6, <1>7

\* Whatever cannot be read, each value librrd accepts is for the column it is
\* put into, although nothing in a data line (RecordSet::measure, lineread)
\* says which: for every list of measure points but those with conncount,
\* of which it is false.
THEOREM InItsColumnCorrect ==
    ASSUME \A l \in Lmps : \A i \in DOMAIN l : l[i].fn # "conncount"
    PROVE  Spec => InItsColumn
<1>1. TypeOK /\ LineRead /\ outcome' = "recorded" =>
        LET values == Values(lmp, Head(rx).failing)
        IN  \A i \in DOMAIN values : values[i].of = Columns(lmp)[i]
  <2> SUFFICES ASSUME TypeOK, LineRead, outcome' = "recorded"
      PROVE \A i \in DOMAIN Values(lmp, Head(rx).failing) :
              Values(lmp, Head(rx).failing)[i].of = Columns(lmp)[i]
    BY Zenon
  <2>1. lmp \in Lmps
    BY DEF TypeOK
  <2>2. Fits(Values(lmp, Head(rx).failing), Columns(lmp))
    BY SMT DEF LineRead, RrdUpdate
  <2> QED BY <2>1, <2>2, ValuesMatch
<1>2. TypeOK /\ [Next]_vars => [LineRead /\ outcome' = "recorded" =>
        LET values == Values(lmp, Head(rx).failing)
        IN  \A i \in DOMAIN values : values[i].of = Columns(lmp)[i]]_vars
  BY <1>1
<1> QED BY <1>2, TypeCorrect, PTL DEF Spec, InItsColumn

----------------------------------------------------------------------------
(* As many values as columns.                                              *)

\* Lists of sequences that are as long one by one are as long in all: any
\* two sequences of the same length are aligned, both ways round.
LEMMA FlattenLength ==
    ASSUME NEW a, IsList(a), NEW b, IsList(b), Len(a) = Len(b), Len(a) # 0,
           \A i \in 1..Len(a) : IsList(a[i]) /\ IsList(b[i]) /\ Len(a[i]) = Len(b[i])
    PROVE  Len(FlattenSeq(a)) = Len(FlattenSeq(b))
<1> DEFINE n == Len(a)
           V == UNION {{a[i][j] : j \in 1..Len(a[i])} : i \in 1..n}
           W == UNION {{b[i][j] : j \in 1..Len(b[i])} : i \in 1..n}
<1>1. /\ n \in Nat \ {0} /\ Len(b) = n
      /\ a = [i \in 1..n |-> a[i]] /\ b = [i \in 1..n |-> b[i]]
      /\ \A i \in 1..n : IsList(a[i]) /\ IsList(b[i]) /\ Len(a[i]) = Len(b[i])
  BY DEF IsList
<1> HIDE DEF n
<1>2. ASSUME NEW i \in 1..n PROVE a[i] \in Seq(V) /\ b[i] \in Seq(W)
  <2>1. /\ Len(a[i]) \in Nat /\ a[i] = [j \in 1..Len(a[i]) |-> a[i][j]]
        /\ Len(b[i]) \in Nat /\ b[i] = [j \in 1..Len(b[i]) |-> b[i][j]]
    BY <1>1, Zenon DEF IsList
  <2>2. /\ \A j \in 1..Len(a[i]) : a[i][j] \in V
        /\ \A j \in 1..Len(b[i]) : b[i][j] \in W
    OBVIOUS
  <2> HIDE DEF V, W
  <2>3. a[i] \in [1..Len(a[i]) -> V] /\ b[i] \in [1..Len(b[i]) -> W]
    BY <2>1, <2>2, Zenon
  <2>4. \A U, k, f : k \in Nat /\ f \in [1..k -> U] => f \in Seq(U)
    OBVIOUS
  <2> QED BY <2>1, <2>3, <2>4, Zenon
<1>3. ASSUME NEW i \in 1..n PROVE Aligns(V \X W, a[i], b[i]) /\ Aligns(W \X V, b[i], a[i])
  <2> HIDE DEF V, W
  <2>1. Len(a[i]) \in Nat /\ Len(a[i]) = Len(b[i]) /\ a[i] \in Seq(V) /\ b[i] \in Seq(W)
    BY <1>1, <1>2
  <2>2. \A j \in 1..Len(a[i]) : a[i][j] \in V /\ b[i][j] \in W
    BY <2>1
  <2> QED BY <2>1, <2>2 DEF Aligns
<1> HIDE DEF V, W
<1>4. a \in [1..n -> Seq(V)] /\ b \in [1..n -> Seq(W)]
  BY <1>1, <1>2, Zenon
<1>5. n \in Nat \ {0} /\ Len(a) = n /\ Len(b) = n
  BY <1>1 DEF n
<1>6. FlattenSeq(a) \in Seq(V) /\ Aligns(V \X W, FlattenSeq(a), FlattenSeq(b))
  <2> DEFINE R == V \X W
  <2>1. \A i \in 1..n : Aligns(R, a[i], b[i])
    BY <1>3
  <2> HIDE DEF R
  <2>2. FlattenSeq(a) \in Seq(V) /\ Aligns(R, FlattenSeq(a), FlattenSeq(b))
    BY ONLY <2>1, <1>4, <1>5, FlattenAligns
  <2> QED BY <2>2 DEF R
<1>7. FlattenSeq(b) \in Seq(W) /\ Aligns(W \X V, FlattenSeq(b), FlattenSeq(a))
  <2> DEFINE R == W \X V
  <2>1. \A i \in 1..n : Aligns(R, b[i], a[i])
    BY <1>3
  <2> HIDE DEF R
  <2>2. FlattenSeq(b) \in Seq(W) /\ Aligns(R, FlattenSeq(b), FlattenSeq(a))
    BY ONLY <2>1, <1>4, <1>5, FlattenAligns
  <2> QED BY <2>2 DEF R
<1> QED BY <1>6, <1>7 DEF Aligns

\* Every measure function writes as many values as its measure point announces
\* (get_nbpoints), whatever it can read, but for meminfo's without its file.
LEMMA PointFits ==
    ASSUME NEW p, NEW unread, ~(p.fn = "meminfo" /\ p.src \in unread),
           p.fn \in {"memcached", "mysqlgstatus"} => IsList(p.keys)
    PROVE  /\ IsList(Measured(p, unread)) /\ IsList(DSdef(p))
           /\ Len(Measured(p, unread)) = Len(DSdef(p))
<1> DEFINE m == Measured(p, unread)
           d == DSdef(p)
           n == Nbpoints(p)
<1>1. n \in Nat /\ d = [i \in 1..n |-> d[i]] /\ m = [i \in 1..n |-> m[i]]
  <2>1. CASE p.fn \in {"memcached", "mysqlgstatus"}
    <3>1. n = Len(p.keys) /\ n \in Nat /\ DOMAIN p.keys = 1..n
      BY <2>1 DEF Nbpoints, IsList
    <3>2. m = [i \in DOMAIN p.keys |-> m[i]]
      BY <2>1 DEF Measured, MMemcached, MMySQLGStatus
    <3>3. d = [i \in 1..n |-> d[i]]
      BY DEF DSdef
    <3> HIDE DEF m, d, n
    <3> QED BY <3>1, <3>2, <3>3
  <2>2. CASE p.fn = "meminfo"
    <3>1. n = 6 /\ d = [i \in 1..n |-> d[i]]
      BY <2>2 DEF Nbpoints, DSdef
    <3>2. \E a, b, c, x, y, z : m = [j \in DOMAIN <<a, b, c, x, y, z>> |-> m[j]]
      BY <2>2 DEF Measured, MPmeminfo
    <3> HIDE DEF m, d, n
    <3> QED BY <3>1, <3>2
  <2>3. CASE p.fn \notin {"memcached", "mysqlgstatus", "meminfo"}
    <3>1. n = 1
      BY <2>3 DEF Nbpoints
    <3>2. \E v : m = <<v>>
      BY <2>3 DEF Measured, MPdiskstats, MPnetstats, MPloadavg, MPfilevalue,
                  MPfreespace, MPconncount
    <3>3. d = [i \in 1..n |-> d[i]]
      BY DEF DSdef
    <3> HIDE DEF m, d, n
    <3>4. m = [i \in 1..1 |-> m[i]]
      BY <3>2
    <3> QED BY <3>1, <3>3, <3>4
  <2> QED BY <2>1, <2>2, <2>3
<1> HIDE DEF m, d, n
<1>2. IsList(m) /\ Len(m) = n
  BY ONLY <1>1, ListOf
<1>3. IsList(d) /\ Len(d) = n
  BY ONLY <1>1, ListOf
<1> QED BY <1>2, <1>3 DEF m, d

\* meminfo is the one exception: for any lists of measure points and anything
\* that cannot be read when a line is measured, the line has as many values as
\* the archive of its set has columns unless /proc/meminfo is both in the list
\* and among what cannot be read.
THEOREM ReportsNbpointsCorrect == Spec => []ReportsNbpoints
<1>1. ASSUME NEW l \in Lmps, NEW f,
             \A i \in DOMAIN l : ~(l[i].fn = "meminfo" /\ l[i].src \in f)
      PROVE  Fits(Values(l, f), Columns(l))
  <2> DEFINE n == Len(l)
             a == [i \in 1..n |-> Measured(l[i], f)]
             b == [i \in 1..n |-> DSdef(l[i])]
  <2>1. n \in Nat /\ DOMAIN l = 1..n
    BY LmpsAssumption DEF IsList
  <2>2. Values(l, f) = FlattenSeq(a) /\ Columns(l) = FlattenSeq(b)
    BY <2>1 DEF Values, Columns
  <2>3. a = [i \in 1..n |-> a[i]] /\ b = [i \in 1..n |-> b[i]]
    OBVIOUS
  <2>4. IsList(a) /\ IsList(b) /\ Len(a) = n /\ Len(b) = n
    <3> HIDE DEF a, b, n
    <3> QED BY <2>1, <2>3, ListOf
  <2>5. \A i \in 1..n : IsList(a[i]) /\ IsList(b[i]) /\ Len(a[i]) = Len(b[i])
    <3> SUFFICES ASSUME NEW i \in 1..n
                 PROVE  /\ IsList(Measured(l[i], f)) /\ IsList(DSdef(l[i]))
                        /\ Len(Measured(l[i], f)) = Len(DSdef(l[i]))
      OBVIOUS
    <3>1. /\ ~(l[i].fn = "meminfo" /\ l[i].src \in f)
          /\ (l[i].fn \in {"memcached", "mysqlgstatus"} => IsList(l[i].keys))
      BY <1>1, <2>1, LmpsAssumption
    <3> HIDE DEF n, a, b
    <3> QED BY ONLY <3>1, PointFits
  <2> HIDE DEF n, a, b
  <2>6. CASE n = 0
    <3>1. Len(a) = 0 /\ Len(b) = 0 /\ a = << >> /\ b = << >>
      BY <2>3, <2>6
    <3>2. FlattenSeq(a) = << >> /\ FlattenSeq(b) = << >>
      BY <3>1 DEF FlattenSeq
    <3> QED BY <2>2, <3>2 DEF Fits
  <2>7. CASE n # 0
    <3>1. Len(FlattenSeq(a)) = Len(FlattenSeq(b))
      BY ONLY <2>4, <2>5, <2>7, FlattenLength
    <3> QED BY <2>2, <3>1, Zenon DEF Fits
  <2> QED BY <2>6, <2>7
<1>2. TypeOK => ReportsNbpoints
  BY <1>1 DEF TypeOK, ReportsNbpoints
<1> QED BY <1>2, TypeCorrect, PTL
=============================================================================
