------------------------- MODULE QigongServiceProofs -------------------------
(***************************************************************************)
(* The probe daemon keeps the promise of ProbeService, for any number of   *)
(* names, connections, addresses and intervals: its steps are matched one  *)
(* by one with those of the abstract service.                              *)
(*                                                                         *)
(* A cycle is an entry of the schedule, so what the measuring loop and the *)
(* clock do to a record set comes down to counting entries: an insertion   *)
(* makes one more, a translation in time is a bijection.                   *)
(***************************************************************************)
EXTENDS QigongProofs, FiniteSetTheorems, FunctionTheorems

USE QigongAssumption

----------------------------------------------------------------------------
(* Counting entries.                                                       *)

LEMMA EntryOf ==
    ASSUME NEW f \in [Slots -> Nat], NEW e
    PROVE  e \in Entries(f) <=> \E s \in Slots : \E i \in 1..f[s] : e = <<s, i>>
  BY DEF Entries

LEMMA EntriesFinite ==
    ASSUME NEW f \in [Slots -> Nat]
    PROVE  /\ IsFiniteSet(Entries(f))
           /\ Cardinality(Entries(f)) \in Nat
  <1> DEFINE Row(s) == {s} \X (1..f[s])
             rows   == {Row(s) : s \in Slots}
             row    == [s \in Slots |-> Row(s)]
  <1>1. IsFiniteSet(Slots)
    <2>1. -MaxLate \in Int /\ MaxAhead \in Int
      OBVIOUS
    <2> QED BY <2>1, FS_Interval DEF Slots
  <1>2. \A s \in Slots : IsFiniteSet(Row(s))
    <2> SUFFICES ASSUME NEW s \in Slots PROVE IsFiniteSet(Row(s))
      OBVIOUS
    <2>1. 1 \in Int /\ f[s] \in Int
      OBVIOUS
    <2>2. IsFiniteSet(1..f[s])
      BY ONLY <2>1, FS_Interval
    <2>3. IsFiniteSet({s})
      BY FS_Singleton
    <2> QED BY <2>2, <2>3, FS_Product
  <1>3. IsFiniteSet(rows)
    <2> HIDE DEF Row
    <2>1. row \in Surjection(Slots, rows)
      BY DEF Surjection
    <2> QED BY <1>1, <2>1, FS_Surjection
  <1>4. \A R \in rows : IsFiniteSet(R)
    BY <1>2
  <1>5. IsFiniteSet(UNION rows)
    <2> HIDE DEF rows
    <2> QED BY <1>3, <1>4, FS_UNION
  <1> QED BY <1>5, FS_CardinalityType DEF Entries

LEMMA NoEntries ==
    ASSUME NEW f \in [Slots -> Nat]
    PROVE  Cardinality(Entries(f)) = 0 <=> \A s \in Slots : f[s] = 0
  <1>1. Entries(f) = {} <=> \A s \in Slots : f[s] = 0
    <2>1. ASSUME NEW s \in Slots, f[s] # 0 PROVE <<s, 1>> \in Entries(f)
      BY <2>1, EntryOf
    <2>2. ASSUME NEW e, e \in Entries(f) PROVE \E s \in Slots : f[s] # 0
      BY <2>2, EntryOf
    <2> QED BY <2>1, <2>2
  <1> QED BY <1>1, EntriesFinite, FS_EmptySet

\* multimap::insert adds one entry.
LEMMA EntriesInsert ==
    ASSUME NEW f \in [Slots -> Nat], NEW k \in Slots
    PROVE  /\ [f EXCEPT ![k] = @ + 1] \in [Slots -> Nat]
           /\ Cardinality(Entries([f EXCEPT ![k] = @ + 1])) = Cardinality(Entries(f)) + 1
  <1> DEFINE g == [f EXCEPT ![k] = @ + 1]
             new == <<k, f[k] + 1>>
  <1>1. g \in [Slots -> Nat]
    OBVIOUS
  <1>2. \A s \in Slots : g[s] = IF s = k THEN f[s] + 1 ELSE f[s]
    OBVIOUS
  <1> HIDE DEF g
  <1>3. new \notin Entries(f)
    <2> SUFFICES ASSUME NEW s \in Slots, NEW i \in 1..f[s], new = <<s, i>> PROVE FALSE
      BY EntryOf
    <2>1. s = k /\ i = f[k] + 1 /\ f[k] \in Nat
      OBVIOUS
    <2> QED BY <2>1
  <1>4. Entries(g) = Entries(f) \cup {new}
    <2>1. ASSUME NEW e PROVE e \in Entries(g) <=> e \in Entries(f) \/ e = new
      <3>1. \A s \in Slots : f[s] \in Nat /\ g[s] \in Nat
        BY <1>1
      <3>2. ASSUME NEW s \in Slots, NEW i \in 1..g[s], e = <<s, i>>
            PROVE  (\E r \in Slots : \E j \in 1..f[r] : e = <<r, j>>) \/ e = new
        BY <3>1, <3>2, <1>2
      <3>3. ASSUME NEW s \in Slots, NEW i \in 1..f[s], e = <<s, i>>
            PROVE  \E r \in Slots : \E j \in 1..g[r] : e = <<r, j>>
        <4>1. i \in 1..g[s]
          BY <3>1, <1>2
        <4> QED BY <3>3, <4>1
      <3>4. f[k] + 1 \in 1..g[k]
        BY <3>1, <1>2
      <3> QED BY <1>1, <3>2, <3>3, <3>4, EntryOf
    <2> QED BY <2>1
  <1> QED BY <1>1, <1>3, <1>4, EntriesFinite, FS_AddElement DEF g

\* The clock moves every entry by the same amount and loses none.
LEMMA EntriesMove ==
    ASSUME NEW f \in [Slots -> Nat], NEW g \in [Slots -> Nat], NEW d \in Int,
           \A s \in Slots : f[s] > 0 => s - d \in Slots,
           \A s \in Slots : g[s] = IF s + d \in Slots THEN f[s + d] ELSE 0
    PROVE  Cardinality(Entries(g)) = Cardinality(Entries(f))
  <1> DEFINE move == [e \in Entries(f) |-> <<e[1] - d, e[2]>>]
  <1>0. Slots \subseteq Int
    BY DEF Slots
  <1>1. ASSUME NEW s \in Slots, NEW i \in 1..f[s]
        PROVE  /\ <<s, i>> \in Entries(f)
               /\ move[<<s, i>>] = <<s - d, i>>
               /\ <<s - d, i>> \in Entries(g)
    <2>1. <<s, i>> \in Entries(f)
      BY EntryOf
    <2>2. f[s] \in Nat /\ f[s] > 0
      OBVIOUS
    <2>3. s - d \in Slots /\ (s - d) + d = s
      BY <1>0, <2>2
    <2>4. i \in 1..g[s - d]
      BY <2>3
    <2>5. <<s - d, i>> \in Entries(g)
      BY <2>3, <2>4, EntryOf
    <2> QED BY <2>1, <2>5
  <1>2. ASSUME NEW s \in Slots, NEW i \in 1..g[s]
        PROVE  s + d \in Slots /\ i \in 1..f[s + d] /\ (s + d) - d = s
    <2>1. g[s] \in Nat /\ g[s] # 0
      OBVIOUS
    <2> QED BY <1>0, <2>1
  <1>3. move \in [Entries(f) -> Entries(g)]
    <2> SUFFICES ASSUME NEW e \in Entries(f) PROVE move[e] \in Entries(g)
      OBVIOUS
    <2>1. PICK s \in Slots : \E i \in 1..f[s] : e = <<s, i>>
      BY EntryOf
    <2>2. PICK i \in 1..f[s] : e = <<s, i>>
      BY <2>1
    <2>3. move[<<s, i>>] \in Entries(g)
      BY <1>1
    <2> QED BY <2>2, <2>3
  <1>4. ASSUME NEW e1 \in Entries(f), NEW e2 \in Entries(f), move[e1] = move[e2]
        PROVE  e1 = e2
    <2>1. PICK s1 \in Slots : \E i \in 1..f[s1] : e1 = <<s1, i>>
      BY EntryOf
    <2>2. PICK i1 \in 1..f[s1] : e1 = <<s1, i1>>
      BY <2>1
    <2>3. PICK s2 \in Slots : \E i \in 1..f[s2] : e2 = <<s2, i>>
      BY EntryOf
    <2>4. PICK i2 \in 1..f[s2] : e2 = <<s2, i2>>
      BY <2>3
    <2>5. <<s1 - d, i1>> = <<s2 - d, i2>>
      BY <1>1, <1>4, <2>2, <2>4
    <2> QED BY <1>0, <2>2, <2>4, <2>5
  <1>5. ASSUME NEW e \in Entries(g) PROVE \E b \in Entries(f) : move[b] = e
    <2>0. PICK s \in Slots : \E i \in 1..g[s] : e = <<s, i>>
      BY EntryOf
    <2>1. PICK i \in 1..g[s] : e = <<s, i>>
      BY <2>0
    <2>2. <<s + d, i>> \in Entries(f) /\ move[<<s + d, i>>] = <<s, i>>
      BY <1>1, <1>2
    <2> QED BY <2>1, <2>2
  <1> HIDE DEF move
  <1>6. move \in Bijection(Entries(f), Entries(g))
    BY <1>3, <1>4, <1>5, Fun_IsBij
  <1>7. ExistsBijection(Entries(f), Entries(g))
    BY <1>6 DEF ExistsBijection
  <1> QED BY <1>7, EntriesFinite, FS_Bijection

----------------------------------------------------------------------------
(* The cycles of a record set.                                             *)

LEMMA RemainingType ==
    ASSUME Inv, NEW p \in Ptr
    PROVE  /\ Remaining(p) \in [Slots -> Nat]
           /\ \A s \in Slots : Remaining(p)[s] = schedule[p][s] - lmi[p][s]
           /\ \A s \in Slots : schedule[p][s] \in Nat /\ lmi[p][s] \in Nat
  <1>1. \A s \in Slots : /\ schedule[p][s] \in Nat /\ lmi[p][s] \in Nat
                         /\ lmi[p][s] <= schedule[p][s]
    BY DEF Inv, TypeOK, ScheduleLive
  <1>2. \A s \in Slots : schedule[p][s] - lmi[p][s] \in Nat
    BY <1>1
  <1> QED BY <1>1, <1>2 DEF Remaining

LEMMA OutstandingType ==
    ASSUME Inv, NEW p \in Ptr
    PROVE  /\ Outstanding(p) \in Nat
           /\ Outstanding(p) = 0 <=> \A s \in Slots : schedule[p][s] = lmi[p][s]
  <1>1. Remaining(p) \in [Slots -> Nat]
    BY RemainingType
  <1>2. /\ Cardinality(Entries(Remaining(p))) \in Nat
        /\ Cardinality(Entries(Remaining(p))) = 0 <=> \A s \in Slots : Remaining(p)[s] = 0
    BY <1>1, EntriesFinite, NoEntries
  <1> QED BY <1>2, RemainingType DEF Outstanding

LEMMA OutstandingKept ==
    ASSUME NEW p \in Ptr, \A s \in Slots : schedule'[p][s] - lmi'[p][s] = schedule[p][s] - lmi[p][s]
    PROVE  Outstanding(p)' = Outstanding(p)
  <1>1. Remaining(p)' = Remaining(p)
    BY DEF Remaining
  <1> QED BY <1>1 DEF Outstanding

----------------------------------------------------------------------------
(* What the argument needs besides the bookkeeping.                        *)

\* Only a daemon that runs measures, and one that ended has no client and no
\* record set; a re-armed entry falls within the bounds of the schedule.
Alive ==
    /\ polling => proc = "up"
    /\ proc \in {"off", "dead"} => Clients = {} /\ Registered = {}
KnownIntervals == \A p \in Allocated : rs[p].interval \in Intervals
ServiceInv == Inv /\ Alive /\ KnownIntervals

LEMMA DieEmpty ==
    ASSUME NEW how \in {"off", "dead"}, Die(how)
    PROVE  /\ proc' = how /\ Clients' = {} /\ Registered' = {} /\ Allocated' = {}
           /\ ~polling' /\ lines' = {}
           /\ SubscribersOf' = [n \in Names |-> {}]
           /\ CyclesOf' = [n \in Names |-> 0]
  <1>1. Registered' = {}
    BY DEF Die, Registered
  <1>2. Allocated' = {}
    BY DEF Die, Allocated, FreeCell
  <1>3. Clients' = {}
    BY DEF Die, Clients
  <1>4. SubscribersOf' = [n \in Names |-> {}] /\ CyclesOf' = [n \in Names |-> 0]
    BY <1>1 DEF SubscribersOf, CyclesOf
  <1> QED BY <1>1, <1>2, <1>3, <1>4 DEF Die

\* A command, or anything else a connection does, either ends the daemon or
\* leaves it running (or hung, with nothing else changed).
LEMMA SessionAlive ==
    ASSUME ServiceInv, NEW c \in Conns, Session(c)
    PROVE  Alive' /\ KnownIntervals'
  <1> USE DEF ServiceInv
  <1>1. ASSUME NEW how \in {"off", "dead"}, Die(how) PROVE Alive' /\ KnownIntervals'
    BY <1>1, DieEmpty DEF Alive, KnownIntervals
  <1>2. CASE Accept(c) \/ FirstPrompt(c) \/ Doom(c) \/ Qiging(c)
    BY <1>2 DEF Alive, KnownIntervals, Allocated, Accept, FirstPrompt, Doom, Qiging, Speaks,
                Ready, registry, timing
  <1>3. ASSUME NEW P \in SUBSET Ptr, AddSubs(c, P) \/ RemoveSubs(c, P)
        PROVE  KnownIntervals'
    <2>1. \A p \in Ptr : rs'[p].name = rs[p].name /\ rs'[p].interval = rs[p].interval
      <3>1. \A p \in Ptr : rs[p] \in Cell
        BY DEF Inv, TypeOK
      <3> QED BY <1>3, <3>1 DEF AddSubs, RemoveSubs, AddChannel, RemoveChannel, Cell
    <2> QED BY <2>1 DEF KnownIntervals, Allocated
  <1>4. CASE Destroy(c)
    <2>1. subs[c] \in SUBSET Ptr
      BY DEF Inv, TypeOK
    <2> QED BY <1>3, <1>4, <2>1 DEF Destroy, Ready, Alive, timing
  <1>5. CASE Turnoff(c)
    BY <1>1, <1>5 DEF Turnoff
  <1>6. ASSUME NEW n \in Names, NEW i \in Intervals \cup {0}, Create(c, n, i)
        PROVE  Alive' /\ KnownIntervals'
    <2>1. PICK p \in Ptr : rs' = [rs EXCEPT ![p] = [name |-> n, interval |-> i, channels |-> {}]]
      BY <1>6 DEF Create, Allocated
    <2>2. i \in Intervals
      BY <1>6 DEF Create
    <2> QED BY <1>6, <2>1, <2>2 DEF Create, Speaks, Ready, Alive, timing, KnownIntervals,
                                     Allocated, Inv, TypeOK
  <1>7. ASSUME NEW S \in SUBSET Names,
               \/ Delete(c, S) \/ DeleteFault(c, S) \/ Activate(c, S)
               \/ Subscribe(c, S) \/ Unsubscribe(c, S) \/ UnsubscribeFault(c, S)
        PROVE  Alive' /\ KnownIntervals'
    <2>0. Found(S) \in SUBSET Ptr
      BY FoundAllocated DEF Inv, Allocated
    <2>1. CASE Delete(c, S)
      BY <2>1 DEF Delete, Suppress, Speaks, Ready, Alive, KnownIntervals, Allocated, FreeCell
    <2>2. CASE DeleteFault(c, S)
      BY <1>1, <2>2 DEF DeleteFault
    <2>3. CASE Activate(c, S)
      BY <2>3 DEF Activate, Speaks, Ready, Alive, KnownIntervals, Allocated, registry
    <2>4. CASE Subscribe(c, S)
      BY <1>3, <2>0, <2>4 DEF Subscribe, Speaks, Ready, Alive, timing
    <2>5. CASE Unsubscribe(c, S)
      BY <1>3, <2>0, <2>5 DEF Unsubscribe, Speaks, Ready, Alive, timing
    <2>6. CASE UnsubscribeFault(c, S)
      <3>1. CASE Die("dead")
        BY <1>1, <3>1
      <3>2. CASE proc' = "hung" /\ UNCHANGED <<network, registry, timing, lines, jumps>>
        BY <2>6, <3>2 DEF UnsubscribeFault, Speaks, Ready, Alive, KnownIntervals, Allocated,
                          registry, timing
      <3> QED BY <2>6, <3>1, <3>2 DEF UnsubscribeFault
    <2> QED BY <1>7, <2>1, <2>2, <2>3, <2>4, <2>5, <2>6
  <1> QED BY <1>2, <1>4, <1>5, <1>6, <1>7 DEF Session

LEMMA ServiceInvStep == ServiceInv /\ [Next]_vars => ServiceInv'
  <1> SUFFICES ASSUME ServiceInv, [Next]_vars PROVE Alive' /\ KnownIntervals'
    BY NextStep DEF ServiceInv
  <1>1. ASSUME NEW c \in Conns, Session(c) PROVE Alive' /\ KnownIntervals'
    BY <1>1, SessionAlive
  <1>2. CASE Kill
    BY <1>2, DieEmpty DEF Kill, Alive, KnownIntervals
  <1>3. CASE Poll
    BY <1>3 DEF Poll, PollStart, PollEnd, PollVisit, Ready, registry, ServiceInv, Alive,
                KnownIntervals, Allocated, Registered, Clients, network
  <1>4. CASE Tick \/ Restart \/ (\E d \in Jumps : SetClock(d)) \/ UNCHANGED vars
    BY <1>4 DEF Tick, SetClock, Shift, Restart, vars, Ready, registry, timing, network, ServiceInv,
                Alive, KnownIntervals, Allocated, Registered, Clients
  <1> QED BY <1>1, <1>2, <1>3, <1>4 DEF Next, Environment

LEMMA ServiceInvCorrect == Spec => []ServiceInv
  <1>1. Init => Alive /\ KnownIntervals
    BY DEF Init, Alive, KnownIntervals, Allocated, FreeCell
  <1> QED BY <1>1, InitInv, ServiceInvStep, PTL DEF Spec, ServiceInv

----------------------------------------------------------------------------
(* What each step does to the cycles.                                      *)

\* An overdue or fresh entry is re-armed into another slot of the schedule.
LEMMA RearmInBounds ==
    ASSUME KnownIntervals, NEW p \in Allocated, NEW s \in Slots, s <= 0
    PROVE  s + rs[p].interval \in Slots /\ s + rs[p].interval # s
  <1> DEFINE i == rs[p].interval
  <1>0. i \in Intervals
    BY DEF KnownIntervals
  <1> HIDE DEF i
  <1>1. i \in Nat /\ i > 0 /\ i <= MaxAhead
    BY <1>0
  <1>2. s + i \in Slots /\ s + i # s
    BY <1>1 DEF Slots
  <1> QED BY <1>2 DEF i

\* measure inserts one entry while the loop erases the one it visits.
LEMMA VisitKeeps ==
    ASSUME ServiceInv, NEW p \in Ptr, NEW s \in Slots, PollVisit(p, s), NEW q \in Ptr
    PROVE  Outstanding(q)' = Outstanding(q)
  <1> USE DEF ServiceInv
  <1>1. CASE q # p
    <2>1. schedule'[q] = schedule[q] /\ lmi'[q] = lmi[q]
      BY <1>1 DEF PollVisit, Inv, TypeOK
    <2> QED BY <2>1, OutstandingKept
  <1>2. CASE q = p
    <2> DEFINE k == s + rs[p].interval
               f == Remaining(p)
               g == Remaining(p)'
    <2>1. schedule[p][s] > lmi[p][s] /\ s < 0
      BY DEF PollVisit, Overdue
    <2>2. k \in Slots /\ k # s
      <3>1. p \in Allocated
        BY <2>1 DEF Inv, ScheduleLive, TypeOK
      <3>2. s <= 0
        BY <2>1 DEF Slots
      <3> QED BY <3>1, <3>2, RearmInBounds
    <2>3. /\ schedule'[p] = [schedule[p] EXCEPT ![k] = @ + 1]
          /\ lmi'[p] = [lmi[p] EXCEPT ![s] = @ + 1]
      BY DEF PollVisit, Rearm, Inv, TypeOK
    <2> HIDE DEF k
    <2>4. f \in [Slots -> Nat] /\ g \in [Slots -> Nat]
      <3>1. Inv'
        BY VisitStep
      <3>2. f \in [Slots -> Nat]
        BY RemainingType
      <3>3. \A r \in Slots : /\ schedule'[p][r] \in Nat /\ lmi'[p][r] \in Nat
                             /\ lmi'[p][r] <= schedule'[p][r]
        BY <3>1 DEF Inv, TypeOK, ScheduleLive
      <3>4. \A r \in Slots : schedule'[p][r] - lmi'[p][r] \in Nat
        BY <3>3
      <3> QED BY <3>2, <3>4 DEF Remaining
    <2>5. \A r \in Slots :
             g[r] = f[r] + (IF r = k THEN 1 ELSE 0) - (IF r = s THEN 1 ELSE 0)
      <3>1. /\ schedule[p] \in [Slots -> Nat]
            /\ lmi[p] \in [Slots -> Nat]
        BY DEF Inv, TypeOK
      <3>2. \A r \in Slots :
               /\ schedule'[p][r] = schedule[p][r] + (IF r = k THEN 1 ELSE 0)
               /\ lmi'[p][r] = lmi[p][r] + (IF r = s THEN 1 ELSE 0)
               /\ schedule[p][r] \in Nat /\ lmi[p][r] \in Nat
        BY <2>3, <3>1
      <3>3. \A r \in Slots : /\ f[r] = schedule[p][r] - lmi[p][r]
                             /\ g[r] = schedule'[p][r] - lmi'[p][r]
        BY DEF Remaining
      <3> QED BY <3>2, <3>3
    <2> HIDE DEF f, g
    <2>6. [g EXCEPT ![s] = @ + 1] = [f EXCEPT ![k] = @ + 1]
      <3> DEFINE a == [g EXCEPT ![s] = @ + 1]
                 b == [f EXCEPT ![k] = @ + 1]
      <3>1. \A r \in Slots : f[r] \in Nat /\ g[r] \in Nat
        BY <2>4
      <3>2. \A r \in Slots : /\ a[r] = g[r] + (IF r = s THEN 1 ELSE 0)
                             /\ b[r] = f[r] + (IF r = k THEN 1 ELSE 0)
        BY <2>4
      <3>3. \A r \in Slots : a[r] = b[r]
        BY <2>5, <3>1, <3>2
      <3>4. a = [r \in Slots |-> a[r]] /\ b = [r \in Slots |-> b[r]]
        BY <2>4
      <3> HIDE DEF a, b
      <3>5. a = b
        BY <3>3, <3>4
      <3> QED BY <3>5 DEF a, b
    <2>7. /\ Cardinality(Entries([g EXCEPT ![s] = @ + 1])) = Cardinality(Entries(g)) + 1
          /\ Cardinality(Entries([f EXCEPT ![k] = @ + 1])) = Cardinality(Entries(f)) + 1
          /\ Cardinality(Entries(g)) \in Nat /\ Cardinality(Entries(f)) \in Nat
      BY <2>2, <2>4, EntriesInsert, EntriesFinite
    <2>8. Cardinality(Entries(g)) = Cardinality(Entries(f))
      BY <2>6, <2>7
    <2> QED BY <1>2, <2>8 DEF Outstanding, f, g
  <1> QED BY <1>1, <1>2

\* What the loop erases at its end was no longer counted.
LEMMA PollEndKeeps ==
    ASSUME ServiceInv, PollEnd, NEW q \in Ptr
    PROVE  Outstanding(q)' = Outstanding(q)
  <1>1. \A s \in Slots : schedule'[q][s] - lmi'[q][s] = schedule[q][s] - lmi[q][s]
    <2>1. \A s \in Slots : schedule[q][s] - lmi[q][s] \in Int
      BY RemainingType DEF ServiceInv
    <2> QED BY <2>1 DEF PollEnd, Idle
  <1> QED BY <1>1, OutstandingKept

\* "activate" inserts one entry, and only for the sets it names.
LEMMA ActivateAdds ==
    ASSUME ServiceInv, NEW c \in Conns, NEW S \in SUBSET Names, Activate(c, S), NEW q \in Ptr
    PROVE  Outstanding(q)' = IF q \in Found(S) THEN Outstanding(q) + 1 ELSE Outstanding(q)
  <1> USE DEF ServiceInv
  <1>1. lmi' = lmi /\ \A s \in Slots : lmi[q][s] = 0
    BY DEF Activate, Speaks, Ready, Inv, ScheduleLive
  <1>2. CASE q \notin Found(S)
    <2>1. schedule'[q] = schedule[q]
      BY <1>2 DEF Activate
    <2> QED BY <1>1, <1>2, <2>1, OutstandingKept
  <1>3. CASE q \in Found(S)
    <2> DEFINE k == 0 + rs[q].interval
               f == Remaining(q)
               g == Remaining(q)'
    <2>1. k \in Slots
      <3>1. q \in Allocated
        BY <1>3, FoundAllocated DEF Inv
      <3>2. 0 \in Slots /\ 0 <= 0
        BY DEF Slots
      <3> QED BY <3>1, <3>2, RearmInBounds
    <2>2. schedule'[q] = [schedule[q] EXCEPT ![k] = @ + 1]
      BY <1>3 DEF Activate, Rearm
    <2>3. f \in [Slots -> Nat]
      BY RemainingType
    <2> HIDE DEF k
    <2>4. g = [f EXCEPT ![k] = @ + 1]
      <3>1. schedule[q] \in [Slots -> Nat]
        BY DEF Inv, TypeOK
      <3>2. \A r \in Slots : schedule'[q][r] = schedule[q][r] + (IF r = k THEN 1 ELSE 0)
        BY <2>2, <3>1
      <3>3. \A r \in Slots : g[r] = f[r] + (IF r = k THEN 1 ELSE 0)
        BY <1>1, <3>1, <3>2 DEF Remaining
      <3>4. g = [r \in Slots |-> g[r]] /\ f = [r \in Slots |-> f[r]]
        BY DEF Remaining
      <3> HIDE DEF f, g
      <3> QED BY <2>1, <2>3, <3>3, <3>4
    <2> HIDE DEF f, g
    <2>5. Cardinality(Entries(g)) = Cardinality(Entries(f)) + 1
      BY <2>1, <2>3, <2>4, EntriesInsert
    <2> QED BY <1>3, <2>5 DEF Outstanding, f, g
  <1> QED BY <1>2, <1>3

LEMMA ShiftKeeps ==
    ASSUME ServiceInv, NEW d \in Int, Ready, Shift(d), NEW q \in Ptr
    PROVE  Outstanding(q)' = Outstanding(q)
  <1> DEFINE f == Remaining(q)
             g == Remaining(q)'
  <1> USE DEF ServiceInv
  <1>0. \A s \in Slots : lmi[q][s] = 0 /\ lmi'[q][s] = 0 /\ schedule[q][s] \in Nat
    BY DEF Ready, Shift, Inv, ScheduleLive, TypeOK
  <1>1. \A s \in Slots : f[s] = schedule[q][s]
    BY <1>0 DEF Remaining
  <1>2. \A s \in Slots : /\ schedule'[q][s] = IF s + d \in Slots THEN schedule[q][s + d] ELSE 0
                         /\ schedule'[q][s] \in Nat
    BY <1>0 DEF Shift
  <1>3. \A s \in Slots : g[s] = schedule'[q][s]
    BY <1>0, <1>2 DEF Remaining
  <1>4. f \in [Slots -> Nat] /\ g \in [Slots -> Nat]
    <2>1. f = [s \in Slots |-> f[s]] /\ g = [s \in Slots |-> g[s]]
      BY DEF Remaining
    <2> HIDE DEF f, g
    <2> QED BY <1>0, <1>1, <1>2, <1>3, <2>1
  <1>5. \A s \in Slots : schedule[q][s] > 0 => s - d \in Slots
    BY DEF Shift
  <1> HIDE DEF f, g
  <1>6. /\ \A s \in Slots : f[s] > 0 => s - d \in Slots
        /\ \A s \in Slots : g[s] = IF s + d \in Slots THEN f[s + d] ELSE 0
    BY <1>1, <1>2, <1>3, <1>5
  <1>7. Cardinality(Entries(g)) = Cardinality(Entries(f))
    BY <1>4, <1>6, EntriesMove
  <1> QED BY <1>7 DEF Outstanding, f, g

\* Everything but the measuring loop waits until it is through.
LEMMA LoopKeeps ==
    ASSUME ServiceInv, Next, polling \/ polling', NEW q \in Ptr
    PROVE  Outstanding(q)' = Outstanding(q)
  <1> USE DEF ServiceInv
  <1>1. CASE PollStart
    BY <1>1, OutstandingKept DEF PollStart
  <1>2. CASE PollEnd
    BY <1>2, PollEndKeeps
  <1>3. ASSUME NEW p \in Ptr, NEW s \in Slots, PollVisit(p, s)
        PROVE  Outstanding(q)' = Outstanding(q)
    BY <1>3, VisitKeeps
  <1>4. ASSUME NEW how \in {"off", "dead"}, Die(how) PROVE ~polling'
    BY <1>4, DieEmpty
  <1>5. ASSUME NEW c \in Conns, Session(c) PROVE ~polling /\ ~polling'
    BY <1>4, <1>5 DEF Session, Accept, FirstPrompt, Doom, Destroy, Qiging, Turnoff, Create, Delete,
         DeleteFault, Activate, Subscribe, Unsubscribe, UnsubscribeFault, Speaks, Ready, timing
  <1>6. CASE Environment
    BY <1>4, <1>6 DEF Environment, Tick, SetClock, Shift, Kill, Restart, Ready, Alive, timing
  <1> QED BY <1>1, <1>2, <1>3, <1>5, <1>6 DEF Next, Poll

\* Rearming before erasing, and erasing exactly what was visited, the
\* measuring loop (MeasurePool::select_poll) neither loses nor multiplies a
\* cycle, whatever the intervals and however late it is.
THEOREM PollRearmsOnceCorrect == Spec => PollRearmsOnce
  <1>1. ServiceInv /\ [Next]_vars =>
           [polling \/ polling' => \A p \in Ptr : Outstanding(p)' = Outstanding(p)]_vars
    BY LoopKeeps
  <1> QED BY <1>1, ServiceInvCorrect, PTL DEF Spec, PollRearmsOnce

----------------------------------------------------------------------------
(* The steps of the service.                                               *)

LEMMA FoundBy ==
    ASSUME Inv, NEW S \in SUBSET Names
    PROVE  /\ \A n \in Registered : mrecordsets[n] \in Found(S) <=> n \in S
           /\ \A n \in Registered : mrecordsets[n] \in Allocated /\ rs[mrecordsets[n]].name = n
  <1>1. \A n \in Registered : rs[mrecordsets[n]].name = n
    BY DEF Inv, RegistryOwnsHeap
  <1>2. \A n \in Registered : mrecordsets[n] \in Allocated
    BY <1>1 DEF Inv, TypeOK, Registered, Allocated
  <1> QED BY <1>1, <1>2 DEF Found

LEMMA SameService ==
    ASSUME Inv, mrecordsets' = mrecordsets,
           \A p \in Ptr : Outstanding(p)' = Outstanding(p)
    PROVE  Registered' = Registered /\ CyclesOf' = CyclesOf
  <1>1. Registered' = Registered
    BY DEF Registered
  <1>2. \A n \in Registered : mrecordsets[n] \in Ptr
    BY DEF Registered, Inv, TypeOK
  <1> QED BY <1>1, <1>2 DEF CyclesOf

LEMMA SameSubscribers ==
    ASSUME mrecordsets' = mrecordsets, subs' = subs
    PROVE  SubscribersOf' = SubscribersOf
  BY DEF SubscribersOf, Registered

LEMMA ServeEnd ==
    ASSUME NEW how \in {"off", "dead"}, Die(how)
    PROVE  Service!End /\ lines' = {}
  BY DieEmpty DEF Service!End

\* The line of a record set carries its name to its subscribers.
LEMMA LineOf ==
    ASSUME Inv, NEW n \in Registered
    PROVE  DataLine(mrecordsets[n]) = Service!LineFor(n)
  <1> DEFINE p == mrecordsets[n]
  <1>1. p \in Ptr /\ rs[p].name = n
    BY FoundBy DEF Allocated
  <1>2. rs[p].channels = {c \in Conns : p \in subs[c]}
    BY <1>1 DEF Inv, SubscriptionsAgree, TypeOK, Cell
  <1>3. SubscribersOf[n] = {c \in Conns : p \in subs[c]}
    BY DEF SubscribersOf, Registered
  <1> QED BY <1>1, <1>2, <1>3 DEF DataLine, Service!LineFor

LEMMA ServeConnection ==
    ASSUME Inv, NEW c \in Conns,
           Accept(c) \/ FirstPrompt(c) \/ Doom(c) \/ Qiging(c)
    PROVE  lines' = {} /\ Service!Unmeasured
  <1> USE DEF Speaks, Ready, registry, timing
  <1>1. mrecordsets' = mrecordsets /\ subs' = subs /\ proc' = proc /\ lines' = {} /\ proc = "up"
        /\ schedule' = schedule /\ lmi' = lmi
    BY DEF Accept, FirstPrompt, Doom, Qiging
  <1>2. Registered' = Registered /\ CyclesOf' = CyclesOf /\ SubscribersOf' = SubscribersOf
    BY <1>1, OutstandingKept, SameService, SameSubscribers
  <1>3. CASE Accept(c) \/ Doom(c) \/ Qiging(c)
    <2>1. Clients' = Clients
      BY <1>3 DEF Accept, Doom, Qiging, Clients, Inv, TypeOK
    <2> QED BY <1>1, <1>2, <2>1 DEF Service!Unmeasured, Service!books
  <1>4. CASE FirstPrompt(c)
    <2>1. c \notin Clients /\ Clients' = Clients \cup {c}
      BY <1>4 DEF FirstPrompt, Clients, Inv, TypeOK
    <2> QED BY <1>1, <1>2, <2>1 DEF Service!Unmeasured, Service!Open
  <1> QED BY <1>3, <1>4

LEMMA ServeDestroy ==
    ASSUME Inv, NEW c \in Conns, Destroy(c)
    PROVE  Service!Leave(c) /\ lines' = {}
  <1>1. mrecordsets' = mrecordsets /\ proc' = proc /\ lines' = {} /\ proc = "up"
        /\ schedule' = schedule /\ lmi' = lmi
    BY DEF Destroy, Ready, timing
  <1>2. Registered' = Registered /\ CyclesOf' = CyclesOf
    BY <1>1, OutstandingKept, SameService
  <1>3. Clients' = Clients \ {c}
    BY DEF Destroy, Clients, Inv, TypeOK
  <1>4. \A d \in Conns : subs'[d] = IF d = c THEN {} ELSE subs[d]
    BY DEF Destroy, RemoveSubs, Inv, TypeOK
  <1>5. SubscribersOf' = [n \in Names |-> SubscribersOf[n] \ {c}]
    BY <1>1, <1>2, <1>4 DEF SubscribersOf
  <1> QED BY <1>1, <1>2, <1>3, <1>5 DEF Service!Leave

\* The address of a new set is in nobody's subs and has no entry left.
LEMMA ServeCreate ==
    ASSUME Inv, NEW c \in Conns, NEW n \in Names, NEW i, Create(c, n, i)
    PROVE  Service!Create(n) /\ Clients # {} /\ lines' = {}
  <1>1. /\ proc = "up" /\ proc' = proc /\ lines' = {} /\ subs' = subs /\ conn' = conn
        /\ schedule' = schedule /\ lmi' = lmi /\ c \in Clients /\ n \notin Registered /\ ~polling
    BY DEF Create, Speaks, Ready, network, timing, Clients
  <1>2. PICK p \in Ptr \ Allocated : mrecordsets' = [mrecordsets EXCEPT ![n] = p]
    BY DEF Create
  <1>3. \A m \in Names : mrecordsets'[m] = IF m = n THEN p ELSE mrecordsets[m]
    BY <1>2 DEF Inv, TypeOK
  <1>4. Registered' = Registered \cup {n}
    BY <1>3 DEF Registered
  <1>5. \A q \in Ptr : Outstanding(q)' = Outstanding(q)
    BY <1>1, OutstandingKept
  <1>6. Outstanding(p) = 0
    <2>1. \A s \in Slots : schedule[p][s] = lmi[p][s]
      BY <1>1 DEF Inv, ScheduleLive, TypeOK
    <2> QED BY <2>1, OutstandingType
  <1>7. CyclesOf' = CyclesOf
    <2>1. \A m \in Names : CyclesOf'[m] = CyclesOf[m]
      BY <1>1, <1>3, <1>4, <1>5, <1>6 DEF CyclesOf, Registered, Inv, TypeOK
    <2>2. CyclesOf' = [m \in Names |-> CyclesOf'[m]] /\ CyclesOf = [m \in Names |-> CyclesOf[m]]
      BY DEF CyclesOf
    <2> QED BY <2>1, <2>2
  <1>8. SubscribersOf' = SubscribersOf
    <2>1. \A d \in Conns : p \notin subs[d]
      BY DEF Inv, SubscriptionsAgree
    <2>2. \A m \in Names : SubscribersOf'[m] = SubscribersOf[m]
      BY <1>1, <1>3, <1>4, <2>1 DEF SubscribersOf, Registered
    <2>3. /\ SubscribersOf' = [m \in Names |-> SubscribersOf'[m]]
          /\ SubscribersOf = [m \in Names |-> SubscribersOf[m]]
      BY DEF SubscribersOf
    <2> QED BY <2>2, <2>3
  <1>9. Clients' = Clients /\ Clients # {}
    BY <1>1 DEF Clients
  <1> QED BY <1>1, <1>4, <1>7, <1>8, <1>9 DEF Service!Create

\* Another record set than those deleted keeps its subscribers and cycles.
LEMMA ServeDelete ==
    ASSUME Inv, NEW c \in Conns, NEW S \in SUBSET Names, Delete(c, S)
    PROVE  Service!Delete(S \cap Registered) /\ Clients # {} /\ lines' = {}
  <1> DEFINE P == Found(S)
             T == S \cap Registered
  <1>0. P \subseteq Ptr /\ NoPtr \notin P
    BY FoundAllocated DEF Inv, Allocated
  <1>1. /\ proc = "up" /\ proc' = proc /\ lines' = {} /\ conn' = conn /\ lmi' = lmi
        /\ c \in Clients
    BY DEF Delete, Speaks, Ready, network, Clients
  <1>2. /\ \A q \in Ptr \ P : schedule'[q] = schedule[q]
        /\ \A n \in Names : mrecordsets'[n] = IF mrecordsets[n] \in P THEN NoPtr ELSE mrecordsets[n]
        /\ \A d \in Conns : subs'[d] = subs[d] \ {p \in P : d \in rs[p].channels}
    BY DEF Delete, Suppress
  <1>3. \A n \in Names : mrecordsets[n] \in P <=> n \in T
    BY <1>0, FoundBy DEF Registered
  <1>4. \A d \in Conns : subs'[d] = subs[d] \ P
    BY <1>0, <1>2 DEF Inv, SubscriptionsAgree, TypeOK
  <1>5. \A q \in Ptr \ P : Outstanding(q)' = Outstanding(q)
    BY <1>1, <1>2, OutstandingKept
  <1> HIDE DEF P, T
  <1>6. Registered' = Registered \ T
    BY <1>2, <1>3 DEF Registered
  <1>7. CyclesOf' = [n \in Names |-> IF n \in T THEN 0 ELSE CyclesOf[n]]
    <2>1. ASSUME NEW n \in Names
          PROVE  CyclesOf'[n] = IF n \in T THEN 0 ELSE CyclesOf[n]
      <3>1. CASE n \in T
        BY <1>6, <3>1 DEF CyclesOf
      <3>2. CASE n \in Registered \ T
        <4>1. mrecordsets'[n] = mrecordsets[n] /\ mrecordsets[n] \in Ptr \ P /\ n \in Registered'
          BY <1>2, <1>3, <1>6, <3>2 DEF Registered, Inv, TypeOK
        <4> DEFINE q == mrecordsets[n]
        <4>2. q' = q /\ q \in Ptr \ P
          BY <4>1
        <4>3. Outstanding(q)' = Outstanding(q)
          BY <1>5, <4>2
        <4>4. CyclesOf'[n] = Outstanding(q)
          BY <4>1, <4>3 DEF CyclesOf
        <4> QED BY <3>2, <4>4 DEF CyclesOf
      <3>3. CASE n \notin Registered
        BY <1>6, <3>3 DEF CyclesOf
      <3> QED BY <3>1, <3>2, <3>3
    <2> QED BY <2>1 DEF CyclesOf
  <1>8. SubscribersOf' = [n \in Names |-> IF n \in T THEN {} ELSE SubscribersOf[n]]
    <2>1. ASSUME NEW n \in Names
          PROVE  SubscribersOf'[n] = IF n \in T THEN {} ELSE SubscribersOf[n]
      <3>1. CASE n \in Registered \ T
        BY <1>2, <1>3, <1>4, <1>6, <3>1 DEF SubscribersOf
      <3>2. CASE n \notin Registered \ T
        BY <1>6, <3>2 DEF SubscribersOf
      <3> QED BY <3>1, <3>2
    <2> QED BY <2>1 DEF SubscribersOf
  <1>9. Clients' = Clients /\ Clients # {}
    BY <1>1 DEF Clients
  <1>10. T \subseteq Registered
    BY DEF T
  <1> QED BY <1>1, <1>6, <1>7, <1>8, <1>9, <1>10 DEF Service!Delete, T

LEMMA ServeActivate ==
    ASSUME ServiceInv, NEW c \in Conns, NEW S \in SUBSET Names, Activate(c, S)
    PROVE  Service!Measure(S \cap Registered)
  <1> DEFINE T == S \cap Registered
  <1> USE DEF ServiceInv
  <1>1. /\ proc = "up" /\ proc' = proc /\ conn' = conn /\ c \in Clients
        /\ mrecordsets' = mrecordsets /\ subs' = subs
    BY DEF Activate, Speaks, Ready, network, registry, Clients
  <1>2. Registered' = Registered
    BY <1>1 DEF Registered
  <1>3. CyclesOf' = [n \in Names |-> IF n \in T THEN CyclesOf[n] + 1 ELSE CyclesOf[n]]
    <2>1. ASSUME NEW n \in Registered
          PROVE  CyclesOf'[n] = IF n \in T THEN CyclesOf[n] + 1 ELSE CyclesOf[n]
      <3>1. mrecordsets[n] \in Ptr
        BY DEF Registered, Inv, TypeOK
      <3>2. mrecordsets[n] \in Found(S) <=> n \in T
        BY FoundBy
      <3> HIDE DEF T
      <3>3. Outstanding(mrecordsets[n])' =
              IF n \in T THEN Outstanding(mrecordsets[n]) + 1 ELSE Outstanding(mrecordsets[n])
        <4> DEFINE q == mrecordsets[n]
        <4>1. q' = q
          BY <1>1
        <4>2. \A r \in Ptr : Outstanding(r)' =
                 IF r \in Found(S) THEN Outstanding(r) + 1 ELSE Outstanding(r)
          BY ActivateAdds
        <4> QED BY <3>1, <3>2, <4>1, <4>2
      <3> QED BY <1>2, <3>3 DEF CyclesOf, Registered
    <2>2. ASSUME NEW n \in Names \ Registered PROVE n \notin T /\ CyclesOf'[n] = CyclesOf[n]
      BY <1>2 DEF CyclesOf
    <2> QED BY <2>1, <2>2 DEF CyclesOf
  <1>4. lines' = {Service!LineFor(n) : n \in T}
    <2>1. lines' = {DataLine(mrecordsets[n]) : n \in T}
      BY DEF Activate, Found
    <2>2. \A n \in T : DataLine(mrecordsets[n]) = Service!LineFor(n)
      BY LineOf
    <2> QED BY <2>1, <2>2
  <1>5. SubscribersOf' = SubscribersOf
    BY <1>1, SameSubscribers
  <1>6. Clients' = Clients /\ Clients # {}
    BY <1>1 DEF Clients
  <1> QED BY <1>1, <1>2, <1>3, <1>4, <1>5, <1>6 DEF Service!Measure, Service!Activate

LEMMA ServeSubscribe ==
    ASSUME Inv, NEW c \in Conns, NEW S \in SUBSET Names,
           Subscribe(c, S) \/ Unsubscribe(c, S)
    PROVE  /\ \/ Service!Subscribe(c, S \cap Registered)
              \/ Service!Unsubscribe(c, S \cap Registered)
           /\ lines' = {}
  <1> DEFINE T == S \cap Registered
  <1>1. /\ proc = "up" /\ proc' = proc /\ conn' = conn /\ c \in Clients /\ lines' = {}
        /\ mrecordsets' = mrecordsets /\ schedule' = schedule /\ lmi' = lmi
    BY DEF Subscribe, Unsubscribe, Speaks, Ready, network, timing, Clients
  <1>2. Registered' = Registered /\ CyclesOf' = CyclesOf /\ Clients' = Clients
    BY <1>1, OutstandingKept, SameService DEF Clients
  <1>3. \A n \in Registered : mrecordsets[n] \in Found(S) <=> n \in T
    BY FoundBy
  <1> HIDE DEF T
  <1>4. CASE Subscribe(c, S)
    <2>1. \A d \in Conns : subs'[d] = IF d = c THEN subs[d] \cup Found(S) ELSE subs[d]
      BY <1>4 DEF Subscribe, AddSubs, Inv, TypeOK
    <2>2. SubscribersOf' =
            [n \in Names |-> IF n \in T THEN SubscribersOf[n] \cup {c} ELSE SubscribersOf[n]]
      BY <1>1, <1>2, <1>3, <2>1 DEF SubscribersOf, T
    <2> QED BY <1>1, <1>2, <2>2 DEF Service!Subscribe, T
  <1>5. CASE Unsubscribe(c, S)
    <2>1. \A d \in Conns : subs'[d] = IF d = c THEN subs[d] \ Found(S) ELSE subs[d]
      BY <1>5 DEF Unsubscribe, RemoveSubs, Inv, TypeOK
    <2>2. SubscribersOf' =
            [n \in Names |-> IF n \in T THEN SubscribersOf[n] \ {c} ELSE SubscribersOf[n]]
      BY <1>1, <1>2, <1>3, <2>1 DEF SubscribersOf, T
    <2>3. \A n \in T : c \in SubscribersOf[n]
      BY <1>3, <1>5 DEF Unsubscribe, SubscribersOf, T
    <2> QED BY <1>1, <1>2, <2>2, <2>3 DEF Service!Unsubscribe, T
  <1> QED BY <1>1, <1>4, <1>5

\* The loop only measures a set with an entry it will not erase: the set runs
\* a cycle, and its line goes to its subscribers.
LEMMA ServeVisit ==
    ASSUME ServiceInv, NEW p \in Ptr, NEW s \in Slots, PollVisit(p, s)
    PROVE  \E n \in Names : Service!Deliver(n)
  <1> DEFINE n == rs[p].name
  <1> USE DEF ServiceInv
  <1>1. /\ proc = "up" /\ proc' = proc /\ conn' = conn
        /\ mrecordsets' = mrecordsets /\ subs' = subs /\ lines' = {DataLine(p)}
        /\ schedule[p][s] > lmi[p][s]
    BY DEF PollVisit, Overdue, network, registry, Alive
  <1>2. p \in Allocated
    BY <1>1 DEF Inv, ScheduleLive, TypeOK
  <1>3. n \in Registered /\ mrecordsets[n] = p
    BY <1>2 DEF Inv, RegistryOwnsHeap, TypeOK, Cell, Registered, Allocated
  <1> HIDE DEF n
  <1>4. lines' = {Service!LineFor(n)}
    BY <1>1, <1>3, LineOf
  <1>5. CyclesOf[n] > 0
    <2>1. Outstanding(p) \in Nat /\ Outstanding(p) # 0
      BY <1>1, OutstandingType, RemainingType
    <2> QED BY <1>3, <2>1 DEF CyclesOf, Registered
  <1>6. Registered' = Registered /\ CyclesOf' = CyclesOf
    BY <1>1, VisitKeeps, SameService
  <1>7. SubscribersOf' = SubscribersOf /\ Clients' = Clients
    BY <1>1, SameSubscribers DEF Clients
  <1> QED BY <1>1, <1>3, <1>4, <1>5, <1>6, <1>7 DEF Service!Deliver, Service!books, Registered

LEMMA ServePoll ==
    ASSUME ServiceInv, PollStart \/ PollEnd
    PROVE  lines' = {} /\ Service!Unmeasured
  <1>1. /\ proc' = proc /\ conn' = conn /\ mrecordsets' = mrecordsets /\ subs' = subs
        /\ lines' = {}
    BY DEF PollStart, PollEnd, network, registry
  <1>2. \A q \in Ptr : Outstanding(q)' = Outstanding(q)
    BY PollEndKeeps, OutstandingKept DEF PollStart
  <1>3. Registered' = Registered /\ CyclesOf' = CyclesOf
    BY <1>1, <1>2, SameService DEF ServiceInv
  <1> QED BY <1>1, <1>3, SameSubscribers DEF Service!Unmeasured, Service!books, Clients

\* However the clock moves, the service is the same.
LEMMA ServeClock ==
    ASSUME ServiceInv, Tick \/ \E d \in Jumps : SetClock(d)
    PROVE  UNCHANGED Service!vars
  <1>1. PICK d \in Int : Ready /\ Shift(d) /\ proc' = proc
    BY DEF Tick, SetClock
  <1>2. conn' = conn /\ mrecordsets' = mrecordsets /\ subs' = subs /\ lines' = lines
    BY <1>1 DEF Shift, network, registry
  <1>3. Registered' = Registered /\ CyclesOf' = CyclesOf
    BY <1>1, <1>2, ShiftKeeps, SameService DEF ServiceInv
  <1> QED BY <1>1, <1>2, <1>3, SameSubscribers DEF Service!vars, Service!books, Clients

\* A step that touches nothing but the process.
LEMMA ServeFrame ==
    ASSUME ServiceInv, UNCHANGED <<network, registry, schedule, lmi, lines>>
    PROVE  UNCHANGED <<Clients, Registered, SubscribersOf, CyclesOf, lines>>
  <1>1. conn' = conn /\ mrecordsets' = mrecordsets /\ subs' = subs /\ lines' = lines
    BY DEF network, registry
  <1>2. Registered' = Registered /\ CyclesOf' = CyclesOf
    BY <1>1, OutstandingKept, SameService DEF ServiceInv
  <1> QED BY <1>1, <1>2, SameSubscribers DEF Clients

LEMMA ServeSession ==
    ASSUME ServiceInv, NEW c \in Conns, Session(c)
    PROVE  Service!Next
  <1> USE DEF ServiceInv
  <1>1. CASE Accept(c) \/ FirstPrompt(c) \/ Doom(c) \/ Qiging(c)
    BY <1>1, ServeConnection DEF Service!Next
  <1>2. CASE Destroy(c)
    BY <1>2, ServeDestroy DEF Service!Next, Service!Unmeasured
  <1>3. CASE Turnoff(c)
    BY <1>3, ServeEnd DEF Turnoff, Service!Next, Service!Unmeasured
  <1>4. ASSUME NEW n \in Names, NEW i \in Intervals \cup {0}, Create(c, n, i)
        PROVE  Service!Next
    BY <1>4, ServeCreate DEF Service!Next, Service!Unmeasured
  <1>5. ASSUME NEW S \in SUBSET Names,
               \/ Delete(c, S) \/ DeleteFault(c, S) \/ Activate(c, S)
               \/ Subscribe(c, S) \/ Unsubscribe(c, S) \/ UnsubscribeFault(c, S)
        PROVE  Service!Next
    <2>0. S \cap Registered \in SUBSET Names
      OBVIOUS
    <2>1. CASE Delete(c, S)
      BY <2>0, <2>1, ServeDelete DEF Service!Next, Service!Unmeasured
    <2>2. CASE DeleteFault(c, S)
      BY <2>2, ServeEnd DEF DeleteFault, Service!Next, Service!Unmeasured
    <2>3. CASE Activate(c, S)
      BY <2>0, <2>3, ServeActivate DEF Service!Next
    <2>4. CASE Subscribe(c, S) \/ Unsubscribe(c, S)
      BY <2>0, <2>4, ServeSubscribe DEF Service!Next, Service!Unmeasured
    <2>5. CASE UnsubscribeFault(c, S)
      <3>1. CASE Die("dead")
        BY <3>1, ServeEnd DEF Service!Next, Service!Unmeasured
      <3>2. CASE proc' = "hung" /\ UNCHANGED <<network, registry, timing, lines, jumps>>
        BY <3>2, ServeFrame DEF timing, Service!Next, Service!Hang
      <3> QED BY <2>5, <3>1, <3>2 DEF UnsubscribeFault
    <2> QED BY <1>5, <2>1, <2>2, <2>3, <2>4, <2>5
  <1> QED BY <1>1, <1>2, <1>3, <1>4, <1>5 DEF Session

LEMMA ServeNext == ServiceInv /\ [Next]_vars => [Service!Next]_(Service!vars)
  <1> SUFFICES ASSUME ServiceInv, [Next]_vars PROVE [Service!Next]_(Service!vars)
    OBVIOUS
  <1>1. ASSUME NEW c \in Conns, Session(c) PROVE Service!Next
    BY <1>1, ServeSession
  <1>2. CASE PollStart \/ PollEnd
    BY <1>2, ServePoll DEF Service!Next
  <1>3. ASSUME NEW p \in Ptr, NEW s \in Slots, PollVisit(p, s) PROVE Service!Next
    BY <1>3, ServeVisit DEF Service!Next
  <1>4. CASE Tick \/ \E d \in Jumps : SetClock(d)
    BY <1>4, ServeClock
  <1>5. CASE Kill
    BY <1>5, ServeEnd DEF Kill, Service!Next, Service!Unmeasured
  <1>6. CASE Restart
    BY <1>6, ServeFrame DEF Restart, timing, ServiceInv, Alive, Service!Next, Service!Start
  <1>7. CASE UNCHANGED vars
    BY <1>7, ServeFrame DEF vars, timing, Service!vars, Service!books
  <1> QED BY <1>1, <1>2, <1>3, <1>4, <1>5, <1>6, <1>7 DEF Next, Poll, Environment

\* Whatever its clients send and however its clock moves, the daemon does
\* what ProbeService promises: a line of measures goes to exactly the
\* connections that subscribed to its record set, a set is measured by as
\* many cycles as it was activated, and one created again inherits nothing
\* from the former owner of its name or of its address.
THEOREM ServiceCorrect == Spec => ImplementsService
  <1>1. Init => Service!Init
    BY DEF Init, Service!Init, Service!BooksInit, Clients, Registered, SubscribersOf, CyclesOf
  <1> QED BY <1>1, ServiceInvCorrect, ServeNext, PTL DEF Spec, ImplementsService, Service!Spec

\* A service that keeps its promise keeps its books.
LEMMA ServiceBooks == [Service!Next]_(Service!vars) => [Service!BooksNext]_(Service!books)
  BY DEF Service!Next, Service!vars, Service!Unmeasured, Service!Measure, Service!Deliver,
         Service!BooksNext

\* The daemon keeps the books of ProbeBooks, the same as the probe in front of
\* the collectors of QiSystem: a command changes the sets, subscribers and
\* cycles as it says, and everything else leaves them alone.
THEOREM BooksCorrect == Spec => Service!BooksSpec
  <1>1. Service!Init => Service!BooksInit
    BY DEF Service!Init
  <1> QED
    BY <1>1, ServiceCorrect, ServiceBooks, PTL
    DEF ImplementsService, Service!Spec, Service!BooksSpec
=============================================================================
