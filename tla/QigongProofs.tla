---------------------------- MODULE QigongProofs ----------------------------
(***************************************************************************)
(* Qigong's bookkeeping invariants, for any number of names, connections,  *)
(* addresses and intervals and any bounds.  They are inductive together    *)
(* and only together: PollEnd subtracts lmi from the schedule (TypeOK needs*)
(* ScheduleLive), suppressrecordset frees what the registry names and      *)
(* clears the subs of the channels it finds (SubscriptionsAgree), Activate *)
(* schedules what the registry finds (ScheduleLive needs RegistryOwnsHeap).*)
(***************************************************************************)
EXTENDS Qigong, TLAPS

Inv == TypeOK /\ SubscriptionsAgree /\ RegistryOwnsHeap /\ ScheduleLive

USE QigongAssumption

\* What mrecordsets.find returns is an allocated record set.
LEMMA FoundAllocated ==
    ASSUME TypeOK, RegistryOwnsHeap, NEW S \in SUBSET Names
    PROVE  /\ Found(S) \subseteq Allocated
           /\ NoPtr \notin Found(S)
  BY DEF TypeOK, RegistryOwnsHeap, Found, Registered, Allocated

\* The initial state, and every state a dying process leaves, is empty.
LEMMA InitInv == Init => Inv
  <1> SUFFICES ASSUME Init PROVE Inv
    OBVIOUS
  <1>1. TypeOK
    BY DEF Init, TypeOK, FreeCell, Cell, Idle, Line
  <1>2. SubscriptionsAgree
    BY DEF Init, SubscriptionsAgree, FreeCell, Allocated
  <1>3. RegistryOwnsHeap
    BY DEF Init, RegistryOwnsHeap, FreeCell, Allocated, Registered
  <1>4. ScheduleLive
    BY DEF Init, ScheduleLive, Idle
  <1> QED BY <1>1, <1>2, <1>3, <1>4 DEF Inv

LEMMA DieInv ==
    ASSUME TypeOK, NEW how \in {"off", "dead"}, Die(how)
    PROVE  Inv'
  <1>1. TypeOK'
    BY DEF Die, TypeOK, FreeCell, Cell, Idle, Line
  <1>2. SubscriptionsAgree'
    BY DEF Die, SubscriptionsAgree, FreeCell, Allocated
  <1>3. RegistryOwnsHeap'
    BY DEF Die, RegistryOwnsHeap, FreeCell, Allocated, Registered
  <1>4. ScheduleLive'
    BY DEF Die, ScheduleLive, Idle
  <1> QED BY <1>1, <1>2, <1>3, <1>4 DEF Inv

\* A step that leaves the registry and the timing alone disturbs nothing but
\* the network, so types and open connections are all there is to check.
LEMMA ConnectionStep ==
    ASSUME Inv, NEW c \in Conns,
           Accept(c) \/ FirstPrompt(c) \/ Doom(c) \/ Qiging(c)
    PROVE  Inv'
  <1> USE DEF Inv, registry, timing, Speaks, Ready
  <1>1. TypeOK'
    BY DEF TypeOK, Accept, FirstPrompt, Doom, Qiging, Line
  <1>2. SubscriptionsAgree'
    BY DEF TypeOK, SubscriptionsAgree, Accept, FirstPrompt, Doom, Qiging, Allocated
  <1>3. RegistryOwnsHeap'
    BY DEF RegistryOwnsHeap, Accept, FirstPrompt, Doom, Qiging, Allocated, Registered
  <1>4. ScheduleLive'
    BY DEF ScheduleLive, Accept, FirstPrompt, Doom, Qiging, Allocated
  <1> QED BY <1>1, <1>2, <1>3, <1>4

\* add_subs, remove_subs and the destructor change both halves alike.
LEMMA SubscriptionStep ==
    ASSUME Inv, NEW c \in Conns, NEW P \in SUBSET Allocated,
           \/ AddSubs(c, P) /\ conn[c] = "open" /\ UNCHANGED <<conn, doomed>>
           \/ RemoveSubs(c, P) /\ UNCHANGED <<conn, doomed>>
           \/ RemoveSubs(c, P) /\ P = subs[c] /\ conn' = [conn EXCEPT ![c] = "none"]
                /\ doomed' = doomed \ {c},
           UNCHANGED <<proc, prompt, mrecordsets, timing, jumps>>, lines' = {}
    PROVE  Inv'
  <1> USE DEF Inv, timing, AddSubs, RemoveSubs, AddChannel, RemoveChannel
  <1>0. P \subseteq Ptr
    BY DEF Allocated
  <1>1. /\ rs' \in [Ptr -> Cell]
        /\ \A p \in Ptr : /\ rs'[p].name = rs[p].name
                          /\ rs'[p].interval = rs[p].interval
                          /\ \A d \in Conns \ {c} :
                               d \in rs'[p].channels <=> d \in rs[p].channels
    BY <1>0 DEF TypeOK, Cell
  <1>2. TypeOK'
    <2>1. \A p \in Ptr : rs'[p] # FreeCell => rs[p].name # NoName \/ rs[p] # FreeCell
      BY <1>0, <1>1 DEF TypeOK, FreeCell, Cell, Allocated
    <2>2. \A p \in Ptr : rs'[p] # FreeCell => rs'[p].name \in Names /\ rs'[p].interval > 0
      BY <1>0, <1>1, <2>1 DEF TypeOK, FreeCell, Cell, Allocated
    <2> QED BY <1>0, <1>1, <2>2 DEF TypeOK, Line
  <1>3. SubscriptionsAgree'
    BY <1>0, <1>1 DEF TypeOK, SubscriptionsAgree, Allocated, Cell
  <1>4. RegistryOwnsHeap'
    BY <1>1 DEF TypeOK, RegistryOwnsHeap, Allocated, Registered
  <1>5. ScheduleLive'
    BY <1>1 DEF ScheduleLive, Allocated
  <1> QED BY <1>2, <1>3, <1>4, <1>5

\* A free address holds no channel and nobody's subs, so the set created
\* there starts without subscribers.
LEMMA CreateStep ==
    ASSUME Inv, NEW c \in Conns, NEW n \in Names, NEW i \in Intervals \cup {0},
           Create(c, n, i)
    PROVE  Inv'
  <1> USE DEF Inv, Create, Speaks, Ready, network, timing
  <1> PICK p \in Ptr \ Allocated :
         /\ rs' = [rs EXCEPT ![p] = [name |-> n, interval |-> i, channels |-> {}]]
         /\ mrecordsets' = [mrecordsets EXCEPT ![n] = p]
    OBVIOUS
  <1>0. i \in Nat /\ i > 0
    OBVIOUS
  <1>1. TypeOK'
    BY <1>0 DEF TypeOK, Cell, Line
  <1>2. SubscriptionsAgree'
    BY DEF TypeOK, SubscriptionsAgree, Allocated, Cell
  <1>3. RegistryOwnsHeap'
    BY DEF TypeOK, RegistryOwnsHeap, Allocated, Registered, Cell
  <1>4. ScheduleLive'
    BY DEF TypeOK, ScheduleLive, Allocated, Cell
  <1> QED BY <1>1, <1>2, <1>3, <1>4

\* suppressrecordset reaches every trace of the sets it frees.
LEMMA DeleteStep ==
    ASSUME Inv, NEW c \in Conns, NEW S \in SUBSET Names, Delete(c, S)
    PROVE  Inv'
  <1> DEFINE P == Found(S)
  <1>0. P \subseteq Allocated /\ P \subseteq Ptr /\ NoPtr \notin P
    BY FoundAllocated DEF Inv, Allocated
  <1>1. Suppress(P) /\ lines' = {} /\ UNCHANGED <<proc, network, polling, lmi, jumps>>
        /\ proc = "up" /\ ~polling
    BY DEF Delete, Speaks, Ready
  <1> HIDE DEF P
  <1> USE DEF Inv, Suppress, network
  <1>2. TypeOK'
    BY <1>0, <1>1 DEF TypeOK, Cell, FreeCell, Idle, Line
  <1>3. SubscriptionsAgree'
    BY <1>0, <1>1 DEF TypeOK, SubscriptionsAgree, Allocated, FreeCell
  <1>4. RegistryOwnsHeap'
    BY <1>0, <1>1 DEF TypeOK, RegistryOwnsHeap, Allocated, Registered, FreeCell
  <1>5. ScheduleLive'
    BY <1>0, <1>1 DEF TypeOK, ScheduleLive, Allocated, Idle, FreeCell
  <1> QED BY <1>2, <1>3, <1>4, <1>5

\* Re-arming adds one entry, or none when its slot is out of bounds.
LEMMA RearmGrows ==
    ASSUME TypeOK, NEW p \in Ptr, NEW t
    PROVE  /\ Rearm(p, t) \in [Slots -> Nat]
           /\ \A s \in Slots : Rearm(p, t)[s] >= schedule[p][s]
  <1> DEFINE k == t + rs[p].interval
             f == schedule[p]
  <1>1. f \in [Slots -> Nat]
    BY DEF TypeOK
  <1>2. Rearm(p, t) = [f EXCEPT ![k] = f[k] + 1]
    BY DEF Rearm
  <1> HIDE DEF k, f
  <1> DEFINE g == [f EXCEPT ![k] = f[k] + 1]
  <1>3. /\ DOMAIN g = Slots
        /\ \A s \in Slots : g[s] = IF s = k THEN f[s] + 1 ELSE f[s]
    BY <1>1
  <1>4. \A s \in Slots : f[s] \in Nat
    BY <1>1
  <1>5. g \in [Slots -> Nat]
    <2>1. \A s \in Slots : g[s] \in Nat
      BY <1>3, <1>4
    <2> QED BY <1>1, <1>3, <2>1
  <1>6. \A s \in Slots : g[s] >= f[s]
    BY <1>3, <1>4
  <1> QED BY <1>2, <1>5, <1>6 DEF f

\* Entries are only added to allocated record sets.
LEMMA ActivateStep ==
    ASSUME Inv, NEW c \in Conns, NEW S \in SUBSET Names, Activate(c, S)
    PROVE  Inv'
  <1> DEFINE P == Found(S)
  <1>0. P \subseteq Allocated /\ P \subseteq Ptr
    BY FoundAllocated DEF Inv, Allocated
  <1>1. /\ schedule' = [p \in Ptr |-> IF p \in P THEN Rearm(p, 0) ELSE schedule[p]]
        /\ lines' = {DataLine(p) : p \in P}
        /\ UNCHANGED <<proc, network, registry, polling, lmi, jumps>>
    BY DEF Activate
  <1> HIDE DEF P
  <1> USE DEF Inv, network, registry
  <1>2. lines' \in SUBSET Line
    BY <1>0, <1>1 DEF DataLine, Line, TypeOK, Cell, Allocated
  <1>3. \A p \in Ptr :
           /\ schedule'[p] \in [Slots -> Nat]
           /\ \A s \in Slots : schedule'[p][s] >= schedule[p][s]
           /\ p \notin P => schedule'[p] = schedule[p]
    <2> SUFFICES ASSUME NEW p \in Ptr
                 PROVE  /\ schedule'[p] \in [Slots -> Nat]
                        /\ \A s \in Slots : schedule'[p][s] >= schedule[p][s]
                        /\ p \notin P => schedule'[p] = schedule[p]
      OBVIOUS
    <2>1. CASE p \in P
      <3>1. schedule'[p] = Rearm(p, 0)
        BY <1>1, <2>1
      <3> QED BY <3>1, <2>1, RearmGrows
    <2>2. CASE p \notin P
      <3>1. schedule'[p] = schedule[p]
        BY <1>1, <2>2
      <3>2. schedule[p] \in [Slots -> Nat]
        BY DEF TypeOK
      <3> QED BY <3>1, <3>2, <2>2
    <2> QED BY <2>1, <2>2
  <1>4. TypeOK'
    BY <1>1, <1>2, <1>3 DEF TypeOK
  <1>5. SubscriptionsAgree' /\ RegistryOwnsHeap'
    BY <1>1 DEF SubscriptionsAgree, RegistryOwnsHeap, Allocated, Registered
  <1>6. ScheduleLive'
    BY <1>0, <1>1, <1>3 DEF TypeOK, ScheduleLive, Allocated
  <1> QED BY <1>4, <1>5, <1>6

\* The visited entry joins lmi while it is still in the schedule, so lmi
\* never outgrows the schedule, even when the new entry falls in its slot.
LEMMA VisitStep ==
    ASSUME Inv, NEW p \in Ptr, NEW s \in Slots, PollVisit(p, s)
    PROVE  Inv'
  <1> USE DEF Inv, network, registry, PollVisit
  <1>1. schedule[p][s] > lmi[p][s] /\ p \in Allocated
    BY DEF Overdue, ScheduleLive, TypeOK
  <1>2. lines' \in SUBSET Line
    BY <1>1 DEF DataLine, Line, TypeOK, Cell, Allocated
  <1>3. \A q \in Ptr, r \in Slots :
           /\ schedule'[q] \in [Slots -> Nat]
           /\ schedule'[q][r] >= schedule[q][r]
           /\ q # p => schedule'[q][r] = schedule[q][r]
    <2>1. schedule'[p] = Rearm(p, s) /\ \A q \in Ptr \ {p} : schedule'[q] = schedule[q]
      BY DEF TypeOK
    <2>2. \A q \in Ptr : schedule[q] \in [Slots -> Nat]
      BY DEF TypeOK
    <2>3. /\ schedule'[p] \in [Slots -> Nat]
          /\ \A r \in Slots : schedule'[p][r] >= schedule[p][r]
      BY <2>1, RearmGrows
    <2>4. \A q \in Ptr \ {p}, r \in Slots : schedule'[q][r] >= schedule[q][r]
      BY <2>1, <2>2
    <2> QED BY <2>1, <2>2, <2>3, <2>4
  <1>4. \A q \in Ptr, r \in Slots :
           /\ lmi'[q] \in [Slots -> Nat]
           /\ lmi'[q][r] = IF q = p /\ r = s THEN lmi[q][r] + 1 ELSE lmi[q][r]
    BY DEF TypeOK
  <1>5. TypeOK'
    BY <1>2, <1>3, <1>4 DEF TypeOK
  <1>6. SubscriptionsAgree' /\ RegistryOwnsHeap'
    BY DEF SubscriptionsAgree, RegistryOwnsHeap, Allocated, Registered
  <1>7. ScheduleLive'
    <2> SUFFICES ASSUME NEW q \in Ptr, NEW r \in Slots
                 PROVE  /\ lmi'[q][r] <= schedule'[q][r]
                        /\ schedule'[q][r] > 0 => q \in Allocated
      BY DEF ScheduleLive, Allocated
    <2>0. /\ schedule[q][r] \in Nat /\ lmi[q][r] \in Nat
          /\ schedule'[q][r] \in Nat /\ lmi'[q][r] \in Nat
      BY <1>5 DEF TypeOK
    <2>1. lmi[q][r] <= schedule[q][r]
      BY DEF ScheduleLive
    <2>2. lmi'[q][r] <= schedule'[q][r]
      BY <2>0, <2>1, <1>1, <1>3, <1>4
    <2>3. schedule'[q][r] > 0 => q \in Allocated
      BY <1>1, <1>3 DEF ScheduleLive
    <2> QED BY <2>2, <2>3
  <1> QED BY <1>5, <1>6, <1>7

\* Erasing lmi from the schedule leaves natural numbers, and no entry the
\* schedule did not have.
LEMMA PollEndStep == ASSUME Inv, PollEnd PROVE Inv'
  <1> USE DEF Inv, network, registry, PollEnd
  <1>1. \A p \in Ptr, s \in Slots :
           /\ schedule'[p][s] \in Nat
           /\ schedule'[p][s] <= schedule[p][s]
           /\ lmi'[p][s] = 0
    BY DEF TypeOK, ScheduleLive, Idle
  <1>2. TypeOK'
    BY <1>1 DEF TypeOK, Line, Idle
  <1>3. SubscriptionsAgree' /\ RegistryOwnsHeap'
    BY DEF SubscriptionsAgree, RegistryOwnsHeap, Allocated, Registered
  <1>4. ScheduleLive'
    BY <1>1, <1>2 DEF TypeOK, ScheduleLive, Allocated
  <1> QED BY <1>2, <1>3, <1>4

\* The clock only moves entries between slots.
LEMMA ShiftStep ==
    ASSUME Inv, NEW d \in Int, Ready, Shift(d), proc' = proc, jumps' \in Nat
    PROVE  Inv'
  <1> USE DEF Inv, Ready, Shift, network, registry
  <1>1. \A p \in Ptr, s \in Slots :
           /\ schedule'[p][s] \in Nat
           /\ lmi'[p][s] = 0
           /\ schedule'[p][s] > 0 => p \in Allocated
    BY DEF TypeOK, ScheduleLive, Slots
  <1>2. TypeOK'
    BY <1>1 DEF TypeOK
  <1>3. SubscriptionsAgree' /\ RegistryOwnsHeap'
    BY DEF SubscriptionsAgree, RegistryOwnsHeap, Allocated, Registered
  <1>4. ScheduleLive'
    BY <1>1 DEF ScheduleLive, Allocated
  <1> QED BY <1>2, <1>3, <1>4

\* The steps that leave all the bookkeeping alone.
LEMMA FrameStep ==
    ASSUME Inv, UNCHANGED <<network, registry, schedule, lmi, jumps>>,
           proc' \in {"up", "off", "dead", "hung"},
           polling' \in BOOLEAN, polling => polling',
           lines' = {} \/ lines' = lines
    PROVE  Inv'
  <1> USE DEF Inv, network, registry
  <1>1. TypeOK'
    BY DEF TypeOK, Line
  <1>2. SubscriptionsAgree' /\ RegistryOwnsHeap'
    BY DEF SubscriptionsAgree, RegistryOwnsHeap, Allocated, Registered
  <1>3. ScheduleLive'
    BY DEF ScheduleLive, Allocated
  <1> QED BY <1>1, <1>2, <1>3

----------------------------------------------------------------------------

LEMMA SessionStep ==
    ASSUME Inv, NEW c \in Conns, Session(c)
    PROVE  Inv'
  <1> USE DEF Inv
  <1>1. CASE Accept(c) \/ FirstPrompt(c) \/ Doom(c) \/ Qiging(c)
    BY <1>1, ConnectionStep
  <1>2. CASE Destroy(c)
    <2>1. subs[c] \in SUBSET Allocated
      BY DEF SubscriptionsAgree
    <2> QED BY <1>2, <2>1, SubscriptionStep DEF Destroy
  <1>3. CASE Turnoff(c)
    BY <1>3, DieInv DEF Turnoff
  <1>4. ASSUME NEW n \in Names, NEW i \in Intervals \cup {0}, Create(c, n, i)
        PROVE  Inv'
    BY <1>4, CreateStep
  <1>5. ASSUME NEW S \in SUBSET Names,
               \/ Delete(c, S) \/ DeleteFault(c, S) \/ Activate(c, S)
               \/ Subscribe(c, S) \/ Unsubscribe(c, S) \/ UnsubscribeFault(c, S)
        PROVE  Inv'
    <2>0. Found(S) \in SUBSET Allocated
      BY FoundAllocated
    <2>1. CASE Delete(c, S)
      BY <2>1, DeleteStep
    <2>2. CASE DeleteFault(c, S)
      BY <2>2, DieInv DEF DeleteFault
    <2>3. CASE Activate(c, S)
      BY <2>3, ActivateStep
    <2>4. CASE Subscribe(c, S)
      BY <2>0, <2>4, SubscriptionStep DEF Subscribe, Speaks, network
    <2>5. CASE Unsubscribe(c, S)
      BY <2>0, <2>5, SubscriptionStep DEF Unsubscribe, network
    <2>6. CASE UnsubscribeFault(c, S)
      <3>1. CASE Die("dead")
        BY <3>1, DieInv
      <3>2. CASE proc' = "hung" /\ UNCHANGED <<network, registry, timing, lines, jumps>>
        BY <3>2, FrameStep DEF timing, TypeOK
      <3> QED BY <2>6, <3>1, <3>2 DEF UnsubscribeFault
    <2> QED BY <1>5, <2>1, <2>2, <2>3, <2>4, <2>5, <2>6
  <1> QED BY <1>1, <1>2, <1>3, <1>4, <1>5 DEF Session

LEMMA NextStep == Inv /\ [Next]_vars => Inv'
  <1> SUFFICES ASSUME Inv, [Next]_vars PROVE Inv'
    OBVIOUS
  <1> USE DEF Inv
  <1>1. ASSUME NEW c \in Conns, Session(c) PROVE Inv'
    BY <1>1, SessionStep
  <1>2. CASE PollStart
    BY <1>2, FrameStep DEF PollStart, TypeOK
  <1>3. CASE PollEnd
    BY <1>3, PollEndStep
  <1>4. ASSUME NEW p \in Ptr, NEW s \in Slots, PollVisit(p, s) PROVE Inv'
    BY <1>4, VisitStep
  <1>5. CASE Tick
    BY <1>5, ShiftStep DEF Tick, TypeOK
  <1>6. ASSUME NEW d \in Jumps, SetClock(d) PROVE Inv'
    <2>1. jumps' \in Nat /\ d \in Int
      BY <1>6 DEF SetClock, TypeOK
    <2> QED BY <1>6, <2>1, ShiftStep DEF SetClock
  <1>7. CASE Kill
    BY <1>7, DieInv DEF Kill
  <1>8. CASE Restart
    BY <1>8, FrameStep DEF Restart, timing, TypeOK
  <1>9. CASE UNCHANGED vars
    BY <1>9, FrameStep DEF vars, timing, TypeOK
  <1> QED BY <1>1, <1>2, <1>3, <1>4, <1>5, <1>6, <1>7, <1>8, <1>9
          DEF Next, Poll, Environment

\* The bookkeeping of the probe is sound whatever its clients send, however
\* the clock moves and whenever the daemon dies and is started again.
THEOREM InvCorrect == Spec => []Inv
  BY InitInv, NextStep, PTL DEF Spec

\* Every reachable state is well typed: in particular the measuring loop
\* never erases more entries than the schedule holds, and no record set has
\* a null interval, with which that loop would never end.
THEOREM TypeCorrect == Spec => []TypeOK
  BY InvCorrect, PTL DEF Inv

\* CollectedConn::subs and RecordSet::channels are one relation between open
\* connections and live record sets: no line goes to a destroyed connection
\* and no destructor touches a freed record set.
THEOREM SubscriptionsCorrect == Spec => []SubscriptionsAgree
  BY InvCorrect, PTL DEF Inv

\* Nothing leaks: mrecordsets reaches every allocated record set and nothing
\* else.
THEOREM RegistryCorrect == Spec => []RegistryOwnsHeap
  BY InvCorrect, PTL DEF Inv

\* The measuring loop never measures a freed record set.
THEOREM ScheduleCorrect == Spec => []ScheduleLive
  BY InvCorrect, PTL DEF Inv
=============================================================================
