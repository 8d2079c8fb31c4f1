---------------------------- MODULE CollectProofs ----------------------------
(***************************************************************************)
(* Collect's invariants, and that it implements CollectionCycle, for any   *)
(* number of collectors and sets and any limits.  AwaitsItsAnswer and      *)
(* NoForgottenSet are inductive together: an acknowledgement leaves the    *)
(* set unfinished only if the wait described its command, and a set that   *)
(* moves on is found again only if pending is still set.                   *)
(***************************************************************************)
EXTENDS Collect, TLAPS

USE CollectAssumption

\* What Cycle and Phase hold, one state at a time.
LEMMA CycleTable ==
    /\ DOMAIN Cycle = {"del_remote_for_create", "create_remote", "activate_remote", "sub_remote"}
    /\ Cycle["del_remote_for_create"].next = "create_remote"
    /\ Cycle["create_remote"].next = "activate_remote"
    /\ Cycle["activate_remote"].next = "sub_remote"
    /\ Cycle["sub_remote"].next = "collect"
  <1>1. DOMAIN Cycle = {"del_remote_for_create", "create_remote", "activate_remote", "sub_remote"}
    BY DEF Cycle
  <1>2. Cycle["del_remote_for_create"].next = "create_remote"
    BY DEF Cycle
  <1>3. Cycle["create_remote"].next = "activate_remote"
    BY DEF Cycle
  <1>4. Cycle["activate_remote"].next = "sub_remote"
    BY DEF Cycle
  <1>5. Cycle["sub_remote"].next = "collect"
    BY DEF Cycle
  <1> QED BY <1>1, <1>2, <1>3, <1>4, <1>5

LEMMA CycleFacts ==
    \A x \in DOMAIN Cycle :
         /\ Cycle[x].ack \in Acks
         /\ Cycle[x].next \in CSState
         /\ \A s \in Sets : [cmd |-> Cycle[x].cmd, set |-> s] \in Commands
  <1>1. \A x \in DOMAIN Cycle : Cycle[x].ack \in Acks
    BY DEF Acks
  <1>2. \A x \in DOMAIN Cycle : Cycle[x].next \in CSState
    BY CycleTable DEF CSState
  <1>3. \A x \in DOMAIN Cycle, s \in Sets : [cmd |-> Cycle[x].cmd, set |-> s] \in Commands
    BY DEF Commands
  <1> QED BY <1>1, <1>2, <1>3

LEMMA PhaseTable ==
    /\ Phase["del_remote_for_create"] = 0
    /\ Phase["create_remote"] = 1
    /\ Phase["activate_remote"] = 2
    /\ Phase["sub_remote"] = 3
    /\ Phase["collect"] = 4
  <1>1. Phase["del_remote_for_create"] = 0
    BY DEF Phase
  <1>2. Phase["create_remote"] = 1
    BY DEF Phase
  <1>3. Phase["activate_remote"] = 2
    BY DEF Phase
  <1>4. Phase["sub_remote"] = 3
    BY DEF Phase
  <1>5. Phase["collect"] = 4
    BY DEF Phase
  <1> QED BY <1>1, <1>2, <1>3, <1>4, <1>5

LEMMA PhaseFacts ==
    /\ \A x \in DOMAIN Cycle : Phase[Cycle[x].next] = Phase[x] + 1 /\ Phase[x] < 4
    /\ Phase["collect"] = 4
    /\ Phase["del_remote_for_create"] = 0
  BY CycleTable, PhaseTable

----------------------------------------------------------------------------
(* The invariant. *)

\* A connection that still verifies has retries left.
RetriesLeft == \A k \in Collectors : state[k] = "verify" => nbtest[k] < CC__MAXRETRY

Inv == TypeOK /\ RetriesLeft /\ WatchedWhileWorking /\ AwaitsItsAnswer /\ NoForgottenSet

Timers ==
    /\ silence \in [Collectors -> 0..(SilenceLimit + 1)]
    /\ nbwakeattempt \in [Collectors -> 0..WakeLimit]
    /\ hold \in [Collectors -> BOOLEAN]

LEMMA CommandsTyped ==
    /\ Plain("qiging1") \in Commands
    /\ Plain("qiging") \in Commands
    /\ Plain("eos") \in Commands
  BY DEF Plain, Commands

LEMMA InitInv == Init => Inv
  <1> SUFFICES ASSUME Init PROVE Inv
    OBVIOUS
  <1>0. "delete:" \in Acks
    BY CycleTable DEF Acks, Cycle
  <1>1. TypeOK
    BY <1>0, CycleTable DEF Init, TypeOK, ConnStat, CSState
  <1>2. RetriesLeft /\ WatchedWhileWorking /\ AwaitsItsAnswer /\ NoForgottenSet
    BY DEF Init, RetriesLeft, WatchedWhileWorking, AwaitsItsAnswer, NoForgottenSet
  <1> QED BY <1>1, <1>2 DEF Inv

\* Steps that only move timers or the stream.
LEMMA FrameStep ==
    ASSUME Inv, UNCHANGED <<state, nbtest, is_collecting, work>>,
           Timers', tx' \in [Collectors -> Seq(Commands)]
    PROVE  Inv'
  BY DEF Inv, TypeOK, Timers, RetriesLeft, WatchedWhileWorking, AwaitsItsAnswer, NoForgottenSet,
         work, waiting, Unfinished

\* One command at a time: the wait describes the command that was sent.
LEMMA CommandStep ==
    ASSUME Inv, NEW k \in Collectors, NEW s \in Mpcs[k], NEW before \in Seq(Commands),
           state[k] = "ready", IsNext(k, s), Command(k, s, before),
           UNCHANGED <<nbtest, is_collecting>>, Timers'
    PROVE  Inv'
  <1> USE DEF Inv
  <1> DEFINE step == Cycle[cs[k][s]]
             msg  == [cmd |-> step.cmd, set |-> s]
  <1>1. s \in Sets /\ cs[k][s] \in DOMAIN Cycle
    BY DEF IsNext, Unfinished, TypeOK, CSState
  <1>2. step.ack \in Acks /\ step.next \in CSState /\ msg \in Commands
    BY <1>1, CycleFacts
  <1>3. tx' \in [Collectors -> Seq(Commands)]
    <2>1. Append(before, msg) \in Seq(Commands)
      BY <1>2
    <2>2. tx[k] \in Seq(Commands)
      BY DEF TypeOK
    <2>3. tx[k] \o Append(before, msg) \in Seq(Commands)
      BY <2>1, <2>2
    <2> HIDE DEF msg
    <2> QED BY <2>3 DEF TypeOK, Command, msg
  <1> HIDE DEF msg
  <1>4. TypeOK'
    BY <1>1, <1>2, <1>3 DEF TypeOK, Command, Timers, ConnStat
  <1>5. RetriesLeft' /\ WatchedWhileWorking'
    BY DEF TypeOK, RetriesLeft, WatchedWhileWorking, Command
  <1>6. AwaitsItsAnswer'
    <2> SUFFICES ASSUME NEW j \in Collectors, state'[j] = "waiting"
                 PROVE  /\ waiting_pcs'[j] \in Unfinished(j)'
                        /\ wait_string'[j] = Cycle[cs'[j][waiting_pcs'[j]]].ack
                        /\ waiting_pcs_nextstate'[j] = Cycle[cs'[j][waiting_pcs'[j]]].next
      BY DEF AwaitsItsAnswer
    <2>0. cs' = cs
      BY DEF Command
    <2>1. CASE j = k
      BY <2>0, <2>1 DEF TypeOK, Command, IsNext, Unfinished
    <2>2. CASE j # k
      <3>1. /\ state'[j] = state[j] /\ waiting_pcs'[j] = waiting_pcs[j]
            /\ wait_string'[j] = wait_string[j]
            /\ waiting_pcs_nextstate'[j] = waiting_pcs_nextstate[j]
        BY <2>2 DEF Command, TypeOK
      <3> QED BY <2>0, <3>1 DEF AwaitsItsAnswer, Unfinished
    <2> QED BY <2>1, <2>2
  <1>7. NoForgottenSet'
    BY DEF TypeOK, NoForgottenSet, Command, Unfinished
  <1> QED BY <1>4, <1>5, <1>6, <1>7

LEMMA ServeStep ==
    ASSUME Inv, NEW k \in Collectors, NEW before \in Seq(Commands), Serve(k, before),
           UNCHANGED <<nbtest, is_collecting>>, Timers'
    PROVE  Inv'
  <1>0. ASSUME UNCHANGED state, tx' = [tx EXCEPT ![k] = @ \o before]
        PROVE  tx' \in [Collectors -> Seq(Commands)]
    BY <1>0 DEF Inv, TypeOK
  <1>1. ASSUME NEW s \in Mpcs[k], state[k] = "ready", IsNext(k, s), Command(k, s, before)
        PROVE  Inv'
    BY <1>1, CommandStep
  <1>2. CASE /\ Unfinished(k) = {}
             /\ pending' = [pending EXCEPT ![k] = FALSE]
             /\ tx' = [tx EXCEPT ![k] = @ \o before]
             /\ UNCHANGED <<state, cs, waiting>>
    <2>1. TypeOK'
      BY <1>0, <1>2 DEF Inv, TypeOK, Timers, waiting
    <2>2. RetriesLeft' /\ WatchedWhileWorking' /\ AwaitsItsAnswer'
      BY <1>2 DEF Inv, TypeOK, RetriesLeft, WatchedWhileWorking, AwaitsItsAnswer, Unfinished, waiting
    <2>3. NoForgottenSet'
      BY <1>2 DEF Inv, TypeOK, NoForgottenSet, Unfinished
    <2> QED BY <2>1, <2>2, <2>3 DEF Inv
  <1>3. CASE /\ tx' = [tx EXCEPT ![k] = @ \o before]
             /\ UNCHANGED <<state, cs, pending, waiting>>
    BY <1>0, <1>3, FrameStep DEF work
  <1> QED BY <1>1, <1>2, <1>3 DEF Serve

\* A new connection starts every set over, and pending with them.
LEMMA ConnectedStep ==
    ASSUME Inv, NEW k \in Collectors, Connected(k), UNCHANGED nbtest,
           is_collecting' \in [Collectors -> BOOLEAN], ~is_collecting'[k],
           \A j \in Collectors \ {k} : is_collecting'[j] = is_collecting[j],
           Timers'
    PROVE  Inv'
  <1> USE DEF Inv
  <1>1. \A j \in Collectors \ {k} :
           /\ state'[j] = state[j] /\ cs'[j] = cs[j] /\ pending'[j] = pending[j]
    BY DEF Connected, TypeOK
  <1>2. state'[k] = "challenging" /\ pending'[k] = TRUE
    BY DEF Connected, TypeOK
  <1>3. TypeOK'
    <2>1. cs' \in [Collectors -> [Sets -> CSState]]
      BY CycleTable DEF Connected, TypeOK, CSState
    <2>2. tx' \in [Collectors -> Seq(Commands)]
      BY DEF Connected, TypeOK
    <2> QED BY <2>1, <2>2 DEF Connected, TypeOK, Timers, ConnStat, waiting
  <1>4. RetriesLeft' /\ WatchedWhileWorking'
    BY <1>1, <1>2 DEF RetriesLeft, WatchedWhileWorking
  <1>5. AwaitsItsAnswer'
    BY <1>1, <1>2 DEF AwaitsItsAnswer, Connected, Unfinished, waiting
  <1>6. NoForgottenSet'
    BY <1>1, <1>2 DEF NoForgottenSet, Unfinished
  <1> QED BY <1>3, <1>4, <1>5, <1>6

\* Losing the connection, or failing to get one, stops the wait and the
\* watch and leaves the work as it is.
LEMMA OfflineStep ==
    ASSUME Inv, NEW k \in Collectors,
           state' = [state EXCEPT ![k] = "needtoconnect"],
           UNCHANGED <<nbtest, work>>,
           is_collecting' \in [Collectors -> BOOLEAN], ~is_collecting'[k],
           \A j \in Collectors \ {k} : is_collecting'[j] = is_collecting[j],
           Timers', tx' \in [Collectors -> Seq(Commands)]
    PROVE  Inv'
  <1> USE DEF Inv, work, waiting
  <1>1. TypeOK'
    BY DEF TypeOK, Timers, ConnStat
  <1>2. RetriesLeft' /\ WatchedWhileWorking'
    BY DEF TypeOK, RetriesLeft, WatchedWhileWorking
  <1>3. AwaitsItsAnswer' /\ NoForgottenSet'
    BY DEF TypeOK, AwaitsItsAnswer, NoForgottenSet, Unfinished
  <1> QED BY <1>1, <1>2, <1>3

LEMMA PollStep ==
    ASSUME Inv, NEW k \in Collectors, Poll(k)
    PROVE  Inv'
  <1> USE DEF Inv
  <1>0. /\ <<>> \in Seq(Commands)
        /\ <<Plain("qiging1")>> \in Seq(Commands)
    BY CommandsTyped
  <1>1. CASE PollServe(k)
    BY <1>0, <1>1, ServeStep DEF PollServe, Timers, TypeOK
  <1>2. CASE PollWake(k)
    <2>1. Timers'
      BY <1>2 DEF PollWake, Timers, TypeOK, TooManyWakes
    <2> QED BY <1>0, <1>2, <2>1, ServeStep DEF PollWake
  <1>3. CASE PollConnect(k)
    <2>1. ~is_collecting[k]
      BY <1>3 DEF PollConnect, WatchedWhileWorking
    <2>2. Timers' /\ is_collecting' = is_collecting
      BY <1>3 DEF PollConnect, Connected, Unreachable, Timers, TypeOK
    <2>3. CASE Connected(k)
      BY <1>3, <2>1, <2>2, <2>3, ConnectedStep DEF PollConnect, TypeOK
    <2>4. CASE Unreachable(k)
      <3>1. tx' \in [Collectors -> Seq(Commands)]
        BY <2>4 DEF Unreachable, TypeOK
      <3> QED BY <1>3, <2>1, <2>2, <2>4, <3>1, OfflineStep
              DEF PollConnect, Unreachable, TypeOK
    <2> QED BY <1>3, <2>3, <2>4 DEF PollConnect
  <1>4. CASE PollGiveUp(k)
    <2>1. /\ is_collecting' \in [Collectors -> BOOLEAN]
          /\ ~is_collecting'[k]
          /\ \A j \in Collectors \ {k} : is_collecting'[j] = is_collecting[j]
      BY <1>4 DEF PollGiveUp, TypeOK
    <2>2. Timers'
      <3>1. hold' \in [Collectors -> BOOLEAN]
        BY <1>4 DEF PollGiveUp, Connected, Unreachable, TypeOK
      <3>2. /\ silence' \in [Collectors -> 0..(SilenceLimit + 1)]
            /\ nbwakeattempt' \in [Collectors -> 0..WakeLimit]
        BY <1>4 DEF PollGiveUp, TypeOK
      <3> QED BY <3>1, <3>2 DEF Timers
    <2>3. CASE Connected(k)
      BY <1>4, <2>1, <2>2, <2>3, ConnectedStep DEF PollGiveUp
    <2>4. CASE Unreachable(k)
      <3>1. tx' \in [Collectors -> Seq(Commands)]
        BY <2>4 DEF Unreachable, TypeOK
      <3> QED BY <1>4, <2>1, <2>2, <2>4, <3>1, OfflineStep DEF PollGiveUp, Unreachable
    <2> QED BY <1>4, <2>3, <2>4 DEF PollGiveUp
  <1> QED BY <1>1, <1>2, <1>3, <1>4 DEF Poll

\* The steps lineread and the handshake cause, but for an acknowledgement:
\* the work is not touched, and the watch starts with "ready".
LEMMA TalkStep ==
    ASSUME Inv, NEW k \in Collectors,
           /\ \A j \in Collectors \ {k} : /\ state'[j] = state[j]
                                          /\ is_collecting'[j] = is_collecting[j]
                                          /\ nbtest'[j] = nbtest[j]
           /\ state' \in [Collectors -> ConnStat]
           /\ is_collecting' \in [Collectors -> BOOLEAN],
           \/ state'[k] = state[k] /\ is_collecting'[k] = is_collecting[k]
           \/ state'[k] = "ready" /\ is_collecting'[k]
           \/ state[k] \notin {"ready", "waiting"}
                /\ state'[k] \in {"welcome", "verify", "timeout"}
                /\ is_collecting'[k] = is_collecting[k],
           nbtest' \in [Collectors -> 0..CC__MAXRETRY],
           state'[k] = "verify" => nbtest'[k] < CC__MAXRETRY,
           UNCHANGED work, Timers', tx' \in [Collectors -> Seq(Commands)]
    PROVE  Inv'
  <1> USE DEF Inv, work, waiting
  <1>1. TypeOK'
    BY DEF TypeOK, Timers
  <1>2. RetriesLeft' /\ WatchedWhileWorking'
    BY DEF RetriesLeft, WatchedWhileWorking, TypeOK
  <1>3. \A j \in Collectors : state'[j] = "waiting" => state[j] = "waiting"
    <2> SUFFICES ASSUME NEW j \in Collectors, state'[j] = "waiting" PROVE state[j] = "waiting"
      OBVIOUS
    <2>1. CASE j = k
      BY <2>1
    <2>2. CASE j # k
      BY <2>2
    <2> QED BY <2>1, <2>2
  <1>4. AwaitsItsAnswer'
    BY <1>3 DEF AwaitsItsAnswer, Unfinished
  <1>5. NoForgottenSet'
    BY DEF NoForgottenSet, Unfinished
  <1> QED BY <1>1, <1>2, <1>4, <1>5

LEMMA WriteTyped ==
    ASSUME TypeOK, NEW k \in Collectors, NEW m \in Commands, Write(k, m)
    PROVE  tx' \in [Collectors -> Seq(Commands)]
  BY DEF TypeOK, Write

\* The acknowledged set moves on; it stays unfinished or was the last step.
LEMMA AcknowledgeStep ==
    ASSUME Inv, NEW k \in Collectors, NEW line \in Lines, Acknowledge(k, line), Timers'
    PROVE  Inv'
  <1> USE DEF Inv
  <1>1. /\ waiting_pcs[k] \in Unfinished(k) /\ waiting_pcs[k] \in Sets
        /\ is_collecting[k]
        /\ pending[k]
    BY DEF Acknowledge, AwaitsItsAnswer, WatchedWhileWorking, NoForgottenSet, Unfinished
  <1>2. \A j \in Collectors \ {k} :
           /\ state'[j] = state[j] /\ cs'[j] = cs[j] /\ waiting_pcs'[j] = waiting_pcs[j]
    BY DEF Acknowledge, TypeOK
  <1>3. state'[k] = "ready"
    BY DEF Acknowledge, TypeOK
  <1>4. TypeOK'
    BY <1>1 DEF Acknowledge, TypeOK, Timers, ConnStat
  <1>5. RetriesLeft' /\ WatchedWhileWorking'
    BY <1>1, <1>2, <1>3 DEF Acknowledge, RetriesLeft, WatchedWhileWorking
  <1>6. AwaitsItsAnswer'
    BY <1>2, <1>3 DEF Acknowledge, AwaitsItsAnswer, Unfinished
  <1>7. NoForgottenSet'
    BY <1>1, <1>2 DEF Acknowledge, NoForgottenSet, Unfinished
  <1> QED BY <1>4, <1>5, <1>6, <1>7

LEMMA LineReadStep ==
    ASSUME Inv, NEW k \in Collectors, NEW line \in Lines, LineRead(k, line)
    PROVE  Inv'
  <1> USE DEF Inv
  <1>0. Timers'
    BY DEF LineRead, Timers, TypeOK
  <1>1. CASE Welcome(k, line)
    <2>1. tx' \in [Collectors -> Seq(Commands)]
      BY <1>1, CommandsTyped, WriteTyped DEF Welcome
    <2>2. CASE line = "qigong["
      <3>1. /\ state[k] = "welcome"
            /\ state' = [state EXCEPT ![k] = "verify"]
            /\ nbtest' = [nbtest EXCEPT ![k] = 0]
            /\ UNCHANGED <<is_collecting, work>>
        BY <1>1, <2>2 DEF Welcome
      <3>2. nbtest' \in [Collectors -> 0..CC__MAXRETRY] /\ nbtest'[k] < CC__MAXRETRY
        BY <3>1 DEF TypeOK
      <3>3. /\ state' \in [Collectors -> ConnStat]
            /\ state'[k] = "verify"
        BY <3>1 DEF TypeOK, ConnStat
      <3>4. \A j \in Collectors \ {k} : /\ state'[j] = state[j]
                                         /\ is_collecting'[j] = is_collecting[j]
                                         /\ nbtest'[j] = nbtest[j]
        BY <3>1 DEF TypeOK
      <3>5. is_collecting' = is_collecting /\ is_collecting \in [Collectors -> BOOLEAN]
        BY <3>1 DEF TypeOK
      <3> QED BY <1>0, <2>1, <3>1, <3>2, <3>3, <3>4, <3>5, TalkStep
    <2>3. CASE line # "qigong["
      <3>1. UNCHANGED <<state, nbtest, is_collecting, work>>
        BY <1>1, <2>3 DEF Welcome
      <3> QED BY <1>0, <2>1, <3>1, FrameStep
    <2> QED BY <2>2, <2>3
  <1>2. CASE Verify(k, line)
    <2>1. CASE line = "qigong."
      <3>1. /\ state' = [state EXCEPT ![k] = "ready"]
            /\ is_collecting' = [is_collecting EXCEPT ![k] = TRUE]
            /\ UNCHANGED <<nbtest, tx, work>>
        BY <1>2, <2>1 DEF Verify
      <3> QED BY <1>0, <3>1, TalkStep DEF TypeOK, ConnStat
    <2>2. CASE line # "qigong."
      <3>1. /\ nbtest' = [nbtest EXCEPT ![k] = @ + 1]
            /\ state' = [state EXCEPT ![k] =
                           IF nbtest[k] + 1 >= CC__MAXRETRY THEN "timeout" ELSE @]
            /\ Write(k, Plain("qiging"))
            /\ UNCHANGED <<is_collecting, work>>
            /\ state[k] = "verify"
        BY <1>2, <2>2 DEF Verify
      <3>2. tx' \in [Collectors -> Seq(Commands)]
        BY <3>1, CommandsTyped, WriteTyped
      <3>3. nbtest[k] \in 0..CC__MAXRETRY /\ nbtest[k] < CC__MAXRETRY
        BY <3>1 DEF RetriesLeft, TypeOK
      <3>4. nbtest[k] + 1 \in 0..CC__MAXRETRY
        BY <3>3
      <3>5. nbtest' \in [Collectors -> 0..CC__MAXRETRY]
        BY <3>1, <3>4 DEF TypeOK
      <3>6. state'[k] = "verify" => nbtest'[k] < CC__MAXRETRY
        BY <3>1, <3>3, <3>4 DEF TypeOK
      <3>7. /\ state' \in [Collectors -> ConnStat]
            /\ state'[k] \in {"verify", "timeout"}
        BY <3>1 DEF TypeOK, ConnStat
      <3>8. \A j \in Collectors \ {k} : /\ state'[j] = state[j]
                                         /\ is_collecting'[j] = is_collecting[j]
                                         /\ nbtest'[j] = nbtest[j]
        BY <3>1 DEF TypeOK
      <3>9. is_collecting' = is_collecting /\ is_collecting \in [Collectors -> BOOLEAN]
        BY <3>1 DEF TypeOK
      <3> QED BY <1>0, <3>1, <3>2, <3>5, <3>6, <3>7, <3>8, <3>9, TalkStep
    <2> QED BY <2>1, <2>2
  <1>3. CASE Acknowledge(k, line)
    BY <1>0, <1>3, AcknowledgeStep
  <1>4. CASE Ignore(k, line)
    <2>1. UNCHANGED <<state, nbtest, is_collecting, work>> /\ tx' = tx
      BY <1>4 DEF Ignore
    <2>2. tx' \in [Collectors -> Seq(Commands)]
      BY <2>1 DEF TypeOK
    <2> QED BY <1>0, <2>1, <2>2, FrameStep
  <1> QED BY <1>1, <1>2, <1>3, <1>4 DEF LineRead

LEMMA NextStep == Inv /\ [Next]_collectVars => Inv'
  <1> SUFFICES ASSUME Inv, [Next]_collectVars PROVE Inv'
    OBVIOUS
  <1> USE DEF Inv, link
  <1>1. CASE Tick
    <2>1. Timers'
      BY <1>1 DEF Tick, Timers, TypeOK
    <2> QED BY <1>1, <2>1, FrameStep DEF Tick, TypeOK
  <1>2. ASSUME NEW k \in Collectors, Poll(k) PROVE Inv'
    BY <1>2, PollStep
  <1>3. ASSUME NEW k \in Collectors, DelayOver(k) PROVE Inv'
    <2>1. Timers'
      BY <1>3 DEF DelayOver, Timers, TypeOK
    <2> QED BY <1>3, <2>1, FrameStep DEF DelayOver, TypeOK
  <1>4. ASSUME NEW k \in Collectors, PeerClosed(k) PROVE Inv'
    <2>1. Timers'
      BY <1>4 DEF PeerClosed, Timers, TypeOK
    <2>2. tx' \in [Collectors -> Seq(Commands)]
      BY <1>4 DEF PeerClosed, TypeOK
    <2>3. /\ is_collecting' \in [Collectors -> BOOLEAN]
          /\ ~is_collecting'[k]
          /\ \A j \in Collectors \ {k} : is_collecting'[j] = is_collecting[j]
      BY <1>4 DEF PeerClosed, TypeOK
    <2> QED BY <1>4, <2>1, <2>2, <2>3, OfflineStep DEF PeerClosed
  <1>5. ASSUME NEW k \in Collectors, FirstPrompt(k) PROVE Inv'
    <2>1. tx' \in [Collectors -> Seq(Commands)]
      BY <1>5, CommandsTyped, WriteTyped DEF FirstPrompt
    <2>2. Timers'
      BY <1>5 DEF FirstPrompt, Timers, TypeOK
    <2> QED BY <1>5, <2>1, <2>2, TalkStep DEF FirstPrompt, TypeOK, ConnStat
  <1>6. ASSUME NEW k \in Collectors, PeerReads(k) PROVE Inv'
    <2>1. Tail(tx[k]) \in Seq(Commands)
      BY <1>6 DEF PeerReads, TypeOK
    <2>2. tx' \in [Collectors -> Seq(Commands)]
      BY <1>6, <2>1 DEF PeerReads, TypeOK
    <2>3. Timers'
      BY <1>6 DEF PeerReads, Timers, TypeOK
    <2> QED BY <1>6, <2>2, <2>3, FrameStep DEF PeerReads
  <1>7. ASSUME NEW k \in Collectors, NEW line \in Lines, LineRead(k, line) PROVE Inv'
    BY <1>7, LineReadStep
  <1>8. CASE UNCHANGED collectVars
    BY <1>8, FrameStep DEF collectVars, Timers, TypeOK
  <1> QED BY <1>1, <1>2, <1>3, <1>4, <1>5, <1>6, <1>7, <1>8 DEF Next

\* The fields of a connection stay consistent whatever its peer sends,
\* whenever it closes and however long it is silent.
THEOREM InvCorrect == Spec => []Inv
  BY InitInv, NextStep, PTL DEF Spec

\* Every reachable state is well typed: neither the wake-ups nor the lines
\* counted in "verify" run past their limit.
THEOREM TypeCorrect == Spec => []TypeOK
  BY InvCorrect, PTL DEF Inv

\* is_collecting is set exactly in "ready" and "waiting", so that silence is
\* watched from the first command on and never on a lost connection.
THEOREM WatchedCorrect == Spec => []WatchedWhileWorking
  BY InvCorrect, PTL DEF Inv

\* A waiting connection waits for the answer to the command it sent last.
THEOREM AwaitsCorrect == Spec => []AwaitsItsAnswer
  BY InvCorrect, PTL DEF Inv

\* pending is never clear while a set still needs a command.
THEOREM NoForgottenCorrect == Spec => []NoForgottenSet
  BY InvCorrect, PTL DEF Inv

----------------------------------------------------------------------------
(* Every step of a collector is a step of CollectionCycle, or none.        *)

LEMMA SetupStutter ==
    ASSUME UNCHANGED <<cs, waiting_pcs>>,
           \A j \in Collectors :
              /\ state'[j] = "needtoconnect" <=> state[j] = "needtoconnect"
              /\ state'[j] = "waiting" <=> state[j] = "waiting"
    PROVE  UNCHANGED Setup!vars
  BY DEF Setup!vars, Linked, PhaseOf, Asked

LEMMA SetupLose ==
    ASSUME TypeOK, NEW k \in Collectors,
           state' = [state EXCEPT ![k] = "needtoconnect"], UNCHANGED work
    PROVE  Setup!Lose(k)
  <1>1. \A j \in Collectors : state'[j] = IF j = k THEN "needtoconnect" ELSE state[j]
    BY DEF TypeOK
  <1>2. Linked' = Linked \ {k}
    BY <1>1 DEF Linked
  <1>3. Asked' = [Asked EXCEPT ![k] = NoSet]
    <2>1. waiting_pcs' = waiting_pcs
      BY DEF work, waiting
    <2>2. \A j \in Collectors : Asked'[j] = IF j = k THEN NoSet ELSE Asked[j]
      BY <1>1, <2>1 DEF Asked
    <2>3. Asked' = [j \in Collectors |-> Asked'[j]] /\ Asked = [j \in Collectors |-> Asked[j]]
      BY DEF Asked
    <2> QED BY <2>2, <2>3
  <1>4. PhaseOf' = PhaseOf
    BY DEF PhaseOf, work
  <1> QED BY <1>2, <1>3, <1>4 DEF Setup!Lose

LEMMA SetupLink ==
    ASSUME TypeOK, NEW k \in Collectors, Connected(k)
    PROVE  Setup!Link(k)
  <1>1. \A j \in Collectors : state'[j] = IF j = k THEN "challenging" ELSE state[j]
    BY DEF Connected, TypeOK
  <1>2. \A j \in Collectors, s \in Sets :
           cs'[j][s] = IF j = k /\ s \in Mpcs[k] THEN "del_remote_for_create" ELSE cs[j][s]
    BY DEF Connected, TypeOK
  <1>3. Linked' = Linked \cup {k}
    BY <1>1 DEF Linked
  <1>4. Asked' = [Asked EXCEPT ![k] = NoSet]
    <2>1. waiting_pcs' = waiting_pcs
      BY DEF Connected, waiting
    <2> QED BY <1>1, <2>1 DEF Asked
  <1>5. PhaseOf' = [PhaseOf EXCEPT ![k] = [s \in Sets |-> IF s \in Mpcs[k] THEN 0 ELSE @[s]]]
    <2>1. \A j \in Collectors, s \in Sets :
             Phase[cs'[j][s]] = IF j = k /\ s \in Mpcs[k] THEN 0 ELSE Phase[cs[j][s]]
      BY <1>2, PhaseTable
    <2>2. \A j \in Collectors \ {k} : PhaseOf'[j] = PhaseOf[j]
      BY <2>1 DEF PhaseOf
    <2>3. PhaseOf'[k] = [s \in Sets |-> IF s \in Mpcs[k] THEN 0 ELSE PhaseOf[k][s]]
      BY <2>1 DEF PhaseOf
    <2>4. PhaseOf' = [j \in Collectors |-> PhaseOf'[j]]
          /\ PhaseOf = [j \in Collectors |-> PhaseOf[j]]
      BY DEF PhaseOf
    <2> QED BY <2>2, <2>3, <2>4
  <1> QED BY <1>3, <1>4, <1>5 DEF Setup!Link

\* poll asks for the first unfinished set: those before it are all collected.
LEMMA SetupAsk ==
    ASSUME TypeOK, NEW k \in Collectors, NEW s \in Mpcs[k], NEW before,
           state[k] = "ready", IsNext(k, s), Command(k, s, before)
    PROVE  Setup!Ask(k, s)
  <1>1. \A j \in Collectors : state'[j] = IF j = k THEN "waiting" ELSE state[j]
    BY DEF Command, TypeOK
  <1>2. \A j \in Collectors : waiting_pcs'[j] = IF j = k THEN s ELSE waiting_pcs[j]
    BY DEF Command, TypeOK
  <1>3. s \in Sets /\ cs[k][s] \in DOMAIN Cycle
    BY DEF IsNext, Unfinished, TypeOK, CSState
  <1>4. \A r \in Mpcs[k] : Rank[r] < Rank[s] => PhaseOf[k][r] = 4
    <2> SUFFICES ASSUME NEW r \in Mpcs[k], Rank[r] < Rank[s] PROVE PhaseOf[k][r] = 4
      OBVIOUS
    <2>1. r \in Sets /\ Rank[r] \in Nat /\ Rank[s] \in Nat
      BY <1>3
    <2>2. cs[k][r] = "collect"
      BY <2>1 DEF IsNext, Unfinished
    <2> QED BY <2>1, <2>2, PhaseFacts DEF PhaseOf
  <1>5. PhaseOf[k][s] < 4
    BY <1>3, PhaseFacts DEF PhaseOf
  <1>6. Linked' = Linked /\ k \in Linked
    BY <1>1 DEF Linked
  <1>7. Asked[k] = NoSet /\ Asked' = [Asked EXCEPT ![k] = s]
    BY <1>1, <1>2 DEF Asked
  <1>8. PhaseOf' = PhaseOf
    BY DEF PhaseOf, Command
  <1> QED BY <1>4, <1>5, <1>6, <1>7, <1>8 DEF Setup!Ask

\* An acknowledgement takes the set that was asked one phase further.
LEMMA SetupAnswer ==
    ASSUME TypeOK, AwaitsItsAnswer, NEW k \in Collectors, NEW line \in Lines,
           Acknowledge(k, line)
    PROVE  \E s \in Mpcs[k] : Setup!Answer(k, s)
  <1> DEFINE s == waiting_pcs[k]
  <1>1. /\ s \in Mpcs[k] /\ s \in Sets /\ cs[k][s] \in DOMAIN Cycle
        /\ waiting_pcs_nextstate[k] = Cycle[cs[k][s]].next
    BY DEF Acknowledge, AwaitsItsAnswer, Unfinished, TypeOK, CSState
  <1>2. state[k] = "waiting"
        /\ \A j \in Collectors : state'[j] = IF j = k THEN "ready" ELSE state[j]
    BY DEF Acknowledge, TypeOK
  <1>3. \A j \in Collectors, r \in Sets :
           cs'[j][r] = IF j = k /\ r = s THEN Cycle[cs[k][s]].next ELSE cs[j][r]
    BY <1>1 DEF Acknowledge, TypeOK
  <1>4. \A j \in Collectors : j # k => waiting_pcs'[j] = waiting_pcs[j]
    BY DEF Acknowledge, TypeOK
  <1>5. Linked' = Linked /\ k \in Linked
    BY <1>2 DEF Linked
  <1>6. Asked[k] = s /\ Asked' = [Asked EXCEPT ![k] = NoSet]
    BY <1>2, <1>4 DEF Asked
  <1> HIDE DEF s
  <1>7. PhaseOf' = [PhaseOf EXCEPT ![k][s] = @ + 1]
    <2>1. \A j \in Collectors, r \in Sets :
             Phase[cs'[j][r]] = IF j = k /\ r = s THEN Phase[cs[k][s]] + 1
                                                  ELSE Phase[cs[j][r]]
      BY <1>1, <1>3, PhaseFacts
    <2>2. \A j \in Collectors \ {k} : PhaseOf'[j] = PhaseOf[j]
      BY <2>1 DEF PhaseOf
    <2>3. PhaseOf'[k] = [PhaseOf[k] EXCEPT ![s] = @ + 1]
      BY <1>1, <2>1 DEF PhaseOf
    <2>4. PhaseOf' = [j \in Collectors |-> PhaseOf'[j]]
          /\ PhaseOf = [j \in Collectors |-> PhaseOf[j]]
      BY DEF PhaseOf
    <2> QED BY <2>2, <2>3, <2>4
  <1> QED BY <1>1, <1>5, <1>6, <1>7 DEF Setup!Answer

LEMMA SetupServe ==
    ASSUME TypeOK, NEW k \in Collectors, NEW before, Serve(k, before)
    PROVE  [Setup!Next]_(Setup!vars)
  <1>1. ASSUME NEW s \in Mpcs[k], state[k] = "ready", IsNext(k, s), Command(k, s, before)
        PROVE  Setup!Next
    BY <1>1, SetupAsk DEF Setup!Next
  <1>2. CASE UNCHANGED <<state, cs, waiting>>
    BY <1>2, SetupStutter DEF waiting
  <1> QED BY <1>1, <1>2 DEF Serve

LEMMA SetupNext == Inv /\ [Next]_collectVars => [Setup!Next]_(Setup!vars)
  <1> SUFFICES ASSUME Inv, [Next]_collectVars PROVE [Setup!Next]_(Setup!vars)
    OBVIOUS
  <1> USE DEF Inv
  <1>1. CASE Tick
    BY <1>1, SetupStutter DEF Tick, link, work, waiting
  <1>2. ASSUME NEW k \in Collectors, PollServe(k) \/ PollWake(k)
        PROVE  [Setup!Next]_(Setup!vars)
    BY <1>2, SetupServe DEF PollServe, PollWake
  <1>3. ASSUME NEW k \in Collectors, PollConnect(k) \/ PollGiveUp(k) PROVE Setup!Next
    <2>1. CASE Connected(k)
      BY <2>1, SetupLink DEF Setup!Next
    <2>2. CASE Unreachable(k)
      BY <2>2, SetupLose DEF Unreachable, Setup!Next
    <2> QED BY <1>3, <2>1, <2>2 DEF PollConnect, PollGiveUp
  <1>4. ASSUME NEW k \in Collectors, DelayOver(k) \/ PeerReads(k)
        PROVE  UNCHANGED Setup!vars
    BY <1>4, SetupStutter DEF DelayOver, PeerReads, link, work, waiting
  <1>5. ASSUME NEW k \in Collectors, PeerClosed(k) PROVE Setup!Next
    BY <1>5, SetupLose DEF PeerClosed, Setup!Next
  <1>6. ASSUME NEW k \in Collectors, FirstPrompt(k) PROVE UNCHANGED Setup!vars
    BY <1>6, SetupStutter DEF FirstPrompt, work, waiting, TypeOK
  <1>7. ASSUME NEW k \in Collectors, NEW line \in Lines, LineRead(k, line)
        PROVE  [Setup!Next]_(Setup!vars)
    <2>1. CASE Welcome(k, line)
      BY <2>1, SetupStutter DEF Welcome, work, waiting, TypeOK
    <2>2. CASE Verify(k, line)
      BY <2>2, SetupStutter DEF Verify, work, waiting, TypeOK
    <2>3. CASE Acknowledge(k, line)
      BY <2>3, SetupAnswer DEF Setup!Next
    <2>4. CASE Ignore(k, line)
      BY <2>4, SetupStutter DEF Ignore, work, waiting
    <2> QED BY <1>7, <2>1, <2>2, <2>3, <2>4 DEF LineRead
  <1>8. CASE UNCHANGED collectVars
    BY <1>8, SetupStutter DEF collectVars, link, work, waiting
  <1> QED BY <1>1, <1>2, <1>3, <1>4, <1>5, <1>6, <1>7, <1>8 DEF Next, Poll

\* Whatever the peer sends and whenever it goes away, each connection takes
\* its sets through delete, create, activate and subscribe one answered step
\* at a time, in order, and starts all of them over when it reconnects.
THEOREM CycleCorrect == Spec => ImplementsCycle
  <1>1. Init => Setup!Init
    BY PhaseTable DEF Init, Setup!Init, Linked, PhaseOf, Asked
  <1> QED BY <1>1, InvCorrect, SetupNext, PTL DEF Spec, ImplementsCycle, Setup!Spec
=============================================================================
