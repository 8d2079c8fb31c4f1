---------------------------- MODULE QiSystemProofs ----------------------------
(***************************************************************************)
(* Proofs about QiSystem, for any collectors that share no set, any sets   *)
(* and any number of faults: the ends agree, and the answer to "qiging ?"  *)
(* is read before a second line is counted.                                *)
(*                                                                         *)
(* The argument follows each set through the command about it: a           *)
(* connection has at most one such command or answer under way, that of    *)
(* the step it waits for, and the probe is as far with the set as the      *)
(* collector, or one step further while the answer is under way.           *)
(***************************************************************************)
EXTENDS QiSystem, CollectProofs

USE SystemAssumption

----------------------------------------------------------------------------
(* The greeting.                                                           *)

\* What a probe says first: its banner and the prompt, then the answer to the
\* "qiging ?" the collector sent before it read them.
Script == <<"other", "other", "qigong[", "other", "qigong.">>

\* p lines of it are read: those on their way are the next ones, and while the
\* connection is up the others are sure to come.
Follows(k, p) ==
    /\ \A i \in 1..Len(rx[k]) : p + i <= 5 => rx[k][i] = Script[p + i]
    /\ wire[k] = "up" /\ p + Len(rx[k]) < 5 =>
         /\ p + Len(rx[k]) = IF server[k] = "open" THEN 3 ELSE 0
         /\ IF state[k] = "challenging" THEN tx[k] = <<>>
            ELSE tx[k] # <<>> /\ Head(tx[k]) = Plain("qiging")

Greeted(k) ==
    /\ state[k] = "challenging" => Follows(k, 0)
    /\ state[k] = "welcome" => \E p \in 0..2 : Follows(k, p)
    /\ state[k] = "verify" => Follows(k, 3 + nbtest[k])

----------------------------------------------------------------------------
(* The command a connection waits for.                                     *)

Orders == {m \in Commands : m.set \in Sets}

\* Some member of A is in q; at most one is, and it is v.
Holds(q, A) == \E i \in 1..Len(q) : q[i] \in A
Only(q, A, v) ==
    \A i, j \in 1..Len(q) : q[i] \in A /\ q[j] \in A => i = j /\ q[i] = v

Question(k) == [cmd |-> Cycle[cs[k][waiting_pcs[k]]].cmd, set |-> waiting_pcs[k]]

OneAtATime(k) ==
    /\ Only(tx[k], Orders, Question(k))
    /\ Only(rx[k], Acks, wait_string[k])
    /\ ~(Holds(tx[k], Orders) /\ Holds(rx[k], Acks))
    /\ Holds(tx[k], Orders) \/ Holds(rx[k], Acks) => state[k] = "waiting"

----------------------------------------------------------------------------
(* How far the probe is with a set.                                        *)

AsksFor(k, s) == state[k] = "waiting" /\ waiting_pcs[k] = s
Reached(k, s) ==
    IF AsksFor(k, s) /\ Holds(rx[k], Acks) THEN Phase[cs[k][s]] + 1 ELSE Phase[cs[k][s]]
\* The answer was no acknowledgement: this connection asks no more.
Refusal(k, s) == AsksFor(k, s) /\ ~Holds(tx[k], Orders) /\ ~Holds(rx[k], Acks)

AtProbe(k, s, p) ==
    /\ p = 1 => s \notin records
    /\ p >= 2 => s \in records
    /\ p = 2 => cycles[s] = 0
    /\ p >= 3 => cycles[s] = 1
    /\ p = 4 => k \in subscribers[s]

InStep(k) ==
    Working(k) => \A s \in Mpcs[k] \ late : Refusal(k, s) \/ AtProbe(k, s, Reached(k, s))

----------------------------------------------------------------------------
(* The rest of the invariant.                                              *)

Beginning == {"challenging", "welcome", "verify"}
Fresh(k) == state[k] \in Beginning =>
                \A s \in Mpcs[k] : cs[k][s] = "del_remote_for_create"

Joined(k) ==
    /\ wire[k] = "up" <=> server[k] # "none"
    /\ state[k] = "needtoconnect" => wire[k] # "up" /\ rx[k] = <<>>
    /\ \A s \in Sets : k \in subscribers[s] =>
         server[k] = "open" /\ state[k] \in {"ready", "waiting"}

OneRetry(k) == nbtest[k] <= 1
Connection(k) ==
    Greeted(k) /\ OneAtATime(k) /\ InStep(k) /\ Fresh(k) /\ Joined(k) /\ OneRetry(k)

CyclesOwned == \A s \in Sets : cycles[s] > 0 => s \in records

SysInv == Inv /\ SystemTypeOK /\ CyclesOwned /\ \A k \in Collectors : Connection(k)

----------------------------------------------------------------------------
(* Sequences.                                                              *)

\* What is appended adds its own members.
LEMMA ConcatHolds ==
    ASSUME NEW S, NEW A, NEW v, NEW q \in Seq(S), NEW r \in Seq(S), NEW c, c = q \o r
    PROVE  /\ c \in Seq(S) /\ Len(c) = Len(q) + Len(r)
           /\ Holds(c, A) <=> Holds(q, A) \/ Holds(r, A)
           /\ Only(q, A, v) /\ ~Holds(r, A) => Only(c, A, v)
           /\ Only(r, A, v) /\ ~Holds(q, A) => Only(c, A, v)
<1> DEFINE n == Len(q)
<1>1. /\ q \o r \in Seq(S) /\ Len(q \o r) = n + Len(r) /\ n \in Nat /\ Len(r) \in Nat
  OBVIOUS
<1>2. \A i \in 1..n : (q \o r)[i] = q[i] /\ i \in 1..Len(q \o r)
  OBVIOUS
<1>3. \A i \in 1..Len(r) : (q \o r)[n + i] = r[i] /\ n + i \in 1..Len(q \o r)
  OBVIOUS
<1>4. ASSUME NEW i \in 1..Len(q \o r)
      PROVE  i \in 1..n \/ (i - n \in 1..Len(r) /\ i = n + (i - n))
  BY <1>1
<1> HIDE DEF n
<1>5. /\ c \in Seq(S) /\ Len(c) = n + Len(r)
      /\ \A i \in 1..n : c[i] = q[i] /\ i \in 1..Len(c)
      /\ \A i \in 1..Len(r) : c[n + i] = r[i] /\ n + i \in 1..Len(c)
      /\ \A i \in 1..Len(c) : i \in 1..n \/ (i - n \in 1..Len(r) /\ c[i] = r[i - n])
  <2>1. ASSUME NEW i \in 1..Len(c), i \notin 1..n
        PROVE  i - n \in 1..Len(r) /\ c[i] = r[i - n]
    <3>1. i - n \in 1..Len(r) /\ i = n + (i - n)
      BY <1>4, <2>1
    <3> QED
      BY <1>3, <3>1
  <2> QED
    BY <1>1, <1>2, <1>3, <2>1
<1>6. Holds(c, A) <=> Holds(q, A) \/ Holds(r, A)
  BY <1>5 DEF Holds, n
<1>7. ASSUME Only(q, A, v), ~Holds(r, A) PROVE Only(c, A, v)
  BY <1>5, <1>7 DEF Only, Holds, n
<1>8. ASSUME Only(r, A, v), ~Holds(q, A) PROVE Only(c, A, v)
  <2> SUFFICES ASSUME NEW i \in 1..Len(c), NEW j \in 1..Len(c), c[i] \in A, c[j] \in A
               PROVE  i = j /\ c[i] = v
    BY DEF Only
  <2>1. i - n \in 1..Len(r) /\ c[i] = r[i - n] /\ j - n \in 1..Len(r) /\ c[j] = r[j - n]
    BY <1>5, <1>8 DEF Holds, n
  <2>2. i - n = j - n /\ r[i - n] = v
    BY <1>8, <2>1 DEF Only
  <2>3. i \in Int /\ j \in Int
    OBVIOUS
  <2> QED
    BY <1>1, <2>1, <2>2, <2>3
<1> QED
  BY <1>1, <1>6, <1>7, <1>8 DEF n

\* What is read leaves the rest.
LEMMA TailHolds ==
    ASSUME NEW S, NEW A, NEW v, NEW q \in Seq(S), q # <<>>
    PROVE  /\ Head(q) \in S /\ Head(q) = q[1] /\ Tail(q) \in Seq(S)
           /\ Len(q) \in Nat /\ Len(q) >= 1 /\ Len(Tail(q)) = Len(q) - 1
           /\ \A i \in 1..Len(Tail(q)) : Tail(q)[i] = q[i + 1] /\ i + 1 \in 1..Len(q)
           /\ Holds(q, A) <=> Head(q) \in A \/ Holds(Tail(q), A)
           /\ Only(q, A, v) => /\ Only(Tail(q), A, v)
                               /\ Head(q) \in A => Head(q) = v /\ ~Holds(Tail(q), A)
<1>1. /\ Head(q) \in S /\ Head(q) = q[1] /\ Tail(q) \in Seq(S)
      /\ Len(q) \in Nat /\ Len(q) >= 1 /\ Len(Tail(q)) = Len(q) - 1
  OBVIOUS
<1> DEFINE t == Tail(q)
<1>2. \A i \in 1..Len(t) : t[i] = q[i + 1] /\ i + 1 \in 1..Len(q)
  OBVIOUS
<1>3. /\ Len(t) = Len(q) - 1 /\ Len(q) \in Nat /\ 1 \in 1..Len(q)
      /\ \A i \in 1..Len(q) : i = 1 \/ (i - 1 \in 1..Len(t) /\ q[i] = t[i - 1])
  BY <1>1, <1>2
<1> HIDE DEF t
<1>4. Holds(q, A) <=> q[1] \in A \/ Holds(t, A)
  BY <1>2, <1>3 DEF Holds
<1>5. ASSUME Only(q, A, v) PROVE Only(t, A, v) /\ (q[1] \in A => q[1] = v /\ ~Holds(t, A))
  <2>1. Only(t, A, v)
    <3> SUFFICES ASSUME NEW i \in 1..Len(t), NEW j \in 1..Len(t), t[i] \in A, t[j] \in A
                 PROVE  i = j /\ t[i] = v
      BY DEF Only
    <3>1. i + 1 = j + 1 /\ q[i + 1] = v
      BY <1>2, <1>5 DEF Only
    <3> QED
      BY <1>2, <3>1
  <2>2. ASSUME q[1] \in A PROVE q[1] = v
    BY <1>3, <1>5, <2>2 DEF Only
  <2>3. ASSUME q[1] \in A, NEW i \in 1..Len(t), t[i] \in A PROVE FALSE
    <3>1. q[i + 1] \in A /\ i + 1 \in 1..Len(q)
      BY <1>2, <2>3
    <3>2. 1 = i + 1
      BY <1>3, <1>5, <2>3, <3>1 DEF Only
    <3> QED
      BY <3>2
  <2> QED
    BY <2>1, <2>2, <2>3 DEF Holds
<1> QED
  BY <1>1, <1>2, <1>4, <1>5 DEF t

\* What is lost from the end leaves the beginning.
LEMMA PrefixHolds ==
    ASSUME NEW S, NEW A, NEW v, NEW q \in Seq(S), NEW n \in 0..Len(q)
    PROVE  /\ SubSeq(q, 1, n) \in Seq(S) /\ Len(SubSeq(q, 1, n)) = n
           /\ \A i \in 1..n : SubSeq(q, 1, n)[i] = q[i] /\ i \in 1..Len(q)
           /\ Holds(SubSeq(q, 1, n), A) => Holds(q, A)
           /\ Only(q, A, v) => Only(SubSeq(q, 1, n), A, v)
<1> DEFINE r == SubSeq(q, 1, n)
<1>1. /\ r \in Seq(S) /\ Len(r) = n
      /\ \A i \in 1..n : r[i] = q[i] /\ i \in 1..Len(q)
  OBVIOUS
<1> HIDE DEF r
<1>2. Holds(r, A) => Holds(q, A)
  BY <1>1 DEF Holds
<1>3. Only(q, A, v) => Only(r, A, v)
  BY <1>1 DEF Only
<1> QED
  BY <1>1, <1>2, <1>3 DEF r

LEMMA EmptyHolds ==
    ASSUME NEW A, NEW v
    PROVE  ~Holds(<<>>, A) /\ Only(<<>>, A, v)
BY DEF Holds, Only

LEMMA TupleHolds ==
    ASSUME NEW A, NEW v, NEW a \in Lines, NEW b \in Lines
    PROVE  /\ <<a>> \in Seq(Lines) /\ <<a, b>> \in Seq(Lines)
           /\ Holds(<<a>>, A) <=> a \in A
           /\ Holds(<<a, b>>, A) <=> a \in A \/ b \in A
           /\ Only(<<a>>, A, v) <=> (a \in A => a = v)
<1>1. /\ <<a>> \in Seq(Lines) /\ Len(<<a>>) = 1 /\ <<a>>[1] = a
      /\ <<a, b>> \in Seq(Lines) /\ Len(<<a, b>>) = 2 /\ <<a, b>>[1] = a /\ <<a, b>>[2] = b
  OBVIOUS
<1>2. 1..1 = {1} /\ 1..2 = {1, 2}
  OBVIOUS
<1> QED
  BY <1>1, <1>2 DEF Holds, Only

\* Names of their own keep these equations of sequences closed.
Longer(c, q, a) == c = Append(q, a)
Joins(c, q, r)  == c = q \o r

LEMMA AppendHolds ==
    ASSUME NEW S, NEW A, NEW v, NEW q \in Seq(S), NEW a \in S, NEW c, Longer(c, q, a)
    PROVE  /\ c \in Seq(S) /\ Len(c) = Len(q) + 1
           /\ Holds(c, A) <=> Holds(q, A) \/ a \in A
           /\ Only(q, A, v) /\ a \notin A => Only(c, A, v)
           /\ ~Holds(q, A) /\ (a \in A => a = v) => Only(c, A, v)
<1>1. /\ c \in Seq(S) /\ Len(c) = Len(q) + 1 /\ Len(q) \in Nat
      /\ \A i \in 1..Len(q) : c[i] = q[i] /\ i \in 1..Len(c)
      /\ c[Len(q) + 1] = a /\ Len(q) + 1 \in 1..Len(c)
      /\ \A i \in 1..Len(c) : i \in 1..Len(q) \/ i = Len(q) + 1
  BY DEF Longer
<1>2. Holds(c, A) <=> Holds(q, A) \/ a \in A
  BY <1>1 DEF Holds
<1>3. Only(q, A, v) /\ a \notin A => Only(c, A, v)
  BY <1>1 DEF Only
<1>4. ~Holds(q, A) /\ (a \in A => a = v) => Only(c, A, v)
  BY <1>1 DEF Only, Holds
<1> QED
  BY <1>1, <1>2, <1>3, <1>4

----------------------------------------------------------------------------
(* Commands and answers.                                                   *)

LEMMA StepTable ==
    /\ Cycle["del_remote_for_create"].cmd = "delete"
    /\ Cycle["del_remote_for_create"].ack = "delete:"
    /\ Cycle["create_remote"].cmd = "create"
    /\ Cycle["create_remote"].ack = "creation done."
    /\ Cycle["activate_remote"].cmd = "activate"
    /\ Cycle["activate_remote"].ack = "activate:"
    /\ Cycle["sub_remote"].cmd = "sub"
    /\ Cycle["sub_remote"].ack = "subscribed"
<1>1. /\ Cycle["del_remote_for_create"].cmd = "delete"
      /\ Cycle["del_remote_for_create"].ack = "delete:"
  BY DEF Cycle
<1>2. /\ Cycle["create_remote"].cmd = "create"
      /\ Cycle["create_remote"].ack = "creation done."
  BY DEF Cycle
<1>3. /\ Cycle["activate_remote"].cmd = "activate"
      /\ Cycle["activate_remote"].ack = "activate:"
  BY DEF Cycle
<1>4. /\ Cycle["sub_remote"].cmd = "sub"
      /\ Cycle["sub_remote"].ack = "subscribed"
  BY DEF Cycle
<1> QED
  BY <1>1, <1>2, <1>3, <1>4

LEMMA WhichStep ==
    ASSUME NEW x \in DOMAIN Cycle
    PROVE  \/ x = "del_remote_for_create" /\ Cycle[x].cmd = "delete" /\ Phase[x] = 0
           \/ x = "create_remote" /\ Cycle[x].cmd = "create" /\ Phase[x] = 1
           \/ x = "activate_remote" /\ Cycle[x].cmd = "activate" /\ Phase[x] = 2
           \/ x = "sub_remote" /\ Cycle[x].cmd = "sub" /\ Phase[x] = 3
<1>1. \/ x = "del_remote_for_create" \/ x = "create_remote"
      \/ x = "activate_remote" \/ x = "sub_remote"
  BY CycleTable
<1> QED
  BY <1>1, StepTable, PhaseTable

\* The lines of each kind are told apart.
LEMMA LineFacts ==
    /\ Acks = {"delete:", "creation done.", "activate:", "subscribed"}
    /\ {"other", "qigong[", "qigong.", "-->"} \subseteq Lines \ Acks
    /\ Acks \subseteq Lines
<1>1. Acks = {"delete:", "creation done.", "activate:", "subscribed"}
  BY StepTable, CycleTable DEF Acks
<1> QED
  BY <1>1 DEF Lines

LEMMA OrderFacts ==
    /\ \A x \in DOMAIN Cycle, s \in Sets : [cmd |-> Cycle[x].cmd, set |-> s] \in Orders
    /\ \A c \in {"qiging", "qiging1", "eos"} : Plain(c) \in Commands \ Orders
    /\ \A m \in Orders : m.set \in Sets /\ m.cmd \in {"delete", "create", "activate", "sub"}
    /\ \A m \in Commands \ Orders : m.set = NoSet /\ m.cmd \in {"qiging", "qiging1", "eos"}
    /\ Orders \subseteq Commands
<1>1. \A x \in DOMAIN Cycle : Cycle[x].cmd \in {"delete", "create", "activate", "sub"}
  BY CycleTable, StepTable
<1>2. \A x \in DOMAIN Cycle, s \in Sets : [cmd |-> Cycle[x].cmd, set |-> s] \in Orders
  BY CycleFacts DEF Orders
<1>3. \A c \in {"qiging", "qiging1", "eos"} : Plain(c) \in Commands \ Orders
  <2>1. \A c : Plain(c).set = NoSet
    BY DEF Plain
  <2>2. \A c \in {"qiging", "qiging1", "eos"} : Plain(c) \in Commands
    BY CommandsTyped
  <2> QED
    BY <2>1, <2>2, CollectAssumption DEF Orders
<1>4. \A m \in Commands :
         \/ m.set \in Sets /\ m.cmd \in {Cycle[x].cmd : x \in DOMAIN Cycle}
         \/ m.set = NoSet /\ m.cmd \in {"qiging", "qiging1", "eos"}
  BY DEF Commands
<1>5. \A m \in Commands :
         \/ m.set \in Sets /\ m.cmd \in {"delete", "create", "activate", "sub"}
         \/ m.set = NoSet /\ m.cmd \in {"qiging", "qiging1", "eos"}
  BY <1>1, <1>4
<1> QED
  BY <1>2, <1>3, <1>5 DEF Orders

\* An answer acknowledges the command it answers, or nothing.
LEMMA ReplyFacts ==
    ASSUME NEW m \in Commands, prompt' \in BOOLEAN
    PROVE  /\ WithPrompt(Reply(m)) \in Seq(Lines)
           /\ m \notin Orders => ~Holds(WithPrompt(Reply(m)), Acks)
           /\ m.cmd = "qiging" /\ ~prompt' => WithPrompt(Reply(m)) = <<"other", "qigong.">>
           /\ m.cmd = "create" /\ Holds(WithPrompt(Reply(m)), Acks) =>
                m.set \notin records \cup Refused
           /\ m.cmd = "sub" /\ Holds(WithPrompt(Reply(m)), Acks) => m.set \in records
           /\ \A x \in DOMAIN Cycle :
                m.cmd = Cycle[x].cmd => Only(WithPrompt(Reply(m)), Acks, Cycle[x].ack)
<1> DEFINE end == IF prompt' THEN <<"qigong[">>
                  ELSE IF Reply(m) = <<>> THEN <<"other">> ELSE <<>>
<1>0. WithPrompt(Reply(m)) = Reply(m) \o end
  BY DEF WithPrompt
<1> DEFINE T == Seq(Lines)
<1>t. /\ <<>> \in T /\ ~Holds(<<>>, Acks) /\ \A v : Only(<<>>, Acks, v)
      /\ <<"other">> \in T /\ ~Holds(<<"other">>, Acks) /\ \A v : Only(<<"other">>, Acks, v)
      /\ <<"qigong[">> \in T /\ ~Holds(<<"qigong[">>, Acks)
      /\ <<"other", "qigong.">> \in T /\ ~Holds(<<"other", "qigong.">>, Acks)
      /\ \A a \in Acks : <<a>> \in T /\ Only(<<a>>, Acks, a)
  <2>1. <<>> \in T /\ ~Holds(<<>>, Acks) /\ \A v : Only(<<>>, Acks, v)
    BY EmptyHolds
  <2>2. \A a \in Lines : <<a>> \in T /\ (Holds(<<a>>, Acks) <=> a \in Acks)
                         /\ \A v : Only(<<a>>, Acks, v) <=> (a \in Acks => a = v)
    BY TupleHolds
  <2>3. <<"other", "qigong.">> \in T /\ ~Holds(<<"other", "qigong.">>, Acks)
    <3>1. "other" \in Lines \ Acks /\ "qigong." \in Lines \ Acks
      BY LineFacts
    <3> QED
      BY <3>1, TupleHolds
  <2>4. "other" \in Lines \ Acks /\ "qigong[" \in Lines \ Acks /\ Acks \subseteq Lines
    BY LineFacts
  <2> HIDE DEF T
  <2> QED
    BY <2>1, <2>2, <2>3, <2>4
<1> HIDE DEF T
<1>1. end \in T /\ ~Holds(end, Acks)
  BY <1>t
<1>2. /\ m.cmd \in {"delete", "create", "activate", "sub"} \/ m \notin Orders
      /\ m \notin Orders => m.cmd \in {"qiging", "qiging1", "eos"}
  BY OrderFacts
<1>3. /\ m.cmd = "qiging" => Reply(m) = <<"other", "qigong.">>
      /\ m.cmd = "qiging1" => Reply(m) = <<"other">>
      /\ m.cmd = "eos" => Reply(m) = <<>>
      /\ m.cmd = "delete" => Reply(m) = <<"delete:">>
      /\ m.cmd = "activate" => Reply(m) = <<"activate:">>
      /\ m.cmd = "create" => Reply(m) = IF m.set \in records \cup Refused THEN <<"other">>
                                                         ELSE <<"creation done.">>
      /\ m.cmd = "sub" => Reply(m) = IF m.set \in records THEN <<"subscribed">> ELSE <<"other">>
  BY DEF Reply
<1>4. /\ Reply(m) \in T
      /\ m.cmd \in {"qiging", "qiging1", "eos"} => ~Holds(Reply(m), Acks)
      /\ m.cmd = "create" /\ Holds(Reply(m), Acks) => m.set \notin records \cup Refused
      /\ m.cmd = "sub" /\ Holds(Reply(m), Acks) => m.set \in records
  BY <1>2, <1>3, <1>t, LineFacts
<1>5. ASSUME NEW x \in DOMAIN Cycle, m.cmd = Cycle[x].cmd
      PROVE  Only(Reply(m), Acks, Cycle[x].ack)
  <2>1. \/ m.cmd = "delete" /\ Cycle[x].ack = "delete:"
        \/ m.cmd = "create" /\ Cycle[x].ack = "creation done."
        \/ m.cmd = "activate" /\ Cycle[x].ack = "activate:"
        \/ m.cmd = "sub" /\ Cycle[x].ack = "subscribed"
    BY <1>5, CycleTable, StepTable
  <2> QED
    BY <1>3, <1>t, <2>1, LineFacts
<1> HIDE DEF end
<1>6. /\ WithPrompt(Reply(m)) \in T
      /\ Holds(WithPrompt(Reply(m)), Acks) <=> Holds(Reply(m), Acks)
      /\ \A v : Only(Reply(m), Acks, v) => Only(WithPrompt(Reply(m)), Acks, v)
  <2>1. Reply(m) \in Seq(Lines) /\ end \in Seq(Lines)
    BY <1>1, <1>4 DEF T
  <2>2. /\ Reply(m) \o end \in Seq(Lines)
        /\ Holds(Reply(m) \o end, Acks) <=> Holds(Reply(m), Acks) \/ Holds(end, Acks)
        /\ \A v : Only(Reply(m), Acks, v) /\ ~Holds(end, Acks) => Only(Reply(m) \o end, Acks, v)
    BY <2>1, ConcatHolds
  <2> QED
    BY <1>0, <1>1, <2>2 DEF T
<1>7. m.cmd = "qiging" /\ ~prompt' => WithPrompt(Reply(m)) = <<"other", "qigong.">>
  <2> SUFFICES ASSUME m.cmd = "qiging", ~prompt'
               PROVE  WithPrompt(Reply(m)) = <<"other", "qigong.">>
    OBVIOUS
  <2>1. Reply(m) = <<"other", "qigong.">> /\ Reply(m) # <<>>
    BY <1>3
  <2>2. end = <<>>
    BY <2>1 DEF end
  <2>3. <<"other", "qigong.">> \o <<>> = <<"other", "qigong.">>
    OBVIOUS
  <2> QED
    BY <1>0, <2>1, <2>2, <2>3
<1> QED
  BY <1>2, <1>4, <1>5, <1>6, <1>7 DEF T

----------------------------------------------------------------------------
(* What a step leaves alone.                                               *)

LEMMA DataLineHolds ==
    ASSUME NEW q \in Seq(Lines), NEW c, c = Append(q, "-->"), NEW v
    PROVE  /\ Holds(c, Acks) <=> Holds(q, Acks)
           /\ Only(q, Acks, v) => Only(c, Acks, v)
<1> DEFINE a == "-->"
<1>1. a \in Lines /\ a \notin Acks /\ Longer(c, q, a)
  BY LineFacts DEF Longer
<1> HIDE DEF a
<1> QED
  BY <1>1, AppendHolds

\* The connection's two ends, and its sets at the probe but for those a
\* command of a lost connection reached.
Untouched(k) ==
    /\ state'[k] = state[k] /\ nbtest'[k] = nbtest[k] /\ cs'[k] = cs[k]
    /\ waiting_pcs'[k] = waiting_pcs[k] /\ wait_string'[k] = wait_string[k]
    /\ tx'[k] = tx[k] /\ server'[k] = server[k] /\ wire'[k] = wire[k]
SetsKept(k) ==
    /\ \A s \in Sets : k \in subscribers'[s] => k \in subscribers[s]
    /\ \A s \in Mpcs[k] \ late' :
         /\ s \notin late /\ cycles'[s] = cycles[s]
         /\ s \in records' <=> s \in records
         /\ k \in subscribers[s] => k \in subscribers'[s]
LineMore(k) ==
    \/ rx'[k] = rx[k]
    \/ state[k] \in {"ready", "waiting"} /\ rx'[k] = Append(rx[k], "-->")

\* Such a connection keeps its part of the invariant.
LEMMA Elsewhere ==
    ASSUME SystemTypeOK, NEW k \in Collectors, Connection(k),
           Untouched(k), SetsKept(k), LineMore(k)
    PROVE  Connection(k)'
<1> USE DEF Untouched, SetsKept, LineMore
<1> USE DEF Connection
<1>1. /\ Holds(rx'[k], Acks) <=> Holds(rx[k], Acks)
      /\ \A v : Only(rx[k], Acks, v) => Only(rx'[k], Acks, v)
      /\ state[k] \in Beginning \cup {"needtoconnect"} => rx'[k] = rx[k]
  <2>1. rx[k] \in Seq(Lines) /\ "-->" \in Lines \ Acks
    BY LineFacts DEF SystemTypeOK
  <2>2. CASE rx'[k] = rx[k]
    BY <2>2
  <2>3. CASE state[k] \in {"ready", "waiting"} /\ rx'[k] = Append(rx[k], "-->")
    <3>1. /\ Holds(rx'[k], Acks) <=> Holds(rx[k], Acks)
          /\ \A v : Only(rx[k], Acks, v) => Only(rx'[k], Acks, v)
      BY <2>1, <2>3, DataLineHolds
    <3> QED
      BY <2>3, <3>1 DEF Beginning
  <2> QED
    BY <2>2, <2>3
<1>2. Greeted(k)'
  BY <1>1 DEF Greeted, Follows, Beginning
<1>3. OneAtATime(k)'
  BY <1>1 DEF OneAtATime, Question
<1>4. InStep(k)'
  <2> SUFFICES ASSUME Working(k)', NEW s \in Mpcs[k] \ late'
               PROVE  Refusal(k, s)' \/ AtProbe(k, s, Reached(k, s))'
    BY DEF InStep
  <2>1. Working(k)
    BY DEF Working
  <2>2. Refusal(k, s) \/ AtProbe(k, s, Reached(k, s))
    BY <2>1 DEF InStep
  <2>3. Refusal(k, s)' <=> Refusal(k, s)
    BY <1>1 DEF Refusal, AsksFor
  <2>4. Reached(k, s)' = Reached(k, s)
    BY <1>1 DEF Reached, AsksFor
  <2>5. AtProbe(k, s, Reached(k, s)) => AtProbe(k, s, Reached(k, s))'
    BY <2>4 DEF AtProbe
  <2> QED
    BY <2>2, <2>3, <2>5
<1>5. Fresh(k)' /\ OneRetry(k)'
  BY DEF Fresh, OneRetry
<1>6. Joined(k)'
  BY <1>1 DEF Joined
<1> QED
  BY <1>2, <1>3, <1>4, <1>5, <1>6

\* What the collectors and the probe have in store.
Store ==
    /\ up \in BOOLEAN
    /\ server \in [Collectors -> {"none", "handshake", "open"}]
    /\ wire \in [Collectors -> {"up", "eof", "gone"}]
    /\ stale \in Seq(Commands)
    /\ late \subseteq Sets
    /\ faults \in 0..MaxFaults
Memory ==
    /\ records \subseteq Sets /\ due \subseteq records
    /\ subscribers \in [Sets -> SUBSET Collectors]
    /\ cycles \in [Sets -> Nat]
    /\ prompt \in BOOLEAN
    /\ CyclesOwned

\* Data lines go to connections whose sets are worked on or collected.
LEMMA DeliverFacts ==
    ASSUME SysInv, NEW S \in SUBSET Sets
    PROVE  /\ Deliver(S) \in [Collectors -> Seq(Lines)]
           /\ Deliver({}) = rx
           /\ \A k \in Collectors :
                \/ Deliver(S)[k] = rx[k]
                \/ /\ state[k] \in {"ready", "waiting"}
                   /\ Deliver(S)[k] = Append(rx[k], "-->")
<1> USE DEF SysInv, SystemTypeOK
<1>1. \A k \in Collectors :
         /\ Deliver(S)[k] = rx[k] \/ Deliver(S)[k] = Append(rx[k], "-->")
         /\ (\E s \in S : k \in subscribers[s]) \/ Deliver(S)[k] = rx[k]
  BY DEF Deliver
<1>2. \A k \in Collectors : rx[k] \in Seq(Lines) /\ Append(rx[k], "-->") \in Seq(Lines)
  <2>1. "-->" \in Lines
    BY LineFacts
  <2> QED
    BY <2>1
<1>3. Deliver(S) \in [Collectors -> Seq(Lines)]
  BY <1>1, <1>2 DEF Deliver
<1>4. Deliver({}) = rx
  BY DEF Deliver
<1>5. \A k \in Collectors : (\E s \in S : k \in subscribers[s]) => state[k] \in {"ready", "waiting"}
  BY DEF Connection, Joined
<1> QED
  BY <1>1, <1>3, <1>4, <1>5

\* A command changes what the probe holds about its set, and no more.
LEMMA ObeyFacts ==
    ASSUME SysInv, NEW K \in SUBSET Collectors, NEW m \in Commands, Obey(K, m)
    PROVE  /\ Memory'
           /\ \A s \in Sets \ {m.set} : /\ s \in records' <=> s \in records
                                        /\ cycles'[s] = cycles[s]
                                        /\ subscribers'[s] = subscribers[s]
           /\ \A j \in Collectors \ K, s \in Sets : j \in subscribers'[s] => j \in subscribers[s]
           /\ m.cmd = "qiging" => ~prompt'
           /\ m \notin Orders => UNCHANGED <<records, subscribers, cycles>>
           /\ m \in Orders =>
                \/ /\ m.cmd = "delete"
                   /\ m.set \notin records' /\ cycles'[m.set] = 0 /\ subscribers'[m.set] = {}
                \/ /\ m.cmd = "create"
                   /\ m.set \notin records \cup Refused => m.set \in records'
                   /\ UNCHANGED <<subscribers, cycles>>
                \/ /\ m.cmd = "activate"
                   /\ m.set \in records => cycles'[m.set] = cycles[m.set] + 1
                   /\ UNCHANGED <<records, subscribers>>
                \/ /\ m.cmd = "sub"
                   /\ m.set \in records => K \subseteq subscribers'[m.set]
                   /\ UNCHANGED <<records, cycles>>
<1> USE DEF SysInv, SystemTypeOK, CyclesOwned
<1>1. CASE m \in Orders
  <2>1. m.set \in Sets /\ m.cmd \in {"delete", "create", "activate", "sub"}
    BY <1>1, OrderFacts
  <2>2. CASE m.cmd = "delete"
    <3>1. /\ records' = records \ {m.set}
          /\ due' = due \ {m.set}
          /\ subscribers' = [subscribers EXCEPT ![m.set] = {}]
          /\ cycles' = [cycles EXCEPT ![m.set] = 0]
          /\ UNCHANGED prompt
      BY <2>2 DEF Obey
    <3>2. /\ subscribers' \in [Sets -> SUBSET Collectors] /\ cycles' \in [Sets -> Nat]
          /\ cycles'[m.set] = 0 /\ subscribers'[m.set] = {}
          /\ \A s \in Sets \ {m.set} :
                cycles'[s] = cycles[s] /\ subscribers'[s] = subscribers[s]
      BY <2>1, <3>1
    <3> QED
      BY <1>1, <2>1, <2>2, <3>1, <3>2 DEF Memory
  <2>3. CASE m.cmd = "create"
    <3>1. /\ records' = records \cup ({m.set} \ Refused)
          /\ UNCHANGED <<subscribers, cycles, due, prompt>>
      BY <2>3 DEF Obey
    <3> QED
      BY <1>1, <2>1, <2>3, <3>1 DEF Memory
  <2>4. CASE m.cmd = "activate"
    <3>1. /\ cycles' = [cycles EXCEPT ![m.set] = IF m.set \in records THEN @ + 1 ELSE @]
          /\ UNCHANGED <<records, subscribers, due, prompt>>
      BY <2>4 DEF Obey
    <3>2. /\ cycles' \in [Sets -> Nat]
          /\ cycles'[m.set] = IF m.set \in records THEN cycles[m.set] + 1 ELSE cycles[m.set]
          /\ \A s \in Sets \ {m.set} : cycles'[s] = cycles[s]
      BY <2>1, <3>1
    <3> QED
      BY <1>1, <2>1, <2>4, <3>1, <3>2 DEF Memory
  <2>5. CASE m.cmd = "sub"
    <3>1. /\ subscribers' = [subscribers EXCEPT ![m.set] =
                               IF m.set \in records THEN @ \cup K ELSE @]
          /\ UNCHANGED <<records, cycles, due, prompt>>
      BY <2>5 DEF Obey
    <3>2. /\ subscribers' \in [Sets -> SUBSET Collectors]
          /\ m.set \in records => K \subseteq subscribers'[m.set]
          /\ \A s \in Sets, j \in Collectors \ K : j \in subscribers'[s] => j \in subscribers[s]
          /\ \A s \in Sets \ {m.set} : subscribers'[s] = subscribers[s]
      BY <2>1, <3>1
    <3> QED
      BY <1>1, <2>1, <2>5, <3>1, <3>2 DEF Memory
  <2> QED
    BY <2>1, <2>2, <2>3, <2>4, <2>5
<1>2. CASE m \notin Orders
  <2>1. m.cmd \in {"qiging", "qiging1", "eos"}
    BY <1>2, OrderFacts
  <2> QED
    BY <1>2, <2>1 DEF Obey, Memory, probe
<1> QED
  BY <1>1, <1>2

\* Commands are written behind others.
LEMMA WrittenFacts ==
    ASSUME NEW q \in Seq(Commands), NEW r \in Seq(Commands), NEW c, c = q \o r, NEW v
    PROVE  /\ c \in Seq(Commands) /\ Len(c) = Len(q) + Len(r)
           /\ Holds(c, Orders) <=> Holds(q, Orders) \/ Holds(r, Orders)
           /\ Only(q, Orders, v) /\ ~Holds(r, Orders) => Only(c, Orders, v)
           /\ Only(r, Orders, v) /\ ~Holds(q, Orders) => Only(c, Orders, v)
<1>1. c \in Seq(Commands) /\ Len(c) = Len(q) + Len(r)
  OBVIOUS
<1>2. Holds(c, Orders) <=> Holds(q, Orders) \/ Holds(r, Orders)
  BY ConcatHolds
<1>3. Only(q, Orders, v) /\ ~Holds(r, Orders) => Only(c, Orders, v)
  BY ConcatHolds
<1>4. Only(r, Orders, v) /\ ~Holds(q, Orders) => Only(c, Orders, v)
  BY ConcatHolds
<1> QED
  BY <1>1, <1>2, <1>3, <1>4
LEMMA WrittenOne ==
    ASSUME NEW q \in Seq(Commands), NEW m \in Commands, NEW c, Longer(c, q, m), NEW v
    PROVE  /\ c \in Seq(Commands) /\ Len(c) = Len(q) + 1
           /\ Holds(c, Orders) <=> Holds(q, Orders) \/ m \in Orders
           /\ Only(q, Orders, v) /\ m \notin Orders => Only(c, Orders, v)
           /\ ~Holds(q, Orders) /\ (m \in Orders => m = v) => Only(c, Orders, v)
BY AppendHolds

----------------------------------------------------------------------------
(* The steps of the collector.                                             *)

USE CollectAssumption

\* A command goes out, or nothing but a wake-up.
LEMMA ServeConnection ==
    ASSUME SysInv, NEW k \in Collectors, NEW before \in Seq(Commands),
           ~Holds(before, Orders), Serve(k, before), state[k] \in {"ready", "waiting"},
           UNCHANGED <<nbtest, probe, network>>
    PROVE  Connection(k)'
<1> USE DEF SysInv, Connection, probe, network
<1>0. tx[k] \in Seq(Commands) /\ rx[k] \in Seq(Lines)
  BY DEF SystemTypeOK, TypeOK
<1>1. state'[k] \in {"ready", "waiting"} /\ rx' = rx /\ cs' = cs
  BY DEF Serve, Command, Inv, TypeOK
<1>2. Greeted(k)' /\ Fresh(k)' /\ Joined(k)' /\ OneRetry(k)'
  BY <1>1 DEF Greeted, Fresh, Beginning, Joined, OneRetry
<1>3. ASSUME NEW s \in Mpcs[k], state[k] = "ready", IsNext(k, s), Command(k, s, before)
      PROVE  OneAtATime(k)' /\ InStep(k)'
  <2> DEFINE msg == [cmd |-> Cycle[cs[k][s]].cmd, set |-> s]
  <2>1. s \in Sets /\ cs[k][s] \in DOMAIN Cycle
    BY <1>3 DEF IsNext, Unfinished, Inv, TypeOK, CSState
  <2>2. msg \in Orders /\ msg \in Commands
    BY <2>1, OrderFacts
  <2>3. /\ state'[k] = "waiting" /\ waiting_pcs'[k] = s
        /\ tx'[k] = tx[k] \o Append(before, msg)
    BY <1>3 DEF Command, Inv, TypeOK
  <2>4. Question(k)' = msg
    BY <1>1, <2>3 DEF Question
  <2> HIDE DEF msg
  <2>5. ~Holds(tx[k], Orders) /\ ~Holds(rx[k], Acks)
    BY <1>3 DEF OneAtATime
  <2>6. Holds(tx'[k], Orders) /\ Only(tx'[k], Orders, msg)
    <3> DEFINE c == Append(before, msg)
    <3>1. c \in Seq(Commands) /\ Holds(c, Orders) /\ Only(c, Orders, msg)
      <4>1. before \in Seq(Commands) /\ ~Holds(before, Orders) /\ Longer(c, before, msg)
        BY DEF Longer
      <4> HIDE DEF c
      <4> QED
        BY <2>2, <4>1, WrittenOne
    <3> HIDE DEF c
    <3> QED
      BY <1>0, <2>3, <2>5, <3>1, WrittenFacts DEF c
  <2>7. OneAtATime(k)'
    BY <1>1, <2>3, <2>4, <2>5, <2>6 DEF OneAtATime, Only, Holds
  <2>8. InStep(k)'
    <3> SUFFICES ASSUME Working(k)', NEW r \in Mpcs[k] \ late
                 PROVE  AtProbe(k, r, Reached(k, r))'
      BY DEF InStep
    <3>1. Working(k)
      BY <1>1, <1>3 DEF Working
    <3>2. AtProbe(k, r, Phase[cs[k][r]])
      BY <1>3, <3>1 DEF InStep, Refusal, Reached, AsksFor
    <3>3. Reached(k, r)' = Phase[cs[k][r]]
      BY <1>1, <2>5 DEF Reached
    <3> QED
      BY <3>2, <3>3 DEF AtProbe
  <2> QED
    BY <2>7, <2>8
<1>4. ASSUME tx' = [tx EXCEPT ![k] = @ \o before], UNCHANGED <<state, cs, waiting>>
      PROVE  OneAtATime(k)' /\ InStep(k)'
  <2>1. tx'[k] = tx[k] \o before
    BY <1>4 DEF Inv, TypeOK
  <2>2. /\ Holds(tx'[k], Orders) <=> Holds(tx[k], Orders)
        /\ \A v : Only(tx[k], Orders, v) => Only(tx'[k], Orders, v)
    BY <1>0, <2>1, WrittenFacts
  <2>3. OneAtATime(k)'
    BY <1>1, <1>4, <2>2 DEF OneAtATime, Question, waiting
  <2>4. InStep(k)'
    BY <1>1, <1>4, <2>2 DEF InStep, Working, Refusal, Reached, AsksFor, AtProbe, waiting
  <2> QED
    BY <2>3, <2>4
<1>5. OneAtATime(k)' /\ InStep(k)'
  BY <1>3, <1>4 DEF Serve
<1> QED
  BY <1>2, <1>5

\* A new connection, or none, has nothing under way.
LEMMA ConnectConnection ==
    ASSUME SysInv, NEW k \in Collectors, Connected(k) \/ Unreachable(k), Connects(k),
           nbtest' = nbtest, rx'[k] = <<>>, \A s \in Sets : k \notin subscribers'[s]
    PROVE  Connection(k)'
<1> USE DEF SysInv, Connection
<1>1. /\ tx'[k] = <<>>
      /\ state'[k] = "challenging" \/ state'[k] = "needtoconnect"
      /\ state'[k] = "challenging" => \A s \in Mpcs[k] : cs'[k][s] = "del_remote_for_create"
      /\ state'[k] = "challenging" => server'[k] = "handshake" /\ wire'[k] = "up"
      /\ state'[k] = "needtoconnect" => server'[k] = "none" /\ wire'[k] = "eof"
  <2>1. /\ server' = [server EXCEPT ![k] = "handshake"] /\ wire' = [wire EXCEPT ![k] = "up"] =>
             server'[k] = "handshake" /\ wire'[k] = "up"
        /\ server' = [server EXCEPT ![k] = "none"] /\ wire' = [wire EXCEPT ![k] = "eof"] =>
             server'[k] = "none" /\ wire'[k] = "eof"
    BY DEF SystemTypeOK
  <2>2. /\ state'[k] = "challenging" => server'[k] = "handshake" /\ wire'[k] = "up"
        /\ state'[k] = "needtoconnect" => server'[k] = "none" /\ wire'[k] = "eof"
    BY <2>1 DEF Connects
  <2>3. CASE Connected(k)
    <3>1. state'[k] = "challenging" /\ tx'[k] = <<>>
      BY <2>3 DEF Connected, Inv, TypeOK
    <3>2. \A s \in Mpcs[k] : s \in Sets
      OBVIOUS
    <3>3. cs'[k] = [s \in Sets |-> IF s \in Mpcs[k] THEN "del_remote_for_create" ELSE cs[k][s]]
      BY <2>3 DEF Connected, Inv, TypeOK
    <3> QED
      BY <2>2, <3>1, <3>2, <3>3
  <2>4. CASE Unreachable(k)
    <3>1. state'[k] = "needtoconnect" /\ tx'[k] = <<>>
      BY <2>4 DEF Unreachable, Inv, TypeOK
    <3> QED
      BY <2>2, <3>1
  <2> QED
    BY <2>3, <2>4
<1>2. OneAtATime(k)'
  BY <1>1 DEF OneAtATime, Holds, Only
<1>3. Greeted(k)'
  BY <1>1 DEF Greeted, Follows
<1> QED
  BY <1>1, <1>2, <1>3 DEF InStep, Working, Fresh, Beginning, Joined, OneRetry

\* The handshake is over: "qiging ?" goes out before the greeting is read.
LEMMA PromptConnection ==
    ASSUME SysInv, NEW k \in Collectors, CollectorFirstPrompt(k)
    PROVE  Connection(k)'
<1> USE DEF SysInv, Connection, CollectorFirstPrompt, FirstPrompt, probe, network, work, waiting
<1>1. /\ state[k] = "challenging" /\ state'[k] = "welcome" /\ tx'[k] = Append(tx[k], Plain("qiging"))
      /\ UNCHANGED <<rx, cs, waiting_pcs, wait_string, nbtest, subscribers, server, wire, records, cycles>>
  BY DEF Inv, TypeOK, Write
<1>2. OneAtATime(k)'
  <2> DEFINE a == Plain("qiging")
  <2>1. a \in Commands /\ a \notin Orders /\ tx[k] \in Seq(Commands) /\ Longer(tx'[k], tx[k], a)
    BY <1>1, OrderFacts DEF Inv, TypeOK, Longer
  <2> HIDE DEF a
  <2>2. /\ Holds(tx'[k], Orders) <=> Holds(tx[k], Orders)
        /\ \A v : Only(tx[k], Orders, v) => Only(tx'[k], Orders, v)
    BY <2>1, WrittenOne
  <2> QED
    BY <1>1, <2>2 DEF OneAtATime, Question
<1>3. Greeted(k)'
  <2>1. Follows(k, 0)
    BY <1>1 DEF Greeted
  <2>2. tx[k] = <<>> => tx'[k] # <<>> /\ Head(tx'[k]) = Plain("qiging")
    BY <1>1
  <2>3. Follows(k, 0)'
    BY <1>1, <2>1, <2>2 DEF Follows
  <2> QED
    BY <1>1, <2>3 DEF Greeted
<1> QED
  BY <1>1, <1>2, <1>3 DEF InStep, Working, Fresh, Beginning, Joined, OneRetry

LEMMA AnsweredFacts ==
    ASSUME NEW q \in Seq(Lines), NEW r \in Seq(Lines), NEW c, Joins(c, q, r), NEW v
    PROVE  /\ c \in Seq(Lines) /\ Len(c) = Len(q) + Len(r) /\ Len(q) \in Nat /\ Len(r) \in Nat
           /\ \A i \in 1..Len(q) : c[i] = q[i]
           /\ \A i \in 1..Len(r) : c[Len(q) + i] = r[i]
           /\ Holds(c, Acks) <=> Holds(q, Acks) \/ Holds(r, Acks)
           /\ Only(q, Acks, v) /\ ~Holds(r, Acks) => Only(c, Acks, v)
           /\ Only(r, Acks, v) /\ ~Holds(q, Acks) => Only(c, Acks, v)
<1>1. /\ c \in Seq(Lines) /\ Len(c) = Len(q) + Len(r) /\ Len(q) \in Nat /\ Len(r) \in Nat
      /\ \A i \in 1..Len(q) : c[i] = q[i]
      /\ \A i \in 1..Len(r) : c[Len(q) + i] = r[i]
  BY DEF Joins
<1>2. Holds(c, Acks) <=> Holds(q, Acks) \/ Holds(r, Acks)
  BY ConcatHolds DEF Joins
<1>3. Only(q, Acks, v) /\ ~Holds(r, Acks) => Only(c, Acks, v)
  BY ConcatHolds DEF Joins
<1>4. Only(r, Acks, v) /\ ~Holds(q, Acks) => Only(c, Acks, v)
  BY ConcatHolds DEF Joins
<1> QED
  BY <1>1, <1>2, <1>3, <1>4

LEMMA TakenFacts ==
    ASSUME NEW q \in Seq(Commands), q # <<>>, NEW c, c = Tail(q), NEW m, m = Head(q), NEW v
    PROVE  /\ m \in Commands /\ c \in Seq(Commands)
           /\ Holds(q, Orders) <=> m \in Orders \/ Holds(c, Orders)
           /\ Only(q, Orders, v) =>
                Only(c, Orders, v) /\ (m \in Orders => m = v /\ ~Holds(c, Orders))
<1>1. m \in Commands /\ c \in Seq(Commands)
  OBVIOUS
<1>2. Holds(q, Orders) <=> Head(q) \in Orders \/ Holds(Tail(q), Orders)
  BY TailHolds
<1>3. Only(q, Orders, v) =>
        Only(Tail(q), Orders, v) /\ (Head(q) \in Orders => Head(q) = v /\ ~Holds(Tail(q), Orders))
  BY TailHolds
<1> QED
  BY <1>1, <1>2, <1>3

LEMMA ReadFacts ==
    ASSUME NEW q \in Seq(Lines), q # <<>>, NEW c, c = Tail(q), NEW line, line = Head(q), NEW v
    PROVE  /\ line \in Lines /\ line = q[1]
           /\ Len(q) \in Nat /\ Len(q) >= 1 /\ Len(c) = Len(q) - 1
           /\ \A i \in 1..Len(c) : c[i] = q[i + 1] /\ i + 1 \in 1..Len(q)
           /\ Holds(q, Acks) <=> line \in Acks \/ Holds(c, Acks)
           /\ Only(q, Acks, v) => Only(c, Acks, v) /\ (line \in Acks => ~Holds(c, Acks))
<1>1. /\ line \in Lines /\ line = q[1]
      /\ Len(q) \in Nat /\ Len(q) >= 1 /\ Len(c) = Len(q) - 1
      /\ \A i \in 1..Len(c) : c[i] = q[i + 1] /\ i + 1 \in 1..Len(q)
  OBVIOUS
<1>2. Holds(q, Acks) <=> Head(q) \in Acks \/ Holds(Tail(q), Acks)
  BY TailHolds
<1>3. Only(q, Acks, v) => Only(Tail(q), Acks, v) /\ (Head(q) \in Acks => ~Holds(Tail(q), Acks))
  BY TailHolds
<1> QED
  BY <1>1, <1>2, <1>3

\* A line is read: an acknowledgement takes its set one phase further, which
\* the probe already is; the lines of the greeting are read in their order.
LEMMA ReadConnection ==
    ASSUME SysInv, NEW k \in Collectors, CollectorReads(k)
    PROVE  Connection(k)'
<1> USE DEF SysInv, Connection
<1> DEFINE line == Head(rx[k])
<1>0. /\ rx[k] \in Seq(Lines) /\ rx[k] # <<>> /\ rx'[k] = Tail(rx[k]) /\ LineRead(k, line)
      /\ tx[k] \in Seq(Commands)
      /\ UNCHANGED <<records, subscribers, cycles, server, wire, late>>
  BY DEF CollectorReads, SystemTypeOK, TypeOK, probe
<1>1. /\ line \in Lines /\ line = rx[k][1] /\ Len(rx'[k]) = Len(rx[k]) - 1 /\ Len(rx[k]) \in Nat
      /\ Len(rx[k]) >= 1
      /\ \A i \in 1..Len(rx'[k]) : rx'[k][i] = rx[k][i + 1] /\ i + 1 \in 1..Len(rx[k])
      /\ Holds(rx[k], Acks) <=> line \in Acks \/ Holds(rx'[k], Acks)
      /\ Only(rx[k], Acks, wait_string[k]) => /\ Only(rx'[k], Acks, wait_string[k])
                                              /\ line \in Acks => ~Holds(rx'[k], Acks)
  BY <1>0, ReadFacts
<1> HIDE DEF line
\* One line further.
<1>2. ASSUME NEW p \in Nat, Follows(k, p),
             tx[k] # <<>> => tx'[k] # <<>> /\ Head(tx'[k]) = Head(tx[k]),
             state[k] # "challenging", state'[k] # "challenging"
      PROVE  Follows(k, p + 1)' /\ (p + 1 <= 5 => line = Script[p + 1])
  <2>1. /\ p + 1 + Len(rx'[k]) = p + Len(rx[k])
        /\ \A i \in 1..Len(rx'[k]) : (p + 1) + i = p + (i + 1)
    BY <1>1
  <2>2. \A i \in 1..Len(rx'[k]) : (p + 1) + i <= 5 => rx'[k][i] = Script[(p + 1) + i]
    <3> SUFFICES ASSUME NEW i \in 1..Len(rx'[k]), (p + 1) + i <= 5
                 PROVE  rx'[k][i] = Script[(p + 1) + i]
      OBVIOUS
    <3>1. rx'[k][i] = rx[k][i + 1] /\ i + 1 \in 1..Len(rx[k]) /\ (p + 1) + i = p + (i + 1)
      BY <1>1, <2>1
    <3>2. p + (i + 1) <= 5 => rx[k][i + 1] = Script[p + (i + 1)]
      BY <1>2, <3>1 DEF Follows
    <3> QED
      BY <3>1, <3>2
  <2>3. p + 1 <= 5 => line = Script[p + 1]
    BY <1>1, <1>2 DEF Follows
  <2> QED
    BY <1>0, <1>2, <2>1, <2>2, <2>3 DEF Follows
<1>3. ASSUME NEW m \in Commands \ Orders, Write(k, m)
      PROVE  /\ Holds(tx'[k], Orders) <=> Holds(tx[k], Orders)
             /\ \A v : Only(tx[k], Orders, v) => Only(tx'[k], Orders, v)
             /\ tx[k] # <<>> => tx'[k] # <<>> /\ Head(tx'[k]) = Head(tx[k])
  <2>1. tx'[k] = Append(tx[k], m)
    BY <1>3 DEF Write, Inv, TypeOK
  <2>2. Longer(tx'[k], tx[k], m)
    BY <2>1 DEF Longer
  <2>3. /\ Holds(tx'[k], Orders) <=> Holds(tx[k], Orders)
        /\ \A v : Only(tx[k], Orders, v) => Only(tx'[k], Orders, v)
    BY <1>0, <2>2, WrittenOne
  <2>4. tx[k] # <<>> => tx'[k] # <<>> /\ Head(tx'[k]) = Head(tx[k])
    BY <1>0, <2>1
  <2> QED
    BY <2>3, <2>4
<1>4. \A p \in 0..5 : Script[p] = CASE p = 1 -> "other" [] p = 2 -> "other" [] p = 3 -> "qigong["
                                   [] p = 4 -> "other" [] p = 5 -> "qigong." [] OTHER -> Script[p]
  BY DEF Script
<1>5. /\ \A c \in {"qiging", "eos"} : Plain(c) \in Commands \ Orders
      /\ {"other", "qigong[", "qigong.", "-->"} \subseteq Lines \ Acks
  BY OrderFacts, LineFacts
<1>6. CASE Welcome(k, line)
  <2>1. state[k] = "welcome" /\ ~Holds(rx[k], Acks) /\ ~Holds(tx[k], Orders)
    BY <1>6 DEF Welcome, OneAtATime
  <2>2. ~Holds(rx'[k], Acks) /\ cs' = cs /\ waiting_pcs' = waiting_pcs /\ wait_string' = wait_string
    BY <1>1, <1>6, <2>1 DEF Welcome, work, waiting
  <2>3. PICK m \in Commands \ Orders : Write(k, m)
    BY <1>5, <1>6 DEF Welcome
  <2>4. ~Holds(tx'[k], Orders)
    BY <1>3, <2>1, <2>3
  <2>5. PICK p \in 0..2 : Follows(k, p)
    BY <2>1 DEF Greeted
  <2>6. state'[k] = (IF line = "qigong[" THEN "verify" ELSE "welcome")
        /\ nbtest'[k] = (IF line = "qigong[" THEN 0 ELSE nbtest[k])
    BY <1>6, <2>1 DEF Welcome, Inv, TypeOK
  <2>7. Follows(k, p + 1)' /\ line = Script[p + 1]
    <3>1. p \in Nat /\ p + 1 <= 5
      OBVIOUS
    <3>2. tx[k] # <<>> => tx'[k] # <<>> /\ Head(tx'[k]) = Head(tx[k])
      BY <1>3, <2>3
    <3>3. state[k] # "challenging" /\ state'[k] # "challenging"
      BY <2>1, <2>6
    <3> QED
      BY <1>2, <2>5, <3>1, <3>2, <3>3
  <2>8. line = "qigong[" <=> p = 2
    BY <1>4, <2>7
  <2>9. Greeted(k)'
    BY <2>6, <2>7, <2>8 DEF Greeted
  <2>10. OneAtATime(k)'
    BY <2>2, <2>4 DEF OneAtATime, Only, Holds
  <2>11. Fresh(k)' /\ OneRetry(k)'
    BY <2>1, <2>2, <2>6 DEF Fresh, Beginning, OneRetry
  <2>12. Joined(k)'
    BY <1>0, <2>1, <2>6 DEF Joined
  <2>13. InStep(k)'
    BY <2>6 DEF InStep, Working
  <2> QED
    BY <2>9, <2>10, <2>11, <2>12, <2>13
<1>7. CASE Verify(k, line)
  <2>1. /\ state[k] = "verify" /\ ~Holds(rx[k], Acks) /\ ~Holds(tx[k], Orders)
        /\ Follows(k, 3 + nbtest[k]) /\ nbtest[k] \in {0, 1}
    BY <1>7 DEF Verify, OneAtATime, Greeted, OneRetry, Inv, TypeOK
  <2>2. ~Holds(rx'[k], Acks) /\ cs' = cs /\ waiting_pcs' = waiting_pcs /\ wait_string' = wait_string
    BY <1>1, <1>7, <2>1 DEF Verify, work, waiting
  <2>3. line = Script[4 + nbtest[k]]
    <3>1. 4 + nbtest[k] <= 5 /\ 4 + nbtest[k] = 3 + nbtest[k] + 1
      BY <2>1
    <3>2. 1 \in 1..Len(rx[k])
      BY <1>1
    <3> QED
      BY <1>1, <2>1, <3>1, <3>2 DEF Follows
  <2>4. CASE line = "qigong."
    <3>1. state'[k] = "ready" /\ nbtest' = nbtest /\ tx' = tx
      BY <1>7, <2>4 DEF Verify, Inv, TypeOK
    <3>2. \A s \in Mpcs[k] : cs[k][s] = "del_remote_for_create"
      BY <2>1 DEF Fresh, Beginning
    <3>3. \A s \in Mpcs[k] : Reached(k, s)' = 0
      BY <2>2, <3>1, <3>2, PhaseTable DEF Reached, AsksFor
    <3>4. InStep(k)'
      BY <3>3 DEF InStep, AtProbe
    <3> QED
      BY <1>0, <2>1, <2>2, <3>1, <3>4
      DEF OneAtATime, Only, Holds, Greeted, Fresh, Beginning, OneRetry, Joined
  <2>5. CASE line # "qigong."
    <3>1. nbtest[k] = 0
      BY <1>4, <2>1, <2>3, <2>5
    <3>2. /\ nbtest'[k] = 1 /\ state'[k] \in {"verify", "timeout"}
          /\ Write(k, Plain("qiging"))
      BY <1>7, <2>1, <2>5, <3>1 DEF Verify, Inv, TypeOK
    <3>3. ~Holds(tx'[k], Orders)
      BY <1>3, <1>5, <2>1, <3>2
    <3>4. Follows(k, 4)'
      <4>1. Follows(k, 3)
        BY <2>1, <3>1
      <4>2. 3 \in Nat /\ 3 + 1 = 4
        OBVIOUS
      <4> QED
        <5>1. tx[k] # <<>> => tx'[k] # <<>> /\ Head(tx'[k]) = Head(tx[k])
          BY <1>3, <1>5, <3>2
        <5>2. state[k] # "challenging" /\ state'[k] # "challenging"
          BY <2>1, <3>2
        <5>3. Follows(k, 3 + 1)'
          BY <1>2, <4>1, <4>2, <5>1, <5>2
        <5> QED
          BY <4>2, <5>3
    <3>5. Greeted(k)'
      BY <3>2, <3>4 DEF Greeted
    <3>6. OneAtATime(k)' /\ Fresh(k)' /\ OneRetry(k)' /\ Joined(k)'
      BY <1>0, <2>1, <2>2, <3>2, <3>3
      DEF OneAtATime, Only, Holds, Fresh, Beginning, OneRetry, Joined
    <3>7. InStep(k)'
      BY <3>2 DEF InStep, Working
    <3> QED
      BY <3>5, <3>6, <3>7
  <2> QED
    BY <2>4, <2>5
<1>8. CASE Acknowledge(k, line)
  <2> DEFINE w == waiting_pcs[k]
  <2>1. /\ state[k] = "waiting" /\ line = wait_string[k] /\ line \in Acks
        /\ w \in Sets /\ w \in Mpcs[k] /\ cs[k][w] \in DOMAIN Cycle
        /\ waiting_pcs_nextstate[k] = Cycle[cs[k][w]].next
    BY <1>8 DEF Acknowledge, Inv, TypeOK, AwaitsItsAnswer, Unfinished, CSState
  <2>2. /\ state'[k] = "ready" /\ tx' = tx /\ nbtest' = nbtest
        /\ \A s \in Sets : cs'[k][s] = IF s = w THEN Cycle[cs[k][w]].next ELSE cs[k][s]
    BY <1>8, <2>1 DEF Acknowledge, Inv, TypeOK
  <2>3. /\ Holds(rx[k], Acks) /\ ~Holds(rx'[k], Acks) /\ ~Holds(tx'[k], Orders)
    BY <1>1, <2>1, <2>2 DEF OneAtATime
  <2>4. OneAtATime(k)'
    BY <2>3 DEF OneAtATime, Only, Holds
  <2>5. InStep(k)'
    <3> SUFFICES ASSUME Working(k)', NEW s \in Mpcs[k] \ late
                 PROVE  AtProbe(k, s, Reached(k, s))'
      BY <1>0 DEF InStep
    <3>1. Working(k)
      BY <1>0, <2>1 DEF Working
    <3>2. s \in Sets
      OBVIOUS
    <3>3. AtProbe(k, s, Reached(k, s))
      BY <2>3, <3>1 DEF InStep, Refusal
    <3>4. Reached(k, s)' = Phase[cs'[k][s]]
      BY <2>2 DEF Reached, AsksFor
    <3>5. Phase[cs'[k][s]] = Reached(k, s)
      BY <2>1, <2>2, <2>3, <3>2, PhaseFacts DEF Reached, AsksFor
    <3> QED
      BY <1>0, <3>3, <3>4, <3>5 DEF AtProbe
  <2> QED
    BY <1>0, <2>1, <2>2, <2>4, <2>5 DEF Greeted, Fresh, Beginning, Joined, OneRetry
<1>9. CASE Ignore(k, line)
  <2>1. /\ state[k] \in {"ready", "waiting", "timeout"}
        /\ state[k] = "waiting" => line # wait_string[k]
        /\ UNCHANGED <<state, nbtest, cs, waiting_pcs, wait_string, tx>>
    BY <1>9 DEF Ignore, work, waiting
  <2>2. line \notin Acks
    <3>1. ASSUME line \in Acks PROVE FALSE
      <4>1. Holds(rx[k], Acks) /\ state[k] = "waiting"
        BY <1>1, <3>1 DEF OneAtATime
      <4>2. 1 \in 1..Len(rx[k]) /\ rx[k][1] \in Acks
        BY <1>1, <3>1
      <4>3. line = wait_string[k]
        BY <1>1, <4>2 DEF OneAtATime, Only
      <4> QED
        BY <2>1, <4>1, <4>3
    <3> QED
      BY <3>1
  <2>3. Holds(rx'[k], Acks) <=> Holds(rx[k], Acks)
    BY <1>1, <2>2
  <2>4. OneAtATime(k)'
    BY <1>1, <2>1, <2>3 DEF OneAtATime, Question
  <2>5. InStep(k)'
    BY <1>0, <2>1, <2>3 DEF InStep, Working, Refusal, Reached, AsksFor, AtProbe
  <2> QED
    BY <1>0, <2>1, <2>4, <2>5 DEF Greeted, Fresh, Beginning, Joined, OneRetry
<1> QED
  BY <1>0, <1>6, <1>7, <1>8, <1>9 DEF LineRead

\* A connection that is down keeps what it has read and waits for its end.
LEMMA DownConnection ==
    ASSUME SysInv, NEW k \in Collectors,
           state'[k] = state[k], nbtest'[k] = nbtest[k], cs'[k] = cs[k],
           waiting_pcs'[k] = waiting_pcs[k], wait_string'[k] = wait_string[k],
           server'[k] = "none", wire'[k] # "up", \A s \in Sets : k \notin subscribers'[s],
           \/ tx'[k] = <<>> \/ tx'[k] = tx[k]
           \/ tx[k] # <<>> /\ tx'[k] = Tail(tx[k]),
           \/ rx'[k] = rx[k]
           \/ \E n \in 0..Len(rx[k]) : rx'[k] = SubSeq(rx[k], 1, n)
    PROVE  Connection(k)'
<1> USE DEF SysInv, Connection
<1>0. tx[k] \in Seq(Commands) /\ rx[k] \in Seq(Lines)
  BY DEF SystemTypeOK, TypeOK
<1>1. /\ Holds(tx'[k], Orders) => Holds(tx[k], Orders)
      /\ Only(tx[k], Orders, Question(k)) => Only(tx'[k], Orders, Question(k))
  <2>1. CASE tx'[k] = <<>>
    BY <2>1 DEF Holds, Only
  <2>2. CASE tx'[k] = tx[k]
    BY <2>2
  <2>3. CASE tx[k] # <<>> /\ tx'[k] = Tail(tx[k])
    BY <1>0, <2>3, TakenFacts
  <2> QED
    BY <2>1, <2>2, <2>3
<1>2. /\ Holds(rx'[k], Acks) => Holds(rx[k], Acks)
      /\ Only(rx[k], Acks, wait_string[k]) => Only(rx'[k], Acks, wait_string[k])
      /\ Len(rx'[k]) \in Nat /\ Len(rx'[k]) <= Len(rx[k]) /\ Len(rx[k]) \in Nat
      /\ \A i \in 1..Len(rx'[k]) : rx'[k][i] = rx[k][i] /\ i \in 1..Len(rx[k])
      /\ rx[k] = <<>> => rx'[k] = <<>>
  <2>1. CASE rx'[k] = rx[k]
    BY <1>0, <2>1
  <2>2. ASSUME NEW n \in 0..Len(rx[k]), rx'[k] = SubSeq(rx[k], 1, n)
        PROVE  <1>2!1 /\ <1>2!2 /\ <1>2!3 /\ <1>2!4 /\ <1>2!5
    <3>1. /\ Holds(SubSeq(rx[k], 1, n), Acks) => Holds(rx[k], Acks)
          /\ Only(rx[k], Acks, wait_string[k]) => Only(SubSeq(rx[k], 1, n), Acks, wait_string[k])
      BY <1>0, PrefixHolds
    <3>2. /\ Len(rx'[k]) = n /\ Len(rx[k]) \in Nat
          /\ \A i \in 1..n : rx'[k][i] = rx[k][i] /\ i \in 1..Len(rx[k])
      BY <1>0, <2>2
    <3>3. rx[k] = <<>> => rx'[k] = <<>>
      BY <2>2
    <3> QED
      BY <2>2, <3>1, <3>2, <3>3
  <2> QED
    BY <2>1, <2>2
<1>3. Question(k)' = Question(k)
  BY DEF Question
<1>4. OneAtATime(k)'
  BY <1>1, <1>2, <1>3 DEF OneAtATime
<1>5. Greeted(k)'
  <2>1. ASSUME NEW p, Follows(k, p) PROVE Follows(k, p)'
    BY <1>2, <2>1 DEF Follows
  <2> QED
    BY <2>1 DEF Greeted
<1> QED
  BY <1>2, <1>4, <1>5 DEF InStep, Working, Fresh, Joined, OneRetry

\* The end of a connection is read.
LEMMA EndConnection ==
    ASSUME SysInv, NEW k \in Collectors, CollectorSeesEnd(k)
    PROVE  Connection(k)'
<1> USE DEF SysInv, Connection
<1>1. /\ state'[k] = "needtoconnect" /\ tx'[k] = <<>> /\ rx'[k] = <<>>
      /\ wire[k] = "eof" /\ UNCHANGED <<nbtest, server, wire, subscribers>>
  BY DEF CollectorSeesEnd, PeerClosed, SystemTypeOK, Inv, TypeOK, probe
<1>2. OneAtATime(k)'
  BY <1>1 DEF OneAtATime, Holds, Only
<1> QED
  BY <1>1, <1>2 DEF Greeted, InStep, Working, Fresh, Beginning, Joined, OneRetry

----------------------------------------------------------------------------
(* The steps of the probe.                                                 *)

\* The greeting goes out.
LEMMA GreetConnection ==
    ASSUME SysInv, NEW k \in Collectors, ProbeFirstPrompt(k)
    PROVE  Connection(k)'
<1> USE DEF SysInv, Connection
<1> DEFINE hello == <<"other", "other", "qigong[">>
<1>0. /\ server[k] = "handshake" /\ server'[k] = "open" /\ wire[k] = "up"
      /\ rx'[k] = rx[k] \o hello /\ rx[k] \in Seq(Lines)
      /\ UNCHANGED <<state, nbtest, cs, waiting_pcs, wait_string, tx, wire, late,
                     records, subscribers, cycles>>
  BY DEF ProbeFirstPrompt, SystemTypeOK, Joined, collectVars, link, work, waiting
<1>1. /\ hello \in Seq(Lines) /\ Len(hello) = 3 /\ hello[1] = "other" /\ hello[2] = "other"
      /\ hello[3] = "qigong[" /\ ~Holds(hello, Acks)
  <2>1. "other" \in Lines \ Acks /\ "qigong[" \in Lines \ Acks
    BY LineFacts
  <2>2. 1..3 = {1, 2, 3}
    OBVIOUS
  <2> QED
    BY <2>1, <2>2 DEF Holds
<1> HIDE DEF hello
<1>j. Joins(rx'[k], rx[k], hello)
  BY <1>0 DEF Joins
<1>2. /\ Len(rx'[k]) = Len(rx[k]) + 3 /\ Len(rx[k]) \in Nat
      /\ \A i \in 1..Len(rx[k]) : rx'[k][i] = rx[k][i]
      /\ \A i \in 1..3 : rx'[k][Len(rx[k]) + i] = hello[i]
  <2>1. /\ Len(rx'[k]) = Len(rx[k]) + Len(hello) /\ Len(rx[k]) \in Nat
        /\ \A i \in 1..Len(rx[k]) : rx'[k][i] = rx[k][i]
        /\ \A i \in 1..Len(hello) : rx'[k][Len(rx[k]) + i] = hello[i]
    BY <1>0, <1>1, <1>j, AnsweredFacts
  <2>2. Len(hello) = 3
    BY <1>1
  <2> QED
    BY <2>1, <2>2
<1>3. /\ Holds(rx'[k], Acks) <=> Holds(rx[k], Acks)
      /\ \A v : Only(rx[k], Acks, v) => Only(rx'[k], Acks, v)
  BY <1>0, <1>1, <1>j, AnsweredFacts
<1>4. ASSUME NEW p \in Nat, Follows(k, p) PROVE Follows(k, p)'
  <2>1. CASE p + Len(rx[k]) >= 5
    <3>1. ASSUME NEW i \in 1..Len(rx'[k]), p + i <= 5 PROVE rx'[k][i] = Script[p + i]
      <4>1. i \in 1..Len(rx[k])
        BY <1>2, <2>1, <3>1
      <4> QED
        BY <1>2, <1>4, <3>1, <4>1 DEF Follows
    <3> QED
      BY <1>2, <2>1, <3>1 DEF Follows
  <2>2. CASE p + Len(rx[k]) < 5
    <3>1. p = 0 /\ Len(rx[k]) = 0
      BY <1>0, <1>2, <1>4, <2>2 DEF Follows
    <3>2. Len(rx'[k]) = 3 /\ \A i \in 1..3 : rx'[k][i] = hello[i]
      BY <1>2, <3>1
    <3>3. \A i \in 1..3 : hello[i] = Script[i]
      BY <1>1 DEF Script
    <3> QED
      BY <1>0, <1>4, <2>2, <3>1, <3>2, <3>3 DEF Follows
  <2> QED
    BY <1>2, <2>1, <2>2
<1>5. Greeted(k)'
  <2>1. nbtest[k] \in Nat
    BY DEF Inv, TypeOK
  <2>2. 3 + nbtest[k] \in Nat /\ 0 \in Nat /\ \A p \in 0..2 : p \in Nat
    BY <2>1
  <2> DEFINE p3 == 3 + nbtest[k]
  <2>3. state[k] = "verify" => Follows(k, p3)'
    <3>1. p3 \in Nat
      BY <2>2
    <3>2. state[k] = "verify" => Follows(k, p3)
      BY DEF Greeted
    <3>3. p3' = p3
      BY <1>0
    <3> HIDE DEF p3
    <3> QED
      BY <1>4, <3>1, <3>2, <3>3
  <2> QED
    BY <1>0, <1>4, <2>2, <2>3 DEF Greeted
<1>6. OneAtATime(k)'
  BY <1>0, <1>3 DEF OneAtATime, Question
<1>7. InStep(k)'
  BY <1>0, <1>3 DEF InStep, Working, Refusal, Reached, AsksFor, AtProbe
<1> QED
  BY <1>0, <1>5, <1>6, <1>7 DEF Fresh, Joined, OneRetry

\* What ProbeReads does, one part at a time.
LEMMA AnswerFacts ==
    ASSUME SysInv, NEW k \in Collectors, ProbeReads(k)
    PROVE  \E m \in Commands :
             /\ m = Head(tx[k]) /\ Obey({k}, m) /\ Measures(m) \in SUBSET Sets
             /\ tx[k] \in Seq(Commands) /\ tx[k] # <<>> /\ tx'[k] = Tail(tx[k])
             /\ server[k] = "open" /\ wire[k] = "up"
             /\ UNCHANGED <<state, nbtest, cs, waiting_pcs, wait_string, server, wire>>
             /\ late' = IF m.cmd = "delete" THEN late \ {m.set} ELSE late
             /\ rx'[k] = Deliver(Measures(m))[k] \o WithPrompt(Reply(m))
             /\ rx[k] \in Seq(Lines)
             /\ m \in Orders => state[k] = "waiting" /\ m = Question(k)
<1> USE DEF SysInv
<1> DEFINE m == Head(tx[k])
           sent == Deliver(Measures(m))
           reply == WithPrompt(Reply(m))
<1>1. /\ tx[k] \in Seq(Commands) /\ tx[k] # <<>> /\ tx'[k] = Tail(tx[k])
      /\ rx[k] \in Seq(Lines)
  BY DEF ProbeReads, PeerReads, Inv, TypeOK, SystemTypeOK
<1>2. m \in Commands
  BY <1>1
<1>3. /\ Obey({k}, m)
      /\ server[k] = "open"
      /\ UNCHANGED <<state, nbtest, cs, waiting_pcs, wait_string, server, wire>>
      /\ late' = IF m.cmd = "delete" THEN late \ {m.set} ELSE late
      /\ rx' = [sent EXCEPT ![k] = @ \o reply]
  BY DEF ProbeReads, PeerReads, link, work, waiting
<1>4. Measures(m) \in SUBSET Sets
  <2>1. m.cmd = "activate" => m \in Orders
    BY <1>2, OrderFacts
  <2> QED
    BY <2>1, OrderFacts DEF Measures
<1>5. wire[k] = "up"
  BY <1>3 DEF Connection, Joined
<1>6. ASSUME m \in Orders PROVE state[k] = "waiting" /\ m = Question(k)
  <2>1. Only(tx[k], Orders, Question(k)) /\ Holds(tx[k], Orders) => state[k] = "waiting"
    BY DEF Connection, OneAtATime
  <2>2. Only(tx[k], Orders, Question(k))
    BY DEF Connection, OneAtATime
  <2>3. Holds(tx[k], Orders) /\ m = Question(k)
    BY <1>1, <1>6, <2>2, TakenFacts
  <2> QED
    BY <2>1, <2>2, <2>3
<1>7. rx'[k] = sent[k] \o reply
  <2>1. sent \in [Collectors -> Seq(Lines)]
    BY <1>4, DeliverFacts
  <2> HIDE DEF sent, reply
  <2> QED
    BY <1>3, <2>1
<1> QED
  BY <1>1, <1>2, <1>3, <1>4, <1>5, <1>6, <1>7

\* A command that is about no set: the greeting goes on with the answer to
\* the first "qiging ?".
LEMMA AnswerPlain ==
    ASSUME SysInv, NEW k \in Collectors, ProbeReads(k), Head(tx[k]) \notin Orders
    PROVE  Connection(k)'
<1>a. PICK m \in Commands :
        /\ m = Head(tx[k]) /\ Obey({k}, m) /\ Measures(m) \in SUBSET Sets
        /\ tx[k] \in Seq(Commands) /\ tx[k] # <<>> /\ tx'[k] = Tail(tx[k])
        /\ server[k] = "open" /\ wire[k] = "up"
        /\ UNCHANGED <<state, nbtest, cs, waiting_pcs, wait_string, server, wire>>
        /\ late' = IF m.cmd = "delete" THEN late \ {m.set} ELSE late
        /\ rx'[k] = Deliver(Measures(m))[k] \o WithPrompt(Reply(m))
        /\ rx[k] \in Seq(Lines)
  BY AnswerFacts
<1> DEFINE reply == WithPrompt(Reply(m))
<1>b. m \notin Orders /\ {k} \in SUBSET Collectors
  BY <1>a
<1>2. /\ prompt' \in BOOLEAN /\ UNCHANGED <<records, subscribers, cycles>>
      /\ m.cmd = "qiging" => ~prompt'
  <2>1. Memory' /\ UNCHANGED <<records, subscribers, cycles>> /\ (m.cmd = "qiging" => ~prompt')
    BY <1>a, <1>b, ObeyFacts
  <2> QED
    BY <2>1 DEF Memory
<1>c. Deliver({}) = rx
  BY DeliverFacts
<1>6. /\ Holds(tx'[k], Orders) <=> Holds(tx[k], Orders)
      /\ \A v : Only(tx[k], Orders, v) => Only(tx'[k], Orders, v)
  <2>1. ASSUME NEW v
        PROVE  /\ Holds(tx'[k], Orders) <=> Holds(tx[k], Orders)
               /\ Only(tx[k], Orders, v) => Only(tx'[k], Orders, v)
    <3> DEFINE q == tx[k]
               c == tx'[k]
    <3>1. q \in Seq(Commands) /\ q # <<>> /\ c = Tail(q) /\ m = Head(q) /\ m \notin Orders
      BY <1>a, <1>b
    <3> HIDE DEF q, c
    <3>2. Holds(q, Orders) <=> m \in Orders \/ Holds(c, Orders)
      BY <3>1, TakenFacts
    <3>3. Only(q, Orders, v) => Only(c, Orders, v)
      BY <3>1, TakenFacts
    <3> QED
      BY <3>1, <3>2, <3>3 DEF q, c
  <2> QED
    BY <2>1
<1> USE DEF SysInv, Connection
<1>0. /\ tx[k] \in Seq(Commands) /\ tx[k] # <<>> /\ tx'[k] = Tail(tx[k])
      /\ m \notin Orders /\ server[k] = "open" /\ wire[k] = "up"
      /\ UNCHANGED <<state, nbtest, cs, waiting_pcs, wait_string, server, wire>>
      /\ m.cmd # "delete" /\ m.cmd # "activate"
  <2>1. m.cmd # "delete" /\ m.cmd # "activate"
    BY <1>b, OrderFacts
  <2> QED
    BY <2>1, <1>a, <1>b
<1>1. late' = late /\ rx'[k] = rx[k] \o reply /\ rx[k] \in Seq(Lines)
  <2>1. Measures(m) = {}
    BY <1>0 DEF Measures
  <2>2. Deliver(Measures(m)) = rx
    BY <2>1, <1>c
  <2> QED
    BY <1>0, <1>a, <2>2
<1>3. /\ reply \in Seq(Lines) /\ ~Holds(reply, Acks)
      /\ m.cmd = "qiging" => reply = <<"other", "qigong.">>
  BY <1>0, <1>2, ReplyFacts
<1> HIDE DEF reply
<1>j. Joins(rx'[k], rx[k], reply)
  BY <1>1 DEF Joins
<1>4. /\ Len(rx'[k]) = Len(rx[k]) + Len(reply) /\ Len(rx[k]) \in Nat /\ Len(reply) \in Nat
      /\ \A i \in 1..Len(rx[k]) : rx'[k][i] = rx[k][i]
      /\ \A i \in 1..Len(reply) : rx'[k][Len(rx[k]) + i] = reply[i]
  BY <1>1, <1>3, <1>j, AnsweredFacts
<1>5. /\ Holds(rx'[k], Acks) <=> Holds(rx[k], Acks)
      /\ \A v : Only(rx[k], Acks, v) => Only(rx'[k], Acks, v)
  BY <1>1, <1>3, <1>j, AnsweredFacts
<1>7. ASSUME NEW p \in Nat, Follows(k, p), state[k] # "challenging" \/ p + Len(rx[k]) >= 5
      PROVE  Follows(k, p)'
  <2>1. CASE p + Len(rx[k]) >= 5
    <3>1. ASSUME NEW i \in 1..Len(rx'[k]), p + i <= 5 PROVE rx'[k][i] = Script[p + i]
      <4>1. i \in 1..Len(rx[k])
        BY <1>4, <2>1, <3>1
      <4> QED
        BY <1>4, <1>7, <3>1, <4>1 DEF Follows
    <3> QED
      BY <1>4, <2>1, <3>1 DEF Follows
  <2>2. CASE p + Len(rx[k]) < 5
    <3>1. p + Len(rx[k]) = 3 /\ m = Plain("qiging")
      BY <1>0, <1>a, <1>7, <2>2 DEF Follows
    <3>2. reply = <<"other", "qigong.">>
      BY <1>3, <3>1 DEF Plain
    <3>3. Len(reply) = 2 /\ reply[1] = "other" /\ reply[2] = "qigong."
      BY <3>2
    <3>4. Script[4] = "other" /\ Script[5] = "qigong."
      BY DEF Script
    <3>5. Len(rx'[k]) = Len(rx[k]) + 2 /\ rx'[k][Len(rx[k]) + 1] = "other"
          /\ rx'[k][Len(rx[k]) + 2] = "qigong."
      BY <1>4, <3>3
    <3>6. ASSUME NEW i \in 1..Len(rx'[k]), p + i <= 5 PROVE rx'[k][i] = Script[p + i]
      <4>1. CASE i \in 1..Len(rx[k])
        BY <1>4, <1>7, <3>6, <4>1 DEF Follows
      <4>2. CASE i \notin 1..Len(rx[k])
        <5>1. \/ i = Len(rx[k]) + 1 /\ p + i = 4
              \/ i = Len(rx[k]) + 2 /\ p + i = 5
          BY <1>4, <3>1, <3>5, <4>2
        <5> QED
          BY <3>4, <3>5, <5>1
      <4> QED
        BY <4>1, <4>2
    <3>7. p + Len(rx'[k]) >= 5
      BY <3>1, <3>5
    <3> QED
      BY <3>5, <3>6, <3>7, <1>4 DEF Follows
  <2> QED
    BY <1>4, <2>1, <2>2
<1>8. Greeted(k)'
  <2>1. CASE state[k] = "challenging"
    <3>1. Follows(k, 0)
      BY <2>1 DEF Greeted
    <3>2. 0 \in Nat /\ 0 + Len(rx[k]) >= 5
      BY <1>0, <1>4, <2>1, <3>1 DEF Follows
    <3> QED
      BY <1>0, <1>7, <2>1, <3>1, <3>2 DEF Greeted
  <2>2. CASE state[k] = "welcome"
    <3>1. PICK p \in 0..2 : Follows(k, p)
      BY <2>2 DEF Greeted
    <3>2. p \in Nat
      OBVIOUS
    <3>3. Follows(k, p)'
      BY <1>7, <2>2, <3>1, <3>2
    <3> QED
      BY <1>0, <2>2, <3>3 DEF Greeted
  <2>3. CASE state[k] = "verify"
    <3> DEFINE p == 3 + nbtest[k]
    <3>1. p \in Nat /\ Follows(k, p) /\ p' = p
      BY <1>0, <2>3 DEF Greeted, Inv, TypeOK
    <3> HIDE DEF p
    <3>2. Follows(k, p)'
      BY <1>7, <2>3, <3>1
    <3> QED
      BY <1>0, <2>3, <3>2 DEF Greeted, p
  <2> QED
    BY <1>0, <2>1, <2>2, <2>3 DEF Greeted
<1>9. OneAtATime(k)'
  BY <1>0, <1>5, <1>6 DEF OneAtATime, Question
<1>10. InStep(k)'
  BY <1>0, <1>1, <1>2, <1>5, <1>6 DEF InStep, Working, Refusal, Reached, AsksFor, AtProbe
<1> QED
  BY <1>0, <1>2, <1>8, <1>9, <1>10 DEF Fresh, Joined, OneRetry

\* A command about a set: the probe is one step further, and the answer to it
\* is the only one under way.
LEMMA AnswerOrder ==
    ASSUME SysInv, NEW k \in Collectors, ProbeReads(k), Head(tx[k]) \in Orders
    PROVE  Connection(k)'
<1>a. PICK m \in Commands :
        /\ m = Head(tx[k]) /\ Obey({k}, m) /\ Measures(m) \in SUBSET Sets
        /\ tx[k] \in Seq(Commands) /\ tx[k] # <<>> /\ tx'[k] = Tail(tx[k])
        /\ server[k] = "open" /\ wire[k] = "up"
        /\ UNCHANGED <<state, nbtest, cs, waiting_pcs, wait_string, server, wire>>
        /\ late' = IF m.cmd = "delete" THEN late \ {m.set} ELSE late
        /\ rx'[k] = Deliver(Measures(m))[k] \o WithPrompt(Reply(m))
        /\ rx[k] \in Seq(Lines)
        /\ m \in Orders => state[k] = "waiting" /\ m = Question(k)
  BY AnswerFacts
<1> DEFINE reply == WithPrompt(Reply(m))
           sent == Deliver(Measures(m))[k]
           w == waiting_pcs[k]
           x == cs[k][w]
<1>b. /\ m \in Orders /\ state[k] = "waiting" /\ m = Question(k)
      /\ {k} \in SUBSET Collectors
  BY <1>a
<1>c. /\ w \in Mpcs[k] /\ w \in Sets /\ x \in DOMAIN Cycle
      /\ wait_string[k] = Cycle[x].ack
  BY <1>b DEF SysInv, Inv, AwaitsItsAnswer, Unfinished, TypeOK, CSState
<1>d. m.set = w /\ m.cmd = Cycle[x].cmd
  BY <1>b DEF Question
<1> HIDE DEF w, x
<1>5. /\ prompt' \in BOOLEAN
      /\ \A s \in Sets \ {w} : /\ s \in records' <=> s \in records
                               /\ cycles'[s] = cycles[s]
                               /\ subscribers'[s] = subscribers[s]
      /\ \/ /\ m.cmd = "delete"
            /\ w \notin records' /\ cycles'[w] = 0 /\ subscribers'[w] = {}
         \/ /\ m.cmd = "create"
            /\ w \notin records \cup Refused => w \in records'
            /\ UNCHANGED <<subscribers, cycles>>
         \/ /\ m.cmd = "activate"
            /\ w \in records => cycles'[w] = cycles[w] + 1
            /\ UNCHANGED <<records, subscribers>>
         \/ /\ m.cmd = "sub"
            /\ w \in records => {k} \subseteq subscribers'[w]
            /\ UNCHANGED <<records, cycles>>
  <2>1. /\ Memory'
        /\ \A s \in Sets \ {m.set} : /\ s \in records' <=> s \in records
                                     /\ cycles'[s] = cycles[s]
                                     /\ subscribers'[s] = subscribers[s]
        /\ \/ /\ m.cmd = "delete"
              /\ m.set \notin records' /\ cycles'[m.set] = 0 /\ subscribers'[m.set] = {}
           \/ /\ m.cmd = "create"
              /\ m.set \notin records \cup Refused => m.set \in records'
              /\ UNCHANGED <<subscribers, cycles>>
           \/ /\ m.cmd = "activate"
              /\ m.set \in records => cycles'[m.set] = cycles[m.set] + 1
              /\ UNCHANGED <<records, subscribers>>
           \/ /\ m.cmd = "sub"
              /\ m.set \in records => {k} \subseteq subscribers'[m.set]
              /\ UNCHANGED <<records, cycles>>
    BY <1>a, <1>b, ObeyFacts
  <2>2. prompt' \in BOOLEAN
    BY <2>1 DEF Memory
  <2> QED
    BY <1>d, <2>1, <2>2
<1>e. sent \in Seq(Lines) /\ (sent = rx[k] \/ sent = Append(rx[k], "-->"))
  <2>1. /\ Deliver(Measures(m)) \in [Collectors -> Seq(Lines)]
        /\ sent = rx[k] \/ sent = Append(rx[k], "-->")
    BY <1>a, DeliverFacts
  <2> QED
    BY <2>1
<1> USE DEF SysInv, Connection
<1>0. /\ tx[k] \in Seq(Commands) /\ tx[k] # <<>> /\ tx'[k] = Tail(tx[k])
      /\ m \in Orders /\ m = Question(k)
      /\ state[k] = "waiting" /\ wire[k] = "up" /\ server[k] = "open"
      /\ UNCHANGED <<state, nbtest, cs, waiting_pcs, wait_string, server, wire>>
  BY <1>a, <1>b
<1>1. /\ w \in Mpcs[k] /\ w \in Sets /\ x \in DOMAIN Cycle
      /\ wait_string[k] = Cycle[x].ack
      /\ m.set = w /\ m.cmd = Cycle[x].cmd
  BY <1>c, <1>d
<1>2. /\ rx'[k] = sent \o reply
      /\ sent \in Seq(Lines) /\ rx[k] \in Seq(Lines)
      /\ sent = rx[k] \/ sent = Append(rx[k], "-->")
      /\ late' = IF m.cmd = "delete" THEN late \ {w} ELSE late
  BY <1>a, <1>d, <1>e
<1>p. \/ x = "del_remote_for_create" /\ m.cmd = "delete" /\ Phase[x] = 0
      \/ x = "create_remote" /\ m.cmd = "create" /\ Phase[x] = 1
      \/ x = "activate_remote" /\ m.cmd = "activate" /\ Phase[x] = 2
      \/ x = "sub_remote" /\ m.cmd = "sub" /\ Phase[x] = 3
  BY <1>c, <1>d, WhichStep
<1> USE DEF w, x
<1> HIDE DEF sent
<1>3. /\ Holds(tx[k], Orders) /\ ~Holds(tx'[k], Orders)
      /\ ~Holds(rx[k], Acks)
  <2>1. Only(tx[k], Orders, Question(k))
    BY DEF OneAtATime
  <2>2. Holds(tx[k], Orders) /\ ~Holds(tx'[k], Orders)
    BY <1>0, <1>a, <2>1, TakenFacts
  <2> QED
    BY <2>2 DEF OneAtATime
<1>4. ~Holds(sent, Acks)
  <2>1. sent = Append(rx[k], "-->") => ~Holds(sent, Acks)
    BY <1>2, <1>3, DataLineHolds
  <2> QED
    BY <1>2, <1>3, <2>1
<1>6. /\ reply \in Seq(Lines)
      /\ Only(reply, Acks, wait_string[k])
      /\ m.cmd = "create" /\ Holds(reply, Acks) => w \notin records \cup Refused
      /\ m.cmd = "sub" /\ Holds(reply, Acks) => w \in records
  BY <1>0, <1>1, <1>5, ReplyFacts
<1> HIDE DEF reply
<1>j. Joins(rx'[k], sent, reply)
  BY <1>2 DEF Joins
<1>7. /\ Holds(rx'[k], Acks) <=> Holds(reply, Acks)
      /\ Only(rx'[k], Acks, wait_string[k])
  BY <1>2, <1>4, <1>6, <1>j, AnsweredFacts
<1>8. OneAtATime(k)'
  <2>1. Only(tx'[k], Orders, Question(k)')
    BY <1>3 DEF Only, Holds
  <2> QED
    BY <1>0, <1>3, <1>7, <2>1 DEF OneAtATime
<1>9. InStep(k)'
  <2> SUFFICES ASSUME NEW s \in Mpcs[k] \ late'
               PROVE  Refusal(k, s)' \/ AtProbe(k, s, Reached(k, s))'
    BY DEF InStep
  <2>0. s \in Sets /\ Working(k)
    BY <1>0 DEF Working
  <2>1. CASE s # w
    <3>1. s \notin late
      BY <1>2, <2>1
    <3>2. AtProbe(k, s, Reached(k, s)) /\ Reached(k, s) = Phase[cs[k][s]]
      BY <2>0, <2>1, <3>1 DEF InStep, Refusal, Reached, AsksFor
    <3>3. Reached(k, s)' = Reached(k, s)
      BY <1>0, <2>1, <3>2 DEF Reached, AsksFor
    <3> QED
      BY <1>5, <2>0, <2>1, <3>2, <3>3 DEF AtProbe
  <2>2. CASE s = w /\ ~Holds(rx'[k], Acks)
    BY <1>0, <1>3, <2>2 DEF Refusal, AsksFor
  <2>3. CASE s = w /\ Holds(rx'[k], Acks)
    <3>1. Reached(k, s)' = Phase[x] + 1
      BY <1>0, <2>3 DEF Reached, AsksFor
    <3>2. s \notin late => AtProbe(k, s, Phase[x])
      BY <1>0, <1>3, <2>0, <2>3 DEF InStep, Refusal, Reached, AsksFor
    <3>3. cycles[w] \in Nat /\ (w \notin records => cycles[w] = 0)
      BY <1>1 DEF SystemTypeOK, CyclesOwned
    <3>4. \/ x = "del_remote_for_create" /\ m.cmd = "delete" /\ Phase[x] = 0
          \/ x = "create_remote" /\ m.cmd = "create" /\ Phase[x] = 1
          \/ x = "activate_remote" /\ m.cmd = "activate" /\ Phase[x] = 2
          \/ x = "sub_remote" /\ m.cmd = "sub" /\ Phase[x] = 3
      BY <1>p
    <3>5. AtProbe(k, s, Phase[x] + 1)'
      <4>1. CASE m.cmd = "delete" /\ Phase[x] = 0
        BY <1>0, <1>5, <2>3, <4>1 DEF AtProbe
      <4>2. CASE m.cmd = "create" /\ Phase[x] = 1
        BY <1>0, <1>5, <1>6, <1>7, <2>3, <3>3, <4>2 DEF AtProbe
      <4>3. CASE m.cmd = "activate" /\ Phase[x] = 2
        <5>1. s \in records /\ cycles[s] = 0
          BY <1>2, <3>2, <4>3 DEF AtProbe
        <5> QED
          BY <1>0, <1>5, <2>3, <4>3, <5>1 DEF AtProbe
      <4>4. CASE m.cmd = "sub" /\ Phase[x] = 3
        <5>1. s \in records /\ cycles[s] = 1
          BY <1>2, <3>2, <4>4 DEF AtProbe
        <5> QED
          BY <1>0, <1>5, <2>3, <4>4, <5>1 DEF AtProbe
      <4> QED
        BY <3>4, <4>1, <4>2, <4>3, <4>4
    <3> QED
      BY <1>0, <3>1, <3>5 DEF AtProbe
  <2> QED
    BY <2>1, <2>2, <2>3
<1> QED
  BY <1>0, <1>8, <1>9 DEF Greeted, Fresh, Beginning, Joined, OneRetry

----------------------------------------------------------------------------
(* Steps of the whole system.                                              *)

LEMMA Together ==
    ASSUME Inv', Store', Memory', rx' \in [Collectors -> Seq(Lines)],
           \A k \in Collectors : Connection(k)'
    PROVE  SysInv'
BY DEF SysInv, Inv, Store, Memory, SystemTypeOK

LEMMA Apart == ASSUME SysInv PROVE Inv /\ SystemTypeOK /\ Store /\ Memory
BY DEF SysInv, Store, Memory, SystemTypeOK

\* A step of one collector leaves the others where they are.
Others(k) == \A j \in Collectors \ {k} :
    /\ state'[j] = state[j] /\ nbtest'[j] = nbtest[j] /\ cs'[j] = cs[j]
    /\ waiting_pcs'[j] = waiting_pcs[j] /\ wait_string'[j] = wait_string[j]
    /\ tx'[j] = tx[j]

LEMMA PollOthers ==
    ASSUME Inv, NEW k \in Collectors, Poll(k)
    PROVE  Others(k)
<1> USE DEF Inv, TypeOK, waiting, work, Others
<1>1. ASSUME NEW before, Serve(k, before), UNCHANGED nbtest PROVE Others(k)
  <2>1. ASSUME NEW s \in Mpcs[k], Command(k, s, before)
        PROVE  Others(k)
    BY <1>1, <2>1 DEF Command
  <2> QED
    BY <1>1, <2>1 DEF Serve
<1>2. ASSUME Connected(k) \/ Unreachable(k), UNCHANGED nbtest PROVE Others(k)
  <2>1. CASE Connected(k)
    BY <1>2, <2>1 DEF Connected
  <2>2. CASE Unreachable(k)
    BY <1>2, <2>2 DEF Unreachable
  <2> QED
    BY <1>2, <2>1, <2>2
<1> QED
  BY <1>1, <1>2 DEF Poll, PollServe, PollWake, PollConnect, PollGiveUp

LEMMA ReadOthers ==
    ASSUME Inv, NEW k \in Collectors, NEW line, LineRead(k, line)
    PROVE  Others(k)
<1> USE DEF Inv, TypeOK, waiting, work, Others, Write
<1>1. CASE Welcome(k, line)
  BY <1>1 DEF Welcome
<1>2. CASE Verify(k, line)
  BY <1>2 DEF Verify
<1>3. CASE Acknowledge(k, line)
  BY <1>3 DEF Acknowledge
<1>4. CASE Ignore(k, line)
  BY <1>4 DEF Ignore
<1> QED
  BY <1>1, <1>2, <1>3, <1>4 DEF LineRead

LEMMA PeerOthers ==
    ASSUME Inv, NEW k \in Collectors, PeerClosed(k) \/ FirstPrompt(k) \/ PeerReads(k)
    PROVE  Others(k)
<1> USE DEF Inv, TypeOK, waiting, work, Others, Write, link
<1>1. CASE PeerClosed(k)
  BY <1>1 DEF PeerClosed
<1>2. CASE FirstPrompt(k)
  BY <1>2 DEF FirstPrompt
<1>3. CASE PeerReads(k)
  BY <1>3 DEF PeerReads
<1> QED
  BY <1>1, <1>2, <1>3

\* The collector's step keeps what module Collect says of it.
LEMMA CollectStep ==
    ASSUME Inv, NEW k \in Collectors,
           \/ Poll(k) \/ DelayOver(k) \/ PeerClosed(k) \/ FirstPrompt(k) \/ PeerReads(k)
           \/ \E line \in Lines : LineRead(k, line)
    PROVE  Inv'
<1>1. Next
  BY DEF Next
<1> QED
  BY <1>1, NextStep

\* The probe's side ends.
LEMMA EndsFacts ==
    ASSUME SysInv, NEW k \in Collectors, Ends(k)
    PROVE  /\ Memory' /\ stale' \in Seq(Commands) /\ UNCHANGED <<records, cycles, late>>
           /\ \A s \in Sets : k \notin subscribers'[s]
           /\ \A j \in Collectors \ {k}, s \in Sets : j \in subscribers'[s] <=> j \in subscribers[s]
<1> USE DEF SysInv, SystemTypeOK, Ends
<1>1. PICK n \in 0..Len(tx[k]) : stale' = stale \o SubSeq(tx[k], 1, n)
  OBVIOUS
<1>2. tx[k] \in Seq(Commands) /\ stale \in Seq(Commands)
  BY DEF TypeOK
<1>3. SubSeq(tx[k], 1, n) \in Seq(Commands)
  <2> DEFINE q == tx[k]
  <2>1. q \in Seq(Commands) /\ n \in 0..Len(q)
    BY <1>1, <1>2
  <2> HIDE DEF q
  <2>2. SubSeq(q, 1, n) \in Seq(Commands)
    <3>1. \A i \in 1..n : q[i] \in Commands
      BY <2>1
    <3> QED
      BY <2>1, <3>1
  <2> QED
    BY <2>2 DEF q
<1>4. stale' \in Seq(Commands)
  BY <1>1, <1>2, <1>3
<1> QED
  BY <1>4 DEF Memory, CyclesOwned

\* Fewer lines are lines.
LEMMA LosesFacts ==
    ASSUME SysInv, NEW K \in SUBSET Collectors, LosesLines(K)
    PROVE  /\ rx' \in [Collectors -> Seq(Lines)]
           /\ \A k \in Collectors \ K : rx'[k] = rx[k]
           /\ \A k \in K : \E n \in 0..Len(rx[k]) : rx'[k] = SubSeq(rx[k], 1, n)
<1>1. PICK n \in [K -> UNION {0..Len(rx[k]) : k \in Collectors}] :
        /\ \A k \in K : n[k] <= Len(rx[k])
        /\ rx' = [k \in Collectors |-> IF k \in K THEN SubSeq(rx[k], 1, n[k]) ELSE rx[k]]
  BY DEF LosesLines
<1>2. ASSUME NEW k \in Collectors
      PROVE  rx[k] \in Seq(Lines) /\ Len(rx[k]) \in Nat
             /\ \A i \in 0..Len(rx[k]) : SubSeq(rx[k], 1, i) \in Seq(Lines)
  <2> DEFINE q == rx[k]
  <2>1. q \in Seq(Lines)
    BY DEF SysInv, SystemTypeOK
  <2> HIDE DEF q
  <2>2. ASSUME NEW i \in 0..Len(q) PROVE SubSeq(q, 1, i) \in Seq(Lines)
    <3>1. \A h \in 1..i : q[h] \in Lines
      BY <2>1, <2>2
    <3> QED
      BY <2>1, <2>2, <3>1
  <2> QED
    BY <2>1, <2>2 DEF q
<1>3. ASSUME NEW k \in K PROVE n[k] \in 0..Len(rx[k])
  <2>1. n[k] \in UNION {0..Len(rx[j]) : j \in Collectors} /\ k \in Collectors
    BY <1>1
  <2>2. PICK j \in Collectors : n[k] \in 0..Len(rx[j])
    BY <2>1
  <2>3. Len(rx[j]) \in Nat /\ Len(rx[k]) \in Nat
    BY <1>2, <2>1
  <2> QED
    BY <1>1, <2>2, <2>3
<1> QED
  BY <1>1, <1>2, <1>3

\* The other connections, when the probe's memory of their sets stays.
LEMMA OtherConnections ==
    ASSUME SysInv, NEW k \in Collectors, Others(k), UNCHANGED <<records, cycles, late>>,
           \A j \in Collectors \ {k} : /\ server'[j] = server[j] /\ wire'[j] = wire[j]
                                       /\ rx'[j] = rx[j]
                                       /\ \A s \in Sets : j \in subscribers'[s] <=> j \in subscribers[s]
    PROVE  \A j \in Collectors \ {k} : Connection(j)'
<1> SUFFICES ASSUME NEW j \in Collectors \ {k} PROVE Connection(j)'
  OBVIOUS
<1>1. SystemTypeOK /\ Connection(j) /\ j \in Collectors
  BY DEF SysInv
<1>2. Untouched(j)
  BY DEF Others, Untouched
<1>3. SetsKept(j)
  <2>1. Mpcs[j] \subseteq Sets
    OBVIOUS
  <2> QED
    BY <2>1 DEF SetsKept
<1>4. LineMore(j)
  BY DEF LineMore
<1> QED
  BY <1>1, <1>2, <1>3, <1>4, Elsewhere

LEMMA PollsStep ==
    ASSUME SysInv, NEW k \in Collectors, CollectorPolls(k)
    PROVE  SysInv'
<1>0. Inv /\ SystemTypeOK /\ Store /\ Memory /\ rx \in [Collectors -> Seq(Lines)]
  BY Apart DEF SystemTypeOK
<1>1. Poll(k)
  BY DEF CollectorPolls, Poll
<1>2. Inv' /\ Others(k)
  BY <1>0, <1>1, PollOthers, CollectStep
<1>3. CASE (PollServe(k) \/ PollWake(k)) /\ UNCHANGED <<probe, network, up, faults>>
  <2>1. Connection(k)'
    <3>1. CASE PollServe(k)
      <4>1. <<>> \in Seq(Commands) /\ ~Holds(<<>>, Orders)
        BY DEF Holds
      <4> QED
        BY <1>3, <3>1, <4>1, ServeConnection DEF PollServe
    <3>2. CASE PollWake(k)
      <4> DEFINE wake == <<Plain("qiging1")>>
      <4>1. wake \in Seq(Commands) /\ ~Holds(wake, Orders)
        BY OrderFacts DEF Holds
      <4>2. state[k] \in {"ready", "waiting"}
        BY <1>0, <3>2 DEF PollWake, Silent, Inv, WatchedWhileWorking
      <4>3. Serve(k, wake) /\ UNCHANGED <<nbtest, probe, network>>
        BY <1>3, <3>2 DEF PollWake
      <4> HIDE DEF wake
      <4> QED
        BY <4>1, <4>2, <4>3, ServeConnection
    <3> QED
      BY <1>3, <3>1, <3>2
  <2>2. /\ UNCHANGED <<records, cycles, late, server, wire, rx, subscribers>>
        /\ Store' /\ Memory' /\ rx' \in [Collectors -> Seq(Lines)]
    BY <1>0, <1>3 DEF probe, network, Store, Memory, CyclesOwned
  <2>3. \A j \in Collectors \ {k} : Connection(j)'
    BY <1>2, <2>2, OtherConnections
  <2> QED
    BY <1>2, <2>1, <2>2, <2>3, Together
<1>4. CASE PollConnect(k) /\ Connects(k) /\ UNCHANGED <<probe, rx, stale, late, up, faults>>
  <2>1. /\ Connected(k) \/ Unreachable(k)
        /\ nbtest' = nbtest /\ rx'[k] = <<>> /\ \A s \in Sets : k \notin subscribers'[s]
    BY <1>4 DEF PollConnect, SysInv, Connection, Joined, probe
  <2>2. Connection(k)'
    BY <1>4, <2>1, ConnectConnection
  <2>3. /\ UNCHANGED <<records, cycles, late, rx, subscribers>>
        /\ \A j \in Collectors \ {k} : server'[j] = server[j] /\ wire'[j] = wire[j]
        /\ Store' /\ Memory' /\ rx' \in [Collectors -> Seq(Lines)]
    BY <1>0, <1>4 DEF Connects, probe, Store, Memory, CyclesOwned
  <2>4. \A j \in Collectors \ {k} : Connection(j)'
    BY <1>2, <2>3, OtherConnections
  <2> QED
    BY <1>2, <2>2, <2>3, <2>4, Together
<1>5. CASE /\ PollGiveUp(k) /\ Connects(k) /\ Ends(k)
           /\ rx' = [rx EXCEPT ![k] = <<>>]
           /\ faults' \in (IF stale' = stale THEN {faults} ELSE {faults + 1}) \cap 0..MaxFaults
           /\ UNCHANGED up
  <2>1. /\ Memory' /\ stale' \in Seq(Commands) /\ UNCHANGED <<records, cycles, late>>
        /\ \A s \in Sets : k \notin subscribers'[s]
        /\ \A j \in Collectors \ {k}, s \in Sets : j \in subscribers'[s] <=> j \in subscribers[s]
    BY <1>5, EndsFacts
  <2>2. /\ Connected(k) \/ Unreachable(k)
        /\ nbtest' = nbtest /\ rx'[k] = <<>>
    BY <1>0, <1>5 DEF PollGiveUp
  <2>3. Connection(k)'
    BY <1>5, <2>1, <2>2, ConnectConnection
  <2>4. /\ \A j \in Collectors \ {k} : /\ server'[j] = server[j] /\ wire'[j] = wire[j]
                                       /\ rx'[j] = rx[j]
        /\ Store' /\ rx' \in [Collectors -> Seq(Lines)]
    <3>1. <<>> \in Seq(Lines)
      OBVIOUS
    <3> QED
      BY <1>0, <1>5, <2>1, <3>1 DEF Connects, Store
  <2>5. \A j \in Collectors \ {k} : Connection(j)'
    BY <1>2, <2>1, <2>4, OtherConnections
  <2> QED
    BY <1>2, <2>1, <2>3, <2>4, <2>5, Together
<1> QED
  BY <1>3, <1>4, <1>5 DEF CollectorPolls

LEMMA HearsStep ==
    ASSUME SysInv, NEW k \in Collectors,
           CollectorFirstPrompt(k) \/ CollectorReads(k) \/ CollectorSeesEnd(k)
    PROVE  SysInv'
<1>0. /\ Inv /\ SystemTypeOK /\ Store /\ Memory /\ rx \in [Collectors -> Seq(Lines)]
      /\ rx[k] \in Seq(Lines)
  BY Apart DEF SystemTypeOK
<1>1. Inv' /\ Others(k)
  <2>1. CASE CollectorFirstPrompt(k)
    BY <1>0, <2>1, CollectStep, PeerOthers DEF CollectorFirstPrompt
  <2>2. CASE CollectorReads(k)
    <3>1. LineRead(k, Head(rx[k])) /\ Head(rx[k]) \in Lines
      BY <1>0, <2>2 DEF CollectorReads
    <3> QED
      BY <1>0, <3>1, CollectStep, ReadOthers
  <2>3. CASE CollectorSeesEnd(k)
    BY <1>0, <2>3, CollectStep, PeerOthers DEF CollectorSeesEnd
  <2> QED
    BY <2>1, <2>2, <2>3
<1>2. Connection(k)'
  BY PromptConnection, ReadConnection, EndConnection
<1>3. /\ rx' \in [Collectors -> Seq(Lines)] /\ \A j \in Collectors \ {k} : rx'[j] = rx[j]
      /\ UNCHANGED <<probe, server, wire, stale, late, up, faults>>
  <2>1. CASE CollectorFirstPrompt(k)
    BY <1>0, <2>1 DEF CollectorFirstPrompt, network
  <2>2. CASE CollectorReads(k)
    <3>1. Tail(rx[k]) \in Seq(Lines)
      BY <1>0, <2>2 DEF CollectorReads
    <3> QED
      BY <1>0, <2>2, <3>1 DEF CollectorReads
  <2>3. CASE CollectorSeesEnd(k)
    <3>1. <<>> \in Seq(Lines)
      OBVIOUS
    <3> QED
      BY <1>0, <2>3, <3>1 DEF CollectorSeesEnd
  <2> QED
    BY <2>1, <2>2, <2>3
<1>4. /\ UNCHANGED <<records, cycles, late, subscribers, server, wire>> /\ Store' /\ Memory'
  BY <1>0, <1>3 DEF probe, Store, Memory, CyclesOwned
<1>5. \A j \in Collectors \ {k} : Connection(j)'
  BY <1>1, <1>3, <1>4, OtherConnections
<1> QED
  BY <1>1, <1>2, <1>3, <1>4, <1>5, Together

\* A lost connection goes down, or what was written on it disappears.
LEMMA LostStep ==
    ASSUME SysInv, NEW k \in Collectors, Lost(k)
    PROVE  SysInv'
<1>0. /\ Inv /\ SystemTypeOK /\ Store /\ Memory
  BY Apart
<1>1. Ends(k) /\ LosesLines({k}) /\ {k} \in SUBSET Collectors
  BY DEF Lost
<1>2. /\ Memory' /\ stale' \in Seq(Commands) /\ UNCHANGED <<records, cycles, late>>
      /\ \A s \in Sets : k \notin subscribers'[s]
      /\ \A j \in Collectors \ {k}, s \in Sets : j \in subscribers'[s] <=> j \in subscribers[s]
  BY <1>1, EndsFacts
<1>3. /\ rx' \in [Collectors -> Seq(Lines)]
      /\ \A j \in Collectors \ {k} : rx'[j] = rx[j]
      /\ \E n \in 0..Len(rx[k]) : rx'[k] = SubSeq(rx[k], 1, n)
  BY <1>1, LosesFacts
<1>4. /\ tx' = [tx EXCEPT ![k] = <<>>] /\ UNCHANGED <<link, work, silence, up>>
      /\ server' = [server EXCEPT ![k] = "none"]
      /\ wire' = [wire EXCEPT ![k] = "eof"] \/ wire' = [wire EXCEPT ![k] = "gone"]
      /\ faults < MaxFaults /\ faults' = faults + 1
  BY DEF Lost
<1>5. /\ tx'[k] = <<>> /\ tx' \in [Collectors -> Seq(Commands)]
      /\ \A j \in Collectors \ {k} : tx'[j] = tx[j]
  <2>1. <<>> \in Seq(Commands)
    OBVIOUS
  <2> QED
    BY <1>0, <1>4, <2>1 DEF Inv, TypeOK
<1>6. Inv'
  <2>1. Timers' /\ UNCHANGED <<state, nbtest, is_collecting, work>>
    BY <1>0, <1>4 DEF Inv, TypeOK, Timers, link
  <2> QED
    BY <1>0, <1>5, <2>1, FrameStep
<1>7. Store' /\ server'[k] = "none" /\ wire'[k] # "up"
      /\ \A j \in Collectors \ {k} : server'[j] = server[j] /\ wire'[j] = wire[j]
  BY <1>0, <1>2, <1>4 DEF Store
<1>8. UNCHANGED <<state, nbtest, cs, waiting_pcs, wait_string>>
  BY <1>4 DEF link, work, waiting
<1>9. Connection(k)'
  BY <1>2, <1>3, <1>5, <1>7, <1>8, DownConnection
<1>10. Others(k)
  BY <1>5, <1>8 DEF Others
<1>11. \A j \in Collectors \ {k} : Connection(j)'
  BY <1>2, <1>3, <1>7, <1>10, OtherConnections
<1> QED
  BY <1>2, <1>3, <1>6, <1>7, <1>9, <1>11, Together

LEMMA VanishesStep ==
    ASSUME SysInv, NEW k \in Collectors, Vanishes(k)
    PROVE  SysInv'
<1>0. /\ Inv /\ SystemTypeOK /\ Store /\ Memory /\ rx \in [Collectors -> Seq(Lines)]
  BY Apart DEF SystemTypeOK
<1>1. PeerReads(k) /\ wire[k] # "up" /\ UNCHANGED <<probe, network, up, faults>>
  BY DEF Vanishes
<1>2. Inv' /\ Others(k)
  BY <1>0, <1>1, CollectStep, PeerOthers
<1>3. /\ UNCHANGED <<records, cycles, late, server, wire, rx, subscribers>>
      /\ Store' /\ Memory' /\ rx' \in [Collectors -> Seq(Lines)]
  BY <1>0, <1>1 DEF probe, network, Store, Memory, CyclesOwned
<1>4. server[k] = "none" /\ \A s \in Sets : k \notin subscribers[s]
  BY <1>1 DEF SysInv, Connection, Joined
<1>5. tx[k] # <<>> /\ tx'[k] = Tail(tx[k])
  BY <1>0, <1>1 DEF PeerReads, Inv, TypeOK
<1>6. UNCHANGED <<state, nbtest, cs, waiting_pcs, wait_string>>
  BY <1>1 DEF PeerReads, link, work, waiting
<1>7. Connection(k)'
  BY <1>1, <1>3, <1>4, <1>5, <1>6, DownConnection
<1>8. \A j \in Collectors \ {k} : Connection(j)'
  BY <1>2, <1>3, OtherConnections
<1> QED
  BY <1>2, <1>3, <1>7, <1>8, Together

\* The probe's first prompt, and its answers, to the connection they go to.
LEMMA FirstPromptStep ==
    ASSUME SysInv, NEW k \in Collectors, ProbeFirstPrompt(k)
    PROVE  SysInv'
<1> DEFINE hello == <<"other", "other", "qigong[">>
<1>0. /\ Inv /\ SystemTypeOK /\ Store /\ Memory /\ rx \in [Collectors -> Seq(Lines)]
  BY Apart DEF SystemTypeOK
<1>1. /\ server' = [server EXCEPT ![k] = "open"] /\ prompt' = TRUE
      /\ rx' = [rx EXCEPT ![k] = @ \o hello]
      /\ UNCHANGED <<collectVars, wire, stale, late, records, subscribers, cycles, due, up, faults>>
  BY DEF ProbeFirstPrompt
<1>2. hello \in Seq(Lines)
  <2>1. "other" \in Lines /\ "qigong[" \in Lines
    BY LineFacts
  <2> QED
    BY <2>1
<1> HIDE DEF hello
<1>3. /\ rx' \in [Collectors -> Seq(Lines)]
      /\ \A j \in Collectors \ {k} : rx'[j] = rx[j] /\ server'[j] = server[j]
  BY <1>0, <1>1, <1>2
<1>4. Inv'
  BY <1>0, <1>1, NextStep
<1>5. Store' /\ Memory'
  BY <1>0, <1>1 DEF Store, Memory, CyclesOwned
<1>6. Connection(k)'
  BY GreetConnection
<1>7. Others(k)
  BY <1>1 DEF Others, collectVars, link, work, waiting
<1>8. \A j \in Collectors \ {k} : Connection(j)'
  BY <1>1, <1>3, <1>7, OtherConnections
<1> QED
  BY <1>3, <1>4, <1>5, <1>6, <1>8, Together

LEMMA ReadsStep ==
    ASSUME SysInv, NEW k \in Collectors, ProbeReads(k)
    PROVE  SysInv'
<1>0. /\ Inv /\ SystemTypeOK /\ Store /\ Memory
  BY Apart
<1>1. PICK m \in Commands :
        /\ Obey({k}, m) /\ Measures(m) \in SUBSET Sets
        /\ late' = IF m.cmd = "delete" THEN late \ {m.set} ELSE late
        /\ m \in Orders => state[k] = "waiting" /\ m = Question(k)
        /\ m = Head(tx[k])
  BY AnswerFacts
<1>2. /\ PeerReads(k) /\ UNCHANGED <<server, wire, stale, up, faults>>
      /\ rx' = [Deliver(Measures(m)) EXCEPT ![k] = @ \o WithPrompt(Reply(m))]
  BY <1>1 DEF ProbeReads
<1>3. Inv' /\ Others(k)
  BY <1>0, <1>2, CollectStep, PeerOthers
<1>4. {k} \in SUBSET Collectors
  OBVIOUS
<1>5. /\ Memory'
      /\ \A s \in Sets \ {m.set} : /\ s \in records' <=> s \in records
                                   /\ cycles'[s] = cycles[s]
                                   /\ subscribers'[s] = subscribers[s]
      /\ \A j \in Collectors \ {k}, s \in Sets : j \in subscribers'[s] => j \in subscribers[s]
      /\ m \notin Orders => UNCHANGED <<records, subscribers, cycles>>
  BY <1>1, <1>4, ObeyFacts
<1>6. /\ rx' \in [Collectors -> Seq(Lines)]
      /\ \A j \in Collectors \ {k} : LineMore(j)
  <2> DEFINE sent == Deliver(Measures(m))
             reply == WithPrompt(Reply(m))
  <2>1. /\ sent \in [Collectors -> Seq(Lines)]
        /\ \A j \in Collectors : \/ sent[j] = rx[j]
                                 \/ state[j] \in {"ready", "waiting"} /\ sent[j] = Append(rx[j], "-->")
    BY <1>1, DeliverFacts
  <2>2. reply \in Seq(Lines)
    <3>1. prompt' \in BOOLEAN
      BY <1>5 DEF Memory
    <3> QED
      BY <1>1, <3>1, ReplyFacts
  <2>3. rx' = [sent EXCEPT ![k] = @ \o reply]
    BY <1>2
  <2> HIDE DEF sent, reply
  <2>4. rx' \in [Collectors -> Seq(Lines)] /\ \A j \in Collectors \ {k} : rx'[j] = sent[j]
    BY <2>1, <2>2, <2>3
  <2> QED
    BY <2>1, <2>4 DEF LineMore
<1>7. m \in Orders => m.set \in Mpcs[k]
  BY <1>0, <1>1 DEF Question, Inv, AwaitsItsAnswer, Unfinished
<1>8. m.cmd = "delete" => m \in Orders
  BY <1>1, OrderFacts
<1>9. Store'
  BY <1>0, <1>1, <1>2 DEF Store
<1>10. Connection(k)'
  BY AnswerPlain, AnswerOrder
<1>11. ASSUME NEW j \in Collectors \ {k} PROVE Connection(j)'
  <2>1. Connection(j) /\ j \in Collectors /\ Mpcs[j] \subseteq Sets
    BY DEF SysInv
  <2>2. Untouched(j)
    BY <1>2, <1>3 DEF Others, Untouched
  <2>3. SetsKept(j)
    <3>1. m \in Orders => \A s \in Mpcs[j] : s # m.set
      BY <1>7, SetsApart
    <3>2. \A s \in Mpcs[j] \ late' : s \notin late
      BY <1>1, <1>8, <3>1
    <3>3. \A s \in Mpcs[j] : /\ s \in records' <=> s \in records
                             /\ cycles'[s] = cycles[s] /\ subscribers'[s] = subscribers[s]
      BY <1>5, <2>1, <3>1
    <3> QED
      BY <1>5, <2>1, <3>2, <3>3 DEF SetsKept
  <2> QED
    BY <1>0, <1>6, <2>1, <2>2, <2>3, Elsewhere
<1> QED
  BY <1>3, <1>5, <1>6, <1>9, <1>10, <1>11, Together

\* A command of a lost connection may disturb its set: nothing is claimed of
\* that set until a present connection deletes it.
LEMMA ReadsStaleStep ==
    ASSUME SysInv, ProbeReadsStale
    PROVE  SysInv'
<1>0. /\ Inv /\ SystemTypeOK /\ Store /\ Memory
  BY Apart
<1> DEFINE m == Head(stale)
<1>1. /\ stale # <<>> /\ stale' = Tail(stale) /\ late' = late \cup ({m.set} \ {NoSet})
      /\ Obey({}, m) /\ rx' = Deliver(Measures(m))
      /\ UNCHANGED <<collectVars, server, wire, up, faults>>
  BY DEF ProbeReadsStale
<1>2. m \in Commands /\ stale' \in Seq(Commands)
  <2>1. stale \in Seq(Commands)
    BY <1>0 DEF Store
  <2> QED
    BY <1>1, <2>1
<1> HIDE DEF m
<1>3. /\ m.set \in Sets \cup {NoSet} /\ Measures(m) \in SUBSET Sets
      /\ m \notin Orders => m.set = NoSet
  BY <1>2, OrderFacts DEF Measures, Orders, Commands
<1>4. {} \in SUBSET Collectors
  OBVIOUS
<1>5. /\ Memory'
      /\ \A s \in Sets \ {m.set} : /\ s \in records' <=> s \in records
                                   /\ cycles'[s] = cycles[s]
                                   /\ subscribers'[s] = subscribers[s]
      /\ \A j \in Collectors, s \in Sets : j \in subscribers'[s] => j \in subscribers[s]
  BY <1>1, <1>2, <1>4, ObeyFacts
<1>6. rx' \in [Collectors -> Seq(Lines)] /\ \A j \in Collectors : LineMore(j)
  BY <1>1, <1>3, DeliverFacts DEF LineMore
<1>7. Inv'
  BY <1>0, <1>1, NextStep
<1>8. Store'
  BY <1>0, <1>1, <1>2, <1>3 DEF Store
<1>9. ASSUME NEW j \in Collectors PROVE Connection(j)'
  <2>1. Connection(j) /\ Mpcs[j] \subseteq Sets
    BY DEF SysInv
  <2>2. Untouched(j)
    BY <1>1 DEF Untouched, collectVars, link, work, waiting
  <2>3. SetsKept(j)
    BY <1>1, <1>3, <1>5, <2>1 DEF SetsKept
  <2> QED
    BY <1>0, <1>6, <2>1, <2>2, <2>3, Elsewhere
<1> QED
  BY <1>5, <1>6, <1>7, <1>8, <1>9, Together

\* Nothing happens to any connection.
LEMMA Idle ==
    ASSUME SysInv, UNCHANGED <<records, subscribers, cycles, late, server, wire>>,
           UNCHANGED <<state, nbtest, cs, waiting_pcs, wait_string, tx>>,
           \A j \in Collectors : LineMore(j)
    PROVE  \A j \in Collectors : Connection(j)'
<1> SUFFICES ASSUME NEW j \in Collectors PROVE Connection(j)'
  OBVIOUS
<1>1. SystemTypeOK /\ Connection(j) /\ LineMore(j)
  BY DEF SysInv
<1>2. Untouched(j)
  BY DEF Untouched
<1>3. SetsKept(j)
  BY DEF SetsKept
<1> QED
  BY <1>1, <1>2, <1>3, Elsewhere

LEMMA QuietStep ==
    ASSUME SysInv,
           \/ SystemTick \/ Start \/ OtherClient
           \/ (\E s \in Sets : Measure(s))
           \/ (\E k \in Collectors : Waits(k))
           \/ UNCHANGED sysVars
    PROVE  SysInv'
<1>0. /\ Inv /\ SystemTypeOK /\ Store /\ Memory /\ rx \in [Collectors -> Seq(Lines)]
  BY Apart DEF SystemTypeOK
<1> USE DEF collectVars, link, work, waiting, probe, network, Store, Memory, CyclesOwned, LineMore
<1>1. CASE SystemTick
  <2>1. Inv'
    BY <1>0, <1>1, NextStep DEF SystemTick, Next
  <2>2. Store' /\ Memory' /\ rx' \in [Collectors -> Seq(Lines)]
    BY <1>0, <1>1 DEF SystemTick
  <2>3. \A j \in Collectors : Connection(j)'
    BY <1>1, Idle DEF SystemTick, Tick
  <2> QED
    BY <2>1, <2>2, <2>3, Together
<1>2. CASE Start
  <2>1. Inv'
    BY <1>0, <1>2, NextStep DEF Start
  <2>2. Store' /\ Memory' /\ rx' \in [Collectors -> Seq(Lines)]
    BY <1>0, <1>2 DEF Start
  <2>3. \A j \in Collectors : Connection(j)'
    BY <1>2, Idle DEF Start
  <2> QED
    BY <2>1, <2>2, <2>3, Together
<1>3. CASE OtherClient
  <2>1. Inv'
    BY <1>0, <1>3, NextStep DEF OtherClient
  <2>2. Store' /\ Memory' /\ rx' \in [Collectors -> Seq(Lines)]
    BY <1>0, <1>3 DEF OtherClient
  <2>3. \A j \in Collectors : Connection(j)'
    BY <1>3, Idle DEF OtherClient
  <2> QED
    BY <2>1, <2>2, <2>3, Together
<1>4. ASSUME NEW s \in Sets, Measure(s) PROVE SysInv'
  <2>1. Inv'
    BY <1>0, <1>4, NextStep DEF Measure
  <2>2. Store' /\ Memory'
    BY <1>0, <1>4 DEF Measure
  <2>3. {s} \in SUBSET Sets /\ rx' = Deliver({s})
    BY <1>4 DEF Measure
  <2>4. rx' \in [Collectors -> Seq(Lines)] /\ \A j \in Collectors : LineMore(j)
    BY <2>3, DeliverFacts
  <2>5. \A j \in Collectors : Connection(j)'
    BY <1>4, <2>4, Idle DEF Measure
  <2> QED
    BY <2>1, <2>2, <2>4, <2>5, Together
<1>5. ASSUME NEW k \in Collectors, Waits(k) PROVE SysInv'
  <2>1. Inv'
    BY <1>0, <1>5, CollectStep DEF Waits
  <2>2. Store' /\ Memory' /\ rx' \in [Collectors -> Seq(Lines)]
    BY <1>0, <1>5 DEF Waits
  <2>3. \A j \in Collectors : Connection(j)'
    BY <1>5, Idle DEF Waits, DelayOver
  <2> QED
    BY <2>1, <2>2, <2>3, Together
<1>6. CASE UNCHANGED sysVars
  <2>1. Inv'
    BY <1>0, <1>6, NextStep DEF sysVars
  <2>2. Store' /\ Memory' /\ rx' \in [Collectors -> Seq(Lines)]
    BY <1>0, <1>6 DEF sysVars
  <2>3. \A j \in Collectors : Connection(j)'
    BY <1>6, Idle DEF sysVars
  <2> QED
    BY <2>1, <2>2, <2>3, Together
<1> QED
  BY <1>1, <1>2, <1>3, <1>4, <1>5, <1>6

\* The probe stops: every connection goes down at once.
LEMMA CrashStep ==
    ASSUME SysInv, Crash
    PROVE  SysInv'
<1>0. /\ Inv /\ SystemTypeOK /\ Store /\ Memory
  BY Apart
<1> DEFINE K == {k \in Collectors : wire[k] = "up"}
<1>1. /\ faults < MaxFaults /\ faults' = faults + 1 /\ up' = FALSE
      /\ server' = [k \in Collectors |-> "none"]
      /\ wire' = [k \in Collectors |-> IF wire[k] = "up" THEN "eof" ELSE wire[k]]
      /\ stale' = <<>> /\ late' = {}
      /\ LosesLines(K)
      /\ tx' = [k \in Collectors |-> IF wire[k] = "up" THEN <<>> ELSE tx[k]]
      /\ UNCHANGED <<link, work, silence>>
  BY DEF Crash
<1>2. Memory' /\ \A s \in Sets : subscribers'[s] = {}
  BY <1>0 DEF Crash, Memory, CyclesOwned
<1>3. <<>> \in Seq(Commands)
  OBVIOUS
<1>4. Store'
  <2>1. server' \in [Collectors -> {"none", "handshake", "open"}]
    BY <1>1
  <2>2. wire' \in [Collectors -> {"up", "eof", "gone"}]
    BY <1>0, <1>1 DEF Store
  <2>3. faults' \in 0..MaxFaults
    BY <1>0, <1>1 DEF Store
  <2>4. up' \in BOOLEAN /\ stale' \in Seq(Commands) /\ late' \subseteq Sets
    BY <1>1, <1>3
  <2> QED
    BY <2>1, <2>2, <2>3, <2>4 DEF Store
<1>5. tx' \in [Collectors -> Seq(Commands)]
  BY <1>0, <1>1, <1>3 DEF Inv, TypeOK
<1>6. Inv'
  <2>1. Timers' /\ UNCHANGED <<state, nbtest, is_collecting, work>>
    BY <1>0, <1>1 DEF Inv, TypeOK, Timers, link
  <2> QED
    BY <1>0, <1>5, <2>1, FrameStep
<1>7. K \in SUBSET Collectors
  OBVIOUS
<1>8. /\ rx' \in [Collectors -> Seq(Lines)]
      /\ \A k \in Collectors \ K : rx'[k] = rx[k]
      /\ \A k \in K : \E n \in 0..Len(rx[k]) : rx'[k] = SubSeq(rx[k], 1, n)
  BY <1>1, <1>7, LosesFacts
<1>9. ASSUME NEW k \in Collectors PROVE Connection(k)'
  <2>1. /\ server'[k] = "none" /\ wire'[k] # "up" /\ \A s \in Sets : k \notin subscribers'[s]
        /\ tx'[k] = <<>> \/ tx'[k] = tx[k]
    BY <1>1, <1>2
  <2>2. \/ rx'[k] = rx[k]
        \/ \E n \in 0..Len(rx[k]) : rx'[k] = SubSeq(rx[k], 1, n)
    BY <1>8
  <2>3. UNCHANGED <<state, nbtest, cs, waiting_pcs, wait_string>>
    BY <1>1 DEF link, work, waiting
  <2> QED
    BY <2>1, <2>2, <2>3, DownConnection
<1> QED
  BY <1>2, <1>4, <1>6, <1>8, <1>9, Together

----------------------------------------------------------------------------

LEMMA SysInit == SystemInit => SysInv
<1> SUFFICES ASSUME SystemInit PROVE SysInv
  OBVIOUS
<1>1. Inv
  BY InitInv DEF SystemInit
<1>2. <<>> \in Seq(Commands) /\ <<>> \in Seq(Lines)
  OBVIOUS
<1>3. SystemTypeOK /\ CyclesOwned
  BY <1>1, <1>2 DEF SystemInit, SystemTypeOK, CyclesOwned, Inv
<1>4. ASSUME NEW k \in Collectors PROVE Connection(k)
  <2>1. /\ state[k] = "needtoconnect" /\ nbtest[k] = 0 /\ tx[k] = <<>> /\ rx[k] = <<>>
        /\ server[k] = "none" /\ wire[k] = "eof" /\ \A s \in Sets : subscribers[s] = {}
    BY DEF SystemInit, Init
  <2>2. OneAtATime(k)
    BY <2>1 DEF OneAtATime, Holds, Only
  <2> QED
    BY <2>1, <2>2 DEF Connection, Greeted, InStep, Working, Fresh, Beginning, Joined, OneRetry
<1> QED
  BY <1>1, <1>3, <1>4 DEF SysInv

LEMMA SysStep == SysInv /\ [SystemNext]_sysVars => SysInv'
<1> SUFFICES ASSUME SysInv, [SystemNext]_sysVars PROVE SysInv'
  OBVIOUS
<1>1. ASSUME NEW k \in Collectors, Exchange(k) PROVE SysInv'
  BY <1>1, PollsStep, HearsStep, QuietStep, ReadsStep, FirstPromptStep, VanishesStep DEF Exchange
<1>2. ASSUME NEW k \in Collectors, Lost(k) PROVE SysInv'
  BY <1>2, LostStep
<1>3. CASE Crash
  BY <1>3, CrashStep
<1>4. CASE ProbeReadsStale
  BY <1>4, ReadsStaleStep
<1>5. CASE \/ SystemTick \/ Start \/ OtherClient
           \/ (\E s \in Sets : Measure(s))
           \/ UNCHANGED sysVars
  BY <1>5, QuietStep
<1> QED
  BY <1>1, <1>2, <1>3, <1>4, <1>5 DEF SystemNext

\* What the argument at the head of this module comes to: it holds whatever is
\* lost and whenever the probe stops.
THEOREM SysInvCorrect == SystemSpec => []SysInv
BY SysInit, SysStep, PTL DEF SystemSpec

\* Every reachable state of the whole system is well typed: among others, a
\* set that is due is one the probe has, and the silence, the wake-ups and the
\* lines counted in "verify" keep their limits whatever the probe does.
THEOREM SystemTypeCorrect == SystemSpec => []SystemTypeOK
<1>1. SysInv => SystemTypeOK
  BY DEF SysInv
<1> QED
  BY <1>1, SysInvCorrect, PTL

\* The answer to the first "qiging ?" is read before a second line is counted
\* in "verify" (lineread, qicollect.cpp), however the prompts of the probe
\* change in between.
THEOREM OneRetryCorrect == SystemSpec => []OneRetryEnough
<1>1. SysInv => OneRetryEnough
  BY DEF SysInv, Connection, OneRetry, OneRetryEnough
<1> QED
  BY <1>1, SysInvCorrect, PTL

\* A set the collector takes for collected is subscribed to by its present
\* connection and measured by exactly one cycle of the probe, and one it has
\* not created yet is not there, unless a command of a lost connection came
\* after its last delete.
THEOREM EndsAgreeCorrect == SystemSpec => []EndsAgree
<1>1. SysInv => EndsAgree
  <2> SUFFICES ASSUME SysInv, NEW k \in Collectors, Working(k), NEW s \in Mpcs[k] \ late
               PROVE  /\ cs[k][s] = "collect" => /\ s \in records
                                                 /\ k \in subscribers[s]
                                                 /\ cycles[s] = 1
                      /\ cs[k][s] = "create_remote" /\ waiting_pcs[k] # s => s \notin records
    BY DEF EndsAgree
  <2>1. Refusal(k, s) \/ AtProbe(k, s, Reached(k, s))
    BY DEF SysInv, Connection, InStep
  <2>2. CASE AsksFor(k, s)
    <3>1. cs[k][s] # "collect" /\ waiting_pcs[k] = s
      BY <2>2 DEF AsksFor, SysInv, Inv, AwaitsItsAnswer, Unfinished
    <3> QED
      BY <3>1
  <2>3. CASE ~AsksFor(k, s)
    <3>1. AtProbe(k, s, Phase[cs[k][s]])
      BY <2>1, <2>3 DEF Refusal, Reached
    <3> QED
      BY <3>1, PhaseTable DEF AtProbe
  <2> QED
    BY <2>2, <2>3
<1> QED
  BY <1>1, SysInvCorrect, PTL

----------------------------------------------------------------------------
(* The collector's side of the system.                                     *)

\* Joined to a probe, a collector takes no step that module Collect does not
\* know; a loss or a stop of the probe touches nothing but what it had written.
LEMMA CollectorSide ==
    ASSUME SystemTypeOK, [SystemNext]_sysVars
    PROVE  [Next]_collectVars \/ UNCHANGED <<link, work, silence>>
<1>1. ASSUME NEW k \in Collectors, Exchange(k)
      PROVE  [Next]_collectVars
  <2>1. CASE CollectorPolls(k)
    BY <2>1 DEF CollectorPolls, Next, Poll
  <2>2. CASE CollectorReads(k)
    <3>1. Head(rx[k]) \in Lines
      BY <2>2 DEF CollectorReads, SystemTypeOK
    <3> QED
      BY <2>2, <3>1 DEF CollectorReads, Next
  <2>3. CASE CollectorFirstPrompt(k) \/ CollectorSeesEnd(k) \/ Waits(k)
    BY <2>3 DEF CollectorFirstPrompt, CollectorSeesEnd, Waits, Next
  <2>4. CASE ProbeReads(k) \/ Vanishes(k)
    BY <2>4 DEF ProbeReads, Vanishes, Next
  <2>5. CASE ProbeFirstPrompt(k)
    BY <2>5 DEF ProbeFirstPrompt
  <2> QED
    BY <1>1, <2>1, <2>2, <2>3, <2>4, <2>5 DEF Exchange
<1>2. CASE SystemTick
  BY <1>2 DEF SystemTick, Next
<1>3. CASE Crash \/ \E k \in Collectors : Lost(k)
  BY <1>3 DEF Crash, Lost
<1>4. CASE \/ Start \/ ProbeReadsStale \/ OtherClient \/ UNCHANGED sysVars
           \/ \E s \in Sets : Measure(s)
  BY <1>4 DEF Start, ProbeReadsStale, OtherClient, Measure, sysVars
<1> QED
  BY <1>1, <1>2, <1>3, <1>4 DEF SystemNext

\* The promise of CollectionCycle outlives the composition: joined to a probe
\* that loses lines, vanishes or stops between any two steps, each connection
\* still takes its sets through delete, create, activate and subscribe one
\* answered step at a time, in order, and a loss alone moves none of them.
THEOREM SystemCycleCorrect == SystemSpec => ImplementsCycle
<1>1. SystemInit => Setup!Init
  BY PhaseTable DEF SystemInit, Init, Setup!Init, Linked, PhaseOf, Asked
<1>2. SysInv /\ [SystemNext]_sysVars => [Setup!Next]_(Setup!vars)
  <2> SUFFICES ASSUME SysInv, [SystemNext]_sysVars PROVE [Setup!Next]_(Setup!vars)
    OBVIOUS
  <2>1. CASE [Next]_collectVars
    BY <2>1, SetupNext DEF SysInv
  <2>2. CASE UNCHANGED <<link, work, silence>>
    BY <2>2, SetupStutter DEF link, work, waiting
  <2>3. SystemTypeOK
    BY DEF SysInv
  <2> QED
    BY <2>1, <2>2, <2>3, CollectorSide
<1> QED
  BY <1>1, <1>2, SysInvCorrect, PTL DEF SystemSpec, ImplementsCycle, Setup!Spec
----------------------------------------------------------------------------
(* The probe's books.                                                      *)

\* Nobody is subscribed to a set the probe does not have, and a probe that is
\* stopped has no set, no connection and nothing left to read.
Owned == \A s \in Sets : subscribers[s] # {} => s \in records
Down  == ~up => /\ records = {} /\ stale = <<>>
                /\ \A k \in Collectors : server[k] = "none"
BooksInv == SysInv /\ Owned /\ Down

LEMMA BooksStutter ==
    ASSUME UNCHANGED <<up, server, records, subscribers, cycles>>
    PROVE  UNCHANGED Books!books /\ (Owned => Owned')
BY DEF Books!books, Present, Owned

\* A command is one entry in the books, or none: about a set that does not
\* exist, refused, or late.
LEMMA ObeyBooks ==
    ASSUME BooksInv, up, NEW K, K = {} \/ (\E k \in Present : K = {k}),
           NEW m \in Commands, Obey(K, m), UNCHANGED <<up, server>>
    PROVE  [Books!BooksNext]_(Books!books) /\ Owned'
<1> DEFINE s == m.set
<1>0. /\ subscribers \in [Sets -> SUBSET Collectors] /\ cycles \in [Sets -> Nat]
      /\ records \subseteq Sets /\ Owned /\ CyclesOwned /\ Present' = Present /\ up' = up
  BY DEF BooksInv, SysInv, SystemTypeOK, Present
<1>1. CASE m \notin Orders
  <2>1. m.cmd \in {"qiging", "qiging1", "eos"}
    BY <1>1, OrderFacts
  <2> QED
    BY <2>1, BooksStutter, <1>0 DEF Obey, probe
<1>2. CASE m \in Orders
  <2>0. s \in Sets /\ m.cmd \in {"delete", "create", "activate", "sub"}
    BY <1>2, OrderFacts
  <2>1. CASE m.cmd = "delete"
    <3>1. /\ records' = records \ {s}
          /\ subscribers' = [subscribers EXCEPT ![s] = {}]
          /\ cycles' = [cycles EXCEPT ![s] = 0]
      BY <2>1 DEF Obey
    <3>2. Owned'
      BY <1>0, <2>0, <3>1 DEF Owned
    <3>3. CASE s \in records
      <4>1. /\ subscribers' = [n \in Sets |-> IF n \in {s} THEN {} ELSE subscribers[n]]
            /\ cycles' = [n \in Sets |-> IF n \in {s} THEN 0 ELSE cycles[n]]
        BY <1>0, <2>0, <3>1
      <4>2. Books!Delete({s})
        BY <1>0, <3>1, <3>3, <4>1 DEF Books!Delete
      <4> QED
        BY <2>0, <3>2, <4>2 DEF Books!BooksNext
    <3>4. CASE s \notin records
      <4>1. subscribers[s] = {} /\ cycles[s] = 0
        BY <1>0, <2>0, <3>4 DEF Owned, CyclesOwned
      <4>2. UNCHANGED <<records, subscribers, cycles>>
        BY <1>0, <2>0, <3>1, <3>4, <4>1
      <4> QED
        BY <1>0, <4>2, BooksStutter
    <3> QED
      BY <3>3, <3>4
  <2>2. CASE m.cmd = "create"
    <3>1. /\ records' = records \cup ({s} \ Refused)
          /\ UNCHANGED <<subscribers, cycles>>
      BY <2>2 DEF Obey
    <3>2. CASE s \notin records \cup Refused
      <4>1. Books!Create(s)
        BY <1>0, <3>1, <3>2 DEF Books!Create
      <4> QED
        BY <1>0, <2>0, <3>1, <4>1 DEF Books!BooksNext, Owned
    <3>3. CASE s \in records \cup Refused
      BY <1>0, <3>1, <3>3, BooksStutter
    <3> QED
      BY <3>2, <3>3
  <2>3. CASE m.cmd = "activate"
    <3>1. /\ cycles' = [cycles EXCEPT ![s] = IF s \in records THEN @ + 1 ELSE @]
          /\ UNCHANGED <<records, subscribers>>
      BY <2>3 DEF Obey
    <3>2. Owned'
      BY <1>0, <3>1 DEF Owned
    <3>3. CASE s \in records
      <4>1. cycles' = [n \in Sets |-> IF n \in {s} THEN cycles[n] + 1 ELSE cycles[n]]
        BY <1>0, <2>0, <3>1, <3>3
      <4>2. Books!Activate({s})
        BY <1>0, <3>1, <3>3, <4>1 DEF Books!Activate
      <4> QED
        BY <2>0, <3>2, <4>2 DEF Books!BooksNext
    <3>4. CASE s \notin records
      BY <1>0, <2>0, <3>1, <3>4, BooksStutter
    <3> QED
      BY <3>3, <3>4
  <2>4. CASE m.cmd = "sub"
    <3>1. /\ subscribers' = [subscribers EXCEPT ![s] = IF s \in records THEN @ \cup K ELSE @]
          /\ UNCHANGED <<records, cycles>>
      BY <2>4 DEF Obey
    <3>2. CASE s \in records /\ K # {}
      <4>1. PICK k \in Present : K = {k}
        BY <3>2
      <4>2. subscribers' = [n \in Sets |->
                              IF n \in {s} THEN subscribers[n] \cup {k} ELSE subscribers[n]]
        BY <1>0, <2>0, <3>1, <3>2, <4>1
      <4>3. Books!Subscribe(k, {s})
        BY <1>0, <3>1, <3>2, <4>1, <4>2 DEF Books!Subscribe
      <4>4. Owned'
        BY <1>0, <3>1, <3>2, <4>2 DEF Owned
      <4>5. k \in Collectors /\ {s} \in SUBSET Sets
        BY <2>0, <4>1 DEF Present
      <4>6. Books!BooksNext
        BY <4>3, <4>5, Zenon DEF Books!BooksNext
      <4> QED
        BY <4>4, <4>6
    <3>3. CASE s \notin records \/ K = {}
      <4>1. (IF s \in records THEN subscribers[s] \cup K ELSE subscribers[s]) = subscribers[s]
        BY <3>3
      <4>2. subscribers' = [subscribers EXCEPT ![s] = subscribers[s]]
        BY <3>1, <4>1
      <4>3. subscribers' = subscribers
        BY <1>0, <2>0, <4>2
      <4> QED
        BY <1>0, <3>1, <4>3, BooksStutter
    <3> QED
      BY <3>2, <3>3
  <2> QED
    BY <2>0, <2>1, <2>2, <2>3, <2>4
<1> QED
  BY <1>1, <1>2

\* The end of a connection strikes its subscriptions out.
LEMMA EndsBooks ==
    ASSUME BooksInv, NEW k \in Collectors, Ends(k), up' = up,
           NEW v \in {"none", "handshake"}, v = "none" \/ up,
           server' = [server EXCEPT ![k] = v]
    PROVE  [Books!BooksNext]_(Books!books) /\ Owned' /\ Down'
<1>0. /\ subscribers \in [Sets -> SUBSET Collectors] /\ cycles \in [Sets -> Nat]
      /\ server \in [Collectors -> {"none", "handshake", "open"}]
      /\ tx[k] \in Seq(Commands) /\ stale \in Seq(Commands) /\ Owned /\ Down
  BY DEF BooksInv, SysInv, SystemTypeOK, TypeOK
<1>1. /\ subscribers' = [s \in Sets |-> subscribers[s] \ {k}]
      /\ UNCHANGED <<records, cycles>>
  BY DEF Ends
<1>2. Owned'
  BY <1>0, <1>1 DEF Owned
<1>3. Present' = Present \ {k}
  BY <1>0 DEF Present
<1>4. CASE up
  <2>1. Books!Leave(k)
    BY <1>1, <1>3, <1>4 DEF Books!Leave
  <2> QED
    BY <1>2, <1>4, <2>1 DEF Books!BooksNext, Down
<1>5. CASE ~up
  <2>1. records = {} /\ stale = <<>> /\ server = [j \in Collectors |-> "none"]
    BY <1>0, <1>5 DEF Down
  <2>2. subscribers' = subscribers
    BY <1>0, <1>1, <2>1 DEF Owned
  <2>3. server' = server
    BY <1>5, <2>1
  <2>4. stale' = <<>>
    <3>1. PICK n \in 0..Len(tx[k]) : /\ n > 0 => server[k] = "open"
                                     /\ stale' = stale \o SubSeq(tx[k], 1, n)
      BY DEF Ends
    <3>2. n = 0
      BY <1>0, <2>1, <3>1
    <3>3. SubSeq(tx[k], 1, 0) = <<>>
      OBVIOUS
    <3> QED
      BY <2>1, <3>1, <3>2, <3>3
  <2> QED
    BY <1>1, <1>2, <2>1, <2>2, <2>3, <2>4, BooksStutter DEF Down
<1> QED
  BY <1>4, <1>5

LEMMA ExchangeBooks ==
    ASSUME BooksInv, NEW k \in Collectors, Exchange(k)
    PROVE  [Books!BooksNext]_(Books!books) /\ Owned' /\ Down'
<1>0. /\ server \in [Collectors -> {"none", "handshake", "open"}] /\ Owned /\ Down
      /\ SystemTypeOK /\ \A s \in Sets : k \in subscribers[s] => server[k] = "open"
  BY DEF BooksInv, SysInv, SystemTypeOK, Connection, Joined
<1>1. CASE CollectorPolls(k)
  <2>1. CASE (PollServe(k) \/ PollWake(k)) /\ UNCHANGED <<probe, network, up, faults>>
    BY <1>0, <2>1, BooksStutter DEF probe, network, Down
  <2>2. CASE PollConnect(k) /\ Connects(k) /\ UNCHANGED <<probe, rx, stale, late, up, faults>>
    <3>1. PICK v \in {"none", "handshake"} : (v = "none" \/ up) /\ server' = [server EXCEPT ![k] = v]
      BY <2>2 DEF Connects
    <3>2. server[k] # "open"
      BY <2>2 DEF PollConnect, BooksInv, SysInv, Connection, Joined
    <3>3. Present' = Present
      BY <1>0, <3>1, <3>2 DEF Present
    <3>4. Down'
      BY <1>0, <2>2, <3>1 DEF Down, probe
    <3> QED
      BY <1>0, <2>2, <3>3, <3>4 DEF Books!books, Owned, probe
  <2>3. CASE PollGiveUp(k) /\ Connects(k) /\ Ends(k) /\ UNCHANGED up
    <3>1. PICK v \in {"none", "handshake"} : (v = "none" \/ up) /\ server' = [server EXCEPT ![k] = v]
      BY <2>3 DEF Connects
    <3> QED
      BY <2>3, <3>1, EndsBooks
  <2> QED
    BY <1>1, <2>1, <2>2, <2>3 DEF CollectorPolls
<1>2. CASE CollectorFirstPrompt(k) \/ CollectorReads(k) \/ CollectorSeesEnd(k) \/ Waits(k) \/ Vanishes(k)
  <2>1. UNCHANGED <<up, server, stale, records, subscribers, cycles>>
    BY <1>2 DEF CollectorFirstPrompt, CollectorReads, CollectorSeesEnd, Waits, Vanishes,
                probe, network
  <2> QED
    BY <1>0, <2>1, BooksStutter DEF Down
<1>3. CASE ProbeReads(k)
  <2> DEFINE m == Head(tx[k])
  <2>1. /\ server[k] = "open" /\ Obey({k}, m) /\ UNCHANGED <<up, server, stale>>
        /\ tx[k] # <<>>
    BY <1>3 DEF ProbeReads, PeerReads
  <2>2. up /\ k \in Present
    BY <1>0, <2>1 DEF Down, Present
  <2>3. m \in Commands
    <3>1. tx[k] \in Seq(Commands)
      BY <1>0 DEF SystemTypeOK, TypeOK
    <3> QED
      BY <2>1, <3>1
  <2> HIDE DEF m
  <2>4. [Books!BooksNext]_(Books!books) /\ Owned'
    BY <2>1, <2>2, <2>3, ObeyBooks
  <2> QED
    BY <2>1, <2>2, <2>4 DEF Down
<1>4. CASE ProbeFirstPrompt(k)
  <2>1. /\ server[k] = "handshake" /\ server' = [server EXCEPT ![k] = "open"]
        /\ UNCHANGED <<up, records, subscribers, cycles>>
    BY <1>4 DEF ProbeFirstPrompt
  <2>2. up
    BY <1>0, <2>1 DEF Down
  <2>3. k \notin Present /\ Present' = Present \cup {k}
    BY <1>0, <2>1 DEF Present
  <2>4. Books!Open(k)
    BY <2>1, <2>2, <2>3 DEF Books!Open
  <2> QED
    BY <1>0, <2>1, <2>2, <2>4 DEF Books!BooksNext, Owned, Down
<1> QED
  BY <1>1, <1>2, <1>3, <1>4 DEF Exchange

LEMMA BooksStep ==
    ASSUME BooksInv, [SystemNext]_sysVars
    PROVE  [Books!BooksNext]_(Books!books) /\ Owned' /\ Down'
<1>0. Owned /\ Down /\ SystemTypeOK
  BY DEF BooksInv, SysInv
<1>1. ASSUME NEW k \in Collectors, Exchange(k)
      PROVE  [Books!BooksNext]_(Books!books) /\ Owned' /\ Down'
  BY <1>1, ExchangeBooks
<1>2. ASSUME NEW k \in Collectors, Lost(k)
      PROVE  [Books!BooksNext]_(Books!books) /\ Owned' /\ Down'
  <2>1. Ends(k) /\ up' = up /\ server' = [server EXCEPT ![k] = "none"]
    BY <1>2 DEF Lost
  <2> QED
    BY <2>1, EndsBooks
<1>3. CASE Crash
  <2>1. /\ up' = FALSE /\ records' = {} /\ stale' = <<>>
        /\ server' = [k \in Collectors |-> "none"]
        /\ subscribers' = [s \in Sets |-> {}]
        /\ cycles' = [s \in Sets |-> 0]
    BY <1>3 DEF Crash
  <2>2. Present' = {}
    BY <2>1 DEF Present
  <2>3. Books!End
    BY <2>1, <2>2 DEF Books!End
  <2> QED
    BY <2>1, <2>3 DEF Books!BooksNext, Owned, Down
<1>4. CASE Start
  <2>1. ~up /\ up' = TRUE /\ UNCHANGED <<server, records, subscribers, cycles>>
    BY <1>4 DEF Start, probe, network
  <2>2. records = {} /\ Present = {} /\ Present' = Present
    BY <1>0, <2>1 DEF Down, Present
  <2>3. Books!Start
    BY <2>1, <2>2 DEF Books!Start
  <2> QED
    BY <1>0, <2>1, <2>3 DEF Books!BooksNext, Owned, Down
<1>5. CASE ProbeReadsStale
  <2> DEFINE m == Head(stale)
  <2>1. stale # <<>> /\ Obey({}, m) /\ UNCHANGED <<up, server>>
    BY <1>5 DEF ProbeReadsStale
  <2>2. up
    BY <1>0, <2>1 DEF Down
  <2>3. m \in Commands
    BY <1>0, <2>1 DEF SystemTypeOK
  <2> HIDE DEF m
  <2>4. [Books!BooksNext]_(Books!books) /\ Owned'
    BY <2>1, <2>2, <2>3, ObeyBooks
  <2> QED
    BY <2>1, <2>2, <2>4 DEF Down
<1>6. CASE \/ SystemTick \/ OtherClient
           \/ (\E s \in Sets : Measure(s))
           \/ UNCHANGED sysVars
  <2>1. UNCHANGED <<up, server, stale, records, subscribers, cycles>>
    BY <1>6 DEF SystemTick, OtherClient, Measure, sysVars, probe, network
  <2> QED
    BY <1>0, <2>1, BooksStutter DEF Down
<1> QED
  BY <1>1, <1>2, <1>3, <1>4, <1>5, <1>6 DEF SystemNext

\* The probe of the composed system keeps the books of ProbeBooks, as Qigong
\* does: whatever commands are read late, and whatever is lost, each step is
\* one command's entry, a connection that opens, leaves or is lost, or a probe
\* that stops or starts.
THEOREM BooksKeptCorrect == SystemSpec => ImplementsBooks
<1>1. SystemInit => Books!BooksInit /\ Owned /\ Down
  BY DEF SystemInit, Books!BooksInit, Present, Owned, Down
<1>2. BooksInv /\ [SystemNext]_sysVars => BooksInv'
  BY BooksStep, SysStep DEF BooksInv
<1>3. BooksInv /\ [SystemNext]_sysVars => [Books!BooksNext]_(Books!books)
  BY BooksStep
<1>4. SystemInit => BooksInv
  BY <1>1, SysInit DEF BooksInv
<1> QED
  BY <1>1, <1>2, <1>3, <1>4, PTL DEF SystemSpec, ImplementsBooks, Books!BooksSpec
=============================================================================
