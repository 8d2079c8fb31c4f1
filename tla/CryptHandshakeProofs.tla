------------------------ MODULE CryptHandshakeProofs ------------------------
(***************************************************************************)
(* Proofs about CryptHandshake, for every ring of keys, every number of    *)
(* lines and of lost connections: two ends accept each other with the same *)
(* key of the ring or not at all, and an accepted end reads the lines of   *)
(* this connection, in order.                                              *)
(*                                                                         *)
(* The argument is that of the order of what is under way: as long as no   *)
(* end is misled, an end that still expects n packets of the handshake has *)
(* at most n of them before the first line, the answer to its challenge is *)
(* the last of them and under the key of its peer, and the peer that sent  *)
(* it is past refusing.  An end that took a CR for the challenge is one    *)
(* packet out of step: it has answered nothing, so its peer never accepts, *)
(* and what it reads next is not the answer it waits for.                  *)
(***************************************************************************)
EXTENDS CryptHandshake, Integers, TLAPS

USE CryptAssumption

\* What packets may hold.
Texts   == {Salt(e) : e \in Ends} \cup {Garbage, Empty}
Bodies  == Texts \cup {Challenge(e) : e \in Ends} \cup {LineOf(n) : n \in Nat}
             \cup {Hash(s, id) : s \in Texts, id \in Keys \cup {NoKey}}
Packets == [key : Keys \cup {NoKey}, body : Bodies]

WireType == wire \in [Ends -> Seq(Packets)] /\ got \in [Ends -> Seq(Bodies)]

----------------------------------------------------------------------------
(* What is under way to an end, by what the end still expects.             *)

\* Packets of the handshake an end still has to read; packets it has sent.
LeftIn(c) ==
    CASE c = "WaitingRemoteSalt" -> 4
      [] c = "WaitingHash"       -> 3
      [] c = "WaitingChallenge"  -> 2
      [] c = "WaitingAnswer"     -> 1
      [] OTHER                   -> 0
Left(e) == LeftIn(challenging[e])
Done(e) == IF challenging[e] = "Accepted" THEN 4 + sent[e] ELSE 5 - Left(e)

\* How many packets are under way to an end, how many lines it has read.
Under(e) == Len(wire[e])
Lines(e) == Len(got[e])

\* The end has neither refused nor failed to get a cipher.
Live(e) ==
    /\ challenging[e] # "Refused"
    /\ cipher[e] = NoKey => challenging[e] \in {"WaitingRemoteSalt", "WaitingHash"}
Reading(e) == connection = "up" \/ (e = "collector" /\ connection = "lost")

HandshakeFirst(e) ==
    \A i \in 1..Under(e) :
        IF i <= Left(e) THEN wire[e][i].body.is \notin {"line", "empty"}
        ELSE wire[e][i].body = LineOf(i - Left(e) + Lines(e))
KeyOfPeer(e) ==
    \A i \in 1..Under(e) :
        wire[e][i].body.is = "line" \/ wire[e][i].body = Challenge(e) =>
            wire[e][i].key = cipher[Peer(e)]
AnswerLast(e) == \A i \in 1..Under(e) : wire[e][i].body = Challenge(e) => i = Left(e)
NotBeyond(e)  == Under(e) + Lines(e) <= Left(e) + sent[Peer(e)]
SameKey(e)    == challenging[e] = "Accepted" => cipher[e] = cipher[Peer(e)]
Order(e) ==
    Reading(e) /\ Live(e) =>
        HandshakeFirst(e) /\ KeyOfPeer(e) /\ AnswerLast(e) /\ NotBeyond(e) /\ SameKey(e)

\* While the connection is up nothing is lost.
Counted(e) == Under(e) + Lines(e) + (4 - Left(e)) = Done(Peer(e))
Up(e) == connection = "up" => Counted(e)

InOrder == misled = {} => \A e \in Ends : Order(e) /\ Up(e)

\* The answer to an end's challenge is under way.
Has(e) == \E i \in 1..Under(e) : wire[e][i].body = Challenge(e)

\* An end out of step has answered nothing, and does not find its answer at
\* the place where it looks for it.
Astray(e) ==
    /\ challenging[e] \in {"WaitingAnswer", "Refused"}
    /\ challenging[Peer(e)] # "Accepted" /\ ~Has(Peer(e))
    /\ Reading(e) /\ Live(e) =>
         \/ Peer(e) \in misled
         \/ wire[e] # <<>> /\ wire[e][1].body # Challenge(e)
         \/ wire[e] = <<>> /\ (connection = "up" =>
               challenging[Peer(e)] \in {"WaitingRemoteSalt", "WaitingHash"})

\* In step or not: the first packet of a connection is a salt, and who has
\* answered has the handshake behind it.
SaltFirst(e) ==
    challenging[e] = "WaitingRemoteSalt" =>
        /\ connection = "up" => wire[e] # <<>>
        /\ Reading(e) /\ wire[e] # <<>> => wire[e][1].body = Salt(Peer(e))
PastChallenge(e) == challenging[e] \in {"WaitingAnswer", "Accepted"}
Beyond(e)        == challenging[e] \in {"WaitingAnswer", "Accepted", "Refused"}
Reached(e)       == Has(e) \/ challenging[e] = "Accepted" => Beyond(Peer(e))

\* Who refuses or gets no cipher closes.
Open(e) == connection = "up" => Live(e)

\* What an end has before it accepts, and between two connections.
Silent(e) == challenging[e] # "Accepted" => sent[e] = 0 /\ got[e] = <<>>
\* Lines read are lines of this connection, in their order.
Heard(e) == Lines(e) <= sent[Peer(e)] /\ \A i \in 1..Lines(e) : got[e][i] = LineOf(i)

\* What is to be said of the wires and of what went over them.
Bearings ==
    /\ WireType /\ InOrder
    /\ \A e \in misled : Astray(e)
    /\ \A e \in Ends : SaltFirst(e) /\ Reached(e) /\ Open(e) /\ Silent(e) /\ Heard(e)

Fresh ==
    /\ connection = "none" => cipher["collector"] = NoKey
    /\ leftover # "none" /\ connection # "none" => challenging["collector"] = "WaitingRemoteSalt"
KeyInv ==
    /\ cipher["probe"] # NoKey => cipher["probe"] \in Ring \cap Usable
    /\ cipher["collector"] # NoKey => cipher["collector"] = qicrkey /\ qicrkey \in Usable

\* A CR is that of a packet read, and gives one empty line at most.
Pending(e) == IF cr[e] THEN 1 ELSE 0
Blanks ==
    blanks["collector"] + blanks["probe"] + Pending("collector") + Pending("probe") <= splits
OfPacket == \A e \in Ends : cr[e] => challenging[e] # "WaitingRemoteSalt"

Inv == TypeOK /\ Bearings /\ Fresh /\ KeyInv /\ Blanks /\ OfPacket

----------------------------------------------------------------------------
(* Ends, packets and wires.                                                *)

LEMMA PeerFacts ==
    ASSUME NEW e \in Ends
    PROVE  Peer(e) \in Ends /\ Peer(e) # e /\ Peer(Peer(e)) = e /\ Ends = {e, Peer(e)}
BY DEF Ends, Peer

\* How many packets of the handshake an end expects.
LEMMA LeftFacts ==
    ASSUME NEW c
    PROVE  /\ LeftIn(c) \in 0..4
           /\ c = "WaitingRemoteSalt" => LeftIn(c) = 4
           /\ c = "WaitingHash" => LeftIn(c) = 3
           /\ c = "WaitingChallenge" => LeftIn(c) = 2
           /\ c = "WaitingAnswer" => LeftIn(c) = 1
           /\ c \in {"Accepted", "Refused"} => LeftIn(c) = 0
           /\ LeftIn(c) = 4 => c = "WaitingRemoteSalt"
BY DEF LeftIn

\* The kinds of packets are told apart.
LEMMA BodyFacts ==
    /\ \A e \in Ends : /\ Salt(e) \in Texts /\ Salt(e).is # "line" /\ Salt(e) \in Bodies
                       /\ Challenge(e) \in Bodies /\ Challenge(e).is # "line"
                       /\ Challenge(e) # Challenge(Peer(e))
                       /\ \A d \in Ends : Salt(d) # Challenge(e)
    /\ \A n \in Nat : LineOf(n) \in Bodies /\ LineOf(n).is = "line"
    /\ \A s \in Texts, id \in Keys \cup {NoKey} :
          Hash(s, id) \in Bodies /\ Hash(s, id).is = "hash"
    /\ Garbage \in Texts /\ Garbage \in Bodies /\ Garbage.is = "garbage"
    /\ Empty \in Texts /\ Empty \in Bodies /\ Empty.is = "empty"
    /\ \A e \in Ends : Challenge(e).is = "challenge" /\ Salt(e).is = "salt"
<1>1. \A e \in Ends : Salt(e).is = "salt" /\ Challenge(e).is = "challenge"
  BY DEF Salt, Challenge
<1>2. \A e \in Ends : Challenge(e).by = e
  BY DEF Challenge
<1>3. \A e \in Ends : Challenge(e) # Challenge(Peer(e))
  BY <1>2, PeerFacts
<1>4. Garbage.is = "garbage" /\ Empty.is = "empty" /\ (\A n \in Nat : LineOf(n).is = "line")
      /\ \A s, id : Hash(s, id).is = "hash"
  BY DEF Garbage, Empty, LineOf, Hash
<1>5. \A e \in Ends : Salt(e) \in Texts /\ Challenge(e) \in Bodies /\ Salt(e) \in Bodies
  BY DEF Texts, Bodies
<1>6. Garbage \in Texts /\ Garbage \in Bodies /\ Empty \in Texts /\ Empty \in Bodies
  BY DEF Texts, Bodies
<1>7. \A n \in Nat : LineOf(n) \in Bodies
  BY DEF Bodies
<1>8. \A s \in Texts, id \in Keys \cup {NoKey} : Hash(s, id) \in Bodies
  BY DEF Bodies
<1> QED
  BY <1>1, <1>3, <1>4, <1>5, <1>6, <1>7, <1>8

\* What was taken off a wire, and what was not.
LEMMA RestFacts ==
    ASSUME wire \in [Ends -> Seq(Packets)], NEW e \in Ends, wire[e] # <<>>
    PROVE  /\ Rest(e) \in [Ends -> Seq(Packets)]
           /\ Rest(e)[Peer(e)] = wire[Peer(e)]
           /\ Len(wire[e]) \in Nat /\ Len(wire[e]) >= 1
           /\ Len(Rest(e)[e]) = Len(wire[e]) - 1
           /\ \A i \in 1..Len(Rest(e)[e]) :
                 Rest(e)[e][i] = wire[e][i + 1] /\ i + 1 \in 1..Len(wire[e])
           /\ Head(wire[e]) = wire[e][1] /\ wire[e][1] \in Packets
           /\ 1 \in 1..Len(wire[e])
<1>1. wire[e] \in Seq(Packets)
  OBVIOUS
<1>2. /\ Tail(wire[e]) \in Seq(Packets) /\ Len(Tail(wire[e])) = Len(wire[e]) - 1
      /\ Len(wire[e]) \in Nat /\ Len(wire[e]) >= 1
      /\ \A i \in 1..(Len(wire[e]) - 1) : Tail(wire[e])[i] = wire[e][i + 1]
      /\ Head(wire[e]) = wire[e][1] /\ wire[e][1] \in Packets
  BY <1>1
<1>3. Rest(e) = [wire EXCEPT ![e] = Tail(wire[e])]
  BY DEF Rest
<1>4. /\ Rest(e) \in [Ends -> Seq(Packets)] /\ Rest(e)[e] = Tail(wire[e])
      /\ Rest(e)[Peer(e)] = wire[Peer(e)]
  BY <1>2, <1>3, PeerFacts
<1> QED
  BY <1>2, <1>4

\* A packet is appended to the peer's wire.
LEMMA AppendFacts ==
    ASSUME NEW w \in [Ends -> Seq(Packets)], NEW e \in Ends, NEW packet \in Packets,
           wire' = [w EXCEPT ![Peer(e)] = Append(@, packet)]
    PROVE  /\ wire' \in [Ends -> Seq(Packets)]
           /\ wire'[e] = w[e]
           /\ Len(w[Peer(e)]) \in Nat
           /\ Len(wire'[Peer(e)]) = Len(w[Peer(e)]) + 1
           /\ \A i \in 1..Len(w[Peer(e)]) : wire'[Peer(e)][i] = w[Peer(e)][i]
           /\ wire'[Peer(e)][Len(w[Peer(e)]) + 1] = packet
<1> DEFINE p == Peer(e)
<1>1. p \in Ends /\ p # e /\ w[p] \in Seq(Packets)
  BY PeerFacts
<1>2. wire'[p] = Append(w[p], packet) /\ wire'[e] = w[e]
  BY <1>1
<1>3. wire' \in [Ends -> Seq(Packets)]
  BY <1>1
<1> QED
  BY <1>1, <1>2, <1>3

\* Both ends read only while the connection is up.
LEMMA BothReading ==
    ASSUME NEW e \in Ends, Reading(e), Reading(Peer(e))
    PROVE  connection = "up"
BY DEF Reading, Peer, Ends

----------------------------------------------------------------------------
(* What a step that reads does to the wires.                               *)

\* What is left of the wires once an end has read a packet, or only a CR.
Remains(e, rest) == rest = wire \/ (wire[e] # <<>> /\ rest = Rest(e))

LEMMA RemainsFacts ==
    ASSUME wire \in [Ends -> Seq(Packets)], NEW e \in Ends, NEW rest, Remains(e, rest)
    PROVE  /\ rest \in [Ends -> Seq(Packets)]
           /\ rest[Peer(e)] = wire[Peer(e)]
           /\ \A i \in 1..Len(rest[e]) :
                 \E j \in 1..Len(wire[e]) : rest[e][i] = wire[e][j]
<1>1. CASE rest = wire
  BY <1>1
<1>2. CASE wire[e] # <<>> /\ rest = Rest(e)
  BY <1>2, RestFacts
<1> QED
  BY <1>1, <1>2 DEF Remains

\* An end that sends nothing.
LEMMA TakesFacts ==
    ASSUME wire \in [Ends -> Seq(Packets)], NEW e \in Ends, NEW rest, Remains(e, rest),
           wire' = rest
    PROVE  /\ wire' \in [Ends -> Seq(Packets)] /\ wire'[Peer(e)] = wire[Peer(e)]
           /\ \A d \in Ends : Has(d)' => Has(d)
<1>1. /\ wire' \in [Ends -> Seq(Packets)] /\ wire'[Peer(e)] = wire[Peer(e)]
      /\ \A i \in 1..Len(wire'[e]) : \E j \in 1..Len(wire[e]) : wire'[e][i] = wire[e][j]
  BY RemainsFacts
<1>2. Has(e)' => Has(e)
  BY <1>1 DEF Has, Under
<1>3. Has(Peer(e))' => Has(Peer(e))
  BY <1>1 DEF Has, Under
<1> QED
  BY <1>1, <1>2, <1>3, PeerFacts

\* An end that sends a packet.
LEMMA SaysFacts ==
    ASSUME wire \in [Ends -> Seq(Packets)], NEW e \in Ends, NEW rest, Remains(e, rest),
           NEW packet \in Packets, wire' = [rest EXCEPT ![Peer(e)] = Append(@, packet)]
    PROVE  /\ wire' \in [Ends -> Seq(Packets)] /\ wire'[e] = rest[e]
           /\ Has(e)' => Has(e)
           /\ Has(Peer(e))' => Has(Peer(e)) \/ packet.body = Challenge(Peer(e))
           /\ wire'[Peer(e)] # <<>>
           /\ wire[Peer(e)] # <<>> => wire'[Peer(e)][1] = wire[Peer(e)][1]
<1> DEFINE p == Peer(e)
<1>1. /\ rest \in [Ends -> Seq(Packets)] /\ rest[p] = wire[p]
      /\ \A i \in 1..Len(rest[e]) : \E j \in 1..Len(wire[e]) : rest[e][i] = wire[e][j]
  BY RemainsFacts
<1>2. /\ wire' \in [Ends -> Seq(Packets)]
      /\ wire'[e] = rest[e]
      /\ Len(rest[p]) \in Nat
      /\ Len(wire'[p]) = Len(rest[p]) + 1
      /\ \A i \in 1..Len(rest[p]) : wire'[p][i] = rest[p][i]
      /\ wire'[p][Len(rest[p]) + 1] = packet
  <2>1. rest \in [Ends -> Seq(Packets)] /\ wire' = [rest EXCEPT ![Peer(e)] = Append(@, packet)]
    BY <1>1, Zenon
  <2>2. /\ wire' \in [Ends -> Seq(Packets)]
        /\ wire'[e] = rest[e]
        /\ Len(rest[Peer(e)]) \in Nat
        /\ Len(wire'[Peer(e)]) = Len(rest[Peer(e)]) + 1
        /\ \A i \in 1..Len(rest[Peer(e)]) : wire'[Peer(e)][i] = rest[Peer(e)][i]
        /\ wire'[Peer(e)][Len(rest[Peer(e)]) + 1] = packet
    BY ONLY <2>1, AppendFacts, packet \in Packets, e \in Ends
  <2> QED
    BY <2>2
<1>3. Has(e)' => Has(e)
  BY <1>1, <1>2 DEF Has, Under
<1>4. Has(p)' => Has(p) \/ packet.body = Challenge(p)
  <2> SUFFICES ASSUME NEW i \in 1..Len(wire'[p]), wire'[p][i].body = Challenge(p)
               PROVE  Has(p) \/ packet.body = Challenge(p)
    BY DEF Has, Under
  <2>1. CASE i \in 1..Len(wire[p])
    BY <1>1, <1>2, <2>1 DEF Has, Under
  <2>2. CASE i = Len(wire[p]) + 1
    BY <1>1, <1>2, <2>2
  <2> QED
    BY <1>1, <1>2, <2>1, <2>2
<1>5. wire[p] \in Seq(Packets) /\ p \in Ends
  BY PeerFacts
<1>6. wire'[p] # <<>>
  BY <1>1, <1>2
<1>7. wire[p] # <<>> => wire'[p][1] = wire[p][1]
  <2>1. wire[p] # <<>> => 1 \in 1..Len(wire[p])
    BY <1>5
  <2> QED
    BY <1>1, <1>2, <2>1
<1> QED
  BY <1>2, <1>3, <1>4, <1>6, <1>7

\* What it sends is read next if nothing else is under way.
LEMMA SaidFirst ==
    ASSUME wire \in [Ends -> Seq(Packets)], NEW e \in Ends, NEW rest, Remains(e, rest),
           NEW packet \in Packets, wire' = [rest EXCEPT ![Peer(e)] = Append(@, packet)],
           wire[Peer(e)] = <<>>
    PROVE  wire'[Peer(e)][1].body = packet.body
<1>1. rest \in [Ends -> Seq(Packets)] /\ rest[Peer(e)] = <<>>
  BY RemainsFacts
<1>2. wire'[Peer(e)] = Append(<<>>, packet)
  BY <1>1, PeerFacts
<1>3. <<>> \in Seq(Packets) /\ Len(<<>>) = 0
  OBVIOUS
<1>4. Append(<<>>, packet)[1] = packet
  BY <1>3
<1> QED
  BY <1>2, <1>4

\* A step that reads and does not close keeps what is known of the beginning
\* and of the end of each handshake.
Forward(e) ==
    /\ Reading(e) /\ connection' = connection
    /\ challenging'[Peer(e)] = challenging[Peer(e)] /\ cipher'[Peer(e)] = cipher[Peer(e)]
    /\ challenging'[e] # "WaitingRemoteSalt" /\ Live(e)'
    /\ Beyond(e) => Beyond(e)'
    /\ challenging'[e] = "Accepted" => challenging[e] = "Accepted" \/ Has(e)
    /\ Has(e)' => Has(e)
    /\ Has(Peer(e))' => Has(Peer(e)) \/ Beyond(e)'
    /\ wire[Peer(e)] # <<>> =>
         wire'[Peer(e)] # <<>> /\ wire'[Peer(e)][1] = wire[Peer(e)][1]

LEMMA ForwardInv ==
    ASSUME Inv, NEW e \in Ends, Forward(e)
    PROVE  \A d \in Ends : SaltFirst(d)' /\ Reached(d)' /\ Open(d)'
<1> DEFINE p == Peer(e)
<1>1. p \in Ends /\ p # e /\ Peer(p) = e /\ Ends = {e, p}
  BY PeerFacts
<1>2. SaltFirst(e) /\ SaltFirst(p) /\ Reached(e) /\ Reached(p) /\ Open(p)
  BY <1>1 DEF Inv, Bearings
<1>3. SaltFirst(e)'
  BY DEF SaltFirst, Forward
<1>4. SaltFirst(p)'
  <2> SUFFICES ASSUME challenging[p] = "WaitingRemoteSalt", connection = "up"
               PROVE  wire'[p] # <<>> /\ wire'[p][1].body = Salt(e)
    <3>1. Reading(p)' => connection = "up"
      BY <1>1, BothReading DEF Forward, Reading
    <3> QED
      BY <1>1, <3>1 DEF SaltFirst, Forward
  <2>1. wire[p] # <<>> /\ wire[p][1].body = Salt(e)
    BY <1>1, <1>2 DEF SaltFirst, Reading
  <2> QED
    BY <2>1 DEF Forward
<1>5. Reached(e)'
  <2>1. Beyond(p)' <=> Beyond(p)
    BY DEF Forward, Beyond
  <2> QED
    BY <1>2, <2>1 DEF Reached, Forward
<1>6. Reached(p)'
  <2>1. challenging'[p] = challenging[p]
    BY DEF Forward
  <2> QED
    BY <1>1, <1>2, <2>1 DEF Reached, Forward
<1>7. Open(e)' /\ Open(p)'
  BY <1>2 DEF Open, Live, Forward
<1> QED
  BY <1>1, <1>3, <1>4, <1>5, <1>6, <1>7

\* While the connection is up, an end whose answer is under way or read has a
\* peer that has not refused.
LEMMA Answering ==
    ASSUME Inv, NEW e \in Ends, connection = "up",
           Has(e) \/ challenging[e] = "Accepted"
    PROVE  PastChallenge(Peer(e))
<1>1. Peer(e) \in Ends
  BY PeerFacts
<1>2. Live(Peer(e)) /\ Beyond(Peer(e))
  BY <1>1 DEF Inv, Bearings, Open, Reached
<1> QED
  BY <1>2 DEF Live, Beyond, PastChallenge

----------------------------------------------------------------------------
(* The steps of an end that reads.                                         *)

\* A packet read off the wire: the order of the others stays, one place nearer.
LEMMA ReadShift ==
    ASSUME NEW e \in Ends,
           HandshakeFirst(e), KeyOfPeer(e), AnswerLast(e), NotBeyond(e),
           Under(e) \in Nat, Under(e)' = Under(e) - 1,
           \A i \in 1..Under(e)' : wire'[e][i] = wire[e][i + 1] /\ i + 1 \in 1..Under(e),
           Left(e) \in 0..4, Lines(e) \in Nat, sent[Peer(e)] \in Nat,
           \/ Left(e)' = Left(e) - 1 /\ Lines(e)' = Lines(e)
           \/ Left(e)' = 0 /\ Left(e) = 0 /\ Lines(e)' = Lines(e) + 1,
           cipher'[Peer(e)] = cipher[Peer(e)], sent'[Peer(e)] = sent[Peer(e)]
    PROVE  HandshakeFirst(e)' /\ KeyOfPeer(e)' /\ AnswerLast(e)' /\ NotBeyond(e)'
<1>1. HandshakeFirst(e)'
  <2> SUFFICES ASSUME NEW i \in 1..Under(e)'
               PROVE  IF i <= Left(e)' THEN wire'[e][i].body.is \notin {"line", "empty"}
                      ELSE wire'[e][i].body = LineOf(i - Left(e)' + Lines(e)')
    BY DEF HandshakeFirst
  <2>1. wire'[e][i] = wire[e][i + 1] /\ i + 1 \in 1..Under(e) /\ i \in Nat /\ i >= 1
    OBVIOUS
  <2>2. IF i + 1 <= Left(e) THEN wire[e][i + 1].body.is \notin {"line", "empty"}
        ELSE wire[e][i + 1].body = LineOf((i + 1) - Left(e) + Lines(e))
    <3> DEFINE InPlace(j) == IF j <= Left(e) THEN wire[e][j].body.is \notin {"line", "empty"}
                             ELSE wire[e][j].body = LineOf(j - Left(e) + Lines(e))
    <3>1. \A j \in 1..Under(e) : InPlace(j)
      BY Zenon DEF HandshakeFirst
    <3> HIDE DEF InPlace
    <3>2. InPlace(i + 1)
      BY <2>1, <3>1
    <3> QED
      BY <3>2, Zenon DEF InPlace
  <2>3. /\ (i + 1) - Left(e) + Lines(e) = i - Left(e)' + Lines(e)'
        /\ i + 1 <= Left(e) <=> i <= Left(e)'
    BY <2>1
  <2> QED
    BY <2>1, <2>2, <2>3
<1>2. KeyOfPeer(e)'
  BY DEF KeyOfPeer
<1>3. NotBeyond(e)'
  <2>1. Under(e) + Lines(e) <= Left(e) + sent[Peer(e)]
    BY DEF NotBeyond
  <2>2. Under(e)' + Lines(e)' <= Left(e)' + sent[Peer(e)]
    BY <2>1
  <2> QED
    BY <2>2 DEF NotBeyond
<1>4. AnswerLast(e)'
  <2> SUFFICES ASSUME NEW i \in 1..Under(e)', wire'[e][i].body = Challenge(e)
               PROVE  i = Left(e)'
    BY DEF AnswerLast
  <2>1. i + 1 = Left(e)
    BY DEF AnswerLast
  <2> QED
    BY <2>1
<1> QED
  BY <1>1, <1>2, <1>3, <1>4

\* An end reads a packet and sends one.
LEMMA AnswerFacts ==
    ASSUME wire \in [Ends -> Seq(Packets)], NEW e \in Ends, wire[e] # <<>>,
           NEW packet \in Packets,
           wire' = [Rest(e) EXCEPT ![Peer(e)] = Append(@, packet)]
    PROVE  /\ wire' \in [Ends -> Seq(Packets)]
           /\ Under(e) \in Nat /\ Under(e) >= 1 /\ Under(e)' = Under(e) - 1
           /\ \A i \in 1..Under(e)' : wire'[e][i] = wire[e][i + 1] /\ i + 1 \in 1..Under(e)
           /\ Under(Peer(e)) \in Nat /\ Under(Peer(e))' = Under(Peer(e)) + 1
           /\ \A i \in 1..Under(Peer(e)) : wire'[Peer(e)][i] = wire[Peer(e)][i]
           /\ wire'[Peer(e)][Under(Peer(e)) + 1] = packet
<1> DEFINE w == Rest(e)
           p == Peer(e)
<1>1. /\ w[p] = wire[p] /\ w \in [Ends -> Seq(Packets)]
      /\ Len(wire[e]) \in Nat /\ Len(wire[e]) >= 1
      /\ Len(w[e]) = Len(wire[e]) - 1
      /\ \A i \in 1..Len(w[e]) : w[e][i] = wire[e][i + 1] /\ i + 1 \in 1..Len(wire[e])
  BY RestFacts
<1>2. wire' = [w EXCEPT ![Peer(e)] = Append(@, packet)]
  OBVIOUS
<1> HIDE DEF w
<1>3. /\ wire' \in [Ends -> Seq(Packets)]
      /\ wire'[e] = w[e]
      /\ Len(w[Peer(e)]) \in Nat
      /\ Len(wire'[Peer(e)]) = Len(w[Peer(e)]) + 1
      /\ \A i \in 1..Len(w[Peer(e)]) : wire'[Peer(e)][i] = w[Peer(e)][i]
      /\ wire'[Peer(e)][Len(w[Peer(e)]) + 1] = packet
  BY ONLY <1>1, <1>2, AppendFacts, packet \in Packets, e \in Ends
<1> QED
  BY <1>1, <1>3 DEF Under

\* Lines sent and read stay what they are while none is sent or read.
LEMMA KeepsLines ==
    ASSUME Inv, UNCHANGED <<sent, got>>,
           \A d \in Ends : challenging[d] = "Accepted" => challenging'[d] = "Accepted"
    PROVE  \A d \in Ends : Silent(d)' /\ Heard(d)'
<1>1. \A d \in Ends : Silent(d) /\ Heard(d) /\ Peer(d) \in Ends
  BY PeerFacts DEF Inv, Bearings
<1>2. \A d \in Ends : Silent(d)'
  BY <1>1 DEF Silent
<1>3. \A d \in Ends : Heard(d)'
  BY <1>1 DEF Heard, Lines
<1> QED
  BY <1>2, <1>3

\* A step of the handshake that reads a packet, or a CR, and answers with a
\* packet that is no line.
Advance(e, rest, packet, next) ==
    /\ Reading(e) /\ Live(e) /\ Remains(e, rest)
    /\ wire' = [rest EXCEPT ![Peer(e)] = Append(@, packet)]
    /\ challenging' = [challenging EXCEPT ![e] = next]
    /\ UNCHANGED <<connection, sent, got>>
    /\ \/ challenging[e] = "WaitingRemoteSalt" /\ next = "WaitingHash" /\ cipher' = cipher
       \/ /\ challenging[e] = "WaitingHash" /\ next = "WaitingChallenge"
          /\ \E k \in Keys : cipher' = [cipher EXCEPT ![e] = k]
       \/ challenging[e] = "WaitingChallenge" /\ next = "WaitingAnswer" /\ cipher' = cipher
    /\ packet.body = Challenge(Peer(e)) => next = "WaitingAnswer" /\ packet.key = cipher'[e]
    /\ next # "WaitingAnswer" => misled' = misled /\ packet.body.is \notin {"line", "empty"}
    /\ next = "WaitingAnswer" =>
         /\ misled' = misled \cup IF packet.body = Empty THEN {e} ELSE {}
         /\ packet.body # Challenge(e)
         /\ misled = {} => packet.body.is # "line"
    /\ rest = wire => packet.body = Empty
    /\ misled = {} /\ packet.body.is = "empty" => rest = wire /\ packet.body = Empty

\* It neither refuses nor accepts.
LEMMA AdvanceFacts ==
    ASSUME Inv, NEW e \in Ends, NEW rest, NEW packet \in Packets, NEW next,
           Advance(e, rest, packet, next)
    PROVE  /\ challenging'[e] = next /\ challenging'[Peer(e)] = challenging[Peer(e)]
           /\ challenging' \in [Ends -> ChallengeState]
           /\ cipher' \in [Ends -> Keys \cup {NoKey}] /\ cipher'[Peer(e)] = cipher[Peer(e)]
           /\ challenging[e] # "WaitingHash" => cipher'[e] = cipher[e]
           /\ Live(e)' /\ Forward(e)
           /\ \A d \in Ends : Silent(d)' /\ Heard(d)' /\ SaltFirst(d)' /\ Reached(d)' /\ Open(d)'
<1> DEFINE p == Peer(e)
<1>1. p \in Ends /\ p # e /\ Peer(p) = e /\ Ends = {e, p}
  BY PeerFacts
<1>2. /\ wire \in [Ends -> Seq(Packets)] /\ got' = got /\ sent' = sent
      /\ challenging \in [Ends -> ChallengeState] /\ cipher \in [Ends -> Keys \cup {NoKey}]
  BY DEF Inv, Bearings, WireType, TypeOK, Advance
<1>3. /\ challenging'[e] = next /\ challenging'[p] = challenging[p]
      /\ next \in {"WaitingHash", "WaitingChallenge", "WaitingAnswer"}
      /\ challenging' \in [Ends -> ChallengeState]
      /\ challenging[e] \notin {"Accepted", "WaitingAnswer", "Refused"}
  BY <1>1, <1>2 DEF ChallengeState, Advance
<1>4. /\ cipher' \in [Ends -> Keys \cup {NoKey}] /\ cipher'[p] = cipher[p]
      /\ challenging[e] # "WaitingHash" => cipher'[e] = cipher[e]
  BY <1>1, <1>2 DEF Advance
<1>5. Live(e)'
  <2>1. next = "WaitingChallenge" => cipher'[e] # NoKey
    BY <1>2 DEF Advance
  <2>2. next = "WaitingAnswer" => cipher'[e] # NoKey
    BY <1>4 DEF Live, Advance
  <2> QED
    BY <1>3, <2>1, <2>2 DEF Live
<1>6. /\ Has(e)' => Has(e)
      /\ Has(p)' => Has(p) \/ packet.body = Challenge(p)
      /\ wire[p] # <<>> => wire'[p] # <<>> /\ wire'[p][1] = wire[p][1]
  <2>1. Remains(e, rest) /\ wire' = [rest EXCEPT ![Peer(e)] = Append(@, packet)]
    BY Zenon DEF Advance
  <2> QED
    BY ONLY <1>2, <2>1, SaysFacts, packet \in Packets, e \in Ends
<1>7. Forward(e)
  BY <1>3, <1>4, <1>5, <1>6 DEF Forward, Beyond, Advance
<1>8. \A d \in Ends : SaltFirst(d)' /\ Reached(d)' /\ Open(d)'
  BY <1>7, ForwardInv
<1>9. \A d \in Ends : Silent(d)' /\ Heard(d)'
  BY <1>1, <1>2, <1>3, KeepsLines
<1> QED
  BY <1>3, <1>4, <1>5, <1>7, <1>8, <1>9

\* In step: the packet read is the one expected, the one sent the next.
LEMMA AdvanceInOrder ==
    ASSUME Inv, NEW e \in Ends, NEW rest, NEW packet \in Packets, NEW next,
           Advance(e, rest, packet, next), misled' = {}
    PROVE  \A d \in Ends : Order(d)' /\ Up(d)'
<1> DEFINE p == Peer(e)
<1>1. p \in Ends /\ p # e /\ Peer(p) = e /\ Ends = {e, p}
  BY PeerFacts
<1>a. /\ misled = {} /\ rest = Rest(e) /\ wire[e] # <<>>
      /\ packet.body.is \notin {"line", "empty"}
  <2>1. misled = {} /\ packet.body # Empty
    BY BodyFacts DEF Advance
  <2> QED
    BY <2>1 DEF Advance, Remains
<1>2. /\ wire \in [Ends -> Seq(Packets)]
      /\ got \in [Ends -> Seq(Bodies)] /\ got' = got /\ sent' = sent
      /\ sent \in [Ends -> 0..MaxLines]
      /\ challenging \in [Ends -> ChallengeState] /\ cipher \in [Ends -> Keys \cup {NoKey}]
      /\ \A d \in Ends : Order(d) /\ Up(d)
  BY <1>a DEF Inv, Bearings, InOrder, WireType, TypeOK, Advance
<1>w. /\ wire' \in [Ends -> Seq(Packets)]
      /\ Under(e) \in Nat /\ Under(e) >= 1 /\ Under(e)' = Under(e) - 1
      /\ \A i \in 1..Under(e)' : wire'[e][i] = wire[e][i + 1] /\ i + 1 \in 1..Under(e)
      /\ Under(p) \in Nat /\ Under(p)' = Under(p) + 1
      /\ \A i \in 1..Under(p) : wire'[p][i] = wire[p][i]
      /\ wire'[p][Under(p) + 1] = packet
  <2>1. wire' = [Rest(e) EXCEPT ![Peer(e)] = Append(@, packet)]
    BY <1>a DEF Advance
  <2> QED
    BY ONLY <1>2, <1>a, <2>1, AnswerFacts, packet \in Packets, e \in Ends
<1>3. Lines(e)' = Lines(e) /\ Lines(p)' = Lines(p)
  BY <1>2 DEF Lines
<1>4. /\ challenging'[e] = next /\ challenging'[p] = challenging[p]
      /\ next \in ChallengeState /\ next # "Accepted"
      /\ challenging[e] \notin {"Accepted", "WaitingAnswer"}
  BY <1>1, <1>2 DEF ChallengeState, Advance
<1>5. /\ cipher'[p] = cipher[p] /\ (challenging[e] # "WaitingHash" => cipher'[e] = cipher[e])
  BY AdvanceFacts
<1>6. /\ Left(e)' = Left(e) - 1 /\ Left(p)' = Left(p)
      /\ Left(e) \in 2..4 /\ Left(p) \in 0..4
  BY <1>4, LeftFacts DEF Left, Advance
<1>7. /\ Lines(e) \in Nat /\ Lines(p) \in Nat /\ sent[e] \in Nat /\ sent[p] \in Nat
      /\ sent'[e] = sent[e] /\ sent'[p] = sent[p]
  BY <1>1, <1>2 DEF Lines
<1>8. Done(p)' = Done(p) /\ Done(e)' = Done(e) + 1 /\ Done(e) = 5 - Left(e)
      /\ Done(p) \in Int
  <2>1. Done(e) = 5 - Left(e) /\ Done(e)' = 5 - Left(e)'
    BY <1>4 DEF Done
  <2>2. Done(p)' = Done(p)
    BY <1>2, <1>4, <1>6 DEF Done
  <2>3. Done(p) \in Int
    BY <1>6, <1>7 DEF Done
  <2> QED
    BY <1>6, <2>1, <2>2, <2>3
<1>9. Reading(e)' /\ (Reading(p)' => Reading(p)) /\ (Live(p)' => Live(p))
  BY <1>4, <1>5 DEF Reading, Live, Advance
<1>10. HandshakeFirst(e) /\ KeyOfPeer(e) /\ AnswerLast(e) /\ NotBeyond(e) /\ SameKey(e)
  BY <1>2 DEF Order, Advance
<1>11. Order(e)'
  <2>1. HandshakeFirst(e)' /\ KeyOfPeer(e)' /\ AnswerLast(e)' /\ NotBeyond(e)'
    <3>1. /\ Left(e) \in 0..4 /\ Left(e)' = Left(e) - 1 /\ Lines(e)' = Lines(e)
          /\ Lines(e) \in Nat /\ sent[Peer(e)] \in Nat
          /\ cipher'[Peer(e)] = cipher[Peer(e)] /\ sent'[Peer(e)] = sent[Peer(e)]
      BY <1>3, <1>5, <1>6, <1>7
    <3>2. /\ Under(e) \in Nat /\ Under(e)' = Under(e) - 1
          /\ \A i \in 1..Under(e)' : wire'[e][i] = wire[e][i + 1] /\ i + 1 \in 1..Under(e)
      BY <1>w
    <3> QED
      BY ONLY <1>10, <3>1, <3>2, ReadShift, e \in Ends
  <2>2. SameKey(e)'
    BY <1>4 DEF SameKey
  <2> QED
    BY <2>1, <2>2 DEF Order
<1>12. ASSUME connection = "up"
       PROVE  /\ Counted(e) /\ Counted(p) /\ Under(p) <= Left(p)
              /\ challenging[p] # "Accepted" /\ Lines(p) = 0 /\ sent[e] = 0
              /\ Has(p) => PastChallenge(e)
  <2>1. Counted(e) /\ Counted(p)
    BY <1>1, <1>2, <1>12 DEF Up
  <2>2. Under(p) + Lines(p) + (4 - Left(p)) = 5 - Left(e)
    BY <1>1, <1>8, <2>1 DEF Counted
  <2>3. Has(p) \/ challenging[p] = "Accepted" => PastChallenge(e)
    BY <1>1, <1>12, Answering
  <2>4. challenging[p] # "Accepted"
    BY <1>4, <2>3 DEF PastChallenge, Advance
  <2>5. Under(p) <= Left(p)
    BY <1>w, <1>6, <1>7, <2>2
  <2>6. got[p] = <<>> /\ sent[e] = 0
    BY <1>1, <1>4, <2>4 DEF Inv, Bearings, Silent
  <2> QED
    BY <2>1, <2>3, <2>4, <2>5, <2>6 DEF Lines
<1>13. Order(p)'
  <2> SUFFICES ASSUME Reading(p)', Live(p)'
               PROVE  /\ HandshakeFirst(p)' /\ KeyOfPeer(p)' /\ AnswerLast(p)'
                      /\ NotBeyond(p)' /\ SameKey(p)'
    BY DEF Order
  <2>1. connection = "up"
    BY <1>1, <1>9, BothReading DEF Advance
  <2>2. HandshakeFirst(p) /\ KeyOfPeer(p) /\ AnswerLast(p)
    BY <1>1, <1>2, <1>9 DEF Order
  <2>3. Under(p) + Lines(p) + (4 - Left(p)) = Done(e) /\ Under(p) <= Left(p)
        /\ Lines(p) = 0 /\ sent[e] = 0
    BY <1>1, <1>12, <2>1 DEF Counted
  <2>4. HandshakeFirst(p)'
    <3>1. Under(p)' <= Left(p)
      BY <1>w, <1>6, <1>7, <1>8, <2>3
    <3>2. \A i \in 1..Under(p)' : wire'[p][i].body.is \notin {"line", "empty"}
      <4> SUFFICES ASSUME NEW i \in 1..Under(p)'
                   PROVE  wire'[p][i].body.is \notin {"line", "empty"}
        OBVIOUS
      <4>1. CASE i = Under(p) + 1
        BY <1>a, <1>w, <4>1
      <4>2. CASE i \in 1..Under(p)
        <5>1. i <= Left(p)
          BY <1>w, <1>6, <2>3, <4>2
        <5>2. wire[p][i].body.is \notin {"line", "empty"}
          BY <2>2, <4>2, <5>1, Zenon DEF HandshakeFirst
        <5> QED
          BY <1>w, <4>2, <5>2
      <4> QED
        BY <1>w, <4>1, <4>2
    <3> QED
      BY <1>w, <1>6, <3>1, <3>2 DEF HandshakeFirst
  <2>5. \A i \in 1..Under(p)' :
          wire'[p][i].body.is = "line" \/ wire'[p][i].body = Challenge(p) =>
             i = Under(p) + 1 /\ packet.body = Challenge(p)
    <3> SUFFICES ASSUME NEW i \in 1..Under(p)',
                        wire'[p][i].body.is = "line" \/ wire'[p][i].body = Challenge(p)
                 PROVE  i = Under(p) + 1 /\ packet.body = Challenge(p)
      OBVIOUS
    <3>1. CASE i = Under(p) + 1
      BY <1>a, <1>w, <3>1
    <3>2. CASE i \in 1..Under(p)
      <4>1. wire'[p][i] = wire[p][i] /\ wire[p][i].body.is # "line"
        BY <1>w, <1>6, <2>2, <2>3, <3>2 DEF HandshakeFirst
      <4>2. Has(p)
        BY <3>2, <4>1 DEF Has
      <4> QED
        BY <1>4, <1>12, <2>1, <4>2 DEF PastChallenge
    <3> QED
      BY <1>w, <3>1, <3>2
  <2>6. KeyOfPeer(p)'
    BY <1>1, <1>w, <1>4, <2>5 DEF KeyOfPeer, Advance
  <2>7. AnswerLast(p)'
    <3>1. packet.body = Challenge(p) => Left(e) = 2
      BY LeftFacts DEF Left, Advance
    <3>2. packet.body = Challenge(p) => Under(p) + 1 = Left(p)
      BY <1>w, <1>6, <1>7, <1>8, <2>3, <3>1
    <3> QED
      BY <1>6, <2>5, <3>2 DEF AnswerLast
  <2>8. NotBeyond(p)'
    <3>1. Under(p)' + Lines(p) <= Left(p) + sent[e]
      BY <1>w, <1>6, <1>7, <1>8, <2>3
    <3> QED
      BY <1>1, <1>3, <1>6, <1>7, <3>1 DEF NotBeyond
  <2>9. SameKey(p)'
    BY <1>1, <1>4, <1>12, <2>1 DEF SameKey
  <2> QED
    BY <2>4, <2>6, <2>7, <2>8, <2>9
<1>14. ASSUME connection' = "up"
       PROVE  Counted(e)' /\ Counted(p)'
  <2>1. Counted(e) /\ Counted(p)
    BY <1>12, <1>14 DEF Advance
  <2>2. Counted(e)'
    <3>1. Under(e) + Lines(e) + (4 - Left(e)) = Done(p)
      BY <2>1 DEF Counted
    <3>2. Under(e)' + Lines(e) + (4 - (Left(e) - 1)) = Done(p)
      BY <1>w, <1>6, <1>7, <3>1
    <3> QED
      BY <1>3, <1>6, <1>8, <3>2 DEF Counted
  <2>3. Counted(p)'
    <3>1. Under(p) + Lines(p) + (4 - Left(p)) = Done(e)
      BY <1>1, <2>1 DEF Counted
    <3>2. Under(p)' + Lines(p) + (4 - Left(p)) = Done(e) + 1
      BY <1>w, <1>6, <1>7, <1>8, <3>1
    <3> QED
      BY <1>1, <1>3, <1>6, <1>8, <3>2 DEF Counted
  <2> QED
    BY <2>2, <2>3
<1> QED
  BY <1>1, <1>11, <1>13, <1>14 DEF Up

\* Out of step: an end that takes a CR for the challenge becomes astray, and
\* an end that was stays so whatever it or its peer reads.
LEMMA AdvanceAstray ==
    ASSUME Inv, NEW e \in Ends, NEW rest, NEW packet \in Packets, NEW next,
           Advance(e, rest, packet, next)
    PROVE  \A d \in misled' : Astray(d)'
<1> DEFINE p == Peer(e)
<1>1. p \in Ends /\ p # e /\ Peer(p) = e /\ Ends = {e, p}
  BY PeerFacts
<1>2. /\ wire \in [Ends -> Seq(Packets)] /\ got \in [Ends -> Seq(Bodies)]
      /\ misled \subseteq Ends
      /\ Reached(e) /\ Reached(p) /\ (\A d \in misled : Astray(d)) /\ Silent(e)
  BY <1>1 DEF Inv, Bearings, WireType, TypeOK
<1>3. /\ challenging'[e] = next /\ challenging'[p] = challenging[p]
      /\ cipher'[p] = cipher[p]
  BY AdvanceFacts
<1>4. /\ Reading(e) /\ Live(e) /\ connection' = connection
      /\ next \in {"WaitingHash", "WaitingChallenge", "WaitingAnswer"}
      /\ challenging[e] \in {"WaitingRemoteSalt", "WaitingHash", "WaitingChallenge"}
      /\ next = "WaitingAnswer" <=> challenging[e] = "WaitingChallenge"
  BY DEF Advance
<1>5. /\ wire'[e] = rest[e] /\ (Has(e)' => Has(e))
      /\ Has(p)' => Has(p) \/ packet.body = Challenge(p)
      /\ wire'[p] # <<>>
      /\ wire[p] # <<>> => wire'[p][1] = wire[p][1]
      /\ wire[p] = <<>> => wire'[p][1].body = packet.body
  <2>1. Remains(e, rest) /\ wire' = [rest EXCEPT ![Peer(e)] = Append(@, packet)]
    BY Zenon DEF Advance
  <2>2. wire \in [Ends -> Seq(Packets)]
    BY <1>2
  <2>3. /\ wire' \in [Ends -> Seq(Packets)] /\ wire'[e] = rest[e]
        /\ Has(e)' => Has(e)
        /\ Has(Peer(e))' => Has(Peer(e)) \/ packet.body = Challenge(Peer(e))
        /\ wire'[Peer(e)] # <<>>
        /\ wire[Peer(e)] # <<>> => wire'[Peer(e)][1] = wire[Peer(e)][1]
    BY ONLY <2>1, <2>2, SaysFacts, packet \in Packets, e \in Ends
  <2>4. wire[Peer(e)] = <<>> => wire'[Peer(e)][1].body = packet.body
    BY ONLY <2>1, <2>2, SaidFirst, packet \in Packets, e \in Ends
  <2> QED
    BY <2>3, <2>4
<1>6. /\ misled' \subseteq misled \cup {e}
      /\ e \in misled' \ misled => next = "WaitingAnswer" /\ packet.body = Empty
      /\ misled \subseteq misled'
  BY <1>4 DEF Advance
<1>7. e \notin misled
  BY <1>2, <1>4 DEF Astray
<1>8. ~Has(p) /\ challenging[p] # "Accepted"
  BY <1>1, <1>2, <1>4 DEF Reached, Beyond
<1>9. ASSUME p \in misled
      PROVE  Astray(p)'
  <2>1. Astray(p)
    BY <1>2, <1>9
  <2>2. challenging'[p] \in {"WaitingAnswer", "Refused"} /\ challenging'[e] # "Accepted"
        /\ ~Has(e)'
    BY <1>1, <1>3, <1>4, <1>5, <2>1 DEF Astray
  <2>3. ASSUME Reading(p)', Live(p)', e \notin misled'
        PROVE  wire'[p] # <<>> /\ wire'[p][1].body # Challenge(p)
    <3>1. Reading(p) /\ Live(p)
      BY <1>3, <1>4, <2>3 DEF Reading, Live
    <3>2. connection = "up"
      BY <1>1, <1>4, <3>1, BothReading
    <3>3. \/ wire[p] # <<>> /\ wire[p][1].body # Challenge(p)
          \/ wire[p] = <<>> /\ challenging[e] \in {"WaitingRemoteSalt", "WaitingHash"}
      BY <1>1, <1>7, <2>1, <3>1, <3>2 DEF Astray
    <3>4. CASE wire[p] # <<>> /\ wire[p][1].body # Challenge(p)
      BY <1>5, <3>4
    <3>5. CASE wire[p] = <<>> /\ challenging[e] \in {"WaitingRemoteSalt", "WaitingHash"}
      <4>1. packet.body # Challenge(p)
        BY <1>4, <3>5 DEF Advance
      <4> QED
        BY <1>5, <3>5, <4>1
    <3> QED
      BY <3>3, <3>4, <3>5
  <2> QED
    BY <1>1, <2>2, <2>3 DEF Astray
<1>10. ASSUME e \in misled'
       PROVE  Astray(e)'
  <2>1. next = "WaitingAnswer" /\ packet.body = Empty /\ challenging[e] = "WaitingChallenge"
    BY <1>4, <1>6, <1>7, <1>10
  <2>2. Empty # Challenge(p) /\ Empty # Challenge(e)
    BY <1>1, BodyFacts
  <2>3. challenging'[e] \in {"WaitingAnswer", "Refused"} /\ challenging'[p] # "Accepted"
        /\ ~Has(p)'
    BY <1>3, <1>5, <1>8, <2>1, <2>2
  <2>4. CASE misled # {}
    <3>1. p \in misled'
      BY <1>1, <1>2, <1>6, <1>7, <2>4
    <3> QED
      BY <2>3, <3>1 DEF Astray
  <2>5. CASE misled = {}
    <3>1. Order(e) /\ Up(e) /\ Up(p)
      BY <1>1, <2>5 DEF Inv, Bearings, InOrder
    <3>2. wire'[e] = wire[e]
      BY <1>5, <2>1, <2>5, BodyFacts DEF Advance
    <3>3. Left(e) = 2
      BY <2>1, LeftFacts DEF Left
    <3>4. wire[e] # <<>> => wire[e][1].body # Challenge(e)
      <4>1. AnswerLast(e)
        BY <1>4, <3>1 DEF Order
      <4>2. wire[e] # <<>> => 1 \in 1..Under(e)
        BY <1>2, RestFacts DEF Under
      <4> QED
        BY <3>3, <4>1, <4>2 DEF AnswerLast
    <3>5. wire[e] = <<>> /\ connection = "up" => challenging[p] = "WaitingHash"
      <4> SUFFICES ASSUME wire[e] = <<>>, connection = "up"
                   PROVE  challenging[p] = "WaitingHash"
        OBVIOUS
      <4>1. Under(e) + Lines(e) + (4 - Left(e)) = Done(p)
        BY <3>1 DEF Up, Counted
      <4>2. Under(e) = 0 /\ Lines(e) = 0
        BY <1>2, <2>1 DEF Under, Lines, Silent
      <4>3. Done(p) = 5 - Left(p)
        BY <1>8 DEF Done
      <4>4. Left(p) = 3
        <5>1. Left(p) \in 0..4
          BY LeftFacts DEF Left
        <5> QED
          BY <3>3, <4>1, <4>2, <4>3, <5>1
      <4> QED
        BY <4>4 DEF Left, LeftIn
    <3>6. \/ wire'[e] # <<>> /\ wire'[e][1].body # Challenge(e)
          \/ wire'[e] = <<>> /\ (connection' = "up" =>
                challenging'[p] \in {"WaitingRemoteSalt", "WaitingHash"})
      BY <1>3, <1>4, <3>2, <3>4, <3>5
    <3> QED
      BY <2>3, <3>6 DEF Astray
  <2> QED
    BY <2>4, <2>5
<1> QED
  BY <1>1, <1>2, <1>6, <1>9, <1>10

\* A step of the handshake keeps what is known of the wires.
LEMMA AdvanceInv ==
    ASSUME Inv, NEW e \in Ends, NEW rest, NEW packet \in Packets, NEW next,
           Advance(e, rest, packet, next)
    PROVE  Bearings'
<1>1. /\ wire \in [Ends -> Seq(Packets)] /\ got \in [Ends -> Seq(Bodies)]
      /\ Remains(e, rest) /\ got' = got
      /\ wire' = [rest EXCEPT ![Peer(e)] = Append(@, packet)]
  BY Zenon DEF Inv, Bearings, WireType, Advance
<1>2. wire' \in [Ends -> Seq(Packets)]
  BY ONLY <1>1, SaysFacts, packet \in Packets, e \in Ends
<1>3. InOrder'
  BY AdvanceInOrder DEF InOrder
<1>4. \A d \in misled' : Astray(d)'
  BY AdvanceAstray
<1>5. \A d \in Ends : Silent(d)' /\ Heard(d)' /\ SaltFirst(d)' /\ Reached(d)' /\ Open(d)'
  BY AdvanceFacts
<1> QED
  BY <1>1, <1>2, <1>3, <1>4, <1>5 DEF Bearings, WireType

\* The packet an end reads is taken off its wire and nothing is sent.
LEMMA TakenOff ==
    ASSUME Inv, NEW e \in Ends, wire[e] # <<>>, wire' = Rest(e)
    PROVE  /\ wire' \in [Ends -> Seq(Packets)]
           /\ Under(e) \in Nat /\ Under(e) >= 1 /\ Under(e)' = Under(e) - 1
           /\ \A i \in 1..Under(e)' : wire'[e][i] = wire[e][i + 1] /\ i + 1 \in 1..Under(e)
           /\ Under(Peer(e))' = Under(Peer(e)) /\ wire'[Peer(e)] = wire[Peer(e)]
BY RestFacts DEF Inv, Bearings, WireType, Under

\* A line put on the wire of an end that is past refusing is the next one it
\* waits for: SayLine is what the wire of the peer sees of it.
SayLine(e) ==
    /\ connection = "up" /\ connection' = "up"
    /\ PastChallenge(Peer(e)) /\ PastChallenge(e)
    /\ cipher' = cipher /\ got'[Peer(e)] = got[Peer(e)]
    /\ challenging'[e] = "Accepted" /\ challenging'[Peer(e)] = challenging[Peer(e)]
    /\ sent'[e] = sent[e] + 1 /\ sent'[Peer(e)] = sent[Peer(e)]
    /\ Under(Peer(e)) \in Nat /\ Under(Peer(e))' = Under(Peer(e)) + 1
    /\ \A i \in 1..Under(Peer(e)) : wire'[Peer(e)][i] = wire[Peer(e)][i]
    /\ wire'[Peer(e)][Under(Peer(e)) + 1] = [key |-> cipher[e], body |-> LineOf(sent[e] + 1)]

LEMMA SayLineInv ==
    ASSUME Inv, misled = {}, NEW e \in Ends, SayLine(e)
    PROVE  Order(Peer(e))' /\ Up(Peer(e))' /\ Silent(Peer(e))' /\ Heard(Peer(e))'
<1> DEFINE p == Peer(e)
<1>1. p \in Ends /\ p # e /\ Peer(p) = e
  BY PeerFacts
<1>2. /\ got \in [Ends -> Seq(Bodies)] /\ sent \in [Ends -> 0..MaxLines]
      /\ challenging \in [Ends -> ChallengeState]
  BY DEF Inv, Bearings, WireType, TypeOK
<1>3. /\ connection = "up" /\ connection' = "up"
      /\ challenging'[e] = "Accepted" /\ challenging'[p] = challenging[p]
      /\ Lines(p)' = Lines(p) /\ Lines(p) \in Nat /\ cipher' = cipher
      /\ PastChallenge(p) /\ PastChallenge(e)
  BY <1>1, <1>2 DEF SayLine, Lines
<1>4. /\ Under(p) \in Nat /\ Under(p)' = Under(p) + 1
      /\ sent'[e] = sent[e] + 1 /\ sent[e] \in Nat /\ sent'[p] = sent[p]
  BY <1>1, <1>2 DEF SayLine
<1>5. /\ \A i \in 1..Under(p) : wire'[p][i] = wire[p][i]
      /\ wire'[p][Under(p) + 1].key = cipher[e]
      /\ wire'[p][Under(p) + 1].body = LineOf(sent[e] + 1)
  BY DEF SayLine
<1>6. Left(p)' = Left(p) /\ Left(p) \in 0..1 /\ (challenging[p] # "Accepted" => Left(p) = 1)
      /\ (challenging[p] = "Accepted" => Left(p) = 0)
  BY <1>3, LeftFacts DEF Left, PastChallenge
<1>7. /\ Order(p) /\ Up(p) /\ Silent(p) /\ Heard(p) /\ Silent(e)
      /\ HandshakeFirst(p) /\ KeyOfPeer(p) /\ AnswerLast(p) /\ NotBeyond(p) /\ SameKey(p)
      /\ Live(p) /\ Counted(p)
  BY <1>1, <1>3 DEF Inv, Bearings, InOrder, Order, Up, Open, Reading
<1>8. Done(e) = 4 + sent[e] /\ Done(e)' = 4 + sent[e] + 1
  <2>1. challenging[e] = "WaitingAnswer" => Left(e) = 1 /\ sent[e] = 0
    BY <1>7, LeftFacts DEF Left, Silent
  <2> QED
    BY <1>3, <1>4, <2>1 DEF Done, PastChallenge
<1>9. Under(p) + Lines(p) + (4 - Left(p)) = 4 + sent[e]
  BY <1>1, <1>7, <1>8 DEF Counted
<1>10. Left(p) = 1 => Lines(p) = 0
  BY <1>6, <1>7 DEF Silent, Lines
<1>11. Under(p) >= Left(p)
  BY <1>4, <1>6, <1>9, <1>10
<1>12. HandshakeFirst(p)'
  <2> SUFFICES ASSUME NEW i \in 1..Under(p)'
               PROVE  IF i <= Left(p) THEN wire'[p][i].body.is \notin {"line", "empty"}
                      ELSE wire'[p][i].body = LineOf(i - Left(p) + Lines(p))
    BY <1>3, <1>6 DEF HandshakeFirst
  <2>1. CASE i \in 1..Under(p)
    <3>1. IF i <= Left(p) THEN wire[p][i].body.is \notin {"line", "empty"}
          ELSE wire[p][i].body = LineOf(i - Left(p) + Lines(p))
      BY <1>7, <2>1, Zenon DEF HandshakeFirst
    <3>2. wire'[p][i] = wire[p][i]
      BY <1>5, <2>1
    <3> QED
      BY <3>1, <3>2
  <2>2. CASE i = Under(p) + 1
    <3>1. ~(i <= Left(p)) /\ i - Left(p) + Lines(p) = sent[e] + 1
      BY <1>3, <1>4, <1>6, <1>9, <1>11, <2>2
    <3>2. wire'[p][i].body = LineOf(sent[e] + 1)
      BY <1>5, <2>2
    <3> QED
      BY <3>1, <3>2
  <2> QED
    BY <1>4, <2>1, <2>2
<1>13. KeyOfPeer(p)'
  <2> SUFFICES ASSUME NEW i \in 1..Under(p)',
                      wire'[p][i].body.is = "line" \/ wire'[p][i].body = Challenge(p)
               PROVE  wire'[p][i].key = cipher[e]
    BY <1>1, <1>3 DEF KeyOfPeer
  <2>1. CASE i \in 1..Under(p)
    BY <1>1, <1>5, <1>7, <2>1 DEF KeyOfPeer
  <2>2. CASE i = Under(p) + 1
    BY <1>5, <2>2
  <2> QED
    BY <1>4, <2>1, <2>2
<1>14. SameKey(p)'
  BY <1>1, <1>3, <1>7 DEF SameKey
<1>a. AnswerLast(p)'
  <2>1. LineOf(sent[e] + 1) # Challenge(p)
    BY <1>1, <1>4, BodyFacts
  <2> QED
    BY <1>3, <1>4, <1>5, <1>6, <1>7, <2>1 DEF AnswerLast
<1>15. NotBeyond(p)'
  <2>1. Under(p)' + Lines(p) <= Left(p) + (sent[e] + 1)
    BY <1>3, <1>4, <1>6, <1>9
  <2> QED
    BY <1>1, <1>3, <1>4, <1>6, <2>1 DEF NotBeyond
<1>16. Counted(p)'
  <2>1. Under(p)' + Lines(p) + (4 - Left(p)) = 4 + sent[e] + 1
    BY <1>3, <1>4, <1>6, <1>9
  <2> QED
    BY <1>1, <1>3, <1>6, <1>8, <2>1 DEF Counted
<1>18. Silent(p)' /\ Heard(p)'
  <2>1. got'[p] = got[p]
    BY DEF SayLine
  <2>2. Lines(p) <= sent'[e]
    BY <1>1, <1>3, <1>4, <1>7 DEF Heard
  <2> QED
    BY <1>1, <1>3, <1>4, <1>7, <2>1, <2>2 DEF Silent, Heard
<1> QED
  BY <1>12, <1>13, <1>14, <1>a, <1>15, <1>16, <1>18 DEF Order, Up

\* The answer is the challenge: the end accepts and sends its first line.
Accept(e) ==
    /\ Reading(e) /\ Live(e) /\ wire[e] # <<>>
    /\ challenging[e] = "WaitingAnswer"
    /\ wire[e][1].body = Challenge(e) /\ wire[e][1].key = cipher[e]
    /\ challenging' = [challenging EXCEPT ![e] = "Accepted"]
    /\ sent' = [sent EXCEPT ![e] = 1]
    /\ wire' = [Rest(e) EXCEPT ![Peer(e)] =
                  Append(@, [key |-> cipher[e], body |-> LineOf(1)])]
    /\ UNCHANGED <<connection, cipher, got, misled>>

LEMMA AcceptInv ==
    ASSUME Inv, misled = {}, NEW e \in Ends, Accept(e)
    PROVE  Bearings'
<1> DEFINE p == Peer(e)
           packet == [key |-> cipher[e], body |-> LineOf(1)]
<1>1. p \in Ends /\ p # e /\ Peer(p) = e /\ Ends = {e, p}
  BY PeerFacts
<1>2. /\ wire \in [Ends -> Seq(Packets)] /\ Rest(e) \in [Ends -> Seq(Packets)]
      /\ got \in [Ends -> Seq(Bodies)] /\ got' = got
      /\ sent \in [Ends -> 0..MaxLines] /\ cipher' = cipher
      /\ challenging \in [Ends -> ChallengeState] /\ cipher \in [Ends -> Keys \cup {NoKey}]
  BY RestFacts DEF Inv, Bearings, WireType, TypeOK, Accept
<1>3. packet \in Packets
  BY <1>2, BodyFacts DEF Packets
<1>4. /\ wire' \in [Ends -> Seq(Packets)]
      /\ Under(e) \in Nat /\ Under(e) >= 1 /\ Under(e)' = Under(e) - 1
      /\ \A i \in 1..Under(e)' : wire'[e][i] = wire[e][i + 1] /\ i + 1 \in 1..Under(e)
      /\ Under(p) \in Nat /\ Under(p)' = Under(p) + 1
      /\ \A i \in 1..Under(p) : wire'[p][i] = wire[p][i]
      /\ wire'[p][Under(p) + 1] = packet
  <2>1. wire' = [Rest(e) EXCEPT ![Peer(e)] = Append(@, packet)] /\ wire[e] # <<>>
    BY Zenon DEF Accept
  <2> HIDE DEF packet
  <2> QED
    BY ONLY <1>2, <1>3, <2>1, AnswerFacts, e \in Ends
<1>5. /\ challenging'[e] = "Accepted" /\ challenging'[p] = challenging[p]
      /\ challenging[e] = "WaitingAnswer" /\ sent[p] \in Nat
      /\ sent'[e] = 1 /\ sent'[p] = sent[p] /\ sent[e] = 0 /\ got[e] = <<>>
  BY <1>1, <1>2 DEF Inv, Bearings, Silent, Accept
<1>6. /\ Left(e) = 1 /\ Left(e)' = 0 /\ Left(p)' = Left(p) /\ Left(p) \in 0..4
      /\ Lines(e) = 0 /\ Lines(e)' = 0 /\ Lines(p)' = Lines(p)
  BY <1>2, <1>5, LeftFacts DEF Left, Lines
<1>7. HandshakeFirst(e) /\ KeyOfPeer(e) /\ AnswerLast(e) /\ NotBeyond(e)
  BY DEF Inv, Bearings, InOrder, Order, Accept
<1>8. HandshakeFirst(e)' /\ KeyOfPeer(e)' /\ AnswerLast(e)' /\ NotBeyond(e)'
  <2>1. /\ Left(e) \in 0..4 /\ Lines(e) \in Nat /\ sent[Peer(e)] \in Nat
        /\ Left(e)' = Left(e) - 1 /\ Lines(e)' = Lines(e)
        /\ cipher'[Peer(e)] = cipher[Peer(e)] /\ sent'[Peer(e)] = sent[Peer(e)]
    BY <1>2, <1>5, <1>6
  <2>2. /\ Under(e) \in Nat /\ Under(e)' = Under(e) - 1
        /\ \A i \in 1..Under(e)' : wire'[e][i] = wire[e][i + 1] /\ i + 1 \in 1..Under(e)
    BY <1>4
  <2> QED
    BY ONLY <1>7, <2>1, <2>2, ReadShift, e \in Ends
<1>9. cipher[e] = cipher[p]
  BY <1>4, <1>7 DEF KeyOfPeer, Accept
<1>10. Order(e)' /\ Silent(e)' /\ Heard(e)'
  <2>1. SameKey(e)'
    BY <1>2, <1>9 DEF SameKey
  <2>2. Silent(e)' /\ Heard(e)'
    BY <1>5, <1>6 DEF Silent, Heard
  <2> QED
    BY <1>8, <2>1, <2>2 DEF Order
<1>13. Has(e)
  <2>1. 1 \in 1..Under(e)
    BY <1>4
  <2> QED
    BY <2>1 DEF Has, Accept
<1>14. \A d \in Ends : SaltFirst(d)' /\ Reached(d)' /\ Open(d)'
  <2>1. /\ Remains(e, Rest(e))
        /\ wire' = [Rest(e) EXCEPT ![Peer(e)] = Append(@, packet)]
    BY Zenon DEF Remains, Accept
  <2> HIDE DEF packet
  <2>2. /\ Has(e)' => Has(e)
        /\ wire[Peer(e)] # <<>> => wire'[Peer(e)] # <<>> /\ wire'[Peer(e)][1] = wire[Peer(e)][1]
    BY ONLY <1>2, <1>3, <2>1, SaysFacts, e \in Ends
  <2>3. Live(e)' /\ Beyond(e)'
    BY <1>2, <1>5 DEF Live, Beyond, Accept
  <2>4. Forward(e)
    BY <1>2, <1>5, <1>13, <2>2, <2>3 DEF Forward, Accept
  <2> QED
    BY <2>4, ForwardInv
<1>11. ASSUME connection = "up"
       PROVE  \A d \in Ends : Order(d)' /\ Up(d)' /\ Silent(d)' /\ Heard(d)'
  <2>1. Counted(e) /\ connection' = "up"
    BY <1>11 DEF Inv, Bearings, InOrder, Up, Accept
  <2>2. PastChallenge(p)
    BY <1>11, <1>13, Answering
  <2>3. Done(p)' = Done(p) /\ Done(p) \in Int
    BY <1>5, <1>6 DEF Done
  <2>4. Counted(e)'
    <3>1. Under(e) + Lines(e) + (4 - Left(e)) = Done(p)
      BY <2>1 DEF Counted
    <3>2. Under(e)' + 0 + (4 - 0) = Done(p)
      BY <1>4, <1>6, <2>3, <3>1
    <3> QED
      BY <1>6, <2>3, <3>2 DEF Counted
  <2>6. SayLine(e)
    <3>1. /\ sent'[e] = sent[e] + 1
          /\ packet = [key |-> cipher[e], body |-> LineOf(sent[e] + 1)]
      <4>1. sent[e] + 1 = 1
        BY <1>5
      <4> QED
        BY <1>5, <4>1
    <3>2. PastChallenge(e)
      BY <1>5 DEF PastChallenge
    <3> HIDE DEF packet
    <3> QED
      BY <1>2, <1>4, <1>5, <1>11, <2>1, <2>2, <3>1, <3>2 DEF SayLine
  <2>7. Order(p)' /\ Up(p)' /\ Silent(p)' /\ Heard(p)'
    BY <2>6, SayLineInv
  <2> QED
    BY <1>1, <1>10, <2>4, <2>7 DEF Up
<1>12. ASSUME connection # "up"
       PROVE  \A d \in Ends : Order(d)' /\ Up(d)' /\ Silent(d)' /\ Heard(d)'
  <2>1. ~Reading(p)' /\ connection' # "up"
    BY <1>12, PeerFacts, BothReading DEF Accept, Reading, Ends, Peer
  <2>2. Silent(p)' /\ Heard(p)'
    <3>1. Lines(p) \in Nat /\ Lines(p) <= 0
      BY <1>1, <1>2, <1>5 DEF Inv, Bearings, Heard, Lines
    <3>2. Lines(p)' <= sent'[e]
      BY <1>5, <1>6, <3>1
    <3> QED
      BY <1>1, <1>2, <1>5, <1>6, <3>1, <3>2 DEF Inv, Bearings, Silent, Heard
  <2> QED
    BY <1>1, <1>10, <2>1, <2>2 DEF Order, Up
<1> QED
  BY <1>2, <1>4, <1>11, <1>12, <1>14 DEF Bearings, InOrder, WireType, Accept

\* An accepted end reads a line.
Take(e) ==
    /\ Reading(e) /\ Live(e) /\ wire[e] # <<>>
    /\ challenging[e] = "Accepted"
    /\ got' = [got EXCEPT ![e] =
                 Append(@, IF wire[e][1].key = cipher[e] THEN wire[e][1].body ELSE Garbage)]
    /\ wire' = Rest(e)
    /\ UNCHANGED <<connection, challenging, cipher, sent, misled>>

LEMMA TakeInv ==
    ASSUME Inv, misled = {}, NEW e \in Ends, Take(e)
    PROVE  Bearings'
<1> DEFINE p == Peer(e)
<1>1. p \in Ends /\ p # e /\ Peer(p) = e /\ Ends = {e, p}
  BY PeerFacts
<1>2. /\ wire \in [Ends -> Seq(Packets)] /\ got \in [Ends -> Seq(Bodies)]
      /\ sent \in [Ends -> 0..MaxLines]
      /\ connection' = connection /\ challenging' = challenging
      /\ cipher' = cipher /\ sent' = sent
      /\ challenging[e] = "Accepted" /\ wire[e] # <<>> /\ wire' = Rest(e)
  BY DEF Inv, Bearings, WireType, TypeOK, Take
<1>3. /\ wire' \in [Ends -> Seq(Packets)]
      /\ Under(e) \in Nat /\ Under(e) >= 1 /\ Under(e)' = Under(e) - 1
      /\ \A i \in 1..Under(e)' : wire'[e][i] = wire[e][i + 1] /\ i + 1 \in 1..Under(e)
      /\ Under(p)' = Under(p) /\ wire'[p] = wire[p]
  BY <1>2, TakenOff
<1>4. HandshakeFirst(e) /\ KeyOfPeer(e) /\ AnswerLast(e) /\ NotBeyond(e) /\ SameKey(e)
  BY DEF Inv, Bearings, InOrder, Order, Take
<1>5. Left(e) = 0 /\ Left(e)' = 0 /\ Left(p)' = Left(p)
  BY <1>2, LeftFacts DEF Left
<1>6. Lines(e) \in Nat /\ Lines(p) \in Nat /\ sent[p] \in Nat
  BY <1>1, <1>2 DEF Lines
<1>7. 1 \in 1..Under(e) /\ wire[e][1].body = LineOf(1 + Lines(e)) /\ Lines(e) + 1 <= sent[p]
  <2>1. 1 \in 1..Under(e) /\ ~(1 <= Left(e)) /\ 1 - Left(e) + Lines(e) = 1 + Lines(e)
    BY <1>3, <1>5, <1>6
  <2>2. wire[e][1].body = LineOf(1 - Left(e) + Lines(e))
    BY <1>4, <2>1, Zenon DEF HandshakeFirst
  <2>3. Under(e) + Lines(e) <= Left(e) + sent[p]
    BY <1>4 DEF NotBeyond
  <2> QED
    BY <1>3, <1>5, <1>6, <2>1, <2>2, <2>3
<1>8. wire[e][1].key = cipher[e]
  <2>1. 1 + Lines(e) \in Nat
    BY <1>6
  <2>2. wire[e][1].body.is = "line"
    BY <1>7, <2>1, BodyFacts
  <2>3. wire[e][1].key = cipher[p] /\ cipher[e] = cipher[p]
    BY <1>2, <1>4, <1>7, <2>2 DEF KeyOfPeer, SameKey
  <2> QED
    BY <2>3
<1>9. /\ got' \in [Ends -> Seq(Bodies)] /\ got'[p] = got[p]
      /\ Lines(e)' = Lines(e) + 1 /\ got'[e][Lines(e) + 1] = LineOf(1 + Lines(e))
      /\ \A i \in 1..Lines(e) : got'[e][i] = got[e][i]
  <2>1. LineOf(1 + Lines(e)) \in Bodies
    BY <1>6, BodyFacts
  <2>2. got' = [got EXCEPT ![e] = Append(@, LineOf(1 + Lines(e)))]
    BY <1>7, <1>8 DEF Take
  <2> QED
    BY <1>1, <1>2, <2>1, <2>2 DEF Lines
<1>10. HandshakeFirst(e)' /\ KeyOfPeer(e)' /\ AnswerLast(e)' /\ NotBeyond(e)'
  <2>1. /\ Left(e) \in 0..4 /\ Lines(e) \in Nat /\ sent[Peer(e)] \in Nat
        /\ Left(e)' = 0 /\ Left(e) = 0 /\ Lines(e)' = Lines(e) + 1
        /\ cipher'[Peer(e)] = cipher[Peer(e)] /\ sent'[Peer(e)] = sent[Peer(e)]
    BY <1>2, <1>5, <1>6, <1>9
  <2>2. /\ Under(e) \in Nat /\ Under(e)' = Under(e) - 1
        /\ \A i \in 1..Under(e)' : wire'[e][i] = wire[e][i + 1] /\ i + 1 \in 1..Under(e)
    BY <1>3
  <2> QED
    BY ONLY <1>4, <2>1, <2>2, ReadShift, e \in Ends
<1>11. Order(e)' /\ Silent(e)'
  <2>1. SameKey(e)'
    BY <1>2, <1>4 DEF SameKey
  <2>2. Silent(e)'
    BY <1>2 DEF Silent
  <2> QED
    BY <1>10, <2>1, <2>2 DEF Order
<1>12. Heard(e)'
  <2>1. \A i \in 1..Lines(e)' : got'[e][i] = LineOf(i)
    <3> SUFFICES ASSUME NEW i \in 1..(Lines(e) + 1) PROVE got'[e][i] = LineOf(i)
      BY <1>9
    <3>1. CASE i \in 1..Lines(e)
      BY <1>9, <3>1 DEF Inv, Bearings, Heard
    <3>2. CASE i = Lines(e) + 1
      BY <1>6, <1>9, <3>2
    <3> QED
      BY <1>6, <3>1, <3>2
  <2> QED
    BY <1>2, <1>6, <1>7, <1>9, <2>1 DEF Heard
<1>13. Up(e)'
  <2> SUFFICES ASSUME connection = "up"
               PROVE  Counted(e)'
    BY <1>2 DEF Up
  <2>1. Under(e) + Lines(e) + (4 - Left(e)) = Done(p)
    BY DEF Inv, Bearings, InOrder, Up, Counted
  <2>2. Under(e)' + Lines(e)' + (4 - Left(e)') = Done(p)
    BY <1>3, <1>5, <1>6, <1>9, <2>1
  <2>3. Done(p)' = Done(p)
    BY <1>2, <1>5 DEF Done
  <2> QED
    BY <2>2, <2>3 DEF Counted
<1>14. Order(p)' /\ Up(p)' /\ Silent(p)' /\ Heard(p)'
  <2>1. Order(p) /\ Up(p) /\ Silent(p) /\ Heard(p)
    BY <1>1 DEF Inv, Bearings, InOrder
  <2>2. Lines(p)' = Lines(p) /\ Left(e)' = Left(e) /\ Done(e)' = Done(e)
    BY <1>2, <1>5, <1>9 DEF Lines, Done
  <2>3. Live(p)' = Live(p) /\ Reading(p)' = Reading(p)
    BY <1>2, Zenon DEF Live, Reading
  <2>4. Order(p)'
    <3> SUFFICES ASSUME Reading(p), Live(p)
                 PROVE  /\ HandshakeFirst(p)' /\ KeyOfPeer(p)' /\ AnswerLast(p)'
                        /\ NotBeyond(p)' /\ SameKey(p)'
      BY <2>3 DEF Order
    <3>1. HandshakeFirst(p) /\ KeyOfPeer(p) /\ AnswerLast(p) /\ NotBeyond(p) /\ SameKey(p)
      BY <2>1 DEF Order
    <3>2. HandshakeFirst(p)'
      BY <1>3, <1>5, <2>2, <3>1 DEF HandshakeFirst
    <3>3. KeyOfPeer(p)' /\ AnswerLast(p)' /\ SameKey(p)'
      BY <1>2, <1>3, <1>5, <3>1 DEF KeyOfPeer, AnswerLast, SameKey
    <3>4. NotBeyond(p)'
      BY <1>2, <1>3, <1>5, <2>2, <3>1 DEF NotBeyond
    <3> QED
      BY <3>1, <3>2, <3>3, <3>4
  <2>5. Up(p)'
    BY <1>1, <1>2, <1>3, <1>5, <2>1, <2>2 DEF Up, Counted
  <2> QED
    BY <1>2, <1>9, <2>1, <2>2, <2>4, <2>5 DEF Silent, Heard
<1>15. \A d \in Ends : SaltFirst(d)' /\ Reached(d)' /\ Open(d)'
  <2>1. wire \in [Ends -> Seq(Packets)] /\ Remains(e, Rest(e)) /\ wire' = Rest(e)
    BY <1>2 DEF Remains
  <2>2. \A d \in Ends : Has(d)' => Has(d)
    BY ONLY <2>1, TakesFacts, e \in Ends
  <2>3. Forward(e)
    BY <1>1, <1>2, <1>3, <2>2 DEF Forward, Live, Beyond, Take
  <2> QED
    BY <2>3, ForwardInv
<1> QED
  BY <1>1, <1>3, <1>9, <1>11, <1>12, <1>13, <1>14, <1>15 DEF Bearings, InOrder, WireType, Take

----------------------------------------------------------------------------
(* Connections that end, and the other steps.                              *)

\* An end refuses, fails or is destroyed, or the connection is lost: the
\* collector may still read what is under way to it, or a beginning of it.
Cut ==
    /\ connection # "none" /\ connection' = "lost"
    /\ UNCHANGED <<cipher, sent, got, misled>>
    /\ challenging' \in [Ends -> ChallengeState]
    /\ \A e \in Ends :
         \/ challenging'[e] = challenging[e]
         \/ challenging'[e] = "Refused" /\ challenging[e] # "Accepted"
         \/ challenging'[e] = "WaitingChallenge" /\ challenging[e] = "WaitingHash"
    /\ \A e \in Ends : Has(e)' => Has(e)
    /\ \/ ~Live("collector")'
       \/ misled # {} /\ challenging'["collector"] = "WaitingHash"
       \/ /\ challenging'["collector"] = challenging["collector"]
          /\ Under("collector")' \in 0..Under("collector")
          /\ \A i \in 1..Under("collector")' : wire'["collector"][i] = wire["collector"][i]

LEMMA CutInv ==
    ASSUME Inv, wire' \in [Ends -> Seq(Packets)], Cut
    PROVE  Bearings'
<1> DEFINE c == "collector"
           p == "probe"
<1>1. c \in Ends /\ p \in Ends /\ p # c /\ Peer(c) = p /\ Peer(p) = c /\ Ends = {c, p}
  BY DEF Ends, Peer
<1>2. /\ wire \in [Ends -> Seq(Packets)] /\ got \in [Ends -> Seq(Bodies)]
      /\ sent \in [Ends -> 0..MaxLines] /\ got' = got /\ sent' = sent /\ cipher' = cipher
      /\ misled' = misled /\ misled \subseteq Ends
      /\ challenging' \in [Ends -> ChallengeState]
      /\ connection # "none" /\ connection' = "lost" /\ connection \in {"none", "up", "lost"}
  BY DEF Inv, Bearings, WireType, TypeOK, Cut
<1>a. /\ \A d \in Ends : challenging[d] = "Accepted" <=> challenging'[d] = "Accepted"
      /\ \A d \in Ends : challenging'[d] = "WaitingRemoteSalt" =>
                             challenging[d] = "WaitingRemoteSalt"
      /\ \A d \in Ends : Beyond(d) => Beyond(d)'
      /\ \A d \in Ends : Has(d)' => Has(d)
  BY DEF Cut, Beyond
<1>3. \A d \in Ends : Up(d)' /\ Open(d)' /\ Silent(d)' /\ Heard(d)' /\ Reached(d)'
  <2>1. \A d \in Ends : Silent(d)' /\ Heard(d)'
    BY <1>2, <1>a, KeepsLines
  <2>2. \A d \in Ends : Reached(d) /\ Peer(d) \in Ends
    BY PeerFacts DEF Inv, Bearings
  <2>3. \A d \in Ends : Reached(d)'
    BY <1>a, <2>2 DEF Reached
  <2> QED
    BY <1>2, <2>1, <2>3 DEF Up, Open
<1>4. Order(p)'
  BY <1>1, <1>2 DEF Order, Reading
<1>b. ASSUME Live(c)', misled = {} \/ challenging'[c] # "WaitingHash"
      PROVE  /\ challenging'[c] = challenging[c] /\ Live(c) /\ Reading(c)
             /\ Under(c)' \in 0..Under(c)
             /\ \A i \in 1..Under(c)' : wire'[c][i] = wire[c][i]
             /\ wire'[c] # <<>> => wire[c] # <<>> /\ wire'[c][1] = wire[c][1]
  <2>1. /\ challenging'[c] = challenging[c]
        /\ Under(c)' \in 0..Under(c)
        /\ \A i \in 1..Under(c)' : wire'[c][i] = wire[c][i]
    BY <1>b DEF Cut
  <2>2. Live(c) /\ Reading(c)
    BY <1>2, <1>b, <2>1 DEF Live, Reading
  <2>3. wire'[c] # <<>> => 1 \in 1..Under(c)' /\ 1 \in 1..Under(c)
    BY <1>1, <1>2, <2>1 DEF Under
  <2>4. wire'[c] # <<>> => wire[c] # <<>> /\ wire'[c][1] = wire[c][1]
    BY <1>1, <1>2, <2>1, <2>3 DEF Under
  <2> QED
    BY <2>1, <2>2, <2>4
<1>5. ASSUME misled = {}
      PROVE  Order(c)'
  <2> SUFFICES ASSUME Live(c)'
               PROVE  /\ HandshakeFirst(c)' /\ KeyOfPeer(c)' /\ AnswerLast(c)'
                      /\ NotBeyond(c)' /\ SameKey(c)'
    BY DEF Order
  <2>1. /\ challenging'[c] = challenging[c]
        /\ Under(c)' \in 0..Under(c)
        /\ \A i \in 1..Under(c)' : wire'[c][i] = wire[c][i]
    BY <1>5, <1>b
  <2>2. Left(c)' = Left(c) /\ Left(c) \in 0..4 /\ Live(c) /\ Reading(c)
    BY <1>5, <1>b, <2>1, LeftFacts DEF Left
  <2>3. HandshakeFirst(c) /\ KeyOfPeer(c) /\ AnswerLast(c) /\ NotBeyond(c) /\ SameKey(c)
    BY <1>1, <1>5, <2>2 DEF Inv, Bearings, InOrder, Order
  <2>4. /\ Lines(c)' = Lines(c) /\ Lines(c) \in Nat /\ sent[p] \in Nat
        /\ Under(c) \in Nat /\ Under(c)' \in Nat /\ Under(c)' <= Under(c)
        /\ \A i \in 1..Under(c)' : i \in 1..Under(c)
    BY <1>1, <1>2, <2>1 DEF Lines, Under
  <2>5. HandshakeFirst(c)'
    <3> SUFFICES ASSUME NEW i \in 1..Under(c)'
                 PROVE  IF i <= Left(c) THEN wire'[c][i].body.is \notin {"line", "empty"}
                        ELSE wire'[c][i].body = LineOf(i - Left(c) + Lines(c))
      BY <2>2, <2>4 DEF HandshakeFirst
    <3>1. i \in 1..Under(c) /\ wire'[c][i] = wire[c][i]
      BY <2>1, <2>4
    <3>2. IF i <= Left(c) THEN wire[c][i].body.is \notin {"line", "empty"}
          ELSE wire[c][i].body = LineOf(i - Left(c) + Lines(c))
      BY <2>3, <3>1, Zenon DEF HandshakeFirst
    <3> QED
      BY <3>1, <3>2
  <2>6. KeyOfPeer(c)' /\ AnswerLast(c)' /\ SameKey(c)'
    BY <1>1, <1>2, <2>1, <2>2, <2>3, <2>4 DEF KeyOfPeer, AnswerLast, SameKey
  <2>8. NotBeyond(c)'
    <3>1. Under(c) + Lines(c) <= Left(c) + sent[p]
      BY <1>1, <2>3 DEF NotBeyond
    <3>2. Under(c)' + Lines(c) <= Left(c) + sent[p]
      BY <2>2, <2>4, <3>1
    <3> QED
      BY <1>1, <1>2, <2>2, <2>4, <3>2 DEF NotBeyond
  <2> QED
    BY <2>5, <2>6, <2>8
<1>6. \A d \in Ends : SaltFirst(d)'
  <2>1. SaltFirst(p)'
    BY <1>1, <1>2 DEF SaltFirst, Reading
  <2>2. SaltFirst(c)'
    <3> SUFFICES ASSUME challenging'[c] = "WaitingRemoteSalt", wire'[c] # <<>>
                 PROVE  wire'[c][1].body = Salt(p)
      BY <1>1, <1>2 DEF SaltFirst
    <3>1. challenging[c] = "WaitingRemoteSalt" /\ SaltFirst(c)
      BY <1>1, <1>a DEF Inv, Bearings
    <3>2. Live(c)'
      BY DEF Live
    <3> QED
      BY <1>1, <1>b, <3>1, <3>2 DEF SaltFirst
  <2> QED
    BY <1>1, <2>1, <2>2
<1>7. \A d \in misled' : Astray(d)'
  <2> SUFFICES ASSUME NEW d \in misled
               PROVE  Astray(d)'
    BY <1>2
  <2>1. Astray(d) /\ d \in Ends /\ Peer(d) \in Ends
    BY <1>2, PeerFacts DEF Inv, Bearings
  <2>2. /\ challenging'[d] \in {"WaitingAnswer", "Refused"}
        /\ challenging'[Peer(d)] # "Accepted" /\ ~Has(Peer(d))'
    <3>1. challenging'[d] = challenging[d] \/ challenging'[d] = "Refused"
      BY <2>1 DEF Cut, Astray
    <3> QED
      BY <1>a, <2>1, <3>1 DEF Astray
  <2>3. ASSUME Reading(d)', Live(d)', Peer(d) \notin misled
        PROVE  \/ wire'[d] # <<>> /\ wire'[d][1].body # Challenge(d)
               \/ wire'[d] = <<>>
    <3>1. d = c
      BY <1>2, <2>3 DEF Reading
    <3>2. \/ wire[d] # <<>> /\ wire[d][1].body # Challenge(d)
          \/ wire[d] = <<>>
      BY <1>b, <2>1, <2>2, <2>3, <3>1 DEF Astray
    <3> QED
      BY <1>b, <2>2, <2>3, <3>1, <3>2
  <2> QED
    BY <1>2, <2>2, <2>3 DEF Astray
<1> QED
  BY <1>1, <1>2, <1>3, <1>4, <1>5, <1>6, <1>7 DEF Bearings, InOrder, WireType

LEMMA ConnectInv == Inv /\ Connect => Inv'
<1> SUFFICES ASSUME Inv, Connect PROVE Inv'
  OBVIOUS
<1>1. /\ cipher \in [Ends -> Keys \cup {NoKey}] /\ cipher["collector"] = NoKey
      /\ connection' = "up" /\ challenging' = [e \in Ends |-> "WaitingRemoteSalt"]
      /\ sent' = [e \in Ends |-> 0] /\ got' = [e \in Ends |-> <<>>]
      /\ blanks' = [e \in Ends |-> 0] /\ misled' = {}
      /\ cipher' = [e \in Ends |-> NoKey]
      /\ \A e \in Ends : ~cr'[e]
      /\ UNCHANGED <<qicrkey, alive, torn, leftover, cr, losses, splits>>
  BY DEF Inv, TypeOK, Fresh, Connect, Ends
<1>2. wire' = [e \in Ends |-> <<[key |-> NoKey, body |-> Salt(Peer(e))]>>]
  BY <1>1, PeerFacts DEF Connect
<1>3. TypeOK'
  <2>1. "WaitingRemoteSalt" \in ChallengeState /\ 0 \in 0..MaxLines
    BY DEF ChallengeState
  <2>2. /\ challenging' \in [Ends -> ChallengeState] /\ sent' \in [Ends -> 0..MaxLines]
        /\ blanks' \in [Ends -> Nat]
    BY <1>1, <2>1
  <2>3. cipher' \in [Ends -> Keys \cup {NoKey}] /\ \A e \in Ends : cipher'[e] = NoKey
    BY <1>1
  <2> QED
    BY <1>1, <2>2, <2>3 DEF Inv, TypeOK
<1>4. WireType'
  <2>1. \A e \in Ends : [key |-> NoKey, body |-> Salt(Peer(e))] \in Packets
    BY BodyFacts, PeerFacts DEF Packets
  <2>2. \A e \in Ends : <<[key |-> NoKey, body |-> Salt(Peer(e))]>> \in Seq(Packets)
    BY <2>1
  <2>3. got' \in [Ends -> Seq(Bodies)]
    BY <1>1
  <2> QED
    BY <1>2, <2>2, <2>3 DEF WireType
<1>5. Fresh' /\ KeyInv' /\ OfPacket'
  BY <1>1 DEF Fresh, KeyInv, OfPacket, Ends
<1>6. Blanks'
  <2>1. /\ blanks'["collector"] = 0 /\ blanks'["probe"] = 0
        /\ Pending("collector")' = 0 /\ Pending("probe")' = 0
    BY <1>1 DEF Pending, Ends
  <2>2. splits' \in Nat
    BY <1>3 DEF TypeOK
  <2> QED
    BY <2>1, <2>2 DEF Blanks
<1>7. ASSUME NEW e \in Ends
      PROVE  /\ Order(e)' /\ Up(e)' /\ Open(e)' /\ Silent(e)' /\ Heard(e)'
             /\ SaltFirst(e)' /\ Reached(e)'
  <2>1. Peer(e) \in Ends /\ Peer(e) # e
    BY PeerFacts
  <2>2. /\ challenging'[e] = "WaitingRemoteSalt" /\ challenging'[Peer(e)] = "WaitingRemoteSalt"
        /\ sent'[e] = 0 /\ sent'[Peer(e)] = 0 /\ got'[e] = <<>> /\ cipher'[Peer(e)] = NoKey
        /\ wire'[e] = <<[key |-> NoKey, body |-> Salt(Peer(e))]>>
    BY <1>1, <1>2, <2>1
  <2>3. Under(e)' = 1 /\ wire'[e][1] = [key |-> NoKey, body |-> Salt(Peer(e))]
        /\ wire'[e] # <<>>
    BY <2>2 DEF Under
  <2>4. Left(e)' = 4 /\ Left(Peer(e))' = 4 /\ Done(Peer(e))' = 1 /\ Lines(e)' = 0
    BY <2>2, LeftFacts DEF Left, Done, Lines
  <2>5. Salt(Peer(e)).is \notin {"line", "empty"} /\ Salt(Peer(e)) # Challenge(e)
    BY <2>1, BodyFacts
  <2>6. /\ wire'[e][1].key = NoKey /\ wire'[e][1].body = Salt(Peer(e))
        /\ \A i \in 1..Under(e)' : i = 1
    BY <2>3
  <2>7. HandshakeFirst(e)' /\ KeyOfPeer(e)' /\ AnswerLast(e)' /\ SameKey(e)'
    BY <2>2, <2>4, <2>5, <2>6 DEF HandshakeFirst, KeyOfPeer, AnswerLast, SameKey
  <2>8. NotBeyond(e)' /\ Counted(e)'
    BY <2>2, <2>3, <2>4 DEF NotBeyond, Counted
  <2>9. Live(e)' /\ SaltFirst(e)' /\ Reached(e)'
    BY <2>2, <2>3, <2>5, <2>6 DEF Live, SaltFirst, Reached, Has
  <2>10. Silent(e)' /\ Heard(e)'
    BY <2>2, <2>4 DEF Silent, Heard
  <2> QED
    BY <2>7, <2>8, <2>9, <2>10 DEF Order, Up, Open
<1>8. Bearings'
  BY <1>1, <1>4, <1>7 DEF Bearings, InOrder
<1> QED
  BY <1>3, <1>5, <1>6, <1>8 DEF Inv

LEMMA SeesEndInv == Inv /\ SeesEnd => Inv'
<1> SUFFICES ASSUME Inv, SeesEnd PROVE Inv'
  OBVIOUS
<1>1. /\ connection' = "none" /\ cipher' = [cipher EXCEPT !["collector"] = NoKey]
      /\ torn' = "none" /\ wire' = [e \in Ends |-> <<>>] /\ cr' = [e \in Ends |-> FALSE]
      /\ UNCHANGED <<qicrkey, alive, challenging, sent, got, blanks, misled, losses, splits>>
      /\ leftover' \in Joined(leftover, torn)
  BY DEF SeesEnd, lines
<1>2. "collector" \in Ends /\ "probe" \in Ends /\ "probe" # "collector"
  BY DEF Ends
<1>3. TypeOK'
  <2>1. leftover' \in Pieces \cup {"none"}
    <3>1. leftover \in Pieces \cup {"none"} /\ torn \in Pieces \cup {"none"}
      BY DEF Inv, TypeOK
    <3>2. Joined(leftover, torn) \subseteq Pieces \cup {"none"}
      BY <3>1 DEF Joined
    <3> QED
      BY <1>1, <3>2
  <2>2. /\ cipher' \in [Ends -> Keys \cup {NoKey}]
        /\ \A e \in Ends : cipher'[e] # NoKey => cipher'[e] = cipher[e]
    BY <1>1, <1>2 DEF Inv, TypeOK
  <2>3. cr' \in [Ends -> BOOLEAN] /\ \A e \in Ends : wire'[e] = <<>> /\ ~cr'[e]
    BY <1>1
  <2> QED
    BY <1>1, <1>2, <2>1, <2>2, <2>3 DEF Inv, TypeOK
<1>4. WireType'
  <2>1. <<>> \in Seq(Packets)
    OBVIOUS
  <2> QED
    BY <1>1, <2>1 DEF Inv, Bearings, WireType
<1>5. Fresh' /\ KeyInv' /\ OfPacket'
  BY <1>1, <1>2 DEF Inv, TypeOK, Fresh, KeyInv, OfPacket
<1>6. Blanks'
  <2>1. /\ Pending("collector")' = 0 /\ Pending("probe")' = 0
        /\ Pending("collector") \in 0..1 /\ Pending("probe") \in 0..1
    BY <1>1, <1>2 DEF Pending
  <2>2. /\ blanks["collector"] \in Nat /\ blanks["probe"] \in Nat /\ splits \in Nat
    BY <1>2 DEF Inv, TypeOK
  <2>3. blanks["collector"] + blanks["probe"] + Pending("collector") + Pending("probe") <= splits
    BY DEF Inv, Blanks
  <2>4. blanks["collector"] + blanks["probe"] + 0 + 0 <= splits
    BY <2>1, <2>2, <2>3
  <2> QED
    BY <1>1, <2>1, <2>4 DEF Blanks
<1>7. \A e \in Ends : ~Has(e)' /\ ~Reading(e)'
  <2>1. \A e \in Ends : Under(e)' = 0
    BY <1>1 DEF Under
  <2> QED
    BY <1>1, <2>1 DEF Has, Reading
<1>8. ASSUME NEW e \in Ends
      PROVE  /\ Order(e)' /\ Up(e)' /\ Open(e)' /\ Silent(e)' /\ Heard(e)'
             /\ SaltFirst(e)' /\ Reached(e)'
  <2>1. Silent(e) /\ Heard(e) /\ Reached(e) /\ Lines(e)' = Lines(e)
    BY <1>1 DEF Inv, Bearings, Lines
  <2>2. Reached(e)'
    BY <1>1, <1>7, <2>1 DEF Reached, Beyond
  <2> QED
    BY <1>1, <1>7, <2>1, <2>2 DEF Order, Up, Open, Silent, Heard, SaltFirst
<1>9. \A e \in misled' : Astray(e)'
  <2> SUFFICES ASSUME NEW e \in misled PROVE Astray(e)'
    BY <1>1
  <2>1. Astray(e) /\ e \in Ends /\ Peer(e) \in Ends
    BY PeerFacts DEF Inv, Bearings, TypeOK
  <2> QED
    BY <1>1, <1>7, <2>1 DEF Astray
<1> QED
  BY <1>3, <1>4, <1>5, <1>6, <1>8, <1>9 DEF Inv, Bearings, InOrder

\* What is left of the wires when a connection is cut short.
LEMMA CutShortFacts ==
    ASSUME wire \in [Ends -> Seq(Packets)], NEW w \in [Ends -> Seq(Packets)],
           w["collector"] = wire["collector"], CutShort(w)
    PROVE  /\ wire' \in [Ends -> Seq(Packets)] /\ torn' \in Pieces \cup {"none"}
           /\ Under("collector")' \in 0..Under("collector")
           /\ \A i \in 1..Under("collector")' : wire'["collector"][i] = wire["collector"][i]
           /\ \A d \in Ends : Has(d)' => Has(d)
<1>1. /\ "collector" \in Ends /\ "probe" \in Ends /\ "probe" # "collector"
      /\ Ends = {"collector", "probe"}
  BY DEF Ends
<1>2. PICK n \in 0..Len(w["collector"]) :
        /\ wire' = [w EXCEPT !["collector"] = SubSeq(@, 1, n), !["probe"] = <<>>]
        /\ torn' \in {"none"} \cup IF n < Len(w["collector"]) THEN Pieces ELSE {}
  BY DEF CutShort
<1>3. wire["collector"] \in Seq(Packets)
  BY <1>1
<1>4. /\ SubSeq(wire["collector"], 1, n) \in Seq(Packets)
      /\ Len(SubSeq(wire["collector"], 1, n)) = n
      /\ \A i \in 1..n : SubSeq(wire["collector"], 1, n)[i] = wire["collector"][i]
  BY <1>3
<1>5. wire'["collector"] = SubSeq(wire["collector"], 1, n) /\ wire'["probe"] = <<>>
      /\ <<>> \in Seq(Packets)
  BY <1>1, <1>2
<1>6. wire' \in [Ends -> Seq(Packets)]
  BY <1>1, <1>2, <1>4, <1>5
<1>7. /\ Under("collector")' \in 0..Under("collector")
      /\ \A i \in 1..Under("collector")' :
            i \in 1..Under("collector") /\ wire'["collector"][i] = wire["collector"][i]
  BY <1>3, <1>4, <1>5 DEF Under
<1>8. \A d \in Ends : Has(d)' => Has(d)
  <2>1. ~Has("probe")'
    BY <1>5 DEF Has, Under
  <2>2. Has("collector")' => Has("collector")
    BY <1>7 DEF Has
  <2> QED
    BY <1>1, <2>1, <2>2
<1> QED
  BY <1>2, <1>6, <1>7, <1>8

\* Whatever breaks a connection between two packets leaves the ends alone.
LEMMA BreakInv ==
    ASSUME Inv, connection # "none", connection' = "lost",
           UNCHANGED <<qicrkey, ends, cr, splits>>,
           alive' \in BOOLEAN, leftover' \in {leftover, "none"},
           torn' \in Pieces \cup {"none"}, losses' \in 0..MaxLosses,
           wire' \in [Ends -> Seq(Packets)],
           Under("collector")' \in 0..Under("collector"),
           \A i \in 1..Under("collector")' : wire'["collector"][i] = wire["collector"][i],
           \A d \in Ends : Has(d)' => Has(d)
    PROVE  Inv'
<1>1. Cut
  BY DEF Cut, ends, lines, Inv, TypeOK
<1>2. TypeOK' /\ Fresh' /\ KeyInv' /\ OfPacket'
  BY DEF Inv, TypeOK, Fresh, KeyInv, OfPacket, ends, lines
<1>3. Blanks'
  BY DEF Inv, Blanks, Pending, ends, lines
<1> QED
  BY <1>1, <1>2, <1>3, CutInv DEF Inv

LEMMA LoseInv == Inv /\ Lose => Inv'
<1> SUFFICES ASSUME Inv, Lose PROVE Inv'
  OBVIOUS
<1>1. /\ losses < MaxLosses /\ losses' = losses + 1
      /\ connection = "up" /\ connection' = "lost"
      /\ UNCHANGED <<qicrkey, alive, ends, leftover, cr, splits>>
      /\ wire \in [Ends -> Seq(Packets)] /\ CutShort(wire)
  BY DEF Lose, Inv, Bearings, WireType
<1>2. losses' \in 0..MaxLosses /\ alive' \in BOOLEAN
  BY <1>1 DEF Inv, TypeOK
<1>3. /\ wire' \in [Ends -> Seq(Packets)] /\ torn' \in Pieces \cup {"none"}
      /\ Under("collector")' \in 0..Under("collector")
      /\ \A i \in 1..Under("collector")' : wire'["collector"][i] = wire["collector"][i]
      /\ \A d \in Ends : Has(d)' => Has(d)
  BY <1>1, CutShortFacts
<1> QED
  BY <1>1, <1>2, <1>3, BreakInv

\* While an end is misled, no end accepts, and none has its answer coming but
\* one that looks for it at another place.
LEMMA MisledFacts ==
    ASSUME Inv, misled # {}, NEW e \in Ends
    PROVE  /\ challenging[e] # "Accepted"
           /\ Reading(e) /\ Live(e) /\ challenging[e] = "WaitingAnswer" /\ wire[e] # <<>> =>
                wire[e][1].body # Challenge(e)
<1>1. PICK d \in misled : Astray(d) /\ d \in Ends /\ \A x \in misled : Astray(x)
  BY DEF Inv, Bearings, TypeOK
<1>2. (e = d \/ (e = Peer(d) /\ Peer(e) = d)) /\ Peer(e) \in Ends /\ Peer(Peer(e)) = e
  BY <1>1, PeerFacts
<1>3. challenging[e] # "Accepted"
  BY <1>1, <1>2 DEF Astray
<1>4. ASSUME Reading(e), Live(e), wire[e] # <<>>, challenging[e] = "WaitingAnswer",
             wire[e][1].body = Challenge(e)
      PROVE  FALSE
  <2>1. Has(e)
    <3>1. 1 \in 1..Under(e)
      BY <1>4, RestFacts DEF Inv, Bearings, WireType, Under
    <3> QED
      BY <1>4, <3>1 DEF Has
  <2>2. Peer(e) \notin misled
    BY <1>1, <1>2, <2>1 DEF Astray
  <2>3. e \in misled
    BY <1>1, <1>2, <2>2
  <2> QED
    BY <1>1, <1>4, <2>2, <2>3 DEF Astray
<1> QED
  BY <1>3, <1>4

LEMMA SendInv == ASSUME Inv, NEW e \in Ends, Send(e) PROVE Inv'
<1> DEFINE p == Peer(e)
           packet == [key |-> cipher[e], body |-> LineOf(sent[e] + 1)]
<1>1. p \in Ends /\ p # e /\ Peer(p) = e /\ Ends = {e, p}
  BY PeerFacts
<1>2. /\ wire \in [Ends -> Seq(Packets)] /\ got \in [Ends -> Seq(Bodies)]
      /\ sent \in [Ends -> 0..MaxLines] /\ cipher \in [Ends -> Keys \cup {NoKey}]
      /\ connection = "up" /\ challenging[e] = "Accepted" /\ sent[e] < MaxLines
      /\ sent' = [sent EXCEPT ![e] = sent[e] + 1]
      /\ UNCHANGED <<qicrkey, alive, connection, challenging, cipher, got, blanks, misled,
                     torn, leftover, cr, losses, splits>>
  BY DEF Inv, Bearings, WireType, TypeOK, Send
<1>a. misled = {}
  BY <1>2, MisledFacts
<1>3. packet \in Packets
  BY <1>1, <1>2, BodyFacts DEF Packets
<1>4. /\ wire' \in [Ends -> Seq(Packets)] /\ wire'[e] = wire[e]
      /\ Under(p) \in Nat /\ Under(p)' = Under(p) + 1
      /\ \A i \in 1..Under(p) : wire'[p][i] = wire[p][i]
      /\ wire'[p][Under(p) + 1] = packet
  <2>1. wire' = [wire EXCEPT ![Peer(e)] = Append(@, packet)] /\ wire \in [Ends -> Seq(Packets)]
    BY <1>2, Zenon DEF Send, Say, Packet
  <2> HIDE DEF packet
  <2>2. /\ wire' \in [Ends -> Seq(Packets)]
        /\ wire'[e] = wire[e]
        /\ Len(wire[Peer(e)]) \in Nat
        /\ Len(wire'[Peer(e)]) = Len(wire[Peer(e)]) + 1
        /\ \A i \in 1..Len(wire[Peer(e)]) : wire'[Peer(e)][i] = wire[Peer(e)][i]
        /\ wire'[Peer(e)][Len(wire[Peer(e)]) + 1] = packet
    BY ONLY <1>3, <2>1, AppendFacts, e \in Ends
  <2> QED
    BY <2>2 DEF Under
<1>5. /\ Heard(e) /\ Live(e) /\ Counted(e) /\ Reading(e)
      /\ HandshakeFirst(e) /\ KeyOfPeer(e) /\ AnswerLast(e) /\ NotBeyond(e) /\ SameKey(e)
  BY <1>2, <1>a DEF Inv, Bearings, InOrder, Order, Up, Open, Reading
<1>6. /\ sent'[e] = sent[e] + 1 /\ sent[e] + 1 \in 0..MaxLines /\ sent'[p] = sent[p]
  BY <1>1, <1>2
<1>7. Under(e)' = Under(e) /\ Lines(e)' = Lines(e) /\ Left(e)' = Left(e) /\ Done(p)' = Done(p)
  BY <1>2, <1>4, <1>6 DEF Under, Lines, Left, Done
<1>8. Order(e)'
  <2>1. HandshakeFirst(e)' /\ KeyOfPeer(e)' /\ AnswerLast(e)' /\ SameKey(e)'
    BY <1>2, <1>4, <1>5, <1>7 DEF HandshakeFirst, KeyOfPeer, AnswerLast, SameKey
  <2>2. NotBeyond(e)'
    BY <1>5, <1>6, <1>7 DEF NotBeyond
  <2> QED
    BY <2>1, <2>2 DEF Order
<1>9. Up(e)' /\ Silent(e)' /\ Heard(e)'
  <2>1. Counted(e)'
    BY <1>5, <1>7 DEF Counted
  <2>3. Silent(e)' /\ Heard(e)'
    BY <1>2, <1>5, <1>6, <1>7 DEF Silent, Heard
  <2> QED
    BY <2>1, <2>3 DEF Up
<1>10. Order(p)' /\ Up(p)' /\ Silent(p)' /\ Heard(p)'
  <2>1. PastChallenge(p) /\ PastChallenge(e)
    BY <1>2, Answering DEF PastChallenge
  <2>2. SayLine(e)
    BY <1>2, <1>4, <1>6, <2>1, Zenon DEF SayLine
  <2> QED
    BY <1>a, <2>2, SayLineInv
<1>11. \A d \in Ends : SaltFirst(d)' /\ Reached(d)' /\ Open(d)'
  <2>1. /\ Remains(e, wire) /\ wire \in [Ends -> Seq(Packets)]
        /\ wire' = [wire EXCEPT ![Peer(e)] = Append(@, packet)]
    BY <1>2, Zenon DEF Remains, Send, Say, Packet
  <2> HIDE DEF packet
  <2>2. /\ Has(e)' => Has(e)
        /\ wire[Peer(e)] # <<>> => wire'[Peer(e)] # <<>> /\ wire'[Peer(e)][1] = wire[Peer(e)][1]
    BY ONLY <1>3, <2>1, SaysFacts, e \in Ends
  <2>3. Forward(e)
    BY <1>2, <1>5, <2>2 DEF Forward, Live, Beyond
  <2> QED
    BY <2>3, ForwardInv
<1>12. Bearings'
  BY <1>1, <1>2, <1>4, <1>8, <1>9, <1>10, <1>11, <1>a DEF Bearings, InOrder, WireType
<1>13. TypeOK' /\ Fresh' /\ KeyInv' /\ Blanks' /\ OfPacket'
  <2>1. sent' \in [Ends -> 0..MaxLines]
    BY <1>2, <1>6
  <2>2. TypeOK'
    BY <1>2, <2>1 DEF Inv, TypeOK
  <2> QED
    BY <1>2, <2>2 DEF Inv, Fresh, KeyInv, Blanks, Pending, OfPacket
<1> QED
  BY <1>12, <1>13 DEF Inv

\* An end that closes: whatever it does, the other hears no more of it.
LEMMA CloseInv ==
    ASSUME Inv, NEW e \in Ends, NEW rest, Remains(e, rest), wire' = rest,
           Reading(e), connection' = "lost",
           UNCHANGED <<cipher, sent, got, misled>>,
           challenging' \in [Ends -> ChallengeState],
           challenging'[Peer(e)] = challenging[Peer(e)],
           \/ challenging'[e] = challenging[e]
           \/ challenging'[e] = "Refused" /\ challenging[e] # "Accepted"
           \/ challenging'[e] = "WaitingChallenge" /\ challenging[e] = "WaitingHash",
           ~Live(e)'
    PROVE  Bearings'
<1>1. connection # "none" /\ wire \in [Ends -> Seq(Packets)]
  BY DEF Reading, Inv, Bearings, WireType
<1>2. /\ wire' \in [Ends -> Seq(Packets)] /\ wire'[Peer(e)] = wire[Peer(e)]
      /\ \A d \in Ends : Has(d)' => Has(d)
  BY ONLY <1>1, TakesFacts, e \in Ends, Remains(e, rest), wire' = rest
<1>3. \A d \in Ends :
        \/ challenging'[d] = challenging[d]
        \/ challenging'[d] = "Refused" /\ challenging[d] # "Accepted"
        \/ challenging'[d] = "WaitingChallenge" /\ challenging[d] = "WaitingHash"
  BY PeerFacts
<1>4. CASE e = "collector"
  <2>1. Cut
    BY <1>1, <1>2, <1>3, <1>4, Zenon DEF Cut
  <2> QED
    BY <1>2, <2>1, CutInv
<1>5. CASE e = "probe"
  <2>1. Peer(e) = "collector" /\ Under("collector") \in Nat
    BY <1>1, <1>5, PeerFacts DEF Peer, Under, Ends
  <2>2. Under("collector")' \in 0..Under("collector")
    BY <1>2, <2>1 DEF Under
  <2>3. Cut
    BY <1>1, <1>2, <1>3, <1>5, <2>1, <2>2 DEF Cut
  <2> QED
    BY <1>2, <2>3, CutInv
<1> QED
  BY <1>4, <1>5 DEF Ends

\* What every step that reads leaves of the variables the wires are not in.
Turns(e) ==
    /\ connection' \in {"up", "lost"} /\ alive' \in BOOLEAN /\ torn' \in Pieces \cup {"none"}
    /\ UNCHANGED <<qicrkey, losses>>
    /\ leftover' = IF e = "collector" THEN "none" ELSE leftover
    /\ sent' \in [Ends -> 0..MaxLines] /\ misled' \subseteq Ends
    /\ challenging' \in [Ends -> ChallengeState]
    /\ challenging'[Peer(e)] = challenging[Peer(e)]
    /\ challenging'[e] # "WaitingRemoteSalt"
    /\ \/ /\ cipher' = cipher
          /\ challenging'[e] = "WaitingHash" =>
                challenging[e] \in {"WaitingRemoteSalt", "WaitingHash"}
       \/ \E k \in Usable :
             /\ cipher' = [cipher EXCEPT ![e] = k]
             /\ challenging'[e] = "WaitingChallenge"
             /\ IF e = "probe" THEN k \in Ring ELSE k = qicrkey
    /\ blanks' = blanks \/ (cr[e] /\ blanks' = [blanks EXCEPT ![e] = @ + 1])
    /\ \/ ~cr[e] /\ ReadsUpTo(e)
       \/ cr[e] /\ cr' = [cr EXCEPT ![e] = FALSE] /\ splits' = splits

LEMMA TurnsInv ==
    ASSUME Inv, NEW e \in Ends, Reading(e), Turns(e)
    PROVE  TypeOK' /\ Fresh' /\ KeyInv' /\ Blanks' /\ OfPacket'
<1> DEFINE p == Peer(e)
<1>1. p \in Ends /\ p # e /\ Peer(p) = e /\ Ends = {e, p}
  BY PeerFacts
<1>2. TypeOK /\ Fresh /\ KeyInv /\ Blanks /\ OfPacket
  BY DEF Inv
<1>3. /\ cipher' \in [Ends -> Keys \cup {NoKey}]
      /\ cipher'[p] = cipher[p]
      /\ cipher'[e] # NoKey => challenging'[e] \notin {"WaitingRemoteSalt", "WaitingHash"}
  <2>1. CASE /\ cipher' = cipher
             /\ challenging'[e] = "WaitingHash" =>
                   challenging[e] \in {"WaitingRemoteSalt", "WaitingHash"}
             /\ challenging'[e] # "WaitingRemoteSalt"
    BY <1>2, <2>1 DEF TypeOK
  <2>2. ASSUME NEW k \in Usable, cipher' = [cipher EXCEPT ![e] = k],
               challenging'[e] = "WaitingChallenge"
        PROVE  /\ cipher' \in [Ends -> Keys \cup {NoKey}]
               /\ cipher'[p] = cipher[p]
               /\ challenging'[e] \notin {"WaitingRemoteSalt", "WaitingHash"}
    BY <1>1, <1>2, <2>2 DEF TypeOK
  <2> QED
    BY <2>1, <2>2, Zenon DEF Turns
<1>4. /\ cr' \in [Ends -> BOOLEAN] /\ cr'[p] = cr[p] /\ splits' \in 0..MaxSplits
      /\ blanks' \in [Ends -> Nat] /\ blanks'[p] = blanks[p]
      /\ Pending(e) \in 0..1 /\ Pending(p) \in 0..1 /\ Pending(p)' = Pending(p)
      /\ blanks'[e] + Pending(e)' - splits' <= blanks[e] + Pending(e) - splits
  <2>1. /\ cr \in [Ends -> BOOLEAN] /\ blanks \in [Ends -> Nat] /\ splits \in 0..MaxSplits
        /\ MaxSplits \in Nat
    BY <1>2 DEF TypeOK
  <2>2. /\ blanks' \in [Ends -> Nat] /\ blanks'[p] = blanks[p]
        /\ blanks'[e] = blanks[e] \/ (cr[e] /\ blanks'[e] = blanks[e] + 1)
    BY <1>1, <2>1 DEF Turns
  <2>3. /\ cr' \in [Ends -> BOOLEAN] /\ cr'[p] = cr[p] /\ splits' \in 0..MaxSplits
        /\ \/ ~cr[e] /\ cr'[e] = cr[e] /\ splits' = splits
           \/ ~cr[e] /\ cr'[e] /\ splits' = splits + 1
           \/ cr[e] /\ ~cr'[e] /\ splits' = splits
    <3>1. CASE ~cr[e] /\ cr' = cr /\ splits' = splits
      BY <2>1, <3>1
    <3>2. CASE ~cr[e] /\ splits < MaxSplits /\ splits' = splits + 1
               /\ cr' = [cr EXCEPT ![e] = TRUE]
      <4>1. splits' \in 0..MaxSplits
        BY <2>1, <3>2
      <4>2. cr' \in [Ends -> BOOLEAN] /\ cr'[p] = cr[p] /\ cr'[e]
        BY <1>1, <2>1, <3>2
      <4> QED
        BY <3>2, <4>1, <4>2
    <3>3. CASE cr[e] /\ cr' = [cr EXCEPT ![e] = FALSE] /\ splits' = splits
      BY <1>1, <2>1, <3>3
    <3> QED
      BY <3>1, <3>2, <3>3, Zenon DEF Turns, ReadsUpTo
  <2>4. /\ cr[e] => Pending(e) = 1
        /\ ~cr[e] => Pending(e) = 0
        /\ cr'[e] => Pending(e)' = 1
        /\ ~cr'[e] => Pending(e)' = 0
        /\ Pending(p) \in 0..1 /\ Pending(p)' = Pending(p)
    BY <2>3 DEF Pending
  <2>5. /\ blanks[e] \in Nat /\ splits \in Nat
        /\ blanks'[e] + Pending(e)' - splits' <= blanks[e] + Pending(e) - splits
    BY <2>1, <2>2, <2>3, <2>4
  <2> QED
    BY <2>2, <2>3, <2>4, <2>5
<1>5. TypeOK'
  <2>1. \A d \in Ends : cipher'[d] # NoKey =>
                          challenging'[d] \notin {"WaitingRemoteSalt", "WaitingHash"}
    BY <1>1, <1>2, <1>3 DEF TypeOK, Turns
  <2> QED
    BY <1>2, <1>3, <1>4, <2>1 DEF TypeOK, Turns
<1>6. Fresh'
  <2>1. connection # "none" /\ connection' # "none"
    BY DEF Reading, Turns
  <2>2. leftover' # "none" => leftover # "none" /\ p = "collector"
    BY DEF Turns, Peer
  <2> QED
    BY <1>2, <2>1, <2>2 DEF Fresh, Turns
<1>7. KeyInv'
  <2>1. CASE cipher' = cipher
    BY <1>2, <2>1 DEF KeyInv, Turns
  <2>2. ASSUME NEW k \in Usable, cipher' = [cipher EXCEPT ![e] = k],
               IF e = "probe" THEN k \in Ring ELSE k = qicrkey
        PROVE  KeyInv'
    BY <1>1, <1>2, <2>2 DEF KeyInv, TypeOK, Turns, Ends
  <2> QED
    BY <2>1, <2>2, Zenon DEF Turns
<1>8. Blanks'
  <2>1. /\ blanks[e] \in Nat /\ blanks[p] \in Nat /\ splits \in Nat /\ splits' \in Nat
        /\ blanks'[e] \in Nat /\ Pending(e)' \in 0..1
    BY <1>1, <1>2, <1>4 DEF TypeOK, Pending
  <2>2. blanks[e] + blanks[p] + Pending(e) + Pending(p) <= splits
    BY <1>1, <1>2, <1>4, <2>1 DEF Blanks, Ends, Peer
  <2>3. blanks'[e] + blanks'[p] + Pending(e)' + Pending(p)' <= splits'
    BY <1>4, <2>1, <2>2
  <2>4. CASE e = "collector"
    BY <2>3, <2>4 DEF Blanks, Peer
  <2>5. CASE e = "probe"
    BY <1>4, <2>1, <2>3, <2>5 DEF Blanks, Peer
  <2> QED
    BY <2>4, <2>5 DEF Ends
<1>9. OfPacket'
  BY <1>1, <1>2, <1>4 DEF OfPacket, Turns
<1> QED
  BY <1>5, <1>6, <1>7, <1>8, <1>9

\* What an end makes of what it reads: a packet as the text it was sent, or as
\* garbage, or a CR as an empty one.
ReadsAs(e, text, rest) ==
    /\ Reading(e)
    /\ \/ /\ wire[e] # <<>> /\ rest = Rest(e) /\ ~cr[e] /\ ReadsUpTo(e)
          /\ \/ text = Garbage
             \/ text = wire[e][1].body /\ (wire[e][1].key = cipher[e] \/ text = Empty)
          /\ challenging[e] = "Accepted" => text = Decrypted(e, wire[e][1])
       \/ /\ rest = wire /\ text = Empty
          /\ cr[e] /\ cr' = [cr EXCEPT ![e] = FALSE] /\ splits' = splits
    /\ Prelineread(e, text, rest)
    /\ qicrkey' = qicrkey /\ losses' = losses
    /\ leftover' = IF e = "collector" THEN "none" ELSE leftover

\* What that may be.
LEMMA TextFacts ==
    ASSUME Inv, NEW e \in Ends, NEW text, NEW rest, ReadsAs(e, text, rest)
    PROVE  /\ Remains(e, rest) /\ text \in Bodies
           /\ rest = wire => text = Empty /\ cr[e]
           /\ text = Challenge(e) => wire[e] # <<>> /\ wire[e][1].body = Challenge(e)
                                       /\ wire[e][1].key = cipher[e]
           /\ challenging[e] = "WaitingRemoteSalt" => text \in Texts /\ rest # wire
           /\ Live(e) /\ misled = {} =>
                /\ text.is = "empty" => rest = wire
                /\ challenging[e] = "WaitingChallenge" => text.is # "line"
<1> DEFINE Packed == /\ wire[e] # <<>> /\ rest = Rest(e)
                     /\ \/ text = Garbage
                        \/ text = wire[e][1].body /\ (wire[e][1].key = cipher[e] \/ text = Empty)
           Alone == rest = wire /\ text = Empty /\ cr[e]
<1>1. Peer(e) \in Ends /\ Peer(e) # e /\ Reading(e)
  BY PeerFacts DEF ReadsAs
<1>2. wire \in [Ends -> Seq(Packets)]
  BY DEF Inv, Bearings, WireType
<1>3. Packed \/ Alone
  BY DEF ReadsAs
<1>4. CASE Packed
  <2>1. /\ 1 \in 1..Under(e) /\ wire[e][1].body \in Bodies /\ rest # wire
    <3>1. wire[e] # <<>> /\ rest = Rest(e)
      BY <1>4
    <3>2. /\ Len(wire[e]) \in Nat /\ Len(wire[e]) >= 1 /\ Len(Rest(e)[e]) = Len(wire[e]) - 1
          /\ wire[e][1] \in Packets
      BY <1>2, <3>1, RestFacts
    <3>3. rest # wire
      BY <3>1, <3>2
    <3> QED
      BY <3>2, <3>3 DEF Under, Packets
  <2>2. text \in Bodies /\ (text = Garbage \/ text = wire[e][1].body)
    BY <1>4, <2>1, BodyFacts
  <2>3. text = Challenge(e) => wire[e][1].body = Challenge(e) /\ wire[e][1].key = cipher[e]
    <3>1. Challenge(e) # Garbage /\ Challenge(e) # Empty
      BY BodyFacts
    <3> QED
      BY <1>4, <3>1
  <2>4. challenging[e] = "WaitingRemoteSalt" => text \in Texts
    <3>1. SaltFirst(e)
      BY DEF Inv, Bearings
    <3>2. challenging[e] = "WaitingRemoteSalt" => wire[e][1].body = Salt(Peer(e))
      BY <1>1, <1>4, <3>1 DEF SaltFirst
    <3> QED
      BY <1>1, <2>2, <3>2, BodyFacts
  <2>5. ASSUME Live(e), misled = {}
        PROVE  text.is # "empty" /\ (challenging[e] = "WaitingChallenge" => text.is # "line")
    <3>1. HandshakeFirst(e)
      BY <1>1, <2>5 DEF Inv, Bearings, InOrder, Order
    <3>2. IF 1 <= Left(e) THEN wire[e][1].body.is \notin {"line", "empty"}
          ELSE wire[e][1].body = LineOf(1 - Left(e) + Lines(e))
      BY <2>1, <3>1, Zenon DEF HandshakeFirst
    <3>3. wire[e][1].body.is # "empty"
      <4>1. CASE 1 <= Left(e)
        BY <3>2, <4>1
      <4>2. CASE ~(1 <= Left(e))
        <5>1. Left(e) = 0
          BY <4>2, LeftFacts DEF Left
        <5>2. 1 - Left(e) + Lines(e) \in Nat
          BY <5>1 DEF Lines, Inv, Bearings, WireType
        <5> QED
          BY <3>2, <4>2, <5>2, BodyFacts
      <4> QED
        BY <4>1, <4>2
    <3>4. challenging[e] = "WaitingChallenge" => wire[e][1].body.is # "line"
      BY <3>2, LeftFacts DEF Left
    <3> QED
      BY <2>2, <3>3, <3>4, BodyFacts
  <2> HIDE DEF Packed
  <2> QED
    BY <1>4, <2>1, <2>2, <2>3, <2>4, <2>5 DEF Packed, Remains
<1>5. CASE Alone
  <2>1. text \in Bodies /\ text # Challenge(e) /\ text.is = "empty"
    BY <1>5, BodyFacts
  <2>2. challenging[e] # "WaitingRemoteSalt"
    BY <1>5 DEF Inv, OfPacket
  <2> QED
    BY <1>5, <2>1, <2>2 DEF Remains
<1> QED
  BY <1>3, <1>4, <1>5

\* What is said of the wires is said of these variables alone.
LEMMA BearingsSame ==
    ASSUME Bearings, UNCHANGED <<wire, challenging, connection, cipher, sent, got, misled>>
    PROVE  Bearings'
<1>1. WireType'
  BY DEF Bearings, WireType
<1>2. ASSUME NEW e \in Ends
      PROVE  /\ Under(e)' = Under(e) /\ Lines(e)' = Lines(e) /\ Left(e)' = Left(e)
             /\ Done(e)' = Done(e) /\ Live(e)' = Live(e) /\ Reading(e)' = Reading(e)
             /\ Has(e)' = Has(e) /\ Beyond(e)' = Beyond(e)
  <2>1. Under(e)' = Under(e) /\ Lines(e)' = Lines(e) /\ Left(e)' = Left(e)
    BY DEF Under, Lines, Left
  <2>2. Done(e)' = Done(e)
    BY <2>1 DEF Done
  <2>3. Live(e)' = Live(e) /\ Reading(e)' = Reading(e) /\ Beyond(e)' = Beyond(e)
    BY DEF Live, Reading, Beyond
  <2>4. Has(e)' = Has(e)
    BY <2>1, Zenon DEF Has
  <2> QED
    BY <2>1, <2>2, <2>3, <2>4
<1>3. ASSUME NEW e \in Ends, Order(e)
      PROVE  Order(e)'
  <2>1. Under(e)' = Under(e) /\ Lines(e)' = Lines(e) /\ Left(e)' = Left(e)
        /\ Live(e)' = Live(e) /\ Reading(e)' = Reading(e)
    BY <1>2
  <2>2. HandshakeFirst(e) => HandshakeFirst(e)'
    BY <2>1 DEF HandshakeFirst
  <2>3. KeyOfPeer(e) => KeyOfPeer(e)'
    BY <2>1 DEF KeyOfPeer
  <2>4. AnswerLast(e) => AnswerLast(e)'
    BY <2>1 DEF AnswerLast
  <2>5. (NotBeyond(e) => NotBeyond(e)') /\ (SameKey(e) => SameKey(e)')
    BY <2>1 DEF NotBeyond, SameKey
  <2> QED
    BY <1>3, <2>1, <2>2, <2>3, <2>4, <2>5, Zenon DEF Order
<1>4. ASSUME NEW e \in Ends, Up(e)
      PROVE  Up(e)'
  BY <1>2, <1>4, PeerFacts DEF Up, Counted
<1>5. InOrder'
  <2>1. misled' = misled
    OBVIOUS
  <2> QED
    BY <1>3, <1>4, <2>1, Zenon DEF Bearings, InOrder
<1>6. ASSUME NEW e \in Ends, Astray(e)
      PROVE  Astray(e)'
  <2>1. Live(e)' = Live(e) /\ Reading(e)' = Reading(e) /\ Has(Peer(e))' = Has(Peer(e))
    BY <1>2, PeerFacts
  <2> QED
    BY <1>6, <2>1 DEF Astray
<1>7. \A e \in misled' : Astray(e)'
  <2>1. ASSUME NEW e \in misled PROVE Astray(e)'
    <3>1. Astray(e)
      BY DEF Bearings
    <3>2. CASE e \in Ends
      BY <1>6, <3>1, <3>2
    <3>3. CASE e \notin Ends
      <4>1. Peer(e) = "collector" \/ Peer(e) = "probe"
        BY DEF Peer
      <4>2. Has(Peer(e))' = Has(Peer(e))
        BY <1>2, <4>1 DEF Ends
      <4>3. Live(e)' = Live(e) /\ Reading(e)' = Reading(e)
        BY DEF Live, Reading
      <4> QED
        BY <3>1, <4>2, <4>3 DEF Astray
    <3> QED
      BY <3>2, <3>3
  <2> QED
    BY <2>1
<1>8. ASSUME NEW e \in Ends
      PROVE  SaltFirst(e)' /\ Reached(e)' /\ Open(e)' /\ Silent(e)' /\ Heard(e)'
  <2>1. SaltFirst(e) /\ Reached(e) /\ Open(e) /\ Silent(e) /\ Heard(e) /\ Peer(e) \in Ends
    BY PeerFacts DEF Bearings
  <2>2. /\ Lines(e)' = Lines(e) /\ Has(e)' = Has(e) /\ Live(e)' = Live(e)
        /\ Reading(e)' = Reading(e) /\ Beyond(Peer(e))' = Beyond(Peer(e))
    BY <1>2, <2>1
  <2>3. SaltFirst(e)' /\ Silent(e)' /\ Open(e)'
    BY <2>1, <2>2 DEF SaltFirst, Silent, Open
  <2>4. Reached(e)' /\ Heard(e)'
    BY <2>1, <2>2 DEF Reached, Heard
  <2> QED
    BY <2>3, <2>4
<1> QED
  BY <1>1, <1>5, <1>7, <1>8 DEF Bearings

LEMMA ReadsAsInv ==
    ASSUME Inv, NEW e \in Ends, NEW text, NEW rest, ReadsAs(e, text, rest)
    PROVE  Inv'
<1> DEFINE p == Peer(e)
<1>1. p \in Ends /\ p # e /\ Peer(p) = e /\ Ends = {e, p}
  BY PeerFacts
<1>2. /\ Reading(e) /\ alive \in BOOLEAN
      /\ connection \in {"up", "lost"} /\ (connection # "up" => e = "collector")
  BY DEF ReadsAs, Reading, Inv, TypeOK
<1>3. /\ challenging \in [Ends -> ChallengeState] /\ cipher \in [Ends -> Keys \cup {NoKey}]
      /\ wire \in [Ends -> Seq(Packets)] /\ sent \in [Ends -> 0..MaxLines]
      /\ qicrkey \in Keys \cup {NoKey} /\ 1 \in 0..MaxLines
      /\ torn \in Pieces \cup {"none"} /\ misled \subseteq Ends
  BY DEF Inv, TypeOK, Bearings, WireType
<1>4. /\ Remains(e, rest) /\ text \in Bodies
      /\ rest = wire => text = Empty /\ cr[e]
      /\ text = Challenge(e) => wire[e] # <<>> /\ wire[e][1].body = Challenge(e)
                                  /\ wire[e][1].key = cipher[e]
      /\ challenging[e] = "WaitingRemoteSalt" => text \in Texts /\ rest # wire
      /\ Live(e) /\ misled = {} =>
           /\ text.is = "empty" => rest = wire
           /\ challenging[e] = "WaitingChallenge" => text.is # "line"
  BY TextFacts
<1>5. /\ qicrkey' = qicrkey /\ losses' = losses
      /\ leftover' = IF e = "collector" THEN "none" ELSE leftover
      /\ Prelineread(e, text, rest)
      /\ \/ ~cr[e] /\ ReadsUpTo(e)
         \/ cr[e] /\ cr' = [cr EXCEPT ![e] = FALSE] /\ splits' = splits
  BY Zenon DEF ReadsAs
<1>6. ASSUME wire' = rest, connection' = "lost", alive' \in BOOLEAN, torn' = torn,
             UNCHANGED <<cipher, sent, got, blanks, misled>>,
             NEW next \in ChallengeState \ {"WaitingRemoteSalt", "WaitingHash"},
             challenging' = [challenging EXCEPT ![e] = next],
             \/ next = challenging[e]
             \/ next = "Refused" /\ challenging[e] # "Accepted"
             \/ next = "WaitingChallenge" /\ challenging[e] = "WaitingHash",
             next = "Refused" \/ cipher[e] = NoKey
      PROVE  Inv'
  <2>1. /\ challenging' \in [Ends -> ChallengeState] /\ challenging'[e] = next
        /\ challenging'[p] = challenging[p]
    BY <1>1, <1>3, <1>6
  <2>2. Turns(e)
    BY <1>3, <1>5, <1>6, <2>1, Zenon DEF Turns
  <2>3. ~Live(e)'
    BY <1>6, <2>1 DEF Live
  <2>4. Bearings'
    BY <1>2, <1>4, <1>6, <2>1, <2>3, CloseInv
  <2> QED
    BY <1>2, <2>2, <2>4, TurnsInv DEF Inv
<1>7. ASSUME NEW packet \in Packets, NEW next, Advance(e, rest, packet, next),
             alive' = alive, torn' = torn, blanks' = blanks,
             challenging[e] = "WaitingHash" =>
                \E k \in Usable : /\ cipher' = [cipher EXCEPT ![e] = k]
                                  /\ IF e = "probe" THEN k \in Ring ELSE k = qicrkey
      PROVE  Inv'
  <2>1. Bearings'
    BY <1>7, AdvanceInv
  <2>2. /\ connection' = connection /\ sent' = sent /\ misled' \subseteq misled \cup {e}
        /\ \/ challenging[e] = "WaitingRemoteSalt" /\ next = "WaitingHash" /\ cipher' = cipher
           \/ challenging[e] = "WaitingHash" /\ next = "WaitingChallenge"
           \/ challenging[e] = "WaitingChallenge" /\ next = "WaitingAnswer" /\ cipher' = cipher
    BY <1>7 DEF Advance
  <2>3. /\ challenging' \in [Ends -> ChallengeState] /\ challenging'[e] = next
        /\ challenging'[p] = challenging[p]
    BY <1>1, <1>3, <1>7, <2>2 DEF Advance, ChallengeState
  <2>4. Turns(e)
    <3>1. \/ /\ cipher' = cipher
             /\ challenging'[e] = "WaitingHash" =>
                   challenging[e] \in {"WaitingRemoteSalt", "WaitingHash"}
             /\ challenging'[e] # "WaitingRemoteSalt"
          \/ \E k \in Usable :
                /\ cipher' = [cipher EXCEPT ![e] = k]
                /\ challenging'[e] = "WaitingChallenge"
                /\ IF e = "probe" THEN k \in Ring ELSE k = qicrkey
      BY <1>7, <2>2, <2>3
    <3>2. sent' \in [Ends -> 0..MaxLines] /\ misled' \subseteq Ends
          /\ challenging'[e] # "WaitingRemoteSalt" /\ torn' \in Pieces \cup {"none"}
          /\ connection' \in {"up", "lost"} /\ alive' \in BOOLEAN
      BY <1>2, <1>3, <1>7, <2>2, <2>3
    <3> QED
      BY <1>5, <1>7, <2>3, <3>1, <3>2, Zenon DEF Turns
  <2> QED
    BY <1>2, <2>1, <2>4, TurnsInv DEF Inv
<1>8. CASE Skipped(e, rest)
  <2>1. /\ wire' = rest /\ alive' = alive /\ connection' = connection /\ torn' = torn
        /\ UNCHANGED <<challenging, cipher, sent, got, blanks, misled>>
    BY <1>8 DEF Skipped, ends, lines
  <2>2. ~Live(e) /\ challenging[e] \notin {"WaitingRemoteSalt", "WaitingHash"}
        /\ (challenging[e] = "Refused" \/ cipher[e] = NoKey)
    BY <1>3, <1>8 DEF Skipped, Live
  <2>3. connection = "lost"
    BY <1>2, <2>2 DEF Inv, Bearings, Open
  <2>4. challenging[e] \in ChallengeState \ {"WaitingRemoteSalt", "WaitingHash"}
        /\ challenging' = [challenging EXCEPT ![e] = challenging[e]]
    BY <1>3, <2>1, <2>2
  <2> QED
    BY <1>2, <1>6, <2>1, <2>2, <2>3, <2>4
<1>9. CASE WaitingRemoteSalt(e, text, rest)
  <2>1. challenging[e] = "WaitingRemoteSalt" /\ Live(e) /\ text \in Texts /\ rest # wire
    BY <1>4, <1>9 DEF WaitingRemoteSalt, Live
  <2> DEFINE packet == [key |-> cipher[e], body |-> Hash(text, MyID(e))]
  <2>2. MyID(e) \in Keys \cup {NoKey}
    BY <1>3 DEF MyID
  <2>3. /\ Hash(text, MyID(e)) \in Bodies /\ Hash(text, MyID(e)).is = "hash"
        /\ Hash(text, MyID(e)) # Challenge(Peer(e))
    BY <1>1, <2>1, <2>2, BodyFacts
  <2>4. packet \in Packets /\ packet.body.is \notin {"line", "empty"}
        /\ packet.body # Challenge(Peer(e))
    BY <1>3, <2>3 DEF Packets
  <2>5. /\ wire' = [rest EXCEPT ![Peer(e)] = Append(@, packet)]
        /\ challenging' = [challenging EXCEPT ![e] = "WaitingHash"]
        /\ UNCHANGED <<alive, connection, torn, cipher, sent, got, blanks, misled>>
    BY <1>9, Zenon DEF WaitingRemoteSalt, Step, Say, Packet, lines
  <2> HIDE DEF packet
  <2>6. Advance(e, rest, packet, "WaitingHash")
    BY <1>2, <1>4, <2>1, <2>4, <2>5, Zenon DEF Advance
  <2> QED
    BY <1>7, <2>1, <2>4, <2>5, <2>6
<1>10. CASE WaitingHash(e, text, rest)
  <2> DEFINE found == IF e = "probe" THEN RetreiveKey(e, text) ELSE {qicrkey} \ {NoKey}
  <2>1. /\ challenging[e] = "WaitingHash" /\ cipher[e] = NoKey /\ Live(e)
        /\ UNCHANGED <<sent, got, blanks, misled>>
    BY <1>10 DEF WaitingHash, Live, Inv, TypeOK, lines
  <2>2. \A k \in found : k \in Keys /\ (IF e = "probe" THEN k \in Ring ELSE k = qicrkey)
    BY <1>1, <1>3 DEF RetreiveKey
  <2>3. \/ text = Empty /\ Abort(e, rest)
        \/ text # Empty /\ \E k \in found : Settle(e, k, rest)
        \/ text # Empty /\ Refuse(e, rest) /\ UNCHANGED cipher
    BY <1>10, Zenon DEF WaitingHash
  <2> HIDE DEF found
  <2>4. CASE text # Empty /\ Refuse(e, rest) /\ UNCHANGED cipher
    <3>1. /\ wire' = rest /\ connection' = "lost" /\ alive' \in BOOLEAN /\ torn' = torn
          /\ challenging' = [challenging EXCEPT ![e] = "Refused"]
      BY <1>2, <2>4 DEF Refuse, Closes, Step
    <3> QED
      BY <1>6, <2>1, <2>4, <3>1 DEF ChallengeState
  <2>5. ASSUME NEW k \in found, text # Empty, Settle(e, k, rest)
        PROVE  Inv'
    <3>1. challenging' = [challenging EXCEPT ![e] = "WaitingChallenge"]
      BY <2>5 DEF Settle, Step
    <3>2. CASE /\ k \notin Usable
               /\ Closes(e)
               /\ wire' = rest
               /\ UNCHANGED cipher
      <4>1. connection' = "lost" /\ alive' \in BOOLEAN /\ torn' = torn
        BY <1>2, <3>2 DEF Closes
      <4> QED
        BY <1>6, <2>1, <3>1, <3>2, <4>1 DEF ChallengeState
    <3>3. CASE /\ k \in Usable
               /\ cipher' = [cipher EXCEPT ![e] = k]
               /\ wire' = [rest EXCEPT ![Peer(e)] =
                             Append(@, [key |-> k, body |-> Challenge(e)])]
               /\ UNCHANGED <<alive, connection, torn>>
      <4> DEFINE packet == [key |-> k, body |-> Challenge(e)]
      <4>1. packet \in Packets /\ packet.body.is \notin {"line", "empty"}
            /\ packet.body # Challenge(Peer(e))
        BY <2>2, <2>5, BodyFacts DEF Packets
      <4>2. wire' = [rest EXCEPT ![Peer(e)] = Append(@, packet)] /\ rest # wire
        BY <1>4, <2>5, <3>3, Zenon
      <4>3. \E x \in Keys : cipher' = [cipher EXCEPT ![e] = x]
        BY <2>2, <2>5, <3>3
      <4> HIDE DEF packet
      <4>4. Advance(e, rest, packet, "WaitingChallenge")
        BY <1>2, <1>4, <2>1, <3>1, <3>3, <4>1, <4>2, <4>3, Zenon DEF Advance
      <4> QED
        BY <1>7, <2>1, <2>2, <2>5, <3>3, <4>1, <4>4
    <3> QED
      BY <2>5, <3>2, <3>3, Zenon DEF Settle
  <2>6. CASE text = Empty /\ Abort(e, rest)
    <3>1. /\ connection' = "lost" /\ UNCHANGED <<challenging, cipher>> /\ alive' \in BOOLEAN
          /\ \/ e = "collector" /\ wire' = rest /\ torn' = torn
             \/ e = "probe" /\ CutShort(rest)
      BY <1>2, <2>6 DEF Abort
    <3>2. /\ wire' \in [Ends -> Seq(Packets)] /\ torn' \in Pieces \cup {"none"} /\ Cut
      <4>1. CASE e = "collector" /\ wire' = rest /\ torn' = torn
        <5>1. wire' \in [Ends -> Seq(Packets)] /\ \A d \in Ends : Has(d)' => Has(d)
          BY ONLY <1>3, <1>4, <4>1, TakesFacts, e \in Ends
        <5>2. \/ misled # {} /\ challenging'["collector"] = "WaitingHash"
              \/ wire' = wire
          <6>1. misled = {} => rest = wire
            BY <1>4, <2>1, <2>6, BodyFacts
          <6> QED
            BY <2>1, <3>1, <4>1, <6>1
        <5>3. wire' = wire => /\ Under("collector")' \in 0..Under("collector")
                              /\ \A i \in 1..Under("collector")' :
                                    wire'["collector"][i] = wire["collector"][i]
          BY <1>3, <4>1 DEF Under
        <5> QED
          BY <1>2, <1>3, <2>1, <3>1, <4>1, <5>1, <5>2, <5>3 DEF Cut
      <4>2. CASE e = "probe" /\ CutShort(rest)
        <5>1. rest \in [Ends -> Seq(Packets)] /\ rest["collector"] = wire["collector"]
          <6>1. rest \in [Ends -> Seq(Packets)] /\ rest[Peer(e)] = wire[Peer(e)]
            BY ONLY <1>3, <1>4, RemainsFacts, e \in Ends
          <6> QED
            BY <4>2, <6>1 DEF Peer
        <5>2. /\ wire' \in [Ends -> Seq(Packets)] /\ torn' \in Pieces \cup {"none"}
              /\ Under("collector")' \in 0..Under("collector")
              /\ \A i \in 1..Under("collector")' : wire'["collector"][i] = wire["collector"][i]
              /\ \A d \in Ends : Has(d)' => Has(d)
          BY ONLY <1>3, <4>2, <5>1, CutShortFacts
        <5> QED
          BY <1>2, <1>3, <2>1, <3>1, <5>2 DEF Cut
      <4> QED
        BY <1>3, <3>1, <4>1, <4>2
    <3>3. Bearings'
      BY <3>2, CutInv
    <3>4. Turns(e)
      BY <1>3, <1>5, <2>1, <3>1, <3>2, Zenon DEF Turns
    <3> QED
      BY <1>2, <3>3, <3>4, TurnsInv DEF Inv
  <2> QED
    BY <2>3, <2>4, <2>5, <2>6
<1>11. CASE WaitingChallenge(e, text, rest) /\ cipher[e] # NoKey
  <2>1. /\ challenging[e] = "WaitingChallenge" /\ Live(e)
        /\ UNCHANGED <<cipher, sent, got, blanks>>
        /\ misled' = misled \cup IF text = Empty THEN {e} ELSE {}
    BY <1>11 DEF WaitingChallenge, Live, lines
  <2>2. CASE text = Challenge(e) /\ Refuse(e, rest)
    <3>1. /\ wire' = rest /\ connection' = "lost" /\ alive' \in BOOLEAN /\ torn' = torn
          /\ challenging' = [challenging EXCEPT ![e] = "Refused"] /\ misled' = misled
      BY <1>2, <2>1, <2>2, BodyFacts DEF Refuse, Closes, Step
    <3> QED
      BY <1>6, <2>1, <3>1 DEF ChallengeState
  <2>3. CASE /\ text # Challenge(e)
             /\ Step(e, "WaitingAnswer")
             /\ Say(e, rest, text)
             /\ UNCHANGED <<alive, connection, torn>>
    <3> DEFINE packet == [key |-> cipher[e], body |-> text]
    <3>1. packet \in Packets /\ packet.body = text /\ packet.key = cipher[e]
      BY <1>3, <1>4 DEF Packets
    <3>2. /\ wire' = [rest EXCEPT ![Peer(e)] = Append(@, packet)]
          /\ challenging' = [challenging EXCEPT ![e] = "WaitingAnswer"]
      BY <2>3, Zenon DEF Say, Step, Packet
    <3> HIDE DEF packet
    <3>3. Advance(e, rest, packet, "WaitingAnswer")
      BY <1>2, <1>4, <2>1, <2>3, <3>1, <3>2 DEF Advance
    <3> QED
      BY <1>7, <2>1, <2>3, <3>1, <3>3
  <2> QED
    BY <1>11, <2>2, <2>3, Zenon DEF WaitingChallenge
<1>12. CASE WaitingAnswer(e, text, rest) /\ cipher[e] # NoKey
  <2>1. /\ challenging[e] = "WaitingAnswer" /\ Live(e)
        /\ UNCHANGED <<cipher, got, blanks, misled>>
    BY <1>12 DEF WaitingAnswer, Live
  <2>2. CASE Refuse(e, rest) /\ UNCHANGED sent
    <3>1. /\ wire' = rest /\ connection' = "lost" /\ alive' \in BOOLEAN /\ torn' = torn
          /\ challenging' = [challenging EXCEPT ![e] = "Refused"]
      BY <1>2, <2>2 DEF Refuse, Closes, Step
    <3> QED
      BY <1>6, <2>1, <2>2, <3>1 DEF ChallengeState
  <2>3. CASE /\ text = Challenge(e)
             /\ Step(e, "Accepted")
             /\ sent' = [sent EXCEPT ![e] = 1]
             /\ Say(e, rest, LineOf(1))
             /\ UNCHANGED <<alive, connection, torn>>
    <3>1. wire[e] # <<>> /\ wire[e][1].body = Challenge(e) /\ wire[e][1].key = cipher[e]
      BY <1>4, <2>3
    <3>2. misled = {}
      BY <1>2, <2>1, <3>1, MisledFacts
    <3>3. rest = Rest(e)
      BY <1>4, <2>3, BodyFacts DEF Remains
    <3>4. /\ wire' = [Rest(e) EXCEPT ![Peer(e)] =
                        Append(@, [key |-> cipher[e], body |-> LineOf(1)])]
          /\ challenging' = [challenging EXCEPT ![e] = "Accepted"]
      BY <2>3, <3>3, Zenon DEF Say, Step, Packet
    <3>5. Accept(e)
      BY <1>2, <2>1, <2>3, <3>1, <3>4, Zenon DEF Accept
    <3>6. Bearings'
      BY <3>2, <3>5, AcceptInv
    <3>7. challenging' \in [Ends -> ChallengeState] /\ sent' \in [Ends -> 0..MaxLines]
          /\ challenging'[e] = "Accepted" /\ challenging'[p] = challenging[p]
      BY <1>1, <1>3, <2>3, <3>4 DEF ChallengeState
    <3>8. Turns(e)
      BY <1>2, <1>3, <1>5, <2>1, <2>3, <3>7 DEF Turns
    <3> QED
      BY <1>2, <3>6, <3>8, TurnsInv DEF Inv
  <2> QED
    BY <1>12, <2>2, <2>3, Zenon DEF WaitingAnswer
<1>13. CASE Accepted(e, text, rest) /\ cipher[e] # NoKey
  <2>1. /\ challenging[e] = "Accepted" /\ Live(e) /\ wire' = rest
        /\ UNCHANGED <<challenging, alive, connection, torn, cipher, sent, misled>>
        /\ \/ text # Empty /\ got' = [got EXCEPT ![e] = Append(@, text)] /\ blanks' = blanks
           \/ text = Empty /\ got' = got /\ blanks' = [blanks EXCEPT ![e] = @ + 1]
    BY <1>13 DEF Accepted, Live
  <2>2. misled = {}
    BY <2>1, MisledFacts
  <2>3. text = Empty => rest = wire /\ cr[e]
    BY <1>4, <2>1, <2>2, BodyFacts
  <2>4. Turns(e)
    <3>1. blanks' = blanks \/ (cr[e] /\ blanks' = [blanks EXCEPT ![e] = @ + 1])
      BY <2>1, <2>3
    <3> QED
      BY <1>2, <1>3, <1>5, <2>1, <3>1 DEF Turns
  <2>5. CASE text = Empty
    <3>1. UNCHANGED <<wire, challenging, connection, cipher, sent, got, misled>>
      BY <2>1, <2>3, <2>5
    <3>2. Bearings'
      BY <3>1, BearingsSame DEF Inv
    <3> QED
      BY <1>2, <2>4, <3>2, TurnsInv DEF Inv
  <2>6. CASE text # Empty
    <3>1. wire[e] # <<>> /\ rest = Rest(e)
      BY <1>4, <2>6 DEF Remains
    <3>2. text = IF wire[e][1].key = cipher[e] THEN wire[e][1].body ELSE Garbage
      <4>1. text = Decrypted(e, wire[e][1])
        BY <1>4, <2>1, <2>6 DEF ReadsAs
      <4> QED
        BY <2>6, <4>1 DEF Decrypted
    <3>3. Take(e)
      BY <1>2, <2>1, <2>6, <3>1, <3>2 DEF Take
    <3>4. Bearings'
      BY <2>2, <3>3, TakeInv
    <3> QED
      BY <1>2, <2>4, <3>4, TurnsInv DEF Inv
  <2> QED
    BY <2>5, <2>6
<1> QED
  <2>1. \/ Skipped(e, rest)
        \/ WaitingRemoteSalt(e, text, rest) \/ WaitingHash(e, text, rest)
        \/ WaitingChallenge(e, text, rest) /\ cipher[e] # NoKey
        \/ WaitingAnswer(e, text, rest) /\ cipher[e] # NoKey
        \/ Accepted(e, text, rest) /\ cipher[e] # NoKey
    <3>1. WaitingChallenge(e, text, rest) => challenging[e] = "WaitingChallenge"
      BY DEF WaitingChallenge
    <3>2. WaitingAnswer(e, text, rest) => challenging[e] = "WaitingAnswer"
      BY DEF WaitingAnswer
    <3>3. Accepted(e, text, rest) => challenging[e] = "Accepted"
      BY DEF Accepted
    <3> QED
      BY <1>5, <3>1, <3>2, <3>3 DEF Prelineread
  <2> QED
    BY <1>8, <1>9, <1>10, <1>11, <1>12, <1>13, <2>1

\* A packet or a CR that can be read is the end's: it is reading.
LEMMA CanRead ==
    ASSUME Inv, NEW e \in Ends, Listens(e), wire[e] # <<>> \/ cr[e]
    PROVE  Reading(e)
<1>1. /\ connection \in {"none", "up", "lost"}
      /\ connection = "none" => \A d \in Ends : wire[d] = <<>> /\ ~cr[d]
  BY DEF Inv, TypeOK
<1>2. connection # "none"
  BY <1>1
<1>3. CASE e = "collector"
  BY <1>1, <1>2, <1>3 DEF Reading
<1>4. CASE e = "probe"
  BY <1>4 DEF Listens, Reading
<1> QED
  BY <1>3, <1>4 DEF Ends

LEMMA PacketAsRead ==
    ASSUME Inv, NEW e \in Ends, ReadPacket(e)
    PROVE  ReadsAs(e, Decrypted(e, Head(wire[e])), Rest(e))
<1> DEFINE text == Decrypted(e, Head(wire[e]))
<1>1. /\ wire[e] # <<>> /\ ~cr[e] /\ Listens(e) /\ Prelineread(e, text, Rest(e))
      /\ e = "collector" => leftover = "none"
      /\ ReadsUpTo(e) /\ UNCHANGED <<qicrkey, leftover, losses>>
  BY DEF ReadPacket, Reads
<1>2. Reading(e)
  BY <1>1, CanRead
<1>3. Head(wire[e]) = wire[e][1]
  BY <1>1, RestFacts DEF Inv, Bearings, WireType
<1>4. text = Decrypted(e, wire[e][1])
  BY <1>3
<1>5. \/ text = Garbage
      \/ text = wire[e][1].body /\ (wire[e][1].key = cipher[e] \/ text = Empty)
  BY <1>4 DEF Decrypted
<1>6. leftover' = IF e = "collector" THEN "none" ELSE leftover
  BY <1>1
<1> HIDE DEF text
<1>7. ReadsAs(e, text, Rest(e))
  BY <1>1, <1>2, <1>4, <1>5, <1>6, Zenon DEF ReadsAs
<1> QED
  BY <1>7 DEF text

\* A piece of an earlier connection is read before anything of this one.
LEMMA LeftoverFacts ==
    ASSUME Inv, connection # "none", leftover # "none"
    PROVE  challenging["collector"] = "WaitingRemoteSalt" /\ ~cr["collector"]
BY DEF Inv, Fresh, OfPacket, Ends

LEMMA CRAsRead ==
    ASSUME Inv, NEW e \in Ends, ReadCR(e)
    PROVE  ReadsAs(e, Empty, wire)
<1>1. /\ cr[e] /\ Listens(e) /\ Prelineread(e, Empty, wire)
      /\ cr' = [cr EXCEPT ![e] = FALSE]
      /\ UNCHANGED <<qicrkey, leftover, losses, splits>>
  BY DEF ReadCR
<1>2. Reading(e)
  BY <1>1, CanRead
<1>3. leftover' = IF e = "collector" THEN "none" ELSE leftover
  BY <1>1, <1>2, LeftoverFacts DEF Reading
<1> QED
  BY <1>1, <1>2, <1>3, Zenon DEF ReadsAs

LEMMA LeftoverAsRead ==
    ASSUME Inv, ReadAfterAligned
    PROVE  ReadsAs("collector", Garbage, Rest("collector"))
<1>1. /\ wire["collector"] # <<>> /\ ~cr["collector"] /\ Listens("collector")
      /\ leftover = "aligned" /\ leftover' = "none" /\ UNCHANGED <<qicrkey, losses>>
      /\ Prelineread("collector", Garbage, Rest("collector")) /\ ReadsUpTo("collector")
  BY DEF ReadAfterAligned, Reads
<1>2. "collector" \in Ends /\ Reading("collector")
  BY <1>1, CanRead DEF Ends
<1>3. challenging["collector"] = "WaitingRemoteSalt"
  BY <1>1, <1>2, LeftoverFacts DEF Reading
<1> QED
  BY <1>1, <1>2, <1>3 DEF ReadsAs

LEMMA AfterOddInv == Inv /\ ReadAfterOdd => Inv'
<1> SUFFICES ASSUME Inv, ReadAfterOdd PROVE Inv'
  OBVIOUS
<1>1. /\ wire["collector"] # <<>> /\ Listens("collector") /\ leftover' = "none"
      /\ alive' = FALSE /\ connection' = "lost"
      /\ UNCHANGED <<qicrkey, ends, wire, torn, cr, losses, splits>>
  BY DEF ReadAfterOdd, Reads
<1>2. connection # "none"
  BY <1>1, CanRead DEF Ends, Reading
<1>3. /\ wire \in [Ends -> Seq(Packets)] /\ torn \in Pieces \cup {"none"}
      /\ losses \in 0..MaxLosses
  BY DEF Inv, TypeOK, Bearings, WireType
<1>4. /\ Under("collector") \in Nat /\ Under("collector")' = Under("collector")
      /\ \A d \in Ends : Has(d)' => Has(d)
  BY <1>1, <1>3 DEF Under, Has, Ends
<1>5. \A i \in 1..Under("collector")' : wire'["collector"][i] = wire["collector"][i]
  BY <1>1
<1>6. alive' \in BOOLEAN /\ losses' \in 0..MaxLosses
  BY <1>1, <1>3
<1> QED
  BY <1>1, <1>2, <1>3, <1>4, <1>5, <1>6, BreakInv

LEMMA OversizeInv == ASSUME Inv, NEW e \in Ends, ReadOversize(e) PROVE Inv'
<1>1. /\ wire[e] # <<>> /\ Listens(e) /\ alive' = (alive /\ e # "collector")
      /\ connection' = "lost" /\ wire' = [wire EXCEPT !["probe"] = <<>>]
      /\ UNCHANGED <<qicrkey, ends, torn, leftover, cr, losses, splits>>
  BY DEF ReadOversize, Reads
<1>2. connection # "none"
  BY <1>1, CanRead DEF Reading
<1>3. /\ wire \in [Ends -> Seq(Packets)] /\ torn \in Pieces \cup {"none"}
      /\ losses \in 0..MaxLosses
  BY DEF Inv, TypeOK, Bearings, WireType
<1>4. /\ wire' \in [Ends -> Seq(Packets)] /\ wire'["collector"] = wire["collector"]
      /\ wire'["probe"] = <<>>
  BY <1>1, <1>3 DEF Ends
<1>5. /\ Under("collector") \in Nat /\ Under("collector")' = Under("collector")
      /\ \A d \in Ends : Has(d)' => Has(d)
  BY <1>3, <1>4 DEF Under, Has, Ends
<1>6. alive' \in BOOLEAN
  BY <1>1 DEF Inv, TypeOK
<1> QED
  BY <1>1, <1>2, <1>3, <1>4, <1>5, <1>6, BreakInv

LEMMA InitInv == Init => Inv
<1> SUFFICES ASSUME Init PROVE Inv
  OBVIOUS
<1>1. /\ qicrkey \in MyKeys /\ alive = TRUE /\ connection = "none"
      /\ challenging = [e \in Ends |-> "WaitingRemoteSalt"]
      /\ cipher = [e \in Ends |-> NoKey] /\ wire = [e \in Ends |-> <<>>]
      /\ torn = "none" /\ leftover = "none" /\ cr = [e \in Ends |-> FALSE]
      /\ sent = [e \in Ends |-> 0] /\ got = [e \in Ends |-> <<>>] /\ losses = 0
      /\ blanks = [e \in Ends |-> 0] /\ misled = {} /\ splits = 0
  BY DEF Init
<1>2. TypeOK
  <2>1. "WaitingRemoteSalt" \in ChallengeState /\ 0 \in 0..MaxLines /\ 0 \in 0..MaxLosses
        /\ 0 \in 0..MaxSplits
    BY DEF ChallengeState
  <2> QED
    BY <1>1, <2>1 DEF TypeOK, Ends
<1>3. WireType /\ Fresh /\ KeyInv /\ OfPacket /\ Blanks
  BY <1>1 DEF WireType, Fresh, KeyInv, OfPacket, Blanks, Pending, Ends
<1>4. ASSUME NEW e \in Ends
      PROVE  Order(e) /\ Up(e) /\ Silent(e) /\ Heard(e) /\ SaltFirst(e) /\ Reached(e) /\ Open(e)
  <2>1. ~Reading(e) /\ ~Has(e) /\ Lines(e) = 0 /\ Peer(e) \in Ends
    BY <1>1, PeerFacts DEF Reading, Has, Under, Lines
  <2> QED
    BY <1>1, <2>1 DEF Order, Up, Silent, Heard, SaltFirst, Reached, Open
<1> QED
  BY <1>1, <1>2, <1>3, <1>4 DEF Inv, Bearings, InOrder

LEMMA NextInv == Inv /\ [Next]_vars => Inv'
<1> SUFFICES ASSUME Inv, [Next]_vars PROVE Inv'
  OBVIOUS
<1>1. CASE ReadAfterAligned
  BY <1>1, LeftoverAsRead, ReadsAsInv DEF Ends
<1>2. ASSUME NEW e \in Ends, ReadPacket(e)
      PROVE  Inv'
  <2> DEFINE text == Decrypted(e, Head(wire[e]))
             rest == Rest(e)
  <2>1. ReadsAs(e, text, rest)
    BY <1>2, PacketAsRead
  <2> HIDE DEF text, rest
  <2> QED
    BY <2>1, ReadsAsInv
<1>3. ASSUME NEW e \in Ends, ReadCR(e)
      PROVE  Inv'
  BY <1>3, CRAsRead, ReadsAsInv
<1>4. CASE UNCHANGED vars
  <2>1. /\ UNCHANGED <<wire, challenging, connection, cipher, sent, got, misled>>
        /\ UNCHANGED <<qicrkey, alive, torn, leftover, cr, blanks, losses, splits>>
    BY <1>4 DEF vars, ends, lines
  <2>2. Bearings'
    BY <2>1, BearingsSame DEF Inv
  <2>3. TypeOK' /\ Fresh' /\ KeyInv' /\ OfPacket'
    BY <2>1 DEF Inv, TypeOK, Fresh, KeyInv, OfPacket
  <2>4. Blanks'
    BY <2>1 DEF Inv, Blanks, Pending
  <2> QED
    BY <2>2, <2>3, <2>4 DEF Inv
<1> QED
  BY <1>1, <1>2, <1>3, <1>4, ConnectInv, SeesEndInv, LoseInv, AfterOddInv, OversizeInv,
     SendInv DEF Next

\* The inductive invariant holds in every state.
THEOREM InvCorrect == Spec => []Inv
BY InitInv, NextInv, PTL DEF Spec

----------------------------------------------------------------------------
(* The theorems.                                                           *)

\* The transport keeps its types; an end that has no cipher is one that has
\* not settled a key, and no packet survives its connection.
THEOREM TypeCorrect == Spec => []TypeOK
<1>1. Inv => TypeOK
  BY DEF Inv
<1> QED
  BY <1>1, InvCorrect, PTL

\* An end that accepts has a peer that has answered its challenge with the
\* same key of the ring (prelineread, qicrypt.cpp:746-875).
THEOREM MutualAcceptanceCorrect == Spec => []MutualAcceptance
<1>1. Inv => MutualAcceptance
  <2> SUFFICES ASSUME Inv, NEW e \in Ends, connection = "up", challenging[e] = "Accepted"
               PROVE  /\ challenging[Peer(e)] \in {"WaitingAnswer", "Accepted"}
                      /\ cipher[e] = cipher[Peer(e)] /\ cipher[e] = qicrkey
                      /\ qicrkey \in Ring \cap Usable
    BY DEF MutualAcceptance
  <2>1. misled = {} /\ PastChallenge(Peer(e)) /\ Live(e) /\ Reading(e)
    <3>1. misled = {} /\ PastChallenge(Peer(e))
      BY MisledFacts, Answering
    <3>2. Live(e) /\ Reading(e)
      BY DEF Inv, Bearings, Open, Reading
    <3> QED
      BY <3>1, <3>2
  <2>2. cipher[e] = cipher[Peer(e)] /\ cipher[e] # NoKey
    <3>1. SameKey(e)
      BY <2>1 DEF Inv, Bearings, InOrder, Order
    <3> QED
      BY <2>1, <3>1 DEF SameKey, Live
  <2>3. (e = "collector" /\ Peer(e) = "probe") \/ (e = "probe" /\ Peer(e) = "collector")
    BY DEF Ends, Peer
  <2>4. cipher["collector"] = qicrkey /\ cipher["probe"] = qicrkey
        /\ qicrkey \in Ring \cap Usable
    BY <2>2, <2>3 DEF Inv, KeyInv
  <2> QED
    BY <2>1, <2>2, <2>3, <2>4 DEF PastChallenge
<1> QED
  BY <1>1, InvCorrect, PTL

\* While an end has taken the CR of the hash for the challenge, neither end
\* of that connection accepts (prelineread, qicrypt.cpp:790-836).
THEOREM MisledNeverAcceptedCorrect == Spec => []MisledNeverAccepted
<1>1. Inv => MisledNeverAccepted
  BY MisledFacts DEF MisledNeverAccepted
<1> QED
  BY <1>1, InvCorrect, PTL

\* lineread is called with the peer's lines of this connection, in order, and
\* in between with no more empty ones than reads ended between LF and CR.
THEOREM LinesInOrderCorrect == Spec => []LinesInOrder
<1>1. Inv => LinesInOrder
  <2> SUFFICES ASSUME Inv PROVE LinesInOrder
    OBVIOUS
  <2>1. \A e \in Ends : /\ Len(got[e]) <= sent[Peer(e)]
                        /\ \A i \in 1..Len(got[e]) : got[e][i] = LineOf(i)
    BY DEF Inv, Bearings, Heard, Lines
  <2>2. blanks["collector"] + blanks["probe"] <= splits
    <3>1. /\ blanks["collector"] \in Nat /\ blanks["probe"] \in Nat /\ splits \in Nat
          /\ Pending("collector") \in 0..1 /\ Pending("probe") \in 0..1
      BY DEF Inv, TypeOK, Pending, Ends
    <3>2. blanks["collector"] + blanks["probe"] + Pending("collector") + Pending("probe") <= splits
      BY DEF Inv, Blanks
    <3> QED
      BY <3>1, <3>2
  <2> QED
    BY <2>1, <2>2 DEF LinesInOrder
<1> QED
  BY <1>1, InvCorrect, PTL

----------------------------------------------------------------------------
(* The transport implements LineChannel: the handshake is invisible, an    *)
(* answer to the challenge is an acceptance, what an accepted end reads is *)
(* the line LineChannel has next, and a CR on its own an empty one.        *)

\* What leaves the two programs as they are.
Invisible ==
    /\ UNCHANGED <<qicrkey, sent, got, blanks>>
    /\ connection # "none" /\ connection' # "none"
    /\ challenging' \in [Ends -> ChallengeState]
    /\ \A d \in Ends : challenging'[d] = "Accepted" <=> challenging[d] = "Accepted"

\* Such a step is none of the channel's.
LEMMA InvisibleStutters == Invisible => UNCHANGED Channel!vars
<1> SUFFICES ASSUME Invisible PROVE UNCHANGED Channel!vars
  OBVIOUS
<1>1. Trusted' = Trusted /\ Said' = Said
  BY DEF Invisible, Trusted, Said
<1>2. AcceptedBy' = AcceptedBy
  BY DEF Invisible, AcceptedBy
<1>3. (connection # "none")' = (connection # "none")
  BY DEF Invisible
<1> QED
  BY <1>1, <1>2, <1>3 DEF Invisible, Channel!vars

\* A line more that an end has sent is the line it has said last.
LEMMA SaidOneMore ==
    ASSUME sent \in [Ends -> 0..MaxLines], NEW e \in Ends, sent[e] < MaxLines,
           sent' = [sent EXCEPT ![e] = sent[e] + 1]
    PROVE  /\ Said' = [Said EXCEPT ![e] = Append(Said[e], LineOf(sent[e] + 1))]
           /\ LineOf(sent[e] + 1) \in {LineOf(n) : n \in 1..MaxLines}
<1> DEFINE n == sent[e]
           one(d) == [i \in 1..sent[d] |-> LineOf(i)]
<1>1. n \in Nat /\ n + 1 \in 1..MaxLines
  OBVIOUS
<1>2. [i \in 1..(n + 1) |-> LineOf(i)] = Append([i \in 1..n |-> LineOf(i)], LineOf(n + 1))
  BY <1>1
<1>3. Said' = [d \in Ends |-> [i \in 1..sent'[d] |-> LineOf(i)]]
  BY DEF Said
<1>4. sent'[e] = n + 1 /\ \A d \in Ends : d # e => sent'[d] = sent[d]
  OBVIOUS
<1>5. \A d \in Ends : Said'[d] = IF d = e THEN Append(Said[e], LineOf(n + 1)) ELSE Said[d]
  BY <1>2, <1>3, <1>4 DEF Said
<1>6. Said' = [d \in Ends |-> Said'[d]] /\ Said = [d \in Ends |-> Said[d]]
  BY DEF Said
<1> QED
  BY <1>1, <1>5, <1>6

\* The next packet of an accepted end is the next line its peer has said.
LEMMA NextLine ==
    ASSUME Inv, NEW e \in Ends, Reading(e), Live(e), challenging[e] = "Accepted",
           wire[e] # <<>>
    PROVE  /\ Decrypted(e, wire[e][1]) = LineOf(Lines(e) + 1)
           /\ Lines(e) + 1 <= sent[Peer(e)]
<1>1. misled = {} /\ Peer(e) \in Ends
  BY MisledFacts, PeerFacts
<1>2. HandshakeFirst(e) /\ KeyOfPeer(e) /\ NotBeyond(e) /\ SameKey(e)
  BY <1>1 DEF Inv, Bearings, InOrder, Order
<1>3. /\ Left(e) = 0 /\ Lines(e) \in Nat /\ sent[Peer(e)] \in Nat
      /\ Under(e) \in Nat /\ 1 \in 1..Under(e)
  BY <1>1, LeftFacts, RestFacts DEF Left, Lines, Under, Inv, TypeOK, Bearings, WireType
<1>4. ~(1 <= Left(e)) /\ 1 - Left(e) + Lines(e) = Lines(e) + 1
  BY <1>3
<1>5. wire[e][1].body = LineOf(1 - Left(e) + Lines(e))
  BY <1>2, <1>3, <1>4, Zenon DEF HandshakeFirst
<1>6. wire[e][1].body = LineOf(Lines(e) + 1) /\ wire[e][1].body.is = "line"
  BY <1>3, <1>4, <1>5, BodyFacts
<1>7. wire[e][1].key = cipher[e]
  BY <1>2, <1>3, <1>6 DEF KeyOfPeer, SameKey
<1>8. Lines(e) + 1 <= sent[Peer(e)]
  BY <1>2, <1>3 DEF NotBeyond
<1> QED
  BY <1>6, <1>7, <1>8 DEF Decrypted

\* Reading a packet or a CR: a step of the handshake, an acceptance, a line.
LEMMA ReadsChannel ==
    ASSUME Inv, NEW e \in Ends, NEW text, NEW rest, ReadsAs(e, text, rest)
    PROVE  [Channel!Next]_(Channel!vars)
<1> DEFINE p == Peer(e)
<1>1. p \in Ends /\ p # e /\ Peer(p) = e /\ Ends = {e, p}
  BY PeerFacts
<1>2. /\ Reading(e) /\ connection # "none"
      /\ qicrkey' = qicrkey /\ Prelineread(e, text, rest)
  BY DEF ReadsAs, Reading
<1>3. /\ challenging \in [Ends -> ChallengeState] /\ cipher \in [Ends -> Keys \cup {NoKey}]
      /\ wire \in [Ends -> Seq(Packets)] /\ got \in [Ends -> Seq(Bodies)]
      /\ sent \in [Ends -> 0..MaxLines]
  BY DEF Inv, TypeOK, Bearings, WireType
<1>4. ASSUME NEW next \in ChallengeState \ {"Accepted"}, challenging[e] # "Accepted",
             challenging' = [challenging EXCEPT ![e] = next],
             UNCHANGED <<sent, got, blanks>>, connection' = connection \/ connection' = "lost"
      PROVE  UNCHANGED Channel!vars
  <2>1. Invisible
    BY <1>1, <1>2, <1>3, <1>4 DEF Invisible
  <2> QED
    BY <2>1, InvisibleStutters
<1>5. CASE Skipped(e, rest)
  <2>1. Invisible
    BY <1>2, <1>3, <1>5 DEF Skipped, ends, lines, Invisible
  <2> QED
    BY <2>1, InvisibleStutters
<1>6. CASE WaitingRemoteSalt(e, text, rest)
  BY <1>4, <1>6 DEF WaitingRemoteSalt, Step, ChallengeState, lines
<1>7. CASE WaitingHash(e, text, rest)
  <2>1. /\ challenging[e] = "WaitingHash" /\ UNCHANGED <<sent, got, blanks>>
        /\ \/ challenging' = [challenging EXCEPT ![e] = "WaitingChallenge"]
           \/ challenging' = [challenging EXCEPT ![e] = "Refused"]
           \/ challenging' = challenging
        /\ connection' = connection \/ connection' = "lost"
    BY <1>7, Zenon DEF WaitingHash, Settle, Refuse, Abort, Step, Closes, lines
  <2>2. challenging' = challenging => challenging' = [challenging EXCEPT ![e] = "WaitingHash"]
    BY <1>3, <2>1
  <2> QED
    BY <1>4, <2>1, <2>2 DEF ChallengeState
<1>8. CASE WaitingChallenge(e, text, rest)
  <2>1. /\ challenging[e] = "WaitingChallenge" /\ UNCHANGED <<sent, got, blanks>>
        /\ \/ challenging' = [challenging EXCEPT ![e] = "WaitingAnswer"]
           \/ challenging' = [challenging EXCEPT ![e] = "Refused"]
        /\ connection' = connection \/ connection' = "lost"
    BY <1>8, Zenon DEF WaitingChallenge, Refuse, Step, Closes, lines
  <2> QED
    BY <1>4, <2>1 DEF ChallengeState
<1>9. CASE WaitingAnswer(e, text, rest) /\ cipher[e] # NoKey
  <2>1. challenging[e] = "WaitingAnswer" /\ UNCHANGED <<got, blanks>>
    BY <1>9 DEF WaitingAnswer
  <2>2. CASE Refuse(e, rest) /\ UNCHANGED sent
    BY <1>4, <2>1, <2>2 DEF Refuse, Step, Closes, ChallengeState
  <2>3. CASE /\ text = Challenge(e)
             /\ Step(e, "Accepted")
             /\ sent' = [sent EXCEPT ![e] = 1]
             /\ UNCHANGED <<alive, connection, torn>>
    <3>1. Live(e)
      BY <1>9, <2>1 DEF Live
    <3>2. wire[e] # <<>> /\ wire[e][1].body = Challenge(e) /\ wire[e][1].key = cipher[e]
      BY <2>3, TextFacts
    <3>3. cipher[p] = cipher[e]
      <4>1. misled = {}
        BY <1>2, <2>1, <3>1, <3>2, MisledFacts
      <4>2. KeyOfPeer(e)
        BY <1>2, <3>1, <4>1 DEF Inv, Bearings, InOrder, Order
      <4>3. 1 \in 1..Under(e)
        BY <1>3, <3>2, RestFacts DEF Under
      <4> QED
        BY <3>2, <4>2, <4>3 DEF KeyOfPeer
    <3>4. Trusted
      BY <1>1, <1>9, <3>3 DEF Inv, KeyInv, Trusted, Ends
    <3>5. sent[e] = 0 /\ Said[e] = <<>>
      BY <2>1 DEF Inv, Bearings, Silent, Said
    <3>6. /\ Said' = [Said EXCEPT ![e] = Append(Said[e], LineOf(1))]
          /\ LineOf(1) \in {LineOf(n) : n \in 1..MaxLines}
      <4>1. sent[e] + 1 = 1 /\ sent[e] < MaxLines
        BY <3>5
      <4>2. sent' = [sent EXCEPT ![e] = sent[e] + 1]
        BY <2>3, <4>1
      <4> QED
        BY <1>3, <4>1, <4>2, SaidOneMore
    <3>7. Append(Said[e], LineOf(1)) = <<LineOf(1)>>
      BY <3>5
    <3>8. e \notin AcceptedBy /\ AcceptedBy' = AcceptedBy \cup {e}
      BY <1>1, <1>3, <2>1, <2>3 DEF AcceptedBy, Step
    <3>9. Trusted' = Trusted /\ (connection # "none")' = (connection # "none")
      BY <1>2, <2>3 DEF Trusted
    <3>10. Channel!Accept(e, LineOf(1))
      BY <1>2, <2>1, <3>4, <3>5, <3>6, <3>7, <3>8, <3>9, Zenon DEF Channel!Accept
    <3> QED
      BY <3>6, <3>10 DEF Channel!Next
  <2> QED
    BY <1>9, <2>2, <2>3, Zenon DEF WaitingAnswer
<1>10. CASE Accepted(e, text, rest) /\ cipher[e] # NoKey
  <2>1. /\ challenging[e] = "Accepted" /\ Live(e)
        /\ UNCHANGED <<challenging, connection, sent>>
    BY <1>10 DEF Accepted, Live
  <2>2. /\ Trusted' = Trusted /\ Said' = Said /\ AcceptedBy' = AcceptedBy /\ e \in AcceptedBy
        /\ (connection # "none")' = (connection # "none")
    BY <1>2, <2>1 DEF Trusted, Said, AcceptedBy
  <2>3. CASE text # Empty /\ got' = [got EXCEPT ![e] = Append(@, text)] /\ UNCHANGED blanks
    <3>1. wire[e] # <<>> /\ text = Decrypted(e, wire[e][1])
      BY <2>1, <2>3 DEF ReadsAs
    <3>2. text = LineOf(Lines(e) + 1) /\ Lines(e) + 1 <= sent[p]
      BY <1>2, <2>1, <3>1, NextLine
    <3>3. Lines(e) = Len(got[e]) /\ Lines(e) \in Nat /\ sent[p] \in Nat
      BY <1>1, <1>3 DEF Lines
    <3>4. Len(Said[p]) = sent[p] /\ Said[p][Lines(e) + 1] = LineOf(Lines(e) + 1)
      BY <1>1, <3>2, <3>3 DEF Said
    <3>5. Len(got[e]) < Len(Said[p])
      BY <3>2, <3>3, <3>4
    <3>6. got' = [got EXCEPT ![e] = Append(got[e], Said[p][Len(got[e]) + 1])]
      BY <2>3, <3>2, <3>3, <3>4
    <3>7. Channel!Hear(e)
      BY <1>2, <2>2, <2>3, <3>5, <3>6, Zenon DEF Channel!Hear
    <3> QED
      BY <3>7 DEF Channel!Next
  <2>4. CASE got' = got /\ blanks' = [blanks EXCEPT ![e] = @ + 1]
    <3>1. Channel!HearBlank(e)
      BY <1>2, <2>2, <2>4, Zenon DEF Channel!HearBlank
    <3> QED
      BY <3>1 DEF Channel!Next
  <2> QED
    BY <1>10, <2>3, <2>4, Zenon DEF Accepted
<1> QED
  <2>1. \/ Skipped(e, rest)
        \/ WaitingRemoteSalt(e, text, rest) \/ WaitingHash(e, text, rest)
        \/ WaitingChallenge(e, text, rest)
        \/ WaitingAnswer(e, text, rest) /\ cipher[e] # NoKey
        \/ Accepted(e, text, rest) /\ cipher[e] # NoKey
    <3>1. WaitingAnswer(e, text, rest) => challenging[e] = "WaitingAnswer"
      BY DEF WaitingAnswer
    <3>2. Accepted(e, text, rest) => challenging[e] = "Accepted"
      BY DEF Accepted
    <3> QED
      BY <1>2, <3>1, <3>2 DEF Prelineread
  <2> QED
    BY <1>5, <1>6, <1>7, <1>8, <1>9, <1>10, <2>1

\* Every step of the transport is one of the channel's, or invisible to it.
LEMMA NextChannel == Inv /\ [Next]_vars => [Channel!Next]_(Channel!vars)
<1> SUFFICES ASSUME Inv, [Next]_vars PROVE [Channel!Next]_(Channel!vars)
  OBVIOUS
<1>1. challenging \in [Ends -> ChallengeState] /\ sent \in [Ends -> 0..MaxLines]
  BY DEF Inv, TypeOK
<1>2. CASE Connect
  <2>1. /\ connection = "none" /\ connection' = "up" /\ qicrkey' = qicrkey
        /\ challenging' = [e \in Ends |-> "WaitingRemoteSalt"]
        /\ sent' = [e \in Ends |-> 0] /\ got' = [e \in Ends |-> <<>>]
        /\ blanks' = [e \in Ends |-> 0]
    BY <1>2 DEF Connect
  <2>2. AcceptedBy' = {} /\ Trusted' = Trusted
    BY <2>1 DEF AcceptedBy, Trusted
  <2>3. Said' = Channel!Nothing /\ got' = Channel!Nothing /\ blanks' = Channel!None
    BY <2>1 DEF Said, Channel!Nothing, Channel!None
  <2>4. ~(connection # "none") /\ (connection # "none")' = TRUE
    BY <2>1
  <2>5. Channel!Open
    BY <2>2, <2>3, <2>4 DEF Channel!Open
  <2> QED
    BY <2>5 DEF Channel!Next
<1>3. CASE SeesEnd
  <2>1. /\ Trusted' = Trusted /\ Said' = Said /\ AcceptedBy' = AcceptedBy
        /\ got' = got /\ blanks' = blanks
    BY <1>3 DEF SeesEnd, Trusted, Said, AcceptedBy, lines
  <2>2. connection # "none" /\ (connection # "none")' = FALSE
    BY <1>3 DEF SeesEnd
  <2>3. Channel!Close
    BY <2>1, <2>2 DEF Channel!Close
  <2> QED
    BY <2>3 DEF Channel!Next
<1>4. CASE Lose \/ ReadAfterOdd \/ (\E e \in Ends : ReadOversize(e))
  <2>1. /\ UNCHANGED <<qicrkey, ends>> /\ connection' = "lost"
        /\ connection = "up" \/ \E e \in Ends : Reads(e)
    BY <1>4 DEF Lose, ReadAfterOdd, ReadOversize, Ends
  <2>2. connection # "none"
    BY <2>1, CanRead DEF Reads, Reading
  <2>3. Invisible
    BY <1>1, <2>1, <2>2 DEF Invisible, ends, lines
  <2> QED
    BY <2>3, InvisibleStutters
<1>5. CASE ReadAfterAligned
  BY <1>5, LeftoverAsRead, ReadsChannel DEF Ends
<1>6. ASSUME NEW e \in Ends, ReadPacket(e)
      PROVE  [Channel!Next]_(Channel!vars)
  <2> DEFINE text == Decrypted(e, Head(wire[e]))
             rest == Rest(e)
  <2>1. ReadsAs(e, text, rest)
    BY <1>6, PacketAsRead
  <2> HIDE DEF text, rest
  <2> QED
    BY <2>1, ReadsChannel
<1>7. ASSUME NEW e \in Ends, ReadCR(e)
      PROVE  [Channel!Next]_(Channel!vars)
  BY <1>7, CRAsRead, ReadsChannel
<1>8. ASSUME NEW e \in Ends, Send(e)
      PROVE  [Channel!Next]_(Channel!vars)
  <2>1. /\ connection = "up" /\ challenging[e] = "Accepted" /\ sent[e] < MaxLines
        /\ sent' = [sent EXCEPT ![e] = sent[e] + 1]
        /\ UNCHANGED <<qicrkey, connection, challenging, got, blanks>>
    BY <1>8 DEF Send
  <2>2. /\ Said' = [Said EXCEPT ![e] = Append(Said[e], LineOf(sent[e] + 1))]
        /\ LineOf(sent[e] + 1) \in {LineOf(n) : n \in 1..MaxLines}
    BY <1>1, <2>1, SaidOneMore
  <2>3. /\ Trusted' = Trusted /\ AcceptedBy' = AcceptedBy /\ e \in AcceptedBy
        /\ connection # "none" /\ (connection # "none")' = (connection # "none")
    BY <2>1 DEF Trusted, AcceptedBy
  <2>4. Channel!Say(e, LineOf(sent[e] + 1))
    BY <2>1, <2>2, <2>3, Zenon DEF Channel!Say
  <2> QED
    BY <2>2, <2>4 DEF Channel!Next
<1>9. CASE UNCHANGED vars
  <2>1. /\ Trusted' = Trusted /\ Said' = Said /\ AcceptedBy' = AcceptedBy
        /\ got' = got /\ blanks' = blanks
        /\ (connection # "none")' = (connection # "none")
    BY <1>9 DEF vars, ends, lines, Trusted, Said, AcceptedBy
  <2> QED
    BY <2>1 DEF Channel!vars
<1> QED
  BY <1>2, <1>3, <1>4, <1>5, <1>6, <1>7, <1>8, <1>9 DEF Next

\* The transport (opencrypt, prelineread, read, reconnect_hook) is a
\* LineChannel to the programs at its ends, for any ring of keys, any number
\* of lines, whatever a lost connection leaves behind and wherever reads end.
THEOREM ChannelCorrect == Spec => ImplementsChannel
<1>1. Init => Channel!Init
  <2> SUFFICES ASSUME Init PROVE Channel!Init
    OBVIOUS
  <2>1. /\ connection = "none" /\ challenging = [e \in Ends |-> "WaitingRemoteSalt"]
        /\ sent = [e \in Ends |-> 0] /\ got = [e \in Ends |-> <<>>]
        /\ blanks = [e \in Ends |-> 0]
    BY DEF Init
  <2>2. /\ AcceptedBy = {} /\ Said = Channel!Nothing /\ got = Channel!Nothing
        /\ blanks = Channel!None
    BY <2>1 DEF AcceptedBy, Said, Channel!Nothing, Channel!None
  <2>3. Trusted \in BOOLEAN
    BY DEF Trusted
  <2> QED
    BY <2>1, <2>2, <2>3 DEF Channel!Init
<1> QED
  BY <1>1, NextChannel, InvCorrect, PTL DEF Spec, ImplementsChannel, Channel!Spec
=============================================================================
