--------------------------- MODULE CryptHandshake ---------------------------
(***************************************************************************)
(* The encrypted transport (CryptConnection, qicrypt.cpp) between a        *)
(* collector, the supplicant, and a probe, that holds a keyring: salts,    *)
(* hash, challenges and answers, then lines.  The collector's object lives *)
(* through many connections (reconnect_hook, qicollect.cpp:239); the       *)
(* probe's is a new one each time.                                         *)
(*                                                                         *)
(* Both ends are honest, and a key is known by its ID: the probe's copy    *)
(* and the collector's are the same.  Ciphers and hashes are symbolic.     *)
(* flush sends one packet, a line of base64 and its terminator, LF CR.  A  *)
(* body read in pieces is put together again in bufin, so it is read at    *)
(* once here; but the piece a lost connection ends with stays in bufin     *)
(* (the "leftover"), and a piece longer than maxpendsize ends the object   *)
(* that reads it.  The terminator is not put together: a read that ends    *)
(* between its two bytes takes the packet at LF, and the next one takes    *)
(* the CR for the end of an empty packet, whatever the end waits for.      *)
(***************************************************************************)
EXTENDS Naturals, Sequences, SequencesExt

CONSTANTS
    Keys,      \* key IDs
    Ring,      \* KeyRing::mkeys of the probe
    Usable,    \* keys mcrypt accepts
    MyKeys,    \* keys the collector may be configured with
    NoKey,     \* no key, no cipher
    Pieces,    \* pieces of a packet a lost connection may end with
    Large,     \* lines whose packet is longer than maxpendsize
    MaxLines,  \* bound: lines an end sends on one connection
    MaxLosses, \* bound: lost connections
    MaxSplits  \* bound: reads that end between LF and CR

ASSUME CryptAssumption ==
    /\ Ring \subseteq Keys /\ Usable \subseteq Keys
    /\ MyKeys \subseteq Keys \cup {NoKey}
    /\ NoKey \notin Keys
    /\ Pieces \subseteq {"aligned", "odd"}
    /\ MaxLines \in Nat \ {0} /\ MaxLosses \in Nat /\ MaxSplits \in Nat
    /\ Large \subseteq 1..MaxLines

Ends    == {"collector", "probe"}
Peer(e) == IF e = "collector" THEN "probe" ELSE "collector"

VARIABLES
    qicrkey,      \* the collector's key
    alive,        \* the CollectingConn object exists
    connection,   \* "none", "up", "lost" (the collector will read 0)
    challenging,  \* CryptConnection::challenging of each end
    cipher,       \* the key of tdin and tdout, NoKey while MCRYPT_FAILED
    wire,         \* packets under way to each end
    torn,         \* the piece a lost connection ends with
    leftover,     \* the piece of an earlier connection in the collector's bufin
    cr,           \* the CR of the last packet read is still to come
    sent,         \* lines each end has sent on this connection
    got,          \* the lines lineread was called with on this connection
    blanks,       \* history: how often it was called with an empty one
    misled,       \* history: ends that took a CR for the peer's challenge
    losses, splits

lines == <<sent, got, blanks>>
ends  == <<challenging, cipher, lines, misled>>
vars  == <<qicrkey, alive, connection, ends, wire, torn, leftover, cr, losses, splits>>

Salt(e)       == [is |-> "salt", by |-> e]
Hash(s, id)   == [is |-> "hash", of |-> s, id |-> id]
Challenge(e)  == [is |-> "challenge", by |-> e]
LineOf(n)     == [is |-> "line", n |-> n]
Garbage       == [is |-> "garbage"]
Empty         == [is |-> "empty"]

Packet(e, body) == [key |-> cipher[e], body |-> body]
\* What prelineread makes of a packet: base64, then tdin if there is one.
Decrypted(e, p) == IF p.key = cipher[e] \/ p.body = Empty THEN p.body ELSE Garbage

ChallengeState == {"WaitingRemoteSalt", "WaitingHash", "WaitingChallenge",
                   "WaitingAnswer", "Refused", "Accepted"}

TypeOK ==
    /\ qicrkey \in MyKeys
    /\ alive \in BOOLEAN
    /\ connection \in {"none", "up", "lost"}
    /\ challenging \in [Ends -> ChallengeState]
    /\ cipher \in [Ends -> Keys \cup {NoKey}]
    /\ \A e \in Ends :
         cipher[e] # NoKey => challenging[e] \notin {"WaitingRemoteSalt", "WaitingHash"}
    /\ torn \in Pieces \cup {"none"} /\ leftover \in Pieces \cup {"none"}
    /\ cr \in [Ends -> BOOLEAN]
    /\ sent \in [Ends -> 0..MaxLines]
    /\ blanks \in [Ends -> Nat] /\ misled \subseteq Ends
    /\ losses \in 0..MaxLosses /\ splits \in 0..MaxSplits
    /\ connection = "none" => \A e \in Ends : wire[e] = <<>> /\ ~cr[e]

Init ==
    /\ qicrkey \in MyKeys
    /\ alive = TRUE
    /\ connection = "none"
    /\ challenging = [e \in Ends |-> "WaitingRemoteSalt"]
    /\ cipher = [e \in Ends |-> NoKey]
    /\ wire = [e \in Ends |-> <<>>]
    /\ torn = "none" /\ leftover = "none"
    /\ cr = [e \in Ends |-> FALSE]
    /\ sent = [e \in Ends |-> 0]
    /\ got = [e \in Ends |-> <<>>]
    /\ blanks = [e \in Ends |-> 0] /\ misled = {}
    /\ losses = 0 /\ splits = 0

----------------------------------------------------------------------------
(* Opening and closing.                                                    *)

\* mutant: opencrypt leaves challenging as it is in the collector's object
ConnectKeepsState ==
    /\ alive
    /\ connection = "none"
    /\ connection' = "up"
    /\ challenging' = [challenging EXCEPT !["probe"] = "WaitingRemoteSalt"]
    /\ cipher' = [cipher EXCEPT !["probe"] = NoKey]
    /\ wire' = [e \in Ends |-> <<[key |-> cipher'[Peer(e)], body |-> Salt(Peer(e))]>>]
    /\ sent' = [e \in Ends |-> 0]
    /\ got' = [e \in Ends |-> <<>>]
    /\ blanks' = [e \in Ends |-> 0] /\ misled' = {}
    /\ UNCHANGED <<qicrkey, alive, torn, leftover, cr, losses, splits>>

\* CollectingConn::poll connects, the probe accepts: both call opencrypt,
\* which flushes a salt.
Connect ==
    /\ alive
    /\ connection = "none"
    /\ connection' = "up"
    /\ challenging' = [e \in Ends |-> "WaitingRemoteSalt"]
    /\ cipher' = [cipher EXCEPT !["probe"] = NoKey]
    /\ wire' = [e \in Ends |-> <<[key |-> cipher'[Peer(e)], body |-> Salt(Peer(e))]>>]
    /\ sent' = [e \in Ends |-> 0]
    /\ got' = [e \in Ends |-> <<>>]
    /\ blanks' = [e \in Ends |-> 0] /\ misled' = {}
    /\ UNCHANGED <<qicrkey, alive, torn, leftover, cr, losses, splits>>

\* End e closes after what it has written.  The probe's object ends with it;
\* whether the collector's does is qiconn's business.
Closes(e) ==
    /\ connection' = "lost"
    /\ IF e = "collector" THEN alive' \in {alive, FALSE} ELSE UNCHANGED alive
    /\ UNCHANGED torn

\* What two pieces make: the bytes of both, whole groups or not.
Joined(a, b) ==
    IF a = "none" THEN {b}
    ELSE IF b = "none" THEN {a}
    ELSE IF a = "odd" /\ b = "odd" THEN Pieces
    ELSE IF a # b THEN {"odd"} ELSE {a}

\* mutant: the ciphers of the lost connection stay
SeesEndKeepsCipher ==
    /\ alive
    /\ connection = "lost"
    /\ wire["collector"] = <<>> /\ (cr["collector"] => torn = "none")
    /\ connection' = "none"
    /\ leftover' \in Joined(leftover, torn)
    /\ torn' = "none"
    /\ wire' = [e \in Ends |-> <<>>]
    /\ cr' = [e \in Ends |-> FALSE]
    /\ UNCHANGED <<qicrkey, alive, ends, losses, splits>>

\* read returns 0: reconnect_hook calls closecrypt, and leaves bufin alone.
\* A CR that has not come by now is lost with the connection, and so is all
\* that was sent after it.
SeesEnd ==
    /\ alive
    /\ connection = "lost"
    /\ wire["collector"] = <<>> /\ (cr["collector"] => torn = "none")
    /\ connection' = "none"
    /\ cipher' = [cipher EXCEPT !["collector"] = NoKey]
    /\ leftover' \in Joined(leftover, torn)
    /\ torn' = "none"
    /\ wire' = [e \in Ends |-> <<>>]
    /\ cr' = [e \in Ends |-> FALSE]
    /\ UNCHANGED <<qicrkey, alive, challenging, lines, misled, losses, splits>>

\* Of the packets under way the collector still reads some, and maybe a
\* piece of the next one.
CutShort(w) ==
    \E n \in 0..Len(w["collector"]) :
        /\ wire' = [w EXCEPT !["collector"] = SubSeq(@, 1, n), !["probe"] = <<>>]
        /\ torn' \in {"none"} \cup IF n < Len(w["collector"]) THEN Pieces ELSE {}

Lose ==
    /\ losses < MaxLosses /\ losses' = losses + 1
    /\ connection = "up"
    /\ connection' = "lost"
    /\ CutShort(wire)
    /\ UNCHANGED <<qicrkey, alive, ends, leftover, cr, splits>>

----------------------------------------------------------------------------
(* prelineread, one operator per state; text is the decoded packet, rest   *)
(* what remains on the wires once it is taken off.  An empty text is a CR  *)
(* read on its own, or what an end answers that took one for a challenge.  *)

Step(e, next) == challenging' = [challenging EXCEPT ![e] = next]
Say(e, rest, body) == wire' = [rest EXCEPT ![Peer(e)] = Append(@, Packet(e, body))]
Refuse(e, rest) == Step(e, "Refused") /\ Closes(e) /\ wire' = rest

\* The keyID of the probe's end is still empty.  The first packet of a
\* connection is a salt: no CR comes before it.
MyID(e) == IF e = "collector" THEN qicrkey ELSE NoKey

WaitingRemoteSalt(e, text, rest) ==
    /\ challenging[e] = "WaitingRemoteSalt"
    /\ Step(e, "WaitingHash")
    /\ Say(e, rest, Hash(text, MyID(e)))
    /\ UNCHANGED <<alive, connection, torn, cipher, lines, misled>>

\* KeyRing::retreivekey: the key of the ring that gives the peer's hash.
RetreiveKey(e, hash) == {k \in Ring : hash = Hash(Salt(e), k)}

\* settlekey, and reallycrypt, which sends a challenge.
Settle(e, k, rest) ==
    /\ Step(e, "WaitingChallenge")
    /\ \/ /\ k \in Usable
          /\ cipher' = [cipher EXCEPT ![e] = k]
          /\ wire' = [rest EXCEPT ![Peer(e)] =
                        Append(@, [key |-> k, body |-> Challenge(e)])]
          /\ UNCHANGED <<alive, connection, torn>>
       \/ /\ k \notin Usable
          /\ Closes(e)
          /\ wire' = rest
          /\ UNCHANGED cipher

\* string hash (temp, 4) of an empty text throws and nothing catches it: the
\* process dies, the collector's for good, the probe's to be started again.
Abort(e, rest) ==
    /\ connection' = "lost"
    /\ \/ e = "collector" /\ alive' = FALSE /\ wire' = rest /\ UNCHANGED torn
       \/ e = "probe" /\ UNCHANGED alive /\ CutShort(rest)
    /\ UNCHANGED <<challenging, cipher>>

WaitingHash(e, text, rest) ==
    /\ challenging[e] = "WaitingHash"
    /\ LET found == IF e = "probe" THEN RetreiveKey(e, text) ELSE {qicrkey} \ {NoKey} IN
         \/ text = Empty /\ Abort(e, rest)
         \/ text # Empty /\ \E k \in found : Settle(e, k, rest)
         \/ text # Empty /\ found = {} /\ Refuse(e, rest) /\ UNCHANGED cipher
    /\ UNCHANGED <<lines, misled>>

\* mutant: accepted as soon as the challenge is answered
AcceptEarly(e, text, rest) ==
    /\ challenging[e] = "WaitingChallenge"
    /\ Step(e, "Accepted")
    /\ Say(e, rest, text)
    /\ misled' = misled \cup IF text = Empty THEN {e} ELSE {}
    /\ UNCHANGED <<alive, connection, torn, cipher, lines>>

WaitingChallenge(e, text, rest) ==
    /\ challenging[e] = "WaitingChallenge"
    /\ \/ /\ text = Challenge(e)
          /\ Refuse(e, rest)
       \/ /\ text # Challenge(e)
          /\ Step(e, "WaitingAnswer")
          /\ Say(e, rest, text)
          /\ UNCHANGED <<alive, connection, torn>>
    /\ misled' = misled \cup IF text = Empty THEN {e} ELSE {}
    /\ UNCHANGED <<cipher, lines>>

\* mutant: as many bytes are compared as came
AcceptPrefix(e, text, rest) ==
    /\ challenging[e] = "WaitingAnswer"
    /\ \/ /\ text \in {Challenge(e), Empty}
          /\ Step(e, "Accepted")
          /\ sent' = [sent EXCEPT ![e] = 1]
          /\ Say(e, rest, LineOf(1))
          /\ UNCHANGED <<alive, connection, torn>>
       \/ /\ text \notin {Challenge(e), Empty}
          /\ Refuse(e, rest)
          /\ UNCHANGED sent
    /\ UNCHANGED <<cipher, got, blanks, misled>>

\* Accepted: firstprompt sends the first line.
WaitingAnswer(e, text, rest) ==
    /\ challenging[e] = "WaitingAnswer"
    /\ \/ /\ text = Challenge(e)
          /\ Step(e, "Accepted")
          /\ sent' = [sent EXCEPT ![e] = 1]
          /\ Say(e, rest, LineOf(1))
          /\ UNCHANGED <<alive, connection, torn>>
       \/ /\ text # Challenge(e)
          /\ Refuse(e, rest)
          /\ UNCHANGED sent
    /\ UNCHANGED <<cipher, got, blanks, misled>>

\* lineread is called with what was sent, or with an empty line.
Accepted(e, text, rest) ==
    /\ challenging[e] = "Accepted"
    /\ \/ text # Empty /\ got' = [got EXCEPT ![e] = Append(@, text)] /\ UNCHANGED blanks
       \/ text = Empty /\ blanks' = [blanks EXCEPT ![e] = @ + 1] /\ UNCHANGED got
    /\ wire' = rest
    /\ UNCHANGED <<challenging, alive, connection, torn, cipher, sent, misled>>

\* Refused, or without a cipher after the hash: the packet is skipped.
Skipped(e, rest) ==
    /\ \/ challenging[e] = "Refused"
       \/ cipher[e] = NoKey /\ challenging[e] \notin {"WaitingRemoteSalt", "WaitingHash"}
    /\ wire' = rest
    /\ UNCHANGED <<alive, connection, torn, ends>>

Prelineread(e, text, rest) ==
    \/ Skipped(e, rest)
    \/ /\ ~(cipher[e] = NoKey /\ challenging[e] \notin {"WaitingRemoteSalt", "WaitingHash"})
       /\ \/ WaitingRemoteSalt(e, text, rest) \/ WaitingHash(e, text, rest)
          \/ WaitingChallenge(e, text, rest) \/ WaitingAnswer(e, text, rest)
          \/ Accepted(e, text, rest)

----------------------------------------------------------------------------
(* read.                                                                   *)

Listens(e) == IF e = "collector" THEN alive ELSE connection = "up"
Reads(e)   == wire[e] # <<>> /\ ~cr[e] /\ Listens(e)
Rest(e)    == [wire EXCEPT ![e] = Tail(@)]

\* The read that takes a packet may end between its LF and its CR.
ReadsUpTo(e) ==
    \/ UNCHANGED <<cr, splits>>
    \/ splits < MaxSplits /\ splits' = splits + 1 /\ cr' = [cr EXCEPT ![e] = TRUE]

\* A packet is read as it was sent.
ReadPacket(e) ==
    /\ Reads(e)
    /\ e = "collector" => leftover = "none"
    /\ Prelineread(e, Decrypted(e, Head(wire[e])), Rest(e))
    /\ ReadsUpTo(e)
    /\ UNCHANGED <<qicrkey, leftover, losses>>

\* The CR of a packet that was taken at its LF: bufin is empty.
ReadCR(e) ==
    /\ cr[e] /\ Listens(e)
    /\ Prelineread(e, Empty, wire)
    /\ cr' = [cr EXCEPT ![e] = FALSE]
    /\ UNCHANGED <<qicrkey, leftover, losses, splits>>

\* The first packet of a connection after a leftover of whole base64 groups:
\* it decodes, to something else than was sent.
ReadAfterAligned ==
    /\ Reads("collector")
    /\ leftover = "aligned"
    /\ leftover' = "none"
    /\ Prelineread("collector", Garbage, Rest("collector"))
    /\ ReadsUpTo("collector")
    /\ UNCHANGED <<qicrkey, losses>>

\* After any other leftover base64_decode fails: the object is scheduled for
\* destruction.
ReadAfterOdd ==
    /\ Reads("collector")
    /\ leftover = "odd"
    /\ leftover' = "none"
    /\ alive' = FALSE
    /\ connection' = "lost"
    /\ UNCHANGED <<qicrkey, ends, wire, torn, cr, losses, splits>>

\* A line that comes in pieces passes maxpendsize: the object is scheduled
\* for destruction.
ReadOversize(e) ==
    /\ Reads(e)
    /\ Head(wire[e]).body.is = "line" /\ Head(wire[e]).body.n \in Large
    /\ alive' = (alive /\ e # "collector")
    /\ connection' = "lost"
    /\ wire' = [wire EXCEPT !["probe"] = <<>>]
    /\ UNCHANGED <<qicrkey, ends, torn, leftover, cr, losses, splits>>

\* An accepted end sends a line.
Send(e) ==
    /\ connection = "up" /\ alive
    /\ challenging[e] = "Accepted"
    /\ sent[e] < MaxLines
    /\ sent' = [sent EXCEPT ![e] = @ + 1]
    /\ Say(e, wire, LineOf(sent[e] + 1))
    /\ UNCHANGED <<qicrkey, alive, connection, challenging, cipher, got, blanks, misled,
                   torn, leftover, cr, losses, splits>>

Next ==
    \/ Connect \/ SeesEnd \/ Lose \/ ReadAfterAligned \/ ReadAfterOdd
    \/ \E e \in Ends : ReadPacket(e) \/ ReadCR(e) \/ ReadOversize(e) \/ Send(e)

Spec == Init /\ [][Next]_vars

\* The collector connects again (to a daemon its init script has started if
\* it died), what was sent is read, an end of file is seen.
FairSpec ==
    /\ Spec
    /\ WF_vars(Connect) /\ WF_vars(SeesEnd)
    /\ WF_vars(ReadAfterAligned) /\ WF_vars(ReadAfterOdd)
    /\ \A e \in Ends : WF_vars(ReadPacket(e)) /\ WF_vars(ReadCR(e))

----------------------------------------------------------------------------
(* Properties.                                                             *)

\* An end that accepts has a peer that holds the same key of the ring and
\* has answered its challenge: the two never disagree about being through.
MutualAcceptance ==
    \A e \in Ends : connection = "up" /\ alive /\ challenging[e] = "Accepted" =>
        /\ challenging[Peer(e)] \in {"WaitingAnswer", "Accepted"}
        /\ cipher[e] = cipher[Peer(e)] /\ cipher[e] = qicrkey
        /\ qicrkey \in Ring \cap Usable

\* An end that took the CR of the hash for the challenge answers that with
\* nothing and expects one packet less than will come: on that connection
\* neither it nor its peer accepts, so that no line is lost or out of step.
MisledNeverAccepted ==
    misled # {} => \A e \in Ends : challenging[e] # "Accepted"

\* lineread is called with the lines the peer sent on this connection, all
\* of them, in their order: nothing of the handshake, of an earlier
\* connection or of another cipher gets through.  Between them it is called
\* with empty lines nobody sent, at most one for each read that ended
\* between LF and CR, and not at all if none did.
LinesInOrder ==
    /\ \A e \in Ends :
         /\ Len(got[e]) <= sent[Peer(e)]
         /\ \A i \in 1..Len(got[e]) : got[e][i] = LineOf(i)
    /\ blanks["collector"] + blanks["probe"] <= splits

\* The transport as module LineChannel sees it.
Trusted     == qicrkey \in Ring \cap Usable
AcceptedBy  == {e \in Ends : challenging[e] = "Accepted"}
Said        == [e \in Ends |-> [i \in 1..sent[e] |-> LineOf(i)]]
Channel == INSTANCE LineChannel WITH
    Messages <- {LineOf(n) : n \in 1..MaxLines}, trusted <- Trusted,
    open <- connection # "none", accepted <- AcceptedBy, said <- Said, heard <- got

\* A connection opens anew, with nothing accepted, said or heard on it; an
\* end accepts once, and only with a key of the ring; from then on it hears
\* the peer's lines one after the other, with empty lines between them.  No
\* handshake, loss, leftover, CR or close between two steps of this does
\* anything else to the two programs.
ImplementsChannel == Channel!Spec

\* Whatever connections are lost, and wherever, and whatever handshakes a CR
\* read on its own refuses, the ends of a usable key of the ring accept each
\* other again once reads no longer end between LF and CR, until the
\* collector's object is destroyed or its process dies: nothing else a lost
\* connection leaves behind (cipher, challenge, a piece of whole base64
\* groups) keeps a handshake from succeeding.
Through == connection = "up" /\ \A e \in Ends : challenging[e] = "Accepted"
AcceptedWhileAlive == qicrkey \in Ring \cap Usable => []<>(Through \/ ~alive)

\* "doit pouvoir reprendre la collection a tout moment" (manifest:20-21):
\* the ends accept each other again and again.
AcceptedAgain == qicrkey \in Ring \cap Usable => []<>Through
=============================================================================
