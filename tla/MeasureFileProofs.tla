-------------------------- MODULE MeasureFileProofs --------------------------
(***************************************************************************)
(* Proofs about MeasureFile: the count of a log file's lines is exact      *)
(* through rotations, and never doubles a line after a truncation; no line *)
(* is left that nothing will read.                                         *)
(***************************************************************************)
EXTENDS MeasureFile, TLAPS

USE MeasureFileAssumption

\* The files hold no more lines than were written; what was written to the
\* open file is among them.
Bounds ==
    /\ lines \in 1..MaxLines
    /\ \A f \in Inodes : size[f] <= lines
    /\ written \in 0..lines /\ skipped \in Nat

\* Unless the open file was truncated, neither the position nor the size poll
\* has seen is past its end.
WithinFile == fd # NoFile /\ ~truncated => pos <= size[fd] /\ prevsize <= size[fd]

Inv ==
    /\ TypeOK /\ Bounds /\ WithinFile
    /\ truncated \in BOOLEAN
    /\ Accounted /\ NothingUnnoticed

\* What can be opened is a file that is there.
LEMMA NewestType == TypeOK => Newest \in present \cup {NoFile} /\ Newest \in Inodes \cup {NoFile}
<1> DEFINE here == {i \in DOMAIN mtimes : mtimes[i] \in present}
           last == {i \in here : \A j \in here : j <= i}
<1> SUFFICES ASSUME TypeOK PROVE Newest \in present \cup {NoFile}
  BY DEF TypeOK
<1>1. Newest = IF last = {} THEN NoFile ELSE mtimes[CHOOSE i \in last : TRUE]
  BY Zenon DEF Newest
<1>2. last # {} => (CHOOSE i \in last : TRUE) \in here
  BY Zenon
<1> QED
  BY <1>1, <1>2, Zenon

\* The pending lines are what lies between the position and the end.
LEMMA PendingType ==
    ASSUME TypeOK
    PROVE  /\ Size \in 0..MaxLines /\ Pending \in 0..MaxLines
           /\ Pending = (IF Size > pos THEN Size - pos ELSE 0)
           /\ fd # NoFile => Size = size[fd] /\ fd \in Inodes
<1>1. Size \in 0..MaxLines /\ (fd # NoFile => Size = size[fd] /\ fd \in Inodes)
  BY DEF Size, TypeOK
<1>2. pos \in 0..MaxLines
  BY DEF TypeOK
<1> QED
  BY <1>1, <1>2 DEF Pending

LEMMA InitInv == Init => Inv
<1> SUFFICES ASSUME Init PROVE Inv
  OBVIOUS
<1>1. Newest \in present \cup {NoFile}
  <2> DEFINE here == {i \in DOMAIN mtimes : mtimes[i] \in present}
             last == {i \in here : \A j \in here : j <= i}
  <2>1. Newest = IF last = {} THEN NoFile ELSE mtimes[CHOOSE i \in last : TRUE]
    BY Zenon DEF Newest
  <2>2. last # {} => (CHOOSE i \in last : TRUE) \in here
    BY Zenon
  <2> QED
    BY <2>1, <2>2, Zenon
<1>2. /\ present \subseteq Inodes /\ fd \in Inodes \cup {NoFile}
      /\ writer \in Inodes \cup {NoFile} /\ matching \in BOOLEAN
      /\ size \in [Inodes -> 0..1]
      /\ pos = (IF fd = NoFile THEN 0 ELSE size[fd])
      /\ nl = 0 /\ prevsize = 0 /\ asked = FALSE /\ oldnl = 0 /\ idle = 0
      /\ written = 0 /\ skipped = 0 /\ truncated = FALSE /\ lines = 1
      /\ present = {} \/ \E f \in Inodes : present = {f}
  BY <1>1, Zenon DEF Init
<1>3. size \in [Inodes -> 0..MaxLines] /\ \A f \in Inodes : size[f] \in 0..1
  BY <1>2
<1>4. pos \in 0..MaxLines /\ Zltimeout \in Nat
  BY <1>2, <1>3 DEF Zltimeout
<1>5. TypeOK
  <2>1. /\ {pos, nl, prevsize, oldnl} \subseteq 0..MaxLines
        /\ idle \in 0..(Zltimeout + 1)
        /\ fd = NoFile => ~asked
    BY <1>2, <1>4
  <2> QED
    BY <1>2, <1>3, <2>1, Zenon DEF TypeOK
<1>6. fd # NoFile => Size = pos /\ Pending = 0
  BY <1>2, <1>4 DEF Size, Pending
<1>7. Bounds /\ WithinFile
  BY <1>2, <1>3 DEF Bounds, WithinFile
<1>8. Accounted /\ NothingUnnoticed
  BY <1>2, <1>6 DEF Accounted, NothingUnnoticed
<1> QED
  BY <1>2, <1>5, <1>7, <1>8 DEF Inv

----------------------------------------------------------------------------
\* Opening again keeps the invariant: the position is the end of the file.
LEMMA ReopenInv ==
    ASSUME Inv, Reopen, UNCHANGED <<matching, files, lines, rotations>>,
           oldnl' \in {0, oldnl}
    PROVE  Inv'
<1>1. Newest \in Inodes \cup {NoFile}
  BY NewestType DEF Inv
<1>2. /\ fd' = Newest /\ nl' = 0 /\ prevsize' = 0 /\ asked' = FALSE
      /\ written' = 0 /\ skipped' = 0 /\ truncated' = FALSE
      /\ pos' = IF Newest = NoFile THEN 0 ELSE size[Newest]
      /\ idle' \in {0, idle}
  BY Zenon DEF Reopen, OpenAt
<1>3. size' = size /\ size \in [Inodes -> 0..MaxLines]
  BY DEF Inv, TypeOK, files
<1>4. TypeOK'
  <2>1. pos' \in 0..MaxLines
    BY <1>1, <1>2, <1>3
  <2>2. idle' \in 0..(Zltimeout' + 1)
    <3>1. Zltimeout \in Nat /\ Zltimeout' = Zltimeout
      BY DEF Zltimeout
    <3> QED
      BY <1>2, <3>1 DEF Inv, TypeOK
  <2>3. {pos', nl', prevsize', oldnl'} \subseteq 0..MaxLines
    BY <1>2, <2>1 DEF Inv, TypeOK
  <2>4. /\ matching' = matching /\ present' = present /\ size' = size /\ writer' = writer
        /\ fd' \in Inodes \cup {NoFile} /\ asked' \in BOOLEAN /\ (fd' = NoFile => ~asked')
    BY <1>1, <1>2 DEF files
  <2> QED
    <3>1. /\ matching \in BOOLEAN /\ present \subseteq Inodes
          /\ ~matching => present = {} \/ \E f \in Inodes : present = {f}
          /\ writer \in Inodes \cup {NoFile}
      BY Zenon DEF Inv, TypeOK
    <3> QED
      BY <1>3, <2>2, <2>3, <2>4, <3>1 DEF TypeOK
<1>5. fd' # NoFile => Pending' = 0
  BY <1>1, <1>2, <1>3 DEF Pending, Size
<1>6. Bounds' /\ WithinFile'
  <2>1. UNCHANGED <<size, lines>> /\ written' = 0 /\ skipped' = 0
    BY <1>2 DEF files
  <2>2. Bounds'
    BY <2>1 DEF Inv, Bounds
  <2>3. fd' # NoFile => pos' <= size'[fd'] /\ prevsize' <= size'[fd']
    BY <1>1, <1>2, <1>3
  <2> QED
    BY <2>2, <2>3 DEF WithinFile
<1>7. Accounted' /\ NothingUnnoticed'
  BY <1>2, <1>5 DEF Accounted, NothingUnnoticed
<1> QED
  BY <1>2, <1>4, <1>6, <1>7 DEF Inv

\* A line is written: to the open file it is pending, and what was noticed
\* stays so.
LEMMA WriteInv == ASSUME Inv, Write PROVE Inv'
<1>1. /\ writer # NoFile /\ lines < MaxLines /\ lines' = lines + 1
      /\ size' = [size EXCEPT ![writer] = @ + 1]
      /\ written' = IF writer = fd THEN written + 1 ELSE written
      /\ UNCHANGED <<matching, present, writer, counter, skipped, truncated>>
  BY DEF Write
<1>2. /\ writer \in Inodes /\ size \in [Inodes -> 0..MaxLines]
      /\ \A f \in Inodes : size[f] \in 0..MaxLines /\ size[f] <= lines
      /\ lines \in 1..MaxLines /\ written \in 0..lines /\ skipped \in Nat
      /\ fd \in Inodes \cup {NoFile} /\ pos \in Nat /\ nl \in Nat /\ prevsize \in Nat
  BY <1>1 DEF Inv, TypeOK, Bounds
<1>3. /\ size' \in [Inodes -> 0..MaxLines]
      /\ \A f \in Inodes : size'[f] = IF f = writer THEN size[f] + 1 ELSE size[f]
  BY <1>1, <1>2
<1>4. TypeOK'
  BY <1>1, <1>3 DEF Inv, TypeOK, counter, Zltimeout
<1>5. Bounds'
  BY <1>1, <1>2, <1>3 DEF Bounds
<1>6. fd # NoFile => /\ Pending = (IF size[fd] > pos THEN size[fd] - pos ELSE 0)
                     /\ Pending' = (IF size'[fd] > pos THEN size'[fd] - pos ELSE 0)
  BY <1>1 DEF Pending, Size, counter
<1>7. WithinFile'
  BY <1>1, <1>2, <1>3 DEF Inv, WithinFile, counter
<1>8. Accounted'
  <2>1. ASSUME fd # NoFile PROVE nl + Pending' + skipped <= written'
    BY <1>1, <1>2, <1>3, <1>6, <2>1 DEF Inv, Accounted
  <2>2. ASSUME fd # NoFile, ~truncated PROVE nl + Pending' + skipped = written'
    <3>1. pos <= size[fd]
      BY <2>2 DEF Inv, WithinFile
    <3> QED
      BY <1>1, <1>2, <1>3, <1>6, <2>2, <3>1 DEF Inv, Accounted
  <2> QED
    BY <1>1, <2>1, <2>2 DEF Accounted, counter
<1>9. NothingUnnoticed'
  BY <1>1, <1>2, <1>3, <1>6 DEF Inv, NothingUnnoticed, WithinFile, counter
<1> QED
  BY <1>1, <1>4, <1>5, <1>7, <1>8, <1>9 DEF Inv

\* A file is truncated: what was pending in it is lost.
LEMMA TruncateInv == ASSUME Inv, NEW f \in Inodes, Truncate(f) PROVE Inv'
<1>1. /\ size' = [size EXCEPT ![f] = 0]
      /\ truncated' = (truncated \/ f = fd)
      /\ UNCHANGED <<matching, present, writer, counter, written, skipped, lines>>
  BY DEF Truncate
<1>2. /\ size \in [Inodes -> 0..MaxLines]
      /\ \A g \in Inodes : size[g] \in 0..MaxLines /\ size[g] <= lines
      /\ lines \in 1..MaxLines /\ written \in Nat /\ skipped \in Nat
      /\ fd \in Inodes \cup {NoFile} /\ pos \in Nat /\ nl \in Nat /\ prevsize \in Nat
  BY DEF Inv, TypeOK, Bounds
<1>3. /\ size' \in [Inodes -> 0..MaxLines]
      /\ \A g \in Inodes : size'[g] = IF g = f THEN 0 ELSE size[g]
  BY <1>1, <1>2
<1>4. TypeOK' /\ Bounds'
  BY <1>1, <1>2, <1>3 DEF Inv, TypeOK, Bounds, counter, Zltimeout
<1>5. fd # NoFile => /\ Pending = (IF size[fd] > pos THEN size[fd] - pos ELSE 0)
                     /\ Pending' = (IF size'[fd] > pos THEN size'[fd] - pos ELSE 0)
  BY <1>1 DEF Pending, Size, counter
<1>6. f = fd => truncated'
  BY <1>1, Zenon
<1>7. truncated' \in BOOLEAN /\ (f # fd => truncated' = truncated)
  BY <1>1, Zenon DEF Inv
<1>8. WithinFile' /\ Accounted' /\ NothingUnnoticed'
  BY <1>1, <1>2, <1>3, <1>5, <1>6, <1>7
     DEF Inv, WithinFile, Accounted, NothingUnnoticed, counter
<1> QED
  BY <1>4, <1>7, <1>8 DEF Inv

\* A measure without news that opens nothing.
Skip == MeasureSame /\ ~Reopen

\* The steps of the probe that open nothing.
LEMMA CounterInv ==
    ASSUME Inv, Poll \/ Read \/ MeasureMore \/ Tick
                \/ Skip
    PROVE  Inv'
<1>0. Skip =>
         /\ fd # NoFile /\ pos' = Size /\ skipped' = skipped + Pending
         /\ fd' = fd /\ nl' = nl /\ prevsize' = prevsize /\ asked' = asked
         /\ oldnl' = oldnl /\ idle' = idle
  BY Zenon DEF Skip, MeasureSame
<1>1. /\ UNCHANGED <<matching, files, fd, written, truncated, lines>>
      /\ fd' = NoFile => asked' \in {FALSE, asked}
      /\ asked' \in BOOLEAN
  <2>1. CASE Skip
    BY <1>0, <2>1, Zenon DEF Skip, MeasureSame, Inv, TypeOK
  <2>2. CASE Poll \/ Read \/ MeasureMore \/ Tick
    BY <2>2 DEF Poll, Read, MeasureMore, Tick, history, Inv, TypeOK
  <2> QED
    BY <2>1, <2>2
<1>2. /\ size \in [Inodes -> 0..MaxLines] /\ UNCHANGED <<size, present, writer>>
      /\ written \in Nat /\ skipped \in Nat
      /\ fd \in Inodes \cup {NoFile}
      /\ {pos, nl, prevsize, oldnl} \subseteq 0..MaxLines
  BY <1>1 DEF Inv, TypeOK, Bounds, files
<1>3. /\ Size \in 0..MaxLines /\ Size' = Size /\ (fd # NoFile => Size = size[fd])
      /\ Pending = (IF Size > pos THEN Size - pos ELSE 0)
      /\ Pending' = (IF Size > pos' THEN Size - pos' ELSE 0)
  BY <1>1, <1>2, PendingType DEF Inv, Size, Pending
<1>4. nl + Pending <= MaxLines \/ fd = NoFile
  BY <1>2, <1>3, PendingType DEF Inv, Accounted, Bounds
<1>5. \/ /\ Poll \/ MeasureMore \/ Tick
         /\ UNCHANGED <<pos, nl, skipped>>
      \/ Read /\ fd # NoFile /\ nl' = nl + Pending /\ pos' = pos + Pending /\ UNCHANGED skipped
      \/ /\ Skip /\ fd # NoFile
         /\ pos' = Size /\ skipped' = skipped + Pending /\ UNCHANGED nl
  BY <1>0 DEF Poll, Read, MeasureMore, Tick, history, Inv, TypeOK
<1>6. /\ pos' \in 0..MaxLines /\ nl' \in 0..MaxLines /\ skipped' \in Nat
      /\ fd # NoFile => nl' + Pending' + skipped' = nl + Pending + skipped
      /\ pos' <= Size \/ pos' = pos \/ fd = NoFile
      /\ UNCHANGED <<pos, nl, skipped>> \/ Pending' = 0
  BY <1>2, <1>3, <1>4, <1>5
<1>7. prevsize' \in {prevsize, Size} /\ oldnl' \in {oldnl, nl}
  BY <1>0 DEF Poll, Read, MeasureMore, Tick, Size
<1>8. TypeOK'
  <2>1. idle' \in 0..(Zltimeout' + 1)
    <3>1. Zltimeout \in Nat /\ Zltimeout' = Zltimeout
      BY <1>1 DEF Zltimeout
    <3>2. idle' \in {0, idle} \/ (idle < Zltimeout + 1 /\ idle' = idle + 1)
      <4>1. Skip => idle' = idle
        BY <1>0, Zenon
      <4> QED
        BY <4>1 DEF Poll, Read, MeasureMore, Tick
    <3> QED
      BY <3>1, <3>2 DEF Inv, TypeOK
  <2>2. {pos', nl', prevsize', oldnl'} \subseteq 0..MaxLines
    BY <1>2, <1>3, <1>6, <1>7
  <2>3. fd' = NoFile => ~asked'
    BY <1>1 DEF Inv, TypeOK
  <2> QED
    BY <1>1, <1>2, <2>1, <2>2, <2>3, Zenon DEF Inv, TypeOK
<1>9. Bounds' /\ WithinFile'
  <2>1. Bounds'
    BY <1>1, <1>2, <1>6 DEF Inv, Bounds
  <2>2. ASSUME fd # NoFile, ~truncated PROVE pos' <= Size /\ prevsize' <= Size
    BY <1>2, <1>3, <1>6, <1>7, <2>2 DEF Inv, WithinFile
  <2> QED
    BY <1>1, <1>2, <1>3, <2>1, <2>2 DEF WithinFile
<1>10. Accounted'
  BY <1>1, <1>6 DEF Inv, Accounted
<1>11. NothingUnnoticed'
  <2>1. CASE Pending' = 0
    BY <2>1 DEF NothingUnnoticed
  <2>2. CASE UNCHANGED <<pos, nl, skipped>> /\ Pending' = Pending
    <3>1. \/ asked' /\ prevsize' = Size
          \/ UNCHANGED <<asked, prevsize>>
          \/ Pending' = 0
      <4>1. CASE Read
        <5>1. pos' = pos + Pending
          BY <4>1 DEF Read
        <5>2. Pending' = 0
          BY <1>2, <1>3, <5>1
        <5> QED
          BY <5>2
      <4>2. CASE ~Read
        <5>1. Skip => Pending' = 0
          BY <1>0, <1>2, <1>3
        <5>2. Poll => asked' /\ prevsize' = Size
          BY DEF Poll, Size
        <5>3. MeasureMore \/ Tick => UNCHANGED <<asked, prevsize>>
          BY DEF MeasureMore, Tick
        <5> QED
          BY <4>2, <5>1, <5>2, <5>3
      <4> QED
        BY <4>1, <4>2
    <3> QED
      BY <1>1, <1>2, <2>2, <3>1 DEF Inv, NothingUnnoticed
  <2> QED
    BY <1>3, <1>6, <2>1, <2>2
<1> QED
  BY <1>1, <1>8, <1>9, <1>10, <1>11 DEF Inv

\* Files that come and go leave what is open alone.
LEMMA RotateInv == ASSUME Inv, NEW f \in Inodes, Discard(f) \/ Begin(f) PROVE Inv'
<1>1. /\ UNCHANGED <<matching, counter, history, lines>>
      /\ \/ size' = size
         \/ f # fd /\ size' = [size EXCEPT ![f] = 0]
  BY DEF Discard, Begin
<1>2. size \in [Inodes -> 0..MaxLines] /\ fd \in Inodes \cup {NoFile} /\ lines \in Nat
  BY DEF Inv, TypeOK, Bounds
<1>3. /\ size' \in [Inodes -> 0..MaxLines]
      /\ \A g \in Inodes : size'[g] \in {0, size[g]}
      /\ fd # NoFile => size'[fd] = size[fd]
  BY <1>1, <1>2
<1>4. /\ present' \subseteq Inodes /\ writer' \in Inodes \cup {NoFile}
      /\ ~matching => present' = {} \/ \E g \in Inodes : present' = {g}
  BY DEF Inv, TypeOK, Discard, Begin
<1>5. TypeOK'
  BY <1>1, <1>3, <1>4, Zenon DEF Inv, TypeOK, counter, Zltimeout
<1>6. Bounds' /\ WithinFile' /\ truncated' \in BOOLEAN
  BY <1>1, <1>2, <1>3 DEF Inv, Bounds, WithinFile, counter, history
<1>7. fd # NoFile => Pending' = Pending /\ size'[fd] = size[fd]
  BY <1>1, <1>3 DEF Pending, Size, counter
<1>8. Accounted' /\ NothingUnnoticed'
  BY <1>1, <1>7 DEF Inv, Accounted, NothingUnnoticed, counter, history
<1> QED
  BY <1>5, <1>6, <1>8 DEF Inv

LEMMA NextInv == Inv /\ [Next]_vars => Inv'
<1> SUFFICES ASSUME Inv, [Next]_vars PROVE Inv'
  OBVIOUS
<1>1. CASE UNCHANGED vars
  BY <1>1 DEF vars, files, counter, history, Inv, TypeOK, Zltimeout, Bounds, WithinFile,
              Accounted, NothingUnnoticed, Pending, Size
<1>2. CASE MeasureClosed
  <2>1. oldnl' \in {0, oldnl}
    BY <1>2 DEF MeasureClosed
  <2> QED
    BY <1>2, <2>1, ReopenInv DEF MeasureClosed
<1>3. CASE MeasureSame
  <2>1. CASE Reopen /\ oldnl' \in {0, oldnl}
    BY <1>3, <2>1, ReopenInv DEF MeasureSame
  <2>2. CASE ~(Reopen /\ oldnl' \in {0, oldnl})
    <3>1. Reopen => oldnl' \in {0, oldnl}
      BY <1>3, Zenon DEF MeasureSame
    <3> QED
      BY <1>3, <2>2, <3>1, CounterInv DEF Skip
  <2> QED
    BY <2>1, <2>2
<1>4. CASE Poll \/ Read \/ MeasureMore \/ Tick
  BY <1>4, CounterInv, Zenon
<1>5. CASE Write
  BY <1>5, WriteInv
<1>6. CASE \E f \in Inodes : Discard(f) \/ Truncate(f) \/ Begin(f)
  BY <1>6, TruncateInv, RotateInv
<1> QED
  BY <1>1, <1>2, <1>3, <1>4, <1>5, <1>6, Zenon DEF Next

----------------------------------------------------------------------------
\* The inductive invariant holds in every reachable state.
THEOREM InvCorrect == Spec => []Inv
BY InitInv, NextInv, PTL DEF Spec

\* MeasureFile is well typed: no count exceeds the lines there were.
THEOREM TypeCorrect == Spec => []TypeOK
BY InvCorrect, PTL DEF Inv

\* However files are replaced and truncated, every line of the open file is
\* counted once, pending or skipped, and none is counted twice.
THEOREM AccountedCorrect == Spec => []Accounted
BY InvCorrect, PTL DEF Inv

\* No line is left that neither a read nor a poll under way will see.
THEOREM NothingUnnoticedCorrect == Spec => []NothingUnnoticed
BY InvCorrect, PTL DEF Inv
=============================================================================
