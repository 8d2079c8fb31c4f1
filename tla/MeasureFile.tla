----------------------------- MODULE MeasureFile -----------------------------
(***************************************************************************)
(* The measure points that count the lines of a log file (qimeasure.cpp):  *)
(* filelen watches the file of one name, matchflen the most recent file of *)
(* a directory.  A LogCountConn of the probe's pool holds the open file    *)
(* and counts lines as they come; measure reports the count, and opens     *)
(* again when the file was replaced.  Meanwhile a program writes the file, *)
(* removes or renames it, truncates it and begins a new one.               *)
(*                                                                         *)
(* A file is its inode, its contents are a number of lines.  present are   *)
(* the files under the name (filelen) or in the directory (matchflen); a   *)
(* file that is not present may still be open.  The inode of an open file  *)
(* is not given to another.                                                *)
(***************************************************************************)
EXTENDS Naturals, Sequences, SequencesExt

CONSTANTS
    Inodes,
    NoFile,
    ZlTimeout,    \* zltimeout of matchflen, 30s, in ticks
    MaxLines,     \* bound: lines written
    MaxRotations  \* bound: files removed, truncated and begun

ASSUME MeasureFileAssumption ==
    /\ NoFile \notin Inodes
    /\ ZlTimeout \in Nat \ {0} /\ MaxLines \in Nat \ {0} /\ MaxRotations \in Nat

VARIABLES
    matching,   \* matchflen (MPlastmatchfilelen) or filelen (MPfilelen)
    \* the files
    present,
    mtimes,     \* the files in the order of their last change
    size,       \* lines in each file
    writer,     \* the file the writing program has open
    \* the measure point and its LogCountConn
    fd,         \* the open file; NoFile when plcc is NULL
    pos,        \* lines before the file position
    nl, prevsize,
    asked,      \* reqr: the pool will call read
    oldnl,
    idle,       \* now - tlast_nonzero
    \* history, since the file was opened
    written, skipped, truncated,
    \* bounds
    lines, rotations

files   == <<present, mtimes, size, writer>>
counter == <<fd, pos, nl, prevsize, asked, oldnl, idle>>
history == <<written, skipped, truncated>>
vars    == <<matching, files, counter, history, lines, rotations>>

Zltimeout == IF matching THEN ZlTimeout ELSE 0
Size      == IF fd = NoFile THEN 0 ELSE size[fd]
\* Lines of the open file that read has not seen.
Pending   == IF Size > pos THEN Size - pos ELSE 0

TypeOK ==
    /\ matching \in BOOLEAN
    /\ present \subseteq Inodes
    /\ ~matching => present = {} \/ \E f \in Inodes : present = {f}
    /\ size \in [Inodes -> 0..MaxLines]
    /\ writer \in Inodes \cup {NoFile} /\ fd \in Inodes \cup {NoFile}
    /\ {pos, nl, prevsize, oldnl} \subseteq 0..MaxLines
    /\ asked \in BOOLEAN
    /\ idle \in 0..(Zltimeout + 1)
    /\ fd = NoFile => ~asked

----------------------------------------------------------------------------
(* Opening.                                                                *)

\* getlast, or the file under the name.
Newest ==
    LET here == {i \in DOMAIN mtimes : mtimes[i] \in present}
        last == {i \in here : \A j \in here : j <= i}
    IN  IF last = {} THEN NoFile ELSE mtimes[CHOOSE i \in last : TRUE]

\* mutant: the request of the deleted connection stays with the pool
OpenAtKeepsRequest(p) ==
    /\ fd' = Newest /\ pos' = p
    /\ nl' = 0 /\ prevsize' = 0 /\ UNCHANGED asked
    /\ idle' = IF Newest = NoFile THEN idle ELSE 0
    /\ written' = 0 /\ skipped' = 0 /\ truncated' = FALSE

\* A new LogCountConn, if there is a file; the old one is deleted.
OpenAt(p) ==
    /\ fd' = Newest /\ pos' = p
    /\ nl' = 0 /\ prevsize' = 0 /\ asked' = FALSE
    /\ idle' = IF Newest = NoFile THEN idle ELSE 0
    /\ written' = 0 /\ skipped' = 0 /\ truncated' = FALSE

ReopenFromStart == OpenAt(0)  \* mutant: the file is read from its beginning
Reopen == OpenAt(IF Newest = NoFile THEN 0 ELSE size[Newest])

\* The measure point is created, with or without a file to open.
Init ==
    /\ matching \in BOOLEAN
    /\ present \in {{}} \cup {{f} : f \in Inodes}
    /\ writer \in present \cup {NoFile}
    /\ mtimes = SetToSeq(present)
    /\ size \in [Inodes -> 0..1] /\ \A f \in Inodes \ present : size[f] = 0
    /\ fd = Newest
    /\ pos = (IF fd = NoFile THEN 0 ELSE size[fd])
    /\ nl = 0 /\ prevsize = 0 /\ asked = FALSE /\ oldnl = 0 /\ idle = 0
    /\ written = 0 /\ skipped = 0 /\ truncated = FALSE
    /\ lines = 1 /\ rotations = 0

----------------------------------------------------------------------------
(* LogCountConn.                                                           *)

\* poll: a change of the size asks for a read.
Poll ==
    /\ fd # NoFile
    /\ size[fd] # prevsize
    /\ prevsize' = size[fd]
    /\ asked' = TRUE
    /\ UNCHANGED <<matching, files, fd, pos, nl, oldnl, idle, history, lines, rotations>>

\* mutant: one buffer only
ReadOneBuffer ==
    /\ asked
    /\ LET n == IF Pending > 1 THEN 1 ELSE Pending IN nl' = nl + n /\ pos' = pos + n
    /\ asked' = FALSE
    /\ UNCHANGED <<matching, files, fd, prevsize, oldnl, idle, history, lines, rotations>>

\* read, up to the end of the file.
Read ==
    /\ asked
    /\ nl' = nl + Pending
    /\ pos' = pos + Pending
    /\ asked' = FALSE
    /\ UNCHANGED <<matching, files, fd, prevsize, oldnl, idle, history, lines, rotations>>

----------------------------------------------------------------------------
(* MPfilelen::measure.                                                     *)

\* plcc is NULL: "U", or the count of a new LogCountConn.
MeasureClosed ==
    /\ fd = NoFile
    /\ Reopen
    /\ oldnl' = IF Newest = NoFile THEN oldnl ELSE 0
    /\ UNCHANGED <<matching, files, lines, rotations>>

\* mutant: the name is not looked at
ReplacedAfterTimeout == {Zltimeout # 0 /\ idle > Zltimeout}
\* What the comparison of lstat's result with curstat may yield.  When
\* lstat fails, newstat is not initialised: either.
Replaced ==
    IF Zltimeout # 0 /\ idle > Zltimeout THEN {TRUE}
    ELSE IF matching THEN IF fd \in present THEN {FALSE} ELSE BOOLEAN
    ELSE IF present = {} THEN BOOLEAN ELSE {fd \notin present}

\* No new line: opened again when the file was replaced, else the position
\* is set to the end.
MeasureSame ==
    /\ fd # NoFile /\ oldnl = nl
    /\ \/ /\ TRUE \in Replaced
          /\ Reopen
          /\ oldnl' = IF Newest = NoFile THEN oldnl ELSE 0
       \/ /\ FALSE \in Replaced
          /\ pos' = Size
          /\ skipped' = skipped + Pending
          /\ UNCHANGED <<fd, nl, prevsize, asked, oldnl, idle, written, truncated>>
    /\ UNCHANGED <<matching, files, lines, rotations>>

MeasureMore ==
    /\ fd # NoFile /\ oldnl # nl
    /\ oldnl' = nl
    /\ idle' = IF Zltimeout # 0 THEN 0 ELSE idle
    /\ UNCHANGED <<matching, files, fd, pos, nl, prevsize, asked, history, lines, rotations>>

Tick ==
    /\ idle < Zltimeout + 1
    /\ idle' = idle + 1
    /\ UNCHANGED <<matching, files, fd, pos, nl, prevsize, asked, oldnl, history, lines, rotations>>

----------------------------------------------------------------------------
(* The writing program, and whoever rotates its files.                     *)

Touch(f) == mtimes' = Append(SelectSeq(mtimes, LAMBDA g : g # f), f)

Write ==
    /\ writer # NoFile
    /\ lines < MaxLines /\ lines' = lines + 1
    /\ size' = [size EXCEPT ![writer] = @ + 1]
    /\ Touch(writer)
    /\ written' = IF writer = fd THEN written + 1 ELSE written
    /\ UNCHANGED <<matching, present, writer, counter, skipped, truncated, rotations>>

Rotates == rotations < MaxRotations /\ rotations' = rotations + 1

\* Removed, or renamed: who has it open keeps it.
Discard(f) ==
    /\ f \in present /\ Rotates
    /\ present' = present \ {f}
    /\ UNCHANGED <<matching, mtimes, size, writer, counter, history, lines>>

Truncate(f) ==
    /\ f \in present /\ Rotates
    /\ size' = [size EXCEPT ![f] = 0]
    /\ Touch(f)
    /\ truncated' = (truncated \/ f = fd)
    /\ UNCHANGED <<matching, present, writer, counter, written, skipped, lines>>

\* A new file; filelen's takes the name of the old one.
Begin(f) ==
    /\ f \notin present \cup {fd, writer} /\ Rotates
    /\ present' = IF matching THEN present \cup {f} ELSE {f}
    /\ size' = [size EXCEPT ![f] = 0]
    /\ writer' = f
    /\ Touch(f)
    /\ UNCHANGED <<matching, counter, history, lines>>

Next ==
    \/ Poll \/ Read \/ MeasureClosed \/ MeasureSame \/ MeasureMore \/ Tick \/ Write
    \/ \E f \in Inodes : Discard(f) \/ Truncate(f) \/ Begin(f)

Spec == Init /\ [][Next]_vars

\* The pool polls and reads, the record set is measured, time passes.
FairSpec ==
    /\ Spec
    /\ WF_vars(Poll) /\ WF_vars(Read) /\ WF_vars(Tick)
    /\ WF_vars(MeasureClosed \/ MeasureSame \/ MeasureMore)

----------------------------------------------------------------------------
(* Properties.                                                             *)

\* Every line written to the open file since it was opened is counted once,
\* not yet read, or was behind the position when a measure without news set
\* it to the end; a truncation may lose lines and never doubles one.
Accounted ==
    /\ fd # NoFile => nl + Pending + skipped <= written
    /\ fd # NoFile /\ ~truncated => nl + Pending + skipped = written

\* No line waits unnoticed: unless the file was truncated, what read has not
\* seen is asked for, or the next poll will ask for it.
NothingUnnoticed ==
    fd # NoFile /\ ~truncated /\ Pending > 0 => asked \/ prevsize # size[fd]

\* Through removals, renames and new files the count comes, in the end, from
\* the file under the name, or the most recent one; only when there is none
\* may it stay with the file that was removed.
FollowsNewest == <>[](present # {} => fd = Newest)
=============================================================================
