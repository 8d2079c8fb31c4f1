# Verification of qigong / qicollect

TLA+ modules, TLC instances and TLAPS proofs for the probe daemon `qigong`, its
collector `qicollect`, and the two of them together. Paths are relative to the
repository; `file:line` is the line the statement rests on.

## 1. The system

`qigong` runs on every watched server. A client connects (TCP, encrypted line
protocol), creates *record sets* (a name, an interval, a list of measure
points), activates them, subscribes to them; the daemon then measures each
activated set once per interval and sends one line to each subscriber.
`qicollect` is the client: for each probe it keeps one connection, sets up the
*collection sets* of its configuration on it, writes the data lines into
round-robin archives, and reconnects when the probe or the network fails.
Both are single threads around a `select` loop (library `qiconn`, an empty
submodule here, so external).

| component | state | operations | hard behaviour |
|---|---|---|---|
| probe daemon, `qigong.cpp/.h` | `mrecordsets`, `schedule`, each set's `channels`, each connection's `subs`, the global `prompt` | create, delete, activate, subscribe, unsubscribe, qiging, quit, turnoff; connection accepted, prompted, destroyed; the measuring loop | two-sided bookkeeping over raw pointers; objects deleted while others point to them; a loop that inserts into the multimap it walks; late polls, clock settings; undefined behaviour in `remove_subs` |
| collector connections, `qicollect.cpp/.h` | `state`, `pending`, `is_collecting`, the three fields of a wait, `CollectionSet::state`, silence and wake-up counters | poll, lineread, reconnect_hook, failconnect_treat, firstprompt, assign | answers that never come, come twice, or belong to an earlier command; reconnection in the middle of a command; silence; retries |
| encrypted transport, `qicrypt.cpp/.h` | keys, challenge, cipher state, packet and line buffers | opencrypt, closecrypt, read, prelineread, flush | packets cut anywhere, between the two bytes of their terminator too; buffers across a reconnection, size limit |
| archives, in `qicollect.cpp` | `rrdlastupdate`, `lastlatency`, the `.rrd` files | the data branch of lineread, validate_freqs, buildmissing_rrd, get_DSdef | clocks that differ or jump, lines that do not fit the archive, the "weird errors" restart, row counts by integer division |
| measures, `qimeasure.cpp/.h` | for log files the open file, position, count, request to read; the other measure points keep nothing but statistics | measure, poll, read, reopen | files truncated, replaced, growing between any two of these; a source that cannot be read, in a line whose values are told apart by their position |
| configuration, `ReadConf`, `CollectionsConf` | `state`, `serverkey`, `metaname`, the set in creation, the registered sets, the connections | one branch per `RCState`, `validate_freqs`, `push_back`, `startnpoll` | names joined by `_`, frequencies that are no multiples, mistakes anywhere in the file |
| `watchconn` | nothing that outlives a round | a daemon of its own: reads `/proc/net/tcp` and `/proc` again each time | - |
| `crtelnet`, `qigenkey`, `hex2base64` | none worth modelling | command-line tools | - |

Interactions: collector and probe exchange lines over a connection that may
close at any time; a line is handled in one step by `lineread`; the probe's
destructor and `suppressrecordset` call back into each other's objects; the
`prompt` global of the probe is shared by all its connections.

What makes each part correct: the two halves of a subscription agree and never
dangle; every activation is one measuring cycle, re-armed exactly once per
visit; a waiting collector awaits the answer to the command it sent; no set is
forgotten; silence ends every wait; after any loss both ends agree on every set.
Ends that accept each other hold the same key and see the same lines, with empty
ones between them at worst. No line of a log is counted twice. No archive is
locked by a wrong clock or holds a value of another column, no set of the
configuration is lost, and its archive is as wide and as long as the file asks
for. The hazards list in `PROJECT.json` names the line where each could go
wrong.

## 2. Modules

| module | what it models | main correspondence |
|---|---|---|
| `Qigong` | the probe daemon | `rs` is the heap of `RecordSet` objects by address, `mrecordsets` the registry, `subs` / `channels` the two halves of a subscription, `schedule` the multimap (entries per address and slot relative to now), `lmi` the entries the measuring loop will erase. One action per command; `PollStart`, `PollVisit`, `PollEnd` unroll `MeasurePool::select_poll` (qigong.cpp:380-394); `Destroy` is the destructor, `Tick` and `SetClock` are time. |
| `ProbeBooks` | which record sets the probe has, who is subscribed to each, how many cycles it runs, and what each command changes of that; no addresses, no schedule | implemented by `Qigong` (through `ProbeService`) and by the probe in `QiSystem` (`ImplementsBooks`) |
| `ProbeService` | what the probe promises its clients: `ProbeBooks`, and lines delivered to exactly the subscribers | implemented by `Qigong` (`ImplementsService`) |
| `Collect` | `CollectingConn` (qicollect.cpp:62-410) against a peer that may say anything | fields under their own names; `PollServe`, `PollWake`, `PollConnect`, `PollGiveUp` are the branches of `poll`, `Welcome`, `Verify`, `Acknowledge`, `Ignore` those of `lineread`, `PeerClosed` is `reconnect_hook`, `failconnect_treat` |
| `CollectionCycle` | what a set-up is: each set through four steps, asked and answered one at a time, in order, all over again after a loss | implemented by `Collect` (`ImplementsCycle`) |
| `QiSystem` | `Collect` closed with the probe: lines on their way, the probe's replies and effects, losses, crashes, restarts, commands of a lost connection that are read late, other clients that change the global prompt | `Obey` and `Reply` are `CollectedConn::lineread` reduced to what a collector sends and tells apart |
| `DataLine` | what each measure point writes into a line when its sources can and cannot be read (the `measure` functions of qimeasure.cpp), and the columns of the archive (`get_DSdef`) | one operator per class, under its name; a value is what it measures and whether it is a number, `U` or something else |
| `RrdUpdate` | the data branch of `lineread` (qicollect.cpp:92-186): timestamp correction, the filter `rrdlastupdate`, librrd's refusals of timestamps and of lines that do not fit, the count of errors and the restart | a tick is 15 s; times are relative to the collector's clock; a line carries what could not be read when it was measured |
| `CryptHandshake` | `CryptConnection` (qicrypt.cpp): salts, hash, challenges, answers, lines; what a lost connection leaves in the objects | one operator per state of `prelineread`; `ReadPacket`, `ReadCR`, `ReadAfterAligned`, `ReadAfterOdd`, `ReadOversize` are the paths of `read`; `ReadsUpTo` is where it stops, after a packet or between its LF and CR; `Abort` is the exception in `WaitingHash` |
| `LineChannel` | what the transport is to the programs that speak through it: a connection that both ends may accept, the lines said and heard on it, and the empty lines heard that nobody said (`HearBlank`); no packets, salts or ciphers | implemented by `CryptHandshake` (`ImplementsChannel`) |
| `MeasureFile` | `MPfilelen`, `MPlastmatchfilelen`, `LogCountConn` (qimeasure.cpp) over files that are written, rotated and truncated | `Poll`, `Read` are `LogCountConn`'s, `MeasureClosed`, `MeasureSame`, `MeasureMore` the branches of `measure`; a tick is 30 s |
| `ReadConf` | the parser of `qicollect.rc`, `CollectionsConf`, `buildmissing_rrd`, `startnpoll` | one action per state of `RCState`; `EndSet` validates and registers; `BuildMissing` creates a set's archive, unless there is one; `Bind` assigns a set to its connection |
| `MC...` | instances: the values of the constants, and what is symmetric in them | |
| `QigongProofs`, `QigongServiceProofs`, `CollectProofs`, `QiSystemProofs`, `RrdUpdateProofs`, `CryptHandshakeProofs`, `MeasureFileProofs`, `ReadConfProofs` | theorems and proofs | |

`QiSystem` extends `Collect`; it does not instantiate `Qigong`, but models the
answers a collector can tell apart. What ties the two models of the probe
together is `ProbeBooks`: both are proved to implement it.

Operators whose comment begins with "mutant" are variants of a definition with
a plausible bug. They are part of no specification: putting one in the place of
the definition it varies must break the property it is written for.

### Modelling decisions worth knowing

- **Addresses are reused.** `Qigong` frees and re-allocates the addresses of
  record sets, so a stale pointer is a state and not an impossibility.
- **Undefined behaviour is a choice.** Erasing `subs.end()`
  (qigong.cpp:230) or from the map being walked (qigong.cpp:174) may hang,
  abort, or pass: `UnsubscribeFault`, `DeleteFault`. A failing `lstat` leaves
  `newstat` uninitialised (qimeasure.cpp:341): `Replaced` offers either result.
- **The wake-up.** `<< eos` at qicollect.cpp:272 prints the address of a
  function as 1, so the probe reads the command `qiging1`, which it does not
  know; `flush` makes every flushed packet a line (qicrypt.cpp:877-903).
- **Lines are classes.** A line stands for all lines that `lineread` treats alike.
- **One thread.** Each handler is one step. Only the measuring loop, which
  changes the container it walks, is split.
- **External parts** (`qiconn`, librrd, mcrypt, mhash, the TCP stack, the clock,
  the file system) are modelled from how the code uses them, and only as far.
  What `flushandclose` leaves of a `CollectingConn` is left open (`Closes`).
- **A packet is put together, its terminator is not.** `read` skips the CR of the
  LF CR that ends a packet only if both are in one buffer (qicrypt.cpp:678). A read
  that ends between them has taken the packet; the next one takes the CR for the
  end of an empty packet: `ReadCR` is a step of its own, in any state of
  `prelineread` but the first (the first packet of a connection is a salt, so
  no CR precedes it, and the refusal of an empty salt, qicrypt.cpp:757-760, is not
  reached). A CR that
  an end takes for a challenge is answered with an empty packet, and the end is
  in `misled` from then on.
- `QiSystem` reads packets with their terminators. To the probe an empty line is
  no command and gets a prompt (qigong.cpp:239-241, 365-373); to a collector it is
  one of the lines that `Collect` allows a peer. `OneRetryEnough` alone would
  count it.
- `CryptHandshake` has honest peers and symbolic ciphers, a key known by its ID.
  It is about agreement and order, not about secrecy. Its branch for a
  wrong answer is reached through a CR or a leftover; the one for a mirrored
  challenge is that of the code, which honest peers do not reach.
- A set of `DataLine` is a list of measure points; what a measure point reads
  is a source, and `failing` are the sources that cannot be read. What librrd
  makes of a value that is neither a number nor `U` depends on its version and is
  left open.
- No two collecting connections have a set of the same fullkey (`SetsApart`):
  they would delete each other's record sets, since the probe knows a set by
  that name only (qicollect.h:120).
- `MeasureFile`: the modification times of two files differ; a line is counted
  whole (a CR and an LF in two buffers are left out).
- `ReadConf` works on words. Two things of the characters are therefore out of
  sight: the closing parenthesis that is searched from the start of the line
  (qicollect.cpp:729: with an earlier one on the same line the parser goes back
  and reads the tags in between for ever), and the closing brace that is refused
  after a space on the line of a tag (qicollect.cpp:779, `seekspace`'s result is
  dropped).

## 3. Runs

| run | specification | what it shows |
|---|---|---|
| `qigong` | 2 clients, 2 names, 2 addresses, one interval, symmetry | `TypeOK`, `SubscriptionsAgree`, `RegistryOwnsHeap`, `ScheduleLive`, and that the daemon implements `ProbeService` |
| `qigong_schedule` | 1 client, 2 sets of intervals 1 and 2, polls up to 2 ticks late, the clock set by -1 or +2 once | `PollRearmsOnce`: an entry re-armed in the past and visited again in the same loop is neither lost nor doubled; `MeasuredForever`: no activated set starves |
| `qigong_robust` | 2 clients, 1 name | **violation** of `StaysUp`: a legal `unsubscribe` hangs or aborts the daemon |
| `collect` | 1 connection, 2 sets, 4 wake-ups, 7 retries, any lines | the invariants of the connection, `ImplementsCycle`, and `NeverStuckInSilence` |
| `system` | 1 collector with 2 sets, lines delayed at will, 2 faults, 1 late command, other clients | `EndsAgree`: what the collector takes for collected is subscribed and measured by exactly one cycle, unless a late command reached the set; `OneRetryEnough`: the shared prompt never costs a handshake its retries |
| `system_live` | as above, lines and closes take less than a tick | `CollectsAgain`: after 2 losses or crashes, silent ones included, every set is collected again; `ImplementsBooks`: the probe keeps its books as `Qigong` does, and who left is subscribed to nothing |
| `rrd_update` | three sets of measure points (a disk counter and the memory; MySQL with its slave; memcached and a volume) over six sources; clock off by up to 4 ticks (lead tolerated: 2), lines up to 2 ticks under way, 2 errors, 2 clock settings, signals or changes of a source | `NeverLockedLong`, `NeverBackwards`; `InItsColumn`: no value that librrd accepts is for another column; `ReportsNbpoints`: only a missing `/proc/meminfo` makes a line too short; `RecordsAgain`, once lines fit |
| `crypt` | right, unknown, unusable or no key; 3 losses at or inside packets; 2 reads that end between LF and CR; a line longer than the limit | `MutualAcceptance`; `MisledNeverAccepted`: who took a CR for a challenge never gets through; `LinesInOrder`: the peer's lines, and at most one empty line per such read; `AcceptedWhileAlive`: they do no lasting harm while the object lives; and that the two ends implement `LineChannel` |
| `crypt_torn` | the right key, one loss inside a base64 group, no terminator split | **violation** of `AcceptedAgain`: the collecting connection destroys itself and nothing creates it again |
| `measure_file` | both classes, 3 files, 4 lines, 2 rotations | `Accounted`, `NothingUnnoticed`, `FollowsNewest` |
| `readconf` | every file of up to 2 sets, 2 frequencies and a tag each, names that join to the same key, every mistake | `NoSetLost`; `ArchiveHolds`: the rows of a frequency whose duration is a multiple of its interval are as wide and reach back as far as it asks; `BoundToItsHost` |
| `readconf_rounding` | one set, a duration that is a multiple of no interval | **violation** of `RoundedUp`: the archive is a row shorter than the warning of `validate_freqs` announces |

### Bounds, and why they are enough

Two clients are what the bookkeeping needs: every handler treats one connection
and everybody else. Two names and two addresses let one set be deleted and its
address be given to the other name. Two sets on a collecting connection are what
"one after the other" and "the sets that follow" need. `SilenceLimit` and
`WakeLimit` are 45 s and 4 in the code; `collect` has the real number of
wake-ups, the system runs use one, which goes through the same branches.
`CC__MAXRETRY` is the real 7. `WeirdLimit` is 15 in the code; what matters is
that it is passed while lines are under way. Three connections in a row
(`MaxLosses`) let a leftover be joined with another. Three files are an old one,
one in use, a new one. The three sets of `Lmps` have the measure points whose
lines differ in shape: one value, none, six or five, one per key, two that
depend on each other; two changes of `Sources` let one fail and come back, or
two fail. `Intervals = {2, 3, 4}` has a multiple of another and one that is
none, and `Durations = {8}` divides by two of them, so that a set can have two
frequencies that need no rounding, or one that does; in `readconf_rounding` 7
divides by none. Two splits (`MaxSplits`) put a CR before two packets of one
connection, or of both ends. `MaxLate`, `MaxAhead`, `MaxEntries`, `MaxJumps`,
`MaxTx`, `MaxRx`, `MaxStale`, `MaxFaults`, `MaxQueue`, `MaxUpsets`, `MaxLines`,
`MaxLosses`, `MaxSplits`, `MaxRotations`, `MaxSets`, `MaxFreqs`, `MaxTags` bound
counters and queues; each is named where it is declared and appears only in
guards. Commands a lost connection leaves behind count as a fault.

`CHECK_DEADLOCK FALSE` stands where the system may stop: a refused key, a
destroyed connection object, a file that is written no more, a configuration
read to its end.

### Fairness, and why the code justifies it

`select_poll` runs every 100 ms (25 ms in qicollect, main), so `Poll`,
`PollServe`, reading what has arrived and the destruction of marked connections
are weakly fair, and time passes. Reads of what was sent are fair while the
connection is up: TCP delivers or the connection ends. `Start` is fair: the
init script starts the daemon again. Nothing is assumed of clients, of the peer
in `Collect`, of faults, of the writer of a log, of an operator. No property uses
strong fairness.

`system_live` assumes that lines and closes take less than a tick
(`Synchronous`): the silence limit is 45 s. Without it the reconnections could
be repeated for ever by lines that always come too late.

## 4. Findings and observations

Findings, each with a run:

1. `unsubscribe` of an existing record set without a subscription erases
   `subs.end()` (qigong.cpp:230); `delete` of a set with subscribers erases from
   the map it walks (qigong.cpp:174). Run `qigong_robust`.
2. `validate_freqs` warns of a duration that is no multiple of its interval and
   announces that it will be rounded to `(1+duration/rounded)*interval`
   (qicollect.cpp:468-471), which is up; `buildmissing_rrd` divides and rounds it
   down (qicollect.cpp:514). A duration below its interval gives an archive of no
   row. Run `readconf_rounding`.
3. `reconnect_hook` leaves the piece of a packet in `bufin`
   (qicollect.cpp:239), where the next connection's salt is appended to it; if it
   is no whole base64 group the object is destroyed. Run `crypt_torn`.

Observations; where a constant is named, changing it reproduces them:

- A command of a lost connection, read after the new connection's, undoes what
  the new one set up: `MaxStale = 1` in `MCQiSystemLive.cfg` violates
  `CollectsAgain`; this is why `EndsAgree` excepts the sets in `late`.
- `challenging`, `welcome`, `verify` and `timeout` have no time limit:
  `QuietLoss <- MCWelcome` in `MCQiSystemLive.cfg` violates `CollectsAgain`.
- Only `creation done.` ends the wait for a create; after a refusal the connection
  wakes up and reconnects for ever, and the sets that follow are never collected
  (qicollect.cpp:297): `Refused <- MCFirst` in `MCQiSystemLive.cfg` violates
  `CollectsAgain`.
- Answers to wake-ups do not reset `nbwakeattempt` (qicollect.cpp:269): a healthy
  connection whose data is rarer than the silence limit is torn down at the fifth
  silence. `Collect` and `QiSystem` do the same.
- An archive that exists is kept after the configuration has changed
  (qicollect.cpp:490): the lines of the new configuration need not fit it.
- `MPconncount` opens `/proc/loadavg` (qimeasure.cpp:1093-1108) and reports a load.
- A missing field of a disk or a network interface leaves the value empty
  (qimeasure.cpp:97-207). MySQL's `Seconds_Behind_Master` is fetched from the
  result of another query, which has not been asked yet (qimeasure.cpp:871):
  `mysql_fetch_row(NULL)` is not defined; `SlaveStatus` takes a library that
  finds nothing then. If that other query fails, the value is the slave's status
  followed by a `U`.
- The short column name of a MySQL variable is made distinct from the keys of
  `gvar` (qimeasure.cpp:740), which are the whole names and not the short ones: two
  variables can get one column name.
- `watchconn` compares a count of connections that nothing increments with
  `-maxconn`, so its valve command is never run.
- `MPmeminfo` writes five `U` for its six values when `/proc/meminfo` cannot be
  opened (qimeasure.cpp:509), while `get_nbpoints`, "the number of measure
  reported" (qimeasure.h:86), says 6: librrd refuses the line, with what the other
  measure points of the set have read. It is the exception that `ReportsNbpoints`
  names; without it the property is violated.
- A read that ends between the LF and the CR of a packet (qicrypt.cpp:678) has
  one of four effects, by what the end waits for. An end that waits for a hash
  is aborted: `string hash (temp, 4)` throws `std::out_of_range` on the empty
  text (qicrypt.cpp:777) and nothing catches it. One that waits for a challenge
  answers the CR, reads the real challenge as an answer, and refuses. One that
  waits for an answer refuses (qicrypt.cpp:819-826). One that has accepted calls
  `lineread` with an empty line (qicrypt.cpp:838-847). The first, and a refusal
  that ends the collector's object, make `AcceptedAgain` fail by themselves;
  `MCCryptTorn.cfg` has `MaxSplits = 0`, so that its finding is about the torn
  piece alone.
- An end of the transport ends with a line longer than `setmaxpendsize`
  (qicrypt.cpp:699): `Large` is not empty in `MCCrypt.cfg`, hence
  `AcceptedWhileAlive` there and not `AcceptedAgain`.
- `rrdlastupdate` moves on even when the record was refused (qicollect.cpp:155):
  `NeverBackwards` needs `steady`, a clock that is not set back.
- The silence limit is 45 s (qicollect.cpp:267), the message speaks of 120 s
  (qicollect.cpp:271).
- A set without any frequency reads the head of an empty list
  (qicollect.cpp:457); `BaseInterval` leaves the result open.
- Two sets of different serverkeys in one configuration write the same archive
  (`Key`, qicollect.h:119): `NoSetLost` states what separates them, and that is
  all.

## 5. Proofs

The proof modules prove, for every value of the constants that satisfies the
named assumptions of the module:

- **Qigong.** `TypeCorrect`, `SubscriptionsCorrect`, `RegistryCorrect`,
  `ScheduleCorrect`. The inductive invariant is the conjunction `TypeOK /\
  SubscriptionsAgree /\ RegistryOwnsHeap /\ ScheduleLive`, and none of the four
  is inductive alone: the end of the loop subtracts `lmi` from the schedule, so
  `TypeOK` needs `ScheduleLive`; `suppressrecordset` frees what the registry
  names and clears the `subs` of the channels it finds; `activate` schedules
  what the registry finds, so `ScheduleLive` needs `RegistryOwnsHeap`. One lemma
  per kind of step, joined in `NextStep`.
- **Qigong, the service.** `PollRearmsOnceCorrect` and `ServiceCorrect`
  (`QigongServiceProofs`), on the same invariant with two facts more
  (`ServiceInv`): only a daemon that runs measures, and one that ended has neither
  client nor set (`Alive`); every set has one of the intervals
  (`KnownIntervals`), so a re-armed entry falls within the schedule. A measuring
  cycle is an entry of the schedule; the entries of a set are taken as a set of
  pairs (slot, number), so that an insertion adds one element
  (`EntriesInsert`) and a clock that moves is a bijection (`EntriesMove`). An entry
  the loop has visited stays in the multimap until the end of the loop:
  `Outstanding` leaves out what is still to be erased, and the visit, the end of
  the loop, the activation and the clock are one lemma each. `Serve...` then maps
  every command, the destructor and the loop to their steps of `ProbeService`.
  `BooksCorrect` is what follows for the books alone.
- **Collect.** `TypeCorrect`, `WatchedCorrect`, `AwaitsCorrect`,
  `NoForgottenCorrect` from the conjunction of the four, and `CycleCorrect`:
  every step is a step of `CollectionCycle` or a stutter. `AwaitsItsAnswer` is
  what makes the refinement work: an acknowledgement moves the set to the state
  the wait recorded, which must be the successor of the one the set is in.
- **QiSystem.** `SystemTypeCorrect`, `EndsAgreeCorrect`, `OneRetryCorrect`: any
  number of collectors, sets, faults and late commands. None of the properties
  is inductive, since each is about what has arrived and not about what is under
  way. `SysInv` adds, for each connection (`Connection`): a connection has at
  most one command about a set or one answer to it under way, that of the set it
  waits for (`OneAtATime`); the probe is as far with each set as the collector,
  or one step further while the answer is under way (`InStep`), unless a late
  command reached the set; the lines before `ready` are the banner, the prompt
  and the answer to the first `qiging ?`, in this order (`Greeted`); the sets
  start over with the connection (`Fresh`); and only a connection that is set up
  is subscribed to anything (`Joined`). A set that the probe does not have has
  no cycle (`CyclesOwned`). `Inv` of `Collect` is used as it was proved. The
  other connections are the lemma `Elsewhere`, which needs `SetsApart`.
  `SystemCycleCorrect`: the collectors implement `CollectionCycle` in the
  company of the modelled probe too, since a step of the system is one of
  `Collect` or leaves the collectors alone (`CollectorSide`). `BooksKeptCorrect`
  is the other half: the probe in front of them keeps the books of `ProbeBooks`,
  commands of lost connections included, as `Qigong` does. It needs that nobody
  is subscribed to a set that does not exist (`Owned`), since such a set is
  created with the subscribers it has, and that a stopped probe has nothing left
  (`Down`). Run `system_live`, which checks it, reads no command late (`MaxStale
  = 0`); for those the theorem stands alone.
- **RrdUpdate.** `TypeCorrect`, `NeverLockedCorrect`, `NeverBackwardsCorrect`.
  The counter of errors passes its limit only while the signal is pending, so
  `TypeOK` is inductive with `CounterBounded`: what the counter may still grow
  by is under way. `NeverBackwards` needs `SteadyOrder`: while the clock is
  steady the lines arrive in the order of their timestamps, none later than the
  probe's time, and what librrd accepted last is no later than `rrdlastupdate`,
  or, after a restart has forgotten that, earlier than all that is still to
  come. `InItsColumnCorrect` and `ReportsNbpointsCorrect` are about what is
  written and not about the state. The first has a hypothesis, and the code asks
  for it: `InItsColumn` fails for a list with `conncount`, which reads the load
  average (qimeasure.cpp:1093-1108), and the theorem says that there is no other
  such measure point. `ReportsNbpoints` names its exception itself, `meminfo`
  without its file, and holds for every list. `InItsColumn` holds although a
  list with `meminfo` shifts what follows it, because the line is then too short
  and librrd refuses all of it (`Aligns`, `JoinAligns`: no measure point writes
  more than its columns, so a line that is as long as the columns is so point by
  point). The lines are concatenations of any number of lists; the recursion of
  the community module's `FlattenSeq` is unrolled once (`Recursion`, `Flat`),
  and induction on the number of lists is by the least element of a set of
  counterexamples (`SetInduction`).
- **CryptHandshake.** `TypeCorrect`, `MutualAcceptanceCorrect`,
  `MisledNeverAcceptedCorrect`, `LinesInOrderCorrect`, for any ring of keys,
  number of losses, of lines and of reads that end inside a terminator. While no
  end is misled, an end that still expects n packets of the handshake has at most
  n of them before the first line (`Order`), and while the connection is up
  every packet sent is read or under way (`Up`). Once an end has taken a CR for a
  challenge it expects one packet less than will come: what it reads next is the
  peer's challenge or an empty answer where its own challenge is wanted, and both
  are refused; what its peer reads is the empty answer, or nothing (`Astray`).
  That needs
  two facts that hold in step or not: the first packet of a connection is a salt
  (`SaltFirst`), and who has answered has the handshake behind it (`Reached`). An
  empty packet is counted where it is heard (`Blanks`). The lines read are
  the first ones of this connection (`Heard`). `ChannelCorrect`:
  the transport implements `LineChannel`; an end that accepts reads one packet
  after the other, each of which is a line heard, an empty one heard, the
  acceptance with the first line said, or invisible, and nothing of a connection
  outlives it in what the next one says or hears.
- **MeasureFile.** `TypeCorrect`, `AccountedCorrect`, `NothingUnnoticedCorrect`.
  What is added is that neither the position nor the size `poll` has seen is
  past the end of a file that was not truncated (`WithinFile`), and that a file
  holds no more lines than were written (`Bounds`).
- **ReadConf.** `TypeCorrect`, `NoSetLostCorrect`, `ArchiveHoldsCorrect`,
  `BoundToItsHostCorrect`. Each state of the parser needs the words the states
  before it have read (`WordsRead`); there are as many sets as definitions that
  ended (`Counted`), which is `NoSetLost`; an archive is that of a registered set
  whose intervals were validated (`Archives`), so the first integer division of
  `buildmissing_rrd` is exact, and the second for a duration that is a multiple.

Assumptions: `QigongAssumption` (intervals positive and within `MaxAhead`,
`NoName` and `NoPtr` outside), `CollectAssumption` (`Rank` is injective),
`SystemAssumption` and `SetsApart` (no set belongs to two connections),
`RrdAssumption` (the ranges of the bounds), `LmpsAssumption` (a set's measure
points are a list, and so are the variables of one), `CryptAssumption` (`NoKey`
is no key), `MeasureFileAssumption`, `ReadConfAssumption` and
`NothingAssumption` (`NULL` is no set). TLC evaluates them in the runs.

Model-checked only: what holds under fairness (`MeasuredForever`,
`NeverStuckInSilence`, `CollectsAgain`, `RecordsAgain`, `AcceptedWhileAlive`,
`FollowsNewest`), which the prover cannot treat. Every other property of a
passing run is a theorem, in full or, for `InItsColumn`, with the hypothesis named
above.

## 6. Not modelled

- How measure points parse their parameters and what they read from `/proc`, from
  memcached and from MySQL: characters. `DataLine` takes the values from there.
- `base64`, `nekchecksum`, the parser of key files, `KeyRing`'s lookup by host name:
  characters too. `CryptHandshake` takes a packet that does not decode as given.
- `delay_reconnect`: how long it grows. `hold` only says that it has not elapsed,
  and no property depends on when.
- The configuration read again by a restarted collector: `Relaunch` takes it to be
  the one that was accepted.
- `watchconn`: each round scans `/proc/net/tcp` and the processes in `/proc` and
  keeps no state for the next one. `crtelnet` (a terminal), `qigenkey` and
  `hex2base64` (print a key), scripts and packaging.
- The select loop itself (`qiconn` is an empty submodule).

## 7. What could follow

All modules planned are written, and every property the passing runs check is
proved but those that need fairness. What remains, in this order:

1. The lines of `QiSystem`: `ProbeBooks` says nothing of deliveries, and
   `Measure` in `QiSystem` sends lines at any moment of a tick where
   `Qigong` has a schedule. An abstract measuring that both implement would
   close this.
2. `CollectsAgain` and `RecordsAgain` on larger instances: two collectors, three
   faults.
3. `base64` against a reference definition, and the parser of key files, if the
   characters are wanted.
