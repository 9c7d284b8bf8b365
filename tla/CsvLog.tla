------------------------------- MODULE CsvLog -------------------------------
(***************************************************************************)
(* CsvSink: change events as rows of a file, one file a day or one for     *)
(* good.  The file object buffers: rows reach the disk when the sink       *)
(* flushes, when it closes the file to rotate, or when the buffer spills,  *)
(* and a spill or a write that fails may stop in the middle of a row.      *)
(*                                                                         *)
(* emit() never suspends (nobody else ever holds its lock), so each action *)
(* is a whole call.  The module has no Next of its own: Service, which     *)
(* owns the sink, says when its actions happen.                            *)
(***************************************************************************)
EXTENDS Integers, Sequences, FiniteSets

CONSTANTS
  FlushEvery,     \* flush_every, zero and negative values included
  BufferRows,     \* how many lines the file object holds back at most
  LastDay,        \* bound: how many days pass
  MaxEvents,      \* bound: how many events are emitted
  MaxDiskFaults   \* bound: how often the disk refuses something

ASSUME CsvLogAssumption ==
  /\ FlushEvery \in Int
  /\ {BufferRows, LastDay} \subseteq Nat \ {0}
  /\ {MaxEvents, MaxDiskFaults} \subseteq Nat

VARIABLES
  rotateDaily,  \* the option rotate_daily
  today,        \* the date of the events
  disk,         \* the lines of each file that exists
  handle,       \* _file: "none", "open", or "closed" by a rotation that failed
  openDay,      \* _current_day, 0 for None
  buffer,       \* the lines the file object holds back
  split,        \* a part of the first of them is on the disk already
  sinceFlush,   \* _since_flush
  events,       \* number of the last event
  accepted,     \* history: rows written since the process started
  forfeited,    \* history: those of them that went with a close() that failed
  losses,       \* history: how often a buffer was lost
  diskFaults    \* how often the disk has refused something

csvVars == <<rotateDaily, today, disk, handle, openDay, buffer, split, sinceFlush,
             events, accepted, forfeited, losses, diskFaults>>

(* A line of a file, or the beginning of one whose rest never came: what   *)
(* is appended next goes on where it breaks off.                           *)
Row == [id : 1 .. MaxEvents, day : 1 .. LastDay, whole : {TRUE}]
Header == [id |-> 0, day |-> 0, whole |-> TRUE]
Torn(line) == [line EXCEPT !.whole = FALSE]
Piece == [id : 0 .. MaxEvents, day : 0 .. LastDay, whole : BOOLEAN]
File == 0 .. LastDay

CsvTypeOK ==
  /\ rotateDaily \in BOOLEAN
  /\ today \in 1 .. LastDay
  /\ DOMAIN disk \subseteq File
  /\ \A f \in DOMAIN disk : disk[f] \in Seq(Piece)
  /\ handle \in {"none", "open", "closed"}
  /\ openDay \in 0 .. LastDay
  /\ buffer \in Seq(Row \cup {Header})
  /\ handle # "open" => buffer = <<>>
  /\ split \in BOOLEAN
  /\ split => buffer # <<>>
  /\ sinceFlush \in Nat
  /\ events \in 0 .. MaxEvents
  /\ accepted \in Seq(Row)
  /\ forfeited \subseteq Row
  /\ losses \in Nat
  /\ diskFaults \in 0 .. MaxDiskFaults

CsvInit ==
  /\ rotateDaily \in BOOLEAN
  /\ today = 1
  /\ disk = [f \in {} |-> <<>>]
  /\ handle = "none" /\ openDay = 0
  /\ buffer = <<>> /\ split = FALSE /\ sinceFlush = 0
  /\ events = 0 /\ accepted = <<>> /\ forfeited = {} /\ losses = 0
  /\ diskFaults = 0

-----------------------------------------------------------------------------
(* _path_for(). *)
PathFor(day) == IF rotateDaily THEN day ELSE 0

Batch == IF FlushEvery > 1 THEN FlushEvery ELSE 1

(* The disk after lines have been appended to a file, which open() creates *)
(* if it is not there.                                                     *)
Appended(d, f, lines) ==
  [g \in DOMAIN d \cup {f} |->
     IF g # f THEN d[g] ELSE IF f \in DOMAIN d THEN d[f] \o lines ELSE lines]

(* Slip: a file that exists has its header. *)
IsNewName(d, f) == f \notin DOMAIN d

(* The test of _ensure_file() that decides about the header. *)
IsNew(d, f) == f \notin DOMAIN d \/ d[f] = <<>>

HasFile == handle # "none" /\ openDay = today

(* The disk after the close() of a rotation. *)
Closed == IF handle = "open" THEN Appended(disk, PathFor(openDay), buffer) ELSE disk

(* Slip: the file is opened with "w". *)
OpenedAnew ==
  [disk |-> [f \in DOMAIN Closed \cup {PathFor(today)} |->
               IF f = PathFor(today) THEN <<>> ELSE Closed[f]],
   buffer |-> <<Header>>, split |-> FALSE]

(* open() with "a", and the header in the buffer if the file is new. *)
Opened ==
  [disk |-> Appended(Closed, PathFor(today), <<>>),
   buffer |-> IF IsNew(Closed, PathFor(today)) THEN <<Header>> ELSE <<>>,
   split |-> FALSE]

(* _ensure_file(). *)
EnsureFile ==
  IF HasFile THEN [disk |-> disk, buffer |-> buffer, split |-> split] ELSE Opened

Event == [id |-> events + 1, day |-> today, whole |-> TRUE]

(* n of the lines, and part of the next if t, can be what has left the     *)
(* buffer: a line that was begun stays begun.                              *)
Leaves(lines, n, t, begun) ==
  /\ t => n < Len(lines)
  /\ n = 0 /\ begun => t

(* They reach file f of the disk d, the others are held back. *)
WrittenUpTo(d, f, lines, n, t) ==
  /\ disk' = Appended(d, f, SubSeq(lines, 1, n))
  /\ buffer' = SubSeq(lines, n + 1, Len(lines))
  /\ split' = t

(* A row goes into the buffer, of which a part may spill to the disk.      *)
Write(row) ==
  LET lines == Append(EnsureFile.buffer, row)
      full == Len(lines) > BufferRows
  IN  \E n \in 0 .. Len(lines), t \in BOOLEAN :
        /\ Leaves(lines, n, t, EnsureFile.split)
        /\ ~full => n = 0 /\ t = EnsureFile.split
        /\ WrittenUpTo(EnsureFile.disk, PathFor(today), lines, n, t)

(* Slip: the count of unflushed rows starts again before it is compared.   *)
FlushNeverDue == FALSE

FlushDue == sinceFlush + 1 >= Batch

(* What the rows of emit() have in common. *)
Accept ==
  /\ events < MaxEvents
  /\ handle = "closed" => openDay # today
  /\ events' = events + 1
  /\ accepted' = Append(accepted, Event)
  /\ handle' = "open" /\ openDay' = today
  /\ UNCHANGED <<rotateDaily, today, forfeited, losses>>

(* emit() of a row that is left in the buffer. *)
EmitBuffered ==
  /\ ~FlushDue
  /\ Accept
  /\ Write(Event)
  /\ sinceFlush' = sinceFlush + 1
  /\ UNCHANGED diskFaults

(* emit() with a flush. *)
EmitFlushed ==
  /\ FlushDue
  /\ Accept
  /\ disk' = Appended(EnsureFile.disk, PathFor(today), Append(EnsureFile.buffer, Event))
  /\ buffer' = <<>> /\ split' = FALSE
  /\ sinceFlush' = 0
  /\ UNCHANGED diskFaults

DiskRefuses == diskFaults < MaxDiskFaults /\ diskFaults' = diskFaults + 1

(* Some of the buffer reaches the disk, before the disk refuses the rest.  *)
FlushStops(d, lines, begun) ==
  /\ DiskRefuses
  /\ \E n \in 0 .. (Len(lines) - 1), t \in BOOLEAN :
       /\ Leaves(lines, n, t, begun)
       /\ WrittenUpTo(d, PathFor(openDay'), lines, n, t)

(* flush() raises: what was not written stays in the buffer, the count     *)
(* where it is.                                                            *)
FlushRaises ==
  /\ FlushDue
  /\ Accept
  /\ FlushStops(EnsureFile.disk, Append(EnsureFile.buffer, Event), EnsureFile.split)
  /\ sinceFlush' = sinceFlush + 1

(* The disk when the buffer is lost after n lines and perhaps a part of    *)
(* the next.                                                               *)
CutOff(n, t) ==
  Appended(disk, PathFor(openDay),
           SubSeq(buffer, 1, n) \o (IF t THEN <<Torn(buffer[n + 1])>> ELSE <<>>))

(* The close() of a rotation raises: the file is closed all the same, and  *)
(* what it still held back is gone.  So is the event.                      *)
CloseRaises ==
  /\ events < MaxEvents
  /\ handle = "open" /\ openDay # today
  /\ buffer # <<>>
  /\ DiskRefuses
  /\ events' = events + 1
  /\ handle' = "closed"
  /\ buffer' = <<>> /\ split' = FALSE
  /\ \E n \in 0 .. (Len(buffer) - 1), t \in BOOLEAN :
       /\ Leaves(buffer, n, t, split)
       /\ disk' = CutOff(n, t)
       /\ forfeited' = forfeited \cup ({buffer[i] : i \in (n + 1) .. Len(buffer)} \ {Header})
  /\ losses' = losses + 1
  /\ UNCHANGED <<rotateDaily, today, openDay, sinceFlush, accepted>>

(* Slip: _current_day is set before open(). *)
OpenRaisesLate ==
  /\ events < MaxEvents
  /\ ~HasFile
  /\ DiskRefuses
  /\ events' = events + 1
  /\ disk' = Closed
  /\ handle' = IF handle = "none" THEN "none" ELSE "closed"
  /\ openDay' = today
  /\ buffer' = <<>> /\ split' = FALSE
  /\ UNCHANGED <<rotateDaily, today, sinceFlush, accepted, forfeited, losses>>

(* open() raises: _file is still the closed file of the day before. *)
OpenRaises ==
  /\ events < MaxEvents
  /\ ~HasFile
  /\ DiskRefuses
  /\ events' = events + 1
  /\ disk' = Closed
  /\ handle' = IF handle = "none" THEN "none" ELSE "closed"
  /\ buffer' = <<>> /\ split' = FALSE
  /\ UNCHANGED <<rotateDaily, today, openDay, sinceFlush, accepted, forfeited, losses>>

Emit == EmitBuffered \/ EmitFlushed \/ FlushRaises \/ CloseRaises \/ OpenRaises

(* flush() and aclose() one after the other.  Of a file that a rotation    *)
(* has left closed, flush() raises and nothing happens.                    *)
FlushAndClose ==
  /\ disk' = Closed
  /\ buffer' = <<>> /\ split' = FALSE
  /\ handle' = IF handle = "open" THEN "none" ELSE handle
  /\ sinceFlush' = IF handle = "open" THEN 0 ELSE sinceFlush
  /\ UNCHANGED <<rotateDaily, today, openDay, events, accepted, forfeited, losses, diskFaults>>

(* flush() raises on the way down, and aclose() is skipped. *)
FlushFailsOnClose ==
  /\ handle = "open" /\ buffer # <<>>
  /\ UNCHANGED openDay
  /\ FlushStops(disk, buffer, split)
  /\ UNCHANGED <<rotateDaily, today, handle, sinceFlush, events, accepted, forfeited, losses>>

(* The process is gone: what was buffered has reached the disk, if the     *)
(* interpreter came to close the file, or it has not.                      *)
Vanish(writesOut) ==
  /\ IF writesOut \/ buffer = <<>>
     THEN disk' = Closed /\ UNCHANGED losses
     ELSE disk' = CutOff(0, split) /\ losses' = losses + 1
  /\ buffer' = <<>> /\ split' = FALSE
  /\ handle' = "none"
  /\ UNCHANGED <<rotateDaily, today, openDay, sinceFlush, events, accepted, forfeited, diskFaults>>

(* __init__() of the next process. *)
FreshSink ==
  /\ handle' = "none" /\ openDay' = 0
  /\ buffer' = <<>> /\ split' = FALSE /\ sinceFlush' = 0
  /\ accepted' = <<>> /\ forfeited' = {}
  /\ UNCHANGED <<rotateDaily, today, disk, events, losses, diskFaults>>

DayPasses ==
  /\ today < LastDay
  /\ today' = today + 1
  /\ UNCHANGED <<rotateDaily, disk, handle, openDay, buffer, split, sinceFlush, events,
                 accepted, forfeited, losses, diskFaults>>

-----------------------------------------------------------------------------
(* Among them no row of which a part is missing. *)
OnDisk == UNION {{disk[f][i] : i \in DOMAIN disk[f]} : f \in DOMAIN disk}

(* Rows of this process, by position, that are neither on disk nor gone    *)
(* with a close() that failed: what a crash takes with it.                 *)
AtRisk == {i \in DOMAIN accepted : accepted[i] \notin (OnDisk \cup forfeited)}

(* Where a file has the beginning of a line and no more of it. *)
Tears == UNION {{f} \X {i \in DOMAIN disk[f] : ~disk[f][i].whole} : f \in DOMAIN disk}

(* Every file begins with its header and has no second one, and below it   *)
(* are rows of its day, each once and in the order of the events, whatever *)
(* crashes, restarts and failures came between.  A line is torn only where *)
(* a buffer was lost, one for each at most; the line appended next, if any *)
(* is, goes on in the torn one, and no other is spoiled (_ensure_file,     *)
(* which appends to whatever it finds).                                    *)
FilesAreTables ==
  /\ \A f \in DOMAIN disk : \A i \in DOMAIN disk[f] :
       /\ (i = 1) = (disk[f][i].id = Header.id)
       /\ i > 1 => /\ disk[f][i - 1].id < disk[f][i].id
                   /\ rotateDaily => disk[f][i].day = f
  /\ Cardinality(Tears) <= losses

(* What a crash can take is the end of the log, fewer than flush_every     *)
(* rows of it; more only while the disk refuses to take them (emit).  A    *)
(* row behind a torn line is written, if not on a line of its own.         *)
CrashTakesTheEnd ==
  /\ \A i \in AtRisk : \A j \in DOMAIN accepted : j > i => j \in AtRisk
  /\ Cardinality(AtRisk) <= sinceFlush
  /\ diskFaults = 0 => sinceFlush < Batch

(* After a rotation that failed the next event opens its file: the sink    *)
(* never writes to the closed one (_ensure_file: _current_day is set last).*)
FailedRotationHeals == handle = "closed" => openDay # today

(* What is in the files d is where it was in the files e. *)
Begins(s, t) == Len(s) <= Len(t) /\ \A i \in 1 .. Len(s) : t[i] = s[i]
Keeps(d, e) == \A f \in DOMAIN d : f \in DOMAIN e /\ Begins(d[f], e[f])

(* A line once written stays where it is, also when a restarted process    *)
(* opens the file of the same day again (the "a" of open).                 *)
LinesStay == [][Keeps(disk, disk')]_csvVars
=============================================================================
