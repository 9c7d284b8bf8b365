------------------------------ MODULE Service ------------------------------
(***************************************************************************)
(* The process: started, serving, told to stop, killed, started again, in  *)
(* one mode or the other, with the CSV file and the reports it leaves.     *)
(*                                                                         *)
(* The lifespan connects before anything is served, runs one task, and on  *)
(* the way out cancels it, flushes and closes the sinks and disconnects.   *)
(* uvicorn looks at a stop only when the first half is over, and calls the *)
(* second only when no connection is left: an open page holds one, and so  *)
(* does a write that waits for the device.                                 *)
(***************************************************************************)
EXTENDS CsvLog, ReportStore

CONSTANTS
  MaxStarts,  \* bound: how often the process is started
  MaxPages,   \* bound: how many streams are open at once
  MaxWrites   \* bound: how many writes are pending at once

ASSUME ServiceAssumption == {MaxStarts, MaxPages, MaxWrites} \subseteq Nat

VARIABLES
  phase,   \* where the process is, see Phase
  mode,    \* "Scan" or "Discover"
  task,    \* the one task of the lifespan: "none", "running" or "done"
  endless, \* reconnect.max_attempts is negative
  pages,   \* open streams
  writes,  \* POST /api/write requests not answered yet
  starts   \* how often the process was started

lifeVars == <<phase, mode, task, endless, pages, writes, starts>>
held == <<endless, pages, writes>>
vars == <<csvVars, storeVars, lifeVars>>

(* "recalled": told to stop while connecting; "draining": told to stop,    *)
(* connections still open; "cancelled": the task has ended; "closed": the  *)
(* sinks have been flushed and closed.                                     *)
Phase == {"down", "connecting", "recalled", "up", "draining", "cancelled", "closed"}

(* The type invariant of the composition: among others, a file is being    *)
(* written only while a discovery task runs.                               *)
TypeOK ==
  /\ CsvTypeOK /\ StoreTypeOK
  /\ phase \in Phase
  /\ mode \in {"Scan", "Discover"}
  /\ task \in {"none", "running", "done"}
  /\ writing # NoName => task = "running" /\ mode = "Discover"
  /\ endless \in BOOLEAN
  /\ pages \in 0 .. MaxPages
  /\ writes \in 0 .. MaxWrites
  /\ starts \in 0 .. MaxStarts

Init ==
  /\ CsvInit /\ StoreInit
  /\ phase = "down" /\ mode = "Scan" /\ task = "none"
  /\ endless \in BOOLEAN /\ pages = 0 /\ writes = 0 /\ starts = 0

(* The loop is free unless a report is being written. *)
LoopFree == writing = NoName

-----------------------------------------------------------------------------
(* make_app(), and the lifespan up to client.connect(). *)
Start ==
  /\ phase = "down"
  /\ starts < MaxStarts
  /\ starts' = starts + 1
  /\ phase' = "connecting"
  /\ mode' \in {"Scan", "Discover"}
  /\ task' = "none"
  /\ FreshSink
  /\ UNCHANGED <<storeVars, endless, pages, writes>>

(* connect() returns: the task is created, requests are served. *)
Connected ==
  /\ phase = "connecting"
  /\ phase' = "up"
  /\ task' = "running"
  /\ UNCHANGED <<csvVars, storeVars, mode, held, starts>>

(* It returns when a stop is waiting: the task is created all the same,    *)
(* and the second half follows, or uvicorn leaves the process without it.  *)
ConnectedTooLate ==
  /\ phase = "recalled"
  /\ \/ phase' = "draining" /\ task' = "running"
     \/ phase' = "down" /\ UNCHANGED task
  /\ UNCHANGED <<csvVars, storeVars, mode, held, starts>>

(* connect() gives up after max_attempts, and with it the process. *)
ConnectGivesUp ==
  /\ phase \in {"connecting", "recalled"}
  /\ ~endless
  /\ phase' = "down"
  /\ UNCHANGED <<csvVars, storeVars, mode, task, held, starts>>

ConnectEnds == Connected \/ ConnectedTooLate \/ ConnectGivesUp

(* A poll of the scanner emits a change. *)
ScanEmits ==
  /\ task = "running" /\ mode = "Scan"
  /\ Emit
  /\ UNCHANGED <<storeVars, lifeVars>>

(* _run_discovery(): the run is over and the report file opened. *)
DiscoveryEnds ==
  /\ task = "running" /\ mode = "Discover"
  /\ OpenReport
  /\ UNCHANGED <<csvVars, lifeVars>>

ReportWritten ==
  /\ CloseReport
  /\ task' = "done"
  /\ UNCHANGED <<csvVars, phase, mode, held, starts>>

(* The disk refuses: write_report() raises, and the task with it, unheard. *)
ReportRaises ==
  /\ diskFaults < MaxDiskFaults
  /\ diskFaults' = diskFaults + 1
  /\ CutReport
  /\ task' = "done"
  /\ UNCHANGED <<rotateDaily, today, disk, handle, openDay, buffer, split, sinceFlush, events,
                 accepted, forfeited, losses, phase, mode, held, starts>>

-----------------------------------------------------------------------------
(* A page opens its stream; once told to stop, uvicorn accepts no more.    *)
OpenStream ==
  /\ phase = "up" /\ LoopFree
  /\ pages < MaxPages
  /\ pages' = pages + 1
  /\ UNCHANGED <<csvVars, storeVars, phase, mode, task, endless, writes, starts>>

CloseStream ==
  /\ pages > 0 /\ LoopFree
  /\ pages' = pages - 1
  /\ UNCHANGED <<csvVars, storeVars, phase, mode, task, endless, writes, starts>>

(* post_write() awaits the client: the bus, or a device that is away. *)
BeginWrite ==
  /\ phase = "up" /\ LoopFree
  /\ writes < MaxWrites
  /\ writes' = writes + 1
  /\ UNCHANGED <<csvVars, storeVars, phase, mode, task, endless, pages, starts>>

EndWrite ==
  /\ writes > 0 /\ LoopFree
  /\ writes' = writes - 1
  /\ UNCHANGED <<csvVars, storeVars, phase, mode, task, endless, pages, starts>>

(* SIGTERM or Ctrl-C; connecting, polling and discovery go on. *)
StopSignal ==
  /\ phase \in {"connecting", "up"} /\ LoopFree
  /\ phase' = IF phase = "up" THEN "draining" ELSE "recalled"
  /\ UNCHANGED <<csvVars, storeVars, mode, task, held, starts>>

(* No connection is left. *)
Idle == pages = 0 /\ writes = 0

(* Slip: the task is not awaited, and has still to see its cancellation. *)
CancelUnawaited ==
  /\ phase = "draining" /\ Idle /\ LoopFree
  /\ phase' = "cancelled"
  /\ UNCHANGED <<csvVars, storeVars, mode, task, held, starts>>

(* Slip: the task is awaited, but not cancelled first. *)
CancelNever ==
  /\ phase = "draining" /\ Idle /\ LoopFree
  /\ task = "done"
  /\ phase' = "cancelled"
  /\ UNCHANGED <<csvVars, storeVars, mode, task, held, starts>>

(* Slip: reports are written in a thread, and a stop does not wait for it. *)
CancelWhileWriting ==
  /\ phase = "draining" /\ Idle
  /\ phase' = "cancelled"
  /\ task' = "done"
  /\ UNCHANGED <<csvVars, storeVars, mode, held, starts>>

(* The last connection is gone: the "finally" of the lifespan cancels the  *)
(* task at its await and waits for its end.                                *)
CancelTasks ==
  /\ phase = "draining" /\ Idle /\ LoopFree
  /\ phase' = "cancelled"
  /\ task' = "done"
  /\ UNCHANGED <<csvVars, storeVars, mode, held, starts>>

(* sink.flush() and sink.aclose(), one "suppress" around both. *)
CloseSinks ==
  /\ phase = "cancelled"
  /\ FlushAndClose \/ FlushFailsOnClose
  /\ phase' = "closed"
  /\ UNCHANGED <<storeVars, mode, task, held, starts>>

(* client.disconnect(), and the process ends.  A file left open is closed  *)
(* by the interpreter, or not.                                             *)
Exit ==
  /\ phase = "closed"
  /\ \E writesOut \in BOOLEAN : Vanish(writesOut)
  /\ phase' = "down"
  /\ UNCHANGED <<storeVars, mode, task, held, starts>>

(* A second Ctrl-C: uvicorn leaves without the lifespan's second half.     *)
ForceQuit ==
  /\ phase = "draining" /\ LoopFree
  /\ \E writesOut \in BOOLEAN : Vanish(writesOut)
  /\ phase' = "down" /\ pages' = 0 /\ writes' = 0 /\ task' = "none"
  /\ UNCHANGED <<storeVars, mode, endless, starts>>

(* The process is killed, at any point. *)
Kill ==
  /\ phase # "down"
  /\ Vanish(FALSE)
  /\ IF writing = NoName THEN UNCHANGED storeVars ELSE CutReport
  /\ phase' = "down" /\ pages' = 0 /\ writes' = 0 /\ task' = "none"
  /\ UNCHANGED <<mode, endless, starts>>

NewDay == DayPasses /\ UNCHANGED <<storeVars, lifeVars>>

Next ==
  \/ Start \/ ConnectEnds
  \/ ScanEmits \/ DiscoveryEnds \/ ReportWritten \/ ReportRaises
  \/ OpenStream \/ CloseStream \/ BeginWrite \/ EndWrite
  \/ StopSignal \/ CancelTasks \/ CloseSinks \/ Exit \/ ForceQuit \/ Kill
  \/ NewDay

Spec == Init /\ [][Next]_vars

(* The code of the lifespan runs on while there is nothing to wait for,    *)
(* a report is written to its end or not, and a number of attempts to      *)
(* connect comes to its end, and with it a write that needs the connection *)
(* (CallsReturn in Transport).  Nobody has to close a page, send a signal, *)
(* start the process again or bring the device back.                       *)
FairSpec ==
  /\ Spec
  /\ WF_vars(CancelTasks) /\ WF_vars(CloseSinks) /\ WF_vars(Exit)
  /\ WF_vars(ReportWritten \/ ReportRaises)
  /\ WF_vars(~endless /\ ConnectEnds) /\ WF_vars(~endless /\ EndWrite)

-----------------------------------------------------------------------------
(* A stop that gets as far as the sinks loses nothing: when they are       *)
(* closed every row is on disk, and no task is left that could open the    *)
(* file again, unless the disk has refused (service.py lifespan); a row    *)
(* that came behind a torn line of an earlier crash is spoiled all along.  *)
StopKeepsTheLog ==
  phase = "closed" /\ diskFaults = 0 => AtRisk = {} /\ handle = "none"

(* A stop comes to its end, while connecting, in the middle of a poll, of  *)
(* a discovery or of a report, with the disk refusing or not.  It is held  *)
(* up for good by a page nobody closes and, where attempts to connect have *)
(* no limit and the device stays away, by the start-up and by a write that *)
(* both wait for it; by nothing else (service.py lifespan, post_write,     *)
(* ResilientClient._connect_with_backoff, uvicorn).                        *)
StopTakesEffect ==
  [](phase \in {"recalled", "draining"} =>
       <>(\/ phase = "down"
          \/ [](pages > 0)
          \/ endless /\ ([](writes > 0) \/ [](phase = "recalled"))))
=============================================================================
