------------------------------- MODULE Scanner -------------------------------
(***************************************************************************)
(* The polling engine: application/scanner.py with the DeadAddressTracker  *)
(* it shares between ranges and the LiveStateSink table its events feed.   *)
(*                                                                         *)
(* Every configured range is one asyncio task.  A task gives up control in *)
(* two places only, the sleep between polls and the wait for a read, so an *)
(* action is the code from one of those waits to the next.  The device     *)
(* looks at its registers while the task waits, and time passes until the  *)
(* task gets to see the answer: that is an action of its own.  The sinks   *)
(* that service.build_sink composes never suspend: all events of one       *)
(* answer are delivered in the step that handles it.                       *)
(***************************************************************************)
EXTENDS Integers, Sequences

CONSTANTS
  Ranges,            \* the scan ranges; each gets one task
  Bank,             \* (unit id, object type): the key of the dead tracker
  Address,          \* the addresses of a bank
  Value,            \* raw values of a register or coil
  NoValue,          \* None: nothing cached, nothing known
  ScanRange,        \* the settings of a range: bank, start, count, batch
  Implemented,      \* per bank, the addresses the device answers for
  AtPowerOn,        \* those of them it answers for from the first request on
  Broken,           \* those it refuses, but not as illegal addresses
  HeldAtFirst,      \* bound: what the device may hold when the polling begins
  MaxChanges,       \* bound: how often the device changes a value
  MaxReadFailures,  \* bound: reads that fail in passing, or are cut short
  MaxSinkFailures   \* bound: events on which the console or CSV sink raises

Settings == [bank : Bank, start : Nat, count : Nat \ {0}, batch : Nat \ {0}]

(* The addresses a range covers. *)
Covered(r) == ScanRange[r].start .. (ScanRange[r].start + ScanRange[r].count - 1)

ASSUME ScannerAssumption ==
  /\ Address \subseteq Nat
  /\ NoValue \notin Value
  /\ ScanRange \in [Ranges -> Settings]
  /\ \A r \in Ranges : Covered(r) \subseteq Address
  /\ Implemented \in [Bank -> SUBSET Address]
  /\ AtPowerOn \in [Bank -> SUBSET Address]
  /\ \A b \in Bank : AtPowerOn[b] \subseteq Implemented[b]
  /\ Broken \in [Bank -> SUBSET Address]
  /\ HeldAtFirst \subseteq [Bank -> [Address -> Value]]
  /\ {MaxChanges, MaxReadFailures, MaxSinkFailures} \subseteq Nat

BankOf(r) == ScanRange[r].bank
End(r)    == ScanRange[r].start + ScanRange[r].count

(* A read request, or a stretch of addresses, and what it spans. *)
Segment == [start : Nat, count : Nat \ {0}]
Seg(s, n) == [start |-> s, count |-> n]
Span(g)   == g.start .. (g.start + g.count - 1)

VARIABLES
  dev,      \* what the device holds
  answers,  \* the addresses it answers for so far
  dead,     \* DeadAddressTracker._dead
  cache,    \* per range, the list _run_range allocates, by address
  latest,   \* LiveStateSink._latest, the newest value of each key
  reply,    \* per range: what the device has said to its request, not yet seen
  phase,    \* per range: where its task is
  poll,     \* per range: the frames of _poll_once and below, while polling
  changes, readFailures, sinkFailures,   \* how much of each bound is spent
  fresh,    \* history: addresses read with success in the current poll
  skip,     \* history: dead addresses of the bank when the poll began
  seen      \* history: per address, the last value any range was answered

budgets  == <<changes, readFailures, sinkFailures>>
history  == <<fresh, skip, seen>>
vars     == <<dev, answers, dead, cache, latest, reply, phase, poll, changes, readFailures,
              sinkFailures, fresh, skip, seen>>

(* "new": the task has not polled yet.  "ok" and "failed": it sleeps, and  *)
(* the last poll did or did not reach the line that sets                   *)
(* _last_successful_scan.                                                  *)
Phase == {"new", "polling", "ok", "failed"}

(* stack: the requests of the current batch not answered yet, the one in   *)
(* flight first and then the right halves bisection still owes.  cursor    *)
(* and remaining: the part of the current sub-range not requested yet.     *)
(* pos: where the live_sub_ranges generator resumes.                       *)
PollState == [stack : Seq(Segment), cursor : Nat, remaining : Nat, pos : Nat]

(* The answer to a read on its way to the task: values, as they were when  *)
(* the device took them, an illegal address, or another exception.         *)
Reply == [kind : {"none", "values", "illegal", "refused"},
          words : [Address -> Value \cup {NoValue}]]

AtRest == [stack |-> <<>>, cursor |-> 0, remaining |-> 0, pos |-> 0]

(* The type invariant: a task's frames hold requests of at least one       *)
(* address, and no counter of a poll runs below zero.                      *)
TypeOK ==
  /\ dev \in [Bank -> [Address -> Value]]
  /\ answers \in [Bank -> SUBSET Address]
  /\ dead \in [Bank -> SUBSET Address]
  /\ cache \in [Ranges -> [Address -> Value \cup {NoValue}]]
  /\ latest \in [Bank -> [Address -> Value \cup {NoValue}]]
  /\ reply \in [Ranges -> Reply]
  /\ phase \in [Ranges -> Phase]
  /\ poll \in [Ranges -> PollState]
  /\ changes \in 0..MaxChanges
  /\ readFailures \in 0..MaxReadFailures
  /\ sinkFailures \in 0..MaxSinkFailures
  /\ fresh \in [Ranges -> SUBSET Address]
  /\ skip \in [Ranges -> SUBSET Address]
  /\ seen \in [Bank -> [Address -> Value \cup {NoValue}]]

Blank == [a \in Address |-> NoValue]
NoReply == [kind |-> "none", words |-> Blank]

Init ==
  /\ dev \in HeldAtFirst
  /\ answers = AtPowerOn
  /\ dead = [b \in Bank |-> {}]
  /\ cache = [r \in Ranges |-> Blank]
  /\ latest = [b \in Bank |-> Blank]
  /\ reply = [r \in Ranges |-> NoReply]
  /\ phase = [r \in Ranges |-> "new"]
  /\ poll = [r \in Ranges |-> AtRest]
  /\ changes = 0 /\ readFailures = 0 /\ sinkFailures = 0
  /\ fresh = [r \in Ranges |-> {}]
  /\ skip = [r \in Ranges |-> {}]
  /\ seen = [b \in Bank |-> Blank]

-----------------------------------------------------------------------------
(* Definitions marked "slip" are not the code's: each is the definition    *)
(* after it with a mistake of the kind such code invites, and shows that a *)
(* property notices it.                                                    *)

(* Slip: the dead tracker is never asked. *)
LiveSubRangeUnfiltered(r, pos, gone) ==
  IF pos < End(r) THEN {Seg(pos, End(r) - pos)} ELSE {}

(* live_sub_ranges: the next run of live addresses at or after pos, at     *)
(* most one, seen with the dead set of the moment the generator resumes.   *)
LiveSubRange(r, pos, gone) ==
  {run \in {Seg(s, n) : s \in pos .. End(r), n \in 1 .. ScanRange[r].count} :
     /\ run.start + run.count <= End(r)
     /\ \A a \in pos .. (run.start - 1) : a \in gone
     /\ \A a \in Span(run) : a \notin gone
     /\ run.start + run.count = End(r) \/ run.start + run.count \in gone}

(* Slip: the last batch is not cut to what remains. *)
NextBatchUncut(r, p) ==
  [p EXCEPT !.stack = <<Seg(p.cursor, ScanRange[r].batch)>>,
            !.cursor = @ + ScanRange[r].batch,
            !.remaining = @ - ScanRange[r].batch]

(* The body of the batch loop of _poll_once up to its await. *)
NextBatch(r, p) ==
  LET batch == IF p.remaining < ScanRange[r].batch THEN p.remaining ELSE ScanRange[r].batch
  IN  [p EXCEPT !.stack = <<Seg(p.cursor, batch)>>,
                !.cursor = @ + batch,
                !.remaining = @ - batch]

(* Asking the generator for the next sub-range, and its first batch. *)
NextRun(r, run) ==
  NextBatch(r, [stack |-> <<>>, cursor |-> run.start, remaining |-> run.count,
                pos |-> run.start + run.count + 1])

Wait(r, p) ==
  /\ poll' = [poll EXCEPT ![r] = p]
  /\ phase' = [phase EXCEPT ![r] = "polling"]

Sleep(r, outcome) ==
  /\ poll' = [poll EXCEPT ![r] = AtRest]
  /\ phase' = [phase EXCEPT ![r] = outcome]

(* The code that runs once the request that headed the stack is dealt with *)
(* (p no longer holds it), up to the next wait: another half, the next     *)
(* batch, the next sub-range, or the end of the poll.                      *)
Proceed(r, p, gone) ==
  \/ /\ p.stack # <<>>
     /\ Wait(r, p)
  \/ /\ p.stack = <<>>
     /\ p.remaining > 0
     /\ Wait(r, NextBatch(r, p))
  \/ /\ p.stack = <<>>
     /\ p.remaining = 0
     /\ \E run \in LiveSubRange(r, p.pos, gone) : Wait(r, NextRun(r, run))
  \/ /\ p.stack = <<>>
     /\ p.remaining = 0
     /\ LiveSubRange(r, p.pos, gone) = {}
     /\ Sleep(r, "ok")

-----------------------------------------------------------------------------
Polling(r)  == phase[r] = "polling"
InFlight(r) == Head(poll[r].stack)
Answered(r) == [poll[r] EXCEPT !.stack = Tail(@)]

(* What the device can say to the request in flight: values, an illegal    *)
(* address, or another exception, which goes first if both apply or last.  *)
Illegal(r)    == ~(Span(InFlight(r)) \subseteq answers[BankOf(r)])
Refused(r)    == Span(InFlight(r)) \cap Broken[BankOf(r)] # {}
Answerable(r) == ~Illegal(r) /\ ~Refused(r)

(* f, with the addresses in S taken from g. *)
Overlay(f, g, S) == [a \in Address |-> IF a \in S THEN g[a] ELSE f[a]]

Says(r, kind, words) == reply' = [reply EXCEPT ![r] = [kind |-> kind, words |-> words]]

(* What the device says, whoever waits for it.                             *)
TakeSample(r) ==
  /\ \/ /\ Answerable(r)
        /\ Says(r, "values", Overlay(Blank, dev[BankOf(r)], Span(InFlight(r))))
     \/ Illegal(r) /\ Says(r, "illegal", Blank)
     \/ Refused(r) /\ Says(r, "refused", Blank)
  /\ UNCHANGED <<dev, answers, dead, cache, latest, phase, poll, history, budgets>>

(* Slip: two requests are under way at a time. *)
DeviceAnswersAtOnce(r) == Polling(r) /\ reply[r] = NoReply /\ TakeSample(r)

(* The device takes the request of r and answers it.  The transport sends  *)
(* a request only after the task that had the last answer has gone on to   *)
(* its next wait: it holds the lock until it resumes, and nothing suspends *)
(* between there and the table.  Transport's KeepsTheLine is that side.    *)
DeviceAnswers(r) ==
  /\ Polling(r)
  /\ \A s \in Ranges : reply[s] = NoReply
  /\ TakeSample(r)

(* The task of r resumes with an answer of that kind. *)
Resumes(r, kind) ==
  /\ Polling(r)
  /\ reply[r].kind = kind
  /\ reply' = [reply EXCEPT ![r] = NoReply]

Words(r) == reply[r].words

(* Slip: the first value of an address is not an event. *)
ChangedFromKnown(r) ==
  {a \in Span(InFlight(r)) : cache[r][a] \notin {NoValue, Words(r)[a]}}

(* The addresses of the request in flight whose value is not the cached one. *)
Changed(r) == {a \in Span(InFlight(r)) : cache[r][a] # Words(r)[a]}

(* A fresh generator, nothing asked for yet. *)
AtStart(r) == [stack |-> <<>>, cursor |-> 0, remaining |-> 0, pos |-> ScanRange[r].start]

(* _run_range starts a poll: first thing, or after its sleep. *)
BeginPoll(r) ==
  /\ ~Polling(r)
  /\ Proceed(r, AtStart(r), dead[BankOf(r)])
  /\ fresh' = [fresh EXCEPT ![r] = {}]
  /\ skip' = [skip EXCEPT ![r] = dead[BankOf(r)]]
  /\ UNCHANGED <<dev, answers, dead, cache, latest, reply, seen, budgets>>

(* The device answers with values: cache and sinks see what changed. *)
ReadValues(r) ==
  LET b == BankOf(r)
      span == Span(InFlight(r))
  IN  /\ Resumes(r, "values")
      /\ cache' = [cache EXCEPT ![r] = Overlay(@, Words(r), Changed(r))]
      /\ latest' = [latest EXCEPT ![b] = Overlay(@, Words(r), Changed(r))]
      /\ fresh' = [fresh EXCEPT ![r] = @ \cup span]
      /\ seen' = [seen EXCEPT ![b] = Overlay(@, Words(r), span)]
      /\ Proceed(r, Answered(r), dead[b])
      /\ UNCHANGED <<dev, answers, dead, skip, budgets>>

(* The same answer, but the console or CSV sink raises on the event of     *)
(* address k.  The cache already holds k's new value, the live table,      *)
(* which is last in the composite, does not get it, and the rest of the    *)
(* poll is given up.                                                       *)
SinkRaises(r) ==
  LET b == BankOf(r)
      span == Span(InFlight(r))
  IN  /\ Resumes(r, "values")
      /\ sinkFailures < MaxSinkFailures
      /\ \E k \in Changed(r) :
           /\ cache' = [cache EXCEPT ![r] =
                          Overlay(@, Words(r), {a \in Changed(r) : a <= k})]
           /\ latest' = [latest EXCEPT ![b] =
                          Overlay(@, Words(r), {a \in Changed(r) : a < k})]
      /\ sinkFailures' = sinkFailures + 1
      /\ fresh' = [fresh EXCEPT ![r] = @ \cup span]
      /\ seen' = [seen EXCEPT ![b] = Overlay(@, Words(r), span)]
      /\ Sleep(r, "failed")
      /\ UNCHANGED <<dev, answers, dead, skip, changes, readFailures>>

(* Slip: the right half is forgotten. *)
BisectLeftOnly(r) ==
  LET g == InFlight(r)
      half == g.count \div 2
  IN  /\ Resumes(r, "illegal")
      /\ g.count > 1
      /\ Wait(r, [poll[r] EXCEPT !.stack = <<Seg(g.start, half)>> \o Tail(@)])
      /\ UNCHANGED <<dev, answers, dead, cache, latest, history, budgets>>

(* ILLEGAL_DATA_ADDRESS for several addresses: ask for each half, left first. *)
Bisect(r) ==
  LET g == InFlight(r)
      half == g.count \div 2
  IN  /\ Resumes(r, "illegal")
      /\ g.count > 1
      /\ Wait(r, [poll[r] EXCEPT !.stack =
                    <<Seg(g.start, half), Seg(g.start + half, g.count - half)>> \o Tail(@)])
      /\ UNCHANGED <<dev, answers, dead, cache, latest, history, budgets>>

(* Slip: the tracker is keyed by the address alone. *)
MarkDeadUnkeyed(r) ==
  LET gone == dead[BankOf(r)] \cup {InFlight(r).start}
  IN  /\ Resumes(r, "illegal")
      /\ InFlight(r).count = 1
      /\ dead' = [b \in Bank |-> gone]
      /\ Proceed(r, Answered(r), gone)
      /\ UNCHANGED <<dev, answers, cache, latest, history, budgets>>

(* Slip: bisection ends at a single address without marking it. *)
MarkDeadNot(r) ==
  /\ Resumes(r, "illegal")
  /\ InFlight(r).count = 1
  /\ Proceed(r, Answered(r), dead[BankOf(r)])
  /\ UNCHANGED <<dev, answers, dead, cache, latest, history, budgets>>

(* ILLEGAL_DATA_ADDRESS for one address: it is dead from now on. *)
MarkDead(r) ==
  LET b == BankOf(r)
      gone == dead[b] \cup {InFlight(r).start}
  IN  /\ Resumes(r, "illegal")
      /\ InFlight(r).count = 1
      /\ dead' = [dead EXCEPT ![b] = gone]
      /\ Proceed(r, Answered(r), gone)
      /\ UNCHANGED <<dev, answers, cache, latest, history, budgets>>

(* Another exception from the device: the poll is given up, the task lives. *)
DeviceRefuses(r) ==
  /\ Resumes(r, "refused")
  /\ Sleep(r, "failed")
  /\ UNCHANGED <<dev, answers, dead, cache, latest, history, budgets>>

(* Fewer values than asked for: the first n are taken over, and the index  *)
(* of the next one ends the poll.                                          *)
ShortAnswer(r) ==
  LET b == BankOf(r)
      g == InFlight(r)
  IN  /\ Resumes(r, "values")
      /\ readFailures < MaxReadFailures
      /\ readFailures' = readFailures + 1
      /\ \E n \in 1 .. (g.count - 1) :
           LET got == g.start .. (g.start + n - 1)
           IN  /\ cache' = [cache EXCEPT ![r] = Overlay(@, Words(r), Changed(r) \cap got)]
               /\ latest' = [latest EXCEPT ![b] = Overlay(@, Words(r), Changed(r) \cap got)]
               /\ fresh' = [fresh EXCEPT ![r] = @ \cup got]
               /\ seen' = [seen EXCEPT ![b] = Overlay(@, Words(r), got)]
      /\ Sleep(r, "failed")
      /\ UNCHANGED <<dev, answers, dead, skip, changes, sinkFailures>>

(* No answer that reaches the task, or an exception in passing. *)
ReadFails(r) ==
  /\ Polling(r)
  /\ reply' = [reply EXCEPT ![r] = NoReply]
  /\ readFailures < MaxReadFailures
  /\ readFailures' = readFailures + 1
  /\ Sleep(r, "failed")
  /\ UNCHANGED <<dev, answers, dead, cache, latest, history, changes, sinkFailures>>

(* The plant changes a value (one at an address that always fails does not *)
(* matter: nobody gets to see it).                                         *)
DeviceChanges ==
  /\ changes < MaxChanges
  /\ changes' = changes + 1
  /\ \E b \in Bank : \E a \in Implemented[b] \ Broken[b], v \in Value :
       /\ v # dev[b][a]
       /\ dev' = [dev EXCEPT ![b][a] = v]
  /\ UNCHANGED <<answers, dead, cache, latest, reply, phase, poll, history, readFailures,
                 sinkFailures>>

(* A unit that was still starting has come up. *)
DeviceStarts ==
  /\ \E b \in Bank :
       /\ answers[b] # Implemented[b]
       /\ answers' = [answers EXCEPT ![b] = Implemented[b]]
  /\ UNCHANGED <<dev, dead, cache, latest, reply, phase, poll, history, budgets>>

TakeAnswer(r) == ReadValues(r) \/ Bisect(r) \/ MarkDead(r) \/ DeviceRefuses(r)

RangeStep(r) ==
  \/ BeginPoll(r) \/ DeviceAnswers(r) \/ TakeAnswer(r)
  \/ SinkRaises(r) \/ ShortAnswer(r) \/ ReadFails(r)

Next == DeviceChanges \/ DeviceStarts \/ \E r \in Ranges : RangeStep(r)

Spec == Init /\ [][Next]_vars

(* asyncio runs every task that is ready, sleeps end, and the transport    *)
(* answers or times out.  Its lock is first come, first served, so that no *)
(* request is overtaken for ever.                                          *)
FairSpec ==
  Spec /\ \A r \in Ranges : /\ WF_vars(BeginPoll(r)) /\ WF_vars(TakeAnswer(r))
                           /\ SF_vars(DeviceAnswers(r))

-----------------------------------------------------------------------------
(* The address the current poll has got to: everything of the range below  *)
(* it has been settled, everything from it on has still to be asked for.   *)
Frontier(p) == IF p.stack = <<>> THEN p.cursor ELSE Head(p.stack).start

(* A poll that counts as a success has looked at all of its range: every   *)
(* address was read in this very poll or is known to be dead.  No batch,   *)
(* half or sub-range is forgotten, whatever other ranges mark dead in the  *)
(* meantime (_poll_once, _handle_illegal, live_sub_ranges).                *)
PollIsComplete ==
  \A r \in Ranges : phase[r] = "ok" => Covered(r) \subseteq fresh[r] \cup dead[BankOf(r)]

(* The request in flight stays inside its range and its batch limit, asks  *)
(* for nothing this poll has read already, and never for an address that   *)
(* was dead when the poll began: bisection happens once per dead address   *)
(* and range, it is not repeated on every poll.                            *)
NoWastedRequest ==
  \A r \in Ranges : Polling(r) =>
    /\ Span(InFlight(r)) \subseteq Covered(r)
    /\ InFlight(r).count <= ScanRange[r].batch
    /\ Span(InFlight(r)) \cap (fresh[r] \cup skip[r]) = {}

(* Bisection blames only addresses the device really refuses, in the       *)
(* bank that refused them: no live register next to a hole, and none with  *)
(* the same number on another unit, is ever dropped from polling.  One     *)
(* that a starting device refuses is: the tracker never asks again.        *)
DeadIsReal == \A b \in Bank : dead[b] \cap AtPowerOn[b] = {}

(* The addresses of bank b that no two ranges cover. *)
Unshared(b) ==
  {a \in Address : \A r, s \in Ranges :
     /\ BankOf(r) = b /\ a \in Covered(r)
     /\ BankOf(s) = b /\ a \in Covered(s)
     => r = s}

(* As long as no sink has raised, the snapshot shows for every address     *)
(* covered by one range the value of the last answer that contained it:    *)
(* comparing with the cache never suppresses an event the table needed.    *)
SnapshotIsLastRead ==
  sinkFailures = 0 =>
    \A b \in Bank : \A a \in Unshared(b) : latest[b][a] = seen[b][a]

(* No batch of range r that has address a in it can reach an address that  *)
(* always fails, wherever dead addresses make the batches begin.           *)
InReach(r, a) ==
  \A x \in Covered(r) \cap Broken[BankOf(r)] : a + ScanRange[r].batch <= x

(* The ranges that read address a of bank b. *)
Readers(b, a) == {r \in Ranges : BankOf(r) = b /\ a \in Covered(r)}

(* Nothing keeps the ranges that read address a of bank b from it for ever.*)
(* A batch that always fails takes with it what comes after it in its      *)
(* range, and no more; but a range that has read an address once and then  *)
(* never again may have had the last word in the table, and the caches of  *)
(* the others see no change: all that cover it must reach it.              *)
Reachable(b, a) == Readers(b, a) # {} /\ \A r \in Readers(b, a) : InReach(r, a)

(* When the plant comes to rest, the table comes to show it: every address *)
(* the device answered for from the start and some range covers ends up    *)
(* with its value, past dead neighbours, failed polls and changes in       *)
(* mid-poll (_run_range, _poll_once, the cache of _read_and_emit).  Not so *)
(* once a sink has raised, see README.md.                                  *)
EventuallyMirrors ==
  \A b \in Bank : \A a \in AtPowerOn[b] :
    Reachable(b, a) => <>[](latest[b][a] = dev[b][a])

(* The same, unless a sink raises: with all caches and polls interleaved,  *)
(* nothing but that leaves the table stale.                                *)
MirrorsUnlessSinkRaises ==
  \A b \in Bank : \A a \in AtPowerOn[b] :
    Reachable(b, a) => <>[](sinkFailures = 0 => latest[b][a] = dev[b][a])

(* Every hole of every range is found in the end, and stays known.         *)
HolesAreFound ==
  \A r \in Ranges : \A a \in Covered(r) \ Implemented[BankOf(r)] :
    InReach(r, a) => <>[](a \in dead[BankOf(r)])
=============================================================================
