------------------------------ MODULE Discovery ------------------------------
(***************************************************************************)
(* A discovery run: application/discovery.py with the SlaveScanner it asks *)
(* for units first.  One task, one request at a time; what may come is any *)
(* mixture of values, some of them or all, illegal addresses, other Modbus *)
(* exceptions and transport faults, and the report has to account for      *)
(* every address.  An answer with more values than asked for is left out.  *)
(***************************************************************************)
EXTENDS Integers, Sequences, FiniteSets

CONSTANTS
  Unit,            \* unit ids a device can be asked under
  ObjectTypes,     \* discovery.object_types, a sequence
  ScanSlaves,      \* the values of discovery.scan_slaves to look at
  ScanSlavesMax,   \* discovery.scan_slaves_max
  SlaveIds,        \* discovery.slave_ids, a sequence
  First,           \* discovery.address_range.start
  Last,            \* discovery.address_range.end
  Top,             \* 0xFFFF, the last address there is
  BatchSize,       \* discovery.batch_size
  Present,         \* the units that exist
  Implemented,     \* per unit and type, the addresses the device answers for
  MaxFaults,       \* bound: transport faults of units that exist
  MaxRefusals,     \* bound: Modbus exceptions other than illegal address
  MaxShort         \* bound: answers with fewer values than asked for

Types == Len(ObjectTypes)

ASSUME DiscoveryAssumption ==
  /\ Unit \subseteq Nat
  /\ ScanSlaves \subseteq BOOLEAN
  /\ ScanSlavesMax \in Nat /\ 1 .. ScanSlavesMax \subseteq Unit
  /\ SlaveIds \in Seq(Unit)
  /\ ObjectTypes \in Seq({ObjectTypes[i] : i \in 1 .. Types})
  /\ {First, Last, Top} \subseteq Nat /\ First <= Last /\ Last <= Top
  /\ BatchSize \in Nat \ {0}
  /\ Present \subseteq Unit
  /\ \A u \in Present, i \in 1 .. Types : Implemented[u][ObjectTypes[i]] \subseteq 0 .. Top
  /\ {MaxFaults, MaxRefusals, MaxShort} \subseteq Nat

VARIABLES
  scanSlaves,  \* discovery.scan_slaves, fixed for the run
  stage,       \* "slaves": sweeping units; "pairs": between two (unit, type)
               \* pairs; "probing": inside one; "done": the report is out
  next,        \* the unit the sweep asks next
  units,       \* report.responding_units
  pair,        \* the number of the pair being probed, or probed last
  cursor,      \* where the next batch of this pair begins
  stack,       \* the requests it still owes, the one in flight first
  report,      \* per pair, its entries in the order they were found
  faults, refusals, shorts   \* how much of the bounds is spent

budgets == <<faults, refusals, shorts>>
vars == <<scanSlaves, stage, next, units, pair, cursor, stack, report, faults, refusals,
          shorts>>

Request   == [start : Nat, count : Nat \ {0}]
Req(s, n) == [start |-> s, count |-> n]
Span(q)   == q.start .. (q.start + q.count - 1)

(* What the report says of a stretch of addresses: an AliveRegister for    *)
(* each of it, a DeadRange, or an ErrorRange.  The stretch is empty when   *)
(* an answer had no values.  asked is history: where the request ended     *)
(* that the entry is from.                                                 *)
Entry == [kind : {"alive", "dead", "error"}, first : Nat, last : Int, asked : Nat]

(* The type invariant. *)
TypeOK ==
  /\ scanSlaves \in BOOLEAN
  /\ stage \in {"slaves", "pairs", "probing", "done"}
  /\ next \in 1 .. (ScanSlavesMax + 1)
  /\ units \in Seq(Unit)
  /\ pair \in Nat
  /\ cursor \in Nat
  /\ stack \in Seq(Request)
  /\ report \in Seq(Seq(Entry))
  /\ faults \in 0 .. MaxFaults
  /\ refusals \in 0 .. MaxRefusals
  /\ shorts \in 0 .. MaxShort

Init ==
  /\ scanSlaves \in ScanSlaves
  /\ stage = IF scanSlaves THEN "slaves" ELSE "pairs"
  /\ units = IF scanSlaves THEN <<>> ELSE SlaveIds
  /\ next = 1
  /\ pair = 0
  /\ cursor = First
  /\ stack = <<>>
  /\ report = <<>>
  /\ faults = 0
  /\ refusals = 0
  /\ shorts = 0

-----------------------------------------------------------------------------
(* Definitions marked "slip" are not the code's: each is the definition    *)
(* after it with a mistake of the kind such code invites, and shows that a *)
(* property notices it.                                                    *)

(* Slip: only a unit that answers with data counts. *)
RespondsWithData ==
  /\ stage = "slaves"
  /\ next <= ScanSlavesMax
  /\ next \in Present
  /\ \/ units' = Append(units, next)
     \/ units' = units
  /\ next' = next + 1
  /\ UNCHANGED <<scanSlaves, stage, pair, cursor, stack, report, budgets>>

(* SlaveScanner.scan: a unit answers the probe, with data or with a Modbus *)
(* exception.                                                              *)
Responds ==
  /\ stage = "slaves"
  /\ next <= ScanSlavesMax
  /\ next \in Present
  /\ units' = Append(units, next)
  /\ next' = next + 1
  /\ UNCHANGED <<scanSlaves, stage, pair, cursor, stack, report, budgets>>

(* Slip: a unit that stays silent is asked again. *)
SilentAgain ==
  /\ stage = "slaves"
  /\ next <= ScanSlavesMax
  /\ \/ next \notin Present /\ UNCHANGED faults
     \/ next \in Present /\ faults < MaxFaults /\ faults' = faults + 1
  /\ UNCHANGED <<scanSlaves, stage, next, units, pair, cursor, stack, report, refusals, shorts>>

(* A transport fault takes the unit for absent: it is, or it was unlucky. *)
Silent ==
  /\ stage = "slaves"
  /\ next <= ScanSlavesMax
  /\ \/ next \notin Present /\ UNCHANGED faults
     \/ next \in Present /\ faults < MaxFaults /\ faults' = faults + 1
  /\ next' = next + 1
  /\ UNCHANGED <<scanSlaves, stage, units, pair, cursor, stack, report, refusals, shorts>>

SweepEnds ==
  /\ stage = "slaves"
  /\ next > ScanSlavesMax
  /\ stage' = "pairs"
  /\ UNCHANGED <<scanSlaves, next, units, pair, cursor, stack, report, budgets>>

-----------------------------------------------------------------------------
(* The pairs in the order of the two loops of run. *)
Pairs     == Len(units) * Types
UnitOf(j) == units[((j - 1) \div Types) + 1]
TypeOf(j) == ObjectTypes[((j - 1) % Types) + 1]

(* What the device answers for in pair j: nothing if the unit is not there. *)
Answering(j) == IF UnitOf(j) \in Present THEN Implemented[UnitOf(j)][TypeOf(j)] ELSE {}

(* end_exclusive = min(0xFFFF, end + 1). *)
EndExclusive == IF Top < Last + 1 THEN Top ELSE Last + 1

(* _discover_type begins. *)
BeginPair ==
  /\ stage = "pairs"
  /\ pair < Pairs
  /\ stage' = "probing"
  /\ pair' = pair + 1
  /\ cursor' = First
  /\ report' = Append(report, <<>>)
  /\ UNCHANGED <<scanSlaves, next, units, stack, budgets>>

(* Slip: the cursor moves by the batch size, not by the batch. *)
NextBatchOverlong ==
  /\ stage = "probing"
  /\ stack = <<>>
  /\ cursor < EndExclusive
  /\ stack' = <<Req(cursor, BatchSize)>>
  /\ cursor' = cursor + BatchSize
  /\ UNCHANGED <<scanSlaves, stage, next, units, pair, report, budgets>>

(* Its loop asks for the next batch. *)
NextBatch ==
  LET left == EndExclusive - cursor
      batch == IF BatchSize < left THEN BatchSize ELSE left
  IN  /\ stage = "probing"
      /\ stack = <<>>
      /\ cursor < EndExclusive
      /\ stack' = <<Req(cursor, batch)>>
      /\ cursor' = cursor + batch
      /\ UNCHANGED <<scanSlaves, stage, next, units, pair, report, budgets>>

EndPair ==
  /\ stage = "probing"
  /\ stack = <<>>
  /\ cursor >= EndExclusive
  /\ stage' = "pairs"
  /\ UNCHANGED <<scanSlaves, next, units, pair, cursor, stack, report, budgets>>

Finish ==
  /\ stage = "pairs"
  /\ pair = Pairs
  /\ stage' = "done"
  /\ UNCHANGED <<scanSlaves, next, units, pair, cursor, stack, report, budgets>>

-----------------------------------------------------------------------------
InFlight == Head(stack)

(* The request in flight ends in one entry of the report, about the first  *)
(* n of its addresses.                                                     *)
EnterFirst(n, kind) ==
  /\ report' = [report EXCEPT ![pair] =
       Append(@, [kind |-> kind, first |-> InFlight.start,
                  last |-> InFlight.start + n - 1,
                  asked |-> InFlight.start + InFlight.count - 1])]
  /\ stack' = Tail(stack)

Enter(kind) == EnterFirst(InFlight.count, kind)

Refused == ~(Span(InFlight) \subseteq Answering(pair))

(* Values for all the addresses asked for. *)
FoundAlive ==
  /\ stage = "probing" /\ stack # <<>>
  /\ UnitOf(pair) \in Present /\ ~Refused
  /\ Enter("alive")
  /\ UNCHANGED <<scanSlaves, stage, next, units, pair, cursor, budgets>>

(* Fewer values than addresses: the loop over the values lists as many,    *)
(* and the rest of the request is never asked for again.                   *)
FoundSome ==
  /\ stage = "probing" /\ stack # <<>>
  /\ UnitOf(pair) \in Present /\ ~Refused
  /\ shorts < MaxShort /\ shorts' = shorts + 1
  /\ \E n \in 0 .. (InFlight.count - 1) : EnterFirst(n, "alive")
  /\ UNCHANGED <<scanSlaves, stage, next, units, pair, cursor, faults, refusals>>

(* Slip: one address is halved too. *)
BisectToNothing ==
  LET half == InFlight.count \div 2
  IN  /\ stage = "probing" /\ stack # <<>>
      /\ UnitOf(pair) \in Present /\ Refused
      /\ stack' = <<Req(InFlight.start, half),
                    Req(InFlight.start + half, InFlight.count - half)>> \o Tail(stack)
      /\ UNCHANGED <<scanSlaves, stage, next, units, pair, cursor, report, budgets>>

(* Illegal address, several addresses: each half, left first. *)
Bisect ==
  LET half == InFlight.count \div 2
  IN  /\ stage = "probing" /\ stack # <<>>
      /\ UnitOf(pair) \in Present /\ Refused
      /\ InFlight.count > 1
      /\ stack' = <<Req(InFlight.start, half),
                    Req(InFlight.start + half, InFlight.count - half)>> \o Tail(stack)
      /\ UNCHANGED <<scanSlaves, stage, next, units, pair, cursor, report, budgets>>

(* Slip: the whole request is dead. *)
FoundDeadWhole ==
  /\ stage = "probing" /\ stack # <<>>
  /\ UnitOf(pair) \in Present /\ Refused
  /\ Enter("dead")
  /\ UNCHANGED <<scanSlaves, stage, next, units, pair, cursor, budgets>>

(* Illegal address, one address. *)
FoundDead ==
  /\ stage = "probing" /\ stack # <<>>
  /\ UnitOf(pair) \in Present /\ Refused
  /\ InFlight.count = 1
  /\ Enter("dead")
  /\ UNCHANGED <<scanSlaves, stage, next, units, pair, cursor, budgets>>

(* Any other Modbus exception. *)
FoundError ==
  /\ stage = "probing" /\ stack # <<>>
  /\ UnitOf(pair) \in Present
  /\ refusals < MaxRefusals /\ refusals' = refusals + 1
  /\ Enter("error")
  /\ UNCHANGED <<scanSlaves, stage, next, units, pair, cursor, faults, shorts>>

(* A transport fault that the client's own retry has not absorbed. *)
Faults ==
  /\ stage = "probing" /\ stack # <<>>
  /\ \/ UnitOf(pair) \notin Present /\ UNCHANGED faults
     \/ UnitOf(pair) \in Present /\ faults < MaxFaults /\ faults' = faults + 1
  /\ Enter("error")
  /\ UNCHANGED <<scanSlaves, stage, next, units, pair, cursor, refusals, shorts>>

Sweep == Responds \/ Silent \/ SweepEnds

Probe == FoundAlive \/ FoundSome \/ Bisect \/ FoundDead \/ FoundError \/ Faults

Next == Sweep \/ BeginPair \/ NextBatch \/ Probe \/ EndPair \/ Finish

Spec == Init /\ [][Next]_vars

(* One task that never waits for anything but an answer, which comes or    *)
(* times out.                                                              *)
FairSpec == Spec /\ WF_vars(Next)

-----------------------------------------------------------------------------
(* How far the requests behind the first i entries of a pair have got. *)
Reached(es, i) == IF i = 0 THEN First ELSE es[i].asked + 1

(* Values were missing from the answer: the end of the request is in no    *)
(* list of the report.                                                     *)
CutShort(e) == e.last < e.asked

(* The requests behind the entries of a pair lie end to end, and no entry  *)
(* says anything beyond its own: every address from the start of the range *)
(* on is asked for, and in the report once, or not at all behind a short   *)
(* answer, which dead and error entries never are.  A pair that is         *)
(* finished has reached the end (_discover_type, _probe, _bisect).         *)
ReportTiles ==
  \A j \in DOMAIN report :
    LET es == report[j]
        finished == j < pair \/ stage # "probing"
    IN  /\ \A i \in DOMAIN es :
             /\ es[i].first = Reached(es, i - 1) /\ es[i].first <= es[i].asked
             /\ es[i].last <= es[i].asked
             /\ CutShort(es[i]) => es[i].kind = "alive"
        /\ finished => Reached(es, Len(es)) = EndExclusive

(* Alive is alive, dead is dead, in the pair it is reported for; a dead    *)
(* entry is one address, never a batch around it, and an error no more     *)
(* than a batch.  Units that a sweep reports are there, each once and in   *)
(* order (_discover_type, _probe, SlaveScanner.scan).                      *)
ReportIsTrue ==
  /\ \A j \in DOMAIN report : \A i \in DOMAIN report[j] :
       LET e == report[j][i]
       IN  /\ e.kind = "alive" => e.first .. e.last \subseteq Answering(j)
           /\ e.kind = "dead" => e.first = e.last /\ e.first \notin Answering(j)
           /\ e.kind = "error" => e.last - e.first < BatchSize
  /\ scanSlaves =>
       /\ \A i \in DOMAIN units : units[i] \in Present
       /\ \A i, j \in DOMAIN units : i < j => units[i] < units[j]

Unknown(e) == e.kind = "error" \/ CutShort(e)

(* Whatever the run fails to learn has a cause of its own: each unit the   *)
(* sweep has passed over, each error entry of a unit that is there and     *)
(* each stretch that no list has cost a fault, a refusal or a short        *)
(* answer, for a Modbus exception is an answer to the sweep, and a hole is *)
(* no error (slave_scanner.py, _probe).                                    *)
LossesHaveACause ==
  LET found == {units[i] : i \in DOMAIN units}
      missed == IF scanSlaves THEN {u \in Present : u \in 1 .. (next - 1)} \ found ELSE {}
      there == {j \in DOMAIN report : UnitOf(j) \in Present}
      unknown == UNION {{j} \X {i \in DOMAIN report[j] : Unknown(report[j][i])} : j \in there}
  IN  Cardinality(missed) + Cardinality(unknown) <= faults + refusals + shorts

(* The run ends, and reports on every pair of a unit found and a type.     *)
RunEnds == <>(stage = "done" /\ Len(report) = Len(units) * Types)

(* What the log line of run announces, [start..end], is in the report.     *)
(* Not so when the end is the last address there is, see README.md.        *)
EndIsProbed ==
  stage = "done" =>
    \A j \in DOMAIN report :
      \A a \in First .. Last : \E i \in DOMAIN report[j] :
        a \in report[j][i].first .. report[j][i].last
=============================================================================
