--------------------------- MODULE DiscoveryProofs ---------------------------
(***************************************************************************)
(* Theorems about Discovery, for any units, types, range of addresses,     *)
(* batch size, device, faults, refusals and short answers: the requests of *)
(* a pair lie end to end over the range, what the report says is true, and *)
(* what it does not say has a cause of its own.                            *)
(***************************************************************************)
EXTENDS Discovery, SequenceTheorems, FiniteSetTheorems, TLAPS

(* Requests end to end, from one address up to another, none larger than a *)
(* batch.                                                                  *)
Stacked(st, from, to) ==
  /\ \A i \in 1 .. Len(st) : st[i].count <= BatchSize
  /\ IF st = <<>> THEN from = to
     ELSE /\ st[1].start = from
          /\ \A i \in 1 .. (Len(st) - 1) : st[i + 1].start = st[i].start + st[i].count
          /\ st[Len(st)].start + st[Len(st)].count = to

(* An entry keeps to the request it is from. *)
Within(e) == e.first <= e.asked /\ e.last <= e.asked /\ (CutShort(e) => e.kind = "alive")

Tiled(es) == \A i \in 1 .. Len(es) : es[i].first = Reached(es, i - 1) /\ Within(es[i])

(* What the open requests of a pair still owe begins where its entries end *)
(* and ends where its next batch begins.                                   *)
TileInv ==
  /\ Len(report) = pair
  /\ stage = "slaves" => pair = 0
  /\ cursor <= EndExclusive
  /\ \A j \in 1 .. pair : Tiled(report[j])
  /\ \A j \in 1 .. pair :
       j < pair \/ stage # "probing" => Reached(report[j], Len(report[j])) = EndExclusive
  /\ stage = "probing" =>
       pair >= 1 /\ Stacked(stack, Reached(report[pair], Len(report[pair])), cursor)
  /\ stage # "probing" => stack = <<>>

(* What an entry of pair j says. *)
True(e, j) ==
  /\ e.kind = "alive" => e.first .. e.last \subseteq Answering(j)
  /\ e.kind = "dead" => e.first = e.last /\ e.first \notin Answering(j)
  /\ e.kind = "error" => e.last - e.first < BatchSize

TruthInv ==
  /\ \A j \in 1 .. pair : \A i \in 1 .. Len(report[j]) : True(report[j][i], j)
  /\ scanSlaves =>
       /\ \A i \in 1 .. Len(units) : units[i] \in Present
       /\ \A i, j \in 1 .. Len(units) : i < j => units[i] < units[j]
       /\ stage = "slaves" => \A i \in 1 .. Len(units) : units[i] < next

RunInv == TypeOK /\ TileInv /\ TruthInv

-----------------------------------------------------------------------------
LEMMA Constants ==
  /\ BatchSize \in Nat /\ BatchSize >= 1
  /\ First \in Nat /\ Last \in Nat /\ Top \in Nat /\ ScanSlavesMax \in Nat
  /\ EndExclusive \in Nat /\ First <= EndExclusive
  /\ MaxFaults \in Nat /\ MaxRefusals \in Nat /\ MaxShort \in Nat
<1>1. /\ BatchSize \in Nat /\ BatchSize >= 1
      /\ First \in Nat /\ Last \in Nat /\ Top \in Nat /\ ScanSlavesMax \in Nat
      /\ First <= Last /\ Last <= Top
      /\ MaxFaults \in Nat /\ MaxRefusals \in Nat /\ MaxShort \in Nat
  BY DiscoveryAssumption
<1> QED
  BY <1>1 DEF EndExclusive

LEMMA RequestParts ==
  ASSUME NEW q \in Request
  PROVE  q.start \in Nat /\ q.count \in Nat /\ q.count >= 1
BY DEF Request

(* The first request is settled. *)
LEMMA Popped ==
  ASSUME NEW st \in Seq(Request), st # <<>>, NEW from, NEW to, Stacked(st, from, to)
  PROVE  /\ Head(st) \in Request /\ Tail(st) \in Seq(Request)
         /\ Head(st).start = from /\ Head(st).count <= BatchSize
         /\ Stacked(Tail(st), from + Head(st).count, to)
<1> DEFINE tl == Tail(st)
<1>1. /\ Head(st) \in Request /\ Head(st) = st[1]
      /\ tl \in Seq(Request) /\ Len(st) \in Nat /\ Len(st) >= 1
      /\ Len(tl) = Len(st) - 1
      /\ \A i \in 1 .. (Len(st) - 1) : tl[i] = st[i + 1]
  BY HeadTailProperties, EmptySeq, LenProperties, ElementOfSeq
<1> HIDE DEF tl
<1>2. Head(st).start = from /\ Head(st).count <= BatchSize
  BY <1>1 DEF Stacked
<1>3. \A i \in 1 .. Len(tl) : tl[i].count <= BatchSize
  BY <1>1 DEF Stacked
<1>4. CASE tl = <<>>
  <2>1. Len(st) = 1
    BY <1>1, <1>4, EmptySeq
  <2>2. from + Head(st).count = to
    BY <1>1, <1>2, <2>1 DEF Stacked
  <2> QED
    BY <1>1, <1>2, <1>3, <1>4, <2>2 DEF Stacked, tl
<1>5. CASE tl # <<>>
  <2>1. Len(tl) \in Nat /\ Len(tl) >= 1
    BY <1>1, <1>5, EmptySeq, LenProperties
  <2>2. tl[1].start = from + Head(st).count
    <3>1. tl[1] = st[2] /\ st[2].start = st[1].start + st[1].count
      BY <1>1, <2>1 DEF Stacked
    <3> QED
      BY <1>1, <1>2, <3>1
  <2>3. ASSUME NEW i \in 1 .. (Len(tl) - 1)
        PROVE  tl[i + 1].start = tl[i].start + tl[i].count
    <3>1. /\ tl[i] = st[i + 1] /\ tl[i + 1] = st[(i + 1) + 1]
          /\ i + 1 \in 1 .. (Len(st) - 1)
      BY <1>1, <2>1, <2>3
    <3> QED
      BY <3>1 DEF Stacked
  <2>4. tl[Len(tl)].start + tl[Len(tl)].count = to
    <3>1. tl[Len(tl)] = st[Len(st)]
      BY <1>1, <2>1
    <3> QED
      BY <1>1, <3>1 DEF Stacked
  <2> QED
    BY <1>1, <1>2, <1>3, <1>5, <2>2, <2>3, <2>4 DEF Stacked, tl
<1> QED
  BY <1>4, <1>5

(* The first request is replaced by two that cover the same.               *)
LEMMA Halved ==
  ASSUME NEW st \in Seq(Request), st # <<>>, NEW from, NEW to, Stacked(st, from, to),
         NEW half \in Nat, 1 <= half, half < Head(st).count
  PROVE  LET x == Req(Head(st).start, half)
             y == Req(Head(st).start + half, Head(st).count - half)
         IN  /\ <<x, y>> \o Tail(st) \in Seq(Request)
             /\ Stacked(<<x, y>> \o Tail(st), from, to)
<1> DEFINE h == Head(st)
           x == Req(h.start, half)
           y == Req(h.start + half, h.count - half)
           two == <<x, y>>
           new == two \o Tail(st)
<1>1. /\ h \in Request /\ h = st[1]
      /\ Tail(st) \in Seq(Request) /\ Len(st) \in Nat /\ Len(st) >= 1
      /\ Len(Tail(st)) = Len(st) - 1
      /\ \A i \in 1 .. (Len(st) - 1) : Tail(st)[i] = st[i + 1]
      /\ \A i \in 1 .. Len(st) : st[i] \in Request
  BY HeadTailProperties, EmptySeq, LenProperties, ElementOfSeq
<1>2. h.start \in Nat /\ h.count \in Nat /\ h.start = from /\ h.count <= BatchSize
  BY <1>1, RequestParts DEF Stacked
<1> HIDE DEF h
<1>3. /\ x \in Request /\ y \in Request
      /\ x.start = from /\ x.count = half /\ y.start = from + half /\ y.count = h.count - half
  <2>1. h.count - half \in Nat \ {0} /\ half \in Nat \ {0} /\ h.start + half \in Nat
    BY <1>2 DEF h
  <2> QED
    BY <1>2, <2>1 DEF Req, Request
<1>4. x.count <= BatchSize /\ y.count <= BatchSize
  BY <1>2, <1>3, Constants DEF h
<1> HIDE DEF x, y
<1>5. two \in Seq(Request) /\ Len(two) = 2 /\ two[1] = x /\ two[2] = y
  BY <1>3
<1> HIDE DEF two
<1>6. /\ new \in Seq(Request) /\ Len(new) = Len(st) + 1
      /\ new[1] = x /\ new[2] = y
      /\ \A i \in 3 .. (Len(st) + 1) : new[i] = st[i - 1]
  <2>1. /\ new \in Seq(Request) /\ Len(new) = Len(two) + Len(Tail(st))
        /\ \A i \in 1 .. Len(two) + Len(Tail(st)) :
             new[i] = IF i <= Len(two) THEN two[i] ELSE Tail(st)[i - Len(two)]
    BY <1>1, <1>5, ConcatProperties, Zenon
  <2>2. Len(new) = Len(st) + 1 /\ new[1] = x /\ new[2] = y
    BY <1>1, <1>5, <2>1
  <2>3. ASSUME NEW i \in 3 .. (Len(st) + 1) PROVE new[i] = st[i - 1]
    <3>1. new[i] = Tail(st)[i - 2]
      BY <1>1, <1>5, <2>1, <2>3
    <3>2. i - 2 \in 1 .. (Len(st) - 1) /\ (i - 2) + 1 = i - 1
      BY <1>1, <2>3
    <3> QED
      BY <1>1, <3>1, <3>2
  <2> QED
    BY <2>1, <2>2, <2>3
<1> HIDE DEF new
<1>7. \A i \in 1 .. Len(new) : new[i].count <= BatchSize
  <2> TAKE i \in 1 .. Len(new)
  <2>1. CASE i >= 3
    <3>1. new[i] = st[i - 1] /\ i - 1 \in 1 .. Len(st)
      BY <1>1, <1>6, <2>1
    <3> QED
      BY <3>1 DEF Stacked
  <2>2. CASE i < 3
    <3>1. i = 1 \/ i = 2
      BY <2>2
    <3> QED
      BY <1>4, <1>6, <3>1
  <2> QED
    BY <1>1, <1>6, <2>1, <2>2
<1>8. ASSUME NEW i \in 1 .. (Len(new) - 1)
      PROVE  new[i + 1].start = new[i].start + new[i].count
  <2>1. CASE i = 1
    BY <1>3, <1>6, <2>1
  <2>2. CASE i = 2
    <3>1. 3 \in 3 .. (Len(st) + 1) /\ 1 \in 1 .. (Len(st) - 1)
      BY <1>1, <1>6, <1>8, <2>2
    <3>2. new[3] = st[2] /\ st[2].start = st[1].start + st[1].count
      BY <1>6, <3>1 DEF Stacked
    <3>3. st[1].start + st[1].count = from + h.count
      BY <1>1, <1>2 DEF h
    <3>4. new[2].start + new[2].count = from + h.count
      BY <1>2, <1>3, <1>6
    <3> QED
      BY <2>2, <3>2, <3>3, <3>4
  <2>3. CASE i >= 3
    <3>1. /\ new[i] = st[i - 1] /\ new[i + 1] = st[(i - 1) + 1]
          /\ i - 1 \in 1 .. (Len(st) - 1)
      BY <1>1, <1>6, <1>8, <2>3
    <3> QED
      BY <3>1 DEF Stacked
  <2> QED
    BY <1>1, <1>6, <2>1, <2>2, <2>3
<1>9. new[Len(new)].start + new[Len(new)].count = to
  <2>1. CASE Len(st) = 1
    <3>1. st[1].start + st[1].count = to
      BY <1>1, <2>1 DEF Stacked
    <3> QED
      BY <1>1, <1>2, <1>3, <1>6, <2>1, <3>1 DEF h
  <2>2. CASE Len(st) # 1
    <3>1. new[Len(new)] = st[Len(st)]
      BY <1>1, <1>6, <2>2
    <3> QED
      BY <1>1, <3>1 DEF Stacked
  <2> QED
    BY <2>1, <2>2
<1>10. new # <<>> /\ new[1].start = from
  BY <1>1, <1>3, <1>6, EmptySeq
<1>11. Stacked(new, from, to)
  BY <1>7, <1>8, <1>9, <1>10 DEF Stacked
<1> QED
  BY <1>6, <1>11 DEF new, two, x, y, h

(* One entry more that begins where the others end.                        *)
LEMMA Entered ==
  ASSUME NEW es \in Seq(Entry), NEW e \in Entry, Tiled(es),
         e.first = Reached(es, Len(es)), Within(e)
  PROVE  LET new == Append(es, e) IN
         /\ new \in Seq(Entry) /\ Len(new) = Len(es) + 1 /\ Len(es) \in Nat
         /\ \A i \in 1 .. Len(es) : new[i] = es[i]
         /\ new[Len(es) + 1] = e
         /\ Tiled(new) /\ Reached(new, Len(new)) = e.asked + 1
<1> DEFINE new == Append(es, e)
<1>1. /\ new \in Seq(Entry) /\ Len(es) \in Nat /\ Len(new) = Len(es) + 1
      /\ \A i \in 1 .. Len(es) : new[i] = es[i]
      /\ new[Len(es) + 1] = e
  BY AppendProperties, LenProperties
<1> HIDE DEF new
<1>2. Reached(new, Len(new)) = e.asked + 1
  BY <1>1 DEF Reached
<1>3. ASSUME NEW i \in 1 .. Len(new)
      PROVE  new[i].first = Reached(new, i - 1) /\ Within(new[i])
  <2>1. \A m \in 0 .. Len(es) : Reached(new, m) = Reached(es, m)
    BY <1>1 DEF Reached
  <2>2. CASE i = Len(es) + 1
    <3>1. i - 1 = Len(es) /\ Len(es) \in 0 .. Len(es)
      BY <1>1, <2>2
    <3> QED
      BY <1>1, <2>1, <2>2, <3>1
  <2>3. CASE i # Len(es) + 1
    <3>1. i \in 1 .. Len(es) /\ i - 1 \in 0 .. Len(es)
      BY <1>1, <1>3, <2>3
    <3> QED
      BY <1>1, <2>1, <3>1 DEF Tiled
  <2> QED
    BY <2>2, <2>3
<1>4. Tiled(new)
  BY <1>3 DEF Tiled
<1> QED
  BY <1>1, <1>2, <1>4 DEF new

-----------------------------------------------------------------------------
LEMMA Initially == Init => RunInv
<1> SUFFICES ASSUME Init PROVE RunInv
  OBVIOUS
<1> USE DEF Init
<1>1. TypeOK
  BY Constants, DiscoveryAssumption, EmptySeq DEF TypeOK
<1>2. TileInv
  BY Constants, EmptySeq DEF TileInv
<1>3. TruthInv
  BY Constants, EmptySeq DEF TruthInv
<1> QED
  BY <1>1, <1>2, <1>3 DEF RunInv

(* What is true of a pair stays true while the units do. *)
LEMMA StillTrue ==
  ASSUME units' = units, NEW e, NEW j, True(e, j)
  PROVE  True(e, j)'
BY DEF True, Answering, UnitOf, TypeOf

(* The sweep touches no report. *)
LEMMA SweepSafe == RunInv /\ Sweep => RunInv'
<1> SUFFICES ASSUME RunInv, Sweep PROVE RunInv'
  OBVIOUS
<1>1. /\ stage = "slaves" /\ pair = 0 /\ Len(report) = 0 /\ stack = <<>>
      /\ cursor' = cursor /\ stack' = stack /\ report' = report /\ pair' = pair
      /\ scanSlaves' = scanSlaves /\ refusals' = refusals /\ shorts' = shorts
      /\ stage' \in {"slaves", "pairs"}
  BY DEF RunInv, TileInv, Sweep, Responds, Silent, SweepEnds, budgets
<1>2. TileInv'
  BY <1>1 DEF RunInv, TileInv, EndExclusive, Tiled, Reached
<1>3. ScanSlavesMax \in Nat /\ next \in 1 .. (ScanSlavesMax + 1) /\ units \in Seq(Unit)
  BY Constants DEF RunInv, TypeOK
<1>4. CASE Responds
  <2>1. /\ next \in 1 .. ScanSlavesMax /\ next \in Present /\ next' = next + 1
        /\ units' = Append(units, next) /\ faults' = faults /\ stage' = stage
    BY <1>3, <1>4 DEF Responds, budgets
  <2>2. next \in Unit
    BY <2>1, DiscoveryAssumption
  <2>3. /\ units' \in Seq(Unit) /\ Len(units) \in Nat /\ Len(units') = Len(units) + 1
        /\ \A i \in 1 .. Len(units) : units'[i] = units[i]
        /\ units'[Len(units) + 1] = next
    BY <1>3, <2>1, <2>2, AppendProperties, LenProperties
  <2>4. TypeOK'
    BY <1>1, <1>3, <2>1, <2>3 DEF RunInv, TypeOK
  <2>5. scanSlaves =>
          /\ \A i \in 1 .. Len(units') : units'[i] \in Present /\ units'[i] < next'
          /\ \A i, j \in 1 .. Len(units') : i < j => units'[i] < units'[j]
    <3> SUFFICES ASSUME scanSlaves
                 PROVE  /\ \A i \in 1 .. Len(units') : units'[i] \in Present /\ units'[i] < next'
                        /\ \A i, j \in 1 .. Len(units') : i < j => units'[i] < units'[j]
      OBVIOUS
    <3>1. /\ \A i \in 1 .. Len(units) : units[i] \in Present /\ units[i] < next
          /\ \A i, j \in 1 .. Len(units) : i < j => units[i] < units[j]
      BY <1>1 DEF RunInv, TruthInv
    <3>2. ASSUME NEW i \in 1 .. Len(units')
          PROVE  units'[i] \in Present /\ units'[i] < next'
      <4>1. CASE i = Len(units) + 1
        BY <1>3, <2>1, <2>3, <4>1
      <4>2. CASE i # Len(units) + 1
        <5>1. i \in 1 .. Len(units)
          BY <2>3, <3>2, <4>2
        <5>2. units[i] \in Nat
          BY <1>3, <5>1, ElementOfSeq, DiscoveryAssumption
        <5> QED
          BY <1>3, <2>1, <2>3, <3>1, <5>1, <5>2
      <4> QED
        BY <4>1, <4>2
    <3>3. ASSUME NEW i \in 1 .. Len(units'), NEW j \in 1 .. Len(units'), i < j
          PROVE  units'[i] < units'[j]
      <4>1. i \in 1 .. Len(units)
        BY <2>3, <3>3
      <4>2. CASE j = Len(units) + 1
        BY <2>3, <3>1, <4>1, <4>2
      <4>3. CASE j # Len(units) + 1
        <5>1. j \in 1 .. Len(units)
          BY <2>3, <3>3, <4>3
        <5> QED
          BY <2>3, <3>1, <3>3, <4>1, <5>1
      <4> QED
        BY <4>2, <4>3
    <3> QED
      BY <3>2, <3>3
  <2>6. TruthInv'
    BY <1>1, <2>5 DEF TruthInv
  <2> QED
    BY <1>2, <2>4, <2>6 DEF RunInv
<1>5. CASE Silent
  <2>1. /\ next \in 1 .. ScanSlavesMax /\ next' = next + 1 /\ units' = units
        /\ stage' = stage
    BY <1>3, <1>5 DEF Silent
  <2>2. faults' \in 0 .. MaxFaults
    BY <1>5, Constants DEF Silent, RunInv, TypeOK
  <2>3. TypeOK'
    BY <1>1, <1>3, <2>1, <2>2 DEF RunInv, TypeOK
  <2>4. scanSlaves => \A i \in 1 .. Len(units) : units[i] < next'
    <3> SUFFICES ASSUME scanSlaves, NEW i \in 1 .. Len(units) PROVE units[i] < next'
      OBVIOUS
    <3>1. units[i] < next
      BY <1>1 DEF RunInv, TruthInv
    <3>2. units[i] \in Nat
      BY <1>3, ElementOfSeq, DiscoveryAssumption, LenProperties
    <3> QED
      BY <1>3, <2>1, <3>1, <3>2
  <2>5. TruthInv'
    BY <1>1, <2>1, <2>4 DEF RunInv, TruthInv
  <2> QED
    BY <1>2, <2>3, <2>5 DEF RunInv
<1>6. CASE SweepEnds
  <2>1. stage' = "pairs" /\ next' = next /\ units' = units /\ faults' = faults
    BY <1>6 DEF SweepEnds, budgets
  <2>2. TypeOK'
    BY <1>1, <2>1 DEF RunInv, TypeOK
  <2>3. TruthInv'
    BY <1>1, <2>1 DEF RunInv, TruthInv
  <2> QED
    BY <1>2, <2>2, <2>3 DEF RunInv
<1> QED
  BY <1>4, <1>5, <1>6 DEF Sweep

-----------------------------------------------------------------------------
(* A pair begins with an empty report and nothing owed. *)
LEMMA BeginPairSafe == RunInv /\ BeginPair => RunInv'
<1> SUFFICES ASSUME RunInv, BeginPair PROVE RunInv'
  OBVIOUS
<1>1. /\ stage = "pairs" /\ stage' = "probing" /\ pair' = pair + 1 /\ cursor' = First
      /\ report' = Append(report, <<>>) /\ stack' = stack /\ stack = <<>>
      /\ scanSlaves' = scanSlaves /\ next' = next /\ units' = units
      /\ faults' = faults /\ refusals' = refusals /\ shorts' = shorts
  BY DEF BeginPair, budgets, RunInv, TileInv
<1>2. /\ pair \in Nat /\ Len(report) = pair /\ report \in Seq(Seq(Entry))
      /\ <<>> \in Seq(Entry) /\ Len(<<>>) = 0
  BY EmptySeq DEF RunInv, TypeOK, TileInv
<1>3. /\ report' \in Seq(Seq(Entry)) /\ Len(report') = pair + 1
      /\ \A j \in 1 .. pair : report'[j] = report[j]
      /\ report'[pair + 1] = <<>>
  BY <1>1, <1>2, AppendProperties
<1>4. TypeOK'
  BY <1>1, <1>2, <1>3, Constants DEF RunInv, TypeOK
<1>5. Tiled(<<>>) /\ Reached(<<>>, Len(<<>>)) = First
  BY <1>2 DEF Tiled, Reached
<1>6. \A j \in 1 .. pair' : Tiled(report'[j])
  <2> TAKE j \in 1 .. pair'
  <2>1. j \in 1 .. pair \/ j = pair + 1
    BY <1>1, <1>2
  <2> QED
    BY <1>3, <1>5, <2>1 DEF RunInv, TileInv
<1>7. \A j \in 1 .. pair' : j < pair' => Reached(report'[j], Len(report'[j])) = EndExclusive
  <2> SUFFICES ASSUME NEW j \in 1 .. pair', j < pair'
               PROVE  Reached(report'[j], Len(report'[j])) = EndExclusive
    OBVIOUS
  <2>1. j \in 1 .. pair
    BY <1>1, <1>2
  <2> QED
    BY <1>1, <1>3, <2>1 DEF RunInv, TileInv
<1>8. Stacked(<<>>, First, First)
  BY <1>2, EmptySeq DEF Stacked
<1>9. TileInv'
  <2>1. EndExclusive' = EndExclusive /\ cursor' <= EndExclusive
    BY <1>1, Constants DEF EndExclusive
  <2>2. pair' >= 1 /\ Len(report') = pair' /\ report'[pair'] = <<>>
    BY <1>1, <1>2, <1>3
  <2> QED
    BY <1>1, <1>5, <1>6, <1>7, <1>8, <2>1, <2>2 DEF TileInv, Tiled, Reached, Stacked
<1>10. TruthInv'
  <2>1. ASSUME NEW j \in 1 .. pair', NEW i \in 1 .. Len(report'[j])
        PROVE  True(report[j][i], j)'
    <3>1. CASE j = pair + 1
      BY <1>2, <1>3, <2>1, <3>1
    <3>2. CASE j # pair + 1
      <4>1. j \in 1 .. pair
        BY <1>1, <1>2, <2>1, <3>2
      <4>2. report'[j] = report[j] /\ True(report[j][i], j)
        BY <1>3, <2>1, <4>1 DEF RunInv, TruthInv
      <4> QED
        BY <1>1, <4>2 DEF True, Answering, UnitOf, TypeOf
    <3> QED
      BY <3>1, <3>2
  <2> QED
    BY <1>1, <2>1 DEF RunInv, TruthInv
<1> QED
  BY <1>4, <1>9, <1>10 DEF RunInv
-----------------------------------------------------------------------------
(* The next batch begins where the entries end. *)
LEMMA NextBatchSafe == RunInv /\ NextBatch => RunInv'
<1> SUFFICES ASSUME RunInv, NextBatch PROVE RunInv'
  OBVIOUS
<1> DEFINE left == EndExclusive - cursor
           batch == IF BatchSize < left THEN BatchSize ELSE left
<1>1. /\ stage = "probing" /\ stack = <<>> /\ cursor < EndExclusive
      /\ stack' = <<Req(cursor, batch)>> /\ cursor' = cursor + batch
      /\ scanSlaves' = scanSlaves /\ stage' = stage /\ next' = next /\ units' = units
      /\ pair' = pair /\ report' = report
      /\ faults' = faults /\ refusals' = refusals /\ shorts' = shorts
  BY DEF NextBatch, budgets
<1>2. cursor \in Nat /\ pair \in Nat
  BY DEF RunInv, TypeOK
<1>3. /\ batch \in Nat /\ batch >= 1 /\ batch <= BatchSize
      /\ cursor + batch <= EndExclusive
  BY <1>1, <1>2, Constants
<1> HIDE DEF batch
<1>4. /\ Req(cursor, batch) \in Request
      /\ Req(cursor, batch).start = cursor /\ Req(cursor, batch).count = batch
  BY <1>2, <1>3 DEF Req, Request
<1>5. stack' \in Seq(Request) /\ Len(stack') = 1 /\ stack'[1] = Req(cursor, batch)
  BY <1>1, <1>4
<1>6. TypeOK'
  BY <1>1, <1>2, <1>3, <1>5 DEF RunInv, TypeOK
<1>7. Reached(report[pair], Len(report[pair])) = cursor
  BY <1>1 DEF RunInv, TileInv, Stacked
<1>8. Stacked(stack', cursor, cursor + batch)
  BY <1>1, <1>3, <1>4, <1>5, EmptySeq DEF Stacked
<1>9. TileInv'
  <2>1. EndExclusive' = EndExclusive /\ cursor' <= EndExclusive
    BY <1>1, <1>3 DEF EndExclusive
  <2>2. Stacked(stack, Reached(report[pair], Len(report[pair])), cursor)'
    BY <1>1, <1>7, <1>8 DEF Stacked, Reached
  <2> QED
    BY <1>1, <2>1, <2>2 DEF RunInv, TileInv, Tiled, Reached
<1>10. TruthInv'
  BY <1>1 DEF RunInv, TruthInv, True, Answering, UnitOf, TypeOf
<1> QED
  BY <1>6, <1>9, <1>10 DEF RunInv

(* A pair ends where the range does. *)
LEMMA EndPairSafe == RunInv /\ EndPair => RunInv'
<1> SUFFICES ASSUME RunInv, EndPair PROVE RunInv'
  OBVIOUS
<1>1. /\ stage = "probing" /\ stack = <<>> /\ cursor >= EndExclusive /\ stage' = "pairs"
      /\ scanSlaves' = scanSlaves /\ next' = next /\ units' = units /\ pair' = pair
      /\ cursor' = cursor /\ stack' = stack /\ report' = report
      /\ faults' = faults /\ refusals' = refusals /\ shorts' = shorts
  BY DEF EndPair, budgets
<1>2. TypeOK'
  BY <1>1 DEF RunInv, TypeOK
<1>3. Reached(report[pair], Len(report[pair])) = EndExclusive
  <2>1. cursor \in Nat /\ cursor <= EndExclusive
    BY DEF RunInv, TypeOK, TileInv
  <2>2. cursor = EndExclusive
    BY <1>1, <2>1, Constants
  <2> QED
    BY <1>1, <2>2 DEF RunInv, TileInv, Stacked
<1>4. \A j \in 1 .. pair : Reached(report[j], Len(report[j])) = EndExclusive
  <2> TAKE j \in 1 .. pair
  <2>1. j < pair \/ j = pair
    BY DEF RunInv, TypeOK
  <2> QED
    BY <1>3, <2>1 DEF RunInv, TileInv
<1>5. TileInv'
  BY <1>1, <1>4 DEF RunInv, TileInv, Tiled, Reached, EndExclusive
<1>6. TruthInv'
  BY <1>1 DEF RunInv, TruthInv, True, Answering, UnitOf, TypeOf
<1> QED
  BY <1>2, <1>5, <1>6 DEF RunInv

LEMMA FinishSafe == RunInv /\ Finish => RunInv'
<1> SUFFICES ASSUME RunInv, Finish PROVE RunInv'
  OBVIOUS
<1>1. /\ stage = "pairs" /\ stage' = "done"
      /\ scanSlaves' = scanSlaves /\ next' = next /\ units' = units /\ pair' = pair
      /\ cursor' = cursor /\ stack' = stack /\ report' = report
      /\ faults' = faults /\ refusals' = refusals /\ shorts' = shorts
  BY DEF Finish, budgets
<1>2. TypeOK'
  BY <1>1 DEF RunInv, TypeOK
<1>3. TileInv'
  BY <1>1 DEF RunInv, TileInv, Tiled, Reached, EndExclusive
<1>4. TruthInv'
  BY <1>1 DEF RunInv, TruthInv, True, Answering, UnitOf, TypeOf
<1> QED
  BY <1>2, <1>3, <1>4 DEF RunInv

-----------------------------------------------------------------------------
(* Nothing but the report and what is owed changes while a pair is probed. *)
Probing ==
  /\ stage = "probing" /\ stack # <<>>
  /\ UNCHANGED <<scanSlaves, stage, next, units, pair, cursor>>
  /\ faults' \in 0 .. MaxFaults /\ refusals' \in 0 .. MaxRefusals /\ shorts' \in 0 .. MaxShort

(* What the request in flight becomes. *)
Made(n, kind) == [kind |-> kind, first |-> InFlight.start,
                  last |-> InFlight.start + n - 1,
                  asked |-> InFlight.start + InFlight.count - 1]

(* The request in flight ends in an entry that is true, about all of its   *)
(* addresses unless values were missing.                                   *)
Settled ==
  \E n \in Int, kind \in {"alive", "dead", "error"} :
    /\ n = InFlight.count \/ (kind = "alive" /\ 0 <= n /\ n < InFlight.count)
    /\ EnterFirst(n, kind)
    /\ True(Made(n, kind), pair)

LEMMA SettledWhole ==
  ASSUME NEW kind \in {"alive", "dead", "error"}, InFlight.count \in Int,
         EnterFirst(InFlight.count, kind), True(Made(InFlight.count, kind), pair)
  PROVE  Settled
<1>1. PICK n \in Int : n = InFlight.count
  OBVIOUS
<1>2. EnterFirst(n, kind)
  BY <1>1 DEF EnterFirst
<1>3. True(Made(n, kind), pair)
  BY <1>1
<1> QED
  BY <1>1, <1>2, <1>3 DEF Settled

(* Such an entry may take the place of the request. *)
LEMMA EnterSafe == RunInv /\ Probing /\ Settled => RunInv'
<1> SUFFICES ASSUME RunInv, Probing, Settled PROVE RunInv'
  OBVIOUS
<1>0. PICK n \in Int, kind \in {"alive", "dead", "error"} :
        /\ n = InFlight.count \/ (kind = "alive" /\ 0 <= n /\ n < InFlight.count)
        /\ EnterFirst(n, kind)
        /\ True(Made(n, kind), pair)
  BY DEF Settled, EnterFirst
<1> DEFINE e == Made(n, kind)
           es == report[pair]
           from == Reached(es, Len(es))
<1>1. /\ stage = "probing" /\ stack # <<>> /\ stack' = Tail(stack)
      /\ report' = [report EXCEPT ![pair] = Append(es, e)]
      /\ scanSlaves' = scanSlaves /\ stage' = stage /\ next' = next /\ units' = units
      /\ pair' = pair /\ cursor' = cursor
  BY <1>0 DEF Probing, EnterFirst, Made
<1>2. /\ stack \in Seq(Request) /\ report \in Seq(Seq(Entry)) /\ pair \in Nat
      /\ pair \in 1 .. Len(report) /\ Len(report) = pair
      /\ Stacked(stack, from, cursor)
  BY <1>1 DEF RunInv, TypeOK, TileInv
<1>3. es \in Seq(Entry) /\ Tiled(es)
  BY <1>2, ElementOfSeq DEF RunInv, TileInv
<1>4. /\ InFlight \in Request /\ Tail(stack) \in Seq(Request)
      /\ InFlight.start = from
      /\ Stacked(Tail(stack), from + InFlight.count, cursor)
  BY <1>1, <1>2, Popped DEF InFlight
<1>5. InFlight.start \in Nat /\ InFlight.count \in Nat /\ InFlight.count >= 1
  BY <1>4, RequestParts
<1> HIDE DEF from
<1>6. /\ e \in Entry /\ e.first = from /\ Within(e)
      /\ e.asked + 1 = from + InFlight.count
  <2>1. InFlight.start + InFlight.count - 1 \in Nat /\ InFlight.start + n - 1 \in Int
    BY <1>5
  <2>2. /\ e \in Entry /\ e.kind = kind /\ e.first = InFlight.start
        /\ e.last = InFlight.start + n - 1
        /\ e.asked = InFlight.start + InFlight.count - 1
    BY <2>1, <1>5 DEF Made, Entry
  <2> HIDE DEF e
  <2>3. e.first <= e.asked /\ e.last <= e.asked /\ (n = InFlight.count => e.last = e.asked)
    BY <1>0, <1>5, <2>2
  <2>4. CutShort(e) => e.kind = "alive"
    <3>1. e.kind # "alive" => n = InFlight.count
      BY <1>0, <2>2
    <3> QED
      BY <2>1, <2>2, <2>3, <3>1, <1>5 DEF CutShort
  <2> QED
    BY <1>4, <1>5, <2>2, <2>3, <2>4 DEF Within
<1> HIDE DEF e
<1> DEFINE new == Append(es, e)
<1>7. /\ new \in Seq(Entry) /\ Len(new) = Len(es) + 1 /\ Len(es) \in Nat
      /\ \A i \in 1 .. Len(es) : new[i] = es[i]
      /\ new[Len(es) + 1] = e
      /\ Tiled(new) /\ Reached(new, Len(new)) = e.asked + 1
  BY <1>3, <1>6, Entered DEF from
<1> HIDE DEF new
<1>8. /\ report' \in Seq(Seq(Entry)) /\ Len(report') = pair
      /\ report'[pair] = new
      /\ \A j \in 1 .. pair : j # pair => report'[j] = report[j]
  <2>1. report' = [report EXCEPT ![pair] = new]
    BY <1>1 DEF new
  <2>2. /\ report' \in Seq(Seq(Entry)) /\ Len(report') = Len(report)
        /\ \A j \in 1 .. Len(report) : report'[j] = IF j = pair THEN new ELSE report[j]
    BY <1>2, <1>7, <2>1, ExceptSeq
  <2> QED
    BY <1>2, <2>2
<1> HIDE DEF es
<1>9. TypeOK'
  BY <1>1, <1>4, <1>8 DEF RunInv, TypeOK, Probing
<1>10. TileInv'
  <2>1. \A j \in 1 .. pair : Tiled(report'[j])
    BY <1>7, <1>8 DEF RunInv, TileInv
  <2>2. \A j \in 1 .. pair :
          j < pair => Reached(report'[j], Len(report'[j])) = EndExclusive
    <3> SUFFICES ASSUME NEW j \in 1 .. pair, j < pair
                 PROVE  Reached(report'[j], Len(report'[j])) = EndExclusive
      OBVIOUS
    <3>1. report'[j] = report[j]
      BY <1>2, <1>8
    <3> QED
      BY <3>1 DEF RunInv, TileInv
  <2>3. Stacked(stack', Reached(report'[pair], Len(report'[pair])), cursor)
    BY <1>1, <1>4, <1>6, <1>7, <1>8
  <2> QED
    BY <1>1, <1>2, <1>8, <2>1, <2>2, <2>3
    DEF RunInv, TileInv, Tiled, Within, CutShort, Reached, Stacked, EndExclusive
<1>11. TruthInv'
  <2>1. ASSUME NEW j \in 1 .. pair, NEW i \in 1 .. Len(report'[j])
        PROVE  True(report'[j][i], j)
    <3>1. CASE j = pair /\ i = Len(es) + 1
      <4>1. report'[j][i] = e
        BY <1>7, <1>8, <3>1
      <4> QED
        BY <1>0, <3>1, <4>1 DEF e
    <3>2. CASE j = pair /\ i # Len(es) + 1
      <4>1. i \in 1 .. Len(es) /\ report'[j][i] = es[i]
        BY <1>7, <1>8, <2>1, <3>2
      <4> QED
        BY <3>2, <4>1 DEF RunInv, TruthInv, es
    <3>3. CASE j # pair
      BY <1>8, <2>1, <3>3 DEF RunInv, TruthInv
    <3> QED
      BY <3>1, <3>2, <3>3
  <2>2. \A j \in 1 .. pair' : \A i \in 1 .. Len(report'[j]) : True(report[j][i], j)'
    BY <1>1, <2>1 DEF True, Answering, UnitOf, TypeOf
  <2> QED
    BY <1>1, <2>2 DEF RunInv, TruthInv
<1> QED
  BY <1>9, <1>10, <1>11 DEF RunInv

(* Two halves take the place of the request in flight. *)
LEMMA BisectSafe == RunInv /\ Bisect => RunInv'
<1> SUFFICES ASSUME RunInv, Bisect PROVE RunInv'
  OBVIOUS
<1> DEFINE half == InFlight.count \div 2
           from == Reached(report[pair], Len(report[pair]))
           new == <<Req(InFlight.start, half),
                    Req(InFlight.start + half, InFlight.count - half)>> \o Tail(stack)
<1>1. /\ stage = "probing" /\ stack # <<>> /\ InFlight.count > 1 /\ stack' = new
      /\ scanSlaves' = scanSlaves /\ stage' = stage /\ next' = next /\ units' = units
      /\ pair' = pair /\ cursor' = cursor /\ report' = report
      /\ faults' = faults /\ refusals' = refusals /\ shorts' = shorts
  BY DEF Bisect, budgets
<1>2. stack \in Seq(Request) /\ pair \in Nat /\ Stacked(stack, from, cursor)
  BY <1>1 DEF RunInv, TypeOK, TileInv
<1> HIDE DEF from
<1>3. InFlight \in Request /\ InFlight.count \in Nat
  BY <1>1, <1>2, Popped, RequestParts DEF InFlight
<1>4. half \in Nat /\ 1 <= half /\ half < InFlight.count
  <2> DEFINE n == InFlight.count
  <2>1. n \in Nat /\ n > 1
    BY <1>1, <1>3
  <2> HIDE DEF n
  <2>2. n \div 2 \in Nat /\ 1 <= n \div 2 /\ n \div 2 < n
    BY <2>1
  <2> QED
    BY <2>2 DEF n
<1> HIDE DEF half
<1>5. new \in Seq(Request) /\ Stacked(new, from, cursor)
  BY <1>1, <1>2, <1>4, Halved DEF InFlight
<1> HIDE DEF new
<1>6. TypeOK'
  BY <1>1, <1>5 DEF RunInv, TypeOK
<1>7. TileInv'
  <2>1. Stacked(stack, Reached(report[pair], Len(report[pair])), cursor)'
    BY <1>1, <1>5 DEF Stacked, Reached, from
  <2> QED
    BY <1>1, <2>1 DEF RunInv, TileInv, Tiled, Reached, EndExclusive
<1>8. TruthInv'
  BY <1>1 DEF RunInv, TruthInv, True, Answering, UnitOf, TypeOf
<1> QED
  BY <1>6, <1>7, <1>8 DEF RunInv

(* Each way a request can end is true: values are the device's, one dead   *)
(* address is a hole, and no request is longer than a batch.               *)
LEMMA ProbeSafe == RunInv /\ Probe => RunInv'
<1> SUFFICES ASSUME RunInv, Probe PROVE RunInv'
  OBVIOUS
<1>1. CASE Bisect
  BY <1>1, BisectSafe
<1>2. /\ faults \in 0 .. MaxFaults /\ refusals \in 0 .. MaxRefusals
      /\ shorts \in 0 .. MaxShort
  BY DEF RunInv, TypeOK
<1>3. ASSUME stage = "probing", stack # <<>>
      PROVE  /\ InFlight.start \in Nat /\ InFlight.count \in Nat
             /\ InFlight.count >= 1 /\ InFlight.count <= BatchSize
  <2>1. stack \in Seq(Request) /\ pair \in Nat
        /\ Stacked(stack, Reached(report[pair], Len(report[pair])), cursor)
    BY <1>3 DEF RunInv, TypeOK, TileInv
  <2>2. InFlight \in Request /\ InFlight.count <= BatchSize
    BY <1>3, <2>1, Popped DEF InFlight
  <2> QED
    BY <2>2, RequestParts
<1>9. ASSUME Probing PROVE InFlight.count \in Int
  <2>1. stage = "probing" /\ stack # <<>>
    BY <1>9 DEF Probing
  <2> QED
    BY <1>3, <2>1
<1>4. CASE FoundAlive
  <2>1. Probing /\ EnterFirst(InFlight.count, "alive")
    BY <1>2, <1>4 DEF FoundAlive, Probing, budgets, Enter
  <2>2. True(Made(InFlight.count, "alive"), pair)
    BY <1>4 DEF FoundAlive, Refused, Span, True, Made
  <2>7. Settled
    BY <1>9, <2>1, <2>2, SettledWhole
  <2> QED
    BY <2>1, <2>7, EnterSafe
<1>7. CASE FoundSome
  <2>1. Probing
    BY <1>2, <1>7, Constants DEF FoundSome, Probing
  <2>2. PICK n \in 0 .. (InFlight.count - 1) : EnterFirst(n, "alive")
    BY <1>7 DEF FoundSome
  <2>3. n \in Int /\ 0 <= n /\ n < InFlight.count
    BY <1>3, <2>1, <2>2 DEF Probing
  <2>4. Span(InFlight) \subseteq Answering(pair)
    BY <1>7 DEF FoundSome, Refused
  <2>5. InFlight.start .. (InFlight.start + n - 1) \subseteq Span(InFlight)
    BY <1>3, <2>1, <2>3 DEF Probing, Span
  <2>6. True(Made(n, "alive"), pair)
    BY <2>4, <2>5 DEF True, Made
  <2>7. Settled
    BY <2>2, <2>3, <2>6 DEF Settled
  <2> QED
    BY <2>1, <2>7, EnterSafe
<1>5. CASE FoundDead
  <2>1. Probing /\ EnterFirst(InFlight.count, "dead")
    BY <1>2, <1>5 DEF FoundDead, Probing, budgets, Enter
  <2>2. InFlight.count = 1 /\ ~(Span(InFlight) \subseteq Answering(pair))
        /\ InFlight.start \in Nat
    BY <1>3, <1>5 DEF FoundDead, Refused
  <2>3. InFlight.start + InFlight.count - 1 = InFlight.start
        /\ Span(InFlight) = {InFlight.start}
    BY <2>2 DEF Span
  <2>4. InFlight.start \notin Answering(pair)
    BY <2>2, <2>3
  <2>5. True(Made(InFlight.count, "dead"), pair)
    BY <2>3, <2>4 DEF True, Made
  <2>7. Settled
    BY <1>9, <2>1, <2>5, SettledWhole
  <2> QED
    BY <2>1, <2>7, EnterSafe
<1>6. CASE FoundError \/ Faults
  <2>1. Probing /\ EnterFirst(InFlight.count, "error")
    <3>1. stage = "probing" /\ stack # <<>> /\ EnterFirst(InFlight.count, "error")
          /\ UNCHANGED <<scanSlaves, stage, next, units, pair, cursor>>
      BY <1>6 DEF FoundError, Faults, Enter
    <3>2. faults' \in 0 .. MaxFaults /\ refusals' \in 0 .. MaxRefusals /\ shorts' \in 0 .. MaxShort
      BY <1>2, <1>6, Constants DEF FoundError, Faults
    <3> QED
      BY <3>1, <3>2 DEF Probing
  <2>2. InFlight.start + InFlight.count - 1 - InFlight.start < BatchSize
    BY <1>3, <2>1, Constants DEF Probing
  <2>3. /\ Made(InFlight.count, "error").kind = "error"
        /\ Made(InFlight.count, "error").last = InFlight.start + InFlight.count - 1
        /\ Made(InFlight.count, "error").first = InFlight.start
    BY DEF Made
  <2> DEFINE m == Made(InFlight.count, "error")
  <2> HIDE DEF m
  <2>4. m.kind # "alive" /\ m.kind # "dead"
    BY <2>3 DEF m
  <2>5. m.last - m.first < BatchSize
    BY <1>3, <2>1, <2>2, <2>3, Constants DEF m, Probing
  <2>6. True(m, pair)
    BY <2>4, <2>5, Zenon DEF True
  <2>7. Settled
    <3>1. True(Made(InFlight.count, "error"), pair)
      BY <2>6 DEF m
    <3> QED
      BY <1>9, <2>1, <3>1, SettledWhole
  <2> QED
    <3>1. Probing
      BY <2>1
    <3> QED
      BY <3>1, <2>7, EnterSafe, SMTT(30)
<1> QED
  BY <1>1, <1>4, <1>5, <1>6, <1>7 DEF Probe

-----------------------------------------------------------------------------
LEMMA StepSafe == RunInv /\ [Next]_vars => RunInv'
<1> SUFFICES ASSUME RunInv, [Next]_vars PROVE RunInv'
  OBVIOUS
<1>1. CASE UNCHANGED vars
  <2>1. /\ UNCHANGED <<scanSlaves, stage, next, units, pair, cursor, stack, report>>
        /\ UNCHANGED <<faults, refusals, shorts>>
    BY <1>1 DEF vars, budgets
  <2>2. TypeOK'
    BY <2>1 DEF RunInv, TypeOK
  <2>3. TileInv'
    BY <2>1 DEF RunInv, TileInv
  <2>4. TruthInv'
    <3>1. \A j \in 1 .. pair : \A i \in 1 .. Len(report[j]) : True(report[j][i], j)'
      BY <2>1, StillTrue DEF RunInv, TruthInv
    <3> QED
      BY <2>1, <3>1 DEF RunInv, TruthInv
  <2> QED
    BY <2>2, <2>3, <2>4 DEF RunInv
<1>2. CASE Next
  BY <1>2, SweepSafe, BeginPairSafe, NextBatchSafe, ProbeSafe, EndPairSafe, FinishSafe DEF Next
<1> QED
  BY <1>1, <1>2

LEMMA RunInvariant == Spec => []RunInv
<1>1. Init => RunInv
  BY Initially
<1>2. RunInv /\ [Next]_vars => RunInv'
  BY StepSafe
<1> QED
  BY <1>1, <1>2, PTL DEF Spec

LEMMA InvTiles == RunInv => ReportTiles
<1> SUFFICES ASSUME RunInv PROVE ReportTiles
  OBVIOUS
<1>1. report \in Seq(Seq(Entry)) /\ Len(report) = pair /\ DOMAIN report = 1 .. pair
  BY DEF RunInv, TypeOK, TileInv
<1>2. \A j \in 1 .. pair : DOMAIN report[j] = 1 .. Len(report[j])
  BY <1>1, ElementOfSeq
<1> QED
  BY <1>1, <1>2 DEF RunInv, TileInv, Tiled, Within, ReportTiles

LEMMA InvIsTrue == RunInv => ReportIsTrue
<1> SUFFICES ASSUME RunInv PROVE ReportIsTrue
  OBVIOUS
<1>1. report \in Seq(Seq(Entry)) /\ Len(report) = pair /\ DOMAIN report = 1 .. pair
  BY DEF RunInv, TypeOK, TileInv
<1>2. \A j \in 1 .. pair : DOMAIN report[j] = 1 .. Len(report[j])
  BY <1>1, ElementOfSeq
<1>3. DOMAIN units = 1 .. Len(units)
  BY DEF RunInv, TypeOK
<1> QED
  BY <1>1, <1>2, <1>3 DEF RunInv, TruthInv, True, ReportIsTrue

(* The variables keep their types, whatever the device answers. *)
THEOREM DiscoveryTyped == Spec => []TypeOK
<1>1. RunInv => TypeOK
  BY DEF RunInv
<1> QED
  BY <1>1, RunInvariant, PTL

(* The requests behind the entries of every pair lie end to end from the   *)
(* start of the range, and reach its end when the pair is finished: no     *)
(* address is reported twice, and only the values missing from a short     *)
(* answer leave some out, however batches are halved and faults fall       *)
(* (AddressDiscoveryService._discover_type, _probe, _bisect).              *)
THEOREM EveryAddressOnce == Spec => []ReportTiles
BY RunInvariant, InvTiles, PTL

(* Alive is alive and dead is dead on the device, an error is no wider     *)
(* than a batch, and a sweep lists units that are there, each once         *)
(* (AddressDiscoveryService._probe, SlaveScanner.scan).                           *)
THEOREM ReportsAreTrue == Spec => []ReportIsTrue
BY RunInvariant, InvIsTrue, PTL


-----------------------------------------------------------------------------
(* Units the sweep has passed over, and where the report knows nothing of  *)
(* units that are there.                                                   *)
Missed ==
  IF scanSlaves THEN {u \in Present : u \in 1 .. (next - 1)} \ {units[i] : i \in DOMAIN units}
  ELSE {}
GapAt(j, i) ==
  /\ j \in DOMAIN report /\ UnitOf(j) \in Present
  /\ i \in DOMAIN report[j] /\ Unknown(report[j][i])
Gaps ==
  UNION {{j} \X {i \in DOMAIN report[j] : Unknown(report[j][i])} :
           j \in {k \in DOMAIN report : UnitOf(k) \in Present}}

Spent == faults + refusals + shorts

(* Nothing in them came for free. *)
LossInv ==
  /\ IsFiniteSet(Missed) /\ IsFiniteSet(Gaps)
  /\ Cardinality(Missed) + Cardinality(Gaps) <= Spent

LEMMA WhereGapsAre == \A x : x \in Gaps <=> \E j, i : x = <<j, i>> /\ GapAt(j, i)
BY DEF Gaps, GapAt

LEMMA Fewer ==
  ASSUME NEW S, NEW T, IsFiniteSet(S), T \subseteq S
  PROVE  /\ IsFiniteSet(T)
         /\ Cardinality(T) \in Nat /\ Cardinality(S) \in Nat
         /\ Cardinality(T) <= Cardinality(S)
BY FS_Subset, FS_CardinalityType

LEMMA OneMore ==
  ASSUME NEW S, NEW T, NEW x, IsFiniteSet(S), T \subseteq S \cup {x}
  PROVE  /\ IsFiniteSet(T)
         /\ Cardinality(T) \in Nat /\ Cardinality(S) \in Nat
         /\ Cardinality(T) <= Cardinality(S) + 1
<1>1. /\ IsFiniteSet(S \cup {x}) /\ Cardinality(S) \in Nat
      /\ Cardinality(S \cup {x}) = IF x \in S THEN Cardinality(S) ELSE Cardinality(S) + 1
  BY FS_AddElement, FS_CardinalityType
<1>2. /\ IsFiniteSet(T) /\ Cardinality(T) \in Nat
      /\ Cardinality(T) <= Cardinality(S \cup {x})
  BY <1>1, Fewer
<1> QED
  BY <1>1, <1>2

LEMMA Whole ==
  ASSUME RunInv
  PROVE  faults \in Nat /\ refusals \in Nat /\ shorts \in Nat /\ Spent \in Nat
<1>1. faults \in Nat /\ refusals \in Nat /\ shorts \in Nat
  BY Constants DEF RunInv, TypeOK
<1> QED
  BY <1>1 DEF Spent

(* What is lost, and what it has cost, in the step. *)
LEMMA NothingLost ==
  ASSUME RunInv, LossInv, Missed' \subseteq Missed, Gaps' \subseteq Gaps,
         Spent' \in {Spent, Spent + 1}
  PROVE  LossInv'
<1>1. Spent \in Nat
  BY Whole
<1>2. /\ IsFiniteSet(Missed') /\ IsFiniteSet(Gaps')
      /\ Cardinality(Missed') <= Cardinality(Missed)
      /\ Cardinality(Gaps') <= Cardinality(Gaps)
      /\ Cardinality(Missed) \in Nat /\ Cardinality(Missed') \in Nat
      /\ Cardinality(Gaps) \in Nat /\ Cardinality(Gaps') \in Nat
  BY Fewer DEF LossInv
<1> QED
  BY <1>1, <1>2 DEF LossInv

LEMMA UnitLost ==
  ASSUME RunInv, LossInv, NEW u, Missed' \subseteq Missed \cup {u}, Gaps' \subseteq Gaps,
         Spent' = Spent + 1
  PROVE  LossInv'
<1>1. Spent \in Nat
  BY Whole
<1>2. /\ IsFiniteSet(Missed') /\ Cardinality(Missed') <= Cardinality(Missed) + 1
      /\ Cardinality(Missed) \in Nat /\ Cardinality(Missed') \in Nat
  BY OneMore DEF LossInv
<1>3. /\ IsFiniteSet(Gaps') /\ Cardinality(Gaps') <= Cardinality(Gaps)
      /\ Cardinality(Gaps) \in Nat /\ Cardinality(Gaps') \in Nat
  BY Fewer DEF LossInv
<1> QED
  BY <1>1, <1>2, <1>3 DEF LossInv

LEMMA EntryLost ==
  ASSUME RunInv, LossInv, NEW x, Missed' \subseteq Missed, Gaps' \subseteq Gaps \cup {x},
         Spent' = Spent + 1
  PROVE  LossInv'
<1>1. Spent \in Nat
  BY Whole
<1>2. /\ IsFiniteSet(Gaps') /\ Cardinality(Gaps') <= Cardinality(Gaps) + 1
      /\ Cardinality(Gaps) \in Nat /\ Cardinality(Gaps') \in Nat
  BY OneMore DEF LossInv
<1>3. /\ IsFiniteSet(Missed') /\ Cardinality(Missed') <= Cardinality(Missed)
      /\ Cardinality(Missed) \in Nat /\ Cardinality(Missed') \in Nat
  BY Fewer DEF LossInv
<1> QED
  BY <1>1, <1>2, <1>3 DEF LossInv

LEMMA LossInitially == Init => LossInv
<1> SUFFICES ASSUME Init PROVE LossInv
  OBVIOUS
<1>1. next = 1 /\ report = <<>> /\ Spent = 0
  BY DEF Init, Spent
<1>2. Missed = {}
  BY <1>1 DEF Missed
<1>3. Gaps = {}
  BY <1>1 DEF Gaps
<1> QED
  BY <1>1, <1>2, <1>3, FS_EmptySet DEF LossInv

(* The sweep misses a unit that is there only by a fault. *)
LEMMA SweepLoses == RunInv /\ LossInv /\ Sweep => LossInv'
<1> SUFFICES ASSUME RunInv, LossInv, Sweep PROVE LossInv'
  OBVIOUS
<1>1. /\ stage = "slaves" /\ report' = report /\ scanSlaves' = scanSlaves
      /\ refusals' = refusals /\ shorts' = shorts
      /\ Len(report) = 0 /\ report \in Seq(Seq(Entry))
  BY DEF Sweep, Responds, Silent, SweepEnds, budgets, RunInv, TypeOK, TileInv
<1>2. DOMAIN report' = {}
  BY <1>1, LenProperties
<1>3. Gaps' = {}
  BY <1>2 DEF Gaps
<1>4. next \in Nat /\ next >= 1 /\ units \in Seq(Unit)
  BY Constants DEF RunInv, TypeOK
<1>8. /\ faults' = faults => Spent' = Spent
      /\ faults' = faults + 1 => Spent' = Spent + 1
  BY <1>1, Whole DEF Spent
<1>5. CASE Responds
  <2>1. next' = next + 1 /\ units' = Append(units, next) /\ faults' = faults /\ next \in Unit
    BY <1>4, <1>5, Constants, DiscoveryAssumption DEF Responds, budgets, RunInv, TypeOK
  <2>2. /\ DOMAIN units' = 1 .. Len(units) + 1 /\ DOMAIN units = 1 .. Len(units)
        /\ Len(units) \in Nat
        /\ \A i \in 1 .. Len(units) : units'[i] = units[i]
        /\ units'[Len(units) + 1] = next
    BY <1>4, <2>1, AppendProperties, LenProperties
  <2>3. /\ \A i \in DOMAIN units : units[i] \in {units'[k] : k \in DOMAIN units'}
        /\ next \in {units'[k] : k \in DOMAIN units'}
    <3>1. Len(units) + 1 \in DOMAIN units' /\ \A i \in DOMAIN units : i \in DOMAIN units'
      BY <2>2
    <3> QED
      BY <2>2, <3>1
  <2>4. ASSUME NEW u \in 1 .. (next' - 1), u # next PROVE u \in 1 .. (next - 1)
    BY <1>4, <2>1, <2>4
  <2>5. Missed' \subseteq Missed
    BY <1>1, <2>3, <2>4 DEF Missed
  <2> QED
    BY <1>1, <1>3, <1>8, <2>1, <2>5, NothingLost
<1>6. CASE Silent
  <2>1. next' = next + 1 /\ units' = units
    BY <1>6 DEF Silent
  <2>2. ASSUME NEW u \in 1 .. (next' - 1), u # next PROVE u \in 1 .. (next - 1)
    BY <1>4, <2>1, <2>2
  <2>3. Missed' \subseteq Missed \cup {next}
    BY <1>1, <2>1, <2>2 DEF Missed
  <2>4. CASE next \notin Present
    <3>1. Missed' \subseteq Missed /\ faults' = faults
      BY <1>1, <1>6, <2>1, <2>2, <2>4 DEF Missed, Silent
    <3> QED
      BY <1>1, <1>3, <1>8, <3>1, NothingLost
  <2>5. CASE next \in Present
    <3>1. faults' = faults + 1
      BY <1>6, <2>5 DEF Silent
    <3> QED
      BY <1>1, <1>3, <1>8, <2>3, <3>1, UnitLost
  <2> QED
    BY <2>4, <2>5
<1>7. CASE SweepEnds
  <2>1. next' = next /\ units' = units /\ faults' = faults
    BY <1>7 DEF SweepEnds, budgets
  <2>2. Missed' = Missed
    BY <1>1, <2>1 DEF Missed
  <2> QED
    BY <1>1, <1>3, <1>8, <2>1, <2>2, NothingLost
<1> QED
  BY <1>5, <1>6, <1>7 DEF Sweep

LEMMA MissedStays == UNCHANGED <<scanSlaves, next, units>> => Missed' = Missed
BY DEF Missed

LEMMA BeginPairLoses == RunInv /\ LossInv /\ BeginPair => LossInv'
<1> SUFFICES ASSUME RunInv, LossInv, BeginPair PROVE LossInv'
  OBVIOUS
<1>1. /\ report' = Append(report, <<>>) /\ Spent' = Spent
      /\ UNCHANGED <<scanSlaves, next, units>>
      /\ report \in Seq(Seq(Entry))
  BY DEF BeginPair, budgets, Spent, RunInv, TypeOK
<1>2. /\ DOMAIN report = 1 .. Len(report) /\ Len(report) \in Nat
      /\ DOMAIN report' = 1 .. Len(report) + 1
      /\ \A j \in 1 .. Len(report) : report'[j] = report[j]
      /\ report'[Len(report) + 1] = <<>> /\ DOMAIN <<>> = {}
  <2>1. <<>> \in Seq(Entry) /\ Len(<<>>) = 0
    BY EmptySeq
  <2> QED
    BY <1>1, <2>1, AppendProperties, LenProperties
<1>3. ASSUME NEW j, NEW i, GapAt(j, i)' PROVE GapAt(j, i)
  <2>1. j \in 1 .. Len(report) + 1 /\ i \in DOMAIN report'[j] /\ UnitOf(j) \in Present
    BY <1>1, <1>2, <1>3 DEF GapAt, UnitOf
  <2>2. j # Len(report) + 1
    BY <1>2, <2>1
  <2>3. j \in 1 .. Len(report)
    BY <1>2, <2>1, <2>2
  <2> QED
    BY <1>2, <1>3, <2>1, <2>3 DEF GapAt
<1>4. \A x : x \in Gaps' <=> \E j, i : x = <<j, i>> /\ GapAt(j, i)'
  BY DEF Gaps, GapAt
<1>5. Gaps' \subseteq Gaps
  BY <1>3, <1>4, WhereGapsAre
<1> QED
  BY <1>1, <1>5, MissedStays, NothingLost

(* An entry in the place of a request is one error more, if it is one, and *)
(* only if the unit is there.                                              *)
LEMMA EnterAdds ==
  ASSUME RunInv, NEW kind, NEW n, stage = "probing", stack # <<>>, EnterFirst(n, kind),
         UNCHANGED <<units, pair>>
  PROVE  /\ Gaps' \subseteq Gaps \cup {<<pair, Len(report[pair]) + 1>>}
         /\ ~Unknown(Made(n, kind)) \/ UnitOf(pair) \notin Present => Gaps' \subseteq Gaps
<1> DEFINE es == report[pair]
           e == Made(n, kind)
           new == Append(es, e)
<1>1. report \in Seq(Seq(Entry)) /\ Len(report) = pair /\ pair \in 1 .. pair /\ pair \in Nat
  BY DEF RunInv, TypeOK, TileInv
<1>2. es \in Seq(Entry) /\ DOMAIN report = 1 .. pair
  BY <1>1, ElementOfSeq, LenProperties
<1>3. report' = [report EXCEPT ![pair] = new]
  BY DEF EnterFirst, Made
<1> HIDE DEF e
<1>5. /\ DOMAIN new = 1 .. Len(es) + 1 /\ DOMAIN es = 1 .. Len(es) /\ Len(es) \in Nat
      /\ \A i \in 1 .. Len(es) : new[i] = es[i]
      /\ new[Len(es) + 1] = e
  <2>1. /\ Len(es) \in Nat /\ DOMAIN es = 1 .. Len(es)
    BY <1>2, LenProperties
  <2>2. /\ \A i \in 1 .. Len(es) : Append(es, e)[i] = es[i]
        /\ Append(es, e)[Len(es) + 1] = e
        /\ DOMAIN Append(es, e) = 1 .. Len(es) + 1
    <3>1. es \in Seq(Entry \cup {e}) /\ e \in Entry \cup {e}
      BY <1>2, SeqMonotonic
    <3> HIDE DEF es
    <3> QED
      BY <2>1, <3>1, AppendProperties, LenProperties
  <2> QED
    BY <2>1, <2>2
<1> HIDE DEF new
<1>6. /\ DOMAIN report' = 1 .. pair /\ report'[pair] = new
      /\ \A j \in 1 .. pair : j # pair => report'[j] = report[j]
  BY <1>1, <1>2, <1>3
<1>7. ASSUME NEW j, NEW i, GapAt(j, i)', ~GapAt(j, i)
      PROVE  j = pair /\ i = Len(es) + 1 /\ Unknown(e) /\ UnitOf(pair) \in Present
  <2>1. /\ j \in 1 .. pair /\ i \in DOMAIN report'[j] /\ UnitOf(j) \in Present
        /\ Unknown(report'[j][i])
    BY <1>6, <1>7 DEF GapAt, UnitOf
  <2>2. j = pair
    BY <1>2, <1>6, <1>7, <2>1 DEF GapAt
  <2>3. i \in 1 .. Len(es) + 1 /\ Unknown(new[i])
    BY <1>5, <1>6, <2>1, <2>2
  <2>4. i \notin 1 .. Len(es)
    BY <1>2, <1>5, <1>7, <2>1, <2>2, <2>3 DEF GapAt
  <2>5. i = Len(es) + 1
    BY <1>5, <2>3, <2>4
  <2> QED
    BY <1>5, <2>1, <2>2, <2>3, <2>5
<1>8. \A x : x \in Gaps' <=> \E j, i : x = <<j, i>> /\ GapAt(j, i)'
  BY DEF Gaps, GapAt
<1> QED
  BY <1>7, <1>8, WhereGapsAre DEF e

LEMMA ProbeLoses == RunInv /\ LossInv /\ Probe => LossInv'
<1> SUFFICES ASSUME RunInv, LossInv, Probe PROVE LossInv'
  OBVIOUS
<1>1. Missed' = Missed
  BY MissedStays DEF Probe, FoundAlive, FoundSome, Bisect, FoundDead, FoundError, Faults
<1>2. faults \in Nat /\ refusals \in Nat /\ shorts \in Nat
  BY Whole
<1>3. CASE Bisect
  <2>1. UNCHANGED <<units, report, faults, refusals, shorts>>
    BY <1>3 DEF Bisect, budgets
  <2>2. Gaps' = Gaps
    BY <2>1 DEF Gaps, UnitOf
  <2> QED
    BY <1>1, <2>1, <2>2, NothingLost DEF Spent
<1>4. ASSUME NEW n, NEW kind, stage = "probing", stack # <<>>, EnterFirst(n, kind),
             UNCHANGED <<units, pair>>, Spent' = Spent + 1
      PROVE  LossInv'
  <2>1. Gaps' \subseteq Gaps \cup {<<pair, Len(report[pair]) + 1>>}
    BY <1>4, EnterAdds
  <2> QED
    BY <1>1, <1>4, <2>1, EntryLost
<1>5. ASSUME FoundAlive \/ FoundDead PROVE LossInv'
  <2>1. PICK kind \in {"alive", "dead"} :
          /\ stage = "probing" /\ stack # <<>> /\ UNCHANGED <<units, pair>>
          /\ EnterFirst(InFlight.count, kind)
    BY <1>5 DEF FoundAlive, FoundDead, Enter
  <2>2. ~Unknown(Made(InFlight.count, kind))
    <3>1. InFlight \in Request
      BY <2>1, HeadTailProperties DEF RunInv, TypeOK, InFlight
    <3>2. ~CutShort(Made(InFlight.count, kind))
      BY <3>1, RequestParts DEF Made, CutShort
    <3> QED
      BY <2>1, <3>2 DEF Unknown, Made
  <2>3. Gaps' \subseteq Gaps
    BY <2>1, <2>2, EnterAdds
  <2>4. Spent' = Spent
    BY <1>5 DEF FoundAlive, FoundDead, budgets, Spent
  <2> QED
    BY <1>1, <2>3, <2>4, NothingLost
<1>6. CASE FoundSome
  <2>1. PICK n : EnterFirst(n, "alive")
    BY <1>6 DEF FoundSome
  <2>2. /\ stage = "probing" /\ stack # <<>> /\ UNCHANGED <<units, pair>>
        /\ Spent' = Spent + 1
    BY <1>2, <1>6 DEF FoundSome, Spent
  <2> QED
    BY <1>4, <2>1, <2>2
<1>7. CASE FoundError
  <2>1. /\ stage = "probing" /\ stack # <<>> /\ UNCHANGED <<units, pair>>
        /\ EnterFirst(InFlight.count, "error") /\ Spent' = Spent + 1
    BY <1>2, <1>7 DEF FoundError, Enter, Spent
  <2> QED
    BY <1>4, <2>1
<1>8. CASE Faults
  <2>1. /\ stage = "probing" /\ stack # <<>> /\ UNCHANGED <<units, pair>>
        /\ EnterFirst(InFlight.count, "error")
        /\ \/ UnitOf(pair) \notin Present /\ Spent' = Spent
           \/ UnitOf(pair) \in Present /\ Spent' = Spent + 1
    BY <1>2, <1>8 DEF Faults, Enter, Spent
  <2>2. UnitOf(pair) \notin Present => Gaps' \subseteq Gaps
    BY <2>1, EnterAdds
  <2> QED
    BY <1>1, <1>4, <2>1, <2>2, NothingLost
<1> QED
  BY <1>3, <1>5, <1>6, <1>7, <1>8 DEF Probe

LEMMA LossStep == RunInv /\ LossInv /\ [Next]_vars => LossInv'
<1> SUFFICES ASSUME RunInv, LossInv, [Next]_vars PROVE LossInv'
  OBVIOUS
<1>1. ASSUME UNCHANGED <<scanSlaves, next, units, report, faults, refusals, shorts>>
      PROVE  LossInv'
  BY <1>1 DEF LossInv, Missed, Gaps, UnitOf, Spent
<1>2. CASE UNCHANGED vars \/ NextBatch \/ EndPair \/ Finish
  BY <1>1, <1>2 DEF vars, NextBatch, EndPair, Finish, budgets
<1> QED
  BY <1>2, SweepLoses, BeginPairLoses, ProbeLoses DEF Next

(* A unit is passed over, and an address of a unit that is there reported  *)
(* as an error or left out of the report, at the cost of a fault, a        *)
(* refusal or a short answer each: never by a hole of the device or an     *)
(* exception that answers the sweep (AddressDiscoveryService._probe,       *)
(* SlaveScanner.scan).                                                     *)
THEOREM EveryLossIsPaid == Spec => []LossesHaveACause
<1>1. Init => LossInv
  BY LossInitially
<1>2. RunInv /\ LossInv /\ [Next]_vars => LossInv'
  BY LossStep
<1>3. LossInv => LossesHaveACause
  BY DEF LossInv, LossesHaveACause, Missed, Gaps, Spent
<1> QED
  BY <1>1, <1>2, <1>3, RunInvariant, PTL DEF Spec
=============================================================================
