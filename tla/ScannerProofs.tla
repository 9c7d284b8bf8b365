---------------------------- MODULE ScannerProofs ----------------------------
(***************************************************************************)
(* Theorems about Scanner, for every set of ranges, whatever their overlap *)
(* and batch sizes, every set of holes and every bound.                    *)
(***************************************************************************)
EXTENDS ScannerHistory, SequenceTheorems, WellFoundedInduction, TLAPS

(* All addresses of range r below lim are settled, and none from lim on. *)
Settled(r, lim, F, D) ==
  /\ \A a \in Covered(r) : a < lim => a \in F \cup D
  /\ \A a \in F : a < lim

(* The requests still owed lie end to end and finish at the cursor. *)
StackInv(r, p) ==
  /\ \A i \in 1 .. Len(p.stack) :
       /\ p.stack[i].count <= ScanRange[r].batch
       /\ p.stack[i].start + p.stack[i].count <= p.cursor
  /\ \A i \in 1 .. (Len(p.stack) - 1) :
       p.stack[i].start + p.stack[i].count = p.stack[i+1].start
  /\ p.stack # <<>> =>
       p.stack[Len(p.stack)].start + p.stack[Len(p.stack)].count = p.cursor

(* Where a poll inside a sub-range stands: the sub-range ends at the end   *)
(* of the range or at a dead address, the generator resumes behind that    *)
(* address, and nothing still ahead was dead when the poll began.          *)
RunInv(r, p, F, S, D) ==
  /\ ScanRange[r].start <= Frontier(p)
  /\ Frontier(p) <= p.cursor
  /\ p.cursor + p.remaining <= End(r)
  /\ p.pos = p.cursor + p.remaining + 1
  /\ p.cursor + p.remaining < End(r) => p.cursor + p.remaining \in D
  /\ \A a \in Frontier(p) .. (p.cursor + p.remaining - 1) : a \notin S
  /\ Settled(r, Frontier(p), F, D)

(* A poll that has used up its sub-range, or not begun one. *)
BetweenRuns(r, p, F, D) ==
  /\ p.stack = <<>>
  /\ p.remaining = 0
  /\ ScanRange[r].start <= p.pos
  /\ Settled(r, p.pos, F, D)

WaitInv(r, p, F, S, D) ==
  /\ p.stack # <<>>
  /\ StackInv(r, p)
  /\ RunInv(r, p, F, S, D)

(* The inductive invariant behind PollIsComplete and NoWastedRequest. *)
RangeInv(r) ==
  /\ Polling(r) => WaitInv(r, poll[r], fresh[r], skip[r], dead[BankOf(r)])
  /\ phase[r] = "ok" => Covered(r) \subseteq fresh[r] \cup dead[BankOf(r)]
  /\ skip[r] \subseteq dead[BankOf(r)]

PollInv == \A r \in Ranges : RangeInv(r)

(* Polling tasks wait for a request. *)
Waiting == \A r \in Ranges : Polling(r) => poll[r].stack # <<>>

-----------------------------------------------------------------------------
LEMMA SettingsType ==
  ASSUME NEW r \in Ranges
  PROVE  /\ ScanRange[r].start \in Nat
         /\ ScanRange[r].count \in Nat /\ ScanRange[r].count > 0
         /\ ScanRange[r].batch \in Nat /\ ScanRange[r].batch > 0
         /\ BankOf(r) \in Bank
         /\ End(r) = ScanRange[r].start + ScanRange[r].count
         /\ End(r) \in Nat
         /\ \A a : a \in Covered(r) <=> a \in Nat /\ ScanRange[r].start <= a /\ a < End(r)
<1>1. ScanRange[r] \in Settings
  BY ScannerAssumption
<1>2. /\ ScanRange[r].start \in Nat
      /\ ScanRange[r].count \in Nat /\ ScanRange[r].count > 0
      /\ ScanRange[r].batch \in Nat /\ ScanRange[r].batch > 0
      /\ ScanRange[r].bank \in Bank
  BY <1>1 DEF Settings
<1> QED
  BY <1>2 DEF BankOf, End, Covered

(* Facts about the stack as a sequence. *)
LEMMA PopStack ==
  ASSUME NEW st \in Seq(Segment), st # <<>>
  PROVE  /\ Head(st) \in Segment /\ Head(st) = st[1]
         /\ Tail(st) \in Seq(Segment)
         /\ Len(st) \in Nat /\ Len(st) >= 1
         /\ Len(Tail(st)) = Len(st) - 1
         /\ \A i \in 1 .. (Len(st) - 1) : Tail(st)[i] = st[i+1]
         /\ \A i \in 1 .. Len(st) : st[i] \in Segment
BY HeadTailProperties, EmptySeq, LenProperties, ElementOfSeq

LEMMA SplitStack ==
  ASSUME NEW st \in Seq(Segment), st # <<>>, NEW x \in Segment, NEW y \in Segment
  PROVE  LET new == <<x, y>> \o Tail(st)
         IN  /\ new \in Seq(Segment) /\ new # <<>>
             /\ Len(new) = Len(st) + 1
             /\ Head(new) = x /\ new[1] = x /\ new[2] = y
             /\ \A i \in 3 .. Len(new) : new[i] = st[i-1]
<1> DEFINE pair == <<x, y>>
           new == pair \o Tail(st)
<1>1. pair \in Seq(Segment) /\ Len(pair) = 2 /\ pair[1] = x /\ pair[2] = y
  OBVIOUS
<1>2. /\ Tail(st) \in Seq(Segment) /\ Len(st) \in Nat /\ Len(st) >= 1
      /\ Len(Tail(st)) = Len(st) - 1
      /\ \A i \in 1 .. (Len(st) - 1) : Tail(st)[i] = st[i+1]
  BY PopStack
<1> HIDE DEF pair
<1>3. /\ new \in Seq(Segment) /\ Len(new) = 2 + Len(Tail(st))
      /\ \A i \in 1 .. Len(new) : new[i] = IF i <= 2 THEN pair[i] ELSE Tail(st)[i - 2]
  <2>1. /\ new \in Seq(Segment) /\ Len(new) = Len(pair) + Len(Tail(st))
        /\ \A i \in 1 .. Len(pair) + Len(Tail(st)) :
             new[i] = IF i <= Len(pair) THEN pair[i] ELSE Tail(st)[i - Len(pair)]
    BY <1>1, <1>2, ConcatProperties, Zenon
  <2> QED
    BY <1>1, <2>1
<1>4. \A i \in 3 .. Len(new) : new[i] = st[i-1]
  <2> TAKE i \in 3 .. Len(new)
  <2>1. new[i] = Tail(st)[i - 2]
    BY <1>2, <1>3
  <2>2. i - 2 \in 1 .. (Len(st) - 1) /\ (i - 2) + 1 = i - 1
    BY <1>2, <1>3
  <2> QED
    BY <1>2, <2>1, <2>2
<1> HIDE DEF new
<1>5. new # <<>> /\ new[1] = x /\ new[2] = y /\ Len(new) = Len(st) + 1
  BY <1>1, <1>2, <1>3, EmptySeq
<1>6. Head(new) = x
  BY <1>3, <1>5, HeadTailProperties
<1> QED
  BY <1>3, <1>4, <1>5, <1>6 DEF new, pair

(* What the batch loop asks for next. *)
LEMMA NextBatchFacts ==
  ASSUME NEW r \in Ranges, NEW p \in PollState, p.remaining > 0
  PROVE  \E k \in 1 .. p.remaining :
           /\ k <= ScanRange[r].batch
           /\ Seg(p.cursor, k) \in Segment
           /\ NextBatch(r, p) = [stack |-> <<Seg(p.cursor, k)>>, cursor |-> p.cursor + k,
                                 remaining |-> p.remaining - k, pos |-> p.pos]
           /\ NextBatch(r, p) \in PollState
<1> DEFINE k == IF p.remaining < ScanRange[r].batch THEN p.remaining ELSE ScanRange[r].batch
<1>1. /\ p.stack \in Seq(Segment) /\ p.cursor \in Nat /\ p.remaining \in Nat /\ p.pos \in Nat
      /\ p = [stack |-> p.stack, cursor |-> p.cursor, remaining |-> p.remaining, pos |-> p.pos]
  BY DEF PollState
<1>2. k \in 1 .. p.remaining /\ k <= ScanRange[r].batch
  BY <1>1, SettingsType
<1>3. NextBatch(r, p) = [p EXCEPT !.stack = <<Seg(p.cursor, k)>>, !.cursor = @ + k,
                                  !.remaining = @ - k]
  BY DEF NextBatch
<1> HIDE DEF k
<1>4. NextBatch(r, p) = [stack |-> <<Seg(p.cursor, k)>>, cursor |-> p.cursor + k,
                         remaining |-> p.remaining - k, pos |-> p.pos]
  BY <1>1, <1>3 DEF PollState
<1>5. Seg(p.cursor, k) \in Segment
  BY <1>1, <1>2 DEF Seg, Segment
<1>6. <<Seg(p.cursor, k)>> \in Seq(Segment)
  BY <1>5
<1>7. NextBatch(r, p) \in PollState
  BY <1>1, <1>2, <1>4, <1>6 DEF PollState
<1> QED
  BY <1>2, <1>4, <1>5, <1>7

(* What the generator yields. *)
LEMMA LiveSubRangeFacts ==
  ASSUME NEW r \in Ranges, NEW pos \in Nat, NEW gone,
         NEW run \in LiveSubRange(r, pos, gone)
  PROVE  /\ run \in Segment
         /\ run.start \in Nat /\ run.count \in Nat /\ run.count > 0
         /\ pos <= run.start
         /\ run.start + run.count <= End(r)
         /\ \A a \in pos .. (run.start - 1) : a \in gone
         /\ \A a \in run.start .. (run.start + run.count - 1) : a \notin gone
         /\ run.start + run.count < End(r) => run.start + run.count \in gone
<1>1. PICK s \in pos .. End(r), n \in 1 .. ScanRange[r].count : run = Seg(s, n)
  BY DEF LiveSubRange
<1>2. run.start = s /\ run.count = n /\ s \in Nat /\ n \in Nat /\ n > 0 /\ pos <= s
  BY <1>1, SettingsType DEF Seg
<1>3. run \in Segment
  BY <1>1, <1>2 DEF Seg, Segment
<1> QED
  BY <1>2, <1>3, SettingsType DEF LiveSubRange, Span

(* Asking for the next sub-range leaves a well-typed poll that waits. *)
LEMMA NextRunFacts ==
  ASSUME NEW r \in Ranges, NEW run \in Segment
  PROVE  \E k \in 1 .. run.count :
           /\ k <= ScanRange[r].batch
           /\ Seg(run.start, k) \in Segment
           /\ NextRun(r, run) = [stack |-> <<Seg(run.start, k)>>, cursor |-> run.start + k,
                                 remaining |-> run.count - k,
                                 pos |-> run.start + run.count + 1]
           /\ NextRun(r, run) \in PollState
<1> DEFINE q == [stack |-> <<>>, cursor |-> run.start, remaining |-> run.count,
                 pos |-> run.start + run.count + 1]
<1>1. run.start \in Nat /\ run.count \in Nat /\ run.count > 0
  BY DEF Segment
<1>2. /\ q \in PollState /\ q.cursor = run.start /\ q.remaining = run.count
      /\ q.pos = run.start + run.count + 1
  <2>1. run.start + run.count + 1 \in Nat /\ <<>> \in Seq(Segment)
    BY <1>1
  <2> QED
    BY <1>1, <2>1 DEF PollState
<1>3. NextRun(r, run) = NextBatch(r, q)
  BY DEF NextRun
<1> HIDE DEF q
<1> QED
  BY <1>1, <1>2, <1>3, NextBatchFacts

-----------------------------------------------------------------------------
(* Proceed leaves a typed state in which a polling task has a request out. *)
LEMMA ProceedType ==
  ASSUME NEW r \in Ranges, NEW p \in PollState, NEW gone,
         phase \in [Ranges -> Phase], poll \in [Ranges -> PollState],
         Proceed(r, p, gone)
  PROVE  /\ phase' \in [Ranges -> Phase]
         /\ poll' \in [Ranges -> PollState]
         /\ \A s \in Ranges \ {r} : phase'[s] = phase[s] /\ poll'[s] = poll[s]
         /\ phase'[r] = "polling" => poll'[r].stack # <<>>
<1>1. ASSUME NEW q \in PollState, q.stack # <<>>, Wait(r, q)
      PROVE  /\ phase' \in [Ranges -> Phase]
             /\ poll' \in [Ranges -> PollState]
             /\ \A s \in Ranges \ {r} : phase'[s] = phase[s] /\ poll'[s] = poll[s]
             /\ phase'[r] = "polling" => poll'[r].stack # <<>>
  BY <1>1 DEF Wait, Phase
<1>2. CASE p.stack # <<>> /\ Wait(r, p)
  BY <1>1, <1>2
<1>3. CASE p.remaining > 0 /\ Wait(r, NextBatch(r, p))
  <2>1. PICK k \in 1 .. p.remaining :
          /\ NextBatch(r, p) = [stack |-> <<Seg(p.cursor, k)>>, cursor |-> p.cursor + k,
                                remaining |-> p.remaining - k, pos |-> p.pos]
          /\ NextBatch(r, p) \in PollState
    BY <1>3, NextBatchFacts
  <2>2. NextBatch(r, p).stack # <<>>
    BY <2>1
  <2> QED
    BY <1>1, <1>3, <2>1, <2>2
<1>4. CASE \E run \in LiveSubRange(r, p.pos, gone) : Wait(r, NextRun(r, run))
  <2> PICK run \in LiveSubRange(r, p.pos, gone) : Wait(r, NextRun(r, run))
    BY <1>4
  <2>1. p.pos \in Nat
    BY DEF PollState
  <2>2. run \in Segment
    BY <2>1, LiveSubRangeFacts
  <2>3. PICK k \in 1 .. run.count :
          /\ NextRun(r, run) = [stack |-> <<Seg(run.start, k)>>, cursor |-> run.start + k,
                                   remaining |-> run.count - k,
                                   pos |-> run.start + run.count + 1]
          /\ NextRun(r, run) \in PollState
    BY <2>2, NextRunFacts
  <2>4. NextRun(r, run).stack # <<>>
    BY <2>3
  <2> QED
    BY <1>1, <2>3, <2>4
<1>5. AtRest \in PollState
  BY DEF AtRest, PollState
<1>6. CASE Sleep(r, "ok")
  BY <1>5, <1>6 DEF Sleep, Phase
<1> QED
  BY <1>2, <1>3, <1>4, <1>6 DEF Proceed

LEMMA OverlayType ==
  ASSUME NEW V, NEW f \in [Address -> V], NEW g \in [Address -> V], NEW S
  PROVE  Overlay(f, g, S) \in [Address -> V]
BY DEF Overlay

LEMMA StackUpdate ==
  ASSUME NEW p \in PollState, NEW st \in Seq(Segment)
  PROVE  [p EXCEPT !.stack = st] = [stack |-> st, cursor |-> p.cursor,
                                    remaining |-> p.remaining, pos |-> p.pos]
BY DEF PollState

(* The request in flight, and what is left when it has been answered. *)
LEMMA InFlightType ==
  ASSUME TypeOK, Waiting, NEW r \in Ranges, Polling(r)
  PROVE  /\ InFlight(r) \in Segment
         /\ InFlight(r) = poll[r].stack[1]
         /\ InFlight(r).start \in Nat
         /\ InFlight(r).count \in Nat /\ InFlight(r).count > 0
         /\ Answered(r) = [stack |-> Tail(poll[r].stack), cursor |-> poll[r].cursor,
                           remaining |-> poll[r].remaining, pos |-> poll[r].pos]
         /\ Answered(r) \in PollState
<1>1. poll[r] \in PollState /\ poll[r].stack # <<>>
  BY DEF TypeOK, Waiting
<1>2. /\ poll[r] = [stack |-> poll[r].stack, cursor |-> poll[r].cursor,
                    remaining |-> poll[r].remaining, pos |-> poll[r].pos]
      /\ poll[r].stack \in Seq(Segment)
      /\ poll[r].cursor \in Nat /\ poll[r].remaining \in Nat /\ poll[r].pos \in Nat
  BY <1>1 DEF PollState
<1>3. InFlight(r) \in Segment /\ InFlight(r) = poll[r].stack[1]
  BY <1>1, <1>2, PopStack DEF InFlight
<1>4. /\ InFlight(r).start \in Nat
      /\ InFlight(r).count \in Nat /\ InFlight(r).count > 0
  BY <1>3 DEF Segment
<1>5. Tail(poll[r].stack) \in Seq(Segment)
  BY <1>1, <1>2, PopStack
<1>6. Answered(r) = [stack |-> Tail(poll[r].stack), cursor |-> poll[r].cursor,
                     remaining |-> poll[r].remaining, pos |-> poll[r].pos]
  BY <1>1, <1>5, StackUpdate DEF Answered
<1> QED
  BY <1>2, <1>3, <1>4, <1>5, <1>6 DEF PollState

(* The new frames after a bisection: both halves are proper requests. *)
LEMMA BisectType ==
  ASSUME TypeOK, Waiting, NEW r \in Ranges, Polling(r), InFlight(r).count > 1
  PROVE  LET g == InFlight(r)
             half == g.count \div 2
             st == <<Seg(g.start, half), Seg(g.start + half, g.count - half)>>
                     \o Tail(poll[r].stack)
         IN  /\ half \in Nat /\ half > 0 /\ half < g.count
             /\ Seg(g.start, half) \in Segment
             /\ Seg(g.start + half, g.count - half) \in Segment
             /\ [poll[r] EXCEPT !.stack =
                   <<Seg(g.start, half), Seg(g.start + half, g.count - half)>> \o Tail(@)]
                = [stack |-> st, cursor |-> poll[r].cursor,
                   remaining |-> poll[r].remaining, pos |-> poll[r].pos]
             /\ st \in Seq(Segment) /\ st # <<>>
<1> DEFINE g == InFlight(r)
           half == g.count \div 2
           x == Seg(g.start, half)
           y == Seg(g.start + half, g.count - half)
           st == <<x, y>> \o Tail(poll[r].stack)
<1>1. poll[r] \in PollState /\ poll[r].stack # <<>> /\ poll[r].stack \in Seq(Segment)
  BY DEF TypeOK, Waiting, PollState
<1>2. g.start \in Nat /\ g.count \in Nat /\ g.count > 1
  BY InFlightType
<1>3. half \in Nat /\ half > 0 /\ half < g.count
  <2> HIDE DEF g
  <2> QED
    BY <1>2
<1>4. x \in Segment /\ y \in Segment
  <2> HIDE DEF g, half
  <2> QED
    BY <1>2, <1>3 DEF Seg, Segment
<1>5. st \in Seq(Segment) /\ st # <<>>
  <2> HIDE DEF x, y
  <2> QED
    BY <1>1, <1>4, SplitStack
<1>6. [poll[r] EXCEPT !.stack = <<x, y>> \o Tail(@)]
        = [stack |-> st, cursor |-> poll[r].cursor,
           remaining |-> poll[r].remaining, pos |-> poll[r].pos]
  <2> HIDE DEF x, y
  <2> QED
    BY <1>1, <1>5, StackUpdate
<1> QED
  BY <1>3, <1>4, <1>5, <1>6

TypeInv == TypeOK /\ Waiting

LEMMA NoReplyType == NoReply \in Reply
BY DEF NoReply, Reply, Blank

(* Where an answer comes from and where it goes leaves the others alone.   *)
LEMMA ReplyType ==
  ASSUME TypeOK, NEW r \in Ranges
  PROVE  /\ reply' = [reply EXCEPT ![r] = NoReply] =>
              /\ reply' \in [Ranges -> Reply] /\ reply'[r] = NoReply
              /\ \A s \in Ranges \ {r} : reply'[s] = reply[s]
         /\ TakeSample(r) =>
              /\ reply' \in [Ranges -> Reply] /\ reply'[r] # NoReply
              /\ \A s \in Ranges \ {r} : reply'[s] = reply[s]
<1>1. /\ BankOf(r) \in Bank /\ reply \in [Ranges -> Reply]
      /\ dev[BankOf(r)] \in [Address -> Value]
  BY SettingsType DEF TypeOK
<1>2. reply' = [reply EXCEPT ![r] = NoReply] =>
        /\ reply' \in [Ranges -> Reply] /\ reply'[r] = NoReply
        /\ \A s \in Ranges \ {r} : reply'[s] = reply[s]
  BY <1>1, NoReplyType
<1>3. ASSUME NEW kind \in {"values", "illegal", "refused"},
             NEW words \in [Address -> Value \cup {NoValue}], Says(r, kind, words)
      PROVE  /\ reply' \in [Ranges -> Reply] /\ reply'[r] # NoReply
             /\ \A s \in Ranges \ {r} : reply'[s] = reply[s]
  <2>1. [kind |-> kind, words |-> words] \in Reply
    BY DEF Reply
  <2>2. [kind |-> kind, words |-> words] # NoReply
    BY DEF NoReply
  <2>3. reply' = [reply EXCEPT ![r] = [kind |-> kind, words |-> words]]
    BY <1>3 DEF Says
  <2> QED
    BY <1>1, <2>1, <2>2, <2>3
<1>4. Blank \in [Address -> Value \cup {NoValue}]
  BY DEF Blank
<1>5. Overlay(Blank, dev[BankOf(r)], Span(InFlight(r))) \in [Address -> Value \cup {NoValue}]
  <2>1. dev[BankOf(r)] \in [Address -> Value \cup {NoValue}]
    BY <1>1
  <2> QED
    BY <1>4, <2>1, OverlayType
<1>6. TakeSample(r) =>
        /\ reply' \in [Ranges -> Reply] /\ reply'[r] # NoReply
        /\ \A s \in Ranges \ {r} : reply'[s] = reply[s]
  BY <1>3, <1>4, <1>5 DEF TakeSample
<1> QED
  BY <1>2, <1>6

LEMMA TypeInit == Init => TypeInv
<1> SUFFICES ASSUME Init PROVE TypeInv
  OBVIOUS
<1>1. AtRest \in PollState
  BY DEF AtRest, PollState
<1>2. Blank \in [Address -> Value \cup {NoValue}]
  BY DEF Blank
<1>3. TypeOK
  BY <1>1, <1>2, NoReplyType, ScannerAssumption DEF Init, TypeOK, Phase
<1>4. Waiting
  BY DEF Init, Waiting, Polling
<1> QED
  BY <1>3, <1>4 DEF TypeInv

(* The parts of the state that the answers write. *)
LEMMA TypeOfAnswer ==
  ASSUME TypeOK, NEW r \in Ranges, NEW S
  PROVE  /\ [cache EXCEPT ![r] = Overlay(@, Words(r), S)]
              \in [Ranges -> [Address -> Value \cup {NoValue}]]
         /\ [latest EXCEPT ![BankOf(r)] = Overlay(@, Words(r), S)]
              \in [Bank -> [Address -> Value \cup {NoValue}]]
         /\ [seen EXCEPT ![BankOf(r)] = Overlay(@, Words(r), S)]
              \in [Bank -> [Address -> Value \cup {NoValue}]]
<1>1. BankOf(r) \in Bank
  BY SettingsType
<1>2. Words(r) \in [Address -> Value \cup {NoValue}]
  BY DEF TypeOK, Words, Reply
<1>3. /\ Overlay(cache[r], Words(r), S) \in [Address -> Value \cup {NoValue}]
      /\ Overlay(latest[BankOf(r)], Words(r), S) \in [Address -> Value \cup {NoValue}]
      /\ Overlay(seen[BankOf(r)], Words(r), S) \in [Address -> Value \cup {NoValue}]
  BY <1>1, <1>2, OverlayType DEF TypeOK
<1> QED
  BY <1>1, <1>3 DEF TypeOK

LEMMA SleepType ==
  ASSUME NEW r \in Ranges, NEW outcome \in {"ok", "failed"},
         phase \in [Ranges -> Phase], poll \in [Ranges -> PollState],
         Sleep(r, outcome)
  PROVE  /\ phase' \in [Ranges -> Phase]
         /\ poll' \in [Ranges -> PollState]
         /\ \A s \in Ranges \ {r} : phase'[s] = phase[s] /\ poll'[s] = poll[s]
         /\ phase'[r] = outcome
<1>1. AtRest \in PollState
  BY DEF AtRest, PollState
<1> QED
  BY <1>1 DEF Sleep, Phase

(* What every action of a range says of tasks, and what follows for Waiting. *)
LEMMA WaitingStep ==
  ASSUME TypeInv, NEW r \in Ranges,
         \A s \in Ranges \ {r} : phase'[s] = phase[s] /\ poll'[s] = poll[s],
         phase'[r] = "polling" => poll'[r].stack # <<>>
  PROVE  Waiting'
BY DEF TypeInv, Waiting, Polling

(* A polling task asks only for addresses of its own range. *)
LEMMA InFlightCovered ==
  ASSUME TypeInv, PollInv, NEW r \in Ranges, Polling(r)
  PROVE  Span(InFlight(r)) \subseteq Covered(r)
<1> DEFINE p == poll[r]
           g == InFlight(r)
<1>1. p.stack # <<>> /\ p.stack \in Seq(Segment)
  BY DEF TypeInv, TypeOK, Waiting, PollState
<1>2. p.cursor \in Nat /\ p.remaining \in Nat
  BY DEF TypeInv, TypeOK, PollState
<1>3. g = p.stack[1] /\ g = Head(p.stack)
  BY InFlightType DEF TypeInv, InFlight
<1>4. g.start \in Nat /\ g.count \in Nat
  BY InFlightType DEF TypeInv
<1>5. Len(p.stack) \in Nat /\ Len(p.stack) >= 1
  BY <1>1, PopStack
<1>6. StackInv(r, p) /\ RunInv(r, p, fresh[r], skip[r], dead[BankOf(r)])
  BY DEF PollInv, RangeInv, WaitInv
<1>7. g.start + g.count <= p.cursor
  BY <1>3, <1>5, <1>6 DEF StackInv
<1>8. ScanRange[r].start <= g.start /\ p.cursor + p.remaining <= End(r)
  BY <1>1, <1>3, <1>6 DEF RunInv, Frontier
<1>9. /\ ScanRange[r].start \in Nat /\ ScanRange[r].count \in Nat
      /\ End(r) = ScanRange[r].start + ScanRange[r].count
  BY SettingsType
<1> HIDE DEF p, g
<1>10. Span(g) \subseteq Covered(r)
  BY <1>2, <1>4, <1>7, <1>8, <1>9 DEF Span, Covered
<1> QED
  BY <1>10 DEF g

(* What a short answer brings is a part of what was asked for. *)
LEMMA PrefixInSpan ==
  ASSUME TypeInv, NEW r \in Ranges, Polling(r), NEW n \in 1 .. (InFlight(r).count - 1)
  PROVE  InFlight(r).start .. (InFlight(r).start + n - 1) \subseteq Span(InFlight(r))
<1>1. InFlight(r).start \in Nat /\ InFlight(r).count \in Nat
  BY InFlightType DEF TypeInv
<1> QED
  BY <1>1 DEF Span

LEMMA TypeStep == TypeInv /\ PollInv /\ [Next]_vars => TypeInv'
<1> SUFFICES ASSUME TypeInv, PollInv, [Next]_vars PROVE TypeInv'
  OBVIOUS
<1> USE DEF TypeInv
<1>1. ASSUME NEW r \in Ranges, BeginPoll(r) PROVE TypeInv'
  <2>1. AtStart(r) \in PollState
    <3>1. <<>> \in Seq(Segment) /\ ScanRange[r].start \in Nat
      BY SettingsType
    <3> QED
      BY <3>1 DEF AtStart, PollState
  <2>2. /\ phase' \in [Ranges -> Phase] /\ poll' \in [Ranges -> PollState]
        /\ \A s \in Ranges \ {r} : phase'[s] = phase[s] /\ poll'[s] = poll[s]
        /\ phase'[r] = "polling" => poll'[r].stack # <<>>
    BY <1>1, <2>1, ProceedType DEF BeginPoll, TypeOK
  <2>3. dead[BankOf(r)] \in SUBSET Address
    BY SettingsType DEF TypeOK
  <2>4. fresh' \in [Ranges -> SUBSET Address] /\ skip' \in [Ranges -> SUBSET Address]
    BY <1>1, <2>3 DEF BeginPoll, TypeOK
  <2>5. TypeOK'
    BY <1>1, <2>2, <2>4 DEF BeginPoll, TypeOK, budgets
  <2> QED
    BY <2>2, <2>5, WaitingStep
<1>2. ASSUME NEW r \in Ranges, ReadValues(r) PROVE TypeInv'
  <2>0. Polling(r) /\ reply' \in [Ranges -> Reply]
    BY <1>2, ReplyType DEF ReadValues, Resumes
  <2>1. Answered(r) \in PollState
    BY <2>0, InFlightType
  <2>2. /\ phase' \in [Ranges -> Phase] /\ poll' \in [Ranges -> PollState]
        /\ \A s \in Ranges \ {r} : phase'[s] = phase[s] /\ poll'[s] = poll[s]
        /\ phase'[r] = "polling" => poll'[r].stack # <<>>
    BY <1>2, <2>1, ProceedType DEF ReadValues, TypeOK
  <2>3. /\ cache' \in [Ranges -> [Address -> Value \cup {NoValue}]]
        /\ latest' \in [Bank -> [Address -> Value \cup {NoValue}]]
        /\ seen' \in [Bank -> [Address -> Value \cup {NoValue}]]
    BY <1>2, TypeOfAnswer DEF ReadValues
  <2>4. Span(InFlight(r)) \subseteq Address
    BY <2>0, ScannerAssumption, InFlightCovered
  <2>5. fresh' \in [Ranges -> SUBSET Address]
    BY <1>2, <2>4 DEF ReadValues, TypeOK
  <2>6. TypeOK'
    BY <1>2, <2>0, <2>2, <2>3, <2>5 DEF ReadValues, TypeOK, budgets
  <2> QED
    BY <2>2, <2>6, WaitingStep
<1>3. ASSUME NEW r \in Ranges, SinkRaises(r) PROVE TypeInv'
  <2>0. Polling(r) /\ reply' \in [Ranges -> Reply]
    BY <1>3, ReplyType DEF SinkRaises, Resumes
  <2>1. /\ phase' \in [Ranges -> Phase] /\ poll' \in [Ranges -> PollState]
        /\ \A s \in Ranges \ {r} : phase'[s] = phase[s] /\ poll'[s] = poll[s]
        /\ phase'[r] = "failed"
    BY <1>3, SleepType DEF SinkRaises, TypeOK
  <2>2. /\ cache' \in [Ranges -> [Address -> Value \cup {NoValue}]]
        /\ latest' \in [Bank -> [Address -> Value \cup {NoValue}]]
        /\ seen' \in [Bank -> [Address -> Value \cup {NoValue}]]
    <3>1. PICK S, T :
            /\ cache' = [cache EXCEPT ![r] = Overlay(@, Words(r), S)]
            /\ latest' = [latest EXCEPT ![BankOf(r)] = Overlay(@, Words(r), T)]
      BY <1>3 DEF SinkRaises
    <3>2. seen' = [seen EXCEPT ![BankOf(r)] = Overlay(@, Words(r), Span(InFlight(r)))]
      BY <1>3 DEF SinkRaises
    <3> QED
      BY <3>1, <3>2, TypeOfAnswer
  <2>3. Span(InFlight(r)) \subseteq Address
    BY <2>0, ScannerAssumption, InFlightCovered
  <2>4. fresh' \in [Ranges -> SUBSET Address]
    BY <1>3, <2>3 DEF SinkRaises, TypeOK
  <2>5. sinkFailures' \in 0 .. MaxSinkFailures
    BY <1>3, ScannerAssumption DEF SinkRaises, TypeOK
  <2>6. TypeOK'
    BY <1>3, <2>0, <2>1, <2>2, <2>4, <2>5 DEF SinkRaises, TypeOK
  <2> QED
    BY <2>1, <2>6, WaitingStep
<1>4. ASSUME NEW r \in Ranges, Bisect(r) PROVE TypeInv'
  <2>0. Polling(r) /\ reply' \in [Ranges -> Reply]
    BY <1>4, ReplyType DEF Bisect, Resumes
  <2> DEFINE g == InFlight(r)
             half == g.count \div 2
             st == <<Seg(g.start, half), Seg(g.start + half, g.count - half)>>
                     \o Tail(poll[r].stack)
             q == [stack |-> st, cursor |-> poll[r].cursor,
                   remaining |-> poll[r].remaining, pos |-> poll[r].pos]
  <2>1. st \in Seq(Segment) /\ st # <<>> /\ Wait(r, q)
    BY <1>4, <2>0, BisectType DEF Bisect
  <2> HIDE DEF st
  <2>2. q \in PollState
    BY <2>1 DEF TypeOK, PollState
  <2>3. q.stack # <<>>
    BY <2>1
  <2> HIDE DEF q
  <2>4. /\ phase' \in [Ranges -> Phase] /\ poll' \in [Ranges -> PollState]
        /\ \A s \in Ranges \ {r} : phase'[s] = phase[s] /\ poll'[s] = poll[s]
        /\ phase'[r] = "polling" => poll'[r].stack # <<>>
    BY <2>1, <2>2, <2>3 DEF Wait, Phase, TypeOK
  <2>5. TypeOK'
    BY <1>4, <2>0, <2>4 DEF Bisect, TypeOK, budgets, history
  <2> QED
    BY <2>4, <2>5, WaitingStep
<1>5. ASSUME NEW r \in Ranges, MarkDead(r) PROVE TypeInv'
  <2>0. Polling(r) /\ reply' \in [Ranges -> Reply]
    BY <1>5, ReplyType DEF MarkDead, Resumes
  <2>1. Answered(r) \in PollState
    BY <2>0, InFlightType
  <2>2. /\ phase' \in [Ranges -> Phase] /\ poll' \in [Ranges -> PollState]
        /\ \A s \in Ranges \ {r} : phase'[s] = phase[s] /\ poll'[s] = poll[s]
        /\ phase'[r] = "polling" => poll'[r].stack # <<>>
    BY <1>5, <2>1, ProceedType DEF MarkDead, TypeOK
  <2>3. dead' \in [Bank -> SUBSET Address]
    <3>1. InFlight(r).start \in Address
      BY <1>5, <2>0, InFlightCovered, InFlightType, ScannerAssumption DEF MarkDead, Span
    <3> QED
      BY <1>5, <3>1, SettingsType DEF MarkDead, TypeOK
  <2>4. TypeOK'
    BY <1>5, <2>0, <2>2, <2>3 DEF MarkDead, TypeOK, budgets, history
  <2> QED
    BY <2>2, <2>4, WaitingStep
<1>6. ASSUME NEW r \in Ranges, ReadFails(r) PROVE TypeInv'
  <2>0. Polling(r) /\ reply' \in [Ranges -> Reply]
    BY <1>6, ReplyType DEF ReadFails, Resumes
  <2>1. /\ phase' \in [Ranges -> Phase] /\ poll' \in [Ranges -> PollState]
        /\ \A s \in Ranges \ {r} : phase'[s] = phase[s] /\ poll'[s] = poll[s]
        /\ phase'[r] = "failed"
    BY <1>6, SleepType DEF ReadFails, TypeOK
  <2>2. readFailures' \in 0 .. MaxReadFailures
    BY <1>6, ScannerAssumption DEF ReadFails, TypeOK
  <2>3. TypeOK'
    BY <1>6, <2>0, <2>1, <2>2 DEF ReadFails, TypeOK, history
  <2> QED
    BY <2>1, <2>3, WaitingStep
<1>7. ASSUME NEW r \in Ranges, ShortAnswer(r) PROVE TypeInv'
  <2>0. Polling(r) /\ reply' \in [Ranges -> Reply]
    BY <1>7, ReplyType DEF ShortAnswer, Resumes
  <2>1. /\ phase' \in [Ranges -> Phase] /\ poll' \in [Ranges -> PollState]
        /\ \A s \in Ranges \ {r} : phase'[s] = phase[s] /\ poll'[s] = poll[s]
        /\ phase'[r] = "failed"
    BY <1>7, SleepType DEF ShortAnswer, TypeOK
  <2>2. PICK n \in 1 .. (InFlight(r).count - 1) :
          LET got == InFlight(r).start .. (InFlight(r).start + n - 1)
          IN  /\ cache' = [cache EXCEPT ![r] = Overlay(@, Words(r), Changed(r) \cap got)]
              /\ latest' = [latest EXCEPT ![BankOf(r)] =
                              Overlay(@, Words(r), Changed(r) \cap got)]
              /\ fresh' = [fresh EXCEPT ![r] = @ \cup got]
              /\ seen' = [seen EXCEPT ![BankOf(r)] = Overlay(@, Words(r), got)]
    BY <1>7 DEF ShortAnswer
  <2> DEFINE got == InFlight(r).start .. (InFlight(r).start + n - 1)
  <2>3. /\ cache' \in [Ranges -> [Address -> Value \cup {NoValue}]]
        /\ latest' \in [Bank -> [Address -> Value \cup {NoValue}]]
        /\ seen' \in [Bank -> [Address -> Value \cup {NoValue}]]
    <3> HIDE DEF got
    <3> QED
      BY <2>2, TypeOfAnswer DEF got
  <2>4. got \subseteq Address
    BY <2>0, ScannerAssumption, InFlightCovered, PrefixInSpan
  <2>5. fresh' \in [Ranges -> SUBSET Address]
    BY <2>2, <2>4 DEF TypeOK
  <2>6. readFailures' \in 0 .. MaxReadFailures
    BY <1>7, ScannerAssumption DEF ShortAnswer, TypeOK
  <2>7. TypeOK'
    BY <1>7, <2>0, <2>1, <2>3, <2>5, <2>6 DEF ShortAnswer, TypeOK
  <2> QED
    BY <2>1, <2>7, WaitingStep
<1>8. ASSUME NEW r \in Ranges, DeviceRefuses(r) PROVE TypeInv'
  <2>0. Polling(r) /\ reply' \in [Ranges -> Reply]
    BY <1>8, ReplyType DEF DeviceRefuses, Resumes
  <2>1. /\ phase' \in [Ranges -> Phase] /\ poll' \in [Ranges -> PollState]
        /\ \A s \in Ranges \ {r} : phase'[s] = phase[s] /\ poll'[s] = poll[s]
        /\ phase'[r] = "failed"
    BY <1>8, SleepType DEF DeviceRefuses, TypeOK
  <2>2. TypeOK'
    BY <1>8, <2>0, <2>1 DEF DeviceRefuses, TypeOK, history, budgets
  <2> QED
    BY <2>1, <2>2, WaitingStep
<1>9. CASE DeviceStarts
  <2>1. answers' \in [Bank -> SUBSET Address]
    BY <1>9, ScannerAssumption DEF DeviceStarts, TypeOK
  <2> QED
    BY <1>9, <2>1 DEF DeviceStarts, TypeOK, Waiting, Polling, history, budgets
<1>10. CASE DeviceChanges
  <2>1. dev' \in [Bank -> [Address -> Value]]
    <3>1. PICK b \in Bank, a \in Address, v \in Value : dev' = [dev EXCEPT ![b][a] = v]
      BY <1>10, ScannerAssumption DEF DeviceChanges
    <3>3. [dev[b] EXCEPT ![a] = v] \in [Address -> Value]
      BY DEF TypeOK
    <3> QED
      BY <3>1, <3>3 DEF TypeOK
  <2>2. changes' \in 0 .. MaxChanges
    BY <1>10, ScannerAssumption DEF DeviceChanges, TypeOK
  <2> QED
    BY <1>10, <2>1, <2>2 DEF DeviceChanges, TypeOK, Waiting, Polling, history
<1>11. CASE UNCHANGED vars
  BY <1>11 DEF vars, TypeOK, Waiting, Polling
<1>12. ASSUME NEW r \in Ranges, DeviceAnswers(r) PROVE TypeInv'
  <2>1. reply' \in [Ranges -> Reply]
    BY <1>12, ReplyType DEF DeviceAnswers
  <2> QED
    BY <1>12, <2>1 DEF DeviceAnswers, TakeSample, TypeOK, Waiting, Polling, history, budgets
<1> QED
  BY <1>1, <1>2, <1>3, <1>4, <1>5, <1>6, <1>7, <1>8, <1>9, <1>10, <1>11, <1>12
     DEF Next, RangeStep, TakeAnswer

-----------------------------------------------------------------------------
(* A batch of k addresses just asked for, the first of m still in the run. *)
LEMMA BatchInv ==
  ASSUME NEW r \in Ranges, NEW F \in SUBSET Nat, NEW S, NEW D, NEW c \in Nat, NEW m \in Nat,
         NEW k \in 1 .. m, k <= ScanRange[r].batch,
         ScanRange[r].start <= c, c + m <= End(r),
         c + m < End(r) => c + m \in D,
         \A a \in c .. (c + m - 1) : a \notin S,
         Settled(r, c, F, D)
  PROVE  WaitInv(r, [stack |-> <<Seg(c, k)>>, cursor |-> c + k, remaining |-> m - k,
                     pos |-> c + m + 1], F, S, D)
<1> DEFINE st == <<Seg(c, k)>>
           q == [stack |-> st, cursor |-> c + k, remaining |-> m - k, pos |-> c + m + 1]
<1>1. /\ st # <<>> /\ Len(st) = 1 /\ Head(st) = st[1]
      /\ st[1].start = c /\ st[1].count = k
  BY DEF Seg
<1> HIDE DEF st
<1>2. /\ q.stack = st /\ q.cursor = c + k /\ q.remaining = m - k /\ q.pos = c + m + 1
  OBVIOUS
<1> HIDE DEF q
<1>3. StackInv(r, q)
  <2>1. \A i \in 1 .. Len(st) : i = 1
    BY <1>1
  <2>2. \A i \in 1 .. Len(st) : /\ st[i].count <= ScanRange[r].batch
                                /\ st[i].start + st[i].count <= c + k
    BY <1>1, <2>1
  <2>3. \A i \in 1 .. (Len(st) - 1) : st[i].start + st[i].count = st[i+1].start
    BY <1>1
  <2> QED
    BY <1>1, <1>2, <2>2, <2>3 DEF StackInv
<1>4. Frontier(q) = c
  BY <1>1, <1>2 DEF Frontier
<1>5. q.cursor + q.remaining = c + m
  BY <1>2
<1>6. RunInv(r, q, F, S, D)
  BY <1>2, <1>4, <1>5 DEF RunInv
<1> QED
  BY <1>1, <1>2, <1>3, <1>6 DEF WaitInv, q, st

(* A set of natural numbers has a least element. *)
LEMMA LeastNatural ==
  ASSUME NEW T \in SUBSET Nat, T # {}
  PROVE  \E x \in T : \A y \in T : x <= y
<1> DEFINE R == OpToRel(<, Nat)
<1>1. IsWellFoundedOn(R, Nat)
  BY NatLessThanWellFounded
<1>2. \A x, y \in Nat : x < y => <<x, y>> \in R
  BY DEF OpToRel
<1> HIDE DEF R
<1>3. \E x \in T : \A y \in T : ~ (<<y, x>> \in R)
  BY <1>1, WFMin, Zenon
<1>4. PICK x \in T : \A y \in T : ~ (<<y, x>> \in R)
  BY <1>3
<1>5. \A y \in T : ~(y < x)
  BY <1>2, <1>4
<1>6. \A y \in T : x <= y
  BY <1>5
<1> QED
  BY <1>6

(* When the generator has nothing to yield, all that was left is dead.     *)
LEMMA NothingLeft ==
  ASSUME NEW r \in Ranges, NEW pos \in Nat, NEW gone, ScanRange[r].start <= pos,
         LiveSubRange(r, pos, gone) = {}
  PROVE  \A a \in pos .. (End(r) - 1) : a \in gone
<1> SUFFICES ASSUME NEW x \in pos .. (End(r) - 1), x \notin gone PROVE FALSE
  OBVIOUS
<1>1. /\ End(r) \in Nat /\ ScanRange[r].start \in Nat /\ ScanRange[r].count \in Nat
      /\ End(r) = ScanRange[r].start + ScanRange[r].count
  BY SettingsType
<1> DEFINE live == {a \in pos .. (End(r) - 1) : a \notin gone}
<1>2. live \in SUBSET Nat /\ live # {}
  BY <1>1
<1>3. PICK s \in live : \A a \in live : s <= a
  BY <1>2, LeastNatural
<1>4. s \in Nat /\ pos <= s /\ s < End(r) /\ s \notin gone
  BY <1>1, <1>3
<1>5. \A a \in pos .. (s - 1) : a \in gone
  BY <1>1, <1>3, <1>4
<1> DEFINE stop == {e \in s .. End(r) : e = End(r) \/ e \in gone}
<1>6. stop \in SUBSET Nat /\ stop # {}
  BY <1>1, <1>4
<1>7. PICK e \in stop : \A a \in stop : e <= a
  BY <1>6, LeastNatural
<1>8. e \in Nat /\ s < e /\ e <= End(r) /\ (e = End(r) \/ e \in gone)
  BY <1>1, <1>4, <1>7
<1>9. \A a \in s .. (e - 1) : a \notin gone
  BY <1>1, <1>4, <1>7, <1>8
<1> DEFINE n == e - s
           run == Seg(s, n)
<1>10. n \in 1 .. ScanRange[r].count /\ s + n = e /\ s \in pos .. End(r)
  BY <1>1, <1>4, <1>8
<1> HIDE DEF live, stop, n
<1>11. run.start = s /\ run.count = n
  BY DEF Seg
<1>12. run \in {Seg(i, k) : i \in pos .. End(r), k \in 1 .. ScanRange[r].count}
  BY <1>10
<1> HIDE DEF run
<1>13. run \in LiveSubRange(r, pos, gone)
  BY <1>5, <1>8, <1>9, <1>10, <1>11, <1>12 DEF LiveSubRange, Span
<1> QED
  BY <1>13

(* What a poll satisfies when its request in flight has been dealt with.    *)
Resumable(r, p, F, S, D) ==
  /\ p.stack # <<>> => WaitInv(r, p, F, S, D)
  /\ p.stack = <<>> /\ p.remaining > 0 => RunInv(r, p, F, S, D)
  /\ p.stack = <<>> /\ p.remaining = 0 => BetweenRuns(r, p, F, D)

(* Whatever the poll does next, the invariant of the range holds there. *)
LEMMA ProceedInv ==
  ASSUME NEW r \in Ranges, NEW p \in PollState, NEW F \in SUBSET Nat, NEW S, NEW D,
         S \subseteq D, phase \in [Ranges -> Phase], poll \in [Ranges -> PollState],
         Proceed(r, p, D), Resumable(r, p, F, S, D)
  PROVE  /\ phase'[r] = "polling" => WaitInv(r, poll'[r], F, S, D)
         /\ phase'[r] = "ok" => Covered(r) \subseteq F \cup D
<1>0. /\ p.stack # <<>> => WaitInv(r, p, F, S, D)
      /\ p.stack = <<>> /\ p.remaining > 0 => RunInv(r, p, F, S, D)
      /\ p.stack = <<>> /\ p.remaining = 0 => BetweenRuns(r, p, F, D)
  BY DEF Resumable
<1>1. p.cursor \in Nat /\ p.remaining \in Nat /\ p.pos \in Nat
  BY DEF PollState
<1>2. CASE p.stack # <<>> /\ Wait(r, p)
  BY <1>0, <1>2 DEF Wait
<1>3. CASE p.stack = <<>> /\ p.remaining > 0 /\ Wait(r, NextBatch(r, p))
  <2>1. PICK k \in 1 .. p.remaining :
          /\ k <= ScanRange[r].batch
          /\ NextBatch(r, p) = [stack |-> <<Seg(p.cursor, k)>>, cursor |-> p.cursor + k,
                                remaining |-> p.remaining - k, pos |-> p.pos]
    BY <1>3, NextBatchFacts
  <2>2. RunInv(r, p, F, S, D) /\ Frontier(p) = p.cursor
    BY <1>0, <1>3 DEF Frontier
  <2>3. /\ ScanRange[r].start <= p.cursor /\ p.cursor + p.remaining <= End(r)
        /\ p.cursor + p.remaining < End(r) => p.cursor + p.remaining \in D
        /\ \A a \in p.cursor .. (p.cursor + p.remaining - 1) : a \notin S
        /\ Settled(r, p.cursor, F, D)
        /\ p.pos = p.cursor + p.remaining + 1
    BY <2>2 DEF RunInv
  <2>4. NextBatch(r, p) = [stack |-> <<Seg(p.cursor, k)>>, cursor |-> p.cursor + k,
                           remaining |-> p.remaining - k, pos |-> p.cursor + p.remaining + 1]
    BY <2>1, <2>3
  <2>5. WaitInv(r, [stack |-> <<Seg(p.cursor, k)>>, cursor |-> p.cursor + k,
                    remaining |-> p.remaining - k, pos |-> p.cursor + p.remaining + 1], F, S, D)
    BY <1>1, <2>1, <2>3, BatchInv, Zenon
  <2>6. WaitInv(r, NextBatch(r, p), F, S, D)
    BY <2>4, <2>5
  <2> QED
    BY <1>3, <2>6 DEF Wait
<1>4. CASE /\ p.stack = <<>> /\ p.remaining = 0
           /\ \E run \in LiveSubRange(r, p.pos, D) : Wait(r, NextRun(r, run))
  <2> PICK run \in LiveSubRange(r, p.pos, D) : Wait(r, NextRun(r, run))
    BY <1>4
  <2> DEFINE c == run.start
             m == run.count
  <2>1. /\ run \in Segment /\ c \in Nat /\ m \in Nat /\ m > 0
        /\ p.pos <= c /\ c + m <= End(r)
        /\ \A a \in p.pos .. (c - 1) : a \in D
        /\ \A a \in c .. (c + m - 1) : a \notin D
        /\ c + m < End(r) => c + m \in D
    BY <1>1, LiveSubRangeFacts
  <2>2. PICK k \in 1 .. m :
          /\ k <= ScanRange[r].batch
          /\ NextRun(r, run) = [stack |-> <<Seg(c, k)>>, cursor |-> c + k,
                                remaining |-> m - k, pos |-> c + m + 1]
    BY <2>1, NextRunFacts
  <2>3. ScanRange[r].start <= p.pos /\ Settled(r, p.pos, F, D)
    BY <1>0, <1>4 DEF BetweenRuns
  <2> HIDE DEF c, m
  <2>4. ScanRange[r].start <= c
    BY <1>1, <2>1, <2>3, SettingsType
  <2>5. Settled(r, c, F, D)
    <3>1. \A a \in Covered(r) : a \in Nat
      BY SettingsType
    <3>2. ASSUME NEW a \in Covered(r), a < c PROVE a \in F \cup D
      <4>1. CASE a < p.pos
        BY <2>3, <4>1 DEF Settled
      <4>2. CASE ~(a < p.pos)
        BY <1>1, <2>1, <3>1, <3>2, <4>2
      <4> QED
        BY <4>1, <4>2
    <3>3. ASSUME NEW a \in F PROVE a < c
      BY <1>1, <2>1, <2>3 DEF Settled
    <3> QED
      BY <3>2, <3>3 DEF Settled
  <2>6. \A a \in c .. (c + m - 1) : a \notin S
    BY <2>1
  <2>7. WaitInv(r, NextRun(r, run), F, S, D)
    <3>1. WaitInv(r, [stack |-> <<Seg(c, k)>>, cursor |-> c + k, remaining |-> m - k,
                      pos |-> c + m + 1], F, S, D)
      BY <2>1, <2>2, <2>4, <2>5, <2>6, BatchInv, Zenon
    <3> QED
      BY <2>2, <3>1, Zenon
  <2> QED
    BY <2>7 DEF Wait
<1>5. CASE /\ p.stack = <<>> /\ p.remaining = 0
           /\ LiveSubRange(r, p.pos, D) = {} /\ Sleep(r, "ok")
  <2>1. \A a \in p.pos .. (End(r) - 1) : a \in D
    BY <1>0, <1>1, <1>5, NothingLeft DEF BetweenRuns
  <2>2. Covered(r) \subseteq F \cup D
    <3> SUFFICES ASSUME NEW a \in Covered(r) PROVE a \in F \cup D
      OBVIOUS
    <3>1. a \in Nat /\ a < End(r) /\ End(r) \in Nat
      BY SettingsType
    <3>2. a < p.pos => a \in F \cup D
      BY <1>0, <1>5 DEF BetweenRuns, Settled
    <3> QED
      BY <1>1, <2>1, <3>1, <3>2
  <2> QED
    BY <1>5, <2>2 DEF Sleep
<1> QED
  BY <1>2, <1>3, <1>4, <1>5 DEF Proceed

(* The request in flight, g, is settled: all of it is read or dead.  What  *)
(* is left of the poll satisfies the invariant from the next address on.   *)
LEMMA PopInv ==
  ASSUME NEW r \in Ranges, NEW p \in PollState, NEW F \in SUBSET Nat, NEW S, NEW D,
         NEW F2 \in SUBSET Nat, NEW D2, F \subseteq F2, D \subseteq D2,
         WaitInv(r, p, F, S, D), NEW g \in Segment, g = p.stack[1],
         \A a \in Span(g) : a \in F2 \cup D2,
         \A a \in F2 : a \in F \/ a < g.start + g.count,
         NEW q, q = [stack |-> Tail(p.stack), cursor |-> p.cursor,
                     remaining |-> p.remaining, pos |-> p.pos]
  PROVE  Resumable(r, q, F2, S, D2)
<1> DEFINE st == p.stack
           end == g.start + g.count
<1>1. p.cursor \in Nat /\ p.remaining \in Nat /\ p.pos \in Nat /\ st \in Seq(Segment)
  BY DEF PollState
<1>2. st # <<>> /\ StackInv(r, p) /\ RunInv(r, p, F, S, D)
  BY DEF WaitInv
<1>3. g.start \in Nat /\ g.count \in Nat /\ g.count > 0
  BY DEF Segment
<1>4. /\ Tail(st) \in Seq(Segment)
      /\ Len(st) \in Nat /\ Len(st) >= 1
      /\ Len(Tail(st)) = Len(st) - 1
      /\ \A i \in 1 .. (Len(st) - 1) : Tail(st)[i] = st[i+1]
      /\ Head(st) = g
  BY <1>1, <1>2, PopStack
<1>5. /\ q.stack = Tail(st) /\ q.cursor = p.cursor
      /\ q.remaining = p.remaining /\ q.pos = p.pos
  OBVIOUS
<1>6. /\ \A i \in 1 .. Len(st) : /\ st[i].count <= ScanRange[r].batch
                                 /\ st[i].start + st[i].count <= p.cursor
      /\ \A i \in 1 .. (Len(st) - 1) : st[i].start + st[i].count = st[i+1].start
      /\ st[Len(st)].start + st[Len(st)].count = p.cursor
  BY <1>2 DEF StackInv
<1>7. end \in Nat /\ end <= p.cursor
  BY <1>3, <1>4, <1>6
<1>8. Frontier(q) = end
  <2>1. CASE Tail(st) = <<>>
    <3>1. Len(st) = 1
      <4>1. Len(Tail(st)) = 0
        BY <2>1, EmptySeq
      <4>2. Len(Tail(st)) = Len(st) - 1 /\ Len(st) \in Nat
        BY <1>4
      <4> HIDE DEF st
      <4> QED
        BY <4>1, <4>2
    <3> QED
      BY <1>5, <1>6, <2>1, <3>1 DEF Frontier
  <2>2. CASE Tail(st) # <<>>
    <3>1. Len(Tail(st)) \in Nat /\ Len(Tail(st)) >= 1 /\ Head(Tail(st)) = Tail(st)[1]
      BY <1>4, <2>2, PopStack
    <3>2. Tail(st)[1] = st[2] /\ st[2].start = end
      BY <1>4, <1>6, <3>1
    <3> QED
      BY <1>5, <2>2, <3>1, <3>2 DEF Frontier
  <2> QED
    BY <2>1, <2>2
<1>9. /\ ScanRange[r].start <= g.start
      /\ p.cursor + p.remaining <= End(r)
      /\ p.pos = p.cursor + p.remaining + 1
      /\ p.cursor + p.remaining < End(r) => p.cursor + p.remaining \in D
      /\ \A a \in g.start .. (p.cursor + p.remaining - 1) : a \notin S
      /\ Settled(r, g.start, F, D)
  BY <1>2, <1>4 DEF RunInv, Frontier
<1>10. /\ ScanRange[r].start \in Nat /\ End(r) \in Nat
       /\ \A a \in Covered(r) : a \in Nat /\ a < End(r)
  BY SettingsType
<1> HIDE DEF st, end
<1>11. Settled(r, end, F2, D2)
  <2>1. ASSUME NEW a \in Covered(r), a < end PROVE a \in F2 \cup D2
    <3>1. CASE a < g.start
      BY <1>9, <3>1 DEF Settled
    <3>2. CASE ~(a < g.start)
      <4>1. a \in Span(g)
        BY <1>3, <1>10, <2>1, <3>2 DEF Span, end
      <4> QED
        BY <4>1
    <3> QED
      BY <3>1, <3>2
  <2>2. ASSUME NEW a \in F2 PROVE a < end
    <3>1. a \in F => a < g.start
      BY <1>9 DEF Settled
    <3> QED
      BY <1>3, <3>1 DEF end
  <2> QED
    BY <2>1, <2>2 DEF Settled
<1>12. RunInv(r, q, F2, S, D2)
  <2>1. ScanRange[r].start <= end /\ g.start <= end
    BY <1>3, <1>9, <1>10 DEF end
  <2>2. \A a \in end .. (p.cursor + p.remaining - 1) : a \notin S
    BY <1>1, <1>3, <1>7, <1>9, <2>1
  <2> QED
    BY <1>5, <1>7, <1>8, <1>9, <1>11, <2>1, <2>2 DEF RunInv
<1>13. q.stack # <<>> => WaitInv(r, q, F2, S, D2)
  <2> SUFFICES ASSUME Tail(st) # <<>> PROVE WaitInv(r, q, F2, S, D2)
    BY <1>5
  <2> DEFINE tl == Tail(st)
  <2>1. Len(tl) \in Nat /\ Len(tl) = Len(st) - 1 /\ Len(tl) >= 1
    BY <1>4, PopStack
  <2>2. \A i \in 1 .. Len(tl) : tl[i] = st[i+1] /\ i+1 \in 1 .. Len(st)
    BY <1>4, <2>1
  <2> HIDE DEF tl
  <2>3. \A i \in 1 .. Len(tl) : /\ tl[i].count <= ScanRange[r].batch
                                /\ tl[i].start + tl[i].count <= p.cursor
    BY <1>6, <2>2
  <2>4. \A i \in 1 .. (Len(tl) - 1) : tl[i].start + tl[i].count = tl[i+1].start
    <3> TAKE i \in 1 .. (Len(tl) - 1)
    <3>1. /\ i \in 1 .. Len(tl) /\ i+1 \in 1 .. Len(tl) /\ i+1 \in 1 .. (Len(st) - 1)
      BY <2>1
    <3> QED
      BY <1>6, <2>2, <3>1
  <2>5. tl[Len(tl)].start + tl[Len(tl)].count = p.cursor
    <3>1. Len(tl) \in 1 .. Len(tl) /\ Len(tl) + 1 = Len(st)
      BY <1>4, <2>1
    <3> QED
      BY <1>6, <2>2, <3>1
  <2>6. q.stack = tl
    BY <1>5 DEF tl
  <2>7. StackInv(r, q)
    BY <1>5, <2>3, <2>4, <2>5, <2>6 DEF StackInv
  <2> QED
    BY <1>5, <1>12, <2>7 DEF WaitInv
<1>14. q.stack = <<>> /\ q.remaining = 0 => BetweenRuns(r, q, F2, D2)
  <2> SUFFICES ASSUME Tail(st) = <<>>, p.remaining = 0 PROVE BetweenRuns(r, q, F2, D2)
    BY <1>5
  <2>1. end = p.cursor
    BY <1>5, <1>8 DEF Frontier
  <2>2. /\ p.pos = p.cursor + 1
        /\ p.cursor < End(r) => p.cursor \in D2
    BY <1>1, <1>9
  <2>3. Settled(r, p.pos, F2, D2)
    <3>1. ASSUME NEW a \in Covered(r), a < p.pos PROVE a \in F2 \cup D2
      <4>1. a \in Nat /\ a < End(r)
        BY <1>10
      <4>2. a < p.cursor \/ a = p.cursor
        BY <1>1, <2>2, <3>1, <4>1
      <4> QED
        BY <1>11, <2>1, <2>2, <4>1, <4>2 DEF Settled
    <3>2. ASSUME NEW a \in F2 PROVE a < p.pos
      <4>1. a < p.cursor /\ a \in Nat
        BY <1>11, <2>1, <3>2 DEF Settled
      <4> QED
        BY <1>1, <2>2, <4>1
    <3> QED
      BY <3>1, <3>2 DEF Settled
  <2>4. ScanRange[r].start <= p.pos
    BY <1>1, <1>3, <1>7, <1>9, <1>10, <2>1, <2>2 DEF end
  <2> QED
    BY <1>5, <2>3, <2>4 DEF BetweenRuns
<1> QED
  BY <1>12, <1>13, <1>14 DEF Resumable

LEMMA Halves ==
  \A s, n, h, k, c \in Nat : h < n /\ n <= k /\ s + n <= c =>
    /\ h <= k /\ s + h <= c /\ n - h <= k
    /\ s + h + (n - h) = s + n /\ s + h + (n - h) <= c
OBVIOUS

(* Cutting the request in flight in two changes nothing else of the poll. *)
LEMMA BisectInv ==
  ASSUME NEW r \in Ranges, NEW p \in PollState, NEW F, NEW S, NEW D,
         WaitInv(r, p, F, S, D), NEW g \in Segment, g = p.stack[1],
         NEW half \in Nat, half > 0, half < g.count,
         NEW x \in Segment, x.start = g.start, x.count = half,
         NEW y \in Segment, y.start = g.start + half, y.count = g.count - half,
         NEW q, q = [stack |-> <<x, y>> \o Tail(p.stack), cursor |-> p.cursor,
                     remaining |-> p.remaining, pos |-> p.pos]
  PROVE  WaitInv(r, q, F, S, D)
<1> DEFINE st == p.stack
           new == <<x, y>> \o Tail(p.stack)
<1>1. p.cursor \in Nat /\ p.remaining \in Nat /\ p.pos \in Nat /\ st \in Seq(Segment)
  BY DEF PollState
<1>2. st # <<>> /\ StackInv(r, p) /\ RunInv(r, p, F, S, D)
  BY DEF WaitInv
<1>3. g.start \in Nat /\ g.count \in Nat /\ g.count > 0 /\ ScanRange[r].batch \in Nat
  BY SettingsType DEF Segment
<1>4. /\ Len(st) \in Nat /\ Len(st) >= 1 /\ Head(st) = g /\ st[1] = g
      /\ \A i \in 1 .. Len(st) : st[i] \in Segment
  BY <1>1, <1>2, PopStack
<1>5. /\ new \in Seq(Segment) /\ new # <<>> /\ Len(new) = Len(st) + 1
      /\ Head(new) = x /\ new[1] = x /\ new[2] = y
      /\ \A i \in 3 .. Len(new) : new[i] = st[i-1]
  BY <1>1, <1>2, SplitStack
<1>6. /\ \A i \in 1 .. Len(st) : /\ st[i].count <= ScanRange[r].batch
                                 /\ st[i].start + st[i].count <= p.cursor
      /\ \A i \in 1 .. (Len(st) - 1) : st[i].start + st[i].count = st[i+1].start
      /\ st[Len(st)].start + st[Len(st)].count = p.cursor
  BY <1>2 DEF StackInv
<1>7. /\ q.stack = new /\ q.cursor = p.cursor
      /\ q.remaining = p.remaining /\ q.pos = p.pos
  OBVIOUS
<1> HIDE DEF st, new
<1>8. Frontier(q) = g.start /\ Frontier(p) = g.start
  BY <1>2, <1>4, <1>5, <1>7 DEF Frontier, st
<1>9. RunInv(r, q, F, S, D)
  BY <1>2, <1>7, <1>8 DEF RunInv
<1>10. g.count <= ScanRange[r].batch /\ g.start + g.count <= p.cursor
  BY <1>4, <1>6
<1>15. /\ half <= ScanRange[r].batch /\ g.start + half <= p.cursor
      /\ g.count - half <= ScanRange[r].batch
      /\ g.start + half + (g.count - half) = g.start + g.count
      /\ g.start + half + (g.count - half) <= p.cursor
  <2> DEFINE gs == g.start  gc == g.count  k == ScanRange[r].batch  c == p.cursor
  <2>1. gs \in Nat /\ gc \in Nat /\ k \in Nat /\ c \in Nat /\ half < gc /\ gc <= k /\ gs + gc <= c
    BY <1>1, <1>3, <1>10
  <2> HIDE DEF gs, gc, k, c
  <2>2. /\ half <= k /\ gs + half <= c /\ gc - half <= k
        /\ gs + half + (gc - half) = gs + gc /\ gs + half + (gc - half) <= c
    BY <2>1, Halves
  <2> QED
    BY <2>2 DEF gs, gc, k, c
<1>11. \A i \in 1 .. Len(new) : /\ new[i].count <= ScanRange[r].batch
                                /\ new[i].start + new[i].count <= p.cursor
  <2> TAKE i \in 1 .. Len(new)
  <2>1. CASE i = 1
    BY <1>15, <1>5, <2>1
  <2>2. CASE i = 2
    BY <1>15, <1>5, <2>2
  <2>3. CASE i \in 3 .. Len(new)
    <3>1. new[i] = st[i-1] /\ i-1 \in 1 .. Len(st)
      BY <1>4, <1>5, <2>3
    <3> QED
      BY <1>6, <3>1
  <2> QED
    BY <1>4, <1>5, <2>1, <2>2, <2>3
<1>12. \A i \in 1 .. (Len(new) - 1) : new[i].start + new[i].count = new[i+1].start
  <2> TAKE i \in 1 .. (Len(new) - 1)
  <2>1. CASE i = 1
    BY <1>5, <2>1
  <2>2. CASE i = 2
    <3>1. g.start + half + (g.count - half) = g.start + g.count
      BY <1>15
    <3>2. 3 \in 3 .. Len(new) /\ 1 \in 1 .. (Len(st) - 1)
      BY <1>4, <1>5, <2>2
    <3>3. new[3] = st[2] /\ st[1].start + st[1].count = st[2].start
      BY <1>5, <1>6, <3>2
    <3> QED
      BY <1>4, <1>5, <2>2, <3>1, <3>3
  <2>3. CASE i \in 3 .. Len(new)
    <3>1. /\ i \in 3 .. Len(new) /\ i+1 \in 3 .. Len(new) /\ i-1 \in 1 .. (Len(st) - 1)
          /\ (i-1)+1 = i /\ (i+1)-1 = i
      BY <1>4, <1>5, <2>3
    <3>2. new[i] = st[i-1] /\ new[i+1] = st[i]
      BY <1>5, <3>1
    <3>3. st[i-1].start + st[i-1].count = st[i].start
      BY <1>6, <3>1
    <3> QED
      BY <3>2, <3>3
  <2> QED
    BY <1>4, <1>5, <2>1, <2>2, <2>3
<1>13. new[Len(new)].start + new[Len(new)].count = p.cursor
  <2>1. CASE Len(st) = 1
    <3>1. g.start + g.count = p.cursor
      BY <1>4, <1>6, <2>1
    <3>2. Len(new) = 2
      BY <1>5, <2>1
    <3> QED
      BY <1>15, <1>5, <3>1, <3>2
  <2>2. CASE Len(st) # 1
    <3> DEFINE n == Len(st)
               m == Len(new)
    <3>0. n \in Nat /\ n >= 1 /\ n # 1 /\ m = n + 1
      BY <1>4, <1>5, <2>2
    <3> HIDE DEF n, m
    <3>01. m \in 3 .. m /\ m - 1 = n
      BY <3>0
    <3>1. Len(new) \in 3 .. Len(new) /\ Len(new) - 1 = Len(st)
      BY <3>01 DEF n, m
    <3>2. new[Len(new)] = st[Len(st)]
      BY <1>5, <3>1
    <3> QED
      BY <1>6, <3>2
  <2> QED
    BY <2>1, <2>2
<1>14. StackInv(r, q)
  <2>1. \A i \in 1 .. Len(q.stack) : /\ q.stack[i].count <= ScanRange[r].batch
                                      /\ q.stack[i].start + q.stack[i].count <= q.cursor
    BY <1>7, <1>11, Zenon
  <2>2. \A i \in 1 .. (Len(q.stack) - 1) :
          q.stack[i].start + q.stack[i].count = q.stack[i+1].start
    BY <1>7, <1>12, Zenon
  <2>3. q.stack[Len(q.stack)].start + q.stack[Len(q.stack)].count = q.cursor
    BY <1>7, <1>13, Zenon
  <2> QED
    BY <2>1, <2>2, <2>3, Zenon DEF StackInv
<1> QED
  BY <1>5, <1>7, <1>9, <1>14 DEF WaitInv

LEMMA DeadGrows ==
  ASSUME NEW r \in Ranges, NEW p, NEW F, NEW S, NEW D, NEW D2, D \subseteq D2,
         WaitInv(r, p, F, S, D)
  PROVE  WaitInv(r, p, F, S, D2)
<1>1. RunInv(r, p, F, S, D2)
  BY DEF WaitInv, RunInv, Settled
<1> QED
  BY <1>1 DEF WaitInv

(* The steps of one task do not disturb the others. *)
LEMMA OtherRanges ==
  ASSUME TypeInv, PollInv, NEW r \in Ranges,
         \A s \in Ranges \ {r} : /\ phase'[s] = phase[s] /\ poll'[s] = poll[s]
                                /\ fresh'[s] = fresh[s] /\ skip'[s] = skip[s],
         \A b \in Bank : dead[b] \subseteq dead'[b],
         RangeInv(r)'
  PROVE  PollInv'
<1> SUFFICES ASSUME NEW s \in Ranges, s # r PROVE RangeInv(s)'
  BY DEF PollInv
<1>1. RangeInv(s) /\ BankOf(s) \in Bank
  BY SettingsType DEF PollInv
<1>2. dead[BankOf(s)] \subseteq dead'[BankOf(s)]
  BY <1>1
<1>3. phase'[s] = "polling" =>
        WaitInv(s, poll'[s], fresh'[s], skip'[s], dead'[BankOf(s)])
  BY <1>1, <1>2, DeadGrows DEF RangeInv, Polling
<1> QED
  BY <1>1, <1>2, <1>3 DEF RangeInv, Polling

LEMMA PollInit == Init => PollInv
<1> SUFFICES ASSUME Init, NEW r \in Ranges PROVE RangeInv(r)
  BY DEF PollInv
<1>1. BankOf(r) \in Bank
  BY SettingsType
<1> QED
  BY <1>1 DEF Init, RangeInv, Polling

LEMMA PollStep == TypeInv /\ PollInv /\ [Next]_vars => PollInv'
<1> SUFFICES ASSUME TypeInv, PollInv, [Next]_vars PROVE PollInv'
  OBVIOUS
<1>0. TypeOK /\ Waiting
  BY DEF TypeInv
<1>00. /\ phase \in [Ranges -> Phase] /\ poll \in [Ranges -> PollState]
      /\ fresh \in [Ranges -> SUBSET Address] /\ skip \in [Ranges -> SUBSET Address]
      /\ dead \in [Bank -> SUBSET Address] /\ Address \subseteq Nat
  BY <1>0, ScannerAssumption DEF TypeOK
<1>1. ASSUME NEW r \in Ranges, BeginPoll(r) PROVE PollInv'
  <2> DEFINE D == dead[BankOf(r)]
             p == AtStart(r)
  <2>1. /\ p \in PollState /\ p.stack = <<>> /\ p.remaining = 0
        /\ p.pos = ScanRange[r].start /\ ScanRange[r].start \in Nat
    <3>1. <<>> \in Seq(Segment) /\ ScanRange[r].start \in Nat
      BY SettingsType
    <3> QED
      BY <3>1 DEF AtStart, PollState
  <2>2. BetweenRuns(r, p, {}, D)
    <3>1. \A a \in Covered(r) : a \in Nat /\ ScanRange[r].start <= a
      BY SettingsType
    <3>2. Settled(r, ScanRange[r].start, {}, D)
      BY <2>1, <3>1 DEF Settled
    <3> QED
      BY <2>1, <3>2 DEF BetweenRuns
  <2> HIDE DEF p
  <2>3. Proceed(r, p, D)
    BY <1>1 DEF BeginPoll, p
  <2>4. /\ phase'[r] = "polling" => WaitInv(r, poll'[r], {}, D, D)
        /\ phase'[r] = "ok" => Covered(r) \subseteq {} \cup D
    <3>1. {} \in SUBSET Nat /\ D \subseteq D
      OBVIOUS
    <3> HIDE DEF D
    <3>2. Resumable(r, p, {}, D, D)
      BY <2>1, <2>2 DEF Resumable
    <3> QED
      BY <1>00, <2>1, <2>3, <3>1, <3>2, ProceedInv, Zenon
  <2>5. \A s \in Ranges \ {r} : phase'[s] = phase[s] /\ poll'[s] = poll[s]
    BY <1>00, <2>1, <2>3, ProceedType
  <2>6. fresh'[r] = {} /\ skip'[r] = D /\ dead' = dead
    BY <1>1, <1>00 DEF BeginPoll
  <2>7. RangeInv(r)'
    BY <2>4, <2>6 DEF RangeInv, Polling
  <2>8. \A s \in Ranges \ {r} : fresh'[s] = fresh[s] /\ skip'[s] = skip[s]
    BY <1>1, <1>00 DEF BeginPoll
  <2> QED
    BY <2>5, <2>6, <2>7, <2>8, OtherRanges
<1>2. ASSUME NEW r \in Ranges, ReadValues(r) PROVE PollInv'
  <2> DEFINE D == dead[BankOf(r)]
             g == InFlight(r)
             F2 == fresh[r] \cup Span(g)
             q == Answered(r)
  <2>1. Polling(r) /\ RangeInv(r)
    BY <1>2 DEF ReadValues, Resumes, PollInv
  <2>2. /\ g \in Segment /\ g = poll[r].stack[1] /\ poll[r] \in PollState
        /\ q = [stack |-> Tail(poll[r].stack), cursor |-> poll[r].cursor,
                remaining |-> poll[r].remaining, pos |-> poll[r].pos]
        /\ q \in PollState
    BY <1>0, <1>00, <2>1, InFlightType
  <2>3. WaitInv(r, poll[r], fresh[r], skip[r], D) /\ skip[r] \subseteq D
    BY <2>1 DEF RangeInv
  <2>4. g.start \in Nat /\ g.count \in Nat
    BY <2>2 DEF Segment
  <2>5. /\ fresh[r] \in SUBSET Nat /\ F2 \in SUBSET Nat
        /\ \A a \in F2 : a \in fresh[r] \/ a < g.start + g.count
    <3>1. \A a \in Span(g) : a \in Nat /\ a < g.start + g.count
      BY <2>4 DEF Span
    <3> QED
      BY <1>00, <3>1
  <2> HIDE DEF g, q
  <2>6. Resumable(r, q, F2, skip[r], D)
    <3>1. fresh[r] \subseteq F2 /\ D \subseteq D /\ \A a \in Span(g) : a \in F2 \cup D
      OBVIOUS
    <3> HIDE DEF D, F2
    <3> QED
      BY <2>2, <2>3, <2>5, <3>1, PopInv
  <2> HIDE DEF F2
  <2>7. Proceed(r, q, D)
    BY <1>2 DEF ReadValues, q
  <2>8. /\ phase'[r] = "polling" => WaitInv(r, poll'[r], F2, skip[r], D)
        /\ phase'[r] = "ok" => Covered(r) \subseteq F2 \cup D
    BY <1>00, <2>2, <2>3, <2>5, <2>6, <2>7, ProceedInv
  <2>9. \A s \in Ranges \ {r} : phase'[s] = phase[s] /\ poll'[s] = poll[s]
    BY <1>00, <2>2, <2>7, ProceedType
  <2>10. /\ fresh'[r] = F2 /\ skip' = skip /\ dead' = dead
         /\ \A s \in Ranges \ {r} : fresh'[s] = fresh[s]
    BY <1>2, <1>00 DEF ReadValues, F2, g
  <2>11. RangeInv(r)'
    BY <2>3, <2>8, <2>10 DEF RangeInv, Polling
  <2> QED
    BY <2>9, <2>10, <2>11, OtherRanges
<1>3. ASSUME NEW r \in Ranges,
             SinkRaises(r) \/ ShortAnswer(r) \/ ReadFails(r) \/ DeviceRefuses(r)
      PROVE  PollInv'
  <2>1. Sleep(r, "failed") /\ skip' = skip /\ dead' = dead
    BY <1>3 DEF SinkRaises, ShortAnswer, ReadFails, DeviceRefuses, history
  <2>2. \A s \in Ranges \ {r} : fresh'[s] = fresh[s]
    BY <1>3, <1>00 DEF SinkRaises, ShortAnswer, ReadFails, DeviceRefuses, history
  <2>3. /\ phase'[r] = "failed"
        /\ \A s \in Ranges \ {r} : phase'[s] = phase[s] /\ poll'[s] = poll[s]
    BY <1>00, <2>1, SleepType
  <2>4. skip[r] \subseteq dead[BankOf(r)]
    BY DEF PollInv, RangeInv
  <2>5. RangeInv(r)'
    BY <2>1, <2>3, <2>4 DEF RangeInv, Polling
  <2> QED
    BY <2>1, <2>2, <2>3, <2>5, OtherRanges
<1>4. ASSUME NEW r \in Ranges, Bisect(r) PROVE PollInv'
  <2> DEFINE D == dead[BankOf(r)]
             g == InFlight(r)
             half == g.count \div 2
             x == Seg(g.start, half)
             y == Seg(g.start + half, g.count - half)
             q == [stack |-> <<x, y>> \o Tail(poll[r].stack), cursor |-> poll[r].cursor,
                   remaining |-> poll[r].remaining, pos |-> poll[r].pos]
  <2>1. Polling(r) /\ g.count > 1 /\ RangeInv(r)
    BY <1>4 DEF Bisect, Resumes, PollInv
  <2>2. /\ half \in Nat /\ half > 0 /\ half < g.count
        /\ x \in Segment /\ y \in Segment
        /\ Wait(r, q)
    BY <1>0, <1>4, <2>1, BisectType DEF Bisect
  <2>3. g \in Segment /\ g = poll[r].stack[1] /\ poll[r] \in PollState
    BY <1>0, <1>00, <2>1, InFlightType
  <2>4. /\ x.start = g.start /\ x.count = half
        /\ y.start = g.start + half /\ y.count = g.count - half
    BY DEF Seg
  <2>5. WaitInv(r, poll[r], fresh[r], skip[r], D)
    BY <2>1 DEF RangeInv
  <2> HIDE DEF half, x, y
  <2>6. WaitInv(r, q, fresh[r], skip[r], D)
    BY <2>2, <2>3, <2>4, <2>5, BisectInv
  <2> HIDE DEF q
  <2>7. /\ phase'[r] = "polling" /\ poll'[r] = q
        /\ \A s \in Ranges \ {r} : phase'[s] = phase[s] /\ poll'[s] = poll[s]
    BY <1>00, <2>2 DEF Wait
  <2>8. fresh' = fresh /\ skip' = skip /\ dead' = dead
    BY <1>4 DEF Bisect, history
  <2>9. RangeInv(r)'
    BY <2>1, <2>6, <2>7, <2>8 DEF RangeInv, Polling
  <2> QED
    BY <2>7, <2>8, <2>9, OtherRanges
<1>5. ASSUME NEW r \in Ranges, MarkDead(r) PROVE PollInv'
  <2> DEFINE D == dead[BankOf(r)]
             g == InFlight(r)
             D2 == D \cup {g.start}
             q == Answered(r)
  <2>1. Polling(r) /\ RangeInv(r) /\ g.count = 1
    BY <1>5 DEF MarkDead, Resumes, PollInv
  <2>2. /\ g \in Segment /\ g = poll[r].stack[1] /\ poll[r] \in PollState
        /\ q = [stack |-> Tail(poll[r].stack), cursor |-> poll[r].cursor,
                remaining |-> poll[r].remaining, pos |-> poll[r].pos]
        /\ q \in PollState
    BY <1>0, <1>00, <2>1, InFlightType
  <2>3. WaitInv(r, poll[r], fresh[r], skip[r], D) /\ skip[r] \subseteq D
    BY <2>1 DEF RangeInv
  <2>4. \A a \in Span(g) : a \in fresh[r] \cup D2
    <3>1. g.start \in Nat
      BY <2>2 DEF Segment
    <3> QED
      BY <2>1, <3>1 DEF Span
  <2>5. fresh[r] \in SUBSET Nat
    BY <1>00
  <2>6. Proceed(r, q, D2) /\ dead' = [dead EXCEPT ![BankOf(r)] = D2]
    BY <1>5 DEF MarkDead
  <2> HIDE DEF g, q
  <2>7. D \subseteq D2
    OBVIOUS
  <2> HIDE DEF D2
  <2>8. Resumable(r, q, fresh[r], skip[r], D2)
    <3>1. fresh[r] \subseteq fresh[r] /\ \A a \in fresh[r] : a \in fresh[r] \/ a < g.start + g.count
      OBVIOUS
    <3> HIDE DEF D
    <3> QED
      BY <2>2, <2>3, <2>4, <2>5, <2>7, <3>1, PopInv
  <2>9. skip[r] \subseteq D2
    BY <2>3, <2>7
  <2>10. /\ phase'[r] = "polling" => WaitInv(r, poll'[r], fresh[r], skip[r], D2)
         /\ phase'[r] = "ok" => Covered(r) \subseteq fresh[r] \cup D2
    BY <1>00, <2>2, <2>5, <2>6, <2>8, <2>9, ProceedInv
  <2>11. \A s \in Ranges \ {r} : phase'[s] = phase[s] /\ poll'[s] = poll[s]
    BY <1>00, <2>2, <2>6, ProceedType
  <2>12. fresh' = fresh /\ skip' = skip
    BY <1>5 DEF MarkDead, history
  <2>13. dead'[BankOf(r)] = D2 /\ \A b \in Bank : dead[b] \subseteq dead'[b]
    BY <1>00, <2>6, <2>7, SettingsType
  <2>14. RangeInv(r)'
    BY <2>9, <2>10, <2>12, <2>13 DEF RangeInv, Polling
  <2> QED
    BY <2>11, <2>12, <2>13, <2>14, OtherRanges
<1>6. CASE DeviceChanges \/ DeviceStarts
  BY <1>6 DEF DeviceChanges, DeviceStarts, PollInv, RangeInv, Polling, history
<1>7. ASSUME NEW r \in Ranges, DeviceAnswers(r) PROVE PollInv'
  BY <1>7 DEF DeviceAnswers, TakeSample, PollInv, RangeInv, Polling, history
<1>8. CASE UNCHANGED vars
  BY <1>8 DEF vars, PollInv, RangeInv, Polling
<1> QED
  BY <1>1, <1>2, <1>3, <1>4, <1>5, <1>6, <1>7, <1>8 DEF Next, RangeStep, TakeAnswer

-----------------------------------------------------------------------------
Inv == TypeInv /\ PollInv

LEMMA Invariance == Spec => []Inv
<1>1. Init => Inv
  BY TypeInit, PollInit DEF Inv
<1>2. Inv /\ [Next]_vars => Inv'
  BY TypeStep, PollStep DEF Inv
<1> QED
  BY <1>1, <1>2, PTL DEF Spec

(* Every variable keeps its type: no poll of any task ever loses its       *)
(* request, leaves the addresses of its bank, or overruns a bound.         *)
THEOREM TypeCorrect == Spec => []TypeOK
<1>1. Inv => TypeOK
  BY DEF Inv, TypeInv
<1> QED
  BY <1>1, Invariance, PTL

(* A poll recorded as successful has looked at every address of its range, *)
(* for every set of ranges that share a bank, every batch size and every   *)
(* set of holes.                                                           *)
THEOREM CompletePolls == Spec => []PollIsComplete
<1>1. Inv => PollIsComplete
  BY DEF Inv, PollInv, RangeInv, PollIsComplete
<1> QED
  BY <1>1, Invariance, PTL

(* No request leaves its range or its batch limit, repeats an address the  *)
(* poll has read, or asks again for one known to be dead.                  *)
THEOREM NoRequestWasted == Spec => []NoWastedRequest
<1>1. Inv => NoWastedRequest
  <2> SUFFICES ASSUME Inv, NEW r \in Ranges, Polling(r)
               PROVE  /\ Span(InFlight(r)) \subseteq Covered(r)
                      /\ InFlight(r).count <= ScanRange[r].batch
                      /\ Span(InFlight(r)) \cap (fresh[r] \cup skip[r]) = {}
    BY DEF NoWastedRequest
  <2> DEFINE p == poll[r]
             g == InFlight(r)
  <2>1. TypeInv /\ PollInv /\ TypeOK /\ Waiting
    BY DEF Inv, TypeInv
  <2>2. /\ p.cursor \in Nat /\ p.remaining \in Nat
        /\ p.stack \in Seq(Segment) /\ p.stack # <<>>
        /\ fresh[r] \in SUBSET Nat /\ skip[r] \in SUBSET Nat
    BY <2>1, ScannerAssumption DEF TypeOK, PollState, Waiting
  <2>3. g.start \in Nat /\ g.count \in Nat /\ g = p.stack[1] /\ g = Head(p.stack)
    BY <2>1, InFlightType DEF InFlight
  <2>4. StackInv(r, p) /\ RunInv(r, p, fresh[r], skip[r], dead[BankOf(r)])
    BY <2>1 DEF PollInv, RangeInv, WaitInv
  <2>5. 1 \in 1 .. Len(p.stack)
    BY <2>2, PopStack
  <2>6. g.count <= ScanRange[r].batch /\ g.start + g.count <= p.cursor
    BY <2>3, <2>4, <2>5 DEF StackInv
  <2>7. /\ \A a \in fresh[r] : a < g.start
        /\ \A a \in g.start .. (p.cursor + p.remaining - 1) : a \notin skip[r]
    BY <2>2, <2>3, <2>4 DEF RunInv, Settled, Frontier
  <2>8. Span(g) \subseteq Covered(r)
    BY <2>1, InFlightCovered
  <2> HIDE DEF p, g
  <2>9. ASSUME NEW a \in Span(g) PROVE a \notin fresh[r] /\ a \notin skip[r]
    <3>1. a \in g.start .. (p.cursor + p.remaining - 1)
      <4> DEFINE gs == g.start  gc == g.count  c == p.cursor  m == p.remaining
      <4>1. a \in gs .. (gs + gc - 1)
        BY <2>9 DEF Span
      <4>2. gs \in Nat /\ gc \in Nat /\ c \in Nat /\ m \in Nat /\ gs + gc <= c
        BY <2>2, <2>3, <2>6
      <4> HIDE DEF gs, gc, c, m
      <4>3. a \in gs .. (c + m - 1)
        BY <4>1, <4>2
      <4> QED
        BY <4>3 DEF gs, c, m
    <3>2. ~(a < g.start)
      BY <2>2, <2>3, <3>1
    <3> QED
      BY <2>7, <3>1, <3>2
  <2> QED
    BY <2>6, <2>8, <2>9 DEF g
<1> QED
  BY <1>1, Invariance, PTL

(* The device goes on answering for what it answered for at first, so that *)
(* an illegal address, also one said a while ago, is none of those.        *)
ReplyInv ==
  \A r \in Ranges :
    /\ reply[r] # NoReply => Polling(r)
    /\ reply[r].kind = "illegal" => ~(Span(InFlight(r)) \subseteq AtPowerOn[BankOf(r)])

DeadInv ==
  /\ ReplyInv
  /\ \A b \in Bank : AtPowerOn[b] \subseteq answers[b] /\ dead[b] \cap AtPowerOn[b] = {}

(* A step that takes the answer of one task, or none of them. *)
LEMMA ReplyTaken ==
  ASSUME Inv, ReplyInv, NEW r \in Ranges, reply' = [reply EXCEPT ![r] = NoReply],
         \A s \in Ranges \ {r} : phase'[s] = phase[s] /\ poll'[s] = poll[s]
  PROVE  ReplyInv'
<1>1. /\ reply'[r] = NoReply
      /\ \A s \in Ranges \ {r} : reply'[s] = reply[s]
  BY ReplyType DEF Inv, TypeInv
<1>2. NoReply.kind # "illegal"
  BY DEF NoReply
<1>3. ASSUME NEW s \in Ranges \ {r}
      PROVE  /\ Polling(s)' <=> Polling(s)
             /\ (InFlight(s) = InFlight(s)')
  BY DEF Polling, InFlight
<1> QED
  BY <1>1, <1>2, <1>3, Zenon DEF ReplyInv

LEMMA ReplyStep == Inv /\ DeadInv /\ [Next]_vars => ReplyInv'
<1> SUFFICES ASSUME Inv, DeadInv, [Next]_vars PROVE ReplyInv'
  OBVIOUS
<1>1. TypeOK /\ Waiting /\ TypeInv /\ ReplyInv
  BY DEF Inv, TypeInv, DeadInv
<1>2. phase \in [Ranges -> Phase] /\ poll \in [Ranges -> PollState]
  BY <1>1 DEF TypeOK
<1>3. ASSUME NEW r \in Ranges, NEW k, Resumes(r, k), NEW p \in PollState, NEW D, Proceed(r, p, D)
      PROVE  ReplyInv'
  BY <1>1, <1>2, <1>3, ProceedType, ReplyTaken DEF Resumes
<1>4. ASSUME NEW r \in Ranges, reply' = [reply EXCEPT ![r] = NoReply], Sleep(r, "failed")
      PROVE  ReplyInv'
  BY <1>1, <1>2, <1>4, SleepType, ReplyTaken
<1>5. ASSUME NEW r \in Ranges, ReadValues(r) \/ MarkDead(r) PROVE ReplyInv'
  <2>1. PICK k : Resumes(r, k)
    BY <1>5 DEF ReadValues, MarkDead
  <2>2. Answered(r) \in PollState
    BY <1>1, <2>1, InFlightType DEF Resumes
  <2>3. PICK D : Proceed(r, Answered(r), D)
    BY <1>5 DEF ReadValues, MarkDead
  <2> QED
    BY <1>3, <2>1, <2>2, <2>3
<1>6. ASSUME NEW r \in Ranges, Bisect(r) PROVE ReplyInv'
  <2>1. reply' = [reply EXCEPT ![r] = NoReply]
    BY <1>6 DEF Bisect, Resumes
  <2>2. \A s \in Ranges \ {r} : phase'[s] = phase[s] /\ poll'[s] = poll[s]
    BY <1>2, <1>6 DEF Bisect, Wait
  <2> QED
    BY <1>1, <2>1, <2>2, ReplyTaken
<1>7. ASSUME NEW r \in Ranges,
             SinkRaises(r) \/ ShortAnswer(r) \/ ReadFails(r) \/ DeviceRefuses(r)
      PROVE  ReplyInv'
  <2>1. reply' = [reply EXCEPT ![r] = NoReply] /\ Sleep(r, "failed")
    BY <1>7 DEF SinkRaises, ShortAnswer, ReadFails, DeviceRefuses, Resumes
  <2> QED
    BY <1>4, <2>1
<1>8. ASSUME NEW r \in Ranges, BeginPoll(r) PROVE ReplyInv'
  <2>1. AtStart(r) \in PollState
    <3>1. <<>> \in Seq(Segment) /\ ScanRange[r].start \in Nat
      BY SettingsType
    <3> QED
      BY <3>1 DEF AtStart, PollState
  <2>2. reply' = reply /\ reply[r] = NoReply
    BY <1>1, <1>8 DEF BeginPoll, ReplyInv
  <2>3. reply' = [reply EXCEPT ![r] = NoReply]
    BY <1>1, <2>2 DEF TypeOK
  <2>4. \A s \in Ranges \ {r} : phase'[s] = phase[s] /\ poll'[s] = poll[s]
    BY <1>2, <1>8, <2>1, ProceedType DEF BeginPoll
  <2> QED
    BY <1>1, <2>3, <2>4, ReplyTaken
<1>9. ASSUME NEW r \in Ranges, DeviceAnswers(r) PROVE ReplyInv'
  <2>1. Polling(r) /\ TakeSample(r) /\ phase' = phase /\ poll' = poll
    BY <1>9 DEF DeviceAnswers, TakeSample
  <2>2. \A s \in Ranges \ {r} : reply'[s] = reply[s]
    BY <1>1, <2>1, ReplyType
  <2>3. \A s \in Ranges : /\ Polling(s)' <=> Polling(s)
                          /\ InFlight(s) = InFlight(s)'
    BY <2>1 DEF Polling, InFlight
  <2>4. AtPowerOn[BankOf(r)] \subseteq answers[BankOf(r)]
    BY SettingsType DEF DeadInv
  <2>5. reply'[r].kind = "illegal" => Illegal(r)
    BY <1>1, <2>1 DEF TakeSample, Says, TypeOK
  <2>6. reply'[r].kind = "illegal" => ~(Span(InFlight(r)) \subseteq AtPowerOn[BankOf(r)])
    BY <2>4, <2>5 DEF Illegal
  <2> QED
    BY <1>1, <2>1, <2>2, <2>3, <2>6, Zenon DEF ReplyInv
<1>10. ASSUME UNCHANGED <<reply, phase, poll>> PROVE ReplyInv'
  BY <1>1, <1>10 DEF ReplyInv, Polling, InFlight
<1> QED
  BY <1>5, <1>6, <1>7, <1>8, <1>9, <1>10
     DEF Next, RangeStep, TakeAnswer, DeviceChanges, DeviceStarts, vars

LEMMA DeadStep == Inv /\ DeadInv /\ [Next]_vars => DeadInv'
<1> SUFFICES ASSUME Inv, DeadInv, [Next]_vars PROVE DeadInv'
  OBVIOUS
<1> DEFINE Holes == \A b \in Bank : /\ AtPowerOn[b] \subseteq answers[b]
                                     /\ dead[b] \cap AtPowerOn[b] = {}
<1>1. TypeOK /\ Waiting /\ ReplyInv /\ Holes
  BY DEF Inv, TypeInv, DeadInv
<1>2. ASSUME NEW r \in Ranges, MarkDead(r) PROVE Holes'
  <2> DEFINE g == InFlight(r)
             b == BankOf(r)
  <2>0. Polling(r) /\ reply[r].kind = "illegal"
    BY <1>2 DEF MarkDead, Resumes
  <2>1. g.count = 1 /\ g.start \in Nat
    BY <1>1, <1>2, <2>0, InFlightType DEF MarkDead
  <2>2. Span(g) = {g.start}
    <3> HIDE DEF g
    <3> QED
      BY <2>1 DEF Span
  <2>3. g.start \notin AtPowerOn[b]
    BY <1>1, <2>0, <2>2 DEF ReplyInv
  <2>4. dead' = [dead EXCEPT ![b] = dead[b] \cup {g.start}] /\ b \in Bank /\ answers' = answers
    BY <1>2, SettingsType DEF MarkDead
  <2> HIDE DEF g, b
  <2>5. dead \in [Bank -> SUBSET Address]
    BY <1>1 DEF TypeOK
  <2> QED
    BY <1>1, <2>3, <2>4, <2>5
<1>3. CASE DeviceStarts
  <2>1. PICK b \in Bank : answers' = [answers EXCEPT ![b] = Implemented[b]]
    BY <1>3 DEF DeviceStarts
  <2>2. AtPowerOn[b] \subseteq Implemented[b] /\ dead' = dead
    BY <1>3, ScannerAssumption DEF DeviceStarts
  <2>3. Holes'
    BY <1>1, <2>1, <2>2 DEF TypeOK
  <2> QED
    BY <2>3, ReplyStep DEF DeadInv
<1>4. ASSUME UNCHANGED <<dead, answers>> PROVE Holes'
  BY <1>1, <1>4
<1>5. ReplyInv'
  BY ReplyStep
<1>6. (\E r \in Ranges : MarkDead(r)) \/ DeviceStarts \/ UNCHANGED <<dead, answers>>
  BY DEF Next, RangeStep, TakeAnswer, BeginPoll, ReadValues, SinkRaises, Bisect, DeviceAnswers,
         TakeSample, ShortAnswer, ReadFails, DeviceRefuses, DeviceChanges, vars
<1> HIDE DEF Holes
<1>7. Holes' => DeadInv'
  BY <1>5 DEF DeadInv, Holes
<1> QED
  BY <1>2, <1>3, <1>4, <1>6, <1>7

LEMMA DeadInit == Init => DeadInv
<1> SUFFICES ASSUME Init PROVE DeadInv
  OBVIOUS
<1>1. \A r \in Ranges : reply[r] = NoReply /\ NoReply.kind # "illegal"
  BY DEF Init, NoReply
<1> QED
  BY <1>1, SettingsType DEF Init, DeadInv, ReplyInv

(* Bisection marks only addresses the device refuses, in the right bank.   *)
THEOREM OnlyHolesAreDead == Spec => []DeadIsReal
<1>1. DeadInv => DeadIsReal
  BY DEF DeadInv, DeadIsReal
<1> QED
  BY <1>1, DeadInit, DeadStep, Invariance, PTL DEF Spec

-----------------------------------------------------------------------------
(* Why the cache is enough: as long as no sink has raised, cache, table    *)
(* and last answer agree on every address a single range covers.           *)
SnapInv ==
  sinkFailures = 0 =>
    \A b \in Bank : \A a \in Unshared(b) :
      /\ latest[b][a] = seen[b][a]
      /\ \A r \in Ranges : BankOf(r) = b /\ a \in Covered(r) => cache[r][a] = seen[b][a]

LEMMA SnapInit == Init => SnapInv
<1> SUFFICES ASSUME Init, NEW b \in Bank, NEW a \in Unshared(b)
             PROVE  /\ latest[b][a] = seen[b][a]
                    /\ \A r \in Ranges : cache[r][a] = seen[b][a]
  BY DEF SnapInv
<1> QED
  BY DEF Init

(* Table, cache and last answer take over the same addresses of a request. *)
LEMMA SnapTaken ==
  ASSUME Inv, SnapInv, NEW r \in Ranges, NEW span, span \subseteq Span(InFlight(r)), Polling(r),
         cache' = [cache EXCEPT ![r] = Overlay(@, Words(r), Changed(r) \cap span)],
         latest' = [latest EXCEPT ![BankOf(r)] =
                      Overlay(@, Words(r), Changed(r) \cap span)],
         seen' = [seen EXCEPT ![BankOf(r)] = Overlay(@, Words(r), span)],
         sinkFailures' = sinkFailures
  PROVE  SnapInv'
<1> DEFINE b == BankOf(r)
           Taken == Changed(r) \cap span
<1>1. TypeOK /\ TypeInv /\ PollInv
  BY DEF Inv, TypeInv
<1>2. b \in Bank /\ span \subseteq Covered(r) /\ Covered(r) \subseteq Address
  BY <1>1, SettingsType, InFlightCovered, ScannerAssumption
<1>3. Taken = {a \in span : cache[r][a] # Words(r)[a]}
  BY DEF Changed
<1> SUFFICES ASSUME sinkFailures = 0, NEW b2 \in Bank, NEW a \in Unshared(b2)
             PROVE  /\ latest'[b2][a] = seen'[b2][a]
                    /\ \A s \in Ranges : BankOf(s) = b2 /\ a \in Covered(s) =>
                                           cache'[s][a] = seen'[b2][a]
  BY DEF SnapInv, Unshared
<1>4. /\ a \in Address
      /\ latest[b2][a] = seen[b2][a]
      /\ \A s \in Ranges : BankOf(s) = b2 /\ a \in Covered(s) => cache[s][a] = seen[b2][a]
  BY DEF SnapInv, Unshared
<1> HIDE DEF Taken
<1>5. /\ cache' = [cache EXCEPT ![r] = Overlay(cache[r], Words(r), Taken)]
      /\ latest' = [latest EXCEPT ![b] = Overlay(latest[b], Words(r), Taken)]
      /\ seen' = [seen EXCEPT ![b] = Overlay(seen[b], Words(r), span)]
  BY DEF Taken
<1>6. CASE b2 # b
  <2>1. latest'[b2] = latest[b2] /\ seen'[b2] = seen[b2]
    BY <1>1, <1>5, <1>6 DEF TypeOK
  <2>2. \A s \in Ranges : BankOf(s) = b2 => cache'[s] = cache[s]
    BY <1>1, <1>5, <1>6 DEF TypeOK
  <2> QED
    BY <1>4, <2>1, <2>2
<1>7. CASE b2 = b
  <2>1. /\ latest'[b2][a] = IF a \in Taken THEN Words(r)[a] ELSE latest[b][a]
        /\ seen'[b2][a] = IF a \in span THEN Words(r)[a] ELSE seen[b][a]
        /\ cache'[r][a] = IF a \in Taken THEN Words(r)[a] ELSE cache[r][a]
        /\ \A s \in Ranges : s # r => cache'[s][a] = cache[s][a]
    BY <1>1, <1>2, <1>4, <1>5, <1>7 DEF TypeOK, Overlay
  <2>2. CASE a \in span
    <3>1. a \in Covered(r) /\ cache[r][a] = seen[b][a]
      BY <1>2, <1>4, <1>7, <2>2
    <3>2. \A s \in Ranges : BankOf(s) = b2 /\ a \in Covered(s) => s = r
      BY <1>7, <3>1 DEF Unshared
    <3>3. latest'[b2][a] = Words(r)[a] /\ seen'[b2][a] = Words(r)[a] /\ cache'[r][a] = Words(r)[a]
      BY <1>3, <1>4, <1>7, <2>1, <2>2, <3>1
    <3> QED
      BY <3>2, <3>3
  <2>3. CASE a \notin span
    BY <1>3, <1>4, <1>7, <2>1, <2>3
  <2> QED
    BY <2>2, <2>3
<1> QED
  BY <1>6, <1>7

LEMMA SnapStep == Inv /\ SnapInv /\ [Next]_vars => SnapInv'
<1> SUFFICES ASSUME Inv, SnapInv, [Next]_vars PROVE SnapInv'
  OBVIOUS
<1>1. TypeOK /\ TypeInv
  BY DEF Inv, TypeInv
<1>2. ASSUME NEW r \in Ranges, ReadValues(r) PROVE SnapInv'
  <2> DEFINE span == Span(InFlight(r))
  <2>1. Changed(r) \cap span = Changed(r)
    BY DEF Changed
  <2> QED
    BY <1>2, <2>1, SnapTaken DEF ReadValues, Resumes, budgets
<1>3. ASSUME NEW r \in Ranges, SinkRaises(r) PROVE SnapInv'
  <2>1. sinkFailures' # 0
    BY <1>1, <1>3 DEF SinkRaises, TypeOK
  <2> QED
    BY <2>1 DEF SnapInv
<1>4. ASSUME NEW r \in Ranges, ShortAnswer(r) PROVE SnapInv'
  <2>1. PICK n \in 1 .. (InFlight(r).count - 1) :
          LET got == InFlight(r).start .. (InFlight(r).start + n - 1)
          IN  /\ cache' = [cache EXCEPT ![r] = Overlay(@, Words(r), Changed(r) \cap got)]
              /\ latest' = [latest EXCEPT ![BankOf(r)] =
                              Overlay(@, Words(r), Changed(r) \cap got)]
              /\ seen' = [seen EXCEPT ![BankOf(r)] = Overlay(@, Words(r), got)]
    BY <1>4 DEF ShortAnswer
  <2> DEFINE got == InFlight(r).start .. (InFlight(r).start + n - 1)
  <2>2. got \subseteq Span(InFlight(r))
    BY <1>1, <1>4, PrefixInSpan DEF ShortAnswer, Resumes
  <2>3. Polling(r) /\ sinkFailures' = sinkFailures
    BY <1>4 DEF ShortAnswer, Resumes
  <2> HIDE DEF got
  <2> QED
    BY <2>1, <2>2, <2>3, SnapTaken DEF got
<1>5. ASSUME UNCHANGED <<cache, latest, seen, sinkFailures>> PROVE SnapInv'
  BY <1>5 DEF SnapInv, Unshared
<1> QED
  BY <1>2, <1>3, <1>4, <1>5 DEF Next, RangeStep, TakeAnswer, BeginPoll, Bisect, MarkDead,
     ReadFails, DeviceRefuses, DeviceAnswers, TakeSample, DeviceChanges, DeviceStarts, vars, budgets, history

(* Without a sink failure the table never lags behind the answers, for any *)
(* address that only one range covers.                                     *)
THEOREM SnapshotKeepsUp == Spec => []SnapshotIsLastRead
<1>1. SnapInv => SnapshotIsLastRead
  BY DEF SnapInv, SnapshotIsLastRead
<1> QED
  BY <1>1, SnapInit, SnapStep, Invariance, PTL DEF Spec

-----------------------------------------------------------------------------
(* Why no value in the table gives way to an older one: at most one answer *)
(* is on its way, it tells what the device held when it was given, and     *)
(* nothing in the table is from a later moment than that.                  *)
PastInv ==
  /\ past \in Seq(Mirror!Held) /\ past # <<>>
  /\ past[Len(past)] = dev

OneAnswer == \A r, s \in Ranges : reply[r] # NoReply /\ reply[s] # NoReply => r = s

AnswerInv ==
  \A r \in Ranges : reply[r] # NoReply =>
    /\ asOf[r] \in DOMAIN past
    /\ \A b \in Bank : \A a \in Address : since[b][a] <= asOf[r]
    /\ reply[r].kind = "values" =>
         \A a \in Span(InFlight(r)) : Words(r)[a] = past[asOf[r]][BankOf(r)][a]

MirrorInv ==
  /\ PastInv /\ OneAnswer /\ AnswerInv
  /\ since \in [Bank -> [Address -> Nat]]
  /\ \A b \in Bank : \A a \in Address : since[b][a] <= Len(past)

LEMMA MirrorInvInit == HistoryInit => MirrorInv /\ Mirror!MirrorInit
<1> SUFFICES ASSUME HistoryInit PROVE MirrorInv /\ Mirror!MirrorInit
  OBVIOUS
<1>1. dev \in Mirror!Held /\ past = <<dev>>
  BY ScannerAssumption DEF HistoryInit, Init, Mirror!Held
<1>2. PastInv
  BY <1>1 DEF PastInv
<1>3. \A r \in Ranges : reply[r] = NoReply
  BY DEF HistoryInit, Init
<1>4. /\ since = [b \in Bank |-> [a \in Address |-> 0]]
      /\ latest = [b \in Bank |-> Blank]
  BY DEF HistoryInit, Init
<1>5. Len(past) = 1
  BY <1>1
<1>6. MirrorInv
  BY <1>2, <1>3, <1>4, <1>5 DEF MirrorInv, OneAnswer, AnswerInv
<1>7. Mirror!MirrorInit
  BY <1>1, <1>4 DEF Mirror!MirrorInit, Blank
<1> QED
  BY <1>6, <1>7

(* Steps without an answer coming or going, the device's own included.     *)
LEMMA DeviceMoved ==
  ASSUME Inv, MirrorInv, Recorded, dev' \in Mirror!Held,
         UNCHANGED <<reply, latest>>,
         \A r \in Ranges : reply[r] # NoReply => InFlight(r)' = InFlight(r)
  PROVE  /\ MirrorInv'
         /\ Mirror!MirrorNext \/ UNCHANGED Mirror!mirrorVars
<1>1. /\ past \in Seq(Mirror!Held) /\ past # <<>> /\ past[Len(past)] = dev
      /\ Len(past) \in Nat /\ Len(past) > 0
  BY EmptySeq, LenProperties DEF MirrorInv, PastInv
<1>2. past' = IF dev' = dev THEN past ELSE Append(past, dev')
  BY DEF Recorded
<1>3. since' = since
  <2>1. since' = [b \in Bank |-> [a \in Address |-> since[b][a]]]
    BY DEF Recorded
  <2> QED
    BY <2>1 DEF MirrorInv
<1>4. \A r \in Ranges : reply[r] # NoReply => asOf'[r] = asOf[r]
  BY DEF Recorded
<1>5. /\ past' \in Seq(Mirror!Held) /\ past' # <<>> /\ past'[Len(past')] = dev'
      /\ Len(past) <= Len(past') /\ Len(past') \in Nat
      /\ \A i \in DOMAIN past : i \in DOMAIN past' /\ past'[i] = past[i]
  BY <1>1, <1>2, AppendProperties, EmptySeq
<1>6. OneAnswer'
  BY DEF MirrorInv, OneAnswer
<1>7. AnswerInv'
  <2> SUFFICES ASSUME NEW r \in Ranges, reply[r] # NoReply
               PROVE  /\ asOf'[r] \in DOMAIN past'
                      /\ \A b \in Bank : \A a \in Address : since[b][a] <= asOf'[r]
                      /\ reply[r].kind = "values" =>
                           \A a \in Span(InFlight(r)) :
                             reply[r].words[a] = past'[asOf'[r]][BankOf(r)][a]
    BY <1>3 DEF AnswerInv, Words
  <2>1. asOf'[r] = asOf[r] /\ asOf[r] \in DOMAIN past
    BY <1>4 DEF MirrorInv, AnswerInv
  <2>2. past'[asOf[r]] = past[asOf[r]] /\ asOf[r] \in DOMAIN past'
    BY <1>5, <2>1
  <2> QED
    BY <2>1, <2>2 DEF MirrorInv, AnswerInv, Words
<1>8. MirrorInv'
  <2>1. \A b \in Bank : \A a \in Address : since[b][a] \in Nat /\ since[b][a] <= Len(past)
    BY DEF MirrorInv
  <2>2. \A b \in Bank : \A a \in Address : since[b][a] <= Len(past')
    BY <1>1, <1>5, <2>1
  <2> QED
    BY <1>3, <1>5, <1>6, <1>7, <2>2 DEF MirrorInv, PastInv
<1>9. CASE dev' = dev
  BY <1>2, <1>3, <1>8, <1>9 DEF Mirror!mirrorVars
<1>10. CASE dev' # dev
  BY <1>2, <1>3, <1>8, <1>10 DEF Mirror!MirrorNext, Mirror!DeviceMoves
<1> QED
  BY <1>9, <1>10


(* The device answers: what it says is from the newest moment there is.    *)
LEMMA AnswerGiven ==
  ASSUME Inv, MirrorInv, Recorded, NEW r \in Ranges, DeviceAnswers(r)
  PROVE  MirrorInv' /\ UNCHANGED Mirror!mirrorVars
<1>1. /\ past \in Seq(Mirror!Held) /\ past # <<>> /\ past[Len(past)] = dev
      /\ Len(past) \in Nat /\ Len(past) > 0
  BY EmptySeq, LenProperties DEF MirrorInv, PastInv
<1>2. /\ TypeOK /\ dev' = dev /\ latest' = latest /\ poll' = poll
      /\ \A s \in Ranges : reply[s] = NoReply
      /\ TakeSample(r)
  BY DEF Inv, TypeInv, DeviceAnswers, TakeSample
<1>3. past' = past
  BY <1>2 DEF Recorded
<1>4. since' = since
  <2>1. since' = [b \in Bank |-> [a \in Address |-> since[b][a]]]
    BY <1>2 DEF Recorded
  <2> QED
    BY <2>1 DEF MirrorInv
<1>5. /\ \A s \in Ranges \ {r} : reply'[s] = NoReply
      /\ reply'[r] # NoReply
  BY <1>2, ReplyType
<1>6. asOf'[r] = Len(past)
  BY <1>2, <1>5 DEF Recorded
<1>7. reply'[r].kind = "values" =>
        reply'[r].words = Overlay(Blank, dev[BankOf(r)], Span(InFlight(r)))
  BY <1>2 DEF TakeSample, Says, TypeOK
<1>8. Span(InFlight(r)) \subseteq Address /\ BankOf(r) \in Bank
  BY InFlightCovered, SettingsType, ScannerAssumption DEF Inv, DeviceAnswers
<1>9. ASSUME reply'[r].kind = "values", NEW a \in Span(InFlight(r))
      PROVE  reply'[r].words[a] = past[Len(past)][BankOf(r)][a]
  BY <1>1, <1>7, <1>8, <1>9 DEF Overlay
<1>10. AnswerInv'
  <2>1. \A s \in Ranges : reply'[s] # NoReply => s = r
    BY <1>5
  <2>2. InFlight(r)' = InFlight(r)
    BY <1>2 DEF InFlight
  <2>3. Len(past) \in DOMAIN past
    BY <1>1
  <2>4. \A b \in Bank : \A a \in Address : since'[b][a] <= asOf'[r]
    BY <1>4, <1>6 DEF MirrorInv
  <2>5. reply'[r].kind = "values" =>
          \A a \in Span(InFlight(r))' : Words(r)'[a] = past'[asOf'[r]][BankOf(r)][a]
    BY <1>3, <1>6, <1>9, <2>2 DEF Words, Span
  <2> QED
    BY <1>3, <1>6, <2>1, <2>3, <2>4, <2>5 DEF AnswerInv
<1>11. OneAnswer'
  BY <1>5 DEF OneAnswer
<1> QED
  BY <1>2, <1>3, <1>4, <1>10, <1>11 DEF MirrorInv, PastInv, Mirror!mirrorVars

(* A task takes its answer, and the table takes over the values of T, some *)
(* of those asked for: all that changes is brought forward to one moment.  *)
LEMMA AnswerUsed ==
  ASSUME Inv, MirrorInv, Recorded, NEW r \in Ranges, Polling(r), reply[r].kind = "values",
         reply' = [reply EXCEPT ![r] = NoReply], dev' = dev,
         NEW T, T \subseteq Span(InFlight(r)),
         latest' = [latest EXCEPT ![BankOf(r)] = Overlay(@, Words(r), T)]
  PROVE  MirrorInv' /\ Mirror!Copy
<1> DEFINE b == BankOf(r)
           i == asOf[r]
           S == {a \in Address : latest'[b][a] # latest[b][a]}
<1>1. /\ TypeOK /\ b \in Bank /\ T \subseteq Address
      /\ \A a \in T : a \in Span(InFlight(r)) /\ a \in Address
  BY InFlightCovered, SettingsType, ScannerAssumption DEF Inv, TypeInv
<1>2. reply[r] # NoReply
  BY DEF NoReply
<1>3. \A s \in Ranges : reply'[s] = NoReply
  BY <1>1, <1>2 DEF MirrorInv, OneAnswer, TypeOK
<1>4. Concerned = r
  <2>1. \A s \in Ranges : reply'[s] # reply[s] <=> s = r
    BY <1>1, <1>2, <1>3 DEF TypeOK
  <2> QED
    BY <2>1 DEF Concerned
<1>5. past' = past
  BY DEF Recorded
<1>6. /\ i \in DOMAIN past /\ i \in Nat /\ Len(past) \in Nat /\ i <= Len(past)
      /\ \A c \in Bank : \A a \in Address : since[c][a] <= i
      /\ \A a \in T : Words(r)[a] = past[i][b][a]
  <2>1. /\ i \in DOMAIN past
        /\ \A c \in Bank : \A a \in Address : since[c][a] <= i
        /\ \A a \in T : Words(r)[a] = past[i][b][a]
    BY <1>1, <1>2 DEF MirrorInv, AnswerInv
  <2>2. DOMAIN past = 1 .. Len(past) /\ Len(past) \in Nat
    BY LenProperties DEF MirrorInv, PastInv
  <2> QED
    BY <2>1, <2>2
<1>7. /\ latest \in [Bank -> [Address -> Value \cup {NoValue}]]
      /\ since \in [Bank -> [Address -> Nat]]
  BY <1>1 DEF TypeOK, MirrorInv
<1>8. since' = [c \in Bank |-> [a \in Address |->
                  IF latest'[c][a] = latest[c][a] THEN since[c][a] ELSE i]]
  BY <1>4 DEF Recorded
<1> HIDE DEF i
<1>9. /\ latest' = [latest EXCEPT ![b] = latest'[b]]
      /\ latest'[b] = Overlay(latest[b], Words(r), T)
      /\ \A c \in Bank \ {b} : latest'[c] = latest[c]
  BY <1>1, <1>7
<1>10. \A a \in Address :
         latest'[b][a] = IF a \in T THEN Words(r)[a] ELSE latest[b][a]
  BY <1>9 DEF Overlay
<1>11. \A a \in S : a \in T /\ latest'[b][a] = past[i][b][a]
  BY <1>6, <1>10
<1>12. S \in SUBSET Address
  OBVIOUS
<1>13. latest'[b] = [a \in Address |-> IF a \in S THEN past[i][b][a] ELSE latest[b][a]]
  <2>1. latest'[b] = [a \in Address |-> latest'[b][a]]
    BY <1>9 DEF Overlay
  <2>2. \A a \in Address :
          latest'[b][a] = IF a \in S THEN past[i][b][a] ELSE latest[b][a]
    BY <1>11
  <2> HIDE DEF S, b
  <2> QED
    BY <2>1, <2>2
<1>14. since'[b] = [a \in Address |-> IF a \in S THEN i ELSE since[b][a]]
  BY <1>1, <1>8
<1>15. \A c \in Bank \ {b} : since'[c] = since[c]
  <2> SUFFICES ASSUME NEW c \in Bank \ {b} PROVE since'[c] = since[c]
    OBVIOUS
  <2>1. since'[c] = [a \in Address |-> since[c][a]]
    BY <1>8, <1>9
  <2> QED
    BY <1>7, <2>1
<1>16. since' = [since EXCEPT ![b] = since'[b]]
  <2>1. since' = [c \in Bank |-> since'[c]]
    BY <1>8
  <2>2. since' \in [Bank -> [Address -> Nat]]
    BY <1>6, <1>7, <1>8
  <2> HIDE DEF b
  <2> QED
    BY <1>1, <1>7, <1>15, <2>2
<1> HIDE DEF S
<1>17. Mirror!Copy
  <2>1. \A a \in S : since[b][a] <= i
    BY <1>1, <1>6, <1>12
  <2>2. latest' = [latest EXCEPT ![b] =
                     [a \in Address |-> IF a \in S THEN past[i][b][a] ELSE @[a]]]
    BY <1>9, <1>13
  <2>3. since' = [since EXCEPT ![b] = [a \in Address |-> IF a \in S THEN i ELSE @[a]]]
    BY <1>14, <1>16
  <2>4. past' = past
    BY <1>5
  <2>5. b \in Bank
    BY <1>1
  <2>6. S \in SUBSET Address
    BY <1>12
  <2>7. i \in DOMAIN past
    BY <1>6
  <2> HIDE DEF b
  <2> USE <2>5, <2>6, <2>7
  <2> SUFFICES \E c \in Bank, U \in SUBSET Address, j \in DOMAIN past :
        /\ \A a \in U : since[c][a] <= j
        /\ latest' = [latest EXCEPT ![c] =
                        [a \in Address |-> IF a \in U THEN past[j][c][a] ELSE @[a]]]
        /\ since' = [since EXCEPT ![c] = [a \in Address |-> IF a \in U THEN j ELSE @[a]]]
    BY <2>4 DEF Mirror!Copy
  <2> WITNESS b \in Bank, S \in SUBSET Address, i \in DOMAIN past
  <2> QED
    BY <2>1, <2>2, <2>3
<1>18. MirrorInv'
  <2>1. since' \in [Bank -> [Address -> Nat]]
    BY <1>6, <1>7, <1>8
  <2>2. \A c \in Bank : \A a \in Address : since'[c][a] <= Len(past)
    <3>1. \A c \in Bank : \A a \in Address : since[c][a] <= Len(past)
      BY DEF MirrorInv
    <3> QED
      BY <1>6, <1>8, <3>1
  <2>3. AnswerInv' /\ OneAnswer'
    BY <1>3 DEF AnswerInv, OneAnswer
  <2> QED
    BY <1>5, <2>1, <2>2, <2>3 DEF MirrorInv, PastInv
<1> QED
  BY <1>17, <1>18


(* A task goes on without the table: no answer, or none with values.       *)
LEMMA AnswerDropped ==
  ASSUME Inv, MirrorInv, Recorded, NEW r \in Ranges,
         reply' = [reply EXCEPT ![r] = NoReply], dev' = dev, latest' = latest,
         \A s \in Ranges \ {r} : poll'[s] = poll[s]
  PROVE  MirrorInv' /\ UNCHANGED Mirror!mirrorVars
<1>1. /\ reply'[r] = NoReply
      /\ \A s \in Ranges \ {r} : reply'[s] = reply[s]
  BY ReplyType DEF Inv, TypeInv
<1>2. past' = past
  BY DEF Recorded
<1>3. since' = since
  <2>1. since' = [b \in Bank |-> [a \in Address |-> since[b][a]]]
    BY DEF Recorded
  <2> QED
    BY <2>1 DEF MirrorInv
<1>4. \A s \in Ranges : reply'[s] # NoReply =>
        /\ s # r /\ reply'[s] = reply[s] /\ asOf'[s] = asOf[s]
        /\ InFlight(s)' = InFlight(s)
  BY <1>1 DEF Recorded, InFlight
<1>5. OneAnswer'
  BY <1>4 DEF MirrorInv, OneAnswer
<1>6. AnswerInv'
  <2> SUFFICES ASSUME NEW s \in Ranges, reply'[s] # NoReply
               PROVE  /\ asOf'[s] \in DOMAIN past'
                      /\ \A b \in Bank : \A a \in Address : since'[b][a] <= asOf'[s]
                      /\ reply'[s].kind = "values" =>
                           \A a \in Span(InFlight(s)') :
                             reply'[s].words[a] = past'[asOf'[s]][BankOf(s)][a]
    BY DEF AnswerInv, Words, Span
  <2> QED
    BY <1>2, <1>3, <1>4 DEF MirrorInv, AnswerInv, Words
<1> QED
  BY <1>2, <1>3, <1>5, <1>6 DEF MirrorInv, PastInv, Mirror!mirrorVars

LEMMA MirrorStep ==
  Inv /\ Inv' /\ DeadInv /\ MirrorInv /\ [HistoryNext]_historyVars =>
    MirrorInv' /\ [Mirror!MirrorNext]_Mirror!mirrorVars
<1> SUFFICES ASSUME Inv, Inv', DeadInv, MirrorInv, [HistoryNext]_historyVars
             PROVE  /\ MirrorInv'
                    /\ Mirror!MirrorNext \/ UNCHANGED Mirror!mirrorVars
  OBVIOUS
<1>1. /\ TypeOK /\ TypeInv /\ phase \in [Ranges -> Phase] /\ poll \in [Ranges -> PollState]
      /\ dev \in Mirror!Held /\ dev' \in Mirror!Held
  BY DEF Inv, TypeInv, TypeOK, Mirror!Held
<1>2. ASSUME NEW r \in Ranges, ReadValues(r), Recorded PROVE MirrorInv' /\ Mirror!Copy
  <2>1. Changed(r) \subseteq Span(InFlight(r))
    BY DEF Changed
  <2>2. /\ Polling(r) /\ reply[r].kind = "values" /\ dev' = dev
        /\ reply' = [reply EXCEPT ![r] = NoReply]
        /\ latest' = [latest EXCEPT ![BankOf(r)] = Overlay(@, Words(r), Changed(r))]
    BY <1>2 DEF ReadValues, Resumes
  <2> QED
    BY <1>2, <2>1, <2>2, AnswerUsed
<1>3. ASSUME NEW r \in Ranges, SinkRaises(r), Recorded PROVE MirrorInv' /\ Mirror!Copy
  <2>1. PICK T \in SUBSET Changed(r) :
          latest' = [latest EXCEPT ![BankOf(r)] = Overlay(@, Words(r), T)]
    BY <1>3 DEF SinkRaises
  <2>2. T \subseteq Span(InFlight(r))
    BY DEF Changed
  <2>3. /\ Polling(r) /\ reply[r].kind = "values" /\ dev' = dev
        /\ reply' = [reply EXCEPT ![r] = NoReply]
    BY <1>3 DEF SinkRaises, Resumes
  <2> QED
    BY <1>3, <2>1, <2>2, <2>3, AnswerUsed
<1>4. ASSUME NEW r \in Ranges, ShortAnswer(r), Recorded PROVE MirrorInv' /\ Mirror!Copy
  <2>1. PICK T \in SUBSET Changed(r) :
          latest' = [latest EXCEPT ![BankOf(r)] = Overlay(@, Words(r), T)]
    BY <1>4 DEF ShortAnswer
  <2>2. T \subseteq Span(InFlight(r))
    BY DEF Changed
  <2>3. /\ Polling(r) /\ reply[r].kind = "values" /\ dev' = dev
        /\ reply' = [reply EXCEPT ![r] = NoReply]
    BY <1>4 DEF ShortAnswer, Resumes
  <2> QED
    BY <1>4, <2>1, <2>2, <2>3, AnswerUsed
<1>5. ASSUME NEW r \in Ranges, Recorded,
             Bisect(r) \/ MarkDead(r) \/ ReadFails(r) \/ DeviceRefuses(r)
      PROVE  MirrorInv' /\ UNCHANGED Mirror!mirrorVars
  <2>1. reply' = [reply EXCEPT ![r] = NoReply] /\ dev' = dev /\ latest' = latest /\ Polling(r)
    BY <1>5 DEF Bisect, MarkDead, ReadFails, DeviceRefuses, Resumes
  <2>2. \A s \in Ranges \ {r} : poll'[s] = poll[s]
    <3>1. CASE MarkDead(r)
      <4>1. Answered(r) \in PollState
        BY <1>1, <2>1, InFlightType DEF TypeInv
      <4> QED
        BY <1>1, <3>1, <4>1, ProceedType DEF MarkDead
    <3>2. CASE ~MarkDead(r)
      BY <1>1, <1>5, <3>2 DEF Bisect, ReadFails, DeviceRefuses, Wait, Sleep
    <3> QED
      BY <3>1, <3>2
  <2> QED
    BY <1>5, <2>1, <2>2, AnswerDropped
<1>6. ASSUME NEW r \in Ranges, BeginPoll(r), Recorded
      PROVE  MirrorInv' /\ UNCHANGED Mirror!mirrorVars
  <2>1. reply' = reply /\ reply[r] = NoReply /\ dev' = dev /\ latest' = latest
    BY <1>6 DEF BeginPoll, DeadInv, ReplyInv
  <2>2. reply' = [reply EXCEPT ![r] = NoReply]
    BY <1>1, <2>1 DEF TypeOK
  <2>3. AtStart(r) \in PollState
    <3>1. <<>> \in Seq(Segment) /\ ScanRange[r].start \in Nat
      BY SettingsType
    <3> QED
      BY <3>1 DEF AtStart, PollState
  <2>4. \A s \in Ranges \ {r} : poll'[s] = poll[s]
    BY <1>1, <1>6, <2>3, ProceedType DEF BeginPoll
  <2> QED
    BY <1>6, <2>1, <2>2, <2>4, AnswerDropped
<1>7. ASSUME NEW r \in Ranges, DeviceAnswers(r), Recorded
      PROVE  MirrorInv' /\ UNCHANGED Mirror!mirrorVars
  BY <1>7, AnswerGiven
<1>8. ASSUME DeviceChanges \/ DeviceStarts, Recorded
      PROVE  MirrorInv' /\ (Mirror!MirrorNext \/ UNCHANGED Mirror!mirrorVars)
  <2>1. reply' = reply /\ latest' = latest /\ poll' = poll
    BY <1>8 DEF DeviceChanges, DeviceStarts
  <2>2. \A r \in Ranges : InFlight(r)' = InFlight(r)
    BY <2>1 DEF InFlight
  <2> QED
    BY <1>1, <1>8, <2>1, <2>2, DeviceMoved
<1>9. CASE UNCHANGED historyVars
  <2>1. /\ UNCHANGED <<past, asOf, since, dev, reply, latest, poll>>
    BY <1>9 DEF historyVars, vars
  <2>2. MirrorInv'
    BY <2>1 DEF MirrorInv, PastInv, OneAnswer, AnswerInv, Words, InFlight, Span
  <2> QED
    BY <2>1, <2>2 DEF Mirror!mirrorVars
<1>10. CASE HistoryNext
  <2>1. Recorded /\ Next
    BY <1>10 DEF HistoryNext
  <2> QED
    BY <1>2, <1>3, <1>4, <1>5, <1>6, <1>7, <1>8, <2>1
       DEF Next, RangeStep, TakeAnswer, Mirror!MirrorNext
<1> QED
  BY <1>9, <1>10

(* The scanner implements the abstract mirror: whatever the device does    *)
(* while an answer is on its way, and with overlaps, failing reads and     *)
(* failing sinks, the table never shows what the device did not hold and   *)
(* never goes back in time.                                                *)
THEOREM ScannerIsMirror == HistorySpec => MirrorsDevice
<1>1. HistoryInit => Init
  BY DEF HistoryInit
<1>2. [HistoryNext]_historyVars => [Next]_vars
  BY DEF HistoryNext, historyVars
<1>3. HistorySpec => Spec
  BY <1>1, <1>2, PTL DEF HistorySpec, Spec
<1>4. Spec => []Inv /\ []DeadInv
  <2>1. Init => DeadInv
    BY DeadInit
  <2> QED
    BY <2>1, DeadStep, Invariance, PTL DEF Spec
<1> QED
  BY <1>3, <1>4, MirrorInvInit, MirrorStep, PTL DEF HistorySpec, MirrorsDevice, Mirror!MirrorSpec
=============================================================================
