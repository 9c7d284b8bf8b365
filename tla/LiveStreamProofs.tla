-------------------------- MODULE LiveStreamProofs --------------------------
(***************************************************************************)
(* Theorems about LiveStream, for any keys, pages, subscriptions, events,  *)
(* broken connections and capacities: nothing is missing on a connection   *)
(* that lasts, and no grid goes back.                                      *)
(***************************************************************************)
EXTENDS LiveStream, SequenceTheorems, TLAPS

(* Events of a key that come first are not newer than those that come      *)
(* after them.                                                             *)
NotNewer(e, f) == e.key = f.key => e.id <= f.id
Before(first, then) == \A e \in first, f \in then : NotNewer(e, f)
Sorted(q) == \A i, j \in DOMAIN q : i < j => NotNewer(q[i], q[j])

(* The table: the dictionary has a key once, and from its first event on.  *)
TableInv ==
  /\ \A k \in Key : latest[k] <= emitted
  /\ \A k \in Key : latest[k] # 0 <=> k \in Elements(keys)
  /\ \A i, j \in DOMAIN keys : keys[i] = keys[j] => i = j

(* What is on its way through one connection is in the order in which the  *)
(* values were new: what is sent before the snapshot, the snapshot before  *)
(* the queue.                                                              *)
Ordered(w, p, q) ==
  /\ Sorted(w) /\ Sorted(p) /\ Sorted(q)
  /\ Before(Elements(w), Elements(p))
  /\ Before(Elements(w), Elements(q))
  /\ Before(Elements(p), Elements(q))

OrderInv == \A s \in Sub : Ordered(wire[s], pending[s], queue[s])

OnWay(s) == Elements(wire[s]) \cup Elements(pending[s]) \cup Elements(queue[s])

(* No grid is ahead of the table or of what is on its way to it, and an    *)
(* answer of /api/state finds an empty one.                                *)
GridInv ==
  /\ \A s \in Sub : \A e \in OnWay(s) : e.id <= latest[e.key]
  /\ \A t \in Tab : \A i \in DOMAIN reply[t] : reply[t][i].id <= latest[reply[t][i].key]
  /\ \A t \in Tab, k \in Key : rows[t][k] <= latest[k]
  /\ \A t \in Tab : page[t] \in {NotOpen, Booting} => \A k \in Key : rows[t][k] = 0
  /\ \A t \in Tab : page[t] \in Sub => \A e \in OnWay(page[t]) : rows[t][e.key] <= e.id

(* A page has a subscription of its own. *)
PageInv ==
  /\ gone \subseteq subscribed
  /\ \A t \in Tab : page[t] \in Sub => page[t] \in subscribed \ gone
  /\ \A t, u \in Tab : page[t] \in Sub /\ page[t] = page[u] => t = u

StreamInv ==
  /\ TypeOK
  /\ TableInv
  /\ KeepsNewest
  /\ OrderInv
  /\ GridInv
  /\ PageInv
  /\ NothingMissing

-----------------------------------------------------------------------------
LEMMA EventParts ==
  ASSUME NEW e \in Event
  PROVE  e.key \in Key /\ e.id \in Nat /\ e.id >= 1 /\ e.id <= MaxEvents
<1>1. MaxEvents \in Nat
  BY LiveStreamAssumption
<1>2. \A n \in 1 .. MaxEvents : n \in Nat /\ n >= 1 /\ n <= MaxEvents
  BY <1>1
<1>3. e.key \in Key /\ e.id \in 1 .. MaxEvents
  BY DEF Event
<1> QED
  BY <1>2, <1>3

LEMMA IndexRange ==
  ASSUME NEW q \in Seq(Event)
  PROVE  /\ DOMAIN q = 1 .. Len(q) /\ Len(q) \in Nat
         /\ \A i \in DOMAIN q : q[i] \in Event
         /\ \A e \in Elements(q) : e \in Event
BY LenProperties, ElementOfSeq DEF Elements

LEMMA EmptyWay ==
  /\ Elements(<<>>) = {}
  /\ Sorted(<<>>)
  /\ <<>> \in Seq(Event)
  /\ Len(<<>>) = 0
<1>1. <<>> \in Seq(Event) /\ Len(<<>>) = 0 /\ DOMAIN <<>> = {}
  BY EmptySeq
<1> QED
  BY <1>1 DEF Elements, Sorted

(* The next one leaves a sequence. *)
LEMMA TakeOff ==
  ASSUME NEW q \in Seq(Event), q # <<>>
  PROVE  /\ Head(q) \in Event /\ Tail(q) \in Seq(Event)
         /\ Len(q) \in Nat /\ Len(q) >= 1 /\ Len(Tail(q)) = Len(q) - 1
         /\ \A i \in 1 .. (Len(q) - 1) : Tail(q)[i] = q[i + 1]
         /\ Elements(q) = {Head(q)} \cup Elements(Tail(q))
         /\ Sorted(q) => Sorted(Tail(q)) /\ Before({Head(q)}, Elements(Tail(q)))
<1>1. /\ Head(q) \in Event /\ Head(q) = q[1]
      /\ Tail(q) \in Seq(Event)
      /\ Len(q) \in Nat /\ Len(q) >= 1
      /\ Len(Tail(q)) = Len(q) - 1
      /\ \A i \in 1 .. (Len(q) - 1) : Tail(q)[i] = q[i + 1]
  BY HeadTailProperties, EmptySeq, LenProperties, ElementOfSeq
<1>2. DOMAIN q = 1 .. Len(q) /\ DOMAIN Tail(q) = 1 .. (Len(q) - 1)
  BY <1>1, IndexRange
<1>3. Elements(q) = {Head(q)} \cup Elements(Tail(q))
  <2>1. ASSUME NEW e \in Elements(q) PROVE e \in {Head(q)} \cup Elements(Tail(q))
    <3>1. PICK i \in 1 .. Len(q) : q[i] = e
      BY <1>2 DEF Elements
    <3>2. CASE i = 1
      BY <1>1, <3>1, <3>2
    <3>3. CASE i # 1
      <4>1. i - 1 \in 1 .. (Len(q) - 1) /\ Tail(q)[i - 1] = e
        BY <1>1, <3>1, <3>3
      <4> QED
        BY <1>2, <4>1 DEF Elements
    <3> QED
      BY <3>2, <3>3
  <2>2. ASSUME NEW e \in Elements(Tail(q)) PROVE e \in Elements(q)
    <3>1. PICK i \in 1 .. (Len(q) - 1) : Tail(q)[i] = e
      BY <1>2 DEF Elements
    <3>2. i + 1 \in 1 .. Len(q) /\ q[i + 1] = e
      BY <1>1, <3>1
    <3> QED
      BY <1>2, <3>2 DEF Elements
  <2>3. Head(q) \in Elements(q)
    <3>1. 1 \in 1 .. Len(q)
      BY <1>1
    <3> QED
      BY <1>1, <1>2, <3>1 DEF Elements
  <2> QED
    BY <2>1, <2>2, <2>3
<1>4. ASSUME Sorted(q) PROVE Sorted(Tail(q)) /\ Before({Head(q)}, Elements(Tail(q)))
  <2>1. ASSUME NEW i \in DOMAIN Tail(q), NEW j \in DOMAIN Tail(q), i < j
        PROVE  NotNewer(Tail(q)[i], Tail(q)[j])
    <3>1. /\ i + 1 \in DOMAIN q /\ j + 1 \in DOMAIN q /\ i + 1 < j + 1
          /\ Tail(q)[i] = q[i + 1] /\ Tail(q)[j] = q[j + 1]
      BY <1>1, <1>2, <2>1
    <3> QED
      BY <1>4, <3>1 DEF Sorted
  <2>2. ASSUME NEW e \in Elements(Tail(q)) PROVE NotNewer(Head(q), e)
    <3>1. PICK i \in DOMAIN Tail(q) : Tail(q)[i] = e
      BY DEF Elements
    <3>2. /\ 1 \in DOMAIN q /\ i + 1 \in DOMAIN q /\ 1 < i + 1
          /\ Head(q) = q[1] /\ e = q[i + 1]
      BY <1>1, <1>2, <3>1
    <3> QED
      BY <1>4, <3>2 DEF Sorted
  <2> QED
    BY <2>1, <2>2 DEF Sorted, Before
<1> QED
  BY <1>1, <1>3, <1>4

(* One more at the end. *)
LEMMA PutOn ==
  ASSUME NEW q \in Seq(Event), NEW e \in Event
  PROVE  /\ Append(q, e) \in Seq(Event)
         /\ Len(q) \in Nat /\ Len(Append(q, e)) = Len(q) + 1
         /\ \A i \in 1 .. Len(q) : Append(q, e)[i] = q[i]
         /\ Append(q, e)[Len(q) + 1] = e
         /\ Elements(Append(q, e)) = Elements(q) \cup {e}
         /\ Sorted(q) /\ Before(Elements(q), {e}) => Sorted(Append(q, e))
<1> DEFINE a == Append(q, e)
<1>1. /\ a \in Seq(Event) /\ Len(q) \in Nat /\ Len(a) = Len(q) + 1
      /\ \A i \in 1 .. Len(q) : a[i] = q[i]
      /\ a[Len(q) + 1] = e
  BY AppendProperties, LenProperties
<1>2. DOMAIN q = 1 .. Len(q) /\ DOMAIN a = 1 .. (Len(q) + 1)
  BY <1>1, IndexRange
<1> HIDE DEF a
<1>3. \A i \in DOMAIN a : i \in DOMAIN q \/ i = Len(q) + 1
  BY <1>1, <1>2
<1>4. DOMAIN q \subseteq DOMAIN a /\ Len(q) + 1 \in DOMAIN a
  BY <1>1, <1>2
<1>5. Elements(a) = Elements(q) \cup {e}
  BY <1>1, <1>2, <1>3, <1>4 DEF Elements
<1>6. ASSUME Sorted(q), Before(Elements(q), {e}) PROVE Sorted(a)
  <2>1. ASSUME NEW i \in DOMAIN a, NEW j \in DOMAIN a, i < j PROVE NotNewer(a[i], a[j])
    <3>1. i \in DOMAIN q /\ a[i] = q[i]
      BY <1>1, <1>2, <2>1
    <3>2. CASE j \in DOMAIN q
      BY <1>1, <1>2, <1>6, <2>1, <3>1, <3>2 DEF Sorted
    <3>3. CASE j = Len(q) + 1
      BY <1>1, <1>6, <3>1, <3>3 DEF Before, Elements
    <3> QED
      BY <1>3, <3>2, <3>3
  <2> QED
    BY <2>1 DEF Sorted
<1> QED
  BY <1>1, <1>5, <1>6 DEF a

(* A new event is offered to a queue: it goes in, and what makes room is   *)
(* the oldest.                                                             *)
LEMMA OfferKeeps ==
  ASSUME NEW q \in Seq(Event), NEW e \in Event, Len(q) <= Capacity,
         Sorted(q), Before(Elements(q), {e})
  PROVE  LET o == Offer(q, e) IN
         /\ o \in Seq(Event) /\ Len(o) <= Capacity
         /\ e \in Elements(o) /\ Elements(o) \subseteq Elements(q) \cup {e}
         /\ Sorted(o)
         /\ Full(q) => Elements(q) \subseteq Elements(o) \cup {Head(q)}
         /\ ~Full(q) => Elements(q) \subseteq Elements(o)
         /\ o[Len(o)] = e /\ Len(o) >= 1
         /\ \A i \in 1 .. (Len(o) - 1) : o[i] = IF Full(q) THEN q[i + 1] ELSE q[i]
         /\ Len(o) = IF Full(q) THEN Len(q) ELSE Len(q) + 1
<1> DEFINE o == Offer(q, e)
<1>1. Capacity \in Nat /\ Capacity >= 1 /\ Len(q) \in Nat
  BY LiveStreamAssumption, LenProperties
<1>2. CASE Full(q)
  <2>1. q # <<>>
    BY <1>1, <1>2, EmptySeq DEF Full
  <2>2. o = Append(Tail(q), e)
    BY <1>2 DEF Offer
  <2>3. /\ Tail(q) \in Seq(Event) /\ Len(Tail(q)) = Len(q) - 1
        /\ Elements(q) = {Head(q)} \cup Elements(Tail(q)) /\ Sorted(Tail(q))
        /\ \A i \in 1 .. (Len(q) - 1) : Tail(q)[i] = q[i + 1]
    BY <2>1, TakeOff
  <2>4. Before(Elements(Tail(q)), {e})
    BY <2>3 DEF Before
  <2>5. /\ o \in Seq(Event) /\ Len(o) = Len(q) /\ Sorted(o)
        /\ Elements(o) = Elements(Tail(q)) \cup {e}
        /\ \A i \in 1 .. (Len(q) - 1) : o[i] = Tail(q)[i]
        /\ o[Len(q)] = e
    <3> DEFINE r == Tail(q)
    <3>1. r \in Seq(Event) /\ Sorted(r) /\ Before(Elements(r), {e}) /\ Len(r) = Len(q) - 1
      BY <2>3, <2>4
    <3>2. o = Append(r, e)
      BY <2>2
    <3> HIDE DEF r, o
    <3>3. /\ o \in Seq(Event) /\ Len(o) = Len(r) + 1 /\ Sorted(o)
          /\ Elements(o) = Elements(r) \cup {e}
          /\ \A i \in 1 .. Len(r) : o[i] = r[i]
          /\ o[Len(r) + 1] = e
      BY <3>1, <3>2, PutOn
    <3>4. Len(r) + 1 = Len(q)
      BY <1>1, <3>1
    <3> QED
      BY <3>1, <3>3, <3>4 DEF r
  <2>6. Len(q) >= 1
    BY <1>1, <1>2 DEF Full
  <2> QED
    BY <1>1, <1>2, <2>3, <2>5, <2>6
<1>3. CASE ~Full(q)
  <2>1. o = Append(q, e)
    BY <1>3 DEF Offer
  <2>2. /\ o \in Seq(Event) /\ Len(o) = Len(q) + 1 /\ Sorted(o)
        /\ Elements(o) = Elements(q) \cup {e}
        /\ \A i \in 1 .. Len(q) : o[i] = q[i]
        /\ o[Len(q) + 1] = e
    BY <2>1, PutOn
  <2>3. Len(q) + 1 <= Capacity
    BY <1>1, <1>3 DEF Full
  <2> QED
    BY <1>1, <1>3, <2>2, <2>3
<1> QED
  BY <1>2, <1>3

-----------------------------------------------------------------------------
(* The four things that happen to what is on its way. *)
LEMMA SnapshotMoves ==
  ASSUME NEW w \in Seq(Event), NEW p \in Seq(Event), NEW q \in Seq(Event),
         Ordered(w, p, q), p # <<>>
  PROVE  /\ Ordered(Append(w, Head(p)), Tail(p), q)
         /\ Elements(Append(w, Head(p))) \cup Elements(Tail(p)) = Elements(w) \cup Elements(p)
<1>1. /\ Head(p) \in Event /\ Tail(p) \in Seq(Event) /\ Sorted(Tail(p))
      /\ Elements(p) = {Head(p)} \cup Elements(Tail(p))
      /\ Before({Head(p)}, Elements(Tail(p)))
  BY TakeOff DEF Ordered
<1>2. Before(Elements(w), {Head(p)})
  BY <1>1 DEF Ordered, Before
<1>3. /\ Sorted(Append(w, Head(p)))
      /\ Elements(Append(w, Head(p))) = Elements(w) \cup {Head(p)}
  <2> DEFINE e == Head(p)
  <2>1. e \in Event /\ Sorted(w) /\ Before(Elements(w), {e})
    BY <1>1, <1>2 DEF Ordered
  <2> HIDE DEF e
  <2>2. Sorted(Append(w, e)) /\ Elements(Append(w, e)) = Elements(w) \cup {e}
    BY <2>1, PutOn
  <2> QED
    BY <2>2 DEF e
<1> QED
  BY <1>1, <1>3 DEF Ordered, Before

LEMMA EventMoves ==
  ASSUME NEW w \in Seq(Event), NEW q \in Seq(Event),
         Ordered(w, <<>>, q), q # <<>>
  PROVE  /\ Ordered(Append(w, Head(q)), <<>>, Tail(q))
         /\ Elements(Append(w, Head(q))) \cup Elements(Tail(q)) = Elements(w) \cup Elements(q)
<1>1. Ordered(w, q, <<>>)
  BY EmptyWay DEF Ordered, Before
<1>2. <<>> \in Seq(Event)
  BY EmptyWay
<1>3. /\ Ordered(Append(w, Head(q)), Tail(q), <<>>)
      /\ Elements(Append(w, Head(q))) \cup Elements(Tail(q)) = Elements(w) \cup Elements(q)
  BY <1>1, <1>2, SnapshotMoves
<1> QED
  BY <1>3, EmptyWay DEF Ordered, Before

LEMMA FirstArrives ==
  ASSUME NEW w \in Seq(Event), NEW p \in Seq(Event), NEW q \in Seq(Event),
         Ordered(w, p, q), w # <<>>
  PROVE  /\ Ordered(Tail(w), p, q)
         /\ Elements(w) = {Head(w)} \cup Elements(Tail(w))
         /\ Before({Head(w)}, Elements(Tail(w)) \cup Elements(p) \cup Elements(q))
<1>1. /\ Sorted(Tail(w))
      /\ Elements(w) = {Head(w)} \cup Elements(Tail(w))
      /\ Before({Head(w)}, Elements(Tail(w)))
  BY TakeOff DEF Ordered
<1> QED
  BY <1>1 DEF Ordered, Before

LEMMA NewestComes ==
  ASSUME NEW w \in Seq(Event), NEW p \in Seq(Event), NEW q \in Seq(Event), NEW e \in Event,
         Ordered(w, p, q), Len(q) <= Capacity,
         Before(Elements(w) \cup Elements(p) \cup Elements(q), {e})
  PROVE  Ordered(w, p, Offer(q, e))
<1>1. Sorted(q) /\ Before(Elements(q), {e})
  BY DEF Ordered, Before
<1>2. Sorted(Offer(q, e)) /\ Elements(Offer(q, e)) \subseteq Elements(q) \cup {e}
  BY <1>1, OfferKeeps
<1> QED
  BY <1>2 DEF Ordered, Before

(* The snapshot has the newest value of every key once. *)
LEMMA SnapshotIsNewest ==
  ASSUME TypeOK, TableInv
  PROVE  /\ Snapshot \in Seq(Event)
         /\ Sorted(Snapshot)
         /\ \A i \in DOMAIN Snapshot : Snapshot[i].id = latest[Snapshot[i].key]
         /\ \A e \in Elements(Snapshot) : e.id = latest[e.key]
         /\ \A k \in Key : latest[k] # 0 =>
              [key |-> k, id |-> latest[k]] \in Elements(Snapshot)
<1>1. /\ Len(keys) \in Nat /\ DOMAIN keys = 1 .. Len(keys)
      /\ \A i \in 1 .. Len(keys) : keys[i] \in Key
  <2>1. keys \in Seq(Key)
    BY DEF TypeOK
  <2> QED
    BY <2>1, LenProperties, ElementOfSeq
<1>2. \A i \in 1 .. Len(keys) : latest[keys[i]] # 0
  BY <1>1 DEF TableInv, Elements
<1>3. \A k \in Key : latest[k] # 0 => latest[k] \in 1 .. MaxEvents
  <2>1. MaxEvents \in Nat /\ \A k \in Key : latest[k] \in 0 .. MaxEvents
    BY LiveStreamAssumption DEF TypeOK
  <2> QED
    BY <2>1
<1>4. \A i \in 1 .. Len(keys) : [key |-> keys[i], id |-> latest[keys[i]]] \in Event
  BY <1>1, <1>2, <1>3 DEF Event
<1>5. Snapshot \in Seq(Event) /\ DOMAIN Snapshot = 1 .. Len(keys)
  <2>1. Snapshot \in [1 .. Len(keys) -> Event]
    BY <1>4 DEF Snapshot
  <2> QED
    BY <1>1, <2>1, SeqDef
<1>6. \A i \in 1 .. Len(keys) : Snapshot[i] = [key |-> keys[i], id |-> latest[keys[i]]]
  BY DEF Snapshot
<1>7. \A i \in DOMAIN Snapshot : Snapshot[i].key = keys[i] /\ Snapshot[i].id = latest[keys[i]]
  BY <1>5, <1>6
<1>8. Sorted(Snapshot)
  <2>1. ASSUME NEW i \in DOMAIN Snapshot, NEW j \in DOMAIN Snapshot
        PROVE  NotNewer(Snapshot[i], Snapshot[j])
    <3>1. Snapshot[i].key = Snapshot[j].key => Snapshot[i].id = Snapshot[j].id
      BY <1>7
    <3>2. Snapshot[i].id \in Nat /\ Snapshot[j].id \in Nat
      <4>1. Snapshot[i] \in Event /\ Snapshot[j] \in Event
        BY <1>4, <1>5, <1>6
      <4> QED
        BY <4>1, EventParts
    <3> QED
      BY <3>1, <3>2 DEF NotNewer
  <2> QED
    BY <2>1 DEF Sorted
<1>9. ASSUME NEW k \in Key, latest[k] # 0
      PROVE  [key |-> k, id |-> latest[k]] \in Elements(Snapshot)
  <2>1. PICK i \in 1 .. Len(keys) : keys[i] = k
    BY <1>1, <1>9 DEF TableInv, Elements
  <2> QED
    BY <1>5, <1>6, <2>1 DEF Elements
<1>10. \A e \in Elements(Snapshot) : e.id = latest[e.key]
  BY <1>7 DEF Elements
<1> QED
  BY <1>5, <1>7, <1>8, <1>9, <1>10
-----------------------------------------------------------------------------
LEMMA Numbers ==
  ASSUME TypeOK
  PROVE  /\ MaxEvents \in Nat /\ emitted \in Nat /\ emitted <= MaxEvents
         /\ \A k \in Key : latest[k] \in Nat
         /\ \A t \in Tab, k \in Key : rows[t][k] \in Nat
         /\ \A s \in Sub : /\ wire[s] \in Seq(Event) /\ pending[s] \in Seq(Event)
                           /\ queue[s] \in Seq(Event) /\ Len(queue[s]) <= Capacity
         /\ \A s \in Sub : \A e \in OnWay(s) : e \in Event
<1>1. MaxEvents \in Nat
  BY LiveStreamAssumption
<1>2. \A n \in 0 .. MaxEvents : n \in Nat /\ n <= MaxEvents
  BY <1>1
<1>3. \A s \in Sub : /\ wire[s] \in Seq(Event) /\ pending[s] \in Seq(Event)
                     /\ queue[s] \in Seq(Event) /\ Len(queue[s]) <= Capacity
  BY DEF TypeOK
<1>4. \A s \in Sub : \A e \in OnWay(s) : e \in Event
  BY <1>3, IndexRange DEF OnWay
<1> QED
  BY <1>1, <1>2, <1>3, <1>4 DEF TypeOK

LEMMA Initially == Init => StreamInv
<1> SUFFICES ASSUME Init PROVE StreamInv
  OBVIOUS
<1>1. \A s \in Sub : wire[s] = <<>> /\ pending[s] = <<>> /\ queue[s] = <<>>
  BY DEF Init
<1>2. /\ MaxEvents \in Nat /\ MaxDrops \in Nat /\ WireCapacity \in Nat /\ Capacity \in Nat
      /\ 0 \in 0 .. MaxEvents /\ 0 \in 0 .. MaxDrops
  BY LiveStreamAssumption
<1>3. \A t \in Tab : page[t] = NotOpen /\ NotOpen \notin Sub
  BY LiveStreamAssumption DEF Init
<1>4. TypeOK
  <2>1. <<>> \in Seq(Key) /\ keys = <<>>
    BY EmptySeq DEF Init
  <2>2. /\ wire \in [Sub -> Seq(Event)] /\ pending \in [Sub -> Seq(Event)]
        /\ queue \in [Sub -> Seq(Event)] /\ reply \in [Tab -> Seq(Event)]
    BY EmptyWay DEF Init
  <2>3. \A s \in Sub : Len(queue[s]) <= Capacity /\ Len(wire[s]) <= WireCapacity
    BY <1>1, <1>2, EmptyWay
  <2> QED
    BY <1>2, <2>1, <2>2, <2>3 DEF Init, TypeOK
<1>5. TableInv
  <2>1. DOMAIN keys = {}
    BY EmptySeq DEF Init
  <2> QED
    BY <2>1 DEF Init, TableInv, Elements
<1>6. KeepsNewest
  BY DEF Init, KeepsNewest
<1>7. OrderInv
  BY <1>1, EmptyWay DEF OrderInv, Ordered, Before
<1>8. GridInv
  <2>1. \A s \in Sub : OnWay(s) = {}
    BY <1>1, EmptyWay DEF OnWay
  <2>2. \A t \in Tab : DOMAIN reply[t] = {}
    BY EmptySeq DEF Init
  <2>3. \A t \in Tab, k \in Key : rows[t][k] = 0 /\ latest[k] = 0
    BY DEF Init
  <2> QED
    BY <1>3, <2>1, <2>2, <2>3 DEF GridInv
<1>9. PageInv /\ NothingMissing
  BY <1>3 DEF Init, PageInv, NothingMissing
<1> QED
  BY <1>4, <1>5, <1>6, <1>7, <1>8, <1>9 DEF StreamInv

(* A new event goes into the table and into every queue. *)
LEMMA EmitKeeps ==
  ASSUME StreamInv, NEW k \in Key, Emit(k)
  PROVE  StreamInv'
<1> USE DEF StreamInv
<1> DEFINE e == [key |-> k, id |-> emitted + 1]
<1>0. /\ MaxEvents \in Nat /\ emitted \in Nat /\ emitted + 1 <= MaxEvents
      /\ \A j \in Key : latest[j] \in Nat /\ latest[j] <= emitted
      /\ \A s \in Sub : /\ wire[s] \in Seq(Event) /\ pending[s] \in Seq(Event)
                        /\ queue[s] \in Seq(Event) /\ Len(queue[s]) <= Capacity
      /\ \A s \in Sub : \A x \in OnWay(s) : x \in Event
      /\ \A t \in Tab, j \in Key : rows[t][j] \in Nat
  <2>1. emitted < MaxEvents
    BY DEF Emit
  <2> QED
    BY <2>1, Numbers DEF TableInv
<1>1. /\ emitted' = emitted + 1
      /\ latest' = [latest EXCEPT ![k] = emitted + 1]
      /\ keys' = (IF latest[k] = 0 THEN Append(keys, k) ELSE keys)
      /\ queue' = [s \in Sub |-> IF s \in subscribed THEN Offer(queue[s], e) ELSE queue[s]]
      /\ lost' = [s \in Sub |-> IF s \in subscribed /\ Full(queue[s])
                                THEN lost[s] \cup {Head(queue[s])} ELSE lost[s]]
      /\ UNCHANGED <<subscribed, pending, gone, wire, page, reply, rows, drops>>
  BY DEF Emit, browser
<1>2. e \in Event /\ e.key = k /\ e.id = emitted + 1
  <2>1. emitted + 1 \in 1 .. MaxEvents
    BY <1>0
  <2> QED
    BY <2>1 DEF Event
<1> HIDE DEF e
<1>3. /\ \A j \in Key : latest'[j] \in Nat /\ latest[j] <= latest'[j] /\ latest'[j] <= emitted'
      /\ \A j \in Key : j # k => latest'[j] = latest[j]
      /\ latest'[k] = emitted + 1
  BY <1>0, <1>1 DEF TypeOK
<1>4. ASSUME NEW s \in Sub PROVE Before(OnWay(s), {e})
  <2>1. ASSUME NEW x \in OnWay(s), x.key = e.key PROVE x.id <= e.id
    <3>1. x \in Event /\ x.id <= latest[x.key]
      BY <1>0 DEF GridInv
    <3>2. x.id \in Nat /\ latest[k] \in Nat /\ latest[k] <= emitted
      BY <1>0, <3>1, EventParts
    <3> QED
      BY <1>0, <1>2, <2>1, <3>1, <3>2
  <2> QED
    BY <2>1 DEF Before, NotNewer
<1>5. ASSUME NEW s \in subscribed
      PROVE  LET q == queue[s]  o == queue'[s] IN
             /\ o = Offer(q, e)
             /\ o \in Seq(Event) /\ Len(o) <= Capacity
             /\ e \in Elements(o) /\ Elements(o) \subseteq Elements(q) \cup {e}
             /\ Full(q) => Elements(q) \subseteq Elements(o) \cup {Head(q)}
             /\ ~Full(q) => Elements(q) \subseteq Elements(o)
             /\ o[Len(o)] = e /\ Len(o) >= 1
             /\ \A i \in 1 .. (Len(o) - 1) : o[i] = IF Full(q) THEN q[i + 1] ELSE q[i]
             /\ Len(o) = IF Full(q) THEN Len(q) ELSE Len(q) + 1
  <2> DEFINE q == queue[s]
  <2>1. s \in Sub
    BY DEF TypeOK
  <2>2. queue'[s] = Offer(q, e)
    BY <1>1, <2>1
  <2>3. q \in Seq(Event) /\ Len(q) <= Capacity /\ Sorted(q) /\ Before(Elements(q), {e})
    BY <1>0, <1>4, <2>1 DEF OrderInv, Ordered, OnWay, Before
  <2> HIDE DEF q
  <2>4. LET o == Offer(q, e) IN
        /\ o \in Seq(Event) /\ Len(o) <= Capacity
        /\ e \in Elements(o) /\ Elements(o) \subseteq Elements(q) \cup {e}
        /\ Sorted(o)
        /\ Full(q) => Elements(q) \subseteq Elements(o) \cup {Head(q)}
        /\ ~Full(q) => Elements(q) \subseteq Elements(o)
        /\ o[Len(o)] = e /\ Len(o) >= 1
        /\ \A i \in 1 .. (Len(o) - 1) : o[i] = IF Full(q) THEN q[i + 1] ELSE q[i]
        /\ Len(o) = IF Full(q) THEN Len(q) ELSE Len(q) + 1
    BY <1>2, <2>3, OfferKeeps
  <2> QED
    BY <2>2, <2>4 DEF q
<1>6. ASSUME NEW s \in Sub
      PROVE  /\ queue'[s] \in Seq(Event) /\ Len(queue'[s]) <= Capacity
             /\ OnWay(s)' \subseteq OnWay(s) \cup {e}
             /\ s \notin subscribed => queue'[s] = queue[s]
  <2>1. s \notin subscribed => queue'[s] = queue[s]
    BY <1>1
  <2>2. OnWay(s)' = Elements(wire[s]) \cup Elements(pending[s]) \cup Elements(queue'[s])
    BY <1>1 DEF OnWay
  <2> QED
    BY <1>0, <1>5, <2>1, <2>2 DEF OnWay
<1>7. TypeOK'
  <2>1. emitted' \in 0 .. MaxEvents
    BY <1>0, <1>1
  <2>2. latest' \in [Key -> 0 .. MaxEvents]
    BY <1>0, <1>1, <2>1 DEF TypeOK
  <2>3. keys' \in Seq(Key)
    BY <1>1, AppendProperties DEF TypeOK
  <2>4. queue' \in [Sub -> Seq(Event)] /\ \A s \in Sub : Len(queue'[s]) <= Capacity
    BY <1>1, <1>6
  <2>5. lost' \in [Sub -> SUBSET Event]
    <3>1. ASSUME NEW s \in Sub, Full(queue[s]) PROVE Head(queue[s]) \in Event
      <4> DEFINE q == queue[s]
      <4>1. q \in Seq(Event) /\ q # <<>>
        BY <1>0, <3>1, EmptySeq, LiveStreamAssumption DEF Full
      <4> HIDE DEF q
      <4>2. Head(q) \in Event
        BY <4>1, TakeOff
      <4> QED
        BY <4>2 DEF q
    <3>2. \A s \in Sub : lost[s] \in SUBSET Event
      BY DEF TypeOK
    <3> QED
      BY <1>1, <3>1, <3>2
  <2> QED
    BY <1>1, <2>1, <2>2, <2>3, <2>4, <2>5 DEF TypeOK
<1>8. TableInv'
  <2>1. keys \in Seq(Key) /\ Len(keys) \in Nat /\ DOMAIN keys = 1 .. Len(keys)
    BY LenProperties DEF TypeOK
  <2>2. CASE latest[k] # 0
    BY <1>0, <1>1, <1>3, <2>2 DEF TableInv, Elements
  <2>3. CASE latest[k] = 0
    <3>1. /\ keys' \in Seq(Key) /\ Len(keys') = Len(keys) + 1
          /\ \A i \in 1 .. Len(keys) : keys'[i] = keys[i]
          /\ keys'[Len(keys) + 1] = k
      BY <1>1, <2>1, <2>3, AppendProperties
    <3>2. /\ DOMAIN keys' = 1 .. (Len(keys) + 1)
          /\ \A i \in DOMAIN keys' : i \in DOMAIN keys \/ i = Len(keys) + 1
          /\ DOMAIN keys \subseteq DOMAIN keys' /\ Len(keys) + 1 \in DOMAIN keys'
      BY <2>1, <3>1, LenProperties
    <3>3. k \notin Elements(keys)
      BY <2>3 DEF TableInv
    <3>4. Elements(keys)' = Elements(keys) \cup {k}
      BY <2>1, <3>1, <3>2 DEF Elements
    <3>5. \A i, j \in DOMAIN keys' : keys'[i] = keys'[j] => i = j
      BY <2>1, <3>1, <3>2, <3>3 DEF TableInv, Elements
    <3>6. \A j \in Key : latest'[j] # 0 <=> j \in Elements(keys)'
      BY <1>0, <1>3, <3>4 DEF TableInv
    <3> QED
      BY <1>3, <3>5, <3>6 DEF TableInv
  <2> QED
    BY <2>2, <2>3
<1>9. KeepsNewest'
  <2> SUFFICES ASSUME NEW s \in subscribed', NEW i \in DOMAIN queue'[s]
               PROVE  queue'[s][i].id = emitted' - Len(queue'[s]) + i
    BY DEF KeepsNewest
  <2> DEFINE q == queue[s]
             o == queue'[s]
  <2>1. s \in subscribed /\ s \in Sub
    BY <1>1 DEF TypeOK
  <2>2. /\ o \in Seq(Event) /\ o[Len(o)] = e /\ Len(o) >= 1
        /\ \A j \in 1 .. (Len(o) - 1) : o[j] = IF Full(q) THEN q[j + 1] ELSE q[j]
        /\ Len(o) = IF Full(q) THEN Len(q) ELSE Len(q) + 1
    BY <1>5, <2>1
  <2>3. /\ q \in Seq(Event) /\ Len(q) \in Nat /\ DOMAIN q = 1 .. Len(q)
        /\ \A j \in DOMAIN q : q[j].id = emitted - Len(q) + j
    BY <1>0, <2>1, IndexRange DEF KeepsNewest
  <2>4. Len(o) \in Nat /\ DOMAIN o = 1 .. Len(o)
    BY <2>2, IndexRange
  <2>5. i \in 1 .. Len(o)
    BY <2>4
  <2> HIDE DEF q, o
  <2>6. o[i].id = (emitted + 1) - Len(o) + i
    <3>1. CASE i = Len(o)
      BY <1>0, <1>2, <2>2, <2>4, <3>1
    <3>2. CASE i # Len(o) /\ Full(q)
      <4>1. o[i] = q[i + 1] /\ i + 1 \in DOMAIN q /\ Len(o) = Len(q)
        BY <2>2, <2>3, <2>4, <2>5, <3>2
      <4>2. o[i].id = emitted - Len(q) + (i + 1)
        BY <2>3, <4>1
      <4> QED
        BY <1>0, <2>3, <2>4, <2>5, <4>1, <4>2
    <3>3. CASE i # Len(o) /\ ~Full(q)
      <4>1. o[i] = q[i] /\ i \in DOMAIN q /\ Len(o) = Len(q) + 1
        BY <2>2, <2>3, <2>4, <2>5, <3>3
      <4>2. o[i].id = emitted - Len(q) + i
        BY <2>3, <4>1
      <4> QED
        BY <1>0, <2>3, <2>4, <2>5, <4>1, <4>2
    <3> QED
      BY <3>1, <3>2, <3>3
  <2>7. emitted' = emitted + 1
    BY <1>1
  <2> QED
    BY <2>6, <2>7 DEF o
<1>10. OrderInv'
  <2> SUFFICES ASSUME NEW s \in Sub PROVE Ordered(wire'[s], pending'[s], queue'[s])
    BY DEF OrderInv
  <2>1. Ordered(wire[s], pending[s], queue[s])
    BY DEF OrderInv
  <2>2. CASE s \notin subscribed
    BY <1>1, <1>6, <2>1, <2>2
  <2>3. CASE s \in subscribed
    <3>1. queue'[s] = Offer(queue[s], e)
      BY <1>5, <2>3
    <3>2. Before(Elements(wire[s]) \cup Elements(pending[s]) \cup Elements(queue[s]), {e})
      BY <1>4 DEF OnWay
    <3>3. Ordered(wire[s], pending[s], Offer(queue[s], e))
      BY <1>0, <1>2, <2>1, <3>2, NewestComes
    <3> QED
      BY <1>1, <3>1, <3>3
  <2> QED
    BY <2>2, <2>3
<1>11. GridInv'
  <2>1. ASSUME NEW s \in Sub, NEW x \in OnWay(s)' PROVE x.id <= latest'[x.key]
    <3>1. x \in OnWay(s) \/ x = e
      BY <1>6
    <3>2. CASE x = e
      BY <1>0, <1>2, <1>3, <3>2
    <3>3. CASE x \in OnWay(s)
      <4>1. x \in Event /\ x.id <= latest[x.key]
        BY <1>0, <3>3 DEF GridInv
      <4>2. x.key \in Key /\ x.id \in Nat
        BY <4>1, EventParts
      <4>3. latest[x.key] \in Nat /\ latest'[x.key] \in Nat /\ latest[x.key] <= latest'[x.key]
        BY <1>0, <1>3, <4>2
      <4> QED
        BY <4>1, <4>2, <4>3
    <3> QED
      BY <3>1, <3>2, <3>3
  <2>2. ASSUME NEW t \in Tab, NEW i \in DOMAIN reply'[t]
        PROVE  reply'[t][i].id <= latest'[reply'[t][i].key]
    <3> DEFINE x == reply[t][i]
    <3>1. reply[t] \in Seq(Event) /\ reply'[t] = reply[t]
      BY <1>1 DEF TypeOK
    <3>2. x \in Event /\ x.id <= latest[x.key]
      BY <3>1, IndexRange DEF GridInv
    <3>3. x.key \in Key /\ x.id \in Nat
      BY <3>2, EventParts
    <3>4. latest[x.key] \in Nat /\ latest'[x.key] \in Nat /\ latest[x.key] <= latest'[x.key]
      BY <1>0, <1>3, <3>3
    <3> HIDE DEF x
    <3>5. x.id <= latest'[x.key]
      BY <3>2, <3>3, <3>4
    <3> QED
      BY <3>1, <3>5 DEF x
  <2>3. ASSUME NEW t \in Tab, NEW j \in Key PROVE rows'[t][j] <= latest'[j]
    <3>1. rows[t][j] <= latest[j] /\ rows'[t][j] = rows[t][j]
      BY <1>1 DEF GridInv
    <3>2. rows[t][j] \in Nat /\ latest[j] \in Nat /\ latest'[j] \in Nat /\ latest[j] <= latest'[j]
      BY <1>0, <1>3
    <3> QED
      BY <3>1, <3>2
  <2>4. \A t \in Tab : page'[t] \in {NotOpen, Booting} => \A j \in Key : rows'[t][j] = 0
    BY <1>1 DEF GridInv
  <2>5. ASSUME NEW t \in Tab, page'[t] \in Sub, NEW x \in OnWay(page[t])'
        PROVE  rows'[t][x.key] <= x.id
    <3>1. page[t] \in Sub /\ rows' = rows /\ page'[t] = page[t]
      BY <1>1, <2>5
    <3>2. x \in OnWay(page[t]) \/ x = e
      <4>1. \A s \in Sub : x \in OnWay(s)' => x \in OnWay(s) \/ x = e
        BY <1>6
      <4> QED
        BY <2>5, <3>1, <4>1 DEF OnWay
    <3>3. CASE x \in OnWay(page[t])
      BY <3>1, <3>3 DEF GridInv
    <3>4. CASE x = e
      <4>1. rows[t][k] <= latest[k] /\ latest[k] <= emitted /\ rows[t][k] \in Nat /\ latest[k] \in Nat
        BY <1>0 DEF GridInv
      <4> QED
        BY <1>0, <1>2, <3>1, <3>4, <4>1
    <3> QED
      BY <3>2, <3>3, <3>4
  <2>6. \A t \in Tab : page'[t] = page[t]
    BY <1>1
  <2>7. ASSUME NEW t \in Tab, page'[t] \in Sub
        PROVE  \A x \in OnWay(page[t])' : rows'[t][x.key] <= x.id
    BY <2>5, <2>7
  <2> QED
    BY <2>1, <2>2, <2>3, <2>4, <2>7 DEF GridInv
<1>12. PageInv'
  BY <1>1 DEF PageInv
<1>13. NothingMissing'
  <2> SUFFICES ASSUME NEW t \in Tab, NEW j \in Key, page'[t] \in Sub, latest'[j] # 0,
                      NEW s, s = page'[t],
                      NEW x, x = [key |-> j, id |-> latest'[j]]
               PROVE  \/ rows'[t][j] = latest'[j]
                      \/ x \in Elements(pending'[s]) \cup Elements(queue'[s])
                               \cup Elements(wire'[s]) \cup lost'[s]
    BY DEF NothingMissing
  <2>1. s = page[t] /\ s \in subscribed /\ s \in Sub
    BY <1>1 DEF PageInv
  <2>2. CASE j = k
    <3>1. x = e
      BY <1>3, <2>2 DEF e
    <3> QED
      BY <1>5, <2>1, <3>1
  <2>3. CASE j # k
    <3>1. latest'[j] = latest[j]
      BY <1>3, <2>3
    <3>2. \/ rows[t][j] = latest[j]
          \/ x \in Elements(pending[s]) \cup Elements(queue[s]) \cup Elements(wire[s]) \cup lost[s]
      BY <2>1, <3>1 DEF NothingMissing
    <3>3. /\ Full(queue[s]) => Elements(queue[s]) \subseteq Elements(queue'[s]) \cup {Head(queue[s])}
          /\ ~Full(queue[s]) => Elements(queue[s]) \subseteq Elements(queue'[s])
      BY <1>5, <2>1
    <3>4. lost'[s] = IF Full(queue[s]) THEN lost[s] \cup {Head(queue[s])} ELSE lost[s]
      BY <1>1, <2>1
    <3>5. pending'[s] = pending[s] /\ wire'[s] = wire[s] /\ rows'[t][j] = rows[t][j]
      BY <1>1
    <3> QED
      BY <3>1, <3>2, <3>3, <3>4, <3>5
  <2> QED
    BY <2>2, <2>3
<1> QED
  BY <1>7, <1>8, <1>9, <1>10, <1>11, <1>12, <1>13


LEMMA OpenPageKeeps ==
  ASSUME StreamInv, NEW t \in Tab, OpenPage(t)
  PROVE  StreamInv'
<1> USE DEF StreamInv
<1>1. /\ page[t] = NotOpen
      /\ page' = [page EXCEPT ![t] = Booting] /\ reply' = [reply EXCEPT ![t] = Snapshot]
      /\ UNCHANGED <<emitted, latest, keys, subscribed, queue, pending, gone, lost, wire,
                     rows, drops>>
  BY DEF OpenPage, server
<1>2. /\ Snapshot \in Seq(Event)
      /\ \A i \in DOMAIN Snapshot : Snapshot[i].id = latest[Snapshot[i].key]
  BY SnapshotIsNewest
<1>3. /\ \A u \in Tab : page'[u] = IF u = t THEN Booting ELSE page[u]
      /\ \A u \in Tab : reply'[u] = IF u = t THEN Snapshot ELSE reply[u]
  BY <1>1 DEF TypeOK
<1>4. Booting \notin Sub
  BY LiveStreamAssumption
<1>5. TypeOK'
  BY <1>1, <1>2 DEF TypeOK
<1>6. TableInv' /\ KeepsNewest' /\ OrderInv'
  BY <1>1 DEF TableInv, KeepsNewest, OrderInv, Elements
<1>7. GridInv'
  <2>1. \A s \in Sub : OnWay(s)' = OnWay(s)
    BY <1>1 DEF OnWay
  <2>2. \A s \in Sub : \A e \in OnWay(s)' : e.id <= latest'[e.key]
    BY <1>1, <2>1 DEF GridInv
  <2>3. ASSUME NEW u \in Tab, NEW i \in DOMAIN reply'[u]
        PROVE  reply'[u][i].id <= latest'[reply'[u][i].key]
    <3>1. CASE u # t
      BY <1>1, <1>3, <3>1 DEF GridInv
    <3>2. CASE u = t
      <4>1. i \in DOMAIN Snapshot /\ reply'[u] = Snapshot /\ latest' = latest
        BY <1>1, <1>3, <3>2
      <4>2. Snapshot[i].id = latest[Snapshot[i].key] /\ Snapshot[i] \in Event
        BY <1>2, <4>1, IndexRange
      <4>3. latest[Snapshot[i].key] \in Nat
        BY <4>2, EventParts, Numbers
      <4> QED
        BY <4>1, <4>2, <4>3
    <3> QED
      BY <3>1, <3>2
  <2>4. \A u \in Tab : page'[u] \in {NotOpen, Booting} => \A k \in Key : rows'[u][k] = 0
    BY <1>1, <1>3 DEF GridInv
  <2>5. ASSUME NEW u \in Tab, page'[u] \in Sub
        PROVE  \A e \in OnWay(page[u])' : rows'[u][e.key] <= e.id
    <3>1. u # t /\ page'[u] = page[u]
      BY <1>3, <1>4, <2>5
    <3>2. OnWay(page[u])' = OnWay(page[u])
      BY <1>1, <3>1 DEF OnWay
    <3> QED
      BY <1>1, <2>5, <3>1, <3>2 DEF GridInv
  <2> QED
    BY <1>1, <2>2, <2>3, <2>4, <2>5 DEF GridInv
<1>8. PageInv' /\ NothingMissing'
  BY <1>1, <1>3, <1>4 DEF PageInv, NothingMissing
<1> QED
  BY <1>5, <1>6, <1>7, <1>8

(* The answer of /api/state goes into an empty grid. *)
LEMMA BootKeeps ==
  ASSUME StreamInv, NEW t \in Tab, Boot(t)
  PROVE  /\ StreamInv'
         /\ \A u \in Tab, k \in Key : rows[u][k] <= rows'[u][k]
<1> USE DEF StreamInv
<1>1. /\ page[t] = Booting
      /\ rows' = [rows EXCEPT ![t] = UpsertAll(@, reply[t])]
      /\ page' = [page EXCEPT ![t] = Offline] /\ reply' = [reply EXCEPT ![t] = <<>>]
      /\ UNCHANGED <<emitted, latest, keys, subscribed, queue, pending, gone, lost, wire, drops>>
  BY DEF Boot, server
<1>2. /\ \A u \in Tab : page'[u] = IF u = t THEN Offline ELSE page[u]
      /\ \A u \in Tab : reply'[u] = IF u = t THEN <<>> ELSE reply[u]
      /\ \A u \in Tab : rows'[u] = IF u = t THEN UpsertAll(rows[t], reply[t]) ELSE rows[u]
  BY <1>1 DEF TypeOK
<1>3. Offline \notin Sub /\ Offline # NotOpen /\ Offline # Booting
  BY LiveStreamAssumption
<1>4. ASSUME NEW k \in Key
      PROVE  /\ rows'[t][k] \in 0 .. MaxEvents /\ rows'[t][k] <= latest[k]
             /\ rows[t][k] <= rows'[t][k]
  <2> DEFINE es == reply[t]
  <2>0. MaxEvents \in Nat /\ latest[k] \in Nat /\ rows[t][k] = 0
    BY <1>1, Numbers DEF GridInv
  <2>1. es \in Seq(Event) /\ \A i \in DOMAIN es : es[i].id <= latest[es[i].key]
    BY DEF TypeOK, GridInv
  <2>2. rows'[t][k] = IF \E i \in DOMAIN es : es[i].key = k
                      THEN es[CHOOSE i \in DOMAIN es : es[i].key = k].id
                      ELSE rows[t][k]
    <3>1. rows'[t] = UpsertAll(rows[t], es)
      BY <1>2
    <3> HIDE DEF es
    <3> QED
      BY <3>1 DEF UpsertAll
  <2> HIDE DEF es
  <2>3. CASE \E i \in DOMAIN es : es[i].key = k
    <3>1. PICK i \in DOMAIN es : es[i].key = k /\ rows'[t][k] = es[i].id
      BY <2>2, <2>3
    <3>2. es[i] \in Event /\ es[i].id <= latest[k]
      BY <2>1, <3>1, IndexRange
    <3>3. es[i].id \in Nat /\ es[i].id <= MaxEvents
      BY <3>2, EventParts
    <3> QED
      BY <2>0, <3>1, <3>2, <3>3
  <2>4. CASE ~\E i \in DOMAIN es : es[i].key = k
    BY <2>0, <2>2, <2>4
  <2> QED
    BY <2>3, <2>4
<1>5. TypeOK'
  <2>1. rows' \in [Tab -> [Key -> 0 .. MaxEvents]]
    <3>1. UpsertAll(rows[t], reply[t]) \in [Key -> 0 .. MaxEvents]
      BY <1>2, <1>4 DEF UpsertAll
    <3> QED
      BY <1>1, <3>1 DEF TypeOK
  <2> QED
    BY <1>1, <2>1, EmptyWay DEF TypeOK
<1>6. TableInv' /\ KeepsNewest' /\ OrderInv'
  BY <1>1 DEF TableInv, KeepsNewest, OrderInv, Elements
<1>7. \A u \in Tab : page'[u] \in Sub => u # t /\ page'[u] = page[u] /\ rows'[u] = rows[u]
  BY <1>2, <1>3
<1>8. GridInv'
  <2>1. \A s \in Sub : \A e \in OnWay(s)' : e.id <= latest'[e.key]
    BY <1>1 DEF GridInv, OnWay
  <2>2. DOMAIN <<>> = {}
    BY EmptySeq
  <2>3. \A u \in Tab : \A i \in DOMAIN reply'[u] :
          reply'[u][i].id <= latest'[reply'[u][i].key]
    BY <1>1, <1>2, <2>2 DEF GridInv
  <2>4. \A u \in Tab, k \in Key : rows'[u][k] <= latest'[k]
    BY <1>1, <1>2, <1>4 DEF GridInv
  <2>5. \A u \in Tab : page'[u] \in {NotOpen, Booting} => \A k \in Key : rows'[u][k] = 0
    BY <1>2, <1>3 DEF GridInv
  <2>6. ASSUME NEW u \in Tab, page'[u] \in Sub
        PROVE  \A e \in OnWay(page[u])' : rows'[u][e.key] <= e.id
    <3>1. OnWay(page[u])' = OnWay(page[u])
      BY <1>1, <1>7, <2>6 DEF OnWay
    <3> QED
      BY <1>7, <2>6, <3>1 DEF GridInv
  <2> QED
    BY <2>1, <2>3, <2>4, <2>5, <2>6 DEF GridInv
<1>9. PageInv' /\ NothingMissing'
  BY <1>1, <1>7 DEF PageInv, NothingMissing
<1>10. \A u \in Tab, k \in Key : rows[u][k] <= rows'[u][k]
  <2>1. \A u \in Tab, k \in Key : rows[u][k] \in Nat
    BY Numbers
  <2> QED
    BY <1>2, <1>4, <2>1
<1> QED
  BY <1>5, <1>6, <1>8, <1>9, <1>10

(* A new subscription begins with the newest value of every key.           *)
LEMMA ConnectKeeps ==
  ASSUME StreamInv, NEW t \in Tab, Connect(t)
  PROVE  StreamInv'
<1> USE DEF StreamInv
<1>1. PICK s \in Sub \ subscribed :
        /\ subscribed' = subscribed \cup {s}
        /\ queue' = [queue EXCEPT ![s] = <<>>]
        /\ pending' = [pending EXCEPT ![s] = Snapshot]
        /\ wire' = [wire EXCEPT ![s] = <<>>]
        /\ lost' = [lost EXCEPT ![s] = {}]
        /\ page' = [page EXCEPT ![t] = s]
        /\ UNCHANGED <<emitted, latest, keys, gone, reply, rows, drops>>
  BY DEF Connect
<1>2. /\ Snapshot \in Seq(Event) /\ Sorted(Snapshot)
      /\ \A e \in Elements(Snapshot) : e.id = latest[e.key]
      /\ \A k \in Key : latest[k] # 0 => [key |-> k, id |-> latest[k]] \in Elements(Snapshot)
  BY SnapshotIsNewest
<1>3. /\ \A u \in Sub : queue'[u] = IF u = s THEN <<>> ELSE queue[u]
      /\ \A u \in Sub : pending'[u] = IF u = s THEN Snapshot ELSE pending[u]
      /\ \A u \in Sub : wire'[u] = IF u = s THEN <<>> ELSE wire[u]
      /\ \A u \in Sub : lost'[u] = IF u = s THEN {} ELSE lost[u]
      /\ \A u \in Tab : page'[u] = IF u = t THEN s ELSE page[u]
  BY <1>1 DEF TypeOK
<1>4. \A u \in Tab : page[u] # s
  BY <1>1 DEF PageInv
<1>5. /\ NotOpen \notin Sub /\ Booting \notin Sub
      /\ Capacity \in Nat /\ WireCapacity \in Nat
  BY LiveStreamAssumption
<1>6. TypeOK'
  <2>1. \A u \in Sub : Len(queue'[u]) <= Capacity /\ Len(wire'[u]) <= WireCapacity
    BY <1>3, <1>5, EmptyWay DEF TypeOK
  <2>2. /\ queue' \in [Sub -> Seq(Event)] /\ wire' \in [Sub -> Seq(Event)]
        /\ pending' \in [Sub -> Seq(Event)] /\ lost' \in [Sub -> SUBSET Event]
    BY <1>1, <1>2, EmptyWay DEF TypeOK
  <2> QED
    BY <1>1, <2>1, <2>2 DEF TypeOK
<1>7. TableInv'
  BY <1>1 DEF TableInv, Elements
<1>8. KeepsNewest'
  <2>1. DOMAIN <<>> = {}
    BY EmptySeq
  <2>2. subscribed \subseteq Sub
    BY DEF TypeOK
  <2> QED
    BY <1>1, <1>3, <2>1, <2>2 DEF KeepsNewest
<1>9. OrderInv'
  BY <1>2, <1>3, EmptyWay DEF OrderInv, Ordered, Before
<1>10. \A u \in Sub : OnWay(u)' = IF u = s THEN Elements(Snapshot) ELSE OnWay(u)
  BY <1>3, EmptyWay DEF OnWay
<1>11. \A e \in Elements(Snapshot) : e.id <= latest[e.key] /\ e.key \in Key
  <2>1. \A e \in Elements(Snapshot) : e \in Event
    BY <1>2, IndexRange
  <2> QED
    BY <1>2, <2>1, EventParts
<1>12. GridInv'
  <2>1. \A u \in Sub : \A e \in OnWay(u)' : e.id <= latest'[e.key]
    BY <1>1, <1>10, <1>11 DEF GridInv
  <2>2. \A u \in Tab : \A i \in DOMAIN reply'[u] :
          reply'[u][i].id <= latest'[reply'[u][i].key]
    BY <1>1 DEF GridInv
  <2>3. \A u \in Tab : page'[u] \in {NotOpen, Booting} => \A k \in Key : rows'[u][k] = 0
    BY <1>1, <1>3, <1>5 DEF GridInv
  <2>4. ASSUME NEW u \in Tab, page'[u] \in Sub
        PROVE  \A e \in OnWay(page[u])' : rows'[u][e.key] <= e.id
    <3>1. CASE u = t
      <4>1. page'[u] = s /\ OnWay(page[u])' = Elements(Snapshot)
        BY <1>3, <1>10, <3>1 DEF OnWay
      <4>2. \A e \in Elements(Snapshot) : rows[u][e.key] <= e.id
        BY <1>2, <1>11 DEF GridInv
      <4> QED
        BY <1>1, <4>1, <4>2
    <3>2. CASE u # t
      <4>1. page'[u] = page[u] /\ page[u] # s
        BY <1>3, <1>4, <3>2
      <4>2. OnWay(page[u])' = OnWay(page[u])
        BY <1>3, <2>4, <4>1 DEF OnWay
      <4> QED
        BY <1>1, <2>4, <4>1, <4>2 DEF GridInv
    <3> QED
      BY <3>1, <3>2
  <2> QED
    BY <1>1, <2>1, <2>2, <2>3, <2>4 DEF GridInv
<1>13. PageInv'
  BY <1>1, <1>3, <1>4 DEF PageInv
<1>14. NothingMissing'
  <2> SUFFICES ASSUME NEW u \in Tab, NEW k \in Key, page'[u] \in Sub, latest'[k] # 0,
                      NEW v, v = page'[u],
                      NEW x, x = [key |-> k, id |-> latest'[k]]
               PROVE  \/ rows'[u][k] = latest'[k]
                      \/ x \in Elements(pending'[v]) \cup Elements(queue'[v])
                               \cup Elements(wire'[v]) \cup lost'[v]
    BY DEF NothingMissing
  <2>1. CASE u = t
    BY <1>1, <1>2, <1>3, <2>1
  <2>2. CASE u # t
    <3>1. v = page[u] /\ v # s
      BY <1>3, <1>4, <2>2
    <3> QED
      BY <1>1, <1>3, <3>1 DEF NothingMissing
  <2> QED
    BY <2>1, <2>2
<1> QED
  BY <1>6, <1>7, <1>8, <1>9, <1>12, <1>13, <1>14

(* What is on its way moves on.  *)
LEMMA MoveKeeps ==
  ASSUME StreamInv, NEW s \in Sub,
         NEW w \in Seq(Event), NEW p \in Seq(Event), NEW q \in Seq(Event),
         Len(w) <= WireCapacity, Len(q) <= Capacity,
         wire' = [wire EXCEPT ![s] = w],
         pending' = [pending EXCEPT ![s] = p],
         queue' = [queue EXCEPT ![s] = q],
         Ordered(w, p, q),
         Elements(w) \cup Elements(p) \cup Elements(q) = OnWay(s),
         \A i \in DOMAIN q : q[i].id = emitted - Len(q) + i,
         UNCHANGED <<emitted, latest, keys, subscribed, gone, lost, page, reply, rows, drops>>
  PROVE  StreamInv'
<1> USE DEF StreamInv
<1>1. \A u \in Sub : /\ wire'[u] = IF u = s THEN w ELSE wire[u]
                     /\ pending'[u] = IF u = s THEN p ELSE pending[u]
                     /\ queue'[u] = IF u = s THEN q ELSE queue[u]
  BY DEF TypeOK
<1>2. \A u \in Sub : OnWay(u)' = OnWay(u)
  BY <1>1 DEF OnWay
<1>3. TypeOK'
  <2>1. \A u \in Sub : Len(queue'[u]) <= Capacity /\ Len(wire'[u]) <= WireCapacity
    BY <1>1 DEF TypeOK
  <2>2. /\ queue' \in [Sub -> Seq(Event)] /\ wire' \in [Sub -> Seq(Event)]
        /\ pending' \in [Sub -> Seq(Event)]
    BY DEF TypeOK
  <2> QED
    BY <2>1, <2>2 DEF TypeOK
<1>4. TableInv' /\ PageInv'
  BY DEF TableInv, PageInv, Elements
<1>5. KeepsNewest'
  <2>1. subscribed \subseteq Sub
    BY DEF TypeOK
  <2> QED
    BY <1>1, <2>1 DEF KeepsNewest
<1>6. OrderInv'
  BY <1>1 DEF OrderInv
<1>7. GridInv'
  <2>1. ASSUME NEW t \in Tab, page'[t] \in Sub
        PROVE  \A e \in OnWay(page[t])' : rows'[t][e.key] <= e.id
    <3>1. OnWay(page[t])' = OnWay(page[t])
      BY <1>1, <2>1 DEF OnWay
    <3> QED
      BY <2>1, <3>1 DEF GridInv
  <2> QED
    BY <1>2, <2>1 DEF GridInv
<1>8. NothingMissing'
  <2> SUFFICES ASSUME NEW t \in Tab, NEW k \in Key, page[t] \in Sub, latest[k] # 0,
                      rows[t][k] # latest[k],
                      NEW x, x = [key |-> k, id |-> latest[k]]
               PROVE  x \in OnWay(page[t])' \/ x \in lost[page[t]]
    BY DEF NothingMissing, OnWay
  <2>1. OnWay(page[t])' = OnWay(page[t])
    BY <1>1 DEF OnWay
  <2>2. x \in OnWay(page[t]) \/ x \in lost[page[t]]
    BY DEF NothingMissing, OnWay
  <2> QED
    BY <2>1, <2>2
<1> QED
  BY <1>3, <1>4, <1>5, <1>6, <1>7, <1>8

LEMMA SendSnapshotKeeps ==
  ASSUME StreamInv, NEW s \in Sub, SendSnapshot(s)
  PROVE  StreamInv'
<1> USE DEF StreamInv
<1> DEFINE w == wire[s]
           p == pending[s]
           q == queue[s]
<1>1. /\ w \in Seq(Event) /\ p \in Seq(Event) /\ q \in Seq(Event) /\ Len(q) <= Capacity
      /\ Ordered(w, p, q) /\ s \in subscribed
      /\ \A i \in DOMAIN q : q[i].id = emitted - Len(q) + i
      /\ OnWay(s) = Elements(w) \cup Elements(p) \cup Elements(q)
  BY Numbers DEF OrderInv, KeepsNewest, OnWay, SendSnapshot, Serving
<1>2. /\ p # <<>> /\ Len(w) < WireCapacity
      /\ wire' = [wire EXCEPT ![s] = Append(w, Head(p))]
      /\ pending' = [pending EXCEPT ![s] = Tail(p)]
      /\ queue' = [queue EXCEPT ![s] = q]
      /\ UNCHANGED <<emitted, latest, keys, subscribed, gone, lost, page, reply, rows, drops>>
  BY DEF SendSnapshot, Serving, browser, TypeOK
<1> HIDE DEF w, p, q
<1>3. Head(p) \in Event /\ Tail(p) \in Seq(Event)
  BY <1>1, <1>2, TakeOff
<1>4. Append(w, Head(p)) \in Seq(Event) /\ Len(Append(w, Head(p))) <= WireCapacity
  <2> DEFINE e == Head(p)
  <2>1. e \in Event
    BY <1>3
  <2> HIDE DEF e
  <2>2. Append(w, e) \in Seq(Event) /\ Len(Append(w, e)) = Len(w) + 1 /\ Len(w) \in Nat
    BY <1>1, <2>1, PutOn
  <2> QED
    BY <1>2, <2>2, LiveStreamAssumption DEF e
<1>5. /\ Ordered(Append(w, Head(p)), Tail(p), q)
      /\ Elements(Append(w, Head(p))) \cup Elements(Tail(p)) = Elements(w) \cup Elements(p)
  BY <1>1, <1>2, SnapshotMoves
<1>6. Elements(Append(w, Head(p))) \cup Elements(Tail(p)) \cup Elements(q) = OnWay(s)
  BY <1>1, <1>5
<1> QED
  BY <1>1, <1>2, <1>3, <1>4, <1>5, <1>6, MoveKeeps

LEMMA SendEventKeeps ==
  ASSUME StreamInv, NEW s \in Sub, SendEvent(s)
  PROVE  StreamInv'
<1> USE DEF StreamInv
<1> DEFINE w == wire[s]
           q == queue[s]
<1>1. /\ w \in Seq(Event) /\ q \in Seq(Event) /\ Len(q) <= Capacity
      /\ pending[s] = <<>> /\ Ordered(w, <<>>, q) /\ s \in subscribed
      /\ \A i \in DOMAIN q : q[i].id = emitted - Len(q) + i
      /\ OnWay(s) = Elements(w) \cup Elements(<<>>) \cup Elements(q)
      /\ emitted \in Nat
  BY Numbers DEF OrderInv, KeepsNewest, OnWay, SendEvent, Serving
<1>2. /\ q # <<>> /\ Len(w) < WireCapacity
      /\ wire' = [wire EXCEPT ![s] = Append(w, Head(q))]
      /\ pending' = [pending EXCEPT ![s] = <<>>]
      /\ queue' = [queue EXCEPT ![s] = Tail(q)]
      /\ UNCHANGED <<emitted, latest, keys, subscribed, gone, lost, page, reply, rows, drops>>
  BY DEF SendEvent, Serving, browser, TypeOK
<1> HIDE DEF w, q
<1>3. /\ Head(q) \in Event /\ Tail(q) \in Seq(Event) /\ Len(q) \in Nat /\ Len(q) >= 1
      /\ Len(Tail(q)) = Len(q) - 1
      /\ \A i \in 1 .. (Len(q) - 1) : Tail(q)[i] = q[i + 1]
  BY <1>1, <1>2, TakeOff
<1>4. Append(w, Head(q)) \in Seq(Event) /\ Len(Append(w, Head(q))) <= WireCapacity
  <2> DEFINE e == Head(q)
  <2>1. e \in Event
    BY <1>3
  <2> HIDE DEF e
  <2>2. Append(w, e) \in Seq(Event) /\ Len(Append(w, e)) = Len(w) + 1 /\ Len(w) \in Nat
    BY <1>1, <2>1, PutOn
  <2> QED
    BY <1>2, <2>2, LiveStreamAssumption DEF e
<1>5. /\ Ordered(Append(w, Head(q)), <<>>, Tail(q))
      /\ Elements(Append(w, Head(q))) \cup Elements(Tail(q)) = Elements(w) \cup Elements(q)
  BY <1>1, <1>2, EventMoves
<1>6. Elements(Append(w, Head(q))) \cup Elements(<<>>) \cup Elements(Tail(q)) = OnWay(s)
  BY <1>1, <1>5, EmptyWay
<1>7. ASSUME NEW i \in DOMAIN Tail(q)
      PROVE  Tail(q)[i].id = emitted - Len(Tail(q)) + i
  <2>1. DOMAIN Tail(q) = 1 .. (Len(q) - 1) /\ DOMAIN q = 1 .. Len(q)
    BY <1>1, <1>3, IndexRange
  <2>2. i \in 1 .. (Len(q) - 1) /\ i + 1 \in DOMAIN q
    BY <1>3, <2>1
  <2>3. Tail(q)[i].id = emitted - Len(q) + (i + 1)
    BY <1>1, <1>3, <2>2
  <2> QED
    BY <1>1, <1>3, <2>2, <2>3
<1>8. Len(Tail(q)) <= Capacity
  BY <1>1, <1>3, LiveStreamAssumption
<1>9. <<>> \in Seq(Event)
  BY EmptyWay
<1> QED
  BY <1>1, <1>2, <1>3, <1>4, <1>5, <1>6, <1>7, <1>8, <1>9, MoveKeeps


(* An event reaches the grid: it is the newest there was for its key, or   *)
(* a newer one follows it.                                                 *)
LEMMA ReceiveKeeps ==
  ASSUME StreamInv, NEW t \in Tab, Receive(t)
  PROVE  /\ StreamInv'
         /\ \A u \in Tab, k \in Key : rows[u][k] <= rows'[u][k]
<1> USE DEF StreamInv
<1>1. PICK s \in subscribed :
        /\ page[t] = s /\ wire[s] # <<>>
        /\ wire' = [wire EXCEPT ![s] = Tail(@)]
        /\ rows' = [rows EXCEPT ![t] = Upsert(@, Head(wire[s]))]
        /\ UNCHANGED <<emitted, latest, keys, subscribed, queue, pending, gone, lost,
                       page, reply, drops>>
  BY DEF Receive, server
<1> DEFINE w == wire[s]
           h == Head(w)
<1>2. /\ s \in Sub /\ w \in Seq(Event) /\ pending[s] \in Seq(Event) /\ queue[s] \in Seq(Event)
      /\ Ordered(w, pending[s], queue[s]) /\ w # <<>>
  BY <1>1, Numbers DEF TypeOK, OrderInv
<1>3. /\ h \in Event /\ Tail(w) \in Seq(Event) /\ Len(Tail(w)) = Len(w) - 1 /\ Len(w) \in Nat
      /\ Ordered(Tail(w), pending[s], queue[s])
      /\ Elements(w) = {h} \cup Elements(Tail(w))
      /\ Before({h}, Elements(Tail(w)) \cup Elements(pending[s]) \cup Elements(queue[s]))
  <2> HIDE DEF w
  <2> QED
    BY <1>2, TakeOff, FirstArrives
<1>4. h.key \in Key /\ h.id \in Nat /\ h \in OnWay(s) /\ h.id \in 0 .. MaxEvents
  <2>1. h.key \in Key /\ h.id \in Nat /\ h.id <= MaxEvents /\ MaxEvents \in Nat
    BY <1>3, EventParts, LiveStreamAssumption
  <2> QED
    BY <1>3, <2>1 DEF OnWay
<1>5. /\ \A u \in Sub : wire'[u] = IF u = s THEN Tail(w) ELSE wire[u]
      /\ \A u \in Tab : u # t => rows'[u] = rows[u]
      /\ \A k \in Key : rows'[t][k] = IF k = h.key THEN h.id ELSE rows[t][k]
  <2>1. rows'[t] = [rows[t] EXCEPT ![h.key] = h.id]
    BY <1>1 DEF TypeOK, Upsert
  <2>2. \A k \in Key : rows'[t][k] = IF k = h.key THEN h.id ELSE rows[t][k]
    BY <2>1 DEF TypeOK
  <2> QED
    BY <1>1, <1>2, <2>2 DEF TypeOK
<1>6. rows[t][h.key] <= h.id /\ h.id <= latest[h.key]
  BY <1>1, <1>2, <1>4 DEF GridInv
<1>7. \A u \in Sub : OnWay(u)' \subseteq OnWay(u) /\ OnWay(u) \subseteq OnWay(u)' \cup {h}
  BY <1>1, <1>3, <1>5 DEF OnWay
<1>8. \A u \in Tab : u # t /\ page[u] \in Sub => OnWay(page[u])' = OnWay(page[u])
  BY <1>1, <1>2, <1>5 DEF OnWay, PageInv
<1> HIDE DEF w, h
<1>9. TypeOK'
  <2>1. rows' \in [Tab -> [Key -> 0 .. MaxEvents]]
    BY <1>1, <1>4 DEF TypeOK, Upsert, h, w
  <2>2. \A u \in Sub : wire'[u] \in Seq(Event) /\ Len(wire'[u]) <= WireCapacity
    <3>1. Len(w) <= WireCapacity /\ WireCapacity \in Nat
      BY <1>2, LiveStreamAssumption DEF TypeOK, w
    <3>2. Len(Tail(w)) <= WireCapacity
      BY <1>3, <3>1
    <3> QED
      BY <1>3, <1>5, <3>2 DEF TypeOK
  <2>3. wire' \in [Sub -> Seq(Event)]
    BY <1>1, <2>2 DEF TypeOK
  <2> QED
    BY <1>1, <2>1, <2>2, <2>3 DEF TypeOK
<1>10. TableInv' /\ KeepsNewest' /\ PageInv'
  BY <1>1 DEF TableInv, KeepsNewest, PageInv, Elements
<1>11. OrderInv'
  BY <1>1, <1>3, <1>5 DEF OrderInv
<1>12. GridInv'
  <2>1. \A u \in Sub : \A e \in OnWay(u)' : e.id <= latest'[e.key]
    BY <1>1, <1>7 DEF GridInv
  <2>2. \A u \in Tab, k \in Key : rows'[u][k] <= latest'[k]
    BY <1>1, <1>5, <1>6 DEF GridInv
  <2>3. \A u \in Tab : page'[u] \in {NotOpen, Booting} => u # t /\ page'[u] = page[u]
    BY <1>1, <1>2, LiveStreamAssumption
  <2>4. ASSUME NEW u \in Tab, page'[u] \in Sub
        PROVE  \A e \in OnWay(page[u])' : rows'[u][e.key] <= e.id
    <3>1. CASE u # t
      BY <1>1, <1>5, <1>8, <2>4, <3>1 DEF GridInv
    <3>2. CASE u = t
      <4>1. page'[u] = s /\ page[u] = s
        BY <1>1, <3>2
      <4>2. OnWay(page[u])' = Elements(Tail(w)) \cup Elements(pending[s]) \cup Elements(queue[s])
        BY <1>1, <1>2, <1>5, <4>1 DEF OnWay
      <4>3. ASSUME NEW e \in OnWay(page[u])' PROVE rows'[u][e.key] <= e.id
        <5>1. e \in OnWay(s) /\ NotNewer(h, e)
          BY <1>3, <4>2, <4>3 DEF OnWay, Before, w
        <5>2. e.key \in Key
          BY <1>2, <5>1, Numbers, EventParts
        <5>3. rows[t][e.key] <= e.id
          BY <1>1, <1>2, <5>1 DEF GridInv
        <5> QED
          BY <1>5, <3>2, <5>1, <5>2, <5>3 DEF NotNewer
      <4> QED
        BY <4>3
    <3> QED
      BY <3>1, <3>2
  <2>5. \A u \in Tab : page'[u] \in {NotOpen, Booting} => \A k \in Key : rows'[u][k] = 0
    BY <1>5, <2>3 DEF GridInv
  <2>6. \A u \in Tab : \A i \in DOMAIN reply'[u] :
          reply'[u][i].id <= latest'[reply'[u][i].key]
    BY <1>1 DEF GridInv
  <2> QED
    BY <2>1, <2>2, <2>4, <2>5, <2>6 DEF GridInv
<1>13. NothingMissing'
  <2> SUFFICES ASSUME NEW u \in Tab, NEW k \in Key, page[u] \in Sub, latest[k] # 0,
                      rows'[u][k] # latest[k],
                      NEW x, x = [key |-> k, id |-> latest[k]]
               PROVE  x \in OnWay(page[u])' \/ x \in lost[page[u]]
    BY <1>1 DEF NothingMissing, OnWay
  <2>1. rows[u][k] # latest[k]
    <3>1. CASE u # t \/ k # h.key
      BY <1>5, <3>1
    <3>2. CASE u = t /\ k = h.key
      <4>1. rows'[t][k] = h.id /\ rows[t][k] <= h.id /\ h.id <= latest[k]
        BY <1>5, <1>6, <3>2
      <4>2. rows[t][k] \in Nat /\ latest[k] \in Nat
        BY Numbers
      <4> QED
        BY <1>4, <3>2, <4>1, <4>2
    <3> QED
      BY <3>1, <3>2
  <2>2. x \in OnWay(page[u]) \/ x \in lost[page[u]]
    BY <2>1 DEF NothingMissing, OnWay
  <2>3. CASE u # t
    BY <1>8, <2>2, <2>3
  <2>4. CASE u = t
    <3>1. page[u] = s /\ page'[u] = s
      BY <1>1, <2>4
    <3>2. x # h
      BY <1>5, <2>4
    <3>3. x \in OnWay(s) => x \in OnWay(s)'
      BY <1>2, <1>7, <3>2
    <3>4. OnWay(page[u])' = OnWay(s)'
      BY <3>1 DEF OnWay
    <3> QED
      BY <2>2, <3>1, <3>3, <3>4
  <2> QED
    BY <2>3, <2>4
<1>14. \A u \in Tab, k \in Key : rows[u][k] <= rows'[u][k]
  <2>1. \A u \in Tab, k \in Key : rows[u][k] \in Nat
    BY Numbers
  <2> QED
    BY <1>5, <1>6, <2>1
<1> QED
  BY <1>9, <1>10, <1>11, <1>12, <1>13, <1>14

(* A connection that breaks, and the server's noticing it, only take away. *)
LEMMA DisconnectKeeps ==
  ASSUME StreamInv, NEW t \in Tab, Disconnect(t)
  PROVE  StreamInv'
<1> USE DEF StreamInv
<1>1. PICK s \in subscribed :
        /\ page[t] = s /\ gone' = gone \cup {s} /\ wire' = [wire EXCEPT ![s] = <<>>]
        /\ page' = [page EXCEPT ![t] = Offline]
        /\ drops < MaxDrops /\ drops' = drops + 1
        /\ UNCHANGED <<emitted, latest, keys, subscribed, queue, pending, lost, reply, rows>>
  BY DEF Disconnect
<1>2. /\ s \in Sub
      /\ \A u \in Sub : wire'[u] = IF u = s THEN <<>> ELSE wire[u]
      /\ \A u \in Tab : page'[u] = IF u = t THEN Offline ELSE page[u]
  BY <1>1 DEF TypeOK
<1>3. Offline \notin Sub /\ Offline # NotOpen /\ Offline # Booting /\ WireCapacity \in Nat
  BY LiveStreamAssumption
<1>4. \A u \in Sub : OnWay(u)' \subseteq OnWay(u)
  BY <1>1, <1>2, EmptyWay DEF OnWay
<1>5. \A u \in Tab : page'[u] \in Sub =>
        u # t /\ page'[u] = page[u] /\ page[u] # s /\ OnWay(page[u])' = OnWay(page[u])
  BY <1>1, <1>2, <1>3 DEF OnWay, PageInv
<1>6. TypeOK'
  <2>1. drops' \in 0 .. MaxDrops
    BY <1>1, LiveStreamAssumption DEF TypeOK
  <2>2. \A u \in Sub : Len(wire'[u]) <= WireCapacity
    BY <1>2, <1>3, EmptyWay DEF TypeOK
  <2>3. wire' \in [Sub -> Seq(Event)]
    BY <1>1, EmptyWay DEF TypeOK
  <2> QED
    BY <1>1, <2>1, <2>2, <2>3 DEF TypeOK
<1>7. TableInv' /\ KeepsNewest'
  BY <1>1 DEF TableInv, KeepsNewest, Elements
<1>8. OrderInv'
  BY <1>1, <1>2, EmptyWay DEF OrderInv, Ordered, Before
<1>9. GridInv'
  <2>1. \A u \in Sub : \A e \in OnWay(u)' : e.id <= latest'[e.key]
    BY <1>1, <1>4 DEF GridInv
  <2>2. \A u \in Tab : page'[u] \in {NotOpen, Booting} => \A k \in Key : rows'[u][k] = 0
    BY <1>1, <1>2, <1>3 DEF GridInv
  <2>3. \A u \in Tab : page'[u] \in Sub => \A e \in OnWay(page[u])' : rows'[u][e.key] <= e.id
    BY <1>1, <1>5 DEF GridInv
  <2> QED
    BY <1>1, <2>1, <2>2, <2>3 DEF GridInv
<1>10. PageInv'
  BY <1>1, <1>5 DEF PageInv
<1>11. NothingMissing'
  <2> SUFFICES ASSUME NEW u \in Tab, NEW k \in Key, page'[u] \in Sub, latest[k] # 0,
                      rows[u][k] # latest[k],
                      NEW x, x = [key |-> k, id |-> latest[k]]
               PROVE  x \in OnWay(page[u])' \/ x \in lost[page[u]]
    BY <1>1, <1>5 DEF NothingMissing, OnWay
  <2> QED
    BY <1>5 DEF NothingMissing, OnWay
<1> QED
  BY <1>6, <1>7, <1>8, <1>9, <1>10, <1>11

LEMMA UnsubscribeKeeps ==
  ASSUME StreamInv, NEW s \in Sub, Unsubscribe(s)
  PROVE  StreamInv'
<1> USE DEF StreamInv
<1>1. /\ s \in gone /\ gone' = gone \ {s} /\ subscribed' = subscribed \ {s}
      /\ queue' = [queue EXCEPT ![s] = <<>>] /\ pending' = [pending EXCEPT ![s] = <<>>]
      /\ lost' = [lost EXCEPT ![s] = {}]
      /\ UNCHANGED <<emitted, latest, keys, wire, page, reply, rows, drops>>
  BY DEF Unsubscribe, browser
<1>2. \A u \in Sub : /\ queue'[u] = IF u = s THEN <<>> ELSE queue[u]
                     /\ pending'[u] = IF u = s THEN <<>> ELSE pending[u]
                     /\ lost'[u] = IF u = s THEN {} ELSE lost[u]
  BY <1>1 DEF TypeOK
<1>3. \A u \in Sub : OnWay(u)' \subseteq OnWay(u)
  BY <1>1, <1>2, EmptyWay DEF OnWay
<1>4. \A u \in Tab : page[u] \in Sub =>
        page[u] # s /\ OnWay(page[u])' = OnWay(page[u])
  BY <1>1, <1>2 DEF OnWay, PageInv
<1>5. TypeOK'
  <2>1. \A u \in Sub : Len(queue'[u]) <= Capacity
    BY <1>2, EmptyWay, LiveStreamAssumption DEF TypeOK
  <2>2. /\ queue' \in [Sub -> Seq(Event)] /\ pending' \in [Sub -> Seq(Event)]
        /\ lost' \in [Sub -> SUBSET Event]
    BY <1>1, EmptyWay DEF TypeOK
  <2> QED
    BY <1>1, <2>1, <2>2 DEF TypeOK
<1>6. TableInv'
  BY <1>1 DEF TableInv, Elements
<1>7. KeepsNewest'
  <2>1. subscribed \subseteq Sub
    BY DEF TypeOK
  <2> QED
    BY <1>1, <1>2, <2>1 DEF KeepsNewest
<1>8. OrderInv'
  BY <1>1, <1>2, EmptyWay DEF OrderInv, Ordered, Before
<1>9. GridInv'
  <2>1. \A u \in Sub : \A e \in OnWay(u)' : e.id <= latest'[e.key]
    BY <1>1, <1>3 DEF GridInv
  <2>2. ASSUME NEW u \in Tab, page'[u] \in Sub
        PROVE  \A e \in OnWay(page[u])' : rows'[u][e.key] <= e.id
    BY <1>1, <1>4, <2>2 DEF GridInv
  <2> QED
    BY <1>1, <2>1, <2>2 DEF GridInv
<1>10. PageInv'
  BY <1>1, <1>4 DEF PageInv
<1>11. NothingMissing'
  <2> SUFFICES ASSUME NEW u \in Tab, NEW k \in Key, page[u] \in Sub, latest[k] # 0,
                      rows[u][k] # latest[k],
                      NEW x, x = [key |-> k, id |-> latest[k]]
               PROVE  x \in OnWay(page[u])' \/ x \in lost'[page[u]]
    BY <1>1 DEF NothingMissing, OnWay
  <2>1. lost'[page[u]] = lost[page[u]]
    BY <1>2, <1>4
  <2> QED
    BY <1>4, <2>1 DEF NothingMissing, OnWay
<1> QED
  BY <1>5, <1>6, <1>7, <1>8, <1>9, <1>10, <1>11

LEMMA StreamStays ==
  ASSUME StreamInv, UNCHANGED vars
  PROVE  StreamInv'
<1> USE DEF StreamInv, vars
<1>1. TypeOK' /\ TableInv' /\ KeepsNewest'
  BY DEF TypeOK, TableInv, KeepsNewest, Elements
<1>2. OrderInv' /\ PageInv'
  BY DEF OrderInv, PageInv
<1>3. GridInv'
  BY DEF GridInv, OnWay
<1>4. NothingMissing'
  BY DEF NothingMissing
<1> QED
  BY <1>1, <1>2, <1>3, <1>4

LEMMA EveryStepKeeps == StreamInv /\ [Next]_vars => StreamInv'
<1> SUFFICES ASSUME StreamInv, [Next]_vars PROVE StreamInv'
  OBVIOUS
<1>1. CASE \E k \in Key : Emit(k)
  BY <1>1, EmitKeeps
<1>2. ASSUME NEW t \in Tab, TabStep(t) PROVE StreamInv'
  BY <1>2, OpenPageKeeps, BootKeeps, ConnectKeeps, ReceiveKeeps, DisconnectKeeps DEF TabStep
<1>3. ASSUME NEW s \in Sub, StreamStep(s) PROVE StreamInv'
  BY <1>3, SendSnapshotKeeps, SendEventKeeps, UnsubscribeKeeps DEF StreamStep
<1>4. CASE UNCHANGED vars
  BY <1>4, StreamStays
<1> QED
  BY <1>1, <1>2, <1>3, <1>4 DEF Next

LEMMA StreamKept == Spec => []StreamInv
<1> QED
  BY Initially, EveryStepKeeps, PTL DEF Spec

-----------------------------------------------------------------------------
(* Every queue and every connection stays within its bound (live.py        *)
(* _CAPACITY).                                                             *)
THEOREM StreamTyped == Spec => []TypeOK
<1>1. StreamInv => TypeOK
  BY DEF StreamInv
<1> QED
  BY <1>1, StreamKept, PTL

(* On a connection that lasts nothing new falls between the snapshot, the  *)
(* queue and the socket, for any number of pages that connect and          *)
(* disconnect meanwhile (live.py, api.py gen).                             *)
THEOREM NothingFallsBetween == Spec => []NothingMissing
<1>1. StreamInv => NothingMissing
  BY DEF StreamInv
<1> QED
  BY <1>1, StreamKept, PTL

(* An overflowing queue keeps the newest events without a gap (live.py     *)
(* _offer).                                                                *)
THEOREM OverflowKeepsNewest == Spec => []KeepsNewest
<1>1. StreamInv => KeepsNewest
  BY DEF StreamInv
<1> QED
  BY <1>1, StreamKept, PTL

(* No grid ever shows an older value after a newer one (app.js upsert).    *)
THEOREM GridOnlyAdvances == Spec => GridNeverGoesBack
<1> DEFINE Advance == \A t \in Tab, k \in Key : rows[t][k] <= rows'[t][k]
<1>1. StreamInv /\ [Next]_vars => [Advance]_vars
  <2> SUFFICES ASSUME StreamInv, Next PROVE Advance
    OBVIOUS
  <2>1. UNCHANGED rows => Advance
    BY Numbers DEF StreamInv
  <2>2. CASE \E k \in Key : Emit(k)
    BY <2>1, <2>2 DEF Emit, browser
  <2>3. ASSUME NEW t \in Tab, TabStep(t) PROVE Advance
    <3>1. CASE Boot(t)
      BY <3>1, BootKeeps
    <3>2. CASE Receive(t)
      BY <3>2, ReceiveKeeps
    <3>3. CASE OpenPage(t) \/ Connect(t) \/ Disconnect(t)
      BY <2>1, <3>3 DEF OpenPage, Connect, Disconnect
    <3> QED
      BY <2>3, <3>1, <3>2, <3>3 DEF TabStep
  <2>4. ASSUME NEW s \in Sub, StreamStep(s) PROVE Advance
    BY <2>1, <2>4 DEF StreamStep, SendSnapshot, SendEvent, Unsubscribe, browser
  <2> QED
    BY <2>2, <2>3, <2>4 DEF Next
<1> QED
  BY <1>1, StreamKept, PTL DEF Spec, GridNeverGoesBack

=============================================================================
