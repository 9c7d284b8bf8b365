--------------------------- MODULE SimulatorProofs ---------------------------
(***************************************************************************)
(* Theorems about Simulator, for maps of any shape, noise of any sort and  *)
(* whatever clients write: what is illegal is a gap of the map, and a      *)
(* heartbeat counts the rounds of the ticker.                              *)
(***************************************************************************)
EXTENDS Simulator, SequenceTheorems, TLAPS

(* A bank without mapped registers still has its register 0. *)
Spare == {Place(b, 0) : b \in Bank \ MappedBanks}

(* The places do not change, and a request is answered by them.            *)
PlaceInv ==
  /\ DOMAIN store = Mapped \cup Spare
  /\ reply.result = "illegal" => ~(reply.places \subseteq DOMAIN store)
  /\ reply.result = "ok" => reply.places \subseteq DOMAIN store

(* The rules are numbered, and each has a register to write to. *)
RuleInv ==
  /\ DOMAIN rules \subseteq Int
  /\ LivePlaces \subseteq DOMAIN store

(* A rule that is reached has counted every round, and  the register of a  *)
(* heartbeat that has the last word shows it.                              *)
BeatInv ==
  /\ \A i \in Reached : rules[i].mode = "heartbeat" => beat[i] = ticks
  /\ HeartbeatCounts

-----------------------------------------------------------------------------
(* What is loaded.                                                         *)
LEMMA LoadedPlaces == DOMAIN Loaded = Mapped \cup Spare
<1> DEFINE Of(b) == UNION {Filled(map[b][i]) : i \in DOMAIN map[b]}
           Banked(b) == DOMAIN Block(Populate(map[b]))
<1>1. \A b : DOMAIN Populate(map[b]) = Of(b)
  BY DEF Populate
<1>2. \A b : Banked(b) = IF Of(b) = {} THEN {0} ELSE Of(b)
  <2> TAKE b
  <2>1. Block(Populate(map[b])) =
          IF Of(b) = {} THEN [a \in {0} |-> 0] ELSE Populate(map[b])
    BY <1>1 DEF Block
  <2> HIDE DEF Of
  <2>2. CASE Of(b) = {}
    BY <2>1, <2>2
  <2>3. CASE Of(b) # {}
    BY <1>1, <2>1, <2>3
  <2> QED
    BY <2>2, <2>3
<1>3. \A p : p \in DOMAIN Loaded <=> \E b \in Bank : \E a \in Banked(b) : p = Place(b, a)
  BY DEF Loaded
<1>4. \A p : p \in Mapped <=> \E b \in Bank : \E a \in Of(b) : p = Place(b, a)
  BY DEF Mapped, Filled
<1>5. \A b, a : Place(b, a).bank = b
  BY DEF Place
<1> HIDE DEF Of, Banked
<1>6. \A b \in Bank : (\A p \in Mapped : p.bank # b) <=> Of(b) = {}
  BY <1>4, <1>5
<1>7. \A p : p \in Spare <=> \E b \in Bank : Of(b) = {} /\ p = Place(b, 0)
  BY <1>6 DEF Spare, MappedBanks
<1>8. ASSUME NEW p PROVE p \in DOMAIN Loaded <=> p \in Mapped \cup Spare
  BY <1>2, <1>3, <1>4, <1>7
<1> QED
  BY <1>8

LEMMA Constants == 0 \in Word /\ 1 \in Word /\ SpanTried \in Nat /\ BitsTried \in Nat
BY SimulatorAssumption DEF Word

LEMMA ListsOfEntries ==
  /\ \A n \in Nat : Fixed(0, [i \in 1 .. n |-> 0]) \in Entry
  /\ Fixed(0, <<1>>) \in Entry
  /\ \A a \in Int, mode \in {"heartbeat", "random"}, v \in {0, 1}, max \in {0, 1} :
       Live(a, mode, v, 0, max) \in Entry /\ Len(Live(a, mode, v, 0, max).words) = 1
  /\ \A a, words : Fixed(a, words).mode = "fixed"
<1>1. ASSUME NEW n \in Nat PROVE Fixed(0, [i \in 1 .. n |-> 0]) \in Entry
  <2>1. [i \in 1 .. n |-> 0] \in Seq(Word)
    BY Constants
  <2> QED
    BY <2>1 DEF Fixed, Entry
<1>2. Fixed(0, <<1>>) \in Entry
  <2>1. <<1>> \in Seq(Word)
    BY Constants
  <2> QED
    BY <2>1 DEF Fixed, Entry
<1>3. ASSUME NEW a \in Int, NEW mode \in {"heartbeat", "random"},
             NEW v \in {0, 1}, NEW max \in {0, 1}
      PROVE  Live(a, mode, v, 0, max) \in Entry /\ Len(Live(a, mode, v, 0, max).words) = 1
  <2>1. <<v>> \in Seq(Word) /\ Len(<<v>>) = 1
    BY Constants
  <2> QED
    BY <2>1 DEF Live, Entry
<1> QED
  BY <1>1, <1>2, <1>3 DEF Fixed

(* Entries of coils and discrete inputs, and of registers. *)
PlainEntry == {e \in Entry : e.mode = "fixed"}
RegisterEntry == {e \in Entry : e.mode # "fixed" => Len(e.words) = 1}

LEMMA BanksMakeAMap ==
  ASSUME NEW m, DOMAIN m = Bank,
         m["coils"] \in Seq(PlainEntry), m["discrete"] \in Seq(PlainEntry),
         m["holding"] \in Seq(RegisterEntry), m["inputs"] \in Seq(RegisterEntry)
  PROVE  IsMap(m)
<1>1. ASSUME NEW s \in Seq(PlainEntry)
      PROVE  s \in Seq(Entry) /\ \A i \in DOMAIN s : s[i].mode = "fixed"
  <2>1. \A i \in 1 .. Len(s) : s[i] \in PlainEntry
    OBVIOUS
  <2>2. s \in [1 .. Len(s) -> Entry] /\ Len(s) \in Nat
    BY <2>1 DEF PlainEntry
  <2> QED
    BY <2>1, <2>2 DEF PlainEntry
<1>2. ASSUME NEW s \in Seq(RegisterEntry)
      PROVE  s \in Seq(Entry) /\ \A i \in DOMAIN s : s[i].mode # "fixed" => Len(s[i].words) = 1
  <2>1. \A i \in 1 .. Len(s) : s[i] \in RegisterEntry
    OBVIOUS
  <2>2. s \in [1 .. Len(s) -> Entry] /\ Len(s) \in Nat
    BY <2>1 DEF RegisterEntry
  <2> QED
    BY <2>1, <2>2 DEF RegisterEntry
<1>3. ASSUME NEW b \in Bank
      PROVE  /\ m[b] \in Seq(Entry)
             /\ \A i \in DOMAIN m[b] :
                  m[b][i].mode # "fixed" => b \in {"holding", "inputs"} /\ Len(m[b][i].words) = 1
  <2>1. CASE b \in {"coils", "discrete"}
    BY <1>1, <2>1
  <2>2. CASE b \in {"holding", "inputs"}
    BY <1>2, <2>2
  <2> QED
    BY <2>1, <2>2 DEF Bank
<1> QED
  BY <1>3 DEF IsMap

LEMMA KindsOfMaps == \A m \in MapTried \cup {Known, Blank} : IsMap(m)
<1> DEFINE zeros(n) == Fixed(0, [i \in 1 .. n |-> 0])
           one == Fixed(0, <<1>>)
           hb == Live(1, "heartbeat", 0, 0, 0)
           hr == Live(2, "random", 1, 0, 1)
           ir == Live(1, "random", 0, 0, 1)
<1>1. /\ zeros(SpanTried) \in Entry /\ zeros(SpanTried).mode = "fixed"
      /\ zeros(BitsTried) \in Entry /\ zeros(BitsTried).mode = "fixed"
      /\ one \in Entry /\ one.mode = "fixed"
      /\ hb \in Entry /\ Len(hb.words) = 1
      /\ hr \in Entry /\ Len(hr.words) = 1
      /\ ir \in Entry /\ Len(ir.words) = 1
  BY Constants, ListsOfEntries
<1>2. /\ DOMAIN Blank = Bank
      /\ Blank["holding"] = <<zeros(SpanTried)>> /\ Blank["inputs"] = <<zeros(SpanTried)>>
      /\ Blank["coils"] = <<zeros(BitsTried)>> /\ Blank["discrete"] = <<zeros(BitsTried)>>
  BY DEF Blank, Bank
<1>3. /\ DOMAIN Known = Bank
      /\ Known["holding"] = <<zeros(SpanTried)>> \o <<one, hb, hr>>
      /\ Known["inputs"] = <<zeros(SpanTried)>> \o <<one, ir>>
      /\ Known["coils"] = <<zeros(BitsTried)>> \o <<one>>
      /\ Known["discrete"] = <<zeros(BitsTried)>> \o <<one>>
  BY <1>2 DEF Known, Bank
<1> HIDE DEF zeros, one, hb, hr, ir
<1>4. \A e \in {zeros(SpanTried), zeros(BitsTried), one} : e \in PlainEntry /\ e \in RegisterEntry
  BY <1>1 DEF PlainEntry, RegisterEntry
<1>5. hb \in RegisterEntry /\ hr \in RegisterEntry /\ ir \in RegisterEntry
  BY <1>1 DEF RegisterEntry
<1>6. /\ <<zeros(SpanTried)>> \in Seq(RegisterEntry) /\ <<zeros(BitsTried)>> \in Seq(PlainEntry)
      /\ <<one>> \in Seq(PlainEntry)
      /\ <<one, hb, hr>> \in Seq(RegisterEntry) /\ <<one, ir>> \in Seq(RegisterEntry)
  BY <1>4, <1>5
<1>7. IsMap(Blank)
  BY <1>2, <1>6, BanksMakeAMap
<1>8. /\ Known["holding"] \in Seq(RegisterEntry) /\ Known["inputs"] \in Seq(RegisterEntry)
      /\ Known["coils"] \in Seq(PlainEntry) /\ Known["discrete"] \in Seq(PlainEntry)
  BY <1>3, <1>6, ConcatProperties
<1>9. IsMap(Known)
  BY <1>3, <1>8, BanksMakeAMap
<1> QED
  BY <1>7, <1>9, SimulatorAssumption

LEMMA LiveIsMapped ==
  ASSUME IsMap(map), rules = LoadedRules
  PROVE  DOMAIN rules \subseteq Int /\ LivePlaces \subseteq Mapped
<1> DEFINE h == map["holding"]
           t == map["inputs"]
           entries == h \o t
<1>1. h \in Seq(Entry) /\ t \in Seq(Entry)
  BY DEF IsMap, Bank
<1>2. /\ \A i \in DOMAIN h : h[i].mode # "fixed" => Len(h[i].words) = 1
      /\ \A i \in DOMAIN t : t[i].mode # "fixed" => Len(t[i].words) = 1
  BY DEF IsMap, Bank
<1>3. /\ DOMAIN rules = {j \in DOMAIN entries : entries[j].mode # "fixed"}
      /\ \A i \in DOMAIN rules :
           rules[i].place = Place(IF i <= Len(h) THEN "holding" ELSE "inputs",
                                  entries[i].address)
  BY DEF LoadedRules
<1>4. ASSUME NEW b \in {"holding", "inputs"}, NEW k \in DOMAIN map[b],
             map[b][k] \in Entry, Len(map[b][k].words) = 1
      PROVE  Place(b, map[b][k].address) \in Mapped
  <2> DEFINE e == map[b][k]
  <2>1. 1 \in DOMAIN e.words /\ e.address + 1 - 1 = e.address
    BY <1>4 DEF Entry
  <2>2. b \in Bank
    BY DEF Bank
  <2> QED
    BY <2>1, <2>2 DEF Mapped
<1> HIDE DEF h, t
<1>5. DOMAIN entries = 1 .. (Len(h) + Len(t)) /\ Len(h) \in Nat /\ Len(t) \in Nat
  BY <1>1
<1>6. \A i \in DOMAIN entries : entries[i] = IF i <= Len(h) THEN h[i] ELSE t[i - Len(h)]
  BY <1>1, <1>5
<1> HIDE DEF entries
<1>7. ASSUME NEW i \in DOMAIN rules PROVE rules[i].place \in Mapped
  <2>1. i \in 1 .. (Len(h) + Len(t)) /\ entries[i].mode # "fixed"
    BY <1>3, <1>5
  <2>2. CASE i <= Len(h)
    <3>1. i \in DOMAIN h /\ entries[i] = h[i]
      BY <1>1, <1>5, <1>6, <2>1, <2>2
    <3>2. h[i] \in Entry /\ Len(h[i].words) = 1
      BY <1>1, <1>2, <2>1, <3>1
    <3>3. Place("holding", h[i].address) \in Mapped
      BY <1>4, <3>1, <3>2 DEF h
    <3> QED
      BY <1>3, <2>2, <3>1, <3>3
  <2>3. CASE ~(i <= Len(h))
    <3> DEFINE k == i - Len(h)
    <3>1. k \in DOMAIN t /\ entries[i] = t[k]
      BY <1>1, <1>5, <1>6, <2>1, <2>3
    <3> HIDE DEF k
    <3>2. t[k] \in Entry /\ Len(t[k].words) = 1
      BY <1>1, <1>2, <2>1, <3>1
    <3>3. Place("inputs", t[k].address) \in Mapped
      BY <1>4, <3>1, <3>2 DEF t
    <3> QED
      BY <1>3, <2>3, <3>1, <3>3
  <2> QED
    BY <2>2, <2>3
<1>8. DOMAIN rules \subseteq Int
  BY <1>3, <1>5
<1> QED
  BY <1>7, <1>8 DEF LivePlaces

LEMMA Initially == Init => PlaceInv /\ RuleInv /\ BeatInv
<1> SUFFICES ASSUME Init PROVE PlaceInv /\ RuleInv /\ BeatInv
  OBVIOUS
<1>1. /\ IsMap(map) /\ rules = LoadedRules /\ store = Loaded
      /\ reply = NoRequest /\ ticks = 0 /\ beat = [i \in DOMAIN rules |-> 0]
  BY KindsOfMaps DEF Init
<1>2. PlaceInv
  BY <1>1, LoadedPlaces DEF PlaceInv, NoRequest
<1>3. RuleInv
  BY <1>1, <1>2, LiveIsMapped DEF RuleInv, PlaceInv
<1>4. BeatInv
  BY <1>1 DEF BeatInv, HeartbeatCounts, Reached
<1> QED
  BY <1>2, <1>3, <1>4

-----------------------------------------------------------------------------
(* What is done.                                                           *)
LEMMA SameMap == UNCHANGED map => UNCHANGED <<Mapped, Spare>>
BY DEF Mapped, MappedBanks, Spare

LEMMA SameRules == UNCHANGED rules => UNCHANGED <<Reached, LastRules, LivePlaces>>
BY DEF Reached, LastRules, LivePlaces, UpsideDown

(* A register is left to one rule. *)
LEMMA LastIsAlone ==
  ASSUME RuleInv, NEW i \in LastRules, NEW j \in LastRules, rules[i].place = rules[j].place
  PROVE  i = j
<1>1. i \in Int /\ j \in Int /\ i \in Reached /\ j \in Reached
  BY DEF LastRules, Reached, RuleInv
<1>2. i <= j /\ j <= i
  BY <1>1 DEF LastRules
<1> QED
  BY <1>1, <1>2

(* What is answered. *)
LEMMA Answered ==
  ASSUME NEW places,
         \/ reply' = [places |-> places, result |-> "failure"]
         \/ ~(places \subseteq DOMAIN store) /\ reply' = [places |-> places, result |-> "illegal"]
         \/ places \subseteq DOMAIN store /\ reply' = [places |-> places, result |-> "ok"]
  PROVE  /\ reply'.result = "illegal" => ~(reply'.places \subseteq DOMAIN store)
         /\ reply'.result = "ok" => reply'.places \subseteq DOMAIN store
OBVIOUS

LEMMA ReadKeeps == PlaceInv /\ RuleInv /\ BeatInv /\ Read => (PlaceInv /\ RuleInv /\ BeatInv)'
<1> SUFFICES ASSUME PlaceInv, RuleInv, BeatInv, Read PROVE (PlaceInv /\ RuleInv /\ BeatInv)'
  OBVIOUS
<1>1. UNCHANGED <<map, rules, store, touched, beat, ticks>>
  BY DEF Read, Handle
<1>2. /\ reply'.result = "illegal" => ~(reply'.places \subseteq DOMAIN store)
      /\ reply'.result = "ok" => reply'.places \subseteq DOMAIN store
  <2>1. PICK places : Handle(places, UNCHANGED <<store, touched>>)
    BY DEF Read
  <2> QED
    BY <2>1, Answered DEF Handle
<1>3. PlaceInv'
  BY <1>1, <1>2, SameMap DEF PlaceInv
<1>4. RuleInv'
  BY <1>1, SameRules DEF RuleInv
<1>5. BeatInv'
  BY <1>1, SameRules DEF BeatInv, HeartbeatCounts
<1> QED
  BY <1>3, <1>4, <1>5

LEMMA WriteKeeps == PlaceInv /\ RuleInv /\ BeatInv /\ Write => (PlaceInv /\ RuleInv /\ BeatInv)'
<1> SUFFICES ASSUME PlaceInv, RuleInv, BeatInv, Write PROVE (PlaceInv /\ RuleInv /\ BeatInv)'
  OBVIOUS
<1>1. UNCHANGED <<map, rules, beat, ticks>>
  BY DEF Write
<1>2. PICK bank \in {"coils", "holding"}, start \in 0 .. SpanTried - 1, count \in 1 .. 2,
            value \in ValueTried :
        Handle(Asked(bank, start, count),
               /\ store' = [p \in DOMAIN store \cup Asked(bank, start, count) |->
                              IF p \in Asked(bank, start, count) THEN value ELSE store[p]]
               /\ touched' = touched \cup (Asked(bank, start, count) \cap LivePlaces))
  BY DEF Write
<1> DEFINE places == Asked(bank, start, count)
<1>3. /\ reply'.result = "illegal" => ~(reply'.places \subseteq DOMAIN store)
      /\ reply'.result = "ok" => reply'.places \subseteq DOMAIN store
  BY <1>2, Answered DEF Handle
<1>4. \/ UNCHANGED <<store, touched>>
      \/ /\ places \subseteq DOMAIN store
         /\ store' = [p \in DOMAIN store \cup places |->
                        IF p \in places THEN value ELSE store[p]]
         /\ touched' = touched \cup (places \cap LivePlaces)
  BY <1>2 DEF Handle
<1> HIDE DEF places
<1>5. /\ DOMAIN store' = DOMAIN store
      /\ \A p \in LivePlaces : p \notin touched' => p \notin touched /\ store'[p] = store[p]
  BY <1>4 DEF RuleInv
<1>6. PlaceInv'
  BY <1>1, <1>3, <1>5, SameMap DEF PlaceInv
<1>7. RuleInv'
  BY <1>1, <1>5, SameRules DEF RuleInv
<1>8. BeatInv'
  <2>1. \A i \in LastRules : rules[i].place \in LivePlaces
    BY DEF LastRules, Reached, LivePlaces
  <2>2. HeartbeatCounts'
    BY <1>1, <1>5, <2>1, SameRules DEF BeatInv, HeartbeatCounts
  <2> QED
    BY <1>1, <2>2, SameRules DEF BeatInv
<1> QED
  BY <1>6, <1>7, <1>8

LEMMA TickKeeps == PlaceInv /\ RuleInv /\ BeatInv /\ Tick => (PlaceInv /\ RuleInv /\ BeatInv)'
<1> SUFFICES ASSUME PlaceInv, RuleInv, BeatInv, Tick PROVE (PlaceInv /\ RuleInv /\ BeatInv)'
  OBVIOUS
<1> DEFINE writer(p) == {i \in LastRules : rules[i].place = p}
<1>1. /\ UNCHANGED <<map, rules, reply>>
      /\ ticks' = (ticks + 1) % Modulus
      /\ beat' = [i \in DOMAIN rules |->
                    IF i \in Reached /\ rules[i].mode = "heartbeat" THEN NextBeat(i) ELSE beat[i]]
  BY DEF Tick, AdvanceRules
<1>2. PICK draw \in [LastRules -> UNION {Draw(i) : i \in LastRules}] :
        /\ \A i \in LastRules : draw[i] \in Draw(i)
        /\ store' = [p \in DOMAIN store |->
                       IF writer(p) = {} THEN store[p] ELSE draw[CHOOSE i \in writer(p) : TRUE]]
  BY DEF Tick, AdvanceRules
<1>3. PlaceInv'
  BY <1>1, <1>2, SameMap DEF PlaceInv
<1>4. RuleInv'
  BY <1>1, <1>2, SameRules DEF RuleInv
<1>5. \A i \in Reached : rules[i].mode = "heartbeat" => NextBeat(i) = ticks'
  BY <1>1 DEF BeatInv, NextBeat
<1>6. \A i \in Reached : rules[i].mode = "heartbeat" => beat'[i] = ticks'
  BY <1>1, <1>5 DEF Reached
<1>7. ASSUME NEW i \in LastRules, rules[i].mode = "heartbeat"
      PROVE  store'[rules[i].place] = ticks'
  <2> DEFINE p == rules[i].place
  <2>1. i \in Reached /\ p \in DOMAIN store
    BY DEF LastRules, Reached, LivePlaces, RuleInv
  <2>2. writer(p) = {i}
    BY LastIsAlone
  <2>3. store'[p] = draw[i]
    BY <1>2, <2>1, <2>2
  <2>4. draw[i] = NextBeat(i)
    BY <1>2, <1>7 DEF Draw
  <2> QED
    BY <1>5, <1>7, <2>1, <2>3, <2>4
<1>8. BeatInv'
  BY <1>1, <1>6, <1>7, SameRules DEF BeatInv, HeartbeatCounts
<1> QED
  BY <1>3, <1>4, <1>8

LEMMA Invariant == Spec => [](PlaceInv /\ RuleInv /\ BeatInv)
<1>1. PlaceInv /\ RuleInv /\ BeatInv /\ [Next]_vars => (PlaceInv /\ RuleInv /\ BeatInv)'
  <2>1. CASE UNCHANGED vars
    BY <2>1, SameMap, SameRules DEF vars, PlaceInv, RuleInv, BeatInv, HeartbeatCounts
  <2> QED
    BY <2>1, ReadKeeps, WriteKeeps, TickKeeps DEF Next
<1> QED
  BY <1>1, Initially, PTL DEF Spec

(* In the banks it maps the device answers for its map and refuses the     *)
(* rest as illegal, and nothing else, under noise and a dead ticker too    *)
(* (plc_sim.py _build_context, chaos.py).                                  *)
THEOREM IllegalIsAGap == Spec => []OnlyGapsAreIllegal
<1>1. \A p \in Mapped : p.bank \in MappedBanks
  BY DEF MappedBanks
<1>2. \A p \in Spare : p.bank \notin MappedBanks
  BY DEF Spare, Place
<1>3. ASSUME PlaceInv PROVE OnlyGapsAreIllegal
  <2>1. {p \in DOMAIN store : p.bank \in MappedBanks} = Mapped
    BY <1>1, <1>2, <1>3 DEF PlaceInv
  <2>2. reply.result = "illegal" => ~(reply.places \subseteq Mapped)
    BY <1>3 DEF PlaceInv
  <2>3. reply.result = "ok" =>
          \A p \in reply.places : p.bank \in MappedBanks => p \in Mapped
    BY <1>2, <1>3 DEF PlaceInv
  <2> QED
    BY <2>1, <2>2, <2>3 DEF OnlyGapsAreIllegal
<1>4. PlaceInv => OnlyGapsAreIllegal
  BY <1>3
<1> QED
  BY <1>4, Invariant, PTL

(* Whatever clients write, a heartbeat shows how many rounds the ticker    *)
(* has made (plc_sim.py _advance_rules).                                   *)
THEOREM HeartbeatCountsTicks == Spec => []HeartbeatCounts
<1>1. BeatInv => HeartbeatCounts
  BY DEF BeatInv
<1> QED
  BY <1>1, Invariant, PTL
=============================================================================
