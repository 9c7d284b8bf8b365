------------------------------ MODULE Simulator ------------------------------
(***************************************************************************)
(* The PLC simulator: its register banks, the ticker that keeps the live   *)
(* registers moving, and the noise of chaos.py in front of every request.  *)
(*                                                                         *)
(* pymodbus handles a request, and the ticker a round of its loop, without *)
(* an await in between, so each is one action.  There are no seconds in    *)
(* the model: a delay of the noise is a time.sleep() in the event loop     *)
(* (chaos.py:86) and holds up the ticker's next round as it does every     *)
(* request.  How a value becomes the registers of an entry is WordOrder's  *)
(* subject; here an entry has its registers.                               *)
(***************************************************************************)
EXTENDS Integers, Sequences, FiniteSets, SequencesExt

CONSTANTS
  Modulus,    \* how many values a register has: 65536
  SpanTried,  \* bound: registers of a bank in the modes known and blank,
  BitsTried,  \* and its coils or discrete inputs
  MapTried,   \* bound: the maps loaded, see Map
  NoiseTried, \* bound: the --chaos options given, see Noise
  ValueTried  \* bound: the values clients write

Word == 0 .. Modulus - 1
Bank == {"coils", "discrete", "holding", "inputs"}

(* A map gives a bank as a sequence of entries, each with the registers    *)
(* its value becomes, none for an empty text; a live one has one.          *)
Entry ==
  [address : Int, mode : {"fixed", "heartbeat", "random"}, words : Seq(Word),
   min : Int, max : Int]
IsMap(m) ==
  /\ DOMAIN m = Bank
  /\ \A b \in Bank :
       /\ m[b] \in Seq(Entry)
       /\ \A i \in DOMAIN m[b] :
            m[b][i].mode # "fixed" => b \in {"holding", "inputs"} /\ Len(m[b][i].words) = 1

ASSUME SimulatorAssumption ==
  /\ Modulus \in Nat \ {0, 1}
  /\ SpanTried \in Nat \ {0, 1, 2} /\ BitsTried \in Nat \ {0}
  /\ \A m \in MapTried : IsMap(m)
  /\ ValueTried \subseteq Word

VARIABLES
  map,      \* what was loaded: by bank, a sequence of entries
  rules,    \* the live rules, numbered in the order of _ticker()
  store,    \* by place: the value of each register there is
  noise,    \* the ChaosSpec
  beat,     \* by rule: LiveRule.state, of 16 bits like a register
  ticker,   \* the task _ticker: "running" or "dead"
  reply,    \* the places of the last request and what came of it
  ticks,    \* history: rounds of the ticker, as a register counts them
  touched   \* history: the live places a client has written since the last round

vars == <<map, rules, store, noise, beat, ticker, reply, ticks, touched>>

Place(bank, address) == [bank |-> bank, address |-> address]

-----------------------------------------------------------------------------
(* What is loaded: entries, each with its registers, and the live rules.   *)
Fixed(address, words) ==
  [address |-> address, mode |-> "fixed", words |-> words, min |-> 0, max |-> 0]
Live(address, mode, value, min, max) ==
  [address |-> address, mode |-> mode, words |-> <<value>>, min |-> min, max |-> max]

(* _populate_registers(): an entry fills the places from its address on,   *)
(* over what an entry before it has put there.                             *)
Filled(entry) == {entry.address + k - 1 : k \in DOMAIN entry.words}
Populate(entries) ==
  LET Of(a) == {i \in DOMAIN entries : a \in Filled(entries[i])}
      Latest(a) == entries[CHOOSE i \in Of(a) : \A j \in Of(a) : j <= i]
  IN  [a \in UNION {Filled(entries[i]) : i \in DOMAIN entries} |->
         Latest(a).words[a - Latest(a).address + 1]]

(* The live rules of the holding registers, and then of the inputs, each   *)
(* with the number of its entry.                                           *)
LoadedRules ==
  LET first == Len(map["holding"])
      entries == map["holding"] \o map["inputs"]
  IN  [i \in {j \in DOMAIN entries : entries[j].mode # "fixed"} |->
         [place |-> Place(IF i <= first THEN "holding" ELSE "inputs", entries[i].address),
          mode |-> entries[i].mode, min |-> entries[i].min, max |-> entries[i].max]]

(* _sparse_block(), and the same for coils and discrete inputs: a bank     *)
(* without entries gets one register nevertheless.                         *)
Block(values) == IF DOMAIN values = {} THEN [a \in {0} |-> 0] ELSE values

(* _build_context() of a map. *)
Loaded ==
  [p \in UNION {{Place(b, a) : a \in DOMAIN Block(Populate(map[b]))} : b \in Bank} |->
     Block(Populate(map[p.bank]))[p.address]]

(* build_known_spec() and build_blank_spec(), of fewer registers and with  *)
(* their marks moved to the front.                                         *)
Blank ==
  LET Span(bank) == IF bank \in {"holding", "inputs"} THEN SpanTried ELSE BitsTried
  IN  [b \in Bank |-> <<Fixed(0, [i \in 1 .. Span(b) |-> 0])>>]
Known ==
  [Blank EXCEPT
     !["holding"] = @ \o <<Fixed(0, <<1>>), Live(1, "heartbeat", 0, 0, 0),
                           Live(2, "random", 1, 0, 1)>>,
     !["inputs"] = @ \o <<Fixed(0, <<1>>), Live(1, "random", 0, 0, 1)>>,
     !["coils"] = @ \o <<Fixed(0, <<1>>)>>,
     !["discrete"] = @ \o <<Fixed(0, <<1>>)>>]

-----------------------------------------------------------------------------
(* --chaos: tokens in their order, the later ones over the earlier ones.   *)
(* A single delay is both its ends.                                        *)
Quiet == [min |-> 0, max |-> 0, error |-> "never"]

(* parse_spec(); an unknown key or a rate beyond 0 .. 1 is an error.       *)
ParseSpec(tokens) ==
  FoldLeft(LAMBDA spec, token :
            CASE token.key = "delay" -> [spec EXCEPT !.min = token.min, !.max = token.max]
              [] token.key = "error" -> [spec EXCEPT !.error = token.rate],
          Quiet, tokens)
Parses(tokens) ==
  \A i \in DOMAIN tokens : /\ tokens[i].key \in {"delay", "error"}
                           /\ tokens[i].key = "error" => tokens[i].rate # "beyond"

Enabled == noise.max > 0 \/ noise.error # "never"

(* _maybe_inject(): the outcomes of a roll of the dice.  randint() refuses *)
(* a range that is upside down.                                            *)
Injected ==
  IF ~Enabled THEN {FALSE}
  ELSE IF noise.max > 0 /\ noise.min > noise.max THEN {TRUE}
  ELSE CASE noise.error = "never" -> {FALSE}
         [] noise.error = "sometimes" -> {FALSE, TRUE}
         [] noise.error = "always" -> {TRUE}

-----------------------------------------------------------------------------
NoRequest == [places |-> {}, result |-> "none"]

(* main(), up to the server; the ticker of a map without live rules ends   *)
(* at once.                                                                *)
Init ==
  /\ map \in MapTried \cup {Known, Blank}
  /\ rules = LoadedRules
  /\ store = Loaded
  /\ \E tokens \in NoiseTried : Parses(tokens) /\ noise = ParseSpec(tokens)
  /\ beat = [i \in DOMAIN rules |-> 0]
  /\ ticker = IF DOMAIN rules = {} THEN "dead" ELSE "running"
  /\ reply = NoRequest
  /\ ticks = 0
  /\ touched = {}

LivePlaces == {rules[i].place : i \in DOMAIN rules}

(* The places a request is about. *)
Asked(bank, start, count) == {Place(bank, a) : a \in start .. start + count - 1}

(* Slip: an injected fault is reported as an illegal address.              *)
HandleAsGap(places, effect) ==
  \/ /\ TRUE \in Injected \/ ~(places \subseteq DOMAIN store)
     /\ reply' = [places |-> places, result |-> "illegal"]
     /\ UNCHANGED <<store, touched>>
  \/ /\ FALSE \in Injected /\ places \subseteq DOMAIN store
     /\ reply' = [places |-> places, result |-> "ok"]
     /\ effect

(* pymodbus asks validate(), the only call with noise, and then reads or   *)
(* writes.  What validate() raises is answered SLAVE_DEVICE_FAILURE.       *)
Handle(places, effect) ==
  \/ /\ TRUE \in Injected
     /\ reply' = [places |-> places, result |-> "failure"]
     /\ UNCHANGED <<store, touched>>
  \/ /\ FALSE \in Injected
     /\ ~(places \subseteq DOMAIN store)
     /\ reply' = [places |-> places, result |-> "illegal"]
     /\ UNCHANGED <<store, touched>>
  \/ /\ FALSE \in Injected
     /\ places \subseteq DOMAIN store
     /\ reply' = [places |-> places, result |-> "ok"]
     /\ effect

Read ==
  /\ \E bank \in Bank, start \in 0 .. SpanTried - 1, count \in 1 .. 2 :
       Handle(Asked(bank, start, count), UNCHANGED <<store, touched>>)
  /\ UNCHANGED <<map, rules, noise, beat, ticker, ticks>>

(* Only coils and holding registers have a function code to write them.    *)
Write ==
  /\ \E bank \in {"coils", "holding"}, start \in 0 .. SpanTried - 1, count \in 1 .. 2 :
     \E value \in ValueTried :
       LET places == Asked(bank, start, count)
       IN  Handle(places,
                  /\ store' = [p \in DOMAIN store \cup places |->
                                 IF p \in places THEN value ELSE store[p]]
                  /\ touched' = touched \cup (places \cap LivePlaces))
  /\ UNCHANGED <<map, rules, noise, beat, ticker, ticks>>

(* The rules _advance_rules() comes to: randint() raises at the first that *)
(* is upside down, and the ticker with it.                                 *)
UpsideDown(rule) == rule.mode = "random" /\ rule.min > rule.max
Reached == {i \in DOMAIN rules : \A j \in DOMAIN rules : UpsideDown(rules[j]) => i < j}

(* Slip: a heartbeat goes on from what its register holds.                 *)
NextBeatFromStore(i) == (store[rules[i].place] + 1) % Modulus

(* A heartbeat goes on from its own state, not from its register. *)
NextBeat(i) == (beat[i] + 1) % Modulus

(* What the rules reached may put into their registers. *)
Draw(i) == IF rules[i].mode = "heartbeat" THEN {NextBeat(i)} ELSE rules[i].min .. rules[i].max

(* Those that no rule after them overwrites: a map may name a register     *)
(* twice, spelt differently.                                               *)
LastRules ==
  LET reached == Reached
  IN  {i \in reached : \A j \in reached : rules[j].place = rules[i].place => j <= i}

(* What _advance_rules() does for both banks. *)
AdvanceRules ==
  LET reached == Reached
      last == LastRules
      writer(p) == {i \in last : rules[i].place = p}
  IN  /\ ticker = "running"
      /\ ticks' = (ticks + 1) % Modulus
      /\ beat' = [i \in DOMAIN rules |->
                    IF i \in reached /\ rules[i].mode = "heartbeat" THEN NextBeat(i) ELSE beat[i]]
      /\ ticker' = IF reached = DOMAIN rules THEN "running" ELSE "dead"
      /\ touched' = {}
      /\ UNCHANGED <<map, rules, noise, reply>>
      /\ \E draw \in [last -> UNION {Draw(i) : i \in last}] :
           /\ \A i \in last : draw[i] \in Draw(i)
           /\ store' = [p \in DOMAIN store |->
                          IF writer(p) = {} THEN store[p] ELSE draw[CHOOSE i \in writer(p) : TRUE]]

(* Slip: the ticker asks validate() and meets the noise. *)
TickThroughNoise ==
  \/ /\ ticker = "running" /\ TRUE \in Injected
     /\ ticker' = "dead"
     /\ UNCHANGED <<map, rules, store, noise, beat, reply, ticks, touched>>
  \/ FALSE \in Injected /\ AdvanceRules

(* A round of _ticker(): its setValues() goes past the noise.              *)
Tick == AdvanceRules

Next == Read \/ Write \/ Tick

(* asyncio ends the sleep of the ticker some time: a delay holds the event *)
(* loop up, and not for ever.                                              *)
Spec == Init /\ [][Next]_vars /\ WF_vars(Tick)

-----------------------------------------------------------------------------
(* The places an entry of the map names. *)
Mapped ==
  UNION {UNION {{Place(b, map[b][i].address + k - 1) : k \in DOMAIN map[b][i].words} :
                  i \in DOMAIN map[b]} : b \in Bank}

(* The banks the map names a register of. *)
MappedBanks == {p.bank : p \in Mapped}

(* In a bank of which the map names a register, the device answers for the *)
(* same addresses for ever, those of the map, and refuses the others as    *)
(* illegal and nothing else: not what noise or a dead ticker does, so      *)
(* whatever the scanner gives up for dead is a gap of the map.  Nothing is *)
(* claimed of a bank the map leaves out: its register 0 answers in spite   *)
(* of the comment on it (plc_sim.py:211, "so reads return error"), of the  *)
(* docstring (:209) and of plc-simulator/README.md:25 ("Unallocated        *)
(* addresses respond with ILLEGAL_DATA_ADDRESS").                          *)
OnlyGapsAreIllegal ==
  LET mapped == Mapped
      banks == MappedBanks
  IN  /\ {p \in DOMAIN store : p.bank \in banks} = mapped
      /\ reply.result = "illegal" => ~(reply.places \subseteq mapped)
      /\ reply.result = "ok" => \A p \in reply.places : p.bank \in banks => p \in mapped

(* Whatever clients write, a heartbeat shows how many rounds the ticker    *)
(* has made, from the first on: what was written to its register since the *)
(* last is gone with the next (_advance_rules).  Rounds are not seconds,   *)
(* see above.  Rules behind one that is upside down never run, nor does a  *)
(* rule show whose register another writes after it.                       *)
HeartbeatCounts ==
  \A i \in LastRules :
    rules[i].mode = "heartbeat" /\ ticks # 0 /\ rules[i].place \notin touched =>
      store[rules[i].place] = ticks

(* The heartbeats go on, up to the last number and round again, however    *)
(* noisy the line is made; but one random rule upside down ends them all   *)
(* (_ticker).                                                              *)
HeartbeatsGoOn ==
  (\A i \in DOMAIN rules : ~UpsideDown(rules[i])) =>
    \A n \in {0, Modulus - 1} :
      []<>(\A i \in LastRules :
             rules[i].mode = "heartbeat" => store[rules[i].place] = n)
=============================================================================
