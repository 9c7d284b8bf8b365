-------------------------- MODULE StatelessProofs --------------------------
(***************************************************************************)
(* Theorems about Stateless: printed addresses, for every address there    *)
(* is, what starts, for all layers of configuration, and the consent that  *)
(* a write needs, for all layers and requests.                             *)
(***************************************************************************)
EXTENDS Stateless, SequenceTheorems, TLAPS

LoadOf(layers) == Load(layers.yaml, layers.env, layers.cli)

(* What the two steps keep: the input stays as it came, what is halfway is *)
(* made of it, and what comes out is made of that.                         *)
PathInv ==
  /\ item.kind = "point" =>
       /\ item.point \in Point
       /\ coded # None => coded = <<ToModicon(item.point)>>
       /\ back # None => back = <<Parse(ToModicon(item.point))>>
  /\ item.kind = "boot" =>
       /\ item.layers \in BootTried
       /\ coded # None => coded = <<LoadOf(item.layers)>>
       /\ back # None => back = <<MakeApp(LoadOf(item.layers))>>
  /\ item.kind = "write" =>
       /\ item.layers \in WriteTried
       /\ item.body \in [confirm : BOOLEAN, type : ObjectType \cup {"unknown"},
                         target : {"fits", "missing", "tooWide"}, value : Int]
       /\ coded # None => coded = <<LoadOf(item.layers)>>
       /\ back # None =>
            \E outcome \in Outcome :
              back = <<PostWrite(LoadOf(item.layers), item.body, outcome)>>

LEMMA PointsWithin ==
  ASSUME NEW p \in [type : ObjectType, address : Address]
  PROVE  p \in Point
<1>1. p = [type |-> p.type, address |-> p.address]
  OBVIOUS
<1>2. p.type \in ObjectType /\ p.address \in Word
  BY StatelessAssumption
<1> QED
  BY <1>1, <1>2 DEF Point

LEMMA PathInitial == Init => PathInv
<1> SUFFICES ASSUME Init PROVE PathInv
  OBVIOUS
<1> USE DEF None
<1>1. coded = None /\ back = None
  BY DEF Init
<1>2. CASE item \in PointItem
  <2>1. item.kind = "point" /\ item.point \in [type : ObjectType, address : Address]
    BY <1>2 DEF PointItem
  <2>2. item.point \in Point
    BY <2>1, StatelessAssumption, PointsWithin
  <2> QED
    BY <1>1, <2>1, <2>2 DEF PathInv
<1>3. CASE item \in ShortItem \cup WideItem \cup TextItem
  <2>1. CASE item \in ShortItem
    <3>1. item.kind = "short"
      BY <2>1 DEF ShortItem
    <3> QED
      BY <3>1 DEF PathInv
  <2>2. CASE item \in WideItem
    <3>1. item.kind = "wide"
      BY <2>2 DEF WideItem
    <3> QED
      BY <3>1 DEF PathInv
  <2>3. CASE item \in TextItem
    <3>1. item.kind = "text"
      BY <2>3 DEF TextItem
    <3> QED
      BY <3>1 DEF PathInv
  <2> QED
    BY <1>3, <2>1, <2>2, <2>3
<1>4. CASE item \in BootItem
  <2>1. item.kind = "boot" /\ item.layers \in BootTried
    BY <1>4 DEF BootItem
  <2> QED
    BY <1>1, <2>1 DEF PathInv
<1>5. CASE item \in WriteItem
  <2>1. item.kind = "write" /\ item.layers \in WriteTried
    BY <1>5 DEF WriteItem
  <2>2. item.body \in [confirm : BOOLEAN, type : ObjectType \cup {"unknown"},
                       target : {"fits", "missing", "tooWide"}, value : Int]
    BY <1>5, StatelessAssumption DEF WriteItem
  <2> QED
    BY <1>1, <2>1, <2>2 DEF PathInv
<1> QED
  BY <1>2, <1>3, <1>4, <1>5 DEF Init

LEMMA PathStep == PathInv /\ [Next]_vars => PathInv'
<1> SUFFICES ASSUME PathInv, [Next]_vars PROVE PathInv'
  OBVIOUS
<1> USE DEF None
<1>1. CASE NamePoint
  BY <1>1 DEF PathInv, NamePoint, Halfway
<1>2. CASE LookUp
  <2>1. coded[1] = ToModicon(item.point)
    BY <1>2 DEF LookUp, PathInv
  <2> QED
    BY <1>2, <2>1 DEF PathInv, LookUp, Out
<1>3. CASE LoadShort \/ ReadShort \/ LoadWide \/ ReadWide \/ LoadText \/ ReadText
  <2>1. item.kind \in {"short", "wide", "text"} /\ UNCHANGED item
    BY <1>3 DEF LoadShort, ReadShort, LoadWide, ReadWide, LoadText, ReadText, Halfway, Out
  <2> QED
    BY <2>1 DEF PathInv
<1>4. CASE Configure
  <2>1. /\ item.kind \in {"boot", "write"} /\ UNCHANGED <<item, back>>
        /\ coded' = <<LoadOf(item.layers)>> /\ coded = None
    BY <1>4 DEF Configure, Halfway, LoadOf
  <2>2. back = None \/ PathInv'
    BY <2>1 DEF PathInv
  <2> QED
    BY <2>1, <2>2 DEF PathInv
<1>7. CASE Boot
  <2>1. coded[1] = LoadOf(item.layers)
    BY <1>7 DEF Boot, PathInv
  <2> QED
    BY <1>7, <2>1 DEF PathInv, Boot, Out
<1>5. CASE Post
  <2>1. coded[1] = LoadOf(item.layers)
    BY <1>5 DEF Post, PathInv
  <2> QED
    BY <1>5, <2>1 DEF PathInv, Post, Out
<1>6. CASE UNCHANGED vars
  BY <1>6 DEF PathInv, vars
<1> QED
  BY <1>1, <1>2, <1>3, <1>4, <1>5, <1>6, <1>7 DEF Next

LEMMA PathKept == Spec => []PathInv
<1> QED
  BY PathInitial, PathStep, PTL DEF Spec

-----------------------------------------------------------------------------
(* The bounds of an address. *)
LEMMA AddressBounds ==
  ASSUME NEW p \in Point
  PROVE  p.type \in ObjectType /\ p.address \in Nat /\ p.address <= 65535
<1>1. Top = 65535
  BY DEF Top
<1>2. ASSUME NEW a \in Word PROVE a \in Nat /\ a <= 65535
  <2>1. a \in 0 .. Top
    BY DEF Word
  <2>2. Top \in Int
    BY <1>1
  <2>3. a \in Nat
    BY <2>1, <2>2
  <2>4. a <= Top
    BY <2>1, <2>2
  <2>5. a <= 65535
    BY <1>1, <2>4
  <2> QED
    BY <2>3, <2>5
<1>3. p.type \in ObjectType /\ p.address \in Word
  BY DEF Point
<1> QED
  BY <1>2, <1>3

(* Two points that are printed alike are one. *)
LEMMA PrintedOnce ==
  ASSUME NEW p \in Point, NEW q \in Point, ToModicon(p) = ToModicon(q)
  PROVE  p = q
<1> DEFINE Of(r) == r.address + 1
           Base(r) == IF Of(r) > 9999 THEN 100000 ELSE 10000
<1>1. /\ p.address \in Nat /\ p.address <= 65535
      /\ q.address \in Nat /\ q.address <= 65535
      /\ p.type \in ObjectType /\ q.type \in ObjectType
  BY AddressBounds
<1>2. (Of(p) > 9999) = (Of(q) > 9999)
  BY <1>1 DEF ToModicon
<1>3. Prefix(p.type) * Base(p) + Of(p) = Prefix(q.type) * Base(p) + Of(q)
  BY <1>2 DEF ToModicon
<1>4. Prefix(p.type) = Prefix(q.type) /\ Of(p) = Of(q)
  <2>1. Prefix(p.type) \in {0, 1, 3, 4} /\ Prefix(q.type) \in {0, 1, 3, 4}
    BY <1>1 DEF Prefix, ObjectType
  <2>2. /\ Of(p) \in Nat /\ 1 <= Of(p) /\ Of(p) < Base(p)
        /\ Of(q) \in Nat /\ 1 <= Of(q) /\ Of(q) < Base(p)
    BY <1>1, <1>2
  <2>3. Base(p) \in {10000, 100000}
    OBVIOUS
  <2> HIDE DEF Of, Base
  <2> QED
    BY <1>3, <2>1, <2>2, <2>3
<1>5. p.type = q.type
  BY <1>1, <1>4 DEF Prefix, ObjectType
<1> QED
  BY <1>1, <1>4, <1>5 DEF Point, Word

(* What parse() makes of a printed address: the point, unless it is a coil *)
(* whose six digits begin with the zero that parse() drops.                *)
LEMMA ReadBack ==
  ASSUME NEW p \in Point
  PROVE  (Parse(ToModicon(p)) = p) = ~Misread(p)
<1> DEFINE n == ToModicon(p).number
           of == p.address + 1
<1>1. p.type \in ObjectType /\ p.address \in Nat /\ p.address <= 65535
  BY AddressBounds
<1>2. CASE Misread(p)
  <2>1. n = of /\ of > 9999 /\ of <= 65536
    BY <1>1, <1>2 DEF Misread, ToModicon, Prefix
  <2>2. n \in Nat /\ n < 100000 /\ (n % 10000) - 1 # p.address
    BY <1>1, <2>1
  <2>3. FromModicon(n) = NoPoint \/ FromModicon(n).address = (n % 10000) - 1
    <3> HIDE DEF n
    <3>1. (IF n >= 100000 THEN 100000 ELSE 10000) = 10000
      BY <2>2
    <3>2. CASE n > 0 /\ (n % 10000) - 1 \in Word /\ TypesWith(n \div 10000) # {}
      BY <3>1, <3>2 DEF FromModicon
    <3>3. CASE ~(n > 0 /\ (n % 10000) - 1 \in Word /\ TypesWith(n \div 10000) # {})
      BY <3>1, <3>3 DEF FromModicon
    <3> QED
      BY <3>2, <3>3
  <2>4. NoPoint # p
    BY <1>1 DEF NoPoint, ObjectType
  <2>5. FromModicon(n) # p
    <3> HIDE DEF n
    <3> QED
      BY <2>2, <2>3, <2>4
  <2> QED
    BY <1>2, <2>5 DEF Parse
<1>3. CASE ~Misread(p)
  <2> DEFINE base == IF of > 9999 THEN 100000 ELSE 10000
  <2>1. n = Prefix(p.type) * base + of
    BY DEF ToModicon
  <2>2. Prefix(p.type) \in {0, 1, 3, 4} /\ (Prefix(p.type) = 0 => p.type = "Coil")
    BY <1>1 DEF Prefix, ObjectType
  <2>3. of \in Nat /\ 1 <= of /\ of < base /\ of <= 65536
    BY <1>1
  <2>4. (n >= 100000) = (of > 9999)
    BY <1>1, <1>3, <2>1, <2>2, <2>3 DEF Misread
  <2>5. n % base = of /\ n \div base = Prefix(p.type) /\ n > 0
    <3>1. base \in {10000, 100000}
      OBVIOUS
    <3> HIDE DEF n, of, base
    <3> QED
      BY <2>1, <2>2, <2>3, <3>1
  <2>6. TypesWith(Prefix(p.type)) = {p.type}
    BY <1>1 DEF TypesWith, Prefix, ObjectType
  <2>7. FromModicon(n) = [type |-> p.type, address |-> p.address]
    <3>1. (IF n >= 100000 THEN 100000 ELSE 10000) = base
      BY <2>4
    <3>2. (n % base) - 1 = p.address
      BY <1>1, <2>5
    <3>3. p.address \in Word
      BY DEF Point
    <3>4. (CHOOSE t \in {p.type} : TRUE) = p.type
      OBVIOUS
    <3> HIDE DEF n, base
    <3> QED
      BY <2>5, <2>6, <3>1, <3>2, <3>3, <3>4 DEF FromModicon
  <2>8. p = [type |-> p.type, address |-> p.address]
    BY DEF Point
  <2> QED
    BY <1>3, <2>7, <2>8 DEF Parse
<1> QED
  BY <1>2, <1>3

-----------------------------------------------------------------------------
(* No two points are printed alike (modicon.py to_modicon_string).         *)
THEOREM PrintedNamesDiffer == Spec => []NamesDiffer
<1>1. PathInv => NamesDiffer
  <2> SUFFICES ASSUME PathInv, item.kind = "point", coded # None,
                      NEW p \in [type : ObjectType, address : Address],
                      ToModicon(p) = coded[1]
               PROVE  p = item.point
    BY DEF NamesDiffer
  <2>1. item.point \in Point /\ coded[1] = ToModicon(item.point)
    BY DEF PathInv
  <2>2. p \in Point
    BY PointsWithin
  <2> QED
    BY <2>1, <2>2, PrintedOnce
<1> QED
  BY <1>1, PathKept, PTL

(* Printed addresses are read as the points they were printed for, high    *)
(* coils excepted (modicon.py).                                            *)
THEOREM PrintedNamesAreRead == Spec => []NamesAreRead
<1>1. PathInv => NamesAreRead
  <2> SUFFICES ASSUME PathInv, item.kind = "point", back # None
               PROVE  (back[1] = item.point) = ~Misread(item.point)
    BY DEF NamesAreRead
  <2>1. item.point \in Point /\ back[1] = Parse(ToModicon(item.point))
    BY DEF PathInv
  <2> QED
    BY <2>1, ReadBack
<1> QED
  BY <1>1, PathKept, PTL

(* What the three layers make of an option. *)
LEMMA Layered ==
  ASSUME NEW layers, NEW o \in Option
  PROVE  LoadOf(layers)[o] =
           IF o \in DOMAIN layers.cli THEN FromCommandLine(layers.cli)[o]
           ELSE IF o \in DOMAIN layers.env THEN FromEnvironment(layers.env)[o]
           ELSE IF o \in DOMAIN layers.yaml THEN layers.yaml[o]
           ELSE Defaults[o]
<1> DEFINE e == FromEnvironment(layers.env)
           c == FromCommandLine(layers.cli)
<1>1. DOMAIN e = DOMAIN layers.env /\ DOMAIN c = DOMAIN layers.cli
  BY DEF FromEnvironment, FromCommandLine
<1> HIDE DEF e, c
<1>2. LoadOf(layers) = Overlaid(Overlaid(Overlaid(Defaults, layers.yaml), e), c)
  BY DEF LoadOf, Load, e, c
<1>3. \A f, g : Overlaid(f, g)[o] = IF o \in DOMAIN g THEN g[o] ELSE f[o]
  BY DEF Overlaid
<1>4. LoadOf(layers)[o] = IF o \in DOMAIN c THEN c[o]
                          ELSE IF o \in DOMAIN e THEN e[o]
                          ELSE IF o \in DOMAIN layers.yaml THEN layers.yaml[o]
                          ELSE Defaults[o]
  BY <1>2, <1>3
<1> QED
  BY <1>1, <1>4 DEF e, c

(* Writes are on if and only if the last layer that speaks of them enables *)
(* them, or forbids them in quotes.                                        *)
LEMMA AllowedByConsent ==
  ASSUME item.layers \in WriteTried
  PROVE  Allowed(LoadOf(item.layers)) <=> Consent \/ QuotedNo
<1> DEFINE layers == item.layers
           o == "allowWrites"
           env == layers.env
           cli == layers.cli
           yaml == layers.yaml
<1>1. o \in Option /\ Defaults[o] = "no"
  BY DEF Option, Defaults
<1>2. o \in DOMAIN env =>
        FromEnvironment(env)[o] = IF env[o] \in {"1", "true", "yes"} THEN "yes" ELSE "no"
  BY DEF FromEnvironment
<1>3. o \in DOMAIN cli => FromCommandLine(cli)[o] = cli[o]
  BY DEF FromCommandLine
<1>4. LoadOf(layers)[o] = IF o \in DOMAIN cli THEN cli[o]
                          ELSE IF o \in DOMAIN env
                               THEN IF env[o] \in {"1", "true", "yes"} THEN "yes" ELSE "no"
                          ELSE IF o \in DOMAIN yaml THEN yaml[o]
                          ELSE "no"
  BY <1>1, <1>2, <1>3, Layered
<1>5. Allowed(LoadOf(layers)) <=> LoadOf(layers)[o] # "no"
  BY DEF Allowed
<1>6. Consent \/ QuotedNo <=>
                  \/ o \in DOMAIN cli /\ cli[o] = "yes"
                  \/ o \in DOMAIN env \ DOMAIN cli /\ env[o] \in {"1", "true", "yes"}
                  \/ /\ o \in DOMAIN yaml \ (DOMAIN env \cup DOMAIN cli)
                     /\ yaml[o] \in {"yes", "quoted yes", "quoted no"}
  BY DEF Consent, QuotedNo
<1>7. o \in DOMAIN cli => cli[o] = "yes"
  BY StatelessAssumption DEF IsCommandLine
<1> DEFINE loaded == LoadOf(layers)[o]
<1>9. o \in DOMAIN yaml => yaml[o] \in {"yes", "no", "quoted yes", "quoted no"}
  BY StatelessAssumption DEF PermissionInFile
<1>8. loaded # "no" <=> Consent \/ QuotedNo
  <2> HIDE DEF loaded, o, env, cli, yaml
  <2>1. CASE o \in DOMAIN cli
    BY <1>4, <1>6, <1>7, <2>1 DEF loaded
  <2>2. CASE o \in DOMAIN env \ DOMAIN cli
    BY <1>4, <1>6, <2>2 DEF loaded
  <2>3. CASE o \notin DOMAIN env \cup DOMAIN cli
    BY <1>4, <1>6, <1>9, <2>3 DEF loaded
  <2> QED
    BY <2>1, <2>2, <2>3
<1> QED
  BY <1>5, <1>8

(* Every option but two ends up as the last word on it has it, and the     *)
(* transport as the line that is named.                                    *)
LEMMA LastWordCounts ==
  /\ \A o \in Option \ {"transport", "allowWrites"} :
       LoadOf(item.layers)[o] = LastWord(o)
  /\ LoadOf(item.layers)["transport"] = LineNamed
<1> DEFINE layers == item.layers
<1>1. ASSUME NEW o \in Option \ {"transport", "allowWrites"}
      PROVE  LoadOf(layers)[o] = LastWord(o)
  <2>1. o \in DOMAIN layers.cli => FromCommandLine(layers.cli)[o] = layers.cli[o]
    BY DEF FromCommandLine
  <2>2. o \in DOMAIN layers.env => FromEnvironment(layers.env)[o] = layers.env[o]
    BY DEF FromEnvironment
  <2> QED
    BY <2>1, <2>2, Layered DEF LastWord
<1>2. LoadOf(layers)["transport"] = LineNamed
  <2> DEFINE o == "transport"
  <2>1. o \in Option
    BY DEF Option
  <2>2. o \in DOMAIN layers.cli =>
          /\ FromCommandLine(layers.cli)[o] =
               IF layers.cli[o] \in {"tcp", "Tcp"} THEN "Tcp" ELSE "Rtu"
          /\ LastWord(o) = layers.cli[o]
    BY DEF FromCommandLine, LastWord
  <2>3. o \in DOMAIN layers.env => FromEnvironment(layers.env)[o] = layers.env[o]
    BY DEF FromEnvironment
  <2>4. CASE o \in DOMAIN layers.cli
    <3>1. LoadOf(layers)[o] = FromCommandLine(layers.cli)[o]
      BY <2>1, <2>4, Layered
    <3> QED
      BY <2>2, <2>4, <3>1 DEF LineNamed
  <2>5. CASE o \notin DOMAIN layers.cli
    <3>1. LoadOf(layers)[o] = LastWord(o)
      BY <2>1, <2>3, <2>5, Layered DEF LastWord
    <3> QED
      BY <2>5, <3>1 DEF LineNamed
  <2> QED
    BY <2>4, <2>5
<1> QED
  BY <1>1, <1>2

(* Numbers are numbers whoever has the last word. *)
LEMMA LastNumbers ==
  ASSUME item.layers \in BootTried
  PROVE  /\ \A o \in Numbers : LastWord(o) \in Int
         /\ \A r \in LastWord("ranges") : r.poll \in Int /\ r.count \in Int /\ r.batch \in Int
<1> DEFINE layers == item.layers
<1>1. /\ IsLayer(layers.yaml, Option) /\ IsLayer(layers.env, EnvOption)
      /\ IsLayer(layers.cli, CliOption)
  BY StatelessAssumption DEF IsCommandLine
<1>2. ASSUME NEW o \in Numbers PROVE LastWord(o) \in Int
  <2>1. Defaults[o] \in Int
    BY DEF Defaults, Option, Numbers
  <2>2. /\ o \in DOMAIN layers.cli => layers.cli[o] \in Int
        /\ o \in DOMAIN layers.env => layers.env[o] \in Int
        /\ o \in DOMAIN layers.yaml => layers.yaml[o] \in Int
    BY <1>1 DEF IsLayer
  <2> QED
    BY <2>1, <2>2 DEF LastWord
<1>3. ASSUME NEW r \in LastWord("ranges")
      PROVE  r.poll \in Int /\ r.count \in Int /\ r.batch \in Int
  <2> DEFINE o == "ranges"
  <2>1. Defaults[o] = DefaultRanges
    BY DEF Defaults, Option
  <2>2. o \notin DOMAIN layers.cli /\ o \notin DOMAIN layers.env
    BY <1>1 DEF IsLayer, CliOption, EnvOption
  <2>3. LastWord(o) = IF o \in DOMAIN layers.yaml THEN layers.yaml[o] ELSE DefaultRanges
    BY <2>1, <2>2 DEF LastWord
  <2>4. CASE o \in DOMAIN layers.yaml
    <3>1. {r.poll, r.count, r.batch} \subseteq Int
      BY <1>1, <1>3, <2>3, <2>4 DEF IsLayer
    <3> QED
      BY <3>1
  <2>5. CASE o \notin DOMAIN layers.yaml
    BY <1>3, <2>3, <2>5 DEF DefaultRanges, DefaultRange
  <2> QED
    BY <2>4, <2>5
<1> QED
  BY <1>2, <1>3

(* What starts is what was asked for and can run, and what is refused has  *)
(* a fault that no later layer corrected, for all files, environments and  *)
(* command lines (service.py make_app, config_loader.py, options.py).      *)
THEOREM StartsAsAsked == Spec => []BootIsAsked
<1>1. PathInv => BootIsAsked
  <2> SUFFICES ASSUME PathInv, item.kind = "boot", back # None
               PROVE  BootIsAsked
    BY DEF BootIsAsked
  <2> DEFINE config == LoadOf(item.layers)
             ranges == LastWord("ranges")
             Runnable ==
               /\ LineNamed \in {"Tcp", "Rtu"}
               /\ LastWord("unit") \in UnitIds /\ LastWord("port") \in 1 .. Top
               /\ LastWord("multiplier") >= 1
               /\ LastWord("batch") > 0 /\ LastWord("end") >= LastWord("start")
               /\ \A r \in ranges :
                    r.poll > 0 /\ r.count > 0 /\ r.batch > 0 /\ r.unit \in UnitIds
  <2>1. back[1] = MakeApp(config) /\ item.layers \in BootTried
    BY DEF PathInv
  <2>2. /\ config["unit"] = LastWord("unit") /\ config["port"] = LastWord("port")
        /\ config["multiplier"] = LastWord("multiplier")
        /\ config["batch"] = LastWord("batch") /\ config["ranges"] = ranges
        /\ config["start"] = LastWord("start") /\ config["end"] = LastWord("end")
        /\ config["mode"] = LastWord("mode") /\ config["transport"] = LineNamed
    BY LastWordCounts DEF Option
  <2>3. /\ LastWord("multiplier") \in Int /\ LastWord("batch") \in Int
        /\ LastWord("start") \in Int /\ LastWord("end") \in Int
        /\ \A r \in ranges : r.poll \in Int /\ r.count \in Int /\ r.batch \in Int
    BY <2>1, LastNumbers DEF Numbers
  <2> HIDE DEF config, ranges
  <2>4. Valid(config) <=> Runnable
    BY <2>2 DEF Valid
  <2>5. CASE ~Runnable
    <3>1. back[1] = Refused
      BY <2>1, <2>4, <2>5 DEF MakeApp
    <3> QED
      BY <2>3, <2>5, <3>1 DEF BootIsAsked, ranges
  <2>6. CASE Runnable
    <3>1. /\ back[1].runs = (IF LastWord("mode") \in Discover THEN "discovery" ELSE "scanner")
          /\ back[1].line = LineNamed
      BY <2>1, <2>2, <2>4, <2>6 DEF MakeApp
    <3>2. back[1] # Refused
      BY <3>1 DEF Refused
    <3> QED
      BY <2>3, <2>6, <3>1, <3>2 DEF BootIsAsked, ranges
  <2> QED
    BY <2>5, <2>6
<1> QED
  BY <1>1, PathKept, PTL

LEMMA ConsentKept == PathInv => WritesNeedConsent
<1> SUFFICES ASSUME PathInv, item.kind = "write", back # None
             PROVE  WritesNeedConsent
  BY DEF WritesNeedConsent
<1> DEFINE config == LoadOf(item.layers)
           body == item.body
<1>1. PICK outcome \in Outcome : back[1] = PostWrite(config, body, outcome)
  BY DEF PathInv
<1>2. Allowed(config) <=> Consent \/ QuotedNo
  <2>1. item.layers \in WriteTried
    BY DEF PathInv
  <2> QED
    BY <2>1, AllowedByConsent
<1>3. /\ body.confirm \in BOOLEAN /\ body.value \in Int
      /\ body.type \in ObjectType \cup {"unknown"}
  BY DEF PathInv
<1>4. CASE ~body.confirm \/ body.type \notin Writable
  BY <1>1, <1>4 DEF PostWrite, Answer, WritesNeedConsent
<1>5. CASE ~(~body.confirm \/ body.type \notin Writable)
  <2>1. body.confirm /\ body.type \in {"Coil", "HoldingRegister"}
    BY <1>3, <1>5 DEF Writable
  <2>2. {0, 1} \subseteq Word
    BY DEF Word, Top
  <2>3. CASE ~Allowed(config)
    BY <1>1, <1>2, <1>5, <2>3 DEF PostWrite, Answer, WritesNeedConsent
  <2>4. CASE /\ Allowed(config)
             /\ body.target = "missing" \/ (body.type # "Coil" /\ body.value \notin Word)
    BY <1>1, <1>2, <1>5, <2>4 DEF PostWrite, Answer, WritesNeedConsent
  <2>5. CASE /\ Allowed(config)
             /\ ~(body.target = "missing" \/ (body.type # "Coil" /\ body.value \notin Word))
    <3> HIDE DEF config, body
    <3>1. back[1] = Call(config, body, outcome)
      BY <1>1, <1>5, <2>5 DEF PostWrite
    <3>2. \/ back[1] = Answer(502) \/ back[1] = Answer(500)
          \/ back[1] = Sent(body, 200) \/ back[1] = Sent(body, 502)
      BY <2>5, <3>1 DEF Call
    <3>3. (Consent \/ QuotedNo) /\ body.confirm /\ body.type \in {"Coil", "HoldingRegister"}
      BY <1>2, <2>1, <2>5
    <3>4. Sent(body, 200).value \in Word /\ Sent(body, 502).value \in Word
      BY <2>1, <2>2, <2>5 DEF Sent
    <3> USE DEF body
    <3> QED
      BY <3>2, <3>3, <3>4 DEF Answer, Sent, WritesNeedConsent
  <2> QED
    BY <2>3, <2>4, <2>5
<1> QED
  BY <1>4, <1>5

(* No write goes out unless the last layer that speaks enables writes or   *)
(* is a file that forbids them in quotes, nor unconfirmed, nor of a type   *)
(* or width a device has not, for all layers and requests                  *)
(* (config_loader.py, api.py post_write).                                  *)
THEOREM NoWriteWithoutConsent == Spec => []WritesNeedConsent
BY ConsentKept, PathKept, PTL

(* No write goes out that is not enabled, if no file forbids in quotes: no *)
(* other spelling in any layer gets round the permission                   *)
(* (config_loader.py, safety.py).                                          *)
THEOREM BlockedByDefault ==
  ASSUME \A l \in WriteTried :
           "allowWrites" \in DOMAIN l.yaml => l.yaml["allowWrites"] # "quoted no"
  PROVE  Spec => []BlockedUnlessEnabled
<1>1. PathInv => BlockedUnlessEnabled
  <2> SUFFICES ASSUME PathInv, item.kind = "write", back # None, back[1].sent
               PROVE  Consent
    BY DEF BlockedUnlessEnabled
  <2>1. item.layers \in WriteTried
    BY DEF PathInv
  <2>2. ~QuotedNo
    BY <2>1 DEF QuotedNo
  <2> QED
    BY <2>2, ConsentKept DEF WritesNeedConsent
<1> QED
  BY <1>1, PathKept, PTL

-----------------------------------------------------------------------------
(* Values that are encoded and decoded. *)
ShortInv ==
  item.kind = "short" =>
    /\ item.number \in Int /\ IsShort(item.number)
    /\ coded # None => coded = <<EncodeShort(item.number)>>
    /\ coded = None => back = None
    /\ back # None => back = <<ToInt16(EncodeShort(item.number))>>
WideInv ==
  item.kind = "wide" =>
    /\ item.raw \in [1 .. 4 -> Byte \cup {Null}] /\ item.order \in Order
    /\ coded # None => coded = <<ApplyWordOrder(item.raw, item.order)>>
    /\ coded = None => back = None
    /\ back # None =>
         back = <<OrderedBytes32(ApplyWordOrder(item.raw, item.order), item.order)>>
TextInv ==
  item.kind = "text" =>
    /\ item.text \in Seq(Byte) /\ item.length \in Nat
    /\ coded # None => coded = <<EncodeText(item.text, item.length)>>
    /\ coded = None => back = None
    /\ back # None => back = <<DecodeText(EncodeText(item.text, item.length), "ABCD")>>

LEMMA Tried == ValueTried \subseteq Int /\ MaxLength \in Nat
BY StatelessAssumption

LEMMA KindsOfItems ==
  /\ \A i \in PointItem : i.kind = "point"
  /\ \A i \in ShortItem :
       i.kind = "short" /\ i.number \in Int /\ IsShort(i.number)
  /\ \A i \in WideItem :
       i.kind = "wide" /\ i.raw \in [1 .. 4 -> Byte \cup {Null}] /\ i.order \in Order
  /\ \A i \in TextItem : i.kind = "text" /\ i.text \in Seq(Byte) /\ i.length \in Nat
  /\ \A i \in BootItem : i.kind = "boot"
  /\ \A i \in WriteItem : i.kind = "write"
<1>1. ASSUME NEW i \in ShortItem
      PROVE  i.kind = "short" /\ i.number \in Int /\ IsShort(i.number)
  <2>1. i.kind = "short" /\ i.number \in {v \in ValueTried : IsShort(v)}
    BY DEF ShortItem
  <2> QED
    BY <2>1, Tried
<1>2. ASSUME NEW i \in TextItem
      PROVE  i.kind = "text" /\ i.text \in Seq(Byte) /\ i.length \in Nat
  <2>1. i.kind = "text" /\ i.text \in Texts /\ i.length \in 0 .. MaxLength
    BY DEF TextItem
  <2>2. i.text \in Seq(Byte)
    BY <2>1, Tried, SeqDef DEF Texts
  <2> QED
    BY <2>1, <2>2, Tried
<1>3. \A i \in WideItem :
        i.kind = "wide" /\ i.raw \in [1 .. 4 -> Byte \cup {Null}] /\ i.order \in Order
  BY DEF WideItem
<1>4. /\ \A i \in PointItem : i.kind = "point"
      /\ \A i \in BootItem : i.kind = "boot"
      /\ \A i \in WriteItem : i.kind = "write"
  BY DEF PointItem, BootItem, WriteItem
<1> QED
  BY <1>1, <1>2, <1>3, <1>4

LEMMA ValueInitial == Init => ShortInv /\ WideInv /\ TextInv
<1> SUFFICES ASSUME Init PROVE ShortInv /\ WideInv /\ TextInv
  OBVIOUS
<1>1. /\ coded = None /\ back = None
      /\ \/ item \in PointItem \cup ShortItem
         \/ item \in WideItem \cup TextItem
         \/ item \in BootItem \cup WriteItem
  BY DEF Init
<1>2. ShortInv
  BY <1>1, KindsOfItems DEF ShortInv
<1>3. WideInv
  BY <1>1, KindsOfItems DEF WideInv
<1>4. TextInv
  BY <1>1, KindsOfItems DEF TextInv
<1> QED
  BY <1>2, <1>3, <1>4

LEMMA ItemStays == [Next]_vars => UNCHANGED item
BY DEF Next, vars, NamePoint, LookUp, LoadShort, ReadShort, LoadWide, ReadWide, LoadText,
       ReadText, Configure, Boot, Post, Halfway, Out

(* What a step does to an item of the kind. *)
LEMMA OwnSteps ==
  ASSUME [Next]_vars, NEW kind \in {"short", "wide", "text"}, item.kind = kind
  PROVE  /\ UNCHANGED item
         /\ \/ UNCHANGED <<coded, back>>
            \/ coded = None /\ UNCHANGED back /\ (LoadShort \/ LoadWide \/ LoadText)
            \/ coded # None /\ UNCHANGED coded /\ (ReadShort \/ ReadWide \/ ReadText)
<1>1. CASE UNCHANGED vars
  BY <1>1 DEF vars
<1>2. CASE LoadShort \/ LoadWide \/ LoadText
  BY <1>2 DEF LoadShort, LoadWide, LoadText, Halfway
<1>3. CASE ReadShort \/ ReadWide \/ ReadText
  BY <1>3 DEF ReadShort, ReadWide, ReadText, Out
<1>4. CASE NamePoint \/ LookUp \/ Configure \/ Boot \/ Post
  BY <1>4 DEF NamePoint, LookUp, Configure, Boot, Post
<1> QED
  BY <1>1, <1>2, <1>3, <1>4 DEF Next

LEMMA ShortStep == ShortInv /\ [Next]_vars => ShortInv'
<1> SUFFICES ASSUME ShortInv, [Next]_vars, item'.kind = "short" PROVE ShortInv'
  BY DEF ShortInv
<1>0. item.kind = "short"
  BY ItemStays
<1>1. UNCHANGED item
  BY ItemStays
<1>2. CASE UNCHANGED <<coded, back>>
  BY <1>0, <1>1, <1>2 DEF ShortInv
<1>3. CASE coded = None /\ UNCHANGED back /\ (LoadShort \/ LoadWide \/ LoadText)
  <2>1. coded' = <<EncodeShort(item.number)>>
    BY <1>0, <1>3 DEF LoadShort, LoadWide, LoadText, Halfway
  <2>2. back' = None
    BY <1>0, <1>3 DEF ShortInv
  <2> QED
    BY <1>0, <1>1, <2>1, <2>2 DEF ShortInv
<1>4. CASE coded # None /\ UNCHANGED coded /\ (ReadShort \/ ReadWide \/ ReadText)
  <2>1. back' = <<ToInt16(coded[1])>>
    BY <1>0, <1>4 DEF ReadShort, ReadWide, ReadText, Out
  <2>2. coded = <<EncodeShort(item.number)>>
    BY <1>0, <1>4 DEF ShortInv
  <2>3. back' = <<ToInt16(EncodeShort(item.number))>>
    BY <2>1, <2>2
  <2> QED
    BY <1>0, <1>1, <1>4, <2>2, <2>3 DEF ShortInv
<1> QED
  BY <1>0, <1>2, <1>3, <1>4, OwnSteps

LEMMA WideStep == WideInv /\ [Next]_vars => WideInv'
<1> SUFFICES ASSUME WideInv, [Next]_vars, item'.kind = "wide" PROVE WideInv'
  BY DEF WideInv
<1>0. item.kind = "wide"
  BY ItemStays
<1>1. UNCHANGED item
  BY ItemStays
<1>2. CASE UNCHANGED <<coded, back>>
  BY <1>0, <1>1, <1>2 DEF WideInv
<1>3. CASE coded = None /\ UNCHANGED back /\ (LoadShort \/ LoadWide \/ LoadText)
  <2>1. coded' = <<ApplyWordOrder(item.raw, item.order)>>
    BY <1>0, <1>3 DEF LoadShort, LoadWide, LoadText, Halfway
  <2>2. back' = None
    BY <1>0, <1>3 DEF WideInv
  <2> QED
    BY <1>0, <1>1, <2>1, <2>2 DEF WideInv
<1>4. CASE coded # None /\ UNCHANGED coded /\ (ReadShort \/ ReadWide \/ ReadText)
  <2>1. back' = <<OrderedBytes32(coded[1], item.order)>>
    BY <1>0, <1>4 DEF ReadShort, ReadWide, ReadText, Out
  <2>2. coded = <<ApplyWordOrder(item.raw, item.order)>>
    BY <1>0, <1>4 DEF WideInv
  <2>3. back' = <<OrderedBytes32(ApplyWordOrder(item.raw, item.order), item.order)>>
    BY <2>1, <2>2
  <2> QED
    BY <1>0, <1>1, <1>4, <2>2, <2>3 DEF WideInv
<1> QED
  BY <1>0, <1>2, <1>3, <1>4, OwnSteps

LEMMA TextStep == TextInv /\ [Next]_vars => TextInv'
<1> SUFFICES ASSUME TextInv, [Next]_vars, item'.kind = "text" PROVE TextInv'
  BY DEF TextInv
<1>0. item.kind = "text"
  BY ItemStays
<1>1. UNCHANGED item
  BY ItemStays
<1>2. CASE UNCHANGED <<coded, back>>
  BY <1>0, <1>1, <1>2 DEF TextInv
<1>3. CASE coded = None /\ UNCHANGED back /\ (LoadShort \/ LoadWide \/ LoadText)
  <2>1. coded' = <<EncodeText(item.text, item.length)>>
    BY <1>0, <1>3 DEF LoadShort, LoadWide, LoadText, Halfway
  <2>2. back' = None
    BY <1>0, <1>3 DEF TextInv
  <2> QED
    BY <1>0, <1>1, <2>1, <2>2 DEF TextInv
<1>4. CASE coded # None /\ UNCHANGED coded /\ (ReadShort \/ ReadWide \/ ReadText)
  <2>1. back' = <<DecodeText(coded[1], "ABCD")>>
    BY <1>0, <1>4 DEF ReadShort, ReadWide, ReadText, Out
  <2>2. coded = <<EncodeText(item.text, item.length)>>
    BY <1>0, <1>4 DEF TextInv
  <2>3. back' = <<DecodeText(EncodeText(item.text, item.length), "ABCD")>>
    BY <2>1, <2>2
  <2> QED
    BY <1>0, <1>1, <1>4, <2>2, <2>3 DEF TextInv
<1> QED
  BY <1>0, <1>2, <1>3, <1>4, OwnSteps

LEMMA ShortSurvives ==
  ASSUME NEW n \in Int, IsShort(n)
  PROVE  ToInt16(EncodeShort(n)) = n
<1>1. n % 65536 = IF n < 0 THEN n + 65536 ELSE n
  BY DEF IsShort
<1>2. EncodeShort(n) = IF n < 0 THEN n + 65536 ELSE n
  BY <1>1 DEF EncodeShort
<1> DEFINE m == EncodeShort(n)
<1>3. ToInt16(m) = IF m < 32768 THEN m ELSE m - 65536
  BY DEF ToInt16
<1>4. m = IF n < 0 THEN n + 65536 ELSE n
  BY <1>2
<1> HIDE DEF m
<1>5. ToInt16(m) = n
  BY <1>3, <1>4 DEF IsShort
<1> QED
  BY <1>5 DEF m

(* The decoder's table for two registers and its loop for any number of    *)
(* them read the same bytes.                                               *)
LEMMA TableIsLoop ==
  ASSUME NEW a, NEW b, NEW c, NEW d, NEW order \in Order
  PROVE  OrderedBytes(<<<<a, b>>, <<c, d>>>>, order) =
           OrderedBytes32(<<<<a, b>>, <<c, d>>>>, order)
<1> DEFINE r == <<<<a, b>>, <<c, d>>>>
           From(k) == IF SwapsWords(order) THEN 2 + 1 - (k + 1) \div 2 ELSE (k + 1) \div 2
           High(k) == (k % 2 = 1) # SwapsBytes(order)
           loop == OrderedBytes(r, order)
           table == OrderedBytes32(r, order)
<1>1. Len(r) = 2 /\ r[1][1] = a /\ r[1][2] = b /\ r[2][1] = c /\ r[2][2] = d
  OBVIOUS
<1>2. loop = [k \in 1 .. 4 |-> r[From(k)][IF High(k) THEN 1 ELSE 2]]
  BY <1>1 DEF OrderedBytes
<1>3. table = CASE order = "ABCD" -> <<a, b, c, d>>
                [] order = "CDAB" -> <<c, d, a, b>>
                [] order = "BADC" -> <<b, a, d, c>>
                [] order = "DCBA" -> <<d, c, b, a>>
  BY <1>1 DEF OrderedBytes32
<1> HIDE DEF r, loop, table
<1>4. /\ (1 + 1) \div 2 = 1 /\ (2 + 1) \div 2 = 1 /\ (3 + 1) \div 2 = 2 /\ (4 + 1) \div 2 = 2
      /\ 1 % 2 = 1 /\ 2 % 2 = 0 /\ 3 % 2 = 1 /\ 4 % 2 = 0
  OBVIOUS
<1>5. /\ loop[1] = r[From(1)][IF High(1) THEN 1 ELSE 2]
      /\ loop[2] = r[From(2)][IF High(2) THEN 1 ELSE 2]
      /\ loop[3] = r[From(3)][IF High(3) THEN 1 ELSE 2]
      /\ loop[4] = r[From(4)][IF High(4) THEN 1 ELSE 2]
      /\ loop = [k \in 1 .. 4 |-> loop[k]]
  BY <1>2
<1>6. loop[1] = table[1] /\ loop[2] = table[2] /\ loop[3] = table[3] /\ loop[4] = table[4]
  <2>1. CASE order = "ABCD"
    BY <1>1, <1>3, <1>4, <1>5, <2>1 DEF SwapsWords, SwapsBytes
  <2>2. CASE order = "CDAB"
    BY <1>1, <1>3, <1>4, <1>5, <2>2 DEF SwapsWords, SwapsBytes
  <2>3. CASE order = "BADC"
    BY <1>1, <1>3, <1>4, <1>5, <2>3 DEF SwapsWords, SwapsBytes
  <2>4. CASE order = "DCBA"
    BY <1>1, <1>3, <1>4, <1>5, <2>4 DEF SwapsWords, SwapsBytes
  <2> QED
    BY <2>1, <2>2, <2>3, <2>4 DEF Order
<1>7. table = [k \in 1 .. 4 |-> table[k]]
  BY <1>3 DEF Order
<1>8. \A k \in 1 .. 4 : loop[k] = table[k]
  <2> TAKE k \in 1 .. 4
  <2>1. k = 1 \/ k = 2 \/ k = 3 \/ k = 4
    OBVIOUS
  <2> QED
    BY <1>6, <2>1
<1>9. loop = table
  BY <1>5, <1>7, <1>8
<1> QED
  BY <1>9 DEF loop, table, r

LEMMA WideSurvives ==
  ASSUME NEW raw \in [1 .. 4 -> Byte \cup {Null}], NEW order \in Order
  PROVE  /\ OrderedBytes32(ApplyWordOrder(raw, order), order) = raw
         /\ OrderedBytes(ApplyWordOrder(raw, order), order) = raw
<1>1. raw = <<raw[1], raw[2], raw[3], raw[4]>>
  OBVIOUS
<1>2. OrderedBytes32(ApplyWordOrder(raw, order), order) = <<raw[1], raw[2], raw[3], raw[4]>>
  BY DEF OrderedBytes32, ApplyWordOrder, Order
<1>3. \E a, b, c, d : ApplyWordOrder(raw, order) = <<<<a, b>>, <<c, d>>>>
  BY DEF ApplyWordOrder, Order
<1> QED
  BY <1>1, <1>2, <1>3, TableIsLoop


(* What is left of a text: all of it, or its first "length" characters.    *)
Kept(text, length) == IF length = 0 \/ length > Len(text) THEN Len(text) ELSE length

LEMMA SizeIsEven ==
  ASSUME NEW text \in Seq(Byte), NEW length \in Nat, length % 2 = 0
  PROVE  /\ \E h \in Nat : TextSize(text, length) = 2 * h
         /\ Kept(text, length) \in 0 .. Len(text)
         /\ Kept(text, length) <= TextSize(text, length)
         /\ Kept(text, length) < Len(text) => Kept(text, length) = TextSize(text, length)
<1> DEFINE n == Len(text)
<1>1. n \in Nat
  OBVIOUS
<1> HIDE DEF n
<1>2. \E h \in Nat : length = 2 * h
  OBVIOUS
<1>3. \E h \in Nat : n + (n % 2) = 2 * h
  <2>1. CASE n % 2 = 0
    BY <1>1, <2>1
  <2>2. CASE n % 2 = 1
    <3>1. n = 2 * (n \div 2) + 1 /\ n \div 2 \in Nat
      BY <1>1, <2>2
    <3> DEFINE q == n \div 2
    <3> HIDE DEF q
    <3>2. n = 2 * q + 1 /\ q \in Nat
      BY <3>1 DEF q
    <3>3. n + 1 = 2 * (q + 1) /\ q + 1 \in Nat
      BY <3>2
    <3> QED
      BY <2>2, <3>3
  <2> QED
    BY <1>1, <2>1, <2>2
<1>4. n % 2 >= 0
  BY <1>1
<1>5. TextSize(text, length) = IF length > 0 THEN length ELSE n + (n % 2)
  BY DEF TextSize, n
<1>6. Kept(text, length) = IF length = 0 \/ length > n THEN n ELSE length
  BY DEF Kept, n
<1>7. \E h \in Nat : TextSize(text, length) = 2 * h
  BY <1>2, <1>3, <1>5
<1>8. n % 2 \in Nat
  BY <1>1
<1>9. /\ Kept(text, length) \in 0 .. n
      /\ Kept(text, length) <= TextSize(text, length)
      /\ Kept(text, length) < n => Kept(text, length) = TextSize(text, length)
  BY <1>1, <1>5, <1>6, <1>8
<1> QED
  BY <1>7, <1>9 DEF n

LEMMA HalvesMeet ==
  ASSUME NEW h \in Nat, NEW k \in 1 .. 2 * h
  PROVE  LET word == (k + 1) \div 2
         IN  /\ word \in 1 .. h
             /\ k % 2 = 1 => 2 * word - 1 = k
             /\ k % 2 # 1 => 2 * word = k
OBVIOUS

LEMMA BytesReturn ==
  ASSUME NEW text \in Seq(Byte), NEW length \in Nat,
         NEW h \in Nat, TextSize(text, length) = 2 * h
  PROVE  OrderedBytes(EncodeText(text, length), "ABCD") = Padded(text, 2 * h)
<1> DEFINE bytes == Padded(text, 2 * h)
           regs == EncodeText(text, length)
           loop == OrderedBytes(regs, "ABCD")
<1>0. (2 * h + 1) \div 2 = h
  OBVIOUS
<1>1. regs = [r \in 1 .. h |-> IF 2 * r <= 2 * h THEN <<bytes[2 * r - 1], bytes[2 * r]>>
                               ELSE <<Null, bytes[2 * h]>>]
  BY <1>0 DEF EncodeText
<1>8. bytes = [i \in 1 .. 2 * h |-> bytes[i]]
  BY DEF Padded
<1> HIDE DEF regs, bytes
<1>2. \A r \in 1 .. h : regs[r][1] = bytes[2 * r - 1] /\ regs[r][2] = bytes[2 * r]
  BY <1>1
<1>3. Len(regs) = h
  BY <1>1
<1>4. ~SwapsWords("ABCD") /\ ~SwapsBytes("ABCD")
  BY DEF SwapsWords, SwapsBytes
<1>5. loop = [k \in 1 .. 2 * h |-> regs[(k + 1) \div 2][IF k % 2 = 1 THEN 1 ELSE 2]]
  <2>1. loop = [k \in 1 .. 2 * h |->
                  LET word == (k + 1) \div 2
                      from == IF SwapsWords("ABCD") THEN h + 1 - word ELSE word
                      high == (k % 2 = 1) # SwapsBytes("ABCD")
                  IN  regs[from][IF high THEN 1 ELSE 2]]
    BY <1>3 DEF OrderedBytes
  <2> HIDE DEF loop
  <2>2. ASSUME NEW k \in 1 .. 2 * h
        PROVE  ((k % 2 = 1) # SwapsBytes("ABCD")) <=> k % 2 = 1
    BY DEF SwapsBytes
  <2> QED
    BY <1>4, <2>1, <2>2
<1> HIDE DEF loop
<1>6. ASSUME NEW k \in 1 .. 2 * h PROVE loop[k] = bytes[k]
  <2> DEFINE word == (k + 1) \div 2
  <2>1. loop[k] = regs[word][IF k % 2 = 1 THEN 1 ELSE 2]
    BY <1>5
  <2>2. word \in 1 .. h /\ (k % 2 = 1 => 2 * word - 1 = k) /\ (k % 2 # 1 => 2 * word = k)
    BY HalvesMeet
  <2> HIDE DEF word
  <2> QED
    BY <1>2, <2>1, <2>2
<1>7. loop = [k \in 1 .. 2 * h |-> loop[k]]
  BY <1>5
<1> QED
  BY <1>8, <1>6, <1>7 DEF loop, bytes, regs

LEMMA TrimmedIsKept ==
  ASSUME NEW text \in Seq(Byte), NEW size \in Nat, NEW kept \in 0 .. Len(text),
         kept <= size, kept < Len(text) => kept = size
  PROVE  Trim(Padded(text, size)) = SubSeq(text, 1, kept)
<1> DEFINE bytes == Padded(text, size)
           Ends(m) == /\ m > 0 => bytes[m] # Null
                      /\ \A i \in m + 1 .. size : bytes[i] = Null
<1>0. Len(text) \in Nat /\ \A i \in 1 .. Len(text) : text[i] \in Byte
  OBVIOUS
<1>1. bytes = [i \in 1 .. size |-> IF i <= Len(text) THEN text[i] ELSE Null]
  BY DEF Padded
<1>2. bytes \in Seq(Byte \cup {Null}) /\ Len(bytes) = size
  BY <1>0, <1>1
<1>3. /\ \A i \in 1 .. kept : bytes[i] = text[i] /\ bytes[i] # Null
      /\ \A i \in kept + 1 .. size : bytes[i] = Null
  BY <1>0, <1>1, StatelessAssumption
<1>4. SubSeq(bytes, 1, kept) = SubSeq(text, 1, kept)
  <2>1. SubSeq(bytes, 1, kept) = [i \in 1 .. kept |-> bytes[i]]
    BY <1>2
  <2>2. SubSeq(text, 1, kept) = [i \in 1 .. kept |-> text[i]]
    BY <1>0
  <2> QED
    BY <1>3, <2>1, <2>2
<1>5. Trim(bytes) = SubSeq(bytes, 1, CHOOSE m \in 0 .. size : Ends(m))
  BY <1>2 DEF Trim
<1> HIDE DEF bytes
<1>6. kept \in 0 .. size /\ Ends(kept)
  BY <1>0, <1>3
<1>7. ASSUME NEW m \in 0 .. size, Ends(m) PROVE m = kept
  <2>1. CASE m < kept
    BY <1>0, <1>3, <1>7, <2>1
  <2>2. CASE m > kept
    BY <1>0, <1>3, <1>7, <2>2
  <2> QED
    BY <1>0, <2>1, <2>2
<1> HIDE DEF Ends
<1>8. (CHOOSE m \in 0 .. size : Ends(m)) = kept
  BY <1>6, <1>7
<1> QED
  BY <1>4, <1>5, <1>8 DEF bytes

LEMMA TextSurvives ==
  ASSUME NEW text \in Seq(Byte), NEW length \in Nat, length % 2 = 0
  PROVE  DecodeText(EncodeText(text, length), "ABCD") = SubSeq(text, 1, Kept(text, length))
<1>1. PICK h \in Nat : TextSize(text, length) = 2 * h
  BY SizeIsEven
<1>2. OrderedBytes(EncodeText(text, length), "ABCD") = Padded(text, 2 * h)
  BY <1>1, BytesReturn
<1> DEFINE kept == Kept(text, length)
<1>3. kept \in 0 .. Len(text) /\ kept <= 2 * h /\ (kept < Len(text) => kept = 2 * h)
  BY <1>1, SizeIsEven
<1> HIDE DEF kept
<1>4. 2 * h \in Nat
  OBVIOUS
<1>5. Trim(Padded(text, 2 * h)) = SubSeq(text, 1, kept)
  BY <1>3, <1>4, TrimmedIsKept
<1> QED
  BY <1>2, <1>5 DEF DecodeText, kept

(* What the simulator encodes, the decoder reads, for numbers, bytes, word *)
(* orders and texts of any length (plc_sim.py _encode_value, decoder.py).  *)
THEOREM EncodedIsRead == Spec => []ValuesSurvive
<1> DEFINE Inv == ShortInv /\ WideInv /\ TextInv
<1>1. Init => Inv
  BY ValueInitial
<1>2. Inv /\ [Next]_vars => Inv'
  BY ShortStep, WideStep, TextStep
<1>3. Inv => ValuesSurvive
  <2> SUFFICES ASSUME Inv, back # None PROVE ValuesSurvive
    BY DEF ValuesSurvive
  <2>1. item.kind = "short" => back[1] = item.number
    BY ShortSurvives DEF ShortInv
  <2>2. item.kind = "wide" =>
          back[1] = item.raw /\ OrderedBytes(coded[1], item.order) = item.raw
    BY WideSurvives DEF WideInv
  <2>3. ASSUME item.kind = "text", item.length % 2 = 0
        PROVE  back[1] = SubSeq(item.text, 1, Kept(item.text, item.length))
    BY <2>3, TextSurvives DEF TextInv
  <2> QED
    BY <2>1, <2>2, <2>3 DEF ValuesSurvive, Kept
<1> QED
  BY <1>1, <1>2, <1>3, PTL DEF Spec
=============================================================================
