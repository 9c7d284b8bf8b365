----------------------------- MODULE Stateless -----------------------------
(***************************************************************************)
(* The parts of the program that keep no state, each with an input on its  *)
(* way through it: a point that is printed and looked up, a value that the *)
(* simulator encodes and the decoder reads, layers of configuration, the   *)
(* service that starts from them and a write request that meets them.      *)
(***************************************************************************)
EXTENDS WriteApi, WordOrder

CONSTANTS
  Address,     \* bound: the protocol addresses tried
  Byte,        \* bound: the bytes tried, zero aside, which pads a text
  MaxLength,   \* bound: the longest text
  BootTried,   \* bound: file, environment and command line at a start,
  WriteTried,  \* bound: and where a write comes to them
  ValueTried   \* bound: the values written, and numbers encoded

ASSUME StatelessAssumption ==
  /\ Address \subseteq Word
  /\ Null \notin Byte
  /\ MaxLength \in Nat
  /\ ValueTried \subseteq Int
  /\ \A l \in BootTried \cup WriteTried :
       /\ DOMAIN l = {"yaml", "env", "cli"}
       /\ IsLayer(l.yaml, Option) /\ IsLayer(l.env, EnvOption)
       /\ "allowWrites" \in DOMAIN l.yaml => l.yaml["allowWrites"] \in PermissionInFile
       /\ IsCommandLine(l.cli)

VARIABLES
  item,   \* what goes in
  coded,  \* what becomes of it halfway: a sequence of one, or empty
  back    \* what comes out, likewise

vars == <<item, coded, back>>

Texts == UNION {[1 .. n -> Byte] : n \in 0 .. MaxLength}

PointItem == [kind : {"point"}, point : [type : ObjectType, address : Address]]
IsShort(v) == -32768 <= v /\ v <= 32767
ShortItem == [kind : {"short"}, number : {v \in ValueTried : IsShort(v)}]
WideItem == [kind : {"wide"}, raw : [1 .. 4 -> Byte \cup {Null}], order : Order]
TextItem == [kind : {"text"}, text : Texts, length : 0 .. MaxLength]
BootItem == [kind : {"boot"}, layers : BootTried]
WriteItem ==
  [kind : {"write"}, layers : WriteTried,
   body : {b \in [confirm : BOOLEAN, type : ObjectType \cup {"unknown"},
                  target : {"fits", "missing", "tooWide"}, value : ValueTried] :
             b.confirm \/ b.type = "Coil"}]

None == <<>>

Init ==
  /\ \/ item \in PointItem \cup ShortItem
     \/ item \in WideItem \cup TextItem
     \/ item \in BootItem \cup WriteItem
  /\ coded = None
  /\ back = None

Halfway(kind, result) ==
  /\ item.kind = kind /\ coded = None
  /\ coded' = <<result>>
  /\ UNCHANGED <<item, back>>

Out(kind, result) ==
  /\ item.kind = kind /\ coded # None /\ back = None
  /\ back' = <<result>>
  /\ UNCHANGED <<item, coded>>

(* An event or a report names its point; somebody looks the name up. *)
NamePoint == item.kind = "point" /\ Halfway("point", ToModicon(item.point))
LookUp == item.kind = "point" /\ coded # None /\ Out("point", Parse(coded[1]))

(* The simulator loads an entry of its map; the decoder reads the          *)
(* registers.                                                              *)
LoadShort == item.kind = "short" /\ Halfway("short", EncodeShort(item.number))
ReadShort == item.kind = "short" /\ coded # None /\ Out("short", ToInt16(coded[1]))

LoadWide == item.kind = "wide" /\ Halfway("wide", ApplyWordOrder(item.raw, item.order))
ReadWide ==
  item.kind = "wide" /\ coded # None /\ Out("wide", OrderedBytes32(coded[1], item.order))

LoadText == item.kind = "text" /\ Halfway("text", EncodeText(item.text, item.length))
ReadText == item.kind = "text" /\ coded # None /\ Out("text", DecodeText(coded[1], "ABCD"))

(* The service loads its configuration and starts, unless it refuses.      *)
Configure ==
  /\ item.kind \in {"boot", "write"}
  /\ Halfway(item.kind, Load(item.layers.yaml, item.layers.env, item.layers.cli))
Boot == item.kind = "boot" /\ coded # None /\ Out("boot", MakeApp(coded[1]))

(* A write request comes. *)
Post ==
  /\ item.kind = "write" /\ coded # None
  /\ Valid(coded[1])
  /\ \E outcome \in Outcome :
       Out("write", PostWrite(coded[1], item.body, outcome))

Next ==
  \/ NamePoint \/ LookUp
  \/ LoadShort \/ ReadShort \/ LoadWide \/ ReadWide \/ LoadText \/ ReadText
  \/ Configure \/ Boot \/ Post

Spec == Init /\ [][Next]_vars

-----------------------------------------------------------------------------
(* What the parser makes of the six digits of a coil: it drops the zero in *)
(* front and sees five.                                                    *)
Misread(p) == p.type = "Coil" /\ p.address >= 9999

(* A printed address is read as the point it was printed for, for all      *)
(* types and on both sides of the change to six digits; coils from 9999 on *)
(* are the exception, and a wrong point or an error comes of each of them  *)
(* (modicon.py).                                                           *)
NamesAreRead ==
  item.kind = "point" /\ back # None => (back[1] = item.point) = ~Misread(item.point)

(* No two points are printed alike, coils included: a row of the log or of *)
(* a report is about one point (modicon.py to_modicon_string).             *)
NamesDiffer ==
  item.kind = "point" /\ coded # None =>
    \A p \in [type : ObjectType, address : Address] :
      ToModicon(p) = coded[1] => p = item.point

(* What the simulator encodes, the decoder reads: signed numbers of one    *)
(* register; four bytes in each word order, where the decoder's table and  *)
(* its loop agree; and a text, cut to its "length" if the map has one and  *)
(* that is even: an odd one moves the last character into the wrong half   *)
(* of its register (plc_sim.py _encode_value, decoder.py).                 *)
ValuesSurvive ==
  back # None =>
    /\ item.kind = "short" => back[1] = item.number
    /\ item.kind = "wide" =>
         /\ back[1] = item.raw
         /\ OrderedBytes(coded[1], item.order) = item.raw
    /\ item.kind = "text" /\ item.length % 2 = 0 =>
         LET kept == IF item.length = 0 \/ item.length > Len(item.text)
                     THEN Len(item.text) ELSE item.length
         IN  back[1] = SubSeq(item.text, 1, kept)

(* What the last layer that mentions an option says of it.                 *)
LastWord(option) ==
  LET layers == item.layers IN
  IF option \in DOMAIN layers.cli THEN layers.cli[option]
  ELSE IF option \in DOMAIN layers.env THEN layers.env[option]
  ELSE IF option \in DOMAIN layers.yaml THEN layers.yaml[option]
  ELSE Defaults[option]

(* The line the last word names; only the command line's may be spelt in   *)
(* either case.                                                            *)
LineNamed ==
  IF "transport" \in DOMAIN item.layers.cli
  THEN IF LastWord("transport") \in {"tcp", "Tcp"} THEN "Tcp" ELSE "Rtu"
  ELSE LastWord("transport")

(* What starts is what the last layer that names a mode asks for, a        *)
(* misspelt mode being a scan, on the line that the last word on it names; *)
(* what starts can run: every range has addresses and a batch size, and    *)
(* the discovery too, as Scanner and Discovery assume.  What is refused    *)
(* has a fault in some last word: a wrong value that a later layer         *)
(* corrects refuses nothing (service.py make_app, options.py validate).    *)
BootIsAsked ==
  item.kind = "boot" /\ back # None =>
    IF back[1] = Refused
    THEN \/ LineNamed \notin {"Tcp", "Rtu"}
         \/ LastWord("unit") \notin UnitIds
         \/ LastWord("port") \notin 1 .. Top
         \/ LastWord("multiplier") < 1
         \/ LastWord("batch") <= 0 \/ LastWord("end") < LastWord("start")
         \/ \E r \in LastWord("ranges") :
              r.count <= 0 \/ r.batch <= 0 \/ r.poll <= 0 \/ r.unit \notin UnitIds
    ELSE /\ back[1].runs = (IF LastWord("mode") \in Discover THEN "discovery" ELSE "scanner")
         /\ back[1].line = LineNamed
         /\ \A r \in LastWord("ranges") : r.count > 0 /\ r.batch > 0
         /\ LastWord("batch") > 0 /\ LastWord("start") <= LastWord("end")

(* The writes are enabled: the last layer that says anything about them    *)
(* says yes, each in its own spelling, in the file in quotes or not.       *)
Consent ==
  LET layers == item.layers IN
  \/ "allowWrites" \in DOMAIN layers.cli /\ layers.cli["allowWrites"] = "yes"
  \/ /\ "allowWrites" \in DOMAIN layers.env \ DOMAIN layers.cli
     /\ layers.env["allowWrites"] \in {"1", "true", "yes"}
  \/ /\ "allowWrites" \in DOMAIN layers.yaml \ (DOMAIN layers.env \cup DOMAIN layers.cli)
     /\ layers.yaml["allowWrites"] \in {"yes", "quoted yes"}

(* The last layer to speak is the file, and it says no in quotes.          *)
QuotedNo ==
  LET layers == item.layers IN
  /\ "allowWrites" \in DOMAIN layers.yaml \ (DOMAIN layers.env \cup DOMAIN layers.cli)
  /\ layers.yaml["allowWrites"] = "quoted no"

(* A request reaches the line only if it is confirmed, names a type that   *)
(* can be written and carries what a register holds, and if the last word  *)
(* of the configuration enables writes, or is a no that the file has in    *)
(* quotes, the one exception; 403 says that they are not enabled; a 200    *)
(* was sent and a 4xx was not (config_loader.py, api.py post_write).       *)
WritesNeedConsent ==
  item.kind = "write" /\ back # None =>
    /\ back[1].sent => /\ Consent \/ QuotedNo
                       /\ item.body.confirm
                       /\ item.body.type \in {"Coil", "HoldingRegister"}
                       /\ back[1].value \in Word
    /\ back[1].status = 403 => ~Consent
    /\ back[1].status = 200 => back[1].sent
    /\ back[1].status \in 400 .. 499 => ~back[1].sent

(* What the documents promise, without the exception: writes are blocked   *)
(* unless the configuration enables them.  The code sends a write when the *)
(* file says "false" in quotes (config_loader.py _apply_yaml, safety.py).  *)
BlockedUnlessEnabled ==
  item.kind = "write" /\ back # None /\ back[1].sent => Consent
=============================================================================
