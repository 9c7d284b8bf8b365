------------------------------- MODULE Config -------------------------------
(***************************************************************************)
(* The configuration: the built-in defaults, a YAML file, the environment  *)
(* and the command line, one over the other (config_loader.py), what is    *)
(* refused of the result (options.py validate) and what the service is     *)
(* built as (service.py make_app).  A layer is a function on the options   *)
(* that it mentions.  Options that only set a delay, a name or a path are  *)
(* left out.                                                               *)
(***************************************************************************)
EXTENDS Modicon

Option == {"mode", "transport", "unit", "port", "allowWrites", "multiplier",
           "ranges", "start", "end", "batch"}

(* What _apply_env() and _apply_cli() look at; the file may say it all.    *)
EnvOption == {"mode", "transport", "unit", "port", "allowWrites"}
CliOption == EnvOption \cup {"end"}

Numbers == {"unit", "port", "multiplier", "start", "end", "batch"}

(* A layer that mentions some of the options, numbers where int() is       *)
(* applied or the dataclass says so.                                       *)
IsLayer(layer, options) ==
  /\ DOMAIN layer \subseteq options
  /\ \A o \in DOMAIN layer \cap Numbers : layer[o] \in Int
  /\ "ranges" \in DOMAIN layer =>
       \A r \in layer["ranges"] : {r.poll, r.count, r.batch} \subseteq Int

(* The command line can give the permission to write and not take it.      *)
IsCommandLine(layer) ==
  /\ IsLayer(layer, CliOption)
  /\ "allowWrites" \in DOMAIN layer => layer["allowWrites"] = "yes"

UnitIds == 0 .. 247

(* A range as ScanRangeOptions() builds it from the four that a row of     *)
(* _DEFAULT_RANGES gives.                                                  *)
DefaultRange(type, start, count, poll) ==
  [type |-> type, start |-> start, count |-> count, poll |-> poll, unit |-> 1, batch |-> 100]

DefaultRanges ==
  {DefaultRange("HoldingRegister", 100, 100, 500), DefaultRange("InputRegister", 0, 16, 1000),
   DefaultRange("Coil", 0, 16, 1000), DefaultRange("DiscreteInput", 0, 32, 1000)}

(* The dataclasses' defaults and default_config(). *)
Defaults ==
  [o \in Option |->
     CASE o = "mode" -> "Scan"
       [] o = "transport" -> "Tcp"
       [] o = "unit" -> 1
       [] o = "port" -> 5020
       [] o = "allowWrites" -> "no"
       [] o = "multiplier" -> 2
       [] o = "ranges" -> DefaultRanges
       [] o = "start" -> 0
       [] o = "end" -> 1000
       [] o = "batch" -> 50]

(* What a layer mentions counts. *)
Overlaid(config, layer) ==
  [o \in Option |-> IF o \in DOMAIN layer THEN layer[o] ELSE config[o]]

(* _apply_env(): of any text for DW_ALLOW_WRITES, three mean yes; mode and *)
(* transport are taken as they are written.                                *)
FromEnvironment(layer) ==
  [o \in DOMAIN layer |->
     IF o = "allowWrites" THEN IF layer[o] \in {"1", "true", "yes"} THEN "yes" ELSE "no"
     ELSE layer[o]]

(* _apply_cli(): every transport but TCP is RTU. *)
FromCommandLine(layer) ==
  [o \in DOMAIN layer |->
     IF o = "transport" THEN IF layer[o] \in {"tcp", "Tcp"} THEN "Tcp" ELSE "Rtu"
     ELSE layer[o]]

(* Slip: the environment comes last. *)
LoadEnvironmentLast(yaml, env, cli) ==
  Overlaid(Overlaid(Overlaid(Defaults, yaml), FromCommandLine(cli)), FromEnvironment(env))

(* load_config(). *)
Load(yaml, env, cli) ==
  Overlaid(Overlaid(Overlaid(Defaults, yaml), FromEnvironment(env)), FromCommandLine(cli))

(* What the file may say of the writes: true or false, or a text in quotes *)
(* that reads like the one or the other.                                   *)
PermissionInFile == {"yes", "no", "quoted yes", "quoted no"}

(* The guard asks whether the option is true, and every text is: of what   *)
(* can be loaded only a plain no keeps the writes off.                     *)
Allowed(config) == config["allowWrites"] # "no"

(* validate(); neither the mode nor an address beyond 65535 is looked at.  *)
Valid(config) ==
  /\ config["unit"] \in UnitIds
  /\ config["transport"] \in {"Tcp", "Rtu"}
  /\ config["port"] \in 1 .. Top
  /\ config["multiplier"] >= 1
  /\ \A r \in config["ranges"] :
       r.poll > 0 /\ r.count > 0 /\ r.batch > 0 /\ r.unit \in UnitIds
  /\ config["batch"] > 0
  /\ config["end"] >= config["start"]

(* The texts of which strip().lower() makes "discover". *)
Discover == {"discover", "Discover", " DISCOVER "}

Refused == [runs |-> "nothing", line |-> "none"]

(* Slip: the mode is compared as it is written. *)
MakeAppLiterally(config) ==
  IF ~Valid(config) THEN Refused
  ELSE [runs |-> IF config["mode"] = "Discover" THEN "discovery" ELSE "scanner",
        line |-> config["transport"]]

(* make_app() and build_client(). *)
MakeApp(config) ==
  IF ~Valid(config) THEN Refused
  ELSE [runs |-> IF config["mode"] \in Discover THEN "discovery" ELSE "scanner",
        line |-> IF config["transport"] = "Rtu" THEN "Rtu" ELSE "Tcp"]
=============================================================================
