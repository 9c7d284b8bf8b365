---------------------------- MODULE MCStateless ----------------------------
(***************************************************************************)
(* A small instance of Stateless for TLC.                                  *)
(***************************************************************************)
EXTENDS Stateless, FiniteSetsExt, TLC

CONSTANTS x, y, z

(* The ends of the 16 bits and both sides of the change to six digits,     *)
(* with the coils whose six digits look like a discrete input's five.      *)
MCAddress == 0 .. 20 \cup 9980 .. 10020 \cup 19990 .. 20010 \cup 65500 .. 65535

(* All layers that mention some of the options, with the values given.     *)
LayersOf(values) ==
  FoldSet(LAMBDA o, layers : layers \cup {l @@ (o :> v) : l \in layers, v \in values[o]},
          {<<>>}, DOMAIN values)

MCRange == DefaultRange("Coil", 0, 16, 1000)

(* The file may hold what validate() refuses, which a later layer corrects *)
(* or not; "tcp" is a transport on the command line only; the spaces of a  *)
(* mode are cut, and "discovery" is none.                                  *)
MCBoot ==
  [yaml : LayersOf([mode |-> {"Discover", "discovery"}, unit |-> {248},
                    transport |-> {"Rtu"}, port |-> {0}, start |-> {900}, batch |-> {0},
                    ranges |-> {{}, {MCRange, [MCRange EXCEPT !.count = 0]}}]),
   env : LayersOf([mode |-> {" DISCOVER ", "scan"}, transport |-> {"tcp"}, port |-> {502}]),
   cli : LayersOf([mode |-> {"scan", "discover"}, transport |-> {"rtu", "tcp"},
                   unit |-> {7}, end |-> {899}])]

MCWrite ==
  [yaml : LayersOf([allowWrites |-> PermissionInFile, unit |-> {248}]),
   env : LayersOf([allowWrites |-> {"1", "yes", "no"}, unit |-> {7}]),
   cli : LayersOf([allowWrites |-> {"yes"}, unit |-> {7}])]

MCValue == {-32768, -1, 0, 32767, 65535, 65536}
=============================================================================
