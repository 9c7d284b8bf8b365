------------------------------ MODULE WriteApi ------------------------------
(***************************************************************************)
(* POST /api/write: post_write() as a function of the configuration, the   *)
(* request and what becomes of the call.                                   *)
(***************************************************************************)
EXTENDS Config

Writable == {"Coil", "HoldingRegister"}

(* The body of a request.  Unit and address: both there and of a width     *)
(* Modbus has, or one missing or no number, or one too wide for its field. *)
Body == [confirm : BOOLEAN, type : ObjectType \cup {"unknown"},
         target : {"fits", "missing", "tooWide"}, value : Int]

Answer(status) == [status |-> status, sent |-> FALSE, value |-> 0]

(* What goes out on the line: a coil is on or off. *)
Sent(body, status) ==
  [status |-> status, sent |-> TRUE,
   value |-> IF body.type = "Coil" THEN IF body.value = 0 THEN 0 ELSE 1 ELSE body.value]

(* What becomes of a call: the line may be out of reach, the device may    *)
(* refuse, its answer may be lost.                                         *)
Outcome == {"ok", "noConnection", "refused", "lost"}

(* The guard refuses by the same option as the endpoint.  An address that  *)
(* does not fit fails in pymodbus when the request is built, and nobody    *)
(* expects it.                                                             *)
Call(config, body, outcome) ==
  IF ~Allowed(config) THEN Answer(403)
  ELSE IF outcome = "noConnection" THEN Answer(502)
  ELSE IF body.target = "tooWide" THEN Answer(500)
  ELSE Sent(body, IF outcome = "ok" THEN 200 ELSE 502)

(* post_write(), its checks in their order. *)
PostWrite(config, body, outcome) ==
  IF ~body.confirm \/ body.type \notin Writable THEN Answer(400)
  ELSE IF ~Allowed(config) THEN Answer(403)
  ELSE IF body.target = "missing" THEN Answer(500)
  ELSE IF body.type # "Coil" /\ body.value \notin Word THEN Answer(400)
  ELSE Call(config, body, outcome)
=============================================================================
