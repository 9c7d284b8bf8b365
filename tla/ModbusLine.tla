------------------------------ MODULE ModbusLine ------------------------------
(***************************************************************************)
(* What the callers of the client pipeline are promised, with nothing said *)
(* of connections, locks or retries: they share a line that carries one    *)
(* exchange at a time, and a call's result is the answer to an exchange of *)
(* its own.  A call gets a second exchange only after trouble, never a     *)
(* third; one that is refused gets none.  Transport.tla is shown to        *)
(* implement this.                                                         *)
(***************************************************************************)
EXTENDS Naturals

CONSTANTS Task, Writer

VARIABLES
  onLine,    \* the calls whose exchange is on the line
  used,      \* per call: the exchanges it has had
  outcome,   \* per call: how it ended
  trouble,   \* something has gone wrong with the line
  permission \* writes are on; settled before the first call

lineVars == <<onLine, used, outcome, trouble, permission>>

LineInit ==
  /\ onLine = {}
  /\ used = [t \in Task |-> 0]
  /\ outcome = [t \in Task |-> "none"]
  /\ trouble = FALSE
  /\ permission \in BOOLEAN

Permitted(t) == t \in Writer => permission

(* The call's request goes out. *)
Exchange(t) ==
  /\ onLine = {} /\ onLine' = {t}
  /\ outcome[t] = "none" /\ Permitted(t)
  /\ used[t] = 0 \/ (used[t] = 1 /\ trouble)
  /\ used' = [used EXCEPT ![t] = @ + 1]
  /\ UNCHANGED <<outcome, trouble, permission>>

(* The device answers, with data or with a Modbus exception. *)
Reply(t) ==
  /\ t \in onLine /\ onLine' = onLine \ {t}
  /\ \E r \in {"ok", "protocol"} : outcome' = [outcome EXCEPT ![t] = r]
  /\ UNCHANGED <<used, trouble, permission>>

(* An exchange comes to nothing.  The call may have another, and has it    *)
(* for certain when this is the first trouble there is.                    *)
Break(t) ==
  /\ t \in onLine /\ onLine' = onLine \ {t}
  /\ trouble' = TRUE
  /\ outcome' \in {outcome} \cup
                   (IF trouble THEN {[outcome EXCEPT ![t] = "transport"]} ELSE {})
  /\ UNCHANGED <<used, permission>>

(* A call ends for want of a connection. *)
GiveUp(t) ==
  /\ t \notin onLine /\ outcome[t] = "none" /\ Permitted(t)
  /\ trouble
  /\ outcome' = [outcome EXCEPT ![t] = "transport"]
  /\ UNCHANGED <<onLine, used, trouble, permission>>

(* A write while writes are off. *)
Refuse(t) ==
  /\ t \notin onLine /\ outcome[t] = "none" /\ ~Permitted(t)
  /\ outcome' = [outcome EXCEPT ![t] = "blocked"]
  /\ UNCHANGED <<onLine, used, trouble, permission>>

(* The caller has the outcome and will call again. *)
Return(t) ==
  /\ outcome[t] # "none"
  /\ outcome' = [outcome EXCEPT ![t] = "none"]
  /\ used' = [used EXCEPT ![t] = 0]
  /\ UNCHANGED <<onLine, trouble, permission>>

(* Something goes wrong that no call notices yet. *)
Trouble ==
  /\ trouble' = TRUE
  /\ UNCHANGED <<onLine, used, outcome, permission>>

LineNext ==
  \/ \E t \in Task : Exchange(t) \/ Reply(t) \/ Break(t) \/ GiveUp(t) \/ Refuse(t) \/ Return(t)
  \/ Trouble

LineSpec == LineInit /\ [][LineNext]_lineVars
=============================================================================
