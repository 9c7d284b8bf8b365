------------------------------ MODULE Transport ------------------------------
(***************************************************************************)
(* The Modbus client pipeline: SafetyGuardModbusClient around              *)
(* ResilientModbusClient around the pymodbus-backed base client.  One      *)
(* pipeline is shared by every scanning task and every HTTP write, so what *)
(* matters is how their awaits interleave.                                 *)
(*                                                                         *)
(* An action is the code of one task between two awaits that may really    *)
(* suspend: opening a socket, sleeping in the backoff, waiting for the     *)
(* lock, waiting for the answer.  The behaviour starts when the lifespan   *)
(* has connected the client and ends before it disconnects it.             *)
(***************************************************************************)
EXTENDS Integers, Sequences

CONSTANTS
  Task,          \* the callers of the pipeline
  Writer,        \* those that write: HTTP requests to /api/write
  Client,        \* pymodbus client objects
  NoClient,      \* not an object
  OptionsTried,  \* bound: the options the service may be started with
  MaxFaults      \* bound: how often the network or the device misbehaves

ASSUME TransportAssumption ==
  /\ Writer \subseteq Task
  /\ NoClient \notin Client
  /\ OptionsTried \subseteq [allow_writes : BOOLEAN, max_attempts : Int]
  /\ MaxFaults \in Nat

VARIABLES
  options,   \* modbus.safety.allow_writes and modbus.resilience.max_attempts,
             \* the latter negative for no limit; nothing changes them
  state,     \* PymodbusClientBase._state
  client,    \* PymodbusClientBase._client
  sock,      \* the socket of each client object
  lockq,     \* the asyncio.Lock: its owner, then the waiters in order
  pc,        \* where each task is
  on,        \* the client object a task is opening or awaiting an answer from
  tries,     \* per operation: first try or the retry
  attempt,   \* _connect_with_backoff: its attempt counter
  result,    \* per operation: how it ended
  faults,    \* how many faults have happened
  sent,      \* history: how often the operation was put on the wire
  clash      \* history: a client was opened while another task opened one

vars == <<options, state, client, sock, lockq, pc, on, tries, attempt, result, faults, sent, clash>>

(* "idle": about to call.  "done": the call has ended, its result is out.  *)
PC == {"idle", "connecting", "backoff", "queued", "inflight", "done"}

Socket == {"none", "opening", "open", "lost", "failed"}

(* The type invariant: state, client and lock are what pymodbus_base.py    *)
(* declares, and DISCONNECTED does not come back before the shutdown.      *)
TypeOK ==
  /\ options \in OptionsTried
  /\ state \in {"Connecting", "Connected", "Faulted"}
  /\ client \in Client
  /\ sock \in [Client -> Socket]
  /\ lockq \in Seq(Task)
  /\ pc \in [Task -> PC]
  /\ on \in [Task -> Client \cup {NoClient}]
  /\ tries \in [Task -> {1, 2}]
  /\ attempt \in [Task -> Nat]
  /\ result \in [Task -> {"none", "ok", "protocol", "transport", "blocked"}]
  /\ faults \in 0 .. MaxFaults
  /\ sent \in [Task -> Nat]
  /\ clash \in BOOLEAN

(* The lifespan's client.connect() has returned. *)
Init ==
  /\ options \in OptionsTried
  /\ state = "Connected"
  /\ client \in Client
  /\ sock = [c \in Client |-> IF c = client THEN "open" ELSE "none"]
  /\ lockq = <<>>
  /\ pc = [t \in Task |-> "idle"]
  /\ on = [t \in Task |-> NoClient]
  /\ tries = [t \in Task |-> 1]
  /\ attempt = [t \in Task |-> 0]
  /\ result = [t \in Task |-> "none"]
  /\ faults = 0
  /\ sent = [t \in Task |-> 0]
  /\ clash = FALSE

-----------------------------------------------------------------------------
(* Objects that nothing in the program refers to.  A client that was       *)
(* superseded is never closed, but it has no effect either once no task    *)
(* waits on it, so its name may be used again.                             *)
Fresh == {c \in Client : c # client /\ \A t \in Task : on[t] # c}

(* connect() up to its await: a new client replaces the current one before *)
(* its socket is open.                                                     *)
OpenClient(t, n) ==
  \E c \in Fresh :
    /\ state' = "Connecting"
    /\ client' = c
    /\ sock' = [sock EXCEPT ![c] = "opening"]
    /\ pc' = [pc EXCEPT ![t] = "connecting"]
    /\ on' = [on EXCEPT ![t] = c]
    /\ attempt' = [attempt EXCEPT ![t] = n]
    /\ clash' = (clash \/ \E u \in Task : u # t /\ pc[u] = "connecting")
    /\ UNCHANGED <<result, sent>>

Finish(t, r) ==
  /\ pc' = [pc EXCEPT ![t] = "done"]
  /\ on' = [on EXCEPT ![t] = NoClient]
  /\ result' = [result EXCEPT ![t] = r]

(* Definitions marked "slip" are not the code's: each is the definition    *)
(* after it with a mistake of the kind such code invites, and shows that a *)
(* property notices it.                                                    *)

(* Slip: no retry at all. *)
RaiseAtOnce(t, s) ==
  /\ state' = s
  /\ Finish(t, "transport")
  /\ UNCHANGED <<client, sock, tries, attempt, sent, clash>>

(* A ModbusTransportException leaves the base client in state s: the first *)
(* time ResilientModbusClient reconnects, since s is never CONNECTED, the  *)
(* second time the caller gets it.                                         *)
Raise(t, s) ==
  \/ /\ tries[t] = 1
     /\ tries' = [tries EXCEPT ![t] = 2]
     /\ OpenClient(t, 1)
  \/ /\ tries[t] = 2
     /\ state' = s
     /\ Finish(t, "transport")
     /\ UNCHANGED <<client, sock, tries, attempt, sent, clash>>

(* The base _invoke once its lock is held, q being the lock and s the      *)
(* state: _require, then the pymodbus call, which raises at once when the  *)
(* client it is made on has no open socket.                                *)
Call(t, q, s) ==
  \/ /\ s = "Connected" /\ sock[client] = "open"
     /\ state' = s
     /\ lockq' = q
     /\ pc' = [pc EXCEPT ![t] = "inflight"]
     /\ on' = [on EXCEPT ![t] = client]
     /\ sent' = [sent EXCEPT ![t] = @ + 1]
     /\ UNCHANGED <<client, sock, tries, attempt, result, clash>>
  \/ /\ s = "Connected" /\ sock[client] # "open"
     /\ lockq' = Tail(q)
     /\ Raise(t, "Faulted")
  \/ /\ s # "Connected"
     /\ lockq' = Tail(q)
     /\ Raise(t, s)

(* Slip: the call does not wait for the lock. *)
EnterOpUnlocked(t, s) == Call(t, Append(lockq, t), s)

(* The operation itself, from the call of op() in ResilientModbusClient. *)
EnterOp(t, s) ==
  \/ /\ lockq = <<>>
     /\ Call(t, <<t>>, s)
  \/ /\ lockq # <<>>
     /\ lockq' = Append(lockq, t)
     /\ state' = s
     /\ pc' = [pc EXCEPT ![t] = "queued"]
     /\ on' = [on EXCEPT ![t] = NoClient]
     /\ UNCHANGED <<client, sock, tries, attempt, result, sent, clash>>

-----------------------------------------------------------------------------
(* SafetyGuardModbusClient refuses a write. *)
BlockWrite(t) ==
  /\ pc[t] = "idle"
  /\ t \in Writer /\ ~options.allow_writes
  /\ Finish(t, "blocked")
  /\ UNCHANGED <<state, client, sock, lockq, tries, attempt, faults, sent, clash, options>>

(* Slip: this write is not guarded. *)
BeginUnguarded(t) ==
  /\ pc[t] = "idle"
  /\ \/ state = "Connected" /\ EnterOp(t, state)
     \/ state # "Connected" /\ OpenClient(t, 1) /\ UNCHANGED <<lockq, tries>>
  /\ UNCHANGED <<faults, options>>

(* The guard lets the call pass; _ensure_connected looks at the state. *)
Begin(t) ==
  /\ pc[t] = "idle"
  /\ t \in Writer => options.allow_writes
  /\ \/ state = "Connected" /\ EnterOp(t, state)
     \/ state # "Connected" /\ OpenClient(t, 1) /\ UNCHANGED <<lockq, tries>>
  /\ UNCHANGED <<faults, options>>

(* Slip: connect() does not set CONNECTED. *)
ConnectReturnsUnset(t) ==
  /\ pc[t] = "connecting"
  /\ sock[on[t]] = "open"
  /\ EnterOp(t, state)
  /\ UNCHANGED <<faults, options>>

(* The awaited open has succeeded: CONNECTED, whichever client is current. *)
ConnectReturns(t) ==
  /\ pc[t] = "connecting"
  /\ sock[on[t]] = "open"
  /\ EnterOp(t, "Connected")
  /\ UNCHANGED <<faults, options>>

(* Slip: a failed open disconnects, or leaves the state alone. *)
ConnectFailsTo(t, s) ==
  /\ pc[t] = "connecting"
  /\ sock[on[t]] = "failed"
  /\ state' = s
  /\ pc' = [pc EXCEPT ![t] = "backoff"]
  /\ on' = [on EXCEPT ![t] = NoClient]
  /\ UNCHANGED <<client, sock, lockq, tries, attempt, result, faults, sent, clash, options>>

ConnectFailsDisconnecting(t) == ConnectFailsTo(t, "Disconnected")

ConnectFailsSilently(t) == ConnectFailsTo(t, state)

(* It has failed: FAULTED, then another round or, out of attempts, the end *)
(* of the operation.  Neither call of _ensure_connected is inside the try. *)
ConnectFails(t) ==
  /\ pc[t] = "connecting"
  /\ sock[on[t]] = "failed"
  /\ state' = "Faulted"
  /\ \/ /\ options.max_attempts >= 0 /\ attempt[t] >= options.max_attempts
        /\ Finish(t, "transport")
     \/ /\ ~(options.max_attempts >= 0 /\ attempt[t] >= options.max_attempts)
        /\ pc' = [pc EXCEPT ![t] = "backoff"]
        /\ on' = [on EXCEPT ![t] = NoClient]
        /\ UNCHANGED result
  /\ UNCHANGED <<client, sock, lockq, tries, attempt, faults, sent, clash, options>>

(* The backoff sleep is over: connect again, without a look at the state. *)
Wake(t) ==
  /\ pc[t] = "backoff"
  /\ OpenClient(t, attempt[t] + 1)
  /\ UNCHANGED <<lockq, tries, faults, options>>

(* The lock has come to its first waiter. *)
Resume(t) ==
  /\ pc[t] = "queued"
  /\ Head(lockq) = t
  /\ Call(t, lockq, state)
  /\ UNCHANGED <<faults, options>>

(* A response arrives: data, or a Modbus exception, which is passed on and *)
(* leaves the connection alone.                                            *)
Answer(t) ==
  /\ pc[t] = "inflight"
  /\ sock[on[t]] = "open"
  /\ \E r \in {"ok", "protocol"} : Finish(t, r)
  /\ lockq' = Tail(lockq)
  /\ UNCHANGED <<state, client, sock, tries, attempt, faults, sent, clash, options>>

(* Slip: the lock is not released on an error. *)
BreakLocked(t) ==
  /\ pc[t] = "inflight"
  /\ \/ sock[on[t]] # "open" /\ UNCHANGED faults
     \/ sock[on[t]] = "open" /\ faults < MaxFaults /\ faults' = faults + 1
  /\ UNCHANGED lockq
  /\ UNCHANGED options
  /\ Raise(t, "Faulted")

(* The request ends in an error of the connection: its socket is gone, or  *)
(* the answer is late, empty or garbled.                                   *)
Break(t) ==
  /\ pc[t] = "inflight"
  /\ \/ sock[on[t]] # "open" /\ UNCHANGED faults
     \/ sock[on[t]] = "open" /\ faults < MaxFaults /\ faults' = faults + 1
  /\ lockq' = Tail(lockq)
  /\ UNCHANGED options
  /\ Raise(t, "Faulted")

(* The caller takes the result and will call again: the sleep between two  *)
(* polls, or the next HTTP request.                                        *)
Return(t) ==
  /\ pc[t] = "done"
  /\ pc' = [pc EXCEPT ![t] = "idle"]
  /\ tries' = [tries EXCEPT ![t] = 1]
  /\ attempt' = [attempt EXCEPT ![t] = 0]
  /\ result' = [result EXCEPT ![t] = "none"]
  /\ sent' = [sent EXCEPT ![t] = 0]
  /\ UNCHANGED <<state, client, sock, lockq, on, faults, clash, options>>

-----------------------------------------------------------------------------
(* pymodbus and the network. *)
SocketUp(c) ==
  /\ sock[c] = "opening"
  /\ sock' = [sock EXCEPT ![c] = "open"]
  /\ UNCHANGED <<state, client, lockq, pc, on, tries, attempt, result, faults, sent, clash, options>>

SocketRefused(c) ==
  /\ sock[c] = "opening"
  /\ faults < MaxFaults
  /\ faults' = faults + 1
  /\ sock' = [sock EXCEPT ![c] = "failed"]
  /\ UNCHANGED <<state, client, lockq, pc, on, tries, attempt, result, sent, clash, options>>

(* An established connection goes stale; not one whose open is not yet     *)
(* noticed by the task that awaits it.                                     *)
SocketLost(c) ==
  /\ sock[c] = "open"
  /\ \A t \in Task : on[t] = c => pc[t] # "connecting"
  /\ faults < MaxFaults
  /\ faults' = faults + 1
  /\ sock' = [sock EXCEPT ![c] = "lost"]
  /\ UNCHANGED <<state, client, lockq, pc, on, tries, attempt, result, sent, clash, options>>

(* pymodbus reopens a lost connection by itself in the background, after   *)
(* it has failed the request that was waiting on it.                       *)
SocketRevived(c) ==
  /\ sock[c] = "lost"
  /\ \A t \in Task : on[t] # c
  /\ sock' = [sock EXCEPT ![c] = "open"]
  /\ UNCHANGED <<state, client, lockq, pc, on, tries, attempt, result, faults, sent, clash, options>>

TaskStep(t) ==
  \/ BlockWrite(t) \/ Begin(t) \/ ConnectReturns(t) \/ ConnectFails(t)
  \/ Wake(t) \/ Resume(t) \/ Answer(t) \/ Break(t) \/ Return(t)

SocketStep(c) ==
  SocketUp(c) \/ SocketRefused(c) \/ SocketLost(c) \/ SocketRevived(c)

Next == (\E t \in Task : TaskStep(t)) \/ (\E c \in Client : SocketStep(c))

Spec == Init /\ [][Next]_vars

(* asyncio runs every task that is ready, sleeps end, an open is refused   *)
(* or succeeds within its timeout, and pymodbus answers or times out.  A   *)
(* reading task calls again; nobody has to write.                          *)
FairSpec ==
  /\ Spec
  /\ \A t \in Task :
       /\ WF_vars(ConnectReturns(t) \/ ConnectFails(t))
       /\ WF_vars(Wake(t))
       /\ WF_vars(Resume(t))
       /\ WF_vars(Answer(t) \/ Break(t))
       /\ WF_vars(Return(t))
       /\ t \notin Writer => WF_vars(Begin(t))
  /\ \A c \in Client : WF_vars(SocketUp(c))

-----------------------------------------------------------------------------
InFlight(t) == pc[t] = "inflight"

(* At most one request is on the wire at a time, over all the client       *)
(* objects there are: a reconnect that swaps the client in the middle of a *)
(* request does not let a second request out beside it, and a scanner's    *)
(* answer can never be taken for the answer of a write.                    *)
CallsSerialized == \A t, u \in Task : InFlight(t) /\ InFlight(u) => t = u

(* A write that the guard refuses never causes traffic of any kind: it is  *)
(* neither sent nor waits for the line nor touches the connection.         *)
WritesGated ==
  ~options.allow_writes => \A t \in Writer : sent[t] = 0 /\ pc[t] \in {"idle", "done"}

(* An operation is on the wire twice at most, and twice only if something  *)
(* did go wrong: a write is never doubled on a healthy line, whatever the  *)
(* other tasks do to the connection meanwhile.                             *)
ResendNeedsFault ==
  \A t \in Task : sent[t] <= tries[t] /\ (sent[t] = 2 => faults > 0)

(* As long as nothing goes wrong outside, nobody touches the connection:   *)
(* no schedule of calls alone makes it leave CONNECTED or fails a call.    *)
HealthyStaysConnected ==
  faults = 0 =>
    /\ state = "Connected" /\ sock[client] = "open"
    /\ \A t \in Task : tries[t] = 1 /\ result[t] # "transport"

(* The pipeline keeps the promise ModbusLine makes to its callers: one     *)
(* exchange at a time over all client objects, each call answered by an    *)
(* exchange of its own, a second exchange only after trouble, none for a   *)
(* write that is off.  In particular a reconnect that swaps the client     *)
(* object under a request lets no second request out beside it.            *)
Line == INSTANCE ModbusLine WITH
  onLine <- {t \in Task : InFlight(t)},
  used <- sent,
  outcome <- result,
  trouble <- faults > 0,
  permission <- options.allow_writes

KeepsTheLine == Line!LineSpec

(* CONNECTING is never shown with nobody connecting: whoever reports the   *)
(* state while an open is awaited is overtaken by other openers, but each  *)
(* one that gives up leaves FAULTED or CONNECTED behind.                   *)
ConnectingIsOwned ==
  state = "Connecting" => \E t \in Task : pc[t] = "connecting" /\ on[t] = client

(* What is reported as the state of the connection can be relied on: it    *)
(* leaves CONNECTED for a fault alone, and CONNECTING is never left        *)
(* standing (resilient.py, connect and _unwrap of pymodbus_base.py).       *)
StateIsTrue == HealthyStaysConnected /\ ConnectingIsOwned

(* The lock is never held by a task that does not use it, so that the      *)
(* waiters behind it are served: its owner awaits an answer or is waking.  *)
LockIsUsed ==
  /\ \A t \in Task : InFlight(t) => lockq # <<>> /\ Head(lockq) = t
  /\ \A t \in Task : pc[t] \in {"queued", "inflight"} <=>
                       \E i \in 1 .. Len(lockq) : lockq[i] = t
  /\ \A i, j \in 1 .. Len(lockq) : lockq[i] = lockq[j] => i = j

(* What resilience promises: the single retry after a reconnect hides one  *)
(* fault from the callers.  resilient.py:62.                               *)
RetrySmoothsOver ==
  faults <= 1 => \A t \in Task : result[t] # "transport"

(* It does so, wherever the fault hits and whoever else waits for the      *)
(* line, unless two tasks happen to open clients at the same time: the     *)
(* later one replaces what the earlier one has just connected, and both    *)
(* may have spent their retry.                                             *)
SingleFaultAbsorbed == ~clash => RetrySmoothsOver

(* Every call returns: no task waits for ever for the lock, for a          *)
(* connection another task has replaced, or in its backoff, once the       *)
(* faults are over.                                                        *)
CallsReturn == \A t \in Task : pc[t] # "idle" ~> pc[t] = "done"

Connecting(t) == pc[t] = "connecting"

(* When the faults are over the connection recovers and stays, however     *)
(* many callers wait for it; but callers that open clients at the same     *)
(* time, over and over, may replace each other's without end.              *)
ConnectionRecovers ==
  \/ <>[](state = "Connected")
  \/ []<>(\E t, u \in Task : t # u /\ Connecting(t) /\ Connecting(u))
=============================================================================
