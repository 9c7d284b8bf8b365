--------------------------- MODULE TransportProofs ---------------------------
(***************************************************************************)
(* Theorems about Transport, for any number of tasks, client objects,      *)
(* attempts and faults.                                                    *)
(***************************************************************************)
EXTENDS Transport, SequenceTheorems, TLAPS

(* All that a step of task t does to the lock: it takes a free one, is     *)
(* served, lines up, lets go, or never has to do with it.                  *)
LockMove(t) ==
  \E x \in PC :
    /\ pc' = [pc EXCEPT ![t] = x]
    /\ \/ lockq = <<>> /\ lockq' = <<t>> /\ x = "inflight"
       \/ pc[t] = "queued" /\ Head(lockq) = t /\ lockq' = lockq /\ x = "inflight"
       \/ /\ pc[t] \notin {"queued", "inflight"}
          /\ lockq # <<>>
          /\ lockq' = Append(lockq, t)
          /\ x = "queued"
       \/ /\ pc[t] \in {"queued", "inflight"}
          /\ lockq # <<>> /\ Head(lockq) = t
          /\ lockq' = Tail(lockq)
          /\ x \notin {"queued", "inflight"}
       \/ /\ pc[t] \notin {"queued", "inflight"}
          /\ lockq' = lockq
          /\ x \notin {"queued", "inflight"}

(* The part of the type invariant the lock needs. *)
LockTypes == lockq \in Seq(Task) /\ pc \in [Task -> PC]

-----------------------------------------------------------------------------
LEMMA TailOfQueue ==
  ASSUME NEW q \in Seq(Task), q # <<>>
  PROVE  /\ Head(q) \in Task /\ Head(q) = q[1]
         /\ Tail(q) \in Seq(Task)
         /\ Len(q) \in Nat /\ Len(q) >= 1
         /\ Len(Tail(q)) = Len(q) - 1
         /\ \A i \in 1 .. (Len(q) - 1) : Tail(q)[i] = q[i+1]
BY HeadTailProperties, EmptySeq, LenProperties, ElementOfSeq

LEMMA AppendToQueue ==
  ASSUME NEW q \in Seq(Task), NEW t \in Task
  PROVE  /\ Append(q, t) \in Seq(Task)
         /\ Len(q) \in Nat
         /\ Len(Append(q, t)) = Len(q) + 1
         /\ \A i \in 1 .. Len(q) : Append(q, t)[i] = q[i]
         /\ Append(q, t)[Len(q) + 1] = t
         /\ q # <<>> => Head(Append(q, t)) = Head(q)
         /\ Append(q, t) # <<>>
BY AppendProperties, LenProperties, HeadTailProperties, EmptySeq

LEMMA SingleQueue ==
  ASSUME NEW t \in Task
  PROVE  /\ <<t>> \in Seq(Task) /\ <<t>> # <<>>
         /\ Len(<<t>>) = 1 /\ <<t>>[1] = t /\ Head(<<t>>) = t /\ Tail(<<t>>) = <<>>
OBVIOUS

(* Whoever waits in line has its place, and keeps it. *)
LEMMA LockKept ==
  ASSUME LockTypes, LockIsUsed, NEW t \in Task, LockMove(t)
  PROVE  LockTypes' /\ LockIsUsed'
<1> USE DEF LockTypes
<1>1. PICK x \in PC :
        /\ pc' = [pc EXCEPT ![t] = x]
        /\ \/ lockq = <<>> /\ lockq' = <<t>> /\ x = "inflight"
           \/ pc[t] = "queued" /\ Head(lockq) = t /\ lockq' = lockq /\ x = "inflight"
           \/ /\ pc[t] \notin {"queued", "inflight"}
              /\ lockq # <<>>
              /\ lockq' = Append(lockq, t)
              /\ x = "queued"
           \/ /\ pc[t] \in {"queued", "inflight"}
              /\ lockq # <<>> /\ Head(lockq) = t
              /\ lockq' = Tail(lockq)
              /\ x \notin {"queued", "inflight"}
           \/ /\ pc[t] \notin {"queued", "inflight"}
              /\ lockq' = lockq
              /\ x \notin {"queued", "inflight"}
  BY DEF LockMove
<1>2. pc' \in [Task -> PC]
  BY <1>1
<1>3. /\ Len(lockq) \in Nat
      /\ \A i \in 1 .. Len(lockq) : lockq[i] \in Task
      /\ lockq = <<>> => Len(lockq) = 0
  BY LenProperties, ElementOfSeq, EmptySeq
<1>4. CASE lockq = <<>> /\ lockq' = <<t>> /\ x = "inflight"
  <2>1. \A u \in Task : pc[u] \notin {"queued", "inflight"}
    BY <1>4, <1>3 DEF LockIsUsed, InFlight
  <2> QED
    BY <2>1, <1>1, <1>2, <1>4, SingleQueue DEF LockIsUsed, InFlight
<1>5. CASE pc[t] = "queued" /\ Head(lockq) = t /\ lockq' = lockq /\ x = "inflight"
  <2>1. lockq # <<>>
    BY <1>5, <1>3 DEF LockIsUsed
  <2>2. \A u \in Task : u # t => pc'[u] = pc[u]
    BY <1>1
  <2>3. pc'[t] = "inflight"
    BY <1>1, <1>5
  <2> QED
    BY <2>1, <2>2, <2>3, <1>2, <1>5 DEF LockIsUsed, InFlight
<1>6. CASE /\ pc[t] \notin {"queued", "inflight"}
           /\ lockq # <<>>
           /\ lockq' = Append(lockq, t)
           /\ x = "queued"
  <2>1. \A i \in 1 .. Len(lockq) : lockq[i] # t
    BY <1>6 DEF LockIsUsed
  <2>2. /\ \A u \in Task : u # t => pc'[u] = pc[u]
        /\ pc'[t] = "queued"
    BY <1>1, <1>6
  <2>3. /\ lockq' \in Seq(Task)
        /\ Len(lockq') = Len(lockq) + 1
        /\ \A i \in 1 .. Len(lockq) : lockq'[i] = lockq[i]
        /\ lockq'[Len(lockq) + 1] = t
        /\ Head(lockq') = Head(lockq)
        /\ lockq' # <<>>
    BY <1>6, AppendToQueue
  <2>4. \A u \in Task : InFlight(u)' => lockq' # <<>> /\ Head(lockq') = u
    BY <2>2, <2>3 DEF LockIsUsed, InFlight
  <2>5. \A u \in Task : (\E i \in 1 .. Len(lockq') : lockq'[i] = u)
                          <=> (u = t \/ \E i \in 1 .. Len(lockq) : lockq[i] = u)
    BY <2>3, <1>3
  <2>6. \A u \in Task : pc'[u] \in {"queued", "inflight"}
                          <=> \E i \in 1 .. Len(lockq') : lockq'[i] = u
    BY <2>5, <2>2 DEF LockIsUsed
  <2>7. \A i, j \in 1 .. Len(lockq') : lockq'[i] = lockq'[j] => i = j
    BY <2>1, <2>3, <1>3 DEF LockIsUsed
  <2> QED
    BY <2>3, <2>4, <2>6, <2>7, <1>2 DEF LockIsUsed
<1>7. CASE /\ pc[t] \in {"queued", "inflight"}
           /\ lockq # <<>> /\ Head(lockq) = t
           /\ lockq' = Tail(lockq)
           /\ x \notin {"queued", "inflight"}
  <2>1. /\ \A u \in Task : u # t => pc'[u] = pc[u]
        /\ pc'[t] \notin {"queued", "inflight"}
    BY <1>1, <1>7
  <2>2. /\ lockq[1] = t
        /\ lockq' \in Seq(Task)
        /\ Len(lockq) >= 1
        /\ Len(lockq') = Len(lockq) - 1
        /\ \A i \in 1 .. (Len(lockq) - 1) : lockq'[i] = lockq[i+1]
    BY <1>7, TailOfQueue
  <2>3. \A u \in Task : InFlight(u) => u = t
    BY <1>7 DEF LockIsUsed
  <2>4. \A u \in Task : ~InFlight(u)'
    BY <2>1, <2>3 DEF InFlight
  <2>5. \A i \in 2 .. Len(lockq) : lockq[i] # t
    BY <2>2, <1>3 DEF LockIsUsed
  <2>6. ASSUME NEW u \in Task
        PROVE  (\E i \in 1 .. Len(lockq') : lockq'[i] = u)
                 <=> (u # t /\ \E i \in 1 .. Len(lockq) : lockq[i] = u)
    <3>1. ASSUME NEW i \in 1 .. Len(lockq'), lockq'[i] = u
          PROVE  u # t /\ \E j \in 1 .. Len(lockq) : lockq[j] = u
      <4>1. i + 1 \in 2 .. Len(lockq) /\ i + 1 \in 1 .. Len(lockq) /\ lockq[i + 1] = u
        BY <3>1, <2>2, <1>3
      <4> QED
        BY <4>1, <2>5
    <3>2. ASSUME u # t, NEW j \in 1 .. Len(lockq), lockq[j] = u
          PROVE  \E i \in 1 .. Len(lockq') : lockq'[i] = u
      <4>1. j - 1 \in 1 .. Len(lockq') /\ lockq'[j - 1] = lockq[(j - 1) + 1]
        BY <3>2, <2>2, <1>3
      <4>2. lockq[(j - 1) + 1] = u
        BY <3>2, <1>3
      <4> QED
        BY <4>1, <4>2
    <3> QED
      BY <3>1, <3>2
  <2>7. \A u \in Task : pc'[u] \in {"queued", "inflight"}
                          <=> \E i \in 1 .. Len(lockq') : lockq'[i] = u
    BY <2>6, <2>1 DEF LockIsUsed
  <2>8. ASSUME NEW i \in 1 .. Len(lockq'), NEW j \in 1 .. Len(lockq'), lockq'[i] = lockq'[j]
        PROVE  i = j
    <3>1. /\ i + 1 \in 1 .. Len(lockq) /\ j + 1 \in 1 .. Len(lockq)
          /\ lockq[i + 1] = lockq[j + 1]
      BY <2>2, <2>8, <1>3
    <3>2. i + 1 = j + 1
      BY <3>1 DEF LockIsUsed
    <3> QED
      BY <3>2, <2>2, <1>3
  <2> QED
    BY <2>2, <2>4, <2>7, <2>8, <1>2 DEF LockIsUsed
<1>8. CASE /\ pc[t] \notin {"queued", "inflight"}
           /\ lockq' = lockq
           /\ x \notin {"queued", "inflight"}
  <2>1. \A u \in Task : u # t => pc'[u] = pc[u]
    BY <1>1
  <2>2. pc'[t] \notin {"queued", "inflight"}
    BY <1>1, <1>8
  <2> QED
    BY <2>1, <2>2, <1>2, <1>8 DEF LockIsUsed, InFlight
<1> QED
  BY <1>1, <1>4, <1>5, <1>6, <1>7, <1>8

-----------------------------------------------------------------------------
(* What the steps of a task are put together from, one after the other.    *)
States == {"Connecting", "Connected", "Faulted"}

(* The type invariant but for the lock and the program counters. *)
ConnTypes ==
  /\ state \in States
  /\ client \in Client
  /\ sock \in [Client -> Socket]
  /\ on \in [Task -> Client \cup {NoClient}]
  /\ tries \in [Task -> {1, 2}]
  /\ attempt \in [Task -> Nat]
  /\ result \in [Task -> {"none", "ok", "protocol", "transport", "blocked"}]
  /\ sent \in [Task -> Nat]

(* The task is elsewhere than at the lock now. *)
Elsewhere(t) ==
  \E x \in PC \ {"queued", "inflight"} : pc' = [pc EXCEPT ![t] = x]

LEMMA OpenClientTyped ==
  ASSUME ConnTypes, NEW t \in Task, NEW n \in Nat, OpenClient(t, n),
         tries' \in [Task -> {1, 2}]
  PROVE  ConnTypes' /\ Elsewhere(t)
<1>1. PICK c \in Client :
        /\ state' = "Connecting"
        /\ client' = c
        /\ sock' = [sock EXCEPT ![c] = "opening"]
        /\ pc' = [pc EXCEPT ![t] = "connecting"]
        /\ on' = [on EXCEPT ![t] = c]
        /\ attempt' = [attempt EXCEPT ![t] = n]
        /\ UNCHANGED <<result, sent>>
  BY DEF OpenClient, Fresh
<1>2. sock' \in [Client -> Socket] /\ state' \in States
  BY <1>1 DEF ConnTypes, Socket, States
<1>3. on' \in [Task -> Client \cup {NoClient}] /\ attempt' \in [Task -> Nat]
  BY <1>1 DEF ConnTypes
<1>4. ConnTypes'
  BY <1>1, <1>2, <1>3 DEF ConnTypes
<1>5. Elsewhere(t)
  BY <1>1 DEF PC, Elsewhere
<1> QED
  BY <1>4, <1>5

LEMMA RaiseTyped ==
  ASSUME ConnTypes, NEW t \in Task, NEW s \in States, Raise(t, s)
  PROVE  ConnTypes' /\ Elsewhere(t)
<1>1. CASE tries' = [tries EXCEPT ![t] = 2] /\ OpenClient(t, 1)
  BY <1>1, OpenClientTyped DEF ConnTypes
<1>2. CASE state' = s /\ Finish(t, "transport")
           /\ UNCHANGED <<client, sock, tries, attempt, sent>>
  BY <1>2 DEF Finish, ConnTypes, PC, Elsewhere
<1> QED
  BY <1>1, <1>2 DEF Raise

(* A call that holds the lock keeps it, or lets go of it on an error. *)
LEMMA CallTyped ==
  ASSUME ConnTypes, NEW t \in Task, NEW q, NEW s \in States, Call(t, q, s)
  PROVE  /\ ConnTypes'
         /\ \/ lockq' = q /\ pc' = [pc EXCEPT ![t] = "inflight"]
            \/ lockq' = Tail(q) /\ Elsewhere(t)
<1>1. CASE /\ state' = s
           /\ lockq' = q
           /\ pc' = [pc EXCEPT ![t] = "inflight"]
           /\ on' = [on EXCEPT ![t] = client]
           /\ sent' = [sent EXCEPT ![t] = @ + 1]
           /\ UNCHANGED <<client, sock, tries, attempt, result>>
  BY <1>1 DEF ConnTypes
<1>2. CASE lockq' = Tail(q) /\ Raise(t, "Faulted")
  BY <1>2, RaiseTyped DEF States
<1>3. CASE lockq' = Tail(q) /\ Raise(t, s)
  BY <1>3, RaiseTyped
<1> QED
  BY <1>1, <1>2, <1>3 DEF Call

LEMMA EnterOpTyped ==
  ASSUME ConnTypes, LockTypes, LockIsUsed, NEW t \in Task, NEW s \in States,
         pc[t] \notin {"queued", "inflight"}, EnterOp(t, s)
  PROVE  ConnTypes' /\ LockMove(t)
<1>1. CASE lockq = <<>> /\ Call(t, <<t>>, s)
  <2>1. ConnTypes'
    BY <1>1, CallTyped
  <2>2. \/ lockq' = <<t>> /\ pc' = [pc EXCEPT ![t] = "inflight"]
        \/ lockq' = <<>> /\ Elsewhere(t)
    BY <1>1, CallTyped, SingleQueue
  <2>3. LockMove(t)
    BY <2>2, <1>1 DEF LockMove, Elsewhere, PC
  <2> QED
    BY <2>1, <2>3
<1>2. CASE /\ lockq # <<>>
           /\ lockq' = Append(lockq, t)
           /\ state' = s
           /\ pc' = [pc EXCEPT ![t] = "queued"]
           /\ on' = [on EXCEPT ![t] = NoClient]
           /\ UNCHANGED <<client, sock, tries, attempt, result, sent>>
  <2>1. ConnTypes'
    BY <1>2 DEF ConnTypes
  <2>2. LockMove(t)
    BY <1>2 DEF LockMove, PC
  <2> QED
    BY <2>1, <2>2
<1> QED
  BY <1>1, <1>2 DEF EnterOp

(* A task that lets go of the lock is the one that held it. *)
LEMMA LetGo ==
  ASSUME LockTypes, LockIsUsed, NEW t \in Task, Elsewhere(t),
         pc[t] = "inflight" \/ (pc[t] = "queued" /\ Head(lockq) = t),
         lockq' = Tail(lockq)
  PROVE  LockMove(t)
<1>1. lockq # <<>> /\ Head(lockq) = t
  BY EmptySeq DEF LockIsUsed, InFlight
<1> QED
  BY <1>1 DEF LockMove, Elsewhere

LEMMA TaskStepTyped ==
  ASSUME ConnTypes, LockTypes, LockIsUsed, NEW t \in Task, TaskStep(t)
  PROVE  ConnTypes' /\ LockMove(t)
<1> USE DEF States
<1>1. CASE BlockWrite(t)
  <2>1. ConnTypes' /\ Elsewhere(t)
    BY <1>1 DEF BlockWrite, Finish, ConnTypes, Elsewhere, PC
  <2> QED
    BY <2>1, <1>1 DEF BlockWrite, LockMove, Elsewhere
<1>2. CASE Begin(t)
  <2>1. CASE state = "Connected" /\ EnterOp(t, state)
    BY <2>1, <1>2, EnterOpTyped DEF Begin
  <2>2. CASE OpenClient(t, 1) /\ UNCHANGED <<lockq, tries>>
    <3>1. ConnTypes' /\ Elsewhere(t)
      BY <2>2, OpenClientTyped DEF ConnTypes
    <3> QED
      BY <3>1, <2>2, <1>2 DEF Begin, LockMove, Elsewhere
  <2> QED
    BY <2>1, <2>2, <1>2 DEF Begin
<1>3. CASE ConnectReturns(t)
  BY <1>3, EnterOpTyped DEF ConnectReturns
<1>4. CASE ConnectFails(t)
  <2>1. ConnTypes' /\ Elsewhere(t)
    BY <1>4 DEF ConnectFails, Finish, ConnTypes, Elsewhere, PC
  <2> QED
    BY <2>1, <1>4 DEF ConnectFails, LockMove, Elsewhere
<1>5. CASE Wake(t)
  <2>1. ConnTypes' /\ Elsewhere(t)
    BY <1>5, OpenClientTyped DEF Wake, ConnTypes
  <2> QED
    BY <2>1, <1>5 DEF Wake, LockMove, Elsewhere
<1>6. CASE Resume(t)
  <2>1. /\ ConnTypes'
        /\ \/ lockq' = lockq /\ pc' = [pc EXCEPT ![t] = "inflight"]
           \/ lockq' = Tail(lockq) /\ Elsewhere(t)
    BY <1>6, CallTyped DEF Resume, ConnTypes
  <2>2. CASE lockq' = lockq /\ pc' = [pc EXCEPT ![t] = "inflight"]
    BY <2>1, <2>2, <1>6 DEF Resume, LockMove, PC
  <2>3. CASE lockq' = Tail(lockq) /\ Elsewhere(t)
    BY <2>1, <2>3, <1>6, LetGo DEF Resume
  <2> QED
    BY <2>1, <2>2, <2>3
<1>7. CASE Answer(t)
  <2>1. ConnTypes' /\ Elsewhere(t)
    BY <1>7 DEF Answer, Finish, ConnTypes, Elsewhere, PC
  <2> QED
    BY <2>1, <1>7, LetGo DEF Answer
<1>8. CASE Break(t)
  <2>1. ConnTypes' /\ Elsewhere(t)
    BY <1>8, RaiseTyped DEF Break
  <2> QED
    BY <2>1, <1>8, LetGo DEF Break
<1>9. CASE Return(t)
  <2>1. ConnTypes' /\ Elsewhere(t)
    BY <1>9 DEF Return, ConnTypes, Elsewhere, PC
  <2> QED
    BY <2>1, <1>9 DEF Return, LockMove, Elsewhere
<1> QED
  BY <1>1, <1>2, <1>3, <1>4, <1>5, <1>6, <1>7, <1>8, <1>9 DEF TaskStep

LEMMA SocketStepTyped ==
  ASSUME ConnTypes, NEW c \in Client, SocketStep(c)
  PROVE  ConnTypes' /\ UNCHANGED <<lockq, pc>>
BY DEF SocketStep, SocketUp, SocketRefused, SocketLost, SocketRevived, ConnTypes, Socket

(* Faults are counted within their bound. *)
LEMMA FaultsBounded ==
  ASSUME faults \in 0 .. MaxFaults, [Next]_vars
  PROVE  faults' \in 0 .. MaxFaults
BY TransportAssumption
   DEF Next, TaskStep, SocketStep, vars, BlockWrite, Begin, ConnectReturns, ConnectFails,
       Wake, Resume, Answer, Break, Return, SocketUp, SocketRefused, SocketLost, SocketRevived

TypeInv == TypeOK /\ LockIsUsed

(* Nothing changes the options, and a clash is never forgotten.            *)
LEMMA OptionsKept == [Next]_vars => options' = options
BY DEF Next, TaskStep, SocketStep, vars, BlockWrite, Begin, ConnectReturns, ConnectFails,
       Wake, Resume, Answer, Break, Return, SocketUp, SocketRefused, SocketLost, SocketRevived

Clashed(t) == clash' = (clash \/ \E u \in Task : u # t /\ pc[u] = "connecting")

LEMMA ClashOf ==
  ASSUME NEW t \in Task, TaskStep(t)
  PROVE  clash' = clash \/ Clashed(t)
<1>1. \A n : OpenClient(t, n) => Clashed(t)
  BY DEF OpenClient, Clashed
<1>2. \A s : Raise(t, s) => clash' = clash \/ Clashed(t)
  BY <1>1 DEF Raise
<1>3. \A q, s : Call(t, q, s) => clash' = clash \/ Clashed(t)
  BY <1>2 DEF Call
<1>4. \A s : EnterOp(t, s) => clash' = clash \/ Clashed(t)
  BY <1>3 DEF EnterOp
<1> QED
  BY <1>1, <1>2, <1>3, <1>4
     DEF TaskStep, BlockWrite, Begin, ConnectReturns, ConnectFails, Wake, Resume, Answer,
         Break, Return

LEMMA ClashTyped ==
  ASSUME clash \in BOOLEAN, [Next]_vars
  PROVE  clash' \in BOOLEAN
<1>1. ASSUME NEW t \in Task, TaskStep(t) PROVE clash' \in BOOLEAN
  <2>1. CASE clash' = clash
    BY <2>1
  <2>2. CASE Clashed(t)
    BY <2>2 DEF Clashed
  <2> QED
    BY <1>1, <2>1, <2>2, ClashOf
<1>2. ASSUME NEW c \in Client, SocketStep(c) PROVE clash' = clash
  BY <1>2 DEF SocketStep, SocketUp, SocketRefused, SocketLost, SocketRevived
<1>3. CASE UNCHANGED vars
  BY <1>3 DEF vars
<1> QED
  BY <1>1, <1>2, <1>3 DEF Next

LEMMA TypeParts ==
  TypeOK <=> /\ ConnTypes /\ LockTypes /\ faults \in 0 .. MaxFaults
             /\ options \in OptionsTried /\ clash \in BOOLEAN
BY DEF TypeOK, ConnTypes, LockTypes, States

LEMMA TypeInvInit == Init => TypeInv
<1> SUFFICES ASSUME Init PROVE TypeInv
  OBVIOUS
<1>1. TypeOK
  <2>1. ConnTypes /\ LockTypes
    BY DEF Init, ConnTypes, LockTypes, States, Socket, PC
  <2>2. faults \in 0 .. MaxFaults /\ options \in OptionsTried
    BY TransportAssumption DEF Init
  <2>3. clash \in BOOLEAN
    BY DEF Init
  <2> QED
    BY <2>1, <2>2, <2>3, TypeParts
<1>2. LockIsUsed
  BY DEF Init, LockIsUsed, InFlight
<1> QED
  BY <1>1, <1>2 DEF TypeInv

LEMMA TypeInvStep == TypeInv /\ [Next]_vars => TypeInv'
<1> SUFFICES ASSUME TypeInv, [Next]_vars PROVE TypeInv'
  OBVIOUS
<1>1. /\ ConnTypes /\ LockTypes /\ LockIsUsed /\ faults \in 0 .. MaxFaults
      /\ options \in OptionsTried /\ clash \in BOOLEAN
  BY TypeParts DEF TypeInv
<1>2. faults' \in 0 .. MaxFaults /\ options' \in OptionsTried /\ clash' \in BOOLEAN
  BY <1>1, FaultsBounded, OptionsKept, ClashTyped
<1>3. ConnTypes' /\ LockTypes' /\ LockIsUsed'
  <2>1. CASE UNCHANGED vars
    BY <2>1, <1>1 DEF vars, ConnTypes, LockTypes, LockIsUsed, InFlight
  <2>2. ASSUME NEW t \in Task, TaskStep(t) PROVE ConnTypes' /\ LockTypes' /\ LockIsUsed'
    BY <2>2, <1>1, TaskStepTyped, LockKept
  <2>3. ASSUME NEW c \in Client, SocketStep(c) PROVE ConnTypes' /\ LockTypes' /\ LockIsUsed'
    <3>1. ConnTypes' /\ UNCHANGED <<lockq, pc>>
      BY <2>3, <1>1, SocketStepTyped
    <3> QED
      BY <3>1, <1>1 DEF LockTypes, LockIsUsed, InFlight
  <2> QED
    BY <2>1, <2>2, <2>3 DEF Next
<1>4. TypeOK'
  BY <1>2, <1>3 DEF TypeOK, ConnTypes, LockTypes, States
<1> QED
  BY <1>3, <1>4 DEF TypeInv

(* Type correctness. *)
THEOREM PipelineTyped == Spec => []TypeOK
<1>1. TypeInv => TypeOK
  BY DEF TypeInv
<1> QED
  BY <1>1, TypeInvInit, TypeInvStep, PTL DEF Spec

(* The lock is held by the task that uses it and by no other, whatever the *)
(* reconnects do to the client objects in the meantime.                    *)
THEOREM LockAlwaysUsed == Spec => []LockIsUsed
<1>1. TypeInv => LockIsUsed
  BY DEF TypeInv
<1> QED
  BY <1>1, TypeInvInit, TypeInvStep, PTL DEF Spec

(* pymodbus_base.py:2: one request on the wire at a time, for any number   *)
(* of tasks, reconnects and client objects.                                *)
THEOREM Serialized == Spec => []CallsSerialized
<1>1. TypeInv => CallsSerialized
  BY DEF TypeInv, LockIsUsed, CallsSerialized
<1> QED
  BY <1>1, TypeInvInit, TypeInvStep, PTL DEF Spec

-----------------------------------------------------------------------------
(* safety.py: with writes off the writers are never more than refused. *)
LEMMA GatedStep ==
  TypeOK /\ WritesGated /\ [Next]_vars => WritesGated'
<1> SUFFICES ASSUME TypeOK, WritesGated, [Next]_vars, ~options.allow_writes', NEW w \in Writer
             PROVE  sent'[w] = 0 /\ pc'[w] \in {"idle", "done"}
  BY DEF WritesGated
<1>0. ~options.allow_writes
  BY OptionsKept
<1>1. w \in Task /\ sent[w] = 0 /\ pc[w] \in {"idle", "done"}
  BY <1>0, TransportAssumption DEF WritesGated
<1>2. CASE UNCHANGED vars
  BY <1>2, <1>1 DEF vars
<1>3. ASSUME NEW t \in Task, t # w, TaskStep(t)
      PROVE  sent'[w] = sent[w] /\ pc'[w] = pc[w]
  <2> DEFINE Same == sent'[w] = sent[w] /\ pc'[w] = pc[w]
  <2>1. \A n : OpenClient(t, n) => Same
    BY <1>1, <1>3 DEF TypeOK, OpenClient
  <2>2. \A r : Finish(t, r) /\ UNCHANGED sent => Same
    BY <1>1, <1>3 DEF TypeOK, Finish
  <2>3. \A s : Raise(t, s) => Same
    BY <2>1, <2>2 DEF Raise
  <2>4. \A q, s : Call(t, q, s) => Same
    BY <1>1, <1>3, <2>3 DEF TypeOK, Call
  <2>5. \A s : EnterOp(t, s) => Same
    BY <1>1, <1>3, <2>4 DEF TypeOK, EnterOp
  <2>6. BlockWrite(t) \/ Answer(t) \/ ConnectFails(t) => Same
    BY <1>1, <1>3, <2>2 DEF TypeOK, BlockWrite, Answer, ConnectFails, Finish
  <2>7. Return(t) => Same
    BY <1>1, <1>3 DEF TypeOK, Return
  <2>8. Begin(t) \/ ConnectReturns(t) \/ Wake(t) \/ Resume(t) \/ Break(t) => Same
    BY <2>1, <2>3, <2>4, <2>5 DEF Begin, ConnectReturns, Wake, Resume, Break
  <2> QED
    BY <1>3, <2>6, <2>7, <2>8 DEF TaskStep
<1>4. ASSUME TaskStep(w)
      PROVE  sent'[w] = 0 /\ pc'[w] \in {"idle", "done"}
  <2>1. BlockWrite(w) \/ Return(w)
    BY <1>0, <1>4, <1>1 DEF TaskStep, Begin, ConnectReturns, ConnectFails, Wake,
                      Resume, Answer, Break
  <2> QED
    BY <2>1, <1>1 DEF TypeOK, BlockWrite, Return, Finish
<1>5. ASSUME NEW c \in Client, SocketStep(c)
      PROVE  sent' = sent /\ pc' = pc
  BY <1>5 DEF SocketStep, SocketUp, SocketRefused, SocketLost, SocketRevived
<1> QED
  BY <1>1, <1>2, <1>3, <1>4, <1>5 DEF Next

(* A write the guard refuses causes no traffic. *)
THEOREM GuardHolds == Spec => []WritesGated
<1>1. Init => WritesGated
  BY TransportAssumption DEF Init, WritesGated
<1>2. TypeInv => TypeOK
  BY DEF TypeInv
<1> QED
  BY <1>1, <1>2, GatedStep, TypeInvInit, TypeInvStep, PTL DEF Spec

-----------------------------------------------------------------------------
(* As long as no fault has happened, nothing about the connection changes: *)
(* no task is on a path that leads to a reconnect.                         *)
Undisturbed ==
  /\ state = "Connected"
  /\ sock[client] = "open"
  /\ \A t \in Task :
       /\ tries[t] = 1
       /\ result[t] # "transport"
       /\ pc[t] \notin {"connecting", "backoff"}
       /\ pc[t] = "inflight" => on[t] = client

HealthInv == faults = 0 => Undisturbed

LEMMA HealthStep ==
  TypeOK /\ HealthInv /\ [Next]_vars => HealthInv'
<1> SUFFICES ASSUME TypeOK, HealthInv, [Next]_vars, faults' = 0
             PROVE  Undisturbed'
  BY DEF HealthInv
<1>1. faults = 0
  BY DEF TypeOK, Next, TaskStep, SocketStep, vars, BlockWrite, Begin, ConnectReturns,
         ConnectFails, Wake, Resume, Answer, Break, Return, SocketUp, SocketRefused,
         SocketLost, SocketRevived
<1>2. Undisturbed
  BY <1>1 DEF HealthInv
<1>3. CASE UNCHANGED vars
  BY <1>2, <1>3 DEF Undisturbed, vars
<1>4. ASSUME NEW t \in Task, NEW q, Call(t, q, "Connected")
      PROVE  Undisturbed'
  BY <1>4, <1>2 DEF Undisturbed, TypeOK, Call
<1>5. ASSUME NEW t \in Task, TaskStep(t)
      PROVE  Undisturbed'
  <2>1. CASE BlockWrite(t)
    BY <2>1, <1>2 DEF Undisturbed, TypeOK, BlockWrite, Finish
  <2>2. CASE Begin(t)
    <3>1. EnterOp(t, "Connected")
      BY <2>2, <1>2 DEF Undisturbed, Begin
    <3>2. CASE lockq # <<>>
      BY <3>1, <3>2, <1>2 DEF Undisturbed, TypeOK, EnterOp
    <3>3. CASE lockq = <<>>
      BY <3>1, <3>3, <1>4 DEF EnterOp
    <3> QED
      BY <3>2, <3>3
  <2>3. CASE Resume(t)
    BY <2>3, <1>2, <1>4 DEF Undisturbed, Resume
  <2>4. CASE Answer(t)
    BY <2>4, <1>2 DEF Undisturbed, TypeOK, Answer, Finish
  <2>5. CASE Return(t)
    BY <2>5, <1>2 DEF Undisturbed, TypeOK, Return
  <2>6. ~ConnectReturns(t) /\ ~ConnectFails(t) /\ ~Wake(t)
    BY <1>2 DEF Undisturbed, ConnectReturns, ConnectFails, Wake
  <2>7. ~Break(t)
    BY <1>2, <1>1 DEF Undisturbed, Break
  <2> QED
    BY <1>5, <2>1, <2>2, <2>3, <2>4, <2>5, <2>6, <2>7 DEF TaskStep
<1>6. ASSUME NEW c \in Client, SocketStep(c)
      PROVE  Undisturbed'
  <2>1. ~SocketRefused(c) /\ ~SocketLost(c)
    BY <1>1 DEF SocketRefused, SocketLost
  <2> QED
    BY <2>1, <1>2, <1>6 DEF SocketStep, SocketUp, SocketRevived, Undisturbed, TypeOK
<1> QED
  BY <1>3, <1>5, <1>6 DEF Next

LEMMA HealthInit == Init => HealthInv
BY DEF Init, HealthInv, Undisturbed

(* No schedule of calls alone ever disturbs the connection. *)
THEOREM HealthyLineKept == Spec => []HealthyStaysConnected
<1>1. HealthInv => HealthyStaysConnected
  BY DEF HealthInv, Undisturbed, HealthyStaysConnected
<1>2. TypeInv => TypeOK
  BY DEF TypeInv
<1> QED
  BY <1>1, <1>2, HealthInit, HealthStep, TypeInvInit, TypeInvStep, PTL DEF Spec

-----------------------------------------------------------------------------
(* Each try puts the operation on the wire once at most, and the second    *)
(* try has not done so before its call is on the wire.                     *)
SendInv ==
  \A t \in Task :
    /\ sent[t] <= tries[t]
    /\ pc[t] \notin {"inflight", "done"} => sent[t] < tries[t]

LEMMA SendStep ==
  TypeOK /\ SendInv /\ [Next]_vars => SendInv'
<1> SUFFICES ASSUME TypeOK, SendInv, [Next]_vars PROVE SendInv'
  OBVIOUS
<1>1. CASE UNCHANGED vars
  BY <1>1 DEF SendInv, vars
<1>2. ASSUME NEW t \in Task, TaskStep(t)
      PROVE  SendInv'
  <2> DEFINE Others == \A u \in Task : u # t => /\ sent'[u] = sent[u]
                                               /\ tries'[u] = tries[u]
                                               /\ pc'[u] = pc[u]
             Own == /\ sent'[t] <= tries'[t]
                    /\ pc'[t] \notin {"inflight", "done"} => sent'[t] < tries'[t]
             Ready == sent[t] < tries[t]
  <2>1. sent[t] \in Nat /\ tries[t] \in {1, 2} /\ sent[t] <= tries[t]
    BY DEF TypeOK, SendInv
  <2>2. \A n : OpenClient(t, n) /\ Ready /\ UNCHANGED tries => Others /\ Own
    BY <2>1 DEF OpenClient, TypeOK
  <2>3. \A s : Raise(t, s) => Others /\ Own
    <3>1. ASSUME NEW s, tries[t] = 1, tries' = [tries EXCEPT ![t] = 2], OpenClient(t, 1)
          PROVE  Others /\ Own
      BY <2>1, <3>1 DEF OpenClient, TypeOK
    <3>2. ASSUME Finish(t, "transport"), UNCHANGED <<tries, sent>>
          PROVE  Others /\ Own
      BY <2>1, <3>2 DEF Finish, TypeOK
    <3> QED
      BY <3>1, <3>2 DEF Raise
  <2>4. \A q, s : Call(t, q, s) /\ Ready => Others /\ Own
    <3>1. ASSUME pc' = [pc EXCEPT ![t] = "inflight"], sent' = [sent EXCEPT ![t] = @ + 1],
                 UNCHANGED tries, Ready
          PROVE  Others /\ Own
      BY <2>1, <3>1 DEF TypeOK
    <3> QED
      BY <3>1, <2>3 DEF Call
  <2>5. \A s : EnterOp(t, s) /\ Ready => Others /\ Own
    BY <2>1, <2>4 DEF EnterOp, TypeOK
  <2>6. pc[t] \notin {"inflight", "done"} => Ready
    BY DEF SendInv
  <2>7. BlockWrite(t) \/ Answer(t) => Others /\ Own
    BY <2>1 DEF BlockWrite, Answer, Finish, TypeOK
  <2>8. ConnectFails(t) => Others /\ Own
    BY <2>1, <2>6 DEF ConnectFails, Finish, TypeOK
  <2>9. Return(t) => Others /\ Own
    BY <2>1 DEF Return, TypeOK
  <2>10. Begin(t) \/ Wake(t) \/ ConnectReturns(t) \/ Resume(t) \/ Break(t) => Others /\ Own
    BY <2>2, <2>3, <2>4, <2>5, <2>6 DEF Begin, Wake, ConnectReturns, Resume, Break
  <2>11. Others /\ Own
    BY <1>2, <2>7, <2>8, <2>9, <2>10 DEF TaskStep
  <2> QED
    BY <2>11 DEF SendInv
<1>3. ASSUME NEW c \in Client, SocketStep(c)
      PROVE  SendInv'
  BY <1>3 DEF SocketStep, SocketUp, SocketRefused, SocketLost, SocketRevived, SendInv
<1> QED
  BY <1>1, <1>2, <1>3 DEF Next

LEMMA SendInit == Init => SendInv
<1> SUFFICES ASSUME Init, NEW t \in Task
             PROVE  sent[t] <= tries[t] /\ sent[t] < tries[t]
  BY DEF SendInv
<1>1. sent[t] = 0 /\ tries[t] = 1
  BY DEF Init
<1> QED
  BY <1>1

(* resilient.py:62: a single retry, and none on a healthy line. *)
THEOREM RetriedOnce == Spec => []ResendNeedsFault
<1>1. TypeOK /\ SendInv /\ HealthInv => ResendNeedsFault
  <2> SUFFICES ASSUME TypeOK, SendInv, HealthInv, NEW t \in Task
               PROVE  sent[t] <= tries[t] /\ (sent[t] = 2 => faults > 0)
    BY DEF ResendNeedsFault
  <2>1. sent[t] <= tries[t]
    BY DEF SendInv
  <2>2. faults = 0 => sent[t] # 2
    BY <2>1 DEF HealthInv, Undisturbed, TypeOK
  <2> QED
    BY <2>1, <2>2, TransportAssumption DEF TypeOK
<1>2. TypeInv => TypeOK
  BY DEF TypeInv
<1> QED
  BY <1>1, <1>2, SendInit, SendStep, HealthInit, HealthStep, TypeInvInit, TypeInvStep, PTL
     DEF Spec

-----------------------------------------------------------------------------
(* CONNECTING always has an opener whose client is the current one: the    *)
(* last one that set it, unless it has finished and set another state.     *)
LEMMA OwnedStep ==
  TypeOK /\ ConnectingIsOwned /\ [Next]_vars => ConnectingIsOwned'
<1> SUFFICES ASSUME TypeOK, ConnectingIsOwned, [Next]_vars PROVE ConnectingIsOwned'
  OBVIOUS
<1>1. CASE UNCHANGED vars
  BY <1>1 DEF ConnectingIsOwned, vars
<1>2. ASSUME NEW t \in Task, TaskStep(t)
      PROVE  ConnectingIsOwned'
  <2> DEFINE Kept == /\ client' = client
                     /\ \A u \in Task : u # t => pc'[u] = pc[u] /\ on'[u] = on[u]
  <2>1. \A n : OpenClient(t, n) => ConnectingIsOwned'
    BY DEF OpenClient, ConnectingIsOwned, TypeOK
  <2>2. \A s : Raise(t, s) => ConnectingIsOwned' \/ (state' = s /\ Kept)
    BY <2>1 DEF Raise, Finish, TypeOK
  <2>3. \A q, s : Call(t, q, s) => ConnectingIsOwned' \/ (state' \in {s, "Faulted"} /\ Kept)
    <3>1. ASSUME pc' = [pc EXCEPT ![t] = "inflight"], on' = [on EXCEPT ![t] = client],
                 UNCHANGED client
          PROVE  Kept
      BY <3>1 DEF TypeOK
    <3> QED
      BY <3>1, <2>2 DEF Call
  <2>4. \A s : EnterOp(t, s) => ConnectingIsOwned' \/ (state' \in {s, "Faulted"} /\ Kept)
    BY <2>3 DEF EnterOp, TypeOK
  <2>5. CASE state' # "Connecting"
    BY <2>5 DEF ConnectingIsOwned
  <2>6. CASE state' = state /\ Kept /\ pc[t] # "connecting"
    BY <2>6 DEF ConnectingIsOwned
  <2>7. CASE BlockWrite(t) \/ Answer(t)
    BY <2>7, <2>6 DEF BlockWrite, Answer, Finish, TypeOK
  <2>8. CASE Return(t)
    BY <2>8, <2>6 DEF Return, TypeOK
  <2>9. CASE ConnectFails(t)
    BY <2>9, <2>5 DEF ConnectFails
  <2>10. CASE Wake(t)
    BY <2>10, <2>1 DEF Wake
  <2>11. CASE Begin(t)
    BY <2>11, <2>1, <2>4, <2>5 DEF Begin
  <2>12. CASE ConnectReturns(t)
    BY <2>12, <2>4, <2>5 DEF ConnectReturns
  <2>13. CASE Break(t)
    BY <2>13, <2>2, <2>5 DEF Break
  <2>14. CASE Resume(t)
    BY <2>14, <2>3, <2>5, <2>6 DEF Resume
  <2> QED
    BY <1>2, <2>7, <2>8, <2>9, <2>10, <2>11, <2>12, <2>13, <2>14 DEF TaskStep
<1>3. ASSUME NEW c \in Client, SocketStep(c)
      PROVE  ConnectingIsOwned'
  BY <1>3 DEF SocketStep, SocketUp, SocketRefused, SocketLost, SocketRevived,
              ConnectingIsOwned
<1> QED
  BY <1>1, <1>2, <1>3 DEF Next

(* CONNECTING is never left standing. *)
THEOREM ConnectingOwned == Spec => []ConnectingIsOwned
<1>1. Init => ConnectingIsOwned
  BY DEF Init, ConnectingIsOwned
<1>2. TypeInv => TypeOK
  BY DEF TypeInv
<1> QED
  BY <1>1, <1>2, OwnedStep, TypeInvInit, TypeInvStep, PTL DEF Spec

(* The state that is reported can be relied on. *)
THEOREM StateCanBeTrusted == Spec => []StateIsTrue
<1>1. HealthyStaysConnected /\ ConnectingIsOwned => StateIsTrue
  BY DEF StateIsTrue
<1> QED
  BY <1>1, HealthyLineKept, ConnectingOwned, PTL

-----------------------------------------------------------------------------
(* A result is out exactly while the call is at its end. *)
ResultInv == \A t \in Task : pc[t] = "done" <=> result[t] # "none"

LEMMA ResultStep ==
  TypeOK /\ ResultInv /\ [Next]_vars => ResultInv'
<1> SUFFICES ASSUME TypeOK, ResultInv, [Next]_vars PROVE ResultInv'
  OBVIOUS
<1>1. CASE UNCHANGED vars
  BY <1>1 DEF ResultInv, vars
<1>2. ASSUME NEW t \in Task, TaskStep(t)
      PROVE  ResultInv'
  <2> DEFINE Good == \A u \in Task : pc'[u] = "done" <=> result'[u] # "none"
  <2>1. \A n : pc[t] # "done" /\ OpenClient(t, n) => Good
    BY DEF ResultInv, TypeOK, OpenClient
  <2>2. \A r : r # "none" /\ Finish(t, r) => Good
    BY DEF ResultInv, TypeOK, Finish
  <2>3. \A s : pc[t] # "done" /\ Raise(t, s) => Good
    BY <2>1, <2>2 DEF Raise
  <2>4. \A x : pc[t] # "done" /\ x # "done" /\ pc' = [pc EXCEPT ![t] = x]
                 /\ UNCHANGED result => Good
    BY DEF ResultInv, TypeOK
  <2>5. \A q, s : pc[t] # "done" /\ Call(t, q, s) => Good
    BY <2>3, <2>4 DEF Call
  <2>6. \A s : pc[t] # "done" /\ EnterOp(t, s) => Good
    BY <2>4, <2>5 DEF EnterOp
  <2>7. BlockWrite(t) \/ Answer(t) => Good
    BY <2>2 DEF BlockWrite, Answer
  <2>8. ConnectFails(t) => Good
    BY <2>2, <2>4 DEF ConnectFails
  <2>9. Return(t) => Good
    BY DEF ResultInv, TypeOK, Return
  <2>10. Begin(t) \/ ConnectReturns(t) \/ Wake(t) \/ Resume(t) \/ Break(t) => Good
    BY <2>1, <2>3, <2>5, <2>6 DEF Begin, ConnectReturns, Wake, Resume, Break
  <2> QED
    BY <1>2, <2>7, <2>8, <2>9, <2>10 DEF TaskStep, ResultInv
<1>3. ASSUME NEW c \in Client, SocketStep(c)
      PROVE  ResultInv'
  BY <1>3 DEF SocketStep, SocketUp, SocketRefused, SocketLost, SocketRevived, ResultInv
<1> QED
  BY <1>1, <1>2, <1>3 DEF Next

(* What a step needs to be a step of ModbusLine: the lock says who is on   *)
(* the line, the guard who may be, the history why there is a second try.  *)
LineInv == TypeInv /\ WritesGated /\ HealthInv /\ SendInv /\ ResultInv

LEMMA LineInvStep == LineInv /\ [Next]_vars => LineInv'
BY TypeInvStep, GatedStep, HealthStep, SendStep, ResultStep DEF LineInv, TypeInv

LEMMA LineInvInit == Init => LineInv
<1>1. Init => WritesGated
  BY TransportAssumption DEF Init, WritesGated
<1>2. Init => ResultInv
  BY DEF Init, ResultInv
<1> QED
  BY <1>1, <1>2, TypeInvInit, HealthInit, SendInit DEF LineInv

OnLine == {t \in Task : InFlight(t)}

(* Nothing that a caller could tell has happened. *)
Unseen ==
  OnLine' = OnLine /\ UNCHANGED <<sent, result, options>> /\ (faults' > 0 <=> faults > 0)

LEMMA UnseenStutters == Unseen => UNCHANGED Line!lineVars
BY DEF Unseen, OnLine, Line!lineVars

(* Task t may still be served: it has no outcome, it is allowed, and if it *)
(* is at its second try or waits for a connection there was trouble.       *)
Underway(t) ==
  /\ result[t] = "none" /\ pc[t] # "inflight"
  /\ Line!Permitted(t)
  /\ sent[t] < tries[t] /\ sent[t] \in Nat /\ tries[t] \in {1, 2}
  /\ tries[t] = 2 => faults > 0
  /\ pc[t] = "connecting" => faults > 0

LEMMA CallUnderway ==
  ASSUME LineInv, NEW t \in Task, pc[t] \notin {"inflight", "done"},
         pc[t] = "idle" => Line!Permitted(t)
  PROVE  Underway(t)
<1>1. result[t] = "none"
  BY DEF LineInv, ResultInv
<1>2. Line!Permitted(t)
  BY DEF LineInv, WritesGated, Line!Permitted
<1>3. sent[t] < tries[t] /\ sent[t] \in Nat /\ tries[t] \in {1, 2}
  BY DEF LineInv, TypeInv, TypeOK, SendInv
<1>4. /\ tries[t] = 2 => faults # 0
      /\ pc[t] = "connecting" => faults # 0
  BY DEF LineInv, HealthInv, Undisturbed
<1>5. faults \in Nat
  BY TransportAssumption DEF LineInv, TypeInv, TypeOK
<1> QED
  BY <1>1, <1>2, <1>3, <1>4, <1>5 DEF Underway

LEMMA OpenUnseen ==
  ASSUME TypeOK, NEW t \in Task, pc[t] # "inflight", NEW n, OpenClient(t, n), UNCHANGED <<faults, options>>
  PROVE  Unseen
BY DEF TypeOK, OpenClient, Unseen, OnLine, InFlight

LEMMA FinishGivesUp ==
  ASSUME TypeOK, NEW t \in Task, Underway(t), faults > 0, UNCHANGED <<faults, options>>,
         Finish(t, "transport"), UNCHANGED sent
  PROVE  Line!GiveUp(t)
BY DEF TypeOK, Underway, Finish, Line!GiveUp, InFlight

LEMMA RaiseOnLine ==
  ASSUME TypeOK, NEW t \in Task, Underway(t), NEW s, Raise(t, s),
         UNCHANGED <<faults, options>>
  PROVE  Unseen \/ Line!GiveUp(t)
<1>1. CASE OpenClient(t, 1)
  BY <1>1, OpenUnseen DEF Underway
<1>2. CASE tries[t] = 2 /\ Finish(t, "transport") /\ UNCHANGED sent
  BY <1>2, FinishGivesUp DEF Underway
<1> QED
  BY <1>1, <1>2 DEF Raise

LEMMA CallOnLine ==
  ASSUME TypeOK, NEW t \in Task, Underway(t), OnLine = {}, NEW q, NEW s,
         Call(t, q, s), UNCHANGED <<faults, options>>
  PROVE  Unseen \/ Line!Exchange(t) \/ Line!GiveUp(t)
<1>1. ASSUME pc' = [pc EXCEPT ![t] = "inflight"], sent' = [sent EXCEPT ![t] = @ + 1],
             UNCHANGED result
      PROVE  Line!Exchange(t)
  <2>1. OnLine' = {t}
    BY <1>1 DEF OnLine, InFlight, TypeOK
  <2>2. sent[t] = 0 \/ (sent[t] = 1 /\ faults > 0)
    BY DEF Underway
  <2> QED
    BY <1>1, <2>1, <2>2 DEF Underway, Line!Exchange, OnLine
<1>2. ASSUME NEW r, Raise(t, r)
      PROVE  Unseen \/ Line!GiveUp(t)
  BY <1>2, RaiseOnLine
<1> QED
  BY <1>1, <1>2 DEF Call

LEMMA EnterOnLine ==
  ASSUME TypeOK, LockIsUsed, NEW t \in Task, Underway(t), NEW s,
         EnterOp(t, s), UNCHANGED <<faults, options>>
  PROVE  Unseen \/ Line!Exchange(t) \/ Line!GiveUp(t)
<1>1. CASE lockq = <<>> /\ Call(t, <<t>>, s)
  <2>1. OnLine = {}
    BY <1>1 DEF OnLine, LockIsUsed
  <2> QED
    BY <1>1, <2>1, CallOnLine
<1>2. CASE pc' = [pc EXCEPT ![t] = "queued"] /\ UNCHANGED <<result, sent>>
  BY <1>2 DEF Underway, Unseen, OnLine, InFlight, TypeOK
<1> QED
  BY <1>1, <1>2 DEF EnterOp

(* Every step of the pipeline is a step of the line, or none. *)
LEMMA StepOnLine ==
  LineInv /\ [Next]_vars => [Line!LineNext]_Line!lineVars
<1> SUFFICES ASSUME LineInv, [Next]_vars PROVE Line!LineNext \/ UNCHANGED Line!lineVars
  OBVIOUS
<1>1. TypeOK /\ LockIsUsed /\ faults \in Nat /\ options' = options
  BY TransportAssumption, OptionsKept DEF LineInv, TypeInv, TypeOK
<1>2. CASE UNCHANGED vars
  BY <1>2 DEF vars, Line!lineVars, InFlight
<1>3. ASSUME NEW t \in Task, TaskStep(t)
      PROVE  Unseen \/ Line!LineNext
  <2> DEFINE Seen == \/ Line!Exchange(t) \/ Line!Reply(t) \/ Line!Break(t)
                     \/ Line!GiveUp(t) \/ Line!Refuse(t) \/ Line!Return(t)
  <2>1. Seen => Line!LineNext
    BY DEF Line!LineNext
  <2>2. CASE BlockWrite(t)
    <3>1. result[t] = "none"
      BY <2>2 DEF BlockWrite, LineInv, ResultInv
    <3>2. Line!Refuse(t)
      BY <1>1, <2>2, <3>1
         DEF BlockWrite, Finish, TypeOK, Line!Refuse, Line!Permitted, InFlight
    <3> QED
      BY <2>1, <3>2
  <2>3. CASE Begin(t)
    <3>1. Underway(t)
      BY <2>3, CallUnderway DEF Begin, Line!Permitted
    <3>2. UNCHANGED <<faults, options>> /\ (EnterOp(t, state) \/ OpenClient(t, 1))
      BY <2>3 DEF Begin
    <3> QED
      BY <1>1, <2>1, <3>1, <3>2, EnterOnLine, OpenUnseen DEF Underway
  <2>4. CASE ConnectReturns(t)
    <3>1. Underway(t)
      BY <2>4, CallUnderway DEF ConnectReturns
    <3> QED
      BY <1>1, <2>1, <2>4, <3>1, EnterOnLine DEF ConnectReturns
  <2>5. CASE ConnectFails(t)
    <3>1. Underway(t) /\ faults > 0
      BY <2>5, CallUnderway DEF ConnectFails, Underway
    <3>2. CASE Finish(t, "transport")
      BY <1>1, <2>1, <2>5, <3>1, <3>2, FinishGivesUp DEF ConnectFails
    <3>3. CASE pc' = [pc EXCEPT ![t] = "backoff"] /\ UNCHANGED result
      BY <1>1, <2>5, <3>3 DEF ConnectFails, Unseen, OnLine, InFlight, TypeOK
    <3> QED
      BY <2>5, <3>2, <3>3 DEF ConnectFails
  <2>6. CASE Wake(t)
    BY <1>1, <2>6, OpenUnseen DEF Wake
  <2>7. CASE Resume(t)
    <3>1. Underway(t)
      BY <2>7, CallUnderway DEF Resume
    <3>2. OnLine = {}
      BY <1>1, <2>7 DEF Resume, OnLine, LockIsUsed, InFlight
    <3> QED
      BY <1>1, <2>1, <2>7, <3>1, <3>2, CallOnLine DEF Resume
  <2>8. CASE Answer(t)
    <3>1. /\ t \in OnLine /\ OnLine' = OnLine \ {t}
          /\ \E r \in {"ok", "protocol"} : result' = [result EXCEPT ![t] = r]
          /\ UNCHANGED <<sent, faults>>
      <4>1. /\ pc[t] = "inflight" /\ pc' = [pc EXCEPT ![t] = "done"]
            /\ \E r \in {"ok", "protocol"} : result' = [result EXCEPT ![t] = r]
            /\ UNCHANGED <<sent, faults>>
        BY <2>8 DEF Answer, Finish
      <4>2. \A u \in Task : pc'[u] = IF u = t THEN "done" ELSE pc[u]
        BY <1>1, <4>1 DEF TypeOK
      <4>3. t \in OnLine /\ OnLine' = OnLine \ {t}
        BY <4>1, <4>2 DEF OnLine, InFlight
      <4> QED
        BY <4>1, <4>3
    <3>2. Line!Reply(t)
      BY <1>1, <3>1 DEF Line!Reply, OnLine
    <3> QED
      BY <2>1, <3>2
  <2>9. CASE Break(t)
    <3>1. t \in OnLine /\ faults' > 0
      <4>1. CASE sock[on[t]] # "open" /\ UNCHANGED faults
        <5>1. faults # 0
          BY <2>9, <4>1 DEF Break, LineInv, HealthInv, Undisturbed
        <5> QED
          BY <1>1, <2>9, <4>1, <5>1 DEF Break, OnLine, InFlight
      <4>2. CASE faults' = faults + 1
        BY <1>1, <2>9, <4>2 DEF Break, OnLine, InFlight
      <4> QED
        BY <2>9, <4>1, <4>2 DEF Break
    <3>2. CASE OpenClient(t, 1)
      <4>1. OnLine' = OnLine \ {t} /\ UNCHANGED <<sent, result>>
        BY <1>1, <3>2 DEF OpenClient, OnLine, InFlight, TypeOK
      <4>2. Line!Break(t)
        BY <1>1, <3>1, <4>1 DEF Line!Break, OnLine
      <4> QED
        BY <2>1, <4>2
    <3>3. CASE tries[t] = 2 /\ Finish(t, "transport") /\ UNCHANGED sent
      <4>1. OnLine' = OnLine \ {t} /\ result' = [result EXCEPT ![t] = "transport"]
        BY <1>1, <3>3 DEF Finish, OnLine, InFlight, TypeOK
      <4>2. faults > 0
        BY <1>1, <3>3 DEF LineInv, HealthInv, Undisturbed
      <4>3. Line!Break(t)
        BY <1>1, <3>1, <3>3, <4>1, <4>2 DEF Line!Break, OnLine
      <4> QED
        BY <2>1, <4>3
    <3> QED
      BY <2>9, <3>2, <3>3 DEF Break, Raise
  <2>10. CASE Return(t)
    <3>1. result[t] # "none"
      BY <2>10 DEF Return, LineInv, ResultInv
    <3>2. OnLine' = OnLine
      BY <1>1, <2>10 DEF Return, OnLine, InFlight, TypeOK
    <3>3. Line!Return(t)
      BY <2>10, <3>1, <3>2 DEF Return, Line!Return, OnLine
    <3> QED
      BY <2>1, <3>3
  <2> QED
    BY <1>3, <2>2, <2>3, <2>4, <2>5, <2>6, <2>7, <2>8, <2>9, <2>10 DEF TaskStep
<1>4. ASSUME NEW c \in Client, SocketStep(c)
      PROVE  Unseen \/ Line!Trouble
  <2>1. OnLine' = OnLine /\ UNCHANGED <<sent, result>>
    BY <1>4 DEF SocketStep, SocketUp, SocketRefused, SocketLost, SocketRevived,
                OnLine, InFlight
  <2>2. faults' = faults \/ faults' = faults + 1
    BY <1>4 DEF SocketStep, SocketUp, SocketRefused, SocketLost, SocketRevived
  <2>3. CASE faults' = faults
    BY <1>1, <2>1, <2>3 DEF Unseen
  <2>4. CASE faults' = faults + 1
    <3>1. faults' > 0
      BY <1>1, <2>4
    <3> QED
      BY <1>1, <2>1, <3>1 DEF Line!Trouble, OnLine
  <2> QED
    BY <2>2, <2>3, <2>4
<1> QED
  BY <1>2, <1>3, <1>4, UnseenStutters DEF Next, Line!LineNext

(* The pipeline implements the line its callers are promised.              *)
THEOREM PipelineIsALine == Spec => KeepsTheLine
<1>1. Init => Line!LineInit
  BY TransportAssumption DEF Init, InFlight, Line!LineInit
<1> QED
  BY <1>1, LineInvInit, LineInvStep, StepOnLine, PTL DEF Spec, KeepsTheLine, Line!LineSpec


-----------------------------------------------------------------------------
(* What one fault does as long as no two tasks open clients at once: the   *)
(* one that it hits reconnects, is the only one to do so, and finds its    *)
(* connection up and current at its second try; whoever has not met the    *)
(* fault does not, either.                                                 *)
Calm == faults <= 1 /\ ~clash

Reconnecting == {t \in Task : pc[t] = "connecting"}

(* Where task t can be. *)
CalmTask(t) ==
  /\ pc[t] # "backoff"
  /\ result[t] # "transport"
  /\ pc[t] = "idle" => tries[t] = 1
  /\ pc[t] = "connecting" =>
       tries[t] = 2 /\ on[t] = client /\ sock[client] \in {"opening", "open"}
  /\ pc[t] = "inflight" => on[t] = client /\ Reconnecting = {}
  /\ tries[t] = 2 /\ pc[t] # "connecting" => sock[client] = "open" /\ Reconnecting = {}
  /\ faults = 0 => tries[t] = 1

CalmLine ==
  /\ \A t, u \in Task : pc[t] = "connecting" /\ pc[u] = "connecting" => t = u
  /\ Reconnecting = {} => state = "Connected" /\ sock[client] \in {"open", "lost"}
  /\ Reconnecting # {} => state = "Connecting"
  /\ faults = 0 => sock[client] = "open"

AbsorbInv == Calm => CalmLine /\ \A t \in Task : CalmTask(t)


CalmAll == CalmLine /\ \A t \in Task : CalmTask(t)

LEMMA AbsorbInit == Init => AbsorbInv
<1> SUFFICES ASSUME Init PROVE CalmAll
  BY DEF AbsorbInv, CalmAll
<1>1. /\ state = "Connected" /\ client \in Client /\ sock[client] = "open" /\ faults = 0
      /\ \A t \in Task : pc[t] = "idle" /\ tries[t] = 1 /\ result[t] = "none"
  BY DEF Init
<1>2. Reconnecting = {}
  BY <1>1 DEF Reconnecting
<1> QED
  BY <1>1, <1>2 DEF CalmAll, CalmLine, CalmTask

(* A calm that lasts over a step was there before it. *)
LEMMA CalmBefore ==
  ASSUME TypeOK, [Next]_vars, Calm'
  PROVE  Calm /\ faults \in Nat /\ (faults' = faults \/ (faults = 0 /\ faults' = 1))
<1>1. faults \in Nat /\ faults' \in {faults, faults + 1}
  BY TransportAssumption
  DEF TypeOK, Next, TaskStep, SocketStep, vars, BlockWrite, Begin, ConnectReturns,
      ConnectFails, Wake, Resume, Answer, Break, Return, SocketUp, SocketRefused,
      SocketLost, SocketRevived
<1>2. faults <= 1 /\ (faults' = faults \/ (faults = 0 /\ faults' = 1))
  BY <1>1 DEF Calm
<1>3. clash => clash'
  <2>1. ASSUME NEW t \in Task, TaskStep(t) PROVE clash => clash'
    BY <2>1, ClashOf DEF Clashed
  <2>2. ASSUME NEW c \in Client, SocketStep(c) PROVE clash' = clash
    BY <2>2 DEF SocketStep, SocketUp, SocketRefused, SocketLost, SocketRevived
  <2>3. CASE UNCHANGED vars
    BY <2>3 DEF vars
  <2> QED
    BY <2>1, <2>2, <2>3 DEF Next
<1> QED
  BY <1>1, <1>2, <1>3 DEF Calm

(* Whoever opens a client in a calm is alone with it.                      *)
LEMMA OpenCalm ==
  ASSUME TypeOK, CalmAll, Calm', NEW t \in Task,
         OpenClient(t, 1), tries' = [tries EXCEPT ![t] = 2], faults' # 0,
         \A u \in Task : u # t => tries[u] = 1 /\ pc[u] # "inflight"
  PROVE  CalmAll'
<1>1. \A u \in Task : u # t => pc[u] # "connecting"
  BY DEF OpenClient, Calm
<1>2. PICK c \in Client : /\ state' = "Connecting" /\ client' = c
                          /\ sock' = [sock EXCEPT ![c] = "opening"]
                          /\ pc' = [pc EXCEPT ![t] = "connecting"]
                          /\ on' = [on EXCEPT ![t] = c]
                          /\ result' = result
  BY DEF OpenClient, Fresh
<1>3. /\ sock'[c] = "opening" /\ pc'[t] = "connecting" /\ on'[t] = c /\ tries'[t] = 2
      /\ \A u \in Task : u # t => pc'[u] = pc[u] /\ tries'[u] = 1
  BY <1>2 DEF TypeOK
<1>4. CalmLine'
  <2>1. Reconnecting' # {}
    BY <1>3 DEF Reconnecting
  <2>2. \A u, v \in Task : pc'[u] = "connecting" /\ pc'[v] = "connecting" => u = v
    BY <1>1, <1>3
  <2> QED
    BY <1>2, <2>1, <2>2 DEF CalmLine
<1>5. ASSUME NEW u \in Task PROVE CalmTask(u)'
  <2>1. CASE u = t
    BY <1>2, <1>3, <2>1 DEF CalmAll, CalmTask
  <2>2. CASE u # t
    BY <1>1, <1>2, <1>3, <2>2 DEF CalmAll, CalmTask
  <2> QED
    BY <2>1, <2>2
<1> QED
  BY <1>4, <1>5 DEF CalmAll

LEMMA RaiseCalm ==
  ASSUME TypeOK, CalmAll, Calm', NEW t \in Task, NEW s, Raise(t, s), tries[t] = 1, faults' # 0,
         \A u \in Task : u # t => tries[u] = 1 /\ pc[u] # "inflight"
  PROVE  CalmAll'
<1>1. OpenClient(t, 1) /\ tries' = [tries EXCEPT ![t] = 2]
  BY DEF Raise
<1> QED
  BY <1>1, OpenCalm

(* With its first connection lost nobody has tried twice, or begun to.     *)
LEMMA LostOnce ==
  ASSUME TypeOK, CalmAll, Reconnecting = {}, sock[client] # "open", NEW u \in Task
  PROVE  tries[u] = 1 /\ faults # 0
<1>1. tries[u] \in {1, 2}
  BY DEF TypeOK
<1>2. tries[u] # 2
  BY DEF CalmAll, CalmTask, Reconnecting
<1> QED
  BY <1>1, <1>2 DEF CalmAll, CalmLine

(* A call goes out while nobody reconnects. *)
LEMMA SendCalm ==
  ASSUME TypeOK, CalmAll, Reconnecting' = {}, NEW t \in Task, sock[client] = "open",
         state' = "Connected", pc' = [pc EXCEPT ![t] = "inflight"],
         on' = [on EXCEPT ![t] = client],
         UNCHANGED <<client, sock, tries, result, faults>>
  PROVE  CalmAll'
<1>1. /\ pc'[t] = "inflight" /\ on'[t] = client
      /\ \A u \in Task : u # t => pc'[u] = pc[u] /\ on'[u] = on[u]
  BY DEF TypeOK
<1>2. CalmLine'
  BY <1>1 DEF CalmAll, CalmLine, Reconnecting
<1>3. ASSUME NEW u \in Task PROVE CalmTask(u)'
  BY <1>1 DEF CalmAll, CalmTask
<1> QED
  BY <1>2, <1>3 DEF CalmAll


(* A call that nobody else is in the way of: the caller has the lock and   *)
(* found the state as it is.                                               *)
LEMMA CallCalm ==
  ASSUME TypeOK, CalmAll, Calm', NEW t \in Task, NEW q, Call(t, q, state), faults' = faults,
         pc[t] \in {"idle", "queued"}, \A u \in Task : pc[u] # "inflight"
  PROVE  CalmAll'
<1>1. CASE Reconnecting = {}
  <2>1. state = "Connected"
    BY <1>1 DEF CalmAll, CalmLine
  <2>2. CASE sock[client] = "open"
    <3>1. /\ state' = "Connected" /\ pc' = [pc EXCEPT ![t] = "inflight"]
          /\ on' = [on EXCEPT ![t] = client]
          /\ UNCHANGED <<client, sock, tries, result>>
      BY <2>1, <2>2 DEF Call
    <3>2. Reconnecting' = {}
      BY <1>1, <3>1 DEF Reconnecting, TypeOK
    <3> QED
      BY <2>2, <3>1, <3>2, SendCalm
  <2>3. CASE sock[client] # "open"
    <3>1. Raise(t, "Faulted")
      BY <2>1, <2>3 DEF Call
    <3>2. \A u \in Task : tries[u] = 1 /\ faults # 0
      BY <1>1, <2>3, LostOnce
    <3> QED
      BY <3>1, <3>2, RaiseCalm
  <2> QED
    BY <2>2, <2>3
<1>2. CASE Reconnecting # {}
  <2>1. PICK u \in Task : pc[u] = "connecting"
    BY <1>2 DEF Reconnecting
  <2>2. state = "Connecting"
    BY <1>2 DEF CalmAll, CalmLine
  <2>3. Raise(t, state)
    BY <2>2 DEF Call
  <2>4. tries[t] # 2
    BY <1>2 DEF CalmAll, CalmTask
  <2>5. OpenClient(t, 1)
    BY <2>3, <2>4 DEF Raise
  <2>6. u # t
    BY <2>1
  <2> QED
    BY <2>1, <2>5, <2>6 DEF OpenClient, Calm
<1> QED
  BY <1>1, <1>2

(* Between the release of the lock and its next owner nobody is on the     *)
(* line.                                                                   *)
LEMMA NobodyElse ==
  ASSUME TypeOK, LockIsUsed, NEW t \in Task,
         lockq = <<>> \/ Head(lockq) = t, NEW u \in Task, u # t
  PROVE  pc[u] # "inflight"
BY DEF LockIsUsed, InFlight

(* The step of a task.                                                     *)
LEMMA TaskCalm ==
  ASSUME TypeOK, LockIsUsed, CalmAll, Calm, Calm', NEW t \in Task, TaskStep(t),
         faults' = faults \/ (faults = 0 /\ faults' = 1)
  PROVE  CalmAll'
<1>1. CalmTask(t)
  BY DEF CalmAll
<1>2. ~Wake(t) /\ ~ConnectFails(t)
  BY <1>1 DEF CalmTask, Wake, ConnectFails
<1>3. ASSUME NEW x \in {"idle", "done"}, NEW r, r # "transport",
             pc[t] # "connecting", pc' = [pc EXCEPT ![t] = x],
             result' = [result EXCEPT ![t] = r],
             tries' = tries \/ tries' = [tries EXCEPT ![t] = 1],
             x = "idle" => tries' = [tries EXCEPT ![t] = 1],
             UNCHANGED <<state, client, sock, faults>>,
             \A u \in Task : u # t => on'[u] = on[u]
      PROVE  CalmAll'
  <2>1. /\ pc'[t] = x /\ result'[t] = r
        /\ tries'[t] \in {1, tries[t]} /\ (x = "idle" => tries'[t] = 1)
        /\ \A u \in Task : u # t => /\ pc'[u] = pc[u] /\ on'[u] = on[u]
                                    /\ tries'[u] = tries[u] /\ result'[u] = result[u]
    BY <1>3 DEF TypeOK
  <2>2. Reconnecting' = Reconnecting
    BY <1>3, <2>1 DEF Reconnecting
  <2>3. CalmLine'
    BY <1>3, <2>1, <2>2 DEF CalmAll, CalmLine
  <2>4. ASSUME NEW u \in Task PROVE CalmTask(u)'
    <3>1. CASE u = t
      BY <1>1, <1>3, <2>1, <2>2, <3>1 DEF CalmTask
    <3>2. CASE u # t
      BY <1>3, <2>1, <2>2, <3>2 DEF CalmAll, CalmTask
    <3> QED
      BY <3>1, <3>2
  <2> QED
    BY <2>3, <2>4 DEF CalmAll
<1>4. CASE BlockWrite(t)
  BY <1>3, <1>4 DEF BlockWrite, Finish, TypeOK
<1>5. CASE Begin(t)
  <2>1. pc[t] = "idle" /\ faults' = faults
    BY <1>5 DEF Begin
  <2>2. CASE state = "Connected" /\ EnterOp(t, state)
    <3>1. CASE lockq = <<>> /\ Call(t, <<t>>, state)
      <4>1. \A u \in Task : pc[u] # "inflight"
        BY <2>1, <3>1, NobodyElse
      <4> QED
        BY <2>1, <3>1, <4>1, CallCalm
    <3>2. CASE /\ state' = state /\ pc' = [pc EXCEPT ![t] = "queued"]
               /\ on' = [on EXCEPT ![t] = NoClient]
               /\ UNCHANGED <<client, sock, tries, result>>
      <4>1. /\ pc'[t] = "queued"
            /\ \A u \in Task : u # t => pc'[u] = pc[u] /\ on'[u] = on[u]
        BY <3>2 DEF TypeOK
      <4>2. Reconnecting' = Reconnecting
        BY <2>1, <4>1 DEF Reconnecting
      <4>3. CalmLine'
        BY <2>1, <3>2, <4>1, <4>2 DEF CalmAll, CalmLine
      <4>4. \A u \in Task : CalmTask(u)'
        BY <2>1, <3>2, <4>1, <4>2 DEF CalmAll, CalmTask
      <4> QED
        BY <4>3, <4>4 DEF CalmAll
    <3> QED
      BY <2>2, <3>1, <3>2 DEF EnterOp
  <2>3. CASE state # "Connected" /\ OpenClient(t, 1)
    <3>1. PICK u \in Task : pc[u] = "connecting"
      BY <2>3 DEF CalmAll, CalmLine, Reconnecting
    <3>2. u # t
      BY <2>1, <3>1
    <3> QED
      BY <2>3, <3>1, <3>2 DEF OpenClient, Calm
  <2> QED
    BY <1>5, <2>2, <2>3 DEF Begin
<1>6. CASE ConnectReturns(t)
  <2>1. /\ pc[t] = "connecting" /\ on[t] = client /\ sock[client] = "open"
        /\ EnterOp(t, "Connected") /\ faults' = faults
    BY <1>1, <1>6 DEF ConnectReturns, CalmTask
  <2>2. \A u \in Task : pc[u] = "connecting" => u = t
    BY <2>1 DEF CalmAll, CalmLine
  <2>3. CASE Call(t, <<t>>, "Connected")
    <3>1. /\ state' = "Connected" /\ pc' = [pc EXCEPT ![t] = "inflight"]
          /\ on' = [on EXCEPT ![t] = client]
          /\ UNCHANGED <<client, sock, tries, result>>
      BY <2>1, <2>3 DEF Call
    <3>2. Reconnecting' = {}
      BY <2>2, <3>1 DEF Reconnecting, TypeOK
    <3> QED
      BY <2>1, <3>1, <3>2, SendCalm
  <2>4. CASE /\ state' = "Connected" /\ pc' = [pc EXCEPT ![t] = "queued"]
             /\ on' = [on EXCEPT ![t] = NoClient]
             /\ UNCHANGED <<client, sock, tries, result>>
    <3>1. /\ pc'[t] = "queued"
          /\ \A u \in Task : u # t => pc'[u] = pc[u] /\ on'[u] = on[u]
      BY <2>4 DEF TypeOK
    <3>2. Reconnecting' = {}
      BY <2>2, <3>1 DEF Reconnecting
    <3>3. CalmLine'
      BY <2>1, <2>2, <2>4, <3>1, <3>2 DEF CalmAll, CalmLine
    <3>4. \A u \in Task : CalmTask(u)'
      BY <2>1, <2>2, <2>4, <3>1, <3>2 DEF CalmAll, CalmTask
    <3> QED
      BY <3>3, <3>4 DEF CalmAll
  <2> QED
    BY <2>1, <2>3, <2>4 DEF EnterOp
<1>7. CASE Resume(t)
  <2>1. pc[t] = "queued" /\ Head(lockq) = t /\ Call(t, lockq, state) /\ faults' = faults
    BY <1>7 DEF Resume
  <2>2. \A u \in Task : pc[u] # "inflight"
    BY <2>1, NobodyElse
  <2> QED
    BY <2>1, <2>2, CallCalm
<1>8. CASE Answer(t)
  BY <1>3, <1>8 DEF Answer, Finish, TypeOK
<1>9. CASE Break(t)
  <2>1. /\ pc[t] = "inflight" /\ on[t] = client /\ Reconnecting = {} /\ Raise(t, "Faulted")
        /\ \/ sock[client] # "open" /\ faults' = faults
           \/ sock[client] = "open" /\ faults' = faults + 1
    BY <1>1, <1>9 DEF Break, CalmTask
  <2>2. (\A u \in Task : tries[u] = 1) /\ faults' # 0
    <3>1. CASE sock[client] # "open" /\ faults' = faults
      BY <2>1, <3>1, LostOnce
    <3>2. CASE faults' = faults + 1
      <4>1. faults = 0 /\ faults' = 1
        BY <3>2, TransportAssumption DEF TypeOK
      <4> QED
        BY <4>1 DEF CalmAll, CalmTask
    <3> QED
      BY <2>1, <3>1, <3>2
  <2>3. \A u \in Task : u # t => pc[u] # "inflight"
    BY <2>1 DEF LockIsUsed, InFlight
  <2> QED
    BY <2>1, <2>2, <2>3, RaiseCalm
<1>10. CASE Return(t)
  BY <1>3, <1>10 DEF Return, TypeOK
<1> QED
  BY <1>2, <1>4, <1>5, <1>6, <1>7, <1>8, <1>9, <1>10 DEF TaskStep

(* The step of a socket. *)
LEMMA SocketCalm ==
  ASSUME TypeOK, CalmAll, Calm, Calm', NEW c \in Client, SocketStep(c),
         faults' = faults \/ (faults = 0 /\ faults' = 1)
  PROVE  CalmAll'
<1>1. UNCHANGED <<state, client, lockq, pc, on, tries, result>>
  BY DEF SocketStep, SocketUp, SocketRefused, SocketLost, SocketRevived
<1>2. Reconnecting' = Reconnecting
  BY <1>1 DEF Reconnecting
<1>3. sock \in [Client -> Socket] /\ client \in Client /\ faults \in Nat
  BY TransportAssumption DEF TypeOK
<1>4. CASE SocketUp(c) \/ SocketRevived(c)
  <2>1. /\ faults' = faults /\ sock' = [sock EXCEPT ![c] = "open"]
    BY <1>4 DEF SocketUp, SocketRevived
  <2>2. /\ sock[client] = "open" => sock'[client] = "open"
        /\ sock[client] \in {"open", "lost"} => sock'[client] \in {"open", "lost"}
        /\ sock[client] \in {"opening", "open"} => sock'[client] \in {"opening", "open"}
    BY <1>3, <2>1
  <2>3. CalmLine'
    BY <1>1, <1>2, <2>1, <2>2 DEF CalmAll, CalmLine
  <2>4. \A u \in Task : CalmTask(u)'
    BY <1>1, <1>2, <2>1, <2>2 DEF CalmAll, CalmTask
  <2> QED
    BY <2>3, <2>4 DEF CalmAll
<1>5. CASE SocketRefused(c) \/ SocketLost(c)
  <2>1. faults = 0 /\ faults' = 1
    BY <1>3, <1>5 DEF SocketRefused, SocketLost
  <2>2. /\ \A u \in Task : tries[u] = 1
        /\ sock[client] = "open"
        /\ Reconnecting = {}
    BY <2>1 DEF CalmAll, CalmLine, CalmTask, Reconnecting
  <2>3. sock'[client] \in {"open", "lost"}
    BY <1>3, <1>5, <2>2 DEF SocketRefused, SocketLost
  <2>4. CalmLine'
    BY <1>1, <1>2, <2>1, <2>2, <2>3 DEF CalmAll, CalmLine
  <2>5. \A u \in Task : CalmTask(u)'
    BY <1>1, <1>2, <2>1, <2>2 DEF CalmAll, CalmTask, Reconnecting
  <2> QED
    BY <2>4, <2>5 DEF CalmAll
<1> QED
  BY <1>4, <1>5 DEF SocketStep

LEMMA AbsorbStep ==
  ASSUME TypeOK, LockIsUsed, AbsorbInv, [Next]_vars
  PROVE  AbsorbInv'
<1> SUFFICES ASSUME Calm' PROVE CalmAll'
  BY DEF AbsorbInv, CalmAll
<1>1. Calm /\ (faults' = faults \/ (faults = 0 /\ faults' = 1))
  BY CalmBefore
<1>2. CalmAll
  BY <1>1 DEF AbsorbInv, CalmAll
<1>3. CASE UNCHANGED vars
  BY <1>2, <1>3 DEF vars, CalmAll, CalmLine, CalmTask, Reconnecting
<1>4. ASSUME NEW t \in Task, TaskStep(t) PROVE CalmAll'
  BY <1>1, <1>2, <1>4, TaskCalm
<1>5. ASSUME NEW c \in Client, SocketStep(c) PROVE CalmAll'
  BY <1>1, <1>2, <1>5, SocketCalm
<1> QED
  BY <1>3, <1>4, <1>5 DEF Next

(* One fault is hidden from every caller, of any number of them, wherever  *)
(* it hits: a request, the connection it was to go out on, an idle line or *)
(* the line others wait for; only two reconnects at a time may let it      *)
(* through (resilient.py _invoke, _ensure_connected).                      *)
THEOREM FaultAbsorbed == Spec => []SingleFaultAbsorbed
<1>1. Init => TypeInv /\ AbsorbInv
  BY TypeInvInit, AbsorbInit
<1>2. (TypeInv /\ AbsorbInv) /\ [Next]_vars => (TypeInv /\ AbsorbInv)'
  BY TypeInvStep, AbsorbStep DEF TypeInv
<1>3. AbsorbInv => SingleFaultAbsorbed
  BY DEF AbsorbInv, Calm, CalmTask, SingleFaultAbsorbed, RetrySmoothsOver
<1> QED
  BY <1>1, <1>2, <1>3, PTL DEF Spec
=============================================================================
