----------------------------- MODULE LiveStream -----------------------------
(***************************************************************************)
(* The way of a change event to the dashboard: LiveStateSink, the two      *)
(* endpoints /api/state and /api/stream, and the grid of the browser's     *)
(* app.js.                                                                 *)
(*                                                                         *)
(* The server runs on one event loop: subscribe() and snapshot() of a      *)
(* stream happen in one go, and so does emit() over all subscribers; what  *)
(* interleaves are the events, the writes of each stream to its socket,    *)
(* the browser reading it, and connections that break.                     *)
(***************************************************************************)
EXTENDS Naturals, Sequences

CONSTANTS
  Key,           \* (unit, object type, address)
  Tab,           \* browser pages
  Sub,           \* subscriptions; their uuids
  NotOpen,       \* a page nobody has opened
  Booting,       \* a page that waits for /api/state
  Offline,       \* a page whose EventSource has no connection
  Capacity,      \* _CAPACITY: bound of each subscriber's queue
  WireCapacity,  \* bound: events a connection's buffers hold on the way
  MaxEvents,     \* bound: how many events are emitted
  MaxDrops       \* bound: how many connections break

ASSUME LiveStreamAssumption ==
  /\ {NotOpen, Booting, Offline} \cap Sub = {}
  /\ NotOpen # Booting /\ NotOpen # Offline /\ Booting # Offline
  /\ {Capacity, WireCapacity} \subseteq Nat \ {0}
  /\ {MaxEvents, MaxDrops} \subseteq Nat

(* An event is the newest value of its key from then on.  Its number, in   *)
(* the order of emit(), stands for time stamp and values.                  *)
Event == [key : Key, id : 1 .. MaxEvents]

VARIABLES
  emitted,     \* number of the last event
  latest,      \* LiveStateSink._latest: event number by key, 0 if there is none
  keys,        \* the keys of _latest in the order of the dictionary
  subscribed,  \* the keys of LiveStateSink._subscribers
  queue,       \* the queue of each subscription
  pending,     \* what its gen() has still to send of the snapshot
  gone,        \* subscriptions whose client has disconnected
  wire,        \* events sent and not yet received
  lost,        \* history: events a queue has dropped
  page,        \* of each page: not open, booting, offline, or its subscription
  reply,       \* the answer of /api/state on its way to a booting page
  rows,        \* app.js rows: event number by key, 0 if there is none
  drops        \* how many connections have broken

server  == <<emitted, latest, keys, subscribed, queue, pending, gone, lost>>
browser == <<page, reply, rows>>
vars    == <<emitted, latest, keys, subscribed, queue, pending, gone, wire, lost,
             page, reply, rows, drops>>

(* The type invariant: among others, no queue outgrows its capacity.       *)
TypeOK ==
  /\ emitted \in 0 .. MaxEvents
  /\ latest \in [Key -> 0 .. MaxEvents]
  /\ keys \in Seq(Key)
  /\ subscribed \subseteq Sub /\ gone \subseteq Sub
  /\ queue \in [Sub -> Seq(Event)] /\ \A s \in Sub : Len(queue[s]) <= Capacity
  /\ pending \in [Sub -> Seq(Event)]
  /\ wire \in [Sub -> Seq(Event)] /\ \A s \in Sub : Len(wire[s]) <= WireCapacity
  /\ lost \in [Sub -> SUBSET Event]
  /\ page \in [Tab -> Sub \cup {NotOpen, Booting, Offline}]
  /\ reply \in [Tab -> Seq(Event)]
  /\ rows \in [Tab -> [Key -> 0 .. MaxEvents]]
  /\ drops \in 0 .. MaxDrops

Init ==
  /\ emitted = 0
  /\ latest = [k \in Key |-> 0]
  /\ keys = <<>>
  /\ subscribed = {} /\ gone = {}
  /\ queue = [s \in Sub |-> <<>>]
  /\ pending = [s \in Sub |-> <<>>]
  /\ wire = [s \in Sub |-> <<>>]
  /\ lost = [s \in Sub |-> {}]
  /\ page = [t \in Tab |-> NotOpen]
  /\ reply = [t \in Tab |-> <<>>]
  /\ rows = [t \in Tab |-> [k \in Key |-> 0]]
  /\ drops = 0

-----------------------------------------------------------------------------
(* snapshot(): the values of _latest in the order of the dictionary. *)
Snapshot == [i \in 1 .. Len(keys) |-> [key |-> keys[i], id |-> latest[keys[i]]]]

Full(q) == Len(q) >= Capacity

(* Definitions marked "slip" are not the code's: each is the definition    *)
(* after it with a mistake of the kind such code invites, and shows that a *)
(* property notices it.                                                    *)

(* Slip: a full queue turns the new event away. *)
OfferToFull(q, e) == IF Full(q) THEN q ELSE Append(q, e)

(* Slip: the queue has no bound. *)
OfferUnbounded(q, e) == Append(q, e)

(* _offer: at a full queue the oldest event makes room. *)
Offer(q, e) == IF Full(q) THEN Append(Tail(q), e) ELSE Append(q, e)

(* emit(): the table, then every subscriber's queue. *)
Emit(k) ==
  LET e == [key |-> k, id |-> emitted + 1]
  IN  /\ emitted < MaxEvents
      /\ emitted' = emitted + 1
      /\ latest' = [latest EXCEPT ![k] = e.id]
      /\ keys' = IF latest[k] = 0 THEN Append(keys, k) ELSE keys
      /\ queue' = [s \in Sub |-> IF s \in subscribed THEN Offer(queue[s], e) ELSE queue[s]]
      /\ lost' = [s \in Sub |-> IF s \in subscribed /\ Full(queue[s])
                                THEN lost[s] \cup {Head(queue[s])} ELSE lost[s]]
      /\ UNCHANGED <<subscribed, pending, gone, wire, browser, drops>>

-----------------------------------------------------------------------------
(* upsert() of one event, and of a list of them in order. *)
Upsert(grid, e) == [grid EXCEPT ![e.key] = e.id]

(* The list of /api/state has each key once. *)
UpsertAll(grid, es) ==
  [k \in Key |-> IF \E i \in DOMAIN es : es[i].key = k
                 THEN es[CHOOSE i \in DOMAIN es : es[i].key = k].id
                 ELSE grid[k]]

(* boot() asks for /api/state; the server answers with what it has then. *)
OpenPage(t) ==
  /\ page[t] = NotOpen
  /\ page' = [page EXCEPT ![t] = Booting]
  /\ reply' = [reply EXCEPT ![t] = Snapshot]
  /\ UNCHANGED <<server, wire, rows, drops>>

(* The answer arrives and goes into the grid; startStream(). *)
Boot(t) ==
  /\ page[t] = Booting
  /\ rows' = [rows EXCEPT ![t] = UpsertAll(@, reply[t])]
  /\ reply' = [reply EXCEPT ![t] = <<>>]
  /\ page' = [page EXCEPT ![t] = Offline]
  /\ UNCHANGED <<server, wire, drops>>

(* Slip: the stream starts without the snapshot. *)
ConnectBare(t) ==
  /\ page[t] = Offline
  /\ \E s \in Sub \ subscribed :
       /\ subscribed' = subscribed \cup {s}
       /\ queue' = [queue EXCEPT ![s] = <<>>]
       /\ pending' = [pending EXCEPT ![s] = <<>>]
       /\ wire' = [wire EXCEPT ![s] = <<>>]
       /\ lost' = [lost EXCEPT ![s] = {}]
       /\ page' = [page EXCEPT ![t] = s]
  /\ UNCHANGED <<emitted, latest, keys, gone, reply, rows, drops>>

(* The EventSource connects, first thing or again: gen() subscribes and    *)
(* takes the snapshot before it sends anything.                            *)
Connect(t) ==
  /\ page[t] = Offline
  /\ \E s \in Sub \ subscribed :
       /\ subscribed' = subscribed \cup {s}
       /\ queue' = [queue EXCEPT ![s] = <<>>]
       /\ pending' = [pending EXCEPT ![s] = Snapshot]
       /\ wire' = [wire EXCEPT ![s] = <<>>]
       /\ lost' = [lost EXCEPT ![s] = {}]
       /\ page' = [page EXCEPT ![t] = s]
  /\ UNCHANGED <<emitted, latest, keys, gone, reply, rows, drops>>

Serving(s) == s \in subscribed \ gone /\ Len(wire[s]) < WireCapacity

(* gen() yields the next event of the snapshot. *)
SendSnapshot(s) ==
  /\ Serving(s)
  /\ pending[s] # <<>>
  /\ wire' = [wire EXCEPT ![s] = Append(@, Head(pending[s]))]
  /\ pending' = [pending EXCEPT ![s] = Tail(@)]
  /\ UNCHANGED <<emitted, latest, keys, subscribed, queue, gone, lost, browser, drops>>

(* Slip: what is queued is sent before the snapshot is through. *)
SendEventEarly(s) ==
  /\ Serving(s)
  /\ queue[s] # <<>>
  /\ wire' = [wire EXCEPT ![s] = Append(@, Head(queue[s]))]
  /\ queue' = [queue EXCEPT ![s] = Tail(@)]
  /\ UNCHANGED <<emitted, latest, keys, subscribed, pending, gone, lost, browser, drops>>

(* Afterwards it yields what its queue gives. *)
SendEvent(s) ==
  /\ Serving(s)
  /\ pending[s] = <<>>
  /\ queue[s] # <<>>
  /\ wire' = [wire EXCEPT ![s] = Append(@, Head(queue[s]))]
  /\ queue' = [queue EXCEPT ![s] = Tail(@)]
  /\ UNCHANGED <<emitted, latest, keys, subscribed, pending, gone, lost, browser, drops>>

(* es.onmessage: into the grid; the list of changes beside it is left out. *)
Receive(t) ==
  \E s \in subscribed :
    /\ page[t] = s
    /\ wire[s] # <<>>
    /\ wire' = [wire EXCEPT ![s] = Tail(@)]
    /\ rows' = [rows EXCEPT ![t] = Upsert(@, Head(wire[s]))]
    /\ UNCHANGED <<server, page, reply, drops>>

(* The connection of a page breaks; what was on the way is gone.           *)
Disconnect(t) ==
  /\ drops < MaxDrops
  /\ drops' = drops + 1
  /\ \E s \in subscribed :
       /\ page[t] = s
       /\ gone' = gone \cup {s}
       /\ wire' = [wire EXCEPT ![s] = <<>>]
  /\ page' = [page EXCEPT ![t] = Offline]
  /\ UNCHANGED <<emitted, latest, keys, subscribed, queue, pending, lost, reply, rows>>

(* gen() notices, by is_disconnected() or its cancellation, and its        *)
(* "finally" runs.                                                         *)
Unsubscribe(s) ==
  /\ s \in gone
  /\ gone' = gone \ {s}
  /\ subscribed' = subscribed \ {s}
  /\ queue' = [queue EXCEPT ![s] = <<>>]
  /\ pending' = [pending EXCEPT ![s] = <<>>]
  /\ lost' = [lost EXCEPT ![s] = {}]
  /\ UNCHANGED <<emitted, latest, keys, wire, browser, drops>>

TabStep(t) == OpenPage(t) \/ Boot(t) \/ Connect(t) \/ Receive(t) \/ Disconnect(t)

StreamStep(s) == SendSnapshot(s) \/ SendEvent(s) \/ Unsubscribe(s)

Next ==
  \/ \E k \in Key : Emit(k)
  \/ \E t \in Tab : TabStep(t)
  \/ \E s \in Sub : StreamStep(s)

Spec == Init /\ [][Next]_vars

(* The server answers, the EventSource reconnects by itself, and both ends *)
(* of a connection go on as long as it lasts.  Nobody has to open a page.  *)
FairSpec ==
  /\ Spec
  /\ \A t \in Tab : WF_vars(Boot(t)) /\ WF_vars(Connect(t)) /\ WF_vars(Receive(t))
  /\ \A s \in Sub : WF_vars(SendSnapshot(s)) /\ WF_vars(SendEvent(s)) /\ WF_vars(Unsubscribe(s))

-----------------------------------------------------------------------------
Elements(q) == {q[i] : i \in DOMAIN q}

(* On a connection that lasts, the newest value of every key is in the     *)
(* grid or on its way there, unless it was dropped from a full queue.  No  *)
(* event falls between the snapshot and the queue, between the queue and   *)
(* the socket, or is undone by an older one (live.py subscribe and         *)
(* snapshot, api.py gen, app.js upsert).                                   *)
NothingMissing ==
  \A t \in Tab, k \in Key :
    page[t] \in Sub /\ latest[k] # 0 =>
      LET s == page[t]
      IN  \/ rows[t][k] = latest[k]
          \/ [key |-> k, id |-> latest[k]] \in
               Elements(pending[s]) \cup Elements(queue[s]) \cup Elements(wire[s]) \cup lost[s]

(* A queue that overflows keeps the newest events without a gap: what a    *)
(* slow browser loses is the oldest it had not read.                       *)
KeepsNewest ==
  \A s \in subscribed : \A i \in DOMAIN queue[s] :
    queue[s][i].id = emitted - Len(queue[s]) + i

(* The grid never shows an older value after a newer one, whatever breaks  *)
(* and reconnects in between and however late the boot reply is.           *)
GridNeverGoesBack == [][\A t \in Tab, k \in Key : rows[t][k] <= rows'[t][k]]_vars

(* An open page comes to show the latest value of every key once events    *)
(* and broken connections have ceased, except what the queue of the        *)
(* connection it is left with has dropped: a reconnect makes up for        *)
(* everything that went before (live.py, api.py gen, app.js onmessage).    *)
GridCatchesUp ==
  \A t \in Tab, k \in Key :
    <>[](\/ page[t] = NotOpen
         \/ rows[t][k] = latest[k]
         \/ page[t] \in Sub /\ [key |-> k, id |-> latest[k]] \in lost[page[t]])
=============================================================================
