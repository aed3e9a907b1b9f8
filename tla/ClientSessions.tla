--------------------------- MODULE ClientSessions ---------------------------
(***************************************************************************)
(* The daemon between its clients and its phones: the accept loop with its *)
(* permits (daemon/mod.rs, daemon/relay.rs), one task per client with its  *)
(* command loop (daemon/connection.rs), and the scan loop that changes the *)
(* scanner's table, the manager's table and the event channel one after    *)
(* the other.  What the scanner sees is any change of its table (module    *)
(* DeviceScanner has the details), a connect request succeeds or fails     *)
(* (MuxConnections), a pair record is there or not (PairStore).  Ids are   *)
(* handed out once.  Left out: the monotone counters and refcount, which   *)
(* nothing reads to decide.                                                *)
(***************************************************************************)
EXTENDS Integers, Sequences, FiniteSets, SequencesExt

CONSTANTS
    Client,              \* connections a client may open, one after the other
    Peer,                \* peer identities: records [uid, sid]
    NoIdentity,          \* the uid or sid of a peer that has none
    AllowedUids, AllowedSids,
    Limit,               \* values of max_clients
    Capacity,            \* broadcast_capacity, rounded up to a power of two
    RequirePairRecord,   \* require_pair_record
    MaxId,               \* bound: device ids handed out
    MaxConn              \* bound: connections

ASSUME SessionConstants ==
    /\ IsFiniteSet(Client)
    /\ Limit \subseteq Nat \ {0} /\ Capacity \in Nat \ {0}
    /\ MaxId \in Nat /\ MaxConn \in Nat
    /\ RequirePairRecord \in BOOLEAN

VARIABLES
    backend,     \* "usb" or "relay"
    limit,       \* max_clients
    running,     \* the accept loop runs
    permits,     \* of the semaphore
    active,      \* metrics.clients_active
    listens,     \* metrics.listens_active
    sess,        \* the connections and their tasks
    conns,       \* connections opened
    loop,        \* the scan loop
    next,        \* DeviceScanner.next_id
    table,       \* ids the scanner knows
    todo,        \* changes not yet sent
    managed,     \* ids in DeviceManager.devices
    record       \* the phones' pair record is in the lockdown directory

gauges == <<permits, active, listens>>
tables == <<next, table, todo, managed>>
vars == <<backend, limit, running, gauges, sess, conns, loop, tables, record>>

Id == 1..MaxId
Attached(i) == [kind |-> "attached", id |-> i]
Detached(i) == [kind |-> "detached", id |-> i]
NoEvent == Detached(0)
NoPeer == [uid |-> NoIdentity, sid |-> NoIdentity]
Listening == {"listening", "pushing"}

\* A connection:
\*   pc      what its task does
\*   peer    who opened it
\*   reads   the peer reads what it is sent
\*   gone    the peer has closed it: reads give EOF, writes fail
\*   id, lockdown, seen   the Connect it handles: the device, whether the port
\*           is lockdown's, and (history) whether the record was seen
\*   events  sent to its receiver and not yet received, in hand: not yet written
\*   view    what the client takes for the devices; synced (history): listed
\*           since the subscription, and not lagged since
Off == [pc |-> "off", peer |-> NoPeer, reads |-> TRUE, gone |-> FALSE,
        id |-> 0, lockdown |-> FALSE, seen |-> FALSE,
        events |-> <<>>, hand |-> NoEvent, view |-> {}, synced |-> FALSE]

\* UID list first, then SID list; an empty list allows all, and a peer without
\* the identity that is asked for is refused.
PeerIsAllowed(p) ==
    IF AllowedUids # {} THEN p.uid \in AllowedUids
    ELSE AllowedSids # {} => p.sid \in AllowedSids

\* A write ends when the peer reads or is gone.
CanWrite(c) == sess[c].reads \/ sess[c].gone

Set(c, r) == sess' = [sess EXCEPT ![c] = r]
NoConnect(r) == [r EXCEPT !.id = 0, !.lockdown = FALSE, !.seen = FALSE]
GoTo(c, pc) ==
    Set(c, [(IF pc = "reading" THEN NoConnect(sess[c]) ELSE sess[c]) EXCEPT !.pc = pc])

\* The task ends: its permit is dropped and clients_active goes down.
End(c) ==
    /\ Set(c, Off)
    /\ permits' = permits + 1
    /\ active' = active - 1

\* An answer is written; when that fails the task ends.
Reply(c, pc) ==
    /\ CanWrite(c)
    /\ IF sess[c].gone THEN End(c)
       ELSE GoTo(c, pc) /\ UNCHANGED <<permits, active>>

\* Mutant: a lock that lets readers in as long as there are readers.
CanReadAlways == TRUE

\* The scanner's lock queues its waiters: once the scan loop waits to write, a
\* session that wants to read waits behind it.
CanRead == loop # "waiting"

\* What a step of a task never changes.
daemonVars == <<backend, limit, running, conns, loop, tables>>
-----------------------------------------------------------------------------
(* Clients.                                                                *)

ClientConnects(c) ==
    /\ running /\ sess[c].pc = "off" /\ conns < MaxConn
    /\ conns' = conns + 1
    /\ \E p \in Peer, r \in BOOLEAN :
        Set(c, [Off EXCEPT !.pc = "backlog", !.peer = p, !.reads = r])
    /\ UNCHANGED <<backend, limit, running, gauges, loop, tables, record>>

ClientLeaves(c) ==
    /\ sess[c].pc # "off" /\ ~sess[c].gone
    /\ sess' = [sess EXCEPT ![c].gone = TRUE]
    /\ UNCHANGED <<daemonVars, gauges, record>>
-----------------------------------------------------------------------------
(* The accept loop.                                                        *)

\* A permit, or the stream is dropped.
Accept(c) ==
    /\ sess[c].pc = "backlog"
    /\ \/ /\ permits > 0
          /\ permits' = permits - 1
          /\ GoTo(c, "spawned")
       \/ /\ permits = 0
          /\ Set(c, Off)
          /\ UNCHANGED permits
    /\ UNCHANGED <<daemonVars, active, listens, record>>

\* accept() fails for this connection; the loop goes on.
AcceptFails(c) ==
    /\ sess[c].pc = "backlog" /\ sess[c].gone
    /\ Set(c, Off)
    /\ UNCHANGED <<daemonVars, gauges, record>>

Started == IF backend = "usb" THEN "reading" ELSE "dialing"

\* Mutant: the early return does not undo clients_active.
AdmitCountsRefused(c) ==
    /\ sess[c].pc = "spawned"
    /\ active' = active + 1
    /\ IF PeerIsAllowed(sess[c].peer)
       THEN /\ Set(c, [sess[c] EXCEPT !.pc = Started, !.peer = NoPeer])
            /\ UNCHANGED permits
       ELSE /\ Set(c, Off)
            /\ permits' = permits + 1
    /\ UNCHANGED <<daemonVars, listens, record>>

\* The task counts itself, and uncounts itself and returns when the peer is
\* not allowed.
Admit(c) ==
    /\ sess[c].pc = "spawned"
    /\ IF PeerIsAllowed(sess[c].peer)
       THEN /\ active' = active + 1
            /\ Set(c, [sess[c] EXCEPT !.pc = Started, !.peer = NoPeer])
            /\ UNCHANGED permits
       ELSE /\ Set(c, Off)
            /\ permits' = permits + 1
            /\ UNCHANGED active
    /\ UNCHANGED <<daemonVars, listens, record>>

\* The loop breaks, the scan task is aborted, and the runtime is dropped with
\* every other task.
Shutdown ==
    /\ running
    /\ running' = FALSE
    /\ sess' = [c \in Client |-> Off]
    /\ permits' = limit /\ active' = 0 /\ listens' = 0
    /\ loop' = "stopped"
    /\ UNCHANGED <<backend, limit, conns, tables, record>>
-----------------------------------------------------------------------------
(* The relay backend.                                                      *)

Upstream(c) ==
    /\ sess[c].pc = "dialing"
    /\ \/ GoTo(c, "splice") /\ UNCHANGED <<permits, active>>
       \/ End(c)
    /\ UNCHANGED <<daemonVars, listens, record>>

\* copy_bidirectional returns when both sides have closed, or on an error.
SpliceEnds(c) ==
    /\ sess[c].pc = "splice"
    /\ End(c)
    /\ UNCHANGED <<daemonVars, listens, record>>
-----------------------------------------------------------------------------
(* Commands that are answered at once.                                     *)

\* Mutant: EOF is taken for a packet that is not complete yet.
ReadFailsRetries(c) ==
    /\ sess[c].pc = "reading" /\ ~sess[c].gone
    /\ End(c)
    /\ UNCHANGED <<daemonVars, listens, record>>

\* EOF, a malformed header or plist, or a packet above max_packet_bytes.
ReadFails(c) ==
    /\ sess[c].pc = "reading"
    /\ End(c)
    /\ UNCHANGED <<daemonVars, listens, record>>

\* No or an unknown MessageType, MeridianStats, ReadBUID, ReadPairRecord, a
\* Connect without device or port: nothing here changes.  SavePairRecord and
\* DeletePairRecord change the lockdown directory.
OtherCommand(c) ==
    /\ sess[c].pc = "reading"
    /\ record' \in BOOLEAN
    /\ Reply(c, "reading")
    /\ UNCHANGED <<daemonVars, listens>>

\* The list goes to the client; it may be one that listens on d.
ListDevices(c) ==
    /\ sess[c].pc = "reading" /\ CanRead /\ CanWrite(c)
    /\ \/ /\ sess[c].gone
          /\ End(c)
       \/ /\ ~sess[c].gone
          /\ \E d \in Client :
                /\ sess[d].pc \in Listening
                /\ Set(d, [sess[d] EXCEPT !.view = table, !.synced = TRUE])
          /\ UNCHANGED <<permits, active>>
    /\ UNCHANGED <<daemonVars, listens, record>>
-----------------------------------------------------------------------------
(* Listen.                                                                 *)

\* The answer is written before the subscription.
Listen(c) ==
    /\ sess[c].pc = "reading"
    /\ Reply(c, "subscribing")
    /\ UNCHANGED <<daemonVars, listens, record>>

Subscribe(c) ==
    /\ sess[c].pc = "subscribing"
    /\ listens' = listens + 1
    /\ GoTo(c, "listening")
    /\ UNCHANGED <<daemonVars, permits, active, record>>

Recv(c) ==
    /\ sess[c].pc = "listening" /\ Len(sess[c].events) \in 1..Capacity
    /\ Set(c, [sess[c] EXCEPT !.pc = "pushing", !.hand = Head(sess[c].events),
                              !.events = Tail(@)])
    /\ UNCHANGED <<daemonVars, gauges, record>>

\* More events than the channel holds: the receiver moves on to the oldest one
\* left, and the client is not told.
Lagged(c) ==
    /\ sess[c].pc = "listening" /\ Len(sess[c].events) > Capacity
    /\ Set(c, [sess[c] EXCEPT !.events = SubSeq(@, Len(@) - Capacity + 1, Len(@)),
                              !.view = {}, !.synced = FALSE])
    /\ UNCHANGED <<daemonVars, gauges, record>>

Seen(ids, e) == IF e.kind = "attached" THEN ids \cup {e.id} ELSE ids \ {e.id}

\* The event is written; only here does the task notice that its peer is gone.
Push(c) ==
    /\ sess[c].pc = "pushing" /\ CanWrite(c)
    /\ \/ /\ sess[c].gone
          /\ End(c)
          /\ listens' = listens - 1
       \/ /\ ~sess[c].gone
          /\ Set(c, [sess[c] EXCEPT !.pc = "listening", !.hand = NoEvent,
                                    !.view = IF sess[c].synced
                                             THEN Seen(@, sess[c].hand) ELSE @])
          /\ UNCHANGED gauges
    /\ UNCHANGED <<daemonVars, record>>
-----------------------------------------------------------------------------
(* Connect.                                                                *)

\* The id is looked up in the scanner's table; one that is not there is refused.
Connect(c) ==
    /\ sess[c].pc = "reading" /\ CanRead
    /\ \/ table # Id /\ GoTo(c, "refusing")
       \/ \E i \in table, lockdown \in BOOLEAN :
            Set(c, [sess[c] EXCEPT
                      !.id = i, !.lockdown = lockdown,
                      !.pc = IF lockdown /\ RequirePairRecord THEN "checking"
                             ELSE "connecting"])
    /\ UNCHANGED <<daemonVars, gauges, record>>

\* BAD_DEVICE is written with the scanner's read lock held.
Refuse(c) ==
    /\ sess[c].pc = "refusing" /\ Reply(c, "reading")
    /\ UNCHANGED <<daemonVars, listens, record>>

\* Mutant: the phone's UDID is taken from the manager.
CheckRecordManaged(c) ==
    /\ sess[c].pc = "checking" /\ CanRead
    /\ \/ /\ sess[c].id \in managed /\ ~record
          /\ Reply(c, "reading")
       \/ /\ sess[c].id \in managed => record
          /\ Set(c, [sess[c] EXCEPT !.pc = "connecting", !.seen = sess[c].id \in managed])
          /\ UNCHANGED <<permits, active>>
    /\ UNCHANGED <<daemonVars, listens, record>>

\* The scanner is read again: without an entry there is no UDID, and the
\* check is passed over.
CheckRecord(c) ==
    /\ sess[c].pc = "checking" /\ CanRead
    /\ \/ /\ sess[c].id \in table /\ ~record
          /\ Reply(c, "reading")
       \/ /\ sess[c].id \in table => record
          /\ Set(c, [sess[c] EXCEPT !.pc = "connecting", !.seen = sess[c].id \in table])
          /\ UNCHANGED <<permits, active>>
    /\ UNCHANGED <<daemonVars, listens, record>>

\* DeviceManager::connect(): refused when the device is not managed.
Dial(c) ==
    /\ sess[c].pc = "connecting"
    /\ IF sess[c].id \in managed THEN GoTo(c, "awaiting") /\ UNCHANGED <<permits, active>>
       ELSE Reply(c, "reading")
    /\ UNCHANGED <<daemonVars, listens, record>>

\* Its answer: a port, a refusal or a timeout.
Dialed(c) ==
    /\ sess[c].pc = "awaiting"
    /\ \E pc \in {"connected", "reading"} : Reply(c, pc)
    /\ UNCHANGED <<daemonVars, listens, record>>

\* The device may have gone since.
StartProxy(c) ==
    /\ sess[c].pc = "connected"
    /\ IF sess[c].id \in managed THEN GoTo(c, "proxy") /\ UNCHANGED <<permits, active>>
       ELSE End(c)
    /\ UNCHANGED <<daemonVars, listens, record>>

ProxyEnds(c) ==
    /\ sess[c].pc = "proxy"
    /\ End(c)
    /\ UNCHANGED <<daemonVars, listens, record>>
-----------------------------------------------------------------------------
(* The scan loop.                                                          *)

\* The sleep is over and the write lock asked for.
Wake ==
    /\ loop = "sleep"
    /\ loop' = "waiting"
    /\ UNCHANGED <<backend, limit, running, gauges, sess, conns, tables, record>>

\* scan() has the write lock; attachments come before detachments.
Scan ==
    /\ loop = "waiting"
    /\ \A c \in Client : sess[c].pc # "refusing"
    /\ \E new \in SUBSET ({next} \cap Id), lost \in SUBSET table :
        /\ table' = (table \cup new) \ lost
        /\ next' = next + Cardinality(new)
        /\ todo' = SetToSeq({Attached(i) : i \in new}) \o SetToSeq({Detached(i) : i \in lost})
    /\ loop' = "apply"
    /\ UNCHANGED <<backend, limit, running, gauges, sess, conns, managed, record>>

\* add_device, which may fail, or remove_device.
Apply ==
    /\ loop = "apply" /\ todo # <<>>
    /\ LET i == Head(todo).id
       IN  IF Head(todo).kind = "attached" THEN managed' \in {managed, managed \cup {i}}
           ELSE managed' = managed \ {i}
    /\ loop' = "send"
    /\ UNCHANGED <<backend, limit, running, gauges, sess, conns, next, table, todo, record>>

\* Every receiver gets the event.
Deliver(e) ==
    sess' = [c \in Client |-> IF sess[c].pc \in Listening
                              THEN [sess[c] EXCEPT !.events = Append(@, e)] ELSE sess[c]]

\* Mutant: the channel is told only of devices that could be claimed.
SendManaged ==
    /\ loop = "send"
    /\ IF Head(todo).kind = "attached" /\ Head(todo).id \notin managed THEN UNCHANGED sess
       ELSE Deliver(Head(todo))
    /\ todo' = Tail(todo)
    /\ loop' = "apply"
    /\ UNCHANGED <<backend, limit, running, gauges, conns, next, table, managed, record>>

Send ==
    /\ loop = "send"
    /\ Deliver(Head(todo))
    /\ todo' = Tail(todo)
    /\ loop' = "apply"
    /\ UNCHANGED <<backend, limit, running, gauges, conns, next, table, managed, record>>

\* Known devices that are not managed are added again.
Reconcile ==
    /\ loop = "apply" /\ todo = <<>>
    /\ \E added \in SUBSET (table \ managed) : managed' = managed \cup added
    /\ loop' = "sleep"
    /\ UNCHANGED <<backend, limit, running, gauges, sess, conns, next, table, todo, record>>

\* A device task whose reader has ended drops its entry.
UsbLost ==
    /\ running
    /\ \E i \in managed : managed' = managed \ {i}
    /\ UNCHANGED <<backend, limit, running, gauges, sess, conns, loop, next, table, todo, record>>
-----------------------------------------------------------------------------
Init ==
    /\ backend \in {"usb", "relay"}
    /\ running = TRUE
    /\ limit \in Limit
    /\ permits = limit /\ active = 0 /\ listens = 0
    /\ sess = [c \in Client |-> Off]
    /\ conns = 0
    /\ loop = IF backend = "usb" THEN "sleep" ELSE "stopped"
    /\ next = 1 /\ table = {} /\ todo = <<>> /\ managed = {}
    /\ record = FALSE

ScanLoop == Wake \/ Scan \/ Apply \/ Send \/ Reconcile

\* Steps a task takes on its own once it is scheduled and its peer reads.
Task(c) ==
    \/ Accept(c) \/ Admit(c) \/ Upstream(c) \/ Subscribe(c) \/ Recv(c) \/ Lagged(c)
    \/ Push(c) \/ Refuse(c) \/ CheckRecord(c) \/ Dial(c) \/ Dialed(c) \/ StartProxy(c)

\* Steps that need something from the peer, the phone or the upstream.
Session(c) ==
    \/ ClientConnects(c) \/ ClientLeaves(c) \/ AcceptFails(c)
    \/ ReadFails(c) \/ OtherCommand(c) \/ ListDevices(c) \/ Listen(c) \/ Connect(c)
    \/ ProxyEnds(c) \/ SpliceEnds(c)

Next ==
    \/ ScanLoop \/ UsbLost \/ Shutdown
    \/ \E c \in Client : Task(c) \/ Session(c)

\* Tasks are scheduled, a session that waits for the scanner's lock gets its
\* turn (the lock is a queue), and a read or a proxy whose peer is gone ends.
Fairness ==
    /\ WF_vars(ScanLoop)
    /\ \A c \in Client :
        /\ WF_vars(Task(c)) /\ SF_vars(CheckRecord(c))
        /\ WF_vars(sess[c].gone /\ (ReadFails(c) \/ ProxyEnds(c)))

Spec == Init /\ [][Next]_vars /\ Fairness
-----------------------------------------------------------------------------
(* Properties.                                                             *)

\* The semaphore and the gauges agree with the tasks on every path out of
\* handle_client(), handle_relay_client() and the Listen loop, early returns
\* included.
GaugesExact ==
    LET outside(states) == Cardinality({c \in Client : sess[c].pc \notin states})
    IN  /\ permits = limit - outside({"off", "backlog"})
        /\ active = outside({"off", "backlog", "spawned"})
        /\ listens = Cardinality({c \in Client : sess[c].pc \in Listening})

\* The scan loop changes the table first and announces afterwards, and a
\* client may list the devices at any moment in between.  One that lists them
\* after its Listen has subscribed, and has not lagged since, misses nothing:
\* its view, with the events still on their way, is the table.
SyncedView ==
    \A c \in Client : sess[c].synced =>
        LET held == IF sess[c].pc = "pushing" THEN <<sess[c].hand>> ELSE <<>>
        IN  table = FoldLeft(Seen, sess[c].view, held \o sess[c].events \o todo)

\* Connect reads the scanner twice, and a phone that leaves in between is
\* connected to without a look at its pair record.  With require_pair_record
\* no other lockdown connection is: a phone the scanner still knows had its
\* record when the client asked.
LockdownNeedsRecord ==
    \A c \in Client :
        (/\ sess[c].pc \in {"connecting", "awaiting", "connected", "proxy"}
         /\ RequirePairRecord /\ sess[c].lockdown /\ sess[c].id \in table) => sess[c].seen

\* A session that writes BAD_DEVICE to a peer that does not read holds the
\* scanner's lock until the peer leaves.
Stuck == \E c \in Client : sess[c].pc = "refusing" /\ ~CanWrite(c)

\* A client that leaves gives its permit back, in every state of its session;
\* a listener does so at the next event, since nobody reads from its stream,
\* and a splice when the upstream has closed too.  One stuck session keeps the
\* others, which need the scanner, from ending.
PermitReturned ==
    \A c \in Client :
        /\ sess[c].gone ~> (sess[c].pc \in {"off", "listening", "splice"} \/ Stuck)
        /\ (sess[c].gone /\ sess[c].events # <<>>) ~> sess[c].pc = "off"

\* Sessions share the scanner with the scan loop.  Whatever they do, the loop
\* gets to scan, unless one of them is stuck.
ScanGoesOn == (loop = "waiting") ~> (loop # "waiting" \/ Stuck)
=============================================================================
