--------------------------- MODULE MuxConnections ---------------------------
(***************************************************************************)
(* The TCP-over-USB stack of the relay daemon for one managed device:      *)
(* ConnectionManager (daemon/mux.rs), the device task and the connect      *)
(* handlers (daemon/device_manager.rs) and the client proxies              *)
(* (daemon/connection.rs).  One process per Connect request (an attempt):  *)
(* the client's task waits for the handler it triggered, so the two are    *)
(* one thread of control; the device task and the phone run beside them.   *)
(* Each hold of the conn_mgr lock is one step, with the usb.send() of the  *)
(* frame built in it.  Payloads are single units; sequence numbers count   *)
(* units from the first one after the SYN-ACK.  The numbering of the v2    *)
(* frames, where the gap between building and sending a frame matters, is  *)
(* the subject of MuxFrameSeq.                                             *)
(***************************************************************************)
EXTENDS Integers, Sequences

CONSTANTS
    Attempt,         \* Connect requests, over all clients
    Port,            \* our source ports, 1024..65534
    DPort,           \* ports the phone listens on
    NoConn,          \* no connection / no attempt
    MaxConnBuffer,   \* config.max_conn_buffer
    WindowUnit,      \* the window is advertised in units of 256 bytes
    SynAckWindow,    \* the window of the ACK that answers a SYN-ACK, 65535 units
    InitialWindow,   \* INITIAL_WINDOW
    ConnectChannel,  \* config.connect_channel
    DataChannel,     \* config.max_data_channel, both directions
    MaxSend,         \* bound: units the phone sends on one session
    MaxTalk,         \* bound: messages one client sends
    Faults           \* environment events allowed in a run, see FaultKinds

FaultKinds ==
    {"usbGone", "detach", "sendFail", "clientGone", "phoneCloses", "timeout"}

ASSUME MuxConstants ==
    /\ Port \subseteq Nat /\ DPort \subseteq Nat
    /\ NoConn \notin Attempt
    /\ MaxConnBuffer \in Nat \ {0}
    /\ WindowUnit \in Nat \ {0}
    /\ SynAckWindow \in Nat /\ InitialWindow \in Nat
    /\ ConnectChannel \in Nat \ {0} /\ DataChannel \in Nat \ {0}
    /\ MaxSend \in Nat /\ MaxTalk \in Nat
    /\ Faults \subseteq FaultKinds

VARIABLES
    conns,      \* device.connections: port -> Connection or NoConn
    removal,    \* how far remove_device has come
    managed,    \* DeviceManager.devices has it (data_tx, connect_tx)
    task,       \* the device task
    readerUp,   \* the USB reader thread runs
    usbRx,      \* frames from the phone not yet handled by the task
    dataQ,      \* MuxOutMsg channel of the task
    connectQ,   \* ConnectRequest channel of the task
    pc,         \* where each attempt is
    sport,      \* the source port an attempt was given
    held,       \* bytes taken from ib_buf and being written to the client
    permit,     \* a notify_one() permit is stored in the connection's Notify
    delivered,  \* bytes the client of an attempt has received
    accepted,   \* history: bytes put into the ib_buf of an attempt
    uplink,     \* history: <<session's attempt, sending attempt>> pairs
    talked,     \* history: messages the client of an attempt has sent
    phone       \* the phone's sessions, by (our port, its port)

deviceVars == <<removal, managed, task, readerUp>>
channels == <<usbRx, dataQ, connectQ>>
proxyVars == <<held, permit, delivered>>
history == <<accepted, uplink, talked>>
vars == <<conns, pc, sport, phone, deviceVars, channels, proxyVars, history>>

ConnState == {"SynSent", "Connected", "CloseWait", "Dead"}
PC == {"idle", "queued", "spawned", "syn", "waiting", "answered", "start",
       "drain", "writing", "update", "unlocked", "parked", "woken", "closing",
       "done", "failed"}
TaskState == {"running", "cleaned", "unmanaged", "stopped"}

Byte == [from : Attempt, n : Nat]
Conn == [owner : Attempt, dport : DPort, state : ConnState,
         ib : Seq(Byte), ack : Nat]
Session == [for : Attempt \cup {NoConn}, st : {"none", "syn", "open", "closed"},
            sent : Nat, acked : Nat, win : Nat]
Frame == [kind : {"SynAck", "Rst", "Fin", "Data"}, to : Port, from : DPort,
          seq : Nat, by : Attempt]
OutMsg == [kind : {"Data", "WindowUpdate"}, sport : Port, by : Attempt]

\* Hence an entry of the table is told from an empty slot.
ASSUME NoConnIsNoRecord == NoConn \notin Conn

Live == {p \in Port : conns[p] # NoConn}
\* conn_mgr.devices has the device.
present == removal # "done"
\* An entry under the attempt's source port is in the table.
HasConn(a) == present /\ sport[a] \in Live
-----------------------------------------------------------------------------
(* The USB link and the phone (external).                                  *)

\* usb.send() may time out even while the phone is there.
SendResults == IF "sendFail" \in Faults THEN BOOLEAN ELSE {TRUE}

\* The phone takes in an ACK with the window it advertises.
PhoneAcked(p, d, ack, win, ok) ==
    phone' = IF ok /\ readerUp
             THEN [phone EXCEPT ![<<p, d>>].acked = IF ack > @ THEN ack ELSE @,
                                ![<<p, d>>].win = win]
             ELSE phone

PhoneFrame(kind, k) == [kind |-> kind, to |-> k[1], from |-> k[2],
                        seq |-> phone[k].sent, by |-> phone[k].for]

PhoneSends(kind, k) ==
    /\ readerUp /\ task = "running"
    /\ Len(usbRx) < DataChannel
    /\ usbRx' = Append(usbRx, PhoneFrame(kind, k))
    /\ UNCHANGED <<conns, dataQ, connectQ, pc, sport, deviceVars, proxyVars, history>>

\* The phone accepts or refuses a SYN.
PhoneAnswersSyn(k) ==
    /\ phone[k].st = "syn"
    /\ \/ PhoneSends("SynAck", k) /\ phone' = [phone EXCEPT ![k].st = "open"]
       \/ PhoneSends("Rst", k) /\ phone' = [phone EXCEPT ![k].st = "closed"]

\* The phone sends one more unit, within the window it was given.
PhoneSendsData(k) ==
    /\ phone[k].st = "open"
    /\ phone[k].sent < MaxSend
    /\ phone[k].sent - phone[k].acked < phone[k].win
    /\ PhoneSends("Data", k)
    /\ phone' = [phone EXCEPT ![k].sent = @ + 1]

PhoneCloses(k) ==
    /\ "phoneCloses" \in Faults
    /\ phone[k].st = "open"
    /\ PhoneSends("Rst", k) \/ PhoneSends("Fin", k)
    /\ phone' = [phone EXCEPT ![k].st = "closed"]

\* The phone is unplugged: read_worker gets an error and drops its sender.
UsbGone ==
    /\ "usbGone" \in Faults
    /\ readerUp
    /\ readerUp' = FALSE
    /\ UNCHANGED <<conns, removal, managed, task, pc, sport, phone, channels, proxyVars, history>>
-----------------------------------------------------------------------------
(* Connect: connection.rs "Connect", DeviceManager::connect and            *)
(* handle_connect_request.                                                 *)

\* Mutant: send() in place of try_send(), into a channel without a limit.
RequestUnbounded(a) ==
    /\ pc[a] = "idle"
    /\ managed /\ task # "stopped"
    /\ connectQ' = Append(connectQ, a)
    /\ pc' = [pc EXCEPT ![a] = "queued"]
    /\ UNCHANGED <<conns, usbRx, dataQ, sport, phone, deviceVars, proxyVars, history>>

\* connect(): try_send into the device's connect channel.
RequestConnect(a) ==
    /\ pc[a] = "idle"
    /\ IF managed /\ task # "stopped" /\ Len(connectQ) < ConnectChannel
       THEN /\ connectQ' = Append(connectQ, a)
            /\ pc' = [pc EXCEPT ![a] = "queued"]
       ELSE /\ pc' = [pc EXCEPT ![a] = "failed"]
            /\ UNCHANGED connectQ
    /\ UNCHANGED <<conns, usbRx, dataQ, sport, phone, deviceVars, proxyVars, history>>

\* Mutant: the lowest port, whether or not a connection uses it.
LowestPort == CHOOSE p \in Port : \A q \in Port : p <= q

\* The lowest port that no connection of the device uses.
FreePort == CHOOSE p \in Port \ Live : \A q \in Port \ Live : p <= q

NewConn(a, d) == [owner |-> a, dport |-> d, state |-> "SynSent",
                  ib |-> <<>>, ack |-> 0]

\* start_connect(): an entry in state SynSent under the lowest free port.
StartConnect(a) ==
    /\ pc[a] = "spawned"
    /\ IF present /\ Port \ Live # {}
       THEN /\ \E d \in DPort : conns' = [conns EXCEPT ![FreePort] = NewConn(a, d)]
            /\ sport' = [sport EXCEPT ![a] = FreePort]
            /\ pc' = [pc EXCEPT ![a] = "syn"]
       ELSE /\ pc' = [pc EXCEPT ![a] = "failed"]
            /\ UNCHANGED <<conns, sport>>
    /\ UNCHANGED <<phone, deviceVars, channels, proxyVars, history>>

\* The SYN is built under the lock and sent; a failure leaves the entry.
SendSyn(a) ==
    /\ pc[a] = "syn"
    /\ \E ok \in SendResults :
        IF HasConn(a) /\ ok /\ readerUp
        THEN /\ phone' = [phone EXCEPT ![<<sport[a], conns[sport[a]].dport>>] =
                            [for |-> a, st |-> "syn", sent |-> 0, acked |-> 0,
                             win |-> InitialWindow]]
             /\ pc' = [pc EXCEPT ![a] = "waiting"]
        ELSE /\ pc' = [pc EXCEPT ![a] = "failed"]
             /\ UNCHANGED phone
    /\ UNCHANGED <<conns, sport, deviceVars, channels, proxyVars, history>>

\* One look of the handler's poll loop at the connection's state.
PollConnect(a) ==
    /\ pc[a] = "waiting"
    /\ HasConn(a)
    /\ conns[sport[a]].state \in {"Connected", "Dead"}
    /\ pc' = [pc EXCEPT ![a] = IF conns[sport[a]].state = "Connected"
                               THEN "answered" ELSE "failed"]
    /\ UNCHANGED <<conns, sport, phone, deviceVars, channels, proxyVars, history>>

\* Mutant: the deadline is only looked at while the entry is in the table.
TimeoutIfFound(a) ==
    /\ "timeout" \in Faults
    /\ pc[a] = "waiting"
    /\ HasConn(a)
    /\ pc' = [pc EXCEPT ![a] = "failed"]
    /\ UNCHANGED <<conns, sport, phone, deviceVars, channels, proxyVars, history>>

\* Five seconds have passed: the client is refused, the entry stays.
ConnectTimeout(a) ==
    /\ "timeout" \in Faults
    /\ pc[a] = "waiting"
    /\ pc' = [pc EXCEPT ![a] = "failed"]
    /\ UNCHANGED <<conns, sport, phone, deviceVars, channels, proxyVars, history>>

\* The client is told; its task then looks up the device's data channel.
AnswerClient(a) ==
    /\ pc[a] = "answered"
    /\ \/ pc' = [pc EXCEPT ![a] = IF managed THEN "start" ELSE "failed"]
       \/ "clientGone" \in Faults /\ pc' = [pc EXCEPT ![a] = "failed"]
    /\ UNCHANGED <<conns, sport, phone, deviceVars, channels, proxyVars, history>>
-----------------------------------------------------------------------------
(* proxy_connection and proxy_loop.                                        *)

\* get_data_notify(): the proxy keeps the Notify of its connection.
ProxyStart(a) ==
    /\ pc[a] = "start"
    /\ pc' = [pc EXCEPT ![a] = IF HasConn(a) THEN "drain" ELSE "failed"]
    /\ UNCHANGED <<conns, sport, phone, deviceVars, channels, proxyVars, history>>

\* Mutant: the buffer is copied and not emptied.
DrainCopy(a) ==
    /\ pc[a] = "drain"
    /\ IF HasConn(a) /\ conns[sport[a]].state = "Connected"
       THEN /\ held' = [held EXCEPT ![a] = conns[sport[a]].ib]
            /\ pc' = [pc EXCEPT ![a] = IF conns[sport[a]].ib # <<>> THEN "writing"
                                       ELSE "unlocked"]
       ELSE /\ pc' = [pc EXCEPT ![a] = "closing"]
            /\ UNCHANGED held
    /\ UNCHANGED <<conns, sport, permit, delivered, phone, deviceVars, channels, history>>

\* The head of the loop: leave unless Connected, else take the whole buffer.
Drain(a) ==
    /\ pc[a] = "drain"
    /\ IF HasConn(a) /\ conns[sport[a]].state = "Connected"
       THEN /\ held' = [held EXCEPT ![a] = conns[sport[a]].ib]
            /\ conns' = [conns EXCEPT ![sport[a]].ib = <<>>]
            /\ pc' = [pc EXCEPT ![a] = IF conns[sport[a]].ib # <<>> THEN "writing"
                                       ELSE "unlocked"]
       ELSE /\ pc' = [pc EXCEPT ![a] = "closing"]
            /\ UNCHANGED <<conns, held>>
    /\ UNCHANGED <<sport, permit, delivered, phone, deviceVars, channels, history>>

\* Mutant: a write that fails half way is repeated from the start.
WriteRepeated(a) ==
    /\ pc[a] = "writing"
    /\ delivered' = [delivered EXCEPT ![a] = @ \o held[a]]
    /\ \/ pc' = [pc EXCEPT ![a] = "update"] /\ held' = [held EXCEPT ![a] = <<>>]
       \/ "clientGone" \in Faults /\ UNCHANGED <<pc, held>>
    /\ UNCHANGED <<conns, sport, permit, phone, deviceVars, channels, history>>

\* write_all to the client; of a write that fails the client, which is gone, reads
\* nothing.
WriteClient(a) ==
    /\ pc[a] = "writing"
    /\ \/ /\ delivered' = [delivered EXCEPT ![a] = @ \o held[a]]
          /\ pc' = [pc EXCEPT ![a] = "update"]
       \/ /\ "clientGone" \in Faults
          /\ pc' = [pc EXCEPT ![a] = "closing"]
          /\ UNCHANGED delivered
    /\ held' = [held EXCEPT ![a] = <<>>]
    /\ UNCHANGED <<conns, sport, permit, phone, deviceVars, channels, history>>

\* Mutant: the drained window is never advertised.
NoUpdate(a) ==
    /\ pc[a] = "update"
    /\ pc' = [pc EXCEPT ![a] = "drain"]
    /\ UNCHANGED <<conns, sport, phone, deviceVars, channels, proxyVars, history>>

\* data_tx.send(WindowUpdate): waits for room, fails when the task is gone.
SendUpdate(a) ==
    /\ pc[a] = "update"
    /\ \/ /\ task # "stopped" /\ Len(dataQ) < DataChannel
          /\ dataQ' = Append(dataQ, [kind |-> "WindowUpdate", sport |-> sport[a],
                                     by |-> a])
          /\ pc' = [pc EXCEPT ![a] = "drain"]
       \/ /\ task = "stopped"
          /\ pc' = [pc EXCEPT ![a] = "closing"]
          /\ UNCHANGED dataQ
    /\ UNCHANGED <<conns, usbRx, connectQ, sport, phone, deviceVars, proxyVars, history>>

\* notify.notified(), after the lock was released: from here on the proxy
\* hears notify_waiters(); a stored permit completes it at once.
Park(a) ==
    /\ pc[a] = "unlocked"
    /\ pc' = [pc EXCEPT ![a] = IF permit[a] THEN "woken" ELSE "parked"]
    /\ permit' = [permit EXCEPT ![a] = FALSE]
    /\ UNCHANGED <<conns, sport, held, delivered, phone, deviceVars, channels, history>>

Resume(a) ==
    /\ pc[a] = "woken"
    /\ pc' = [pc EXCEPT ![a] = "drain"]
    /\ UNCHANGED <<conns, sport, phone, deviceVars, channels, proxyVars, history>>

\* The select! reads data from the client and hands it to the device task.
ClientSends(a) ==
    /\ talked[a] < MaxTalk
    /\ pc[a] \in {"parked", "woken"}
    /\ talked' = [talked EXCEPT ![a] = @ + 1]
    /\ \/ /\ task # "stopped" /\ Len(dataQ) < DataChannel
          /\ dataQ' = Append(dataQ, [kind |-> "Data", sport |-> sport[a], by |-> a])
          /\ pc' = [pc EXCEPT ![a] = "drain"]
       \/ /\ task = "stopped"
          /\ pc' = [pc EXCEPT ![a] = "closing"]
          /\ UNCHANGED dataQ
    /\ UNCHANGED <<conns, usbRx, connectQ, sport, phone, deviceVars, proxyVars,
                   accepted, uplink>>

\* The select! reads end-of-file or an error from the client.
ClientCloses(a) ==
    /\ "clientGone" \in Faults
    /\ pc[a] \in {"parked", "woken"}
    /\ pc' = [pc EXCEPT ![a] = "closing"]
    /\ UNCHANGED <<conns, sport, phone, deviceVars, channels, proxyVars, history>>

\* proxy_connection removes the entry under its port; nothing is sent.
ProxyEnd(a) ==
    /\ pc[a] = "closing"
    /\ conns' = IF present THEN [conns EXCEPT ![sport[a]] = NoConn] ELSE conns
    /\ pc' = [pc EXCEPT ![a] = "done"]
    /\ UNCHANGED <<sport, phone, deviceVars, channels, proxyVars, history>>
-----------------------------------------------------------------------------
(* The device task: a select! over the frames from the phone, the messages *)
(* of the proxies and the connect requests.                                *)

\* The connections a frame may be applied to: the exact port pair, else the
\* loose match, in which any hit of the HashMap's order is taken.
Matches(f) ==
    LET exact == {p \in Live : p = f.to /\ conns[p].dport = f.from}
        loose == {p \in Live : p = f.from \/ conns[p].dport = f.from}
    IN  IF exact # {} THEN exact ELSE loose

ScaledWindow(free) == (free \div WindowUnit) * WindowUnit
FreeBuffer(c) == MaxConnBuffer - Len(c.ib)

\* notify_waiters(): wakes a proxy that is waiting now, and no other.
NotifyWaiters(a) == pc' = [pc EXCEPT ![a] = IF @ = "parked" THEN "woken" ELSE @]

\* SYN+ACK: Connected from any state, and an ACK with the largest window.
OnSynAck(p, f, ok) ==
    /\ f.kind = "SynAck"
    /\ conns' = [conns EXCEPT ![p].state = "Connected", ![p].ack = f.seq]
    /\ PhoneAcked(p, conns[p].dport, f.seq, SynAckWindow, ok)
    /\ UNCHANGED <<pc, accepted>>

\* RST or FIN: the state changes, nobody is notified.
OnClose(p, f) ==
    /\ f.kind \in {"Rst", "Fin"}
    /\ conns' = [conns EXCEPT ![p].state = IF f.kind = "Rst" THEN "Dead"
                                           ELSE "CloseWait"]
    /\ UNCHANGED <<pc, accepted, phone>>

\* Mutant: the cap is compared with what is buffered already.
Overflow1(p) == Len(conns[p].ib) > MaxConnBuffer

Overflows(p) == Len(conns[p].ib) + 1 > MaxConnBuffer

\* Payload: dropped without an ACK above the cap; else buffered and ACKed with
\* the sequence number that follows it and the remaining window.
OnData(p, f, ok) ==
    LET c == conns[p]
        byte == [from |-> f.by, n |-> f.seq]
    IN  /\ f.kind = "Data"
        /\ IF Overflows(p)
           THEN UNCHANGED <<conns, pc, accepted, phone>>
           ELSE /\ conns' = [conns EXCEPT ![p].ib = Append(@, byte),
                                          ![p].ack = f.seq + 1]
                /\ accepted' = [accepted EXCEPT ![c.owner] = Append(@, byte)]
                /\ PhoneAcked(p, c.dport, f.seq + 1,
                              ScaledWindow(FreeBuffer(c) - 1), ok)
                /\ NotifyWaiters(c.owner)

\* process_device_packet with handle_tcp_packet, for a TCP frame.
HandlePacket ==
    /\ task = "running"
    /\ usbRx # <<>>
    /\ usbRx' = Tail(usbRx)
    /\ LET f == Head(usbRx) IN
        IF present /\ Matches(f) # {}
        THEN \E p \in Matches(f), ok \in SendResults :
                \/ OnSynAck(p, f, ok)
                \/ OnClose(p, f)
                \/ OnData(p, f, ok)
        ELSE UNCHANGED <<conns, pc, accepted, phone>>
    /\ UNCHANGED <<sport, dataQ, connectQ, uplink, talked, deviceVars, proxyVars>>

\* send_client_data: only while Connected.  The copy of the bytes it keeps in
\* ob_buf is never read.
SendClientData(m, ok) ==
    LET c == conns[m.sport] IN
    /\ m.kind = "Data"
    /\ IF present /\ m.sport \in Live /\ c.state = "Connected" /\ ok /\ readerUp
       THEN /\ PhoneAcked(m.sport, c.dport, c.ack, InitialWindow, ok)
            /\ uplink' = uplink \cup {<<phone[<<m.sport, c.dport>>].for, m.by>>}
       ELSE UNCHANGED <<phone, uplink>>

\* send_window_update: while is_active().
SendWindowUpdate(m, ok) ==
    LET c == conns[m.sport] IN
    /\ m.kind = "WindowUpdate"
    /\ IF present /\ m.sport \in Live /\ c.state \in {"Connected", "CloseWait"}
       THEN PhoneAcked(m.sport, c.dport, c.ack, ScaledWindow(FreeBuffer(c)), ok)
       ELSE UNCHANGED phone
    /\ UNCHANGED uplink

HandleOut ==
    /\ task = "running"
    /\ dataQ # <<>>
    /\ dataQ' = Tail(dataQ)
    /\ \E ok \in SendResults :
        \/ SendClientData(Head(dataQ), ok)
        \/ SendWindowUpdate(Head(dataQ), ok)
    /\ UNCHANGED <<conns, pc, sport, usbRx, connectQ, deviceVars, proxyVars,
                   accepted, talked>>

\* A connect request is taken off the channel and its handler spawned.
HandleConnect ==
    /\ task = "running"
    /\ connectQ # <<>>
    /\ connectQ' = Tail(connectQ)
    /\ pc' = [pc EXCEPT ![Head(connectQ)] = "spawned"]
    /\ UNCHANGED <<conns, sport, phone, usbRx, dataQ, deviceVars, proxyVars,
                   history>>
-----------------------------------------------------------------------------
(* Teardown: USB disconnect, and the scanner's detach.                     *)

\* The attempts after a cleanup: the owners of connections that wait wake up.
Owners == IF present THEN {conns[p].owner : p \in Live} ELSE {}
Woken == [a \in Attempt |-> IF a \in Owners /\ pc[a] = "parked"
                            THEN "woken" ELSE pc[a]]
ConnsDead == [p \in Port |-> IF present /\ p \in Live
                             THEN [conns[p] EXCEPT !.state = "Dead"] ELSE conns[p]]

\* Mutant: notify_waiters() in place of notify_one(), which leaves no permit.
NoPermits == permit

\* notify_one(): a Notify nobody waits on stores a permit.
Permits == [a \in Attempt |-> permit[a] \/ (a \in Owners /\ pc[a] # "parked")]

\* The USB channel is closed and empty: cleanup_device_connections.
DisconnectCleanup ==
    /\ task = "running"
    /\ ~readerUp /\ usbRx = <<>>
    /\ conns' = ConnsDead
    /\ pc' = Woken
    /\ permit' = Permits
    /\ task' = "cleaned"
    /\ UNCHANGED <<sport, phone, removal, managed, readerUp, channels, held,
                   delivered, history>>

\* handle_usb_disconnect drops the ManagedDevice.
DisconnectUnmanage ==
    /\ task = "cleaned"
    /\ managed' = FALSE
    /\ task' = "unmanaged"
    /\ UNCHANGED <<conns, pc, sport, phone, removal, readerUp, channels,
                   proxyVars, history>>

\* Requests still queued when the task ends: their oneshot is dropped.
Abandoned(pcs) ==
    [a \in Attempt |-> IF pcs[a] = "queued" THEN "failed" ELSE pcs[a]]

\* After the loop the task cleans up once more and ends.
DisconnectStop ==
    /\ task = "unmanaged"
    /\ conns' = ConnsDead
    /\ pc' = Abandoned(Woken)
    /\ permit' = Permits
    /\ task' = "stopped"
    /\ dataQ' = <<>> /\ connectQ' = <<>>
    /\ UNCHANGED <<sport, phone, removal, managed, readerUp, usbRx, held,
                   delivered, history>>

Proxying == {"start", "drain", "writing", "update", "unlocked", "parked", "woken"}

\* remove_device: the scanner has declared the phone detached.  The manager's
\* entry goes first ...
RemoveManaged ==
    /\ "detach" \in Faults
    /\ removal = "none"
    /\ removal' = "begun"
    /\ managed' = FALSE
    /\ UNCHANGED <<conns, pc, sport, phone, task, readerUp, channels, proxyVars, history>>

\* ... then the connections, without a notification.
RemoveConns ==
    /\ removal = "begun"
    /\ removal' = "done"
    /\ conns' = [p \in Port |-> NoConn]
    /\ UNCHANGED <<managed, pc, sport, phone, task, readerUp, channels, proxyVars, history>>

\* connect_rx or data_rx is closed and empty: the task ends, no cleanup.
TaskOrphaned ==
    /\ task = "running"
    /\ ~managed
    /\ \/ connectQ = <<>>
       \/ dataQ = <<>> /\ \A a \in Attempt : pc[a] \notin Proxying \cup {"closing"}
    /\ task' = "stopped"
    /\ pc' = Abandoned(pc)
    /\ dataQ' = <<>> /\ connectQ' = <<>>
    /\ UNCHANGED <<conns, sport, phone, removal, managed, readerUp, usbRx,
                   proxyVars, history>>
-----------------------------------------------------------------------------
Init ==
    /\ conns = [p \in Port |-> NoConn]
    /\ removal = "none" /\ managed = TRUE
    /\ task = "running" /\ readerUp = TRUE
    /\ usbRx = <<>> /\ dataQ = <<>> /\ connectQ = <<>>
    /\ pc = [a \in Attempt |-> "idle"]
    /\ sport = [a \in Attempt |-> 0]
    /\ held = [a \in Attempt |-> <<>>]
    /\ permit = [a \in Attempt |-> FALSE]
    /\ delivered = [a \in Attempt |-> <<>>]
    /\ accepted = [a \in Attempt |-> <<>>]
    /\ uplink = {}
    /\ talked = [a \in Attempt |-> 0]
    /\ phone = [k \in Port \X DPort |->
                    [for |-> NoConn, st |-> "none", sent |-> 0, acked |-> 0,
                     win |-> 0]]

Phone == \E k \in Port \X DPort :
            PhoneAnswersSyn(k) \/ PhoneSendsData(k) \/ PhoneCloses(k)

\* What the host does by itself for one attempt.
ConnectStep(a) ==
    \/ StartConnect(a) \/ SendSyn(a) \/ PollConnect(a) \/ ConnectTimeout(a)
    \/ AnswerClient(a)
ProxyStep(a) ==
    \/ ProxyStart(a) \/ Drain(a) \/ WriteClient(a) \/ SendUpdate(a)
    \/ Park(a) \/ Resume(a) \/ ProxyEnd(a)
ClientStep(a) == RequestConnect(a) \/ ClientSends(a) \/ ClientCloses(a)

TaskStep ==
    \/ HandlePacket \/ HandleOut \/ HandleConnect
    \/ DisconnectCleanup \/ DisconnectUnmanage \/ DisconnectStop
    \/ TaskOrphaned

Next ==
    \/ \E a \in Attempt : ConnectStep(a) \/ ProxyStep(a) \/ ClientStep(a)
    \/ TaskStep
    \/ Phone
    \/ UsbGone
    \/ RemoveManaged \/ RemoveConns

Spec == Init /\ [][Next]_vars

\* The runtime schedules every ready task; select! picks its ready branches
\* at random, so none of them starves.  Clients and phone promise nothing,
\* except that a client's socket takes the bytes written to it or fails.
Fairness ==
    /\ \A a \in Attempt :
        /\ WF_vars(StartConnect(a)) /\ WF_vars(SendSyn(a))
        /\ WF_vars(PollConnect(a) \/ ConnectTimeout(a))
        /\ WF_vars(AnswerClient(a))
        /\ WF_vars(ProxyStep(a))
    /\ WF_vars(HandlePacket) /\ WF_vars(HandleOut) /\ WF_vars(HandleConnect)
    /\ WF_vars(DisconnectCleanup) /\ WF_vars(DisconnectUnmanage)
    /\ WF_vars(DisconnectStop) /\ WF_vars(TaskOrphaned)
    /\ WF_vars(RemoveConns)

FairSpec == Spec /\ Fairness
-----------------------------------------------------------------------------
\* Types of the connection table, the task and the attempts; the channels
\* between them never hold more than their capacity.
MuxTypeOK ==
    /\ conns \in [Port -> Conn \cup {NoConn}]
    /\ removal \in {"none", "begun", "done"}
    /\ managed \in BOOLEAN /\ readerUp \in BOOLEAN
    /\ task \in TaskState
    /\ usbRx \in Seq(Frame) /\ Len(usbRx) <= DataChannel
    /\ dataQ \in Seq(OutMsg) /\ Len(dataQ) <= DataChannel
    /\ connectQ \in Seq(Attempt) /\ Len(connectQ) <= ConnectChannel
    /\ pc \in [Attempt -> PC]
    /\ sport \in [Attempt -> Port \cup {0}]
    /\ held \in [Attempt -> Seq(Byte)]
    /\ permit \in [Attempt -> BOOLEAN]
    /\ delivered \in [Attempt -> Seq(Byte)]
    /\ accepted \in [Attempt -> Seq(Byte)]
    /\ uplink \subseteq (Attempt \cup {NoConn}) \X Attempt
    /\ talked \in [Attempt -> 0..MaxTalk]
    /\ phone \in [Port \X DPort -> Session]

Owning == {"syn", "waiting", "answered", "closing"} \cup Proxying

\* From start_connect until its proxy has ended, the entry under an attempt's
\* source port is the attempt's own: two connects never share a port, and
\* proxy_connection, which removes whatever is under the port, never removes
\* another client's connection.
OwnPort ==
    \A a \in Attempt :
        pc[a] \in Owning /\ HasConn(a) => conns[sport[a]].owner = a

\* No connection buffers more than max_conn_buffer, whatever the phone sends.
BufferCap == \A p \in Live : Len(conns[p].ib) <= MaxConnBuffer

\* Every byte the daemon accepted for a connection is with the client, in
\* the proxy's hands or in ib_buf: none is lost, doubled or reordered by the
\* device task appending while the proxy drains.
NoByteLostInRelay ==
    \A a \in Attempt :
        pc[a] \in Owning \ {"closing"} /\ HasConn(a) =>
            delivered[a] \o held[a] \o conns[sport[a]].ib = accepted[a]

\* The relay is a pipe for every client: through connects, drains, failing
\* writes, closes, timeouts and the removal of the table under a running proxy,
\* what a client has received is the beginning of what was accepted for it, no
\* step delivers to another client, and a proxy that has ended stays ended.
Pipe == INSTANCE BytePipe
            WITH Client <- Attempt, Unit <- Byte, input <- accepted, output <- delivered,
                 ended <- {a \in Attempt : pc[a] \in {"closing", "done", "failed"}}
ImplementsPipe == Pipe!PSpec

\* When a proxy sleeps on an empty buffer and no message of it is pending, the
\* phone has been told an open window: draining always reopens it.
WindowReopened ==
    \A a \in Attempt :
        LET k == <<sport[a], conns[sport[a]].dport>> IN
        /\ pc[a] = "parked" /\ HasConn(a) /\ dataQ = <<>>
        /\ conns[sport[a]].state = "Connected" /\ conns[sport[a]].ib = <<>>
        /\ task = "running" /\ readerUp /\ phone[k].for = a
        => phone[k].win > 0

\* Every connect request is answered, whatever happens to the phone, to the
\* device's entry or to the device task meanwhile.
ConnectAnswered ==
    \A a \in Attempt :
        pc[a] \in {"queued", "spawned", "syn", "waiting"}
            ~> pc[a] \notin {"queued", "spawned", "syn", "waiting"}

\* After the phone is unplugged every proxy ends, also one that was between
\* releasing the lock and waiting when the cleanup notified it, unless the
\* scanner detaches the phone meanwhile.
DisconnectEndsProxies ==
    \A a \in Attempt :
        ~readerUp /\ pc[a] \in Proxying
            ~> pc[a] \in {"done", "failed"} \/ removal # "none"

\* (mux.rs:227) Bytes dropped because the buffer is full are not ACKed.
AckedMeansBuffered ==
    \A p \in Live : conns[p].ack <= Len(accepted[conns[p].owner])

\* (README.md, Tunnel) A client gets only what the phone sent on its own
\* connection, and what it sends reaches the phone on that connection.
OwnTrafficOnly ==
    /\ \A a \in Attempt : \A i \in DOMAIN delivered[a] : delivered[a][i].from = a
    /\ \A u \in uplink : u[1] = u[2]

\* (README.md, Tunnel and Features) A proxy does not sleep for ever while bytes
\* wait for its client, or after its connection has been reset, ended or removed.
ProxyWakes ==
    \A a \in Attempt :
        /\ pc[a] = "parked"
        /\ \/ ~HasConn(a)
           \/ conns[sport[a]].state # "Connected"
           \/ conns[sport[a]].ib # <<>>
        ~> pc[a] # "parked"
=============================================================================
