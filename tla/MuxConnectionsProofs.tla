------------------------ MODULE MuxConnectionsProofs ------------------------
(***************************************************************************)
(* Machine-checked proofs about MuxConnections, for every set of connect   *)
(* requests and ports, every capacity and every combination of faults.     *)
(***************************************************************************)
EXTENDS MuxConnections, SequenceTheorems, WellFoundedInduction, TLAPS

\* The parts of the inductive invariant.
DeviceOK ==
    /\ removal \in {"none", "begun", "done"}
    /\ managed \in BOOLEAN /\ readerUp \in BOOLEAN
    /\ task \in TaskState
ConnsOK ==
    /\ conns \in [Port -> Conn \cup {NoConn}]
    /\ \A p \in Live : Len(conns[p].ib) <= MaxConnBuffer
ChannelsOK ==
    /\ usbRx \in Seq(Frame) /\ Len(usbRx) <= DataChannel
    /\ dataQ \in Seq(OutMsg) /\ Len(dataQ) <= DataChannel
    /\ connectQ \in Seq(Attempt) /\ Len(connectQ) <= ConnectChannel
ProxyOK ==
    /\ held \in [Attempt -> Seq(Byte)]
    /\ permit \in [Attempt -> BOOLEAN]
    /\ delivered \in [Attempt -> Seq(Byte)]
HistoryOK ==
    /\ accepted \in [Attempt -> Seq(Byte)]
    /\ uplink \subseteq (Attempt \cup {NoConn}) \X Attempt
    /\ talked \in [Attempt -> 0..MaxTalk]
\* A session that is being opened or is open belongs to an attempt.
PhoneOK ==
    /\ phone \in [Port \X DPort -> Session]
    /\ \A k \in Port \X DPort : phone[k].st \in {"syn", "open"} => phone[k].for \in Attempt
\* An attempt that owns a port has its entry in the table as long as the table
\* has the device, and the entry is its own.
OwnOK ==
    /\ pc \in [Attempt -> PC]
    /\ sport \in [Attempt -> Port \cup {0}]
    /\ \A a \in Attempt : pc[a] \in Owning =>
        /\ sport[a] \in Port
        /\ present => conns[sport[a]] # NoConn /\ conns[sport[a]].owner = a

MuxInv == /\ DeviceOK /\ ConnsOK /\ ChannelsOK /\ ProxyOK /\ HistoryOK
          /\ PhoneOK /\ OwnOK

-----------------------------------------------------------------------------
\* When some port is free, the lowest free port exists and FreePort is free.
LEMMA FreePortFree ==
    ASSUME Port \ Live # {}
    PROVE  FreePort \in Port \ Live
  <1> DEFINE S == Port \ Live
             R == OpToRel(<, Nat)
  <1>1. S \subseteq Nat
    BY MuxConstants
  <1>2. \E x \in S : \A y \in S : ~(<<y, x>> \in R)
    BY <1>1, WFMin, NatLessThanWellFounded
  <1>3. \A x, y \in Nat : <<y, x>> \notin R => x <= y
    BY DEF OpToRel
  <1>4. \E x \in S : \A y \in S : x <= y
    BY <1>1, <1>2, <1>3
  <1> QED
    BY <1>4 DEF FreePort

\* The window advertised for an amount of free buffer is a natural number.
LEMMA WindowIsNat ==
    ASSUME NEW free \in Nat
    PROVE  ScaledWindow(free) \in Nat
  <1>1. WindowUnit \in Nat \ {0}
    BY MuxConstants
  <1>2. free \div WindowUnit \in Nat
    BY <1>1
  <1>3. \A x, y \in Nat : x * y \in Nat
    OBVIOUS
  <1> QED
    BY <1>1, <1>2, <1>3 DEF ScaledWindow

-----------------------------------------------------------------------------
\* Init establishes the invariant.
LEMMA InitEstablishes == Init => MuxInv
  <1> SUFFICES ASSUME Init PROVE MuxInv
    OBVIOUS
  <1> USE MuxConstants DEF Init
  <1>1. DeviceOK
    BY DEF DeviceOK, TaskState
  <1>2. ConnsOK
    BY DEF ConnsOK, Live
  <1>3. ChannelsOK
    BY DEF ChannelsOK
  <1>4. ProxyOK
    BY DEF ProxyOK
  <1>5. HistoryOK
    BY DEF HistoryOK
  <1>6. PhoneOK
    BY DEF PhoneOK, Session
  <1>7. OwnOK
    BY DEF OwnOK, PC, Owning, Proxying
  <1> QED
    BY <1>1, <1>2, <1>3, <1>4, <1>5, <1>6, <1>7 DEF MuxInv
-----------------------------------------------------------------------------
\* A part of the invariant survives a step that leaves its variables alone.
LEMMA FrameFacts ==
    ASSUME MuxInv
    PROVE  /\ UNCHANGED deviceVars => DeviceOK'
           /\ UNCHANGED conns => ConnsOK'
           /\ UNCHANGED channels => ChannelsOK'
           /\ UNCHANGED proxyVars => ProxyOK'
           /\ UNCHANGED history => HistoryOK'
           /\ UNCHANGED phone => PhoneOK'
           /\ UNCHANGED <<pc, sport, conns, removal>> => OwnOK'
  <1>1. UNCHANGED deviceVars => DeviceOK'
    BY DEF MuxInv, DeviceOK, deviceVars
  <1>2. UNCHANGED conns => ConnsOK'
    BY DEF MuxInv, ConnsOK, Live
  <1>3. UNCHANGED channels => ChannelsOK'
    BY DEF MuxInv, ChannelsOK, channels
  <1>4. UNCHANGED proxyVars => ProxyOK'
    BY DEF MuxInv, ProxyOK, proxyVars
  <1>5. UNCHANGED history => HistoryOK'
    BY DEF MuxInv, HistoryOK, history
  <1>6. UNCHANGED phone => PhoneOK'
    BY DEF MuxInv, PhoneOK
  <1>7. UNCHANGED <<pc, sport, conns, removal>> => OwnOK'
    BY DEF MuxInv, OwnOK, present
  <1> QED
    BY <1>1, <1>2, <1>3, <1>4, <1>5, <1>6, <1>7

\* A step that gives no port away and takes no entry out keeps ownership.
LEMMA OwnershipKept ==
    ASSUME MuxInv,
           UNCHANGED <<sport, removal>>,
           pc' \in [Attempt -> PC],
           \A a \in Attempt : pc'[a] \in Owning => pc[a] \in Owning,
           \A p \in Port : conns[p] # NoConn =>
                conns'[p] # NoConn /\ conns'[p].owner = conns[p].owner
    PROVE  OwnOK'
  BY DEF MuxInv, OwnOK, present

\* An entry of the table is a connection.
LEMMA LiveIsConn ==
    ASSUME MuxInv, NEW p \in Live
    PROVE  p \in Port /\ conns[p] \in Conn /\ Len(conns[p].ib) <= MaxConnBuffer
  BY DEF MuxInv, ConnsOK, Live

\* Taking in an ACK keeps the phone's sessions well formed.
LEMMA PhoneAckedOK ==
    ASSUME MuxInv, NEW p \in Port, NEW d \in DPort, NEW ack \in Nat,
           NEW win \in Nat, NEW ok \in BOOLEAN, PhoneAcked(p, d, ack, win, ok)
    PROVE  PhoneOK'
  <1> DEFINE k == <<p, d>>
  <1>1. k \in Port \X DPort
    OBVIOUS
  <1>2. phone \in [Port \X DPort -> Session]
    BY DEF MuxInv, PhoneOK
  <1>3. CASE phone' = phone
    BY <1>3, FrameFacts
  <1>4. CASE phone' = [phone EXCEPT ![k].acked = IF ack > @ THEN ack ELSE @,
                                    ![k].win = win]
    <2> DEFINE new == [phone[k] EXCEPT !.acked = IF ack > @ THEN ack ELSE @,
                                       !.win = win]
    <2>1. phone[k] \in Session
      BY <1>1, <1>2
    <2>2. new \in Session /\ new.st = phone[k].st /\ new.for = phone[k].for
      BY <2>1 DEF Session
    <2>3. phone' = [phone EXCEPT ![k] = new]
      BY <1>1, <1>2, <1>4
    <2> HIDE DEF new
    <2>4. phone' \in [Port \X DPort -> Session]
      BY <1>1, <1>2, <2>2, <2>3
    <2>5. \A j \in Port \X DPort : phone'[j].st = phone[j].st /\ phone'[j].for = phone[j].for
      BY <1>1, <1>2, <2>2, <2>3
    <2> QED
      BY <2>4, <2>5 DEF MuxInv, PhoneOK
  <1> QED
    BY <1>3, <1>4 DEF PhoneAcked
-----------------------------------------------------------------------------
\* The phone's steps and the end of the USB reader.
LEMMA PhoneSendsOK ==
    ASSUME MuxInv, NEW kind \in {"SynAck", "Rst", "Fin", "Data"},
           NEW k \in Port \X DPort, phone[k].for \in Attempt, PhoneSends(kind, k)
    PROVE  DeviceOK' /\ ConnsOK' /\ ChannelsOK' /\ ProxyOK' /\ HistoryOK' /\ OwnOK'
  <1>1. PhoneFrame(kind, k) \in Frame
    BY DEF MuxInv, PhoneOK, Session, PhoneFrame, Frame
  <1>2. ChannelsOK'
    BY <1>1, MuxConstants DEF MuxInv, ChannelsOK, PhoneSends
  <1> QED
    BY <1>2, FrameFacts DEF PhoneSends, deviceVars

\* Whatever the phone sends.
LEMMA PhonePreserves ==
    ASSUME MuxInv, Phone
    PROVE  MuxInv'
  <1>1. PICK k \in Port \X DPort :
            PhoneAnswersSyn(k) \/ PhoneSendsData(k) \/ PhoneCloses(k)
    BY DEF Phone
  <1>2. phone \in [Port \X DPort -> Session] /\ phone[k] \in Session
    BY DEF MuxInv, PhoneOK
  <1>3. /\ phone[k].for \in Attempt
        /\ \E kind \in {"SynAck", "Rst", "Fin", "Data"} : PhoneSends(kind, k)
    BY <1>1 DEF MuxInv, PhoneOK, PhoneAnswersSyn, PhoneSendsData, PhoneCloses
  <1>4. PhoneOK'
    <2>1. CASE \E st \in {"open", "closed"} : phone' = [phone EXCEPT ![k].st = st]
      <3>1. PICK st \in {"open", "closed"} : phone' = [phone EXCEPT ![k].st = st]
        BY <2>1
      <3>2. [phone[k] EXCEPT !.st = st] \in Session
        BY <1>2 DEF Session
      <3> QED
        BY <1>2, <1>3, <3>1, <3>2 DEF MuxInv, PhoneOK, Session
    <2>2. CASE phone' = [phone EXCEPT ![k].sent = @ + 1]
      <3>1. [phone[k] EXCEPT !.sent = @ + 1] \in Session
        BY <1>2 DEF Session
      <3> QED
        BY <1>2, <1>3, <2>2, <3>1 DEF MuxInv, PhoneOK, Session
    <2> QED
      BY <1>1, <2>1, <2>2 DEF PhoneAnswersSyn, PhoneSendsData, PhoneCloses
  <1> QED
    BY <1>3, <1>4, PhoneSendsOK DEF MuxInv

\* The reader stops; nothing else changes.
LEMMA UsbGonePreserves ==
    ASSUME MuxInv, UsbGone
    PROVE  MuxInv'
  <1>1. DeviceOK'
    BY DEF MuxInv, DeviceOK, UsbGone
  <1> QED
    BY <1>1, FrameFacts DEF MuxInv, UsbGone

-----------------------------------------------------------------------------
\* The steps of a connect request.
LEMMA RequestConnectPreserves ==
    ASSUME MuxInv, NEW a \in Attempt, RequestConnect(a)
    PROVE  MuxInv'
  <1>1. ChannelsOK'
    <2>1. UNCHANGED <<usbRx, dataQ>>
      BY DEF RequestConnect
    <2>2. \/ connectQ' = Append(connectQ, a) /\ Len(connectQ) < ConnectChannel
          \/ connectQ' = connectQ
      BY Zenon DEF RequestConnect
    <2>3. connectQ \in Seq(Attempt) /\ Len(connectQ) <= ConnectChannel
      BY DEF MuxInv, ChannelsOK
    <2>4. connectQ' \in Seq(Attempt) /\ Len(connectQ') <= ConnectChannel
      BY <2>2, <2>3, MuxConstants
    <2> QED
      BY <2>1, <2>4 DEF MuxInv, ChannelsOK
  <1>2. OwnOK'
    BY OwnershipKept DEF MuxInv, OwnOK, RequestConnect, deviceVars, PC, Owning, Proxying
  <1> QED
    BY <1>1, <1>2, FrameFacts DEF MuxInv, RequestConnect

\* The new entry takes a port that nobody owns.
LEMMA StartConnectPreserves ==
    ASSUME MuxInv, NEW a \in Attempt, StartConnect(a)
    PROVE  MuxInv'
  <1>1. CASE present /\ Port \ Live # {}
    <2>1. FreePort \in Port /\ FreePort \notin Live
      BY <1>1, FreePortFree
    <2>2. PICK d \in DPort : conns' = [conns EXCEPT ![FreePort] = NewConn(a, d)]
      BY <1>1 DEF StartConnect
    <2>3. /\ NewConn(a, d) \in Conn /\ NewConn(a, d) # NoConn
          /\ NewConn(a, d).owner = a /\ NewConn(a, d).ib = <<>>
      <3>1. NewConn(a, d) \in Conn
        BY DEF NewConn, Conn, ConnState
      <3> QED
        BY <3>1, NoConnIsNoRecord DEF NewConn
    <2>4. ConnsOK'
      BY <2>1, <2>2, <2>3, MuxConstants DEF MuxInv, ConnsOK, Live
    <2>5. OwnOK'
      <3>1. /\ pc' = [pc EXCEPT ![a] = "syn"]
            /\ sport' = [sport EXCEPT ![a] = FreePort]
            /\ removal' = removal
        BY <1>1 DEF StartConnect, deviceVars
      <3>2. \A b \in Attempt \ {a} : pc[b] \in Owning /\ present => sport[b] # FreePort
        BY <2>1 DEF MuxInv, OwnOK, Live
      <3>3. conns \in [Port -> Conn \cup {NoConn}]
        BY DEF MuxInv, ConnsOK
      <3> QED
        BY <2>1, <2>2, <2>3, <3>1, <3>2, <3>3 DEF MuxInv, OwnOK, PC, present
    <2> QED
      BY <2>4, <2>5, FrameFacts DEF MuxInv, StartConnect
  <1>2. CASE ~(present /\ Port \ Live # {})
    <2>1. OwnOK'
      BY <1>2, OwnershipKept DEF MuxInv, OwnOK, StartConnect, deviceVars, PC, Owning, Proxying
    <2> QED
      BY <1>2, <2>1, FrameFacts DEF MuxInv, StartConnect
  <1> QED
    BY <1>1, <1>2

\* The SYN opens a session for the attempt.
LEMMA SendSynPreserves ==
    ASSUME MuxInv, NEW a \in Attempt, SendSyn(a)
    PROVE  MuxInv'
  <1>1. OwnOK'
    BY OwnershipKept DEF MuxInv, OwnOK, SendSyn, deviceVars, PC, Owning, Proxying
  <1>2. PhoneOK'
    <2>1. CASE phone' = phone
      BY <2>1, FrameFacts
    <2>2. CASE phone' # phone
      <3>1. sport[a] \in Live
        BY <2>2 DEF SendSyn, HasConn
      <3>2. <<sport[a], conns[sport[a]].dport>> \in Port \X DPort
        BY <3>1, LiveIsConn DEF Conn
      <3>3. [for |-> a, st |-> "syn", sent |-> 0, acked |-> 0,
             win |-> InitialWindow] \in Session
        BY MuxConstants DEF Session
      <3>4. phone' = [phone EXCEPT ![<<sport[a], conns[sport[a]].dport>>] =
                        [for |-> a, st |-> "syn", sent |-> 0, acked |-> 0,
                         win |-> InitialWindow]]
        BY <2>2 DEF SendSyn
      <3> QED
        BY <3>2, <3>3, <3>4 DEF MuxInv, PhoneOK
    <2> QED
      BY <2>1, <2>2
  <1> QED
    BY <1>1, <1>2, FrameFacts DEF MuxInv, SendSyn

\* The steps of a connect handler.
LEMMA ConnectPreserves ==
    ASSUME MuxInv, NEW a \in Attempt, ConnectStep(a)
    PROVE  MuxInv'
  <1>1. CASE PollConnect(a) \/ ConnectTimeout(a) \/ AnswerClient(a)
    <2>1. OwnOK'
      BY <1>1, OwnershipKept DEF MuxInv, OwnOK, PollConnect, ConnectTimeout,
            AnswerClient, deviceVars, PC, Owning, Proxying
    <2> QED
      BY <1>1, <2>1, FrameFacts DEF MuxInv, PollConnect, ConnectTimeout, AnswerClient
  <1> QED
    BY <1>1, StartConnectPreserves, SendSynPreserves DEF ConnectStep
-----------------------------------------------------------------------------
\* The steps of a proxy.
LEMMA DrainPreserves ==
    ASSUME MuxInv, NEW a \in Attempt, Drain(a)
    PROVE  MuxInv'
  <1>1. CASE HasConn(a) /\ conns[sport[a]].state = "Connected"
    <2> DEFINE p == sport[a]
               new == [conns[p] EXCEPT !.ib = <<>>]
    <2>1. p \in Live /\ p \in Port /\ conns[p] \in Conn
      BY <1>1, LiveIsConn DEF HasConn
    <2>2. /\ conns' = [conns EXCEPT ![p].ib = <<>>]
          /\ held' = [held EXCEPT ![a] = conns[p].ib]
      BY <1>1 DEF Drain
    <2>3. conns' = [conns EXCEPT ![p] = new]
      BY <2>2
    <2>4. new \in Conn /\ new.ib = <<>> /\ new.owner = conns[p].owner
      <3> DEFINE empty == <<>>
      <3>1. empty \in Seq(Byte)
        OBVIOUS
      <3>2. new = [conns[p] EXCEPT !.ib = empty]
        OBVIOUS
      <3> HIDE DEF empty, new
      <3>3. new \in Conn /\ new.ib = empty /\ new.owner = conns[p].owner
        BY <2>1, <3>1, <3>2 DEF Conn
      <3> QED
        BY <3>3 DEF empty
    <2>5. new # NoConn
      BY <2>4, NoConnIsNoRecord
    <2> HIDE DEF new
    <2>6. ConnsOK'
      BY <2>1, <2>3, <2>4, MuxConstants DEF MuxInv, ConnsOK, Live
    <2>7. conns[p].ib \in Seq(Byte)
      BY <2>1 DEF Conn
    <2>8. ProxyOK'
      BY <2>2, <2>7 DEF MuxInv, ProxyOK, Drain
    <2>9. \A q \in Port : conns[q] # NoConn =>
              conns'[q] # NoConn /\ conns'[q].owner = conns[q].owner
      BY <2>1, <2>3, <2>4, <2>5 DEF MuxInv, ConnsOK
    <2>10. OwnOK'
      BY <2>9, OwnershipKept DEF MuxInv, OwnOK, Drain, deviceVars, PC, Owning, Proxying
    <2> QED
      BY <2>6, <2>8, <2>10, FrameFacts DEF MuxInv, Drain
  <1>2. CASE ~(HasConn(a) /\ conns[sport[a]].state = "Connected")
    <2>1. UNCHANGED <<conns, proxyVars>>
      BY <1>2 DEF Drain, proxyVars
    <2>2. OwnOK'
      BY <1>2, <2>1, OwnershipKept DEF MuxInv, OwnOK, Drain, deviceVars, PC, Owning, Proxying
    <2> QED
      BY <2>1, <2>2, FrameFacts DEF MuxInv, Drain
  <1> QED
    BY <1>1, <1>2

\* The drained bytes are written.
LEMMA WriteClientPreserves ==
    ASSUME MuxInv, NEW a \in Attempt, WriteClient(a)
    PROVE  MuxInv'
  <1>1. ProxyOK'
    <2>1. held[a] \in Seq(Byte) /\ delivered[a] \in Seq(Byte)
      BY DEF MuxInv, ProxyOK
    <2>2. delivered[a] \o held[a] \in Seq(Byte)
      BY <2>1
    <2>3. permit' \in [Attempt -> BOOLEAN]
      BY DEF MuxInv, ProxyOK, WriteClient
    <2>4. held' \in [Attempt -> Seq(Byte)]
      BY DEF MuxInv, ProxyOK, WriteClient
    <2>5. delivered' \in [Attempt -> Seq(Byte)]
      BY <2>2 DEF MuxInv, ProxyOK, WriteClient
    <2> QED
      BY <2>3, <2>4, <2>5 DEF ProxyOK
  <1>2. OwnOK'
    BY OwnershipKept DEF MuxInv, OwnOK, WriteClient, deviceVars, PC, Owning, Proxying
  <1> QED
    BY <1>1, <1>2, FrameFacts DEF MuxInv, WriteClient

\* A proxy's message into the data channel keeps the channels well formed.
LEMMA MessageOK ==
    ASSUME MuxInv, NEW a \in Attempt, NEW kind \in {"Data", "WindowUpdate"},
           pc[a] \in Owning, Len(dataQ) < DataChannel,
           dataQ' = Append(dataQ, [kind |-> kind, sport |-> sport[a], by |-> a]),
           UNCHANGED <<usbRx, connectQ>>
    PROVE  ChannelsOK'
  <1>1. [kind |-> kind, sport |-> sport[a], by |-> a] \in OutMsg
    BY DEF MuxInv, OwnOK, OutMsg
  <1> QED
    BY <1>1, MuxConstants DEF MuxInv, ChannelsOK

\* The window update goes into the channel.
LEMMA SendUpdatePreserves ==
    ASSUME MuxInv, NEW a \in Attempt, SendUpdate(a)
    PROVE  MuxInv'
  <1>1. pc[a] \in Owning
    BY DEF SendUpdate, Owning, Proxying
  <1>2. ChannelsOK'
    <2>1. CASE dataQ' = dataQ
      BY <2>1, FrameFacts DEF SendUpdate, channels
    <2> QED
      BY <1>1, <2>1, MessageOK DEF SendUpdate
  <1>3. OwnOK'
    BY <1>1, OwnershipKept DEF MuxInv, OwnOK, SendUpdate, deviceVars, PC
  <1> QED
    BY <1>2, <1>3, FrameFacts DEF MuxInv, SendUpdate

\* The proxy goes to sleep, or takes the stored permit.
LEMMA ParkPreserves ==
    ASSUME MuxInv, NEW a \in Attempt, Park(a)
    PROVE  MuxInv'
  <1>1. ProxyOK'
    BY DEF MuxInv, ProxyOK, Park
  <1>2. pc' \in [Attempt -> PC]
    BY DEF MuxInv, OwnOK, Park, PC
  <1>3. \A b \in Attempt : pc'[b] \in Owning => pc[b] \in Owning
    BY DEF MuxInv, OwnOK, Park, Owning, Proxying
  <1>4. OwnOK'
    BY <1>2, <1>3, OwnershipKept DEF Park, deviceVars
  <1> QED
    BY <1>1, <1>4, FrameFacts DEF MuxInv, Park

\* The proxy removes an entry that is its own.
LEMMA ProxyEndPreserves ==
    ASSUME MuxInv, NEW a \in Attempt, ProxyEnd(a)
    PROVE  MuxInv'
  <1>1. sport[a] \in Port /\ (present => conns[sport[a]].owner = a)
    BY DEF MuxInv, OwnOK, ProxyEnd, Owning
  <1>2. ConnsOK'
    BY <1>1 DEF MuxInv, ConnsOK, ProxyEnd, Live
  <1>3. OwnOK'
    <2>1. /\ pc' = [pc EXCEPT ![a] = "done"]
          /\ UNCHANGED <<sport, removal>>
      BY DEF ProxyEnd, deviceVars
    <2>2. \A b \in Attempt \ {a} : pc[b] \in Owning /\ present => sport[b] # sport[a]
      BY <1>1 DEF MuxInv, OwnOK
    <2>3. \A p \in Port \ {sport[a]} : conns'[p] = conns[p]
      BY <1>1 DEF MuxInv, ConnsOK, ProxyEnd
    <2>4. "done" \in PC /\ "done" \notin Owning
      BY DEF PC, Owning, Proxying
    <2> QED
      BY <2>1, <2>2, <2>3, <2>4 DEF MuxInv, OwnOK, present
  <1> QED
    BY <1>2, <1>3, FrameFacts DEF MuxInv, ProxyEnd

\* The steps of a proxy.
LEMMA ProxyPreserves ==
    ASSUME MuxInv, NEW a \in Attempt, ProxyStep(a)
    PROVE  MuxInv'
  <1>1. CASE ProxyStart(a) \/ Resume(a)
    <2>1. OwnOK'
      BY <1>1, OwnershipKept DEF MuxInv, OwnOK, ProxyStart, Resume, deviceVars,
            PC, Owning, Proxying
    <2> QED
      BY <1>1, <2>1, FrameFacts DEF MuxInv, ProxyStart, Resume
  <1> QED
    BY <1>1, DrainPreserves, WriteClientPreserves, SendUpdatePreserves,
       ParkPreserves, ProxyEndPreserves DEF ProxyStep

\* The steps of a client.
LEMMA ClientPreserves ==
    ASSUME MuxInv, NEW a \in Attempt, ClientStep(a)
    PROVE  MuxInv'
  <1>1. CASE ClientSends(a)
    <2>1. pc[a] \in Owning
      BY <1>1 DEF ClientSends, Owning, Proxying
    <2>2. ChannelsOK'
      <3>1. CASE dataQ' = dataQ
        BY <1>1, <3>1, FrameFacts DEF ClientSends, channels
      <3> QED
        BY <1>1, <2>1, <3>1, MessageOK DEF ClientSends
    <2>3. OwnOK'
      BY <1>1, <2>1, OwnershipKept DEF MuxInv, OwnOK, ClientSends, deviceVars, PC
    <2>4. HistoryOK'
      BY <1>1, MuxConstants DEF MuxInv, HistoryOK, ClientSends
    <2> QED
      BY <1>1, <2>2, <2>3, <2>4, FrameFacts DEF MuxInv, ClientSends
  <1>2. CASE ClientCloses(a)
    <2>1. OwnOK'
      BY <1>2, OwnershipKept DEF MuxInv, OwnOK, ClientCloses, deviceVars,
            PC, Owning, Proxying
    <2> QED
      BY <1>2, <2>1, FrameFacts DEF MuxInv, ClientCloses
  <1> QED
    BY <1>1, <1>2, RequestConnectPreserves DEF ClientStep
-----------------------------------------------------------------------------
\* The device task: a change of one entry that keeps its owner and its cap.
LEMMA EntryChange ==
    ASSUME MuxInv, NEW p \in Live, NEW new \in Conn,
           Len(new.ib) <= MaxConnBuffer, new.owner = conns[p].owner,
           conns' = [conns EXCEPT ![p] = new]
    PROVE  /\ ConnsOK'
           /\ \A q \in Port : conns[q] # NoConn =>
                conns'[q] # NoConn /\ conns'[q].owner = conns[q].owner
  <1>1. p \in Port /\ conns \in [Port -> Conn \cup {NoConn}] /\ new # NoConn
    BY LiveIsConn, NoConnIsNoRecord DEF MuxInv, ConnsOK
  <1> QED
    BY <1>1 DEF MuxInv, ConnsOK, Live

\* A frame from the phone, applied to the entry it matches.
LEMMA HandlePacketPreserves ==
    ASSUME MuxInv, HandlePacket
    PROVE  MuxInv'
  <1> DEFINE f == Head(usbRx)
  <1>1. f \in Frame /\ usbRx' \in Seq(Frame) /\ Len(usbRx') < Len(usbRx)
    BY DEF MuxInv, ChannelsOK, HandlePacket
  <1>2. ChannelsOK'
    BY <1>1, MuxConstants DEF MuxInv, ChannelsOK, HandlePacket
  <1>3. /\ UNCHANGED <<sport, removal, deviceVars, proxyVars, uplink, talked>>
        /\ f.seq \in Nat /\ f.seq + 1 \in Nat /\ f.by \in Attempt
    BY <1>1 DEF HandlePacket, Frame, deviceVars
  <1> HIDE DEF f
  <1>4. CASE UNCHANGED <<conns, pc, accepted, phone>>
    BY <1>2, <1>3, <1>4, FrameFacts DEF MuxInv, history
  <1>5. ASSUME NEW p \in Live, NEW ok \in BOOLEAN, OnSynAck(p, f, ok)
        PROVE  MuxInv'
    <2> DEFINE new == [conns[p] EXCEPT !.state = "Connected", !.ack = f.seq]
    <2>1. p \in Port /\ conns[p] \in Conn /\ Len(conns[p].ib) <= MaxConnBuffer
      BY LiveIsConn
    <2>2. conns' = [conns EXCEPT ![p] = new]
      BY <1>5, <2>1 DEF OnSynAck, MuxInv, ConnsOK
    <2>3. new \in Conn /\ new.ib = conns[p].ib /\ new.owner = conns[p].owner
      BY <1>3, <2>1 DEF Conn, ConnState
    <2> HIDE DEF new
    <2>4. ConnsOK' /\ \A q \in Port : conns[q] # NoConn =>
                conns'[q] # NoConn /\ conns'[q].owner = conns[q].owner
      BY <2>1, <2>2, <2>3, EntryChange
    <2>5. OwnOK'
      BY <1>3, <1>5, <2>4, OwnershipKept DEF OnSynAck, MuxInv, OwnOK
    <2>6. conns[p].dport \in DPort
      BY <2>1 DEF Conn
    <2>7. PhoneOK'
      BY <1>3, <1>5, <2>1, <2>6, PhoneAckedOK, MuxConstants DEF OnSynAck
    <2> QED
      BY <1>2, <1>3, <1>5, <2>4, <2>5, <2>7, FrameFacts DEF OnSynAck, MuxInv, history
  <1>6. ASSUME NEW p \in Live, OnClose(p, f)
        PROVE  MuxInv'
    <2> DEFINE st == IF f.kind = "Rst" THEN "Dead" ELSE "CloseWait"
               new == [conns[p] EXCEPT !.state = st]
    <2>1. p \in Port /\ conns[p] \in Conn /\ Len(conns[p].ib) <= MaxConnBuffer
      BY LiveIsConn
    <2>2. conns' = [conns EXCEPT ![p] = new]
      BY <1>6 DEF OnClose
    <2>3. st \in ConnState
      BY DEF ConnState
    <2> HIDE DEF st
    <2>4. new \in Conn /\ new.ib = conns[p].ib /\ new.owner = conns[p].owner
      BY <2>1, <2>3 DEF Conn
    <2> HIDE DEF new
    <2>5. ConnsOK' /\ \A q \in Port : conns[q] # NoConn =>
                conns'[q] # NoConn /\ conns'[q].owner = conns[q].owner
      BY <2>1, <2>2, <2>4, EntryChange
    <2>6. OwnOK'
      BY <1>3, <1>6, <2>5, OwnershipKept DEF OnClose, MuxInv, OwnOK
    <2> QED
      BY <1>2, <1>3, <1>6, <2>5, <2>6, FrameFacts DEF OnClose, MuxInv, history
  <1>7. ASSUME NEW p \in Live, NEW ok \in BOOLEAN, OnData(p, f, ok), ~Overflows(p)
        PROVE  MuxInv'
    <2> DEFINE c == conns[p]
               byte == [from |-> f.by, n |-> f.seq]
               more == Append(c.ib, byte)
               new == [c EXCEPT !.ib = more, !.ack = f.seq + 1]
    <2>1. p \in Port /\ c \in Conn /\ c.owner \in Attempt /\ c.dport \in DPort
          /\ c.ib \in Seq(Byte)
      BY LiveIsConn DEF Conn
    <2>2. byte \in Byte
      BY <1>3 DEF Byte
    <2>3. conns' = [conns EXCEPT ![p] = new]
      BY <1>7, <2>1 DEF OnData, MuxInv, ConnsOK
    <2>4. more \in Seq(Byte) /\ Len(more) = Len(c.ib) + 1 /\ Len(more) <= MaxConnBuffer
      BY <1>7, <2>1, <2>2, MuxConstants DEF Overflows
    <2>5. accepted' = [accepted EXCEPT ![c.owner] = Append(@, byte)]
      BY <1>7 DEF OnData
    <2>6. HistoryOK'
      BY <1>3, <2>1, <2>2, <2>5 DEF MuxInv, HistoryOK
    <2>7. PhoneOK'
      <3>1. FreeBuffer(c) - 1 \in Nat
        BY <2>1, <2>4, MuxConstants DEF FreeBuffer
      <3>2. ScaledWindow(FreeBuffer(c) - 1) \in Nat
        BY <3>1, WindowIsNat
      <3>3. PhoneAcked(p, c.dport, f.seq + 1, ScaledWindow(FreeBuffer(c) - 1), ok)
        BY <1>7 DEF OnData
      <3> QED
        BY <1>3, <2>1, <3>2, <3>3, PhoneAckedOK
    <2> HIDE DEF more
    <2>8. new \in Conn /\ new.ib = more /\ new.owner = c.owner
      BY <1>3, <2>1, <2>4 DEF Conn
    <2> HIDE DEF new
    <2>9. ConnsOK' /\ \A q \in Port : conns[q] # NoConn =>
                conns'[q] # NoConn /\ conns'[q].owner = conns[q].owner
      BY <2>1, <2>3, <2>4, <2>8, EntryChange
    <2>10. pc' = [pc EXCEPT ![c.owner] = IF @ = "parked" THEN "woken" ELSE @]
      BY <1>7 DEF OnData, NotifyWaiters
    <2>11. OwnOK'
      BY <1>3, <2>1, <2>9, <2>10, OwnershipKept DEF MuxInv, OwnOK, PC, Owning, Proxying
    <2> QED
      BY <1>2, <1>3, <2>6, <2>7, <2>9, <2>11, FrameFacts DEF MuxInv
  <1>8. CASE present /\ Matches(f) # {}
    <2>1. PICK p \in Matches(f), ok \in SendResults :
            OnSynAck(p, f, ok) \/ OnClose(p, f) \/ OnData(p, f, ok)
      BY <1>8 DEF HandlePacket, f
    <2>2. p \in Live /\ ok \in BOOLEAN
      BY DEF Matches, SendResults
    <2>3. CASE OnData(p, f, ok) /\ Overflows(p)
      BY <1>4, <2>3 DEF OnData
    <2> QED
      BY <1>5, <1>6, <1>7, <2>1, <2>2, <2>3
  <1> QED
    BY <1>4, <1>8 DEF HandlePacket, f

\* A message of a proxy, sent to the phone.
LEMMA HandleOutPreserves ==
    ASSUME MuxInv, HandleOut
    PROVE  MuxInv'
  <1> DEFINE m == Head(dataQ)
             c == conns[m.sport]
  <1>1. m \in OutMsg /\ dataQ' \in Seq(OutMsg) /\ Len(dataQ') < Len(dataQ)
    BY DEF MuxInv, ChannelsOK, HandleOut
  <1>2. ChannelsOK'
    BY <1>1, MuxConstants DEF MuxInv, ChannelsOK, HandleOut
  <1>3. /\ UNCHANGED <<conns, pc, sport, removal, deviceVars, proxyVars, accepted,
                       talked>>
        /\ m.sport \in Port /\ m.by \in Attempt
    BY <1>1 DEF HandleOut, OutMsg, deviceVars
  <1>4. PICK ok \in SendResults : SendClientData(m, ok) \/ SendWindowUpdate(m, ok)
    BY DEF HandleOut
  <1>5. ok \in BOOLEAN
    BY DEF SendResults
  <1> HIDE DEF m
  <1>6. CASE UNCHANGED <<phone, uplink>>
    BY <1>2, <1>3, <1>6, FrameFacts DEF MuxInv, history
  <1>7. ASSUME m.sport \in Live
        PROVE  /\ c \in Conn /\ c.dport \in DPort /\ c.ack \in Nat
               /\ c.ib \in Seq(Byte) /\ FreeBuffer(c) \in Nat
    <2>1. c \in Conn /\ Len(c.ib) <= MaxConnBuffer
      BY <1>7, LiveIsConn
    <2> HIDE DEF c
    <2>2. c.dport \in DPort /\ c.ack \in Nat /\ c.ib \in Seq(Byte)
      BY <2>1 DEF Conn
    <2> QED
      BY <2>1, <2>2, MuxConstants DEF FreeBuffer
  <1>8. ASSUME SendClientData(m, ok), m.sport \in Live,
               PhoneAcked(m.sport, c.dport, c.ack, InitialWindow, ok),
               uplink' = uplink \cup {<<phone[<<m.sport, c.dport>>].for, m.by>>}
        PROVE  MuxInv'
    <2>1. PhoneOK'
      BY <1>3, <1>5, <1>7, <1>8, PhoneAckedOK, MuxConstants
    <2>2. phone[<<m.sport, c.dport>>].for \in Attempt \cup {NoConn}
      BY <1>3, <1>7, <1>8 DEF MuxInv, PhoneOK, Session
    <2>3. uplink' \subseteq (Attempt \cup {NoConn}) \X Attempt
      <3> DEFINE to == phone[<<m.sport, c.dport>>].for
      <3>1. uplink' = uplink \cup {<<to, m.by>>} /\ to \in Attempt \cup {NoConn}
        BY <1>8, <2>2
      <3> HIDE DEF to
      <3> QED
        BY <1>3, <3>1 DEF MuxInv, HistoryOK
    <2>4. HistoryOK'
      BY <1>3, <2>3 DEF MuxInv, HistoryOK
    <2> QED
      BY <1>2, <1>3, <2>1, <2>4, FrameFacts DEF MuxInv
  <1>9. ASSUME m.sport \in Live, UNCHANGED uplink,
               PhoneAcked(m.sport, c.dport, c.ack, ScaledWindow(FreeBuffer(c)), ok)
        PROVE  MuxInv'
    <2>1. ScaledWindow(FreeBuffer(c)) \in Nat
      BY <1>7, <1>9, WindowIsNat
    <2>2. PhoneOK'
      BY <1>3, <1>5, <1>7, <1>9, <2>1, PhoneAckedOK
    <2> QED
      BY <1>2, <1>3, <1>9, <2>2, FrameFacts DEF MuxInv, history
  <1>10. CASE SendClientData(m, ok)
    BY <1>6, <1>8, <1>10 DEF SendClientData
  <1>11. CASE SendWindowUpdate(m, ok)
    BY <1>6, <1>9, <1>11 DEF SendWindowUpdate
  <1> QED
    BY <1>4, <1>10, <1>11

\* A connect request is taken off its channel.
LEMMA HandleConnectPreserves ==
    ASSUME MuxInv, HandleConnect
    PROVE  MuxInv'
  <1>1. /\ Head(connectQ) \in Attempt
        /\ connectQ' \in Seq(Attempt) /\ Len(connectQ') < Len(connectQ)
    BY DEF MuxInv, ChannelsOK, HandleConnect
  <1>2. ChannelsOK'
    BY <1>1, MuxConstants DEF MuxInv, ChannelsOK, HandleConnect
  <1>3. OwnOK'
    BY <1>1, OwnershipKept DEF MuxInv, OwnOK, HandleConnect, deviceVars, PC, Owning, Proxying
  <1> QED
    BY <1>2, <1>3, FrameFacts DEF MuxInv, HandleConnect

-----------------------------------------------------------------------------
\* The steps of a teardown.
LEMMA CleanupFacts ==
    ASSUME MuxInv
    PROVE  /\ Woken \in [Attempt -> PC]
           /\ \A a \in Attempt : Woken[a] \in Owning => pc[a] \in Owning
           /\ Abandoned(Woken) \in [Attempt -> PC]
           /\ \A a \in Attempt : Abandoned(Woken)[a] \in Owning => pc[a] \in Owning
           /\ Abandoned(pc) \in [Attempt -> PC]
           /\ \A a \in Attempt : Abandoned(pc)[a] \in Owning => pc[a] \in Owning
           /\ Permits \in [Attempt -> BOOLEAN]
           /\ conns' = ConnsDead =>
                /\ ConnsOK'
                /\ \A q \in Port : conns[q] # NoConn =>
                    conns'[q] # NoConn /\ conns'[q].owner = conns[q].owner
  <1>1. pc \in [Attempt -> PC]
    BY DEF MuxInv, OwnOK
  <1>2. /\ Woken \in [Attempt -> PC]
        /\ \A a \in Attempt : Woken[a] \in Owning => pc[a] \in Owning
    BY <1>1 DEF Woken, PC, Owning, Proxying
  <1>3. ASSUME NEW pcs \in [Attempt -> PC]
        PROVE  /\ Abandoned(pcs) \in [Attempt -> PC]
               /\ \A a \in Attempt : Abandoned(pcs)[a] \in Owning => pcs[a] \in Owning
    BY DEF Abandoned, PC, Owning, Proxying
  <1>4. Permits \in [Attempt -> BOOLEAN]
    BY Zenon DEF Permits
  <1>5. ASSUME conns' = ConnsDead
        PROVE  /\ ConnsOK'
               /\ \A q \in Port : conns[q] # NoConn =>
                    conns'[q] # NoConn /\ conns'[q].owner = conns[q].owner
    <2>1. ASSUME NEW p \in Live
          PROVE  LET new == [conns[p] EXCEPT !.state = "Dead"] IN
                 /\ new \in Conn /\ new.ib = conns[p].ib /\ new.owner = conns[p].owner
                 /\ Len(new.ib) <= MaxConnBuffer
      BY LiveIsConn DEF Conn, ConnState
    <2>2. conns \in [Port -> Conn \cup {NoConn}]
      BY DEF MuxInv, ConnsOK
    <2>3. ASSUME NEW p \in Live
          PROVE  /\ conns'[p] \in Conn /\ conns'[p].owner = conns[p].owner
                 /\ Len(conns'[p].ib) <= MaxConnBuffer
      <3>1. conns'[p] = conns[p] \/ conns'[p] = [conns[p] EXCEPT !.state = "Dead"]
        BY <1>5 DEF ConnsDead, Live
      <3> QED
        BY <2>1, <3>1, LiveIsConn
    <2>4. \A p \in Port \ Live : conns'[p] = NoConn
      BY <1>5, <2>2 DEF ConnsDead, Live
    <2>5. conns' = [p \in Port |-> conns'[p]]
      BY <1>5 DEF ConnsDead
    <2>6. conns' \in [Port -> Conn \cup {NoConn}]
      BY <2>3, <2>4, <2>5
    <2>7. Live' = Live
      BY <2>3, <2>4, NoConnIsNoRecord DEF Live
    <2> QED
      BY <2>3, <2>6, <2>7, NoConnIsNoRecord DEF ConnsOK, Live
  <1> QED
    BY <1>1, <1>2, <1>3, <1>4, <1>5

\* Disconnect, detach and the end of the task.
LEMMA TeardownPreserves ==
    ASSUME MuxInv,
           \/ DisconnectCleanup \/ DisconnectUnmanage \/ DisconnectStop
           \/ TaskOrphaned \/ RemoveManaged \/ RemoveConns
    PROVE  MuxInv'
  <1>1. CASE DisconnectCleanup
    <2>1. DeviceOK'
      BY <1>1 DEF MuxInv, DeviceOK, DisconnectCleanup, TaskState
    <2>2. ConnsOK' /\ OwnOK'
      BY <1>1, CleanupFacts, OwnershipKept DEF DisconnectCleanup
    <2>3. ProxyOK'
      BY <1>1, CleanupFacts DEF MuxInv, ProxyOK, DisconnectCleanup
    <2> QED
      BY <1>1, <2>1, <2>2, <2>3, FrameFacts DEF MuxInv, DisconnectCleanup
  <1>2. CASE DisconnectUnmanage
    <2>1. DeviceOK'
      BY <1>2 DEF MuxInv, DeviceOK, DisconnectUnmanage, TaskState
    <2> QED
      BY <1>2, <2>1, FrameFacts DEF MuxInv, DisconnectUnmanage
  <1>3. CASE DisconnectStop
    <2>1. DeviceOK'
      BY <1>3 DEF MuxInv, DeviceOK, DisconnectStop, TaskState
    <2>2. ConnsOK' /\ OwnOK'
      BY <1>3, CleanupFacts, OwnershipKept DEF DisconnectStop
    <2>3. ProxyOK'
      BY <1>3, CleanupFacts DEF MuxInv, ProxyOK, DisconnectStop
    <2>4. ChannelsOK'
      BY <1>3, MuxConstants DEF MuxInv, ChannelsOK, DisconnectStop
    <2> QED
      BY <1>3, <2>1, <2>2, <2>3, <2>4, FrameFacts DEF MuxInv, DisconnectStop
  <1>4. CASE TaskOrphaned
    <2>1. DeviceOK'
      BY <1>4 DEF MuxInv, DeviceOK, TaskOrphaned, TaskState
    <2>2. OwnOK'
      BY <1>4, CleanupFacts, OwnershipKept DEF TaskOrphaned
    <2>3. ChannelsOK'
      BY <1>4, MuxConstants DEF MuxInv, ChannelsOK, TaskOrphaned
    <2> QED
      BY <1>4, <2>1, <2>2, <2>3, FrameFacts DEF MuxInv, TaskOrphaned
  <1>5. CASE RemoveManaged
    <2>1. DeviceOK'
      BY <1>5 DEF MuxInv, DeviceOK, RemoveManaged
    <2>2. OwnOK'
      BY <1>5 DEF MuxInv, OwnOK, RemoveManaged, present
    <2> QED
      BY <1>5, <2>1, <2>2, FrameFacts DEF MuxInv, RemoveManaged
  <1>6. CASE RemoveConns
    <2>1. DeviceOK'
      BY <1>6 DEF MuxInv, DeviceOK, RemoveConns
    <2>2. OwnOK'
      BY <1>6 DEF MuxInv, OwnOK, RemoveConns, present
    <2>3. ConnsOK'
      BY <1>6 DEF ConnsOK, RemoveConns, Live
    <2> QED
      BY <1>6, <2>1, <2>2, <2>3, FrameFacts DEF MuxInv, RemoveConns
  <1> QED
    BY <1>1, <1>2, <1>3, <1>4, <1>5, <1>6

-----------------------------------------------------------------------------
\* Every step preserves the invariant.
LEMMA NextPreserves ==
    ASSUME MuxInv, [Next]_vars
    PROVE  MuxInv'
  <1>1. CASE UNCHANGED vars
    BY <1>1, FrameFacts DEF MuxInv, vars, deviceVars
  <1>2. CASE TaskStep
    BY <1>2, HandlePacketPreserves, HandleOutPreserves, HandleConnectPreserves,
       TeardownPreserves DEF TaskStep
  <1>3. CASE RemoveManaged \/ RemoveConns
    BY <1>3, TeardownPreserves
  <1> QED
    BY <1>1, <1>2, <1>3, ConnectPreserves, ProxyPreserves, ClientPreserves,
       PhonePreserves, UsbGonePreserves DEF Next

\* So the invariant holds in every reachable state.
LEMMA MuxInvariant == Spec => []MuxInv
  BY InitEstablishes, NextPreserves, PTL DEF Spec

\* The connection table, the channels, the attempts and the phone's sessions
\* keep their types, and no channel of the device task exceeds its capacity.
THEOREM MuxTypeCorrect == Spec => []MuxTypeOK
  <1>1. MuxInv => MuxTypeOK
    BY DEF MuxInv, MuxTypeOK, DeviceOK, ConnsOK, ChannelsOK, ProxyOK, HistoryOK,
           PhoneOK, OwnOK
  <1> QED
    BY <1>1, MuxInvariant, PTL

\* start_connect never gives two live connects the same port, and a proxy that
\* ends removes no connection but its own, for any number of clients and ports.
THEOREM PortsAreOwned == Spec => []OwnPort
  <1>1. MuxInv => OwnPort
    BY DEF MuxInv, OwnOK, OwnPort, HasConn
  <1> QED
    BY <1>1, MuxInvariant, PTL

\* handle_tcp_packet keeps every ib_buf within max_conn_buffer, whatever
\* windows were advertised and whatever the phone sends.
THEOREM BuffersStayCapped == Spec => []BufferCap
  <1>1. MuxInv => BufferCap
    BY DEF MuxInv, ConnsOK, BufferCap
  <1> QED
    BY <1>1, MuxInvariant, PTL

-----------------------------------------------------------------------------
(* The bytes of a connection on their way through the daemon: none is      *)
(* lost, doubled or reordered, for any number of clients, ports and bytes  *)
(* and every combination of faults.                                        *)

Fresh == {"idle", "queued", "spawned"}

\* The connect channel holds each queued attempt at most once.
QueueOK ==
    /\ \A i \in 1..Len(connectQ) : pc[connectQ[i]] = "queued"
    /\ \A i, j \in 1..Len(connectQ) : connectQ[i] = connectQ[j] => i = j
\* An attempt without an entry has moved no bytes, and no entry is its own.
FreshOK ==
    \A a \in Attempt : pc[a] \in Fresh =>
        /\ held[a] = <<>> /\ delivered[a] = <<>> /\ accepted[a] = <<>>
        /\ \A p \in Live : conns[p].owner # a
\* No attempt has two entries in the table.
OneEntry == \A p, q \in Live : conns[p].owner = conns[q].owner => p = q
\* A proxy holds bytes only while it writes them.
HeldOK == \A a \in Attempt : pc[a] \in Owning \ {"writing"} => held[a] = <<>>

RelayInv == QueueOK /\ FreshOK /\ OneEntry /\ HeldOK /\ NoByteLostInRelay

\* Init establishes the invariant.
LEMMA InitRelay == Init => RelayInv
  <1> SUFFICES ASSUME Init PROVE RelayInv
    OBVIOUS
  <1>1. Live = {}
    BY DEF Init, Live
  <1>2. QueueOK
    BY DEF Init, QueueOK
  <1>3. FreshOK /\ OneEntry
    BY <1>1 DEF Init, FreshOK, OneEntry
  <1>4. HeldOK
    BY DEF Init, HeldOK
  <1>5. NoByteLostInRelay
    BY <1>1 DEF NoByteLostInRelay, HasConn
  <1> QED
    BY <1>2, <1>3, <1>4, <1>5 DEF RelayInv

-----------------------------------------------------------------------------
\* A step that leaves the connect channel alone and lets the queued attempts
\* wait keeps the channel's part.
LEMMA QueueKept ==
    ASSUME MuxInv, RelayInv, connectQ' = connectQ,
           \A a \in Attempt : pc[a] = "queued" => pc'[a] = "queued"
    PROVE  QueueOK'
  <1>1. \A i \in 1..Len(connectQ) : connectQ[i] \in Attempt
    BY DEF MuxInv, ChannelsOK
  <1> QED
    BY <1>1 DEF RelayInv, QueueOK

\* A step that moves no byte, adds no entry and lets no attempt begin anew
\* keeps the rest.
LEMMA RelayKept ==
    ASSUME MuxInv, RelayInv, QueueOK',
           UNCHANGED <<sport, held, delivered, accepted>>,
           present' => present,
           \A a \in Attempt :
                /\ pc'[a] \in Fresh => pc[a] \in Fresh
                /\ pc'[a] \in Owning \ {"writing"} => pc[a] \in Owning \ {"writing"}
                /\ pc'[a] \in Owning \ {"closing"} => pc[a] \in Owning \ {"closing"},
           \A p \in Live' : /\ p \in Live
                            /\ conns'[p].ib = conns[p].ib
                            /\ conns'[p].owner = conns[p].owner
    PROVE  RelayInv'
  <1>1. FreshOK'
    BY DEF RelayInv, FreshOK
  <1>2. OneEntry'
    BY DEF RelayInv, OneEntry
  <1>3. HeldOK'
    BY DEF RelayInv, HeldOK
  <1>4. NoByteLostInRelay'
    BY DEF RelayInv, NoByteLostInRelay, HasConn
  <1> QED
    BY <1>1, <1>2, <1>3, <1>4 DEF RelayInv

-----------------------------------------------------------------------------
\* The steps of attempts that move no byte.
LEMMA AttemptMovesRelay ==
    ASSUME MuxInv, RelayInv, NEW a \in Attempt,
           \/ SendSyn(a) \/ PollConnect(a) \/ ConnectTimeout(a) \/ AnswerClient(a)
           \/ ProxyStart(a) \/ SendUpdate(a) \/ Park(a) \/ Resume(a)
           \/ ClientSends(a) \/ ClientCloses(a)
    PROVE  RelayInv'
  <1>1. /\ UNCHANGED <<sport, held, delivered, accepted, removal, conns, connectQ>>
        /\ pc[a] \in Owning \ {"writing", "closing"}
        /\ \E st \in PC \ (Fresh \cup {"writing"}) : pc' = [pc EXCEPT ![a] = st]
    BY DEF SendSyn, PollConnect, ConnectTimeout, AnswerClient, ProxyStart, SendUpdate,
           Park, Resume, ClientSends, ClientCloses, deviceVars, channels, proxyVars,
           history, Owning, Proxying, PC, Fresh
  <1>2. pc \in [Attempt -> PC]
    BY DEF MuxInv, OwnOK
  <1>3. \A b \in Attempt : b # a => pc'[b] = pc[b]
    BY <1>1, <1>2
  <1>4. pc'[a] \notin Fresh
    BY <1>1, <1>2
  <1>5. pc[a] # "queued"
    BY <1>1 DEF Owning, Proxying
  <1>6. QueueOK'
    BY <1>1, <1>3, <1>5, QueueKept
  <1> QED
    BY <1>1, <1>3, <1>4, <1>6, RelayKept DEF present, Live

\* The entry that goes was the only one of the attempt.
LEMMA ProxyEndRelay ==
    ASSUME MuxInv, RelayInv, NEW a \in Attempt, ProxyEnd(a)
    PROVE  RelayInv'
  <1>1. /\ UNCHANGED <<sport, held, delivered, accepted, removal, connectQ>>
        /\ pc[a] = "closing" /\ pc' = [pc EXCEPT ![a] = "done"]
        /\ conns' = conns \/ conns' = [conns EXCEPT ![sport[a]] = NoConn]
    BY DEF ProxyEnd, deviceVars, channels, proxyVars, history
  <1>2. pc \in [Attempt -> PC] /\ sport[a] \in Port
    BY <1>1 DEF MuxInv, OwnOK, Owning
  <1>3. /\ \A b \in Attempt : b # a => pc'[b] = pc[b]
        /\ pc'[a] = "done"
    BY <1>1, <1>2
  <1>4. "done" \notin Fresh /\ "done" \notin Owning
    BY DEF Fresh, Owning, Proxying
  <1>5. \A p \in Live' : p \in Live /\ conns'[p] = conns[p]
    BY <1>1, <1>2 DEF Live, MuxInv, ConnsOK
  <1>6. QueueOK'
    BY <1>1, <1>3, QueueKept
  <1> QED
    BY <1>1, <1>3, <1>4, <1>5, <1>6, RelayKept DEF present

\* A new connection starts with nothing accepted and nothing delivered.
LEMMA StartConnectRelay ==
    ASSUME MuxInv, RelayInv, NEW a \in Attempt, StartConnect(a)
    PROVE  RelayInv'
  <1>1. /\ UNCHANGED <<held, delivered, accepted, removal, connectQ>>
        /\ pc[a] = "spawned" /\ pc[a] \in Fresh
    BY DEF StartConnect, deviceVars, channels, proxyVars, history, Fresh
  <1>2. pc \in [Attempt -> PC] /\ sport \in [Attempt -> Port \cup {0}]
    BY DEF MuxInv, OwnOK
  <1>3. CASE present /\ Port \ Live # {}
    <2>1. FreePort \in Port /\ FreePort \notin Live
      BY <1>3, FreePortFree
    <2>2. PICK d \in DPort : conns' = [conns EXCEPT ![FreePort] = NewConn(a, d)]
      BY <1>3 DEF StartConnect
    <2>3. /\ pc' = [pc EXCEPT ![a] = "syn"]
          /\ sport' = [sport EXCEPT ![a] = FreePort]
      BY <1>3 DEF StartConnect
    <2>4. NewConn(a, d).owner = a /\ NewConn(a, d).ib = <<>>
      BY DEF NewConn
    <2>5. conns \in [Port -> Conn \cup {NoConn}]
      BY DEF MuxInv, ConnsOK
    <2>6. /\ \A b \in Attempt : b # a => pc'[b] = pc[b] /\ sport'[b] = sport[b]
          /\ pc'[a] = "syn" /\ sport'[a] = FreePort
      BY <1>2, <2>1, <2>3
    <2>7. /\ \A p \in Live' \ {FreePort} : p \in Live /\ conns'[p] = conns[p]
          /\ conns'[FreePort].owner = a /\ conns'[FreePort].ib = <<>>
      BY <2>1, <2>2, <2>4, <2>5 DEF Live
    <2>8. /\ held[a] = <<>> /\ delivered[a] = <<>> /\ accepted[a] = <<>>
          /\ \A p \in Live : conns[p].owner # a
      BY <1>1 DEF RelayInv, FreshOK
    <2>9. QueueOK'
      BY <1>1, <2>6, QueueKept
    <2>10. FreshOK'
      BY <1>1, <2>6, <2>7 DEF RelayInv, FreshOK, Fresh
    <2>11. OneEntry'
      BY <2>7, <2>8 DEF RelayInv, OneEntry
    <2>12. HeldOK'
      BY <1>1, <2>6, <2>8 DEF RelayInv, HeldOK
    <2>13. NoByteLostInRelay'
      <3>1. ASSUME NEW b \in Attempt, b # a, pc'[b] \in Owning \ {"closing"}, HasConn(b)'
            PROVE  delivered'[b] \o held'[b] \o conns'[sport'[b]].ib = accepted'[b]
        <4>1. pc[b] \in Owning \ {"closing"} /\ sport'[b] = sport[b]
          BY <2>6, <3>1
        <4>2. sport[b] \in Live
          BY <1>3, <4>1 DEF MuxInv, OwnOK, Live
        <4>3. conns'[sport[b]] = conns[sport[b]] /\ HasConn(b)
          BY <1>3, <2>1, <2>2, <2>5, <4>2 DEF HasConn, Live
        <4> QED
          BY <1>1, <4>1, <4>3 DEF RelayInv, NoByteLostInRelay
      <3>2. delivered'[a] \o held'[a] \o conns'[sport'[a]].ib = accepted'[a]
        BY <1>1, <2>6, <2>7, <2>8
      <3> QED
        BY <3>1, <3>2 DEF NoByteLostInRelay
    <2> QED
      BY <2>9, <2>10, <2>11, <2>12, <2>13 DEF RelayInv
  <1>4. CASE ~(present /\ Port \ Live # {})
    <2>1. pc' = [pc EXCEPT ![a] = "failed"] /\ UNCHANGED <<conns, sport>>
      BY <1>4 DEF StartConnect
    <2>2. /\ \A b \in Attempt : b # a => pc'[b] = pc[b]
          /\ pc'[a] = "failed"
      BY <1>2, <2>1
    <2>3. "failed" \notin Fresh /\ "failed" \notin Owning
      BY DEF Fresh, Owning, Proxying
    <2>4. QueueOK'
      BY <1>1, <2>2, QueueKept
    <2> QED
      BY <1>1, <2>1, <2>2, <2>3, <2>4, RelayKept DEF present, Live
  <1> QED
    BY <1>3, <1>4

-----------------------------------------------------------------------------
\* The steps that move bytes: into the proxy's hands ...
LEMMA DrainRelay ==
    ASSUME MuxInv, RelayInv, NEW a \in Attempt, Drain(a)
    PROVE  RelayInv'
  <1>1. /\ UNCHANGED <<sport, delivered, accepted, removal, connectQ>>
        /\ pc[a] = "drain"
    BY DEF Drain, deviceVars, channels, history
  <1>2. pc \in [Attempt -> PC]
    BY DEF MuxInv, OwnOK
  <1>3. pc[a] \in Owning \ {"writing", "closing"}
    BY <1>1 DEF Owning, Proxying
  <1>4. CASE HasConn(a) /\ conns[sport[a]].state = "Connected"
    <2> DEFINE p == sport[a]
    <2>1. p \in Live /\ p \in Port /\ conns[p] \in Conn /\ conns[p].ib \in Seq(Byte)
      BY <1>4, LiveIsConn DEF HasConn, Conn
    <2>2. /\ conns' = [conns EXCEPT ![p].ib = <<>>]
          /\ held' = [held EXCEPT ![a] = conns[p].ib]
          /\ pc' = [pc EXCEPT ![a] = IF conns[p].ib # <<>> THEN "writing" ELSE "unlocked"]
      BY <1>4 DEF Drain
    <2>3. conns \in [Port -> Conn \cup {NoConn}] /\ held \in [Attempt -> Seq(Byte)]
      BY DEF MuxInv, ConnsOK, ProxyOK
    <2>4. /\ \A b \in Attempt : b # a => pc'[b] = pc[b] /\ held'[b] = held[b]
          /\ held'[a] = conns[p].ib
          /\ pc'[a] \in {"writing", "unlocked"}
          /\ pc'[a] = "unlocked" => conns[p].ib = <<>>
      BY <1>2, <2>2, <2>3
    <2>5. /\ \A q \in Port : q # p => conns'[q] = conns[q]
          /\ conns'[p].owner = conns[p].owner /\ conns'[p].ib = <<>>
      BY <2>1, <2>2, <2>3 DEF Conn
    <2>6. \A q \in Live' : q \in Live /\ conns'[q].owner = conns[q].owner
      BY <2>1, <2>5 DEF Live
    <2>7. QueueOK'
      BY <1>1, <2>4, QueueKept
    <2>8. FreshOK'
      BY <1>1, <2>4, <2>6 DEF RelayInv, FreshOK, Fresh
    <2>9. OneEntry'
      BY <2>6 DEF RelayInv, OneEntry
    <2>10. HeldOK'
      BY <2>4 DEF RelayInv, HeldOK
    <2>11. NoByteLostInRelay'
      <3>1. ASSUME NEW b \in Attempt, b # a, pc'[b] \in Owning \ {"closing"}, HasConn(b)'
            PROVE  delivered'[b] \o held'[b] \o conns'[sport'[b]].ib = accepted'[b]
        <4>1. pc[b] \in Owning \ {"closing"} /\ sport'[b] = sport[b] /\ HasConn(b)
          BY <1>1, <2>4, <2>6, <3>1 DEF HasConn, present
        <4>2. sport[b] # p
          <5>1. present
            BY <1>4 DEF HasConn
          <5>2. conns[sport[b]].owner = b /\ conns[p].owner = a
            BY <1>3, <4>1, <5>1 DEF MuxInv, OwnOK
          <5> QED
            BY <3>1, <5>2
        <4>3. conns'[sport[b]] = conns[sport[b]]
          BY <2>5, <4>1, <4>2 DEF HasConn, Live
        <4> QED
          BY <1>1, <2>4, <3>1, <4>1, <4>3 DEF RelayInv, NoByteLostInRelay
      <3>2. delivered'[a] \o held'[a] \o conns'[sport'[a]].ib = accepted'[a]
        <4>1. held[a] = <<>>
          BY <1>3 DEF RelayInv, HeldOK
        <4>2. delivered[a] \o <<>> \o conns[p].ib = accepted[a]
          BY <1>3, <1>4, <4>1 DEF RelayInv, NoByteLostInRelay
        <4>3. delivered[a] \in Seq(Byte)
          BY DEF MuxInv, ProxyOK
        <4>4. delivered[a] \o <<>> = delivered[a]
          BY <4>3, ConcatEmptySeq
        <4>5. delivered[a] \o conns[p].ib \in Seq(Byte)
          BY <2>1, <4>3, ConcatProperties
        <4>6. (delivered[a] \o conns[p].ib) \o <<>> = delivered[a] \o conns[p].ib
          BY <4>5, ConcatEmptySeq
        <4> QED
          BY <1>1, <2>4, <2>5, <4>2, <4>4, <4>6
      <3> QED
        BY <3>1, <3>2 DEF NoByteLostInRelay
    <2> QED
      BY <2>7, <2>8, <2>9, <2>10, <2>11 DEF RelayInv
  <1>5. CASE ~(HasConn(a) /\ conns[sport[a]].state = "Connected")
    <2>1. pc' = [pc EXCEPT ![a] = "closing"] /\ UNCHANGED <<conns, held>>
      BY <1>5 DEF Drain
    <2>2. /\ \A b \in Attempt : b # a => pc'[b] = pc[b]
          /\ pc'[a] = "closing" /\ "closing" \notin Fresh
      BY <1>2, <2>1 DEF Fresh
    <2>3. QueueOK'
      BY <1>1, <2>2, QueueKept
    <2> QED
      BY <1>1, <1>3, <2>1, <2>2, <2>3, RelayKept DEF present, Live
  <1> QED
    BY <1>4, <1>5

\* ... to the client ...
LEMMA WriteClientRelay ==
    ASSUME MuxInv, RelayInv, NEW a \in Attempt, WriteClient(a)
    PROVE  RelayInv'
  <1>1. /\ UNCHANGED <<sport, conns, accepted, removal, connectQ>>
        /\ pc[a] = "writing"
        /\ held' = [held EXCEPT ![a] = <<>>]
    BY DEF WriteClient, deviceVars, channels, history
  <1>2. /\ pc \in [Attempt -> PC]
        /\ held \in [Attempt -> Seq(Byte)] /\ delivered \in [Attempt -> Seq(Byte)]
    BY DEF MuxInv, OwnOK, ProxyOK
  <1>3. pc[a] \in Owning \ {"closing"}
    BY <1>1 DEF Owning, Proxying
  <1>4. \/ /\ pc' = [pc EXCEPT ![a] = "update"]
           /\ delivered' = [delivered EXCEPT ![a] = @ \o held[a]]
        \/ pc' = [pc EXCEPT ![a] = "closing"] /\ delivered' = delivered
    BY DEF WriteClient
  <1>5. /\ \A b \in Attempt : b # a =>
            pc'[b] = pc[b] /\ held'[b] = held[b] /\ delivered'[b] = delivered[b]
        /\ pc'[a] \in {"update", "closing"} /\ held'[a] = <<>>
        /\ pc'[a] = "update" => delivered'[a] = delivered[a] \o held[a]
    BY <1>1, <1>2, <1>4
  <1>6. QueueOK'
    BY <1>1, <1>5, QueueKept
  <1>7. FreshOK'
    BY <1>1, <1>5 DEF RelayInv, FreshOK, Fresh, Live
  <1>8. OneEntry'
    BY <1>1 DEF RelayInv, OneEntry, Live
  <1>9. HeldOK'
    BY <1>5 DEF RelayInv, HeldOK
  <1>10. \A b \in Attempt : HasConn(b)' => HasConn(b)
    BY <1>1 DEF HasConn, present, Live
  <1>11. NoByteLostInRelay'
    <2>1. ASSUME NEW b \in Attempt, b # a, pc'[b] \in Owning \ {"closing"}, HasConn(b)'
          PROVE  delivered'[b] \o held'[b] \o conns'[sport'[b]].ib = accepted'[b]
      BY <1>1, <1>5, <1>10, <2>1 DEF RelayInv, NoByteLostInRelay
    <2>2. ASSUME pc'[a] = "update", HasConn(a)'
          PROVE  delivered'[a] \o held'[a] \o conns'[sport'[a]].ib = accepted'[a]
      <3>1. delivered[a] \o held[a] \o conns[sport[a]].ib = accepted[a]
        BY <1>3, <1>10, <2>2 DEF RelayInv, NoByteLostInRelay
      <3>2. delivered[a] \o held[a] \in Seq(Byte)
        BY <1>2, ConcatProperties
      <3>3. (delivered[a] \o held[a]) \o <<>> = delivered[a] \o held[a]
        BY <3>2, ConcatEmptySeq
      <3> QED
        BY <1>1, <1>5, <2>2, <3>1, <3>3
    <2> QED
      BY <1>5, <2>1, <2>2 DEF NoByteLostInRelay
  <1> QED
    BY <1>6, <1>7, <1>8, <1>9, <1>11 DEF RelayInv

\* ... and from the phone into ib_buf.
LEMMA HandlePacketRelay ==
    ASSUME MuxInv, RelayInv, HandlePacket
    PROVE  RelayInv'
  <1> DEFINE f == Head(usbRx)
  <1>1. UNCHANGED <<sport, removal, held, delivered, connectQ>>
    BY DEF HandlePacket, deviceVars, proxyVars
  <1>2. /\ pc \in [Attempt -> PC] /\ conns \in [Port -> Conn \cup {NoConn}]
        /\ accepted \in [Attempt -> Seq(Byte)] /\ f \in Frame
    BY DEF MuxInv, OwnOK, ConnsOK, HistoryOK, ChannelsOK, HandlePacket
  <1> HIDE DEF f
  <1>3. ASSUME UNCHANGED <<pc, accepted>>,
               \A p \in Live' : /\ p \in Live /\ conns'[p].ib = conns[p].ib
                                /\ conns'[p].owner = conns[p].owner
        PROVE  RelayInv'
    <2>1. QueueOK'
      BY <1>1, <1>3, QueueKept
    <2> QED
      BY <1>1, <1>3, <2>1, RelayKept DEF present
  <1>4. CASE UNCHANGED <<conns, pc, accepted, phone>>
    BY <1>3, <1>4 DEF Live
  <1>5. ASSUME NEW p \in Live, NEW st \in ConnState, NEW ack \in Nat,
               UNCHANGED <<pc, accepted>>,
               \/ conns' = [conns EXCEPT ![p].state = st]
               \/ conns' = [conns EXCEPT ![p].state = st, ![p].ack = ack]
        PROVE  RelayInv'
    <2>1. p \in Port /\ conns[p] \in Conn
      BY LiveIsConn
    <2>2. /\ \A q \in Port : q # p => conns'[q] = conns[q]
          /\ conns'[p].ib = conns[p].ib /\ conns'[p].owner = conns[p].owner
      BY <1>2, <1>5, <2>1 DEF Conn
    <2> QED
      BY <1>3, <1>5, <2>1, <2>2 DEF Live
  <1>6. ASSUME NEW p \in Live, NEW ok \in BOOLEAN, present,
               OnData(p, f, ok), ~Overflows(p)
        PROVE  RelayInv'
    <2> DEFINE byte == [from |-> f.by, n |-> f.seq]
               a == conns[p].owner
    <2>1. /\ p \in Port /\ conns[p] \in Conn /\ a \in Attempt
          /\ conns[p].ib \in Seq(Byte)
      BY LiveIsConn DEF Conn
    <2>2. byte \in Byte
      BY <1>2 DEF Byte, Frame
    <2>3. /\ conns' = [conns EXCEPT ![p].ib = Append(@, byte), ![p].ack = f.seq + 1]
          /\ accepted' = [accepted EXCEPT ![a] = Append(@, byte)]
          /\ pc' = [pc EXCEPT ![a] = IF @ = "parked" THEN "woken" ELSE @]
      BY <1>6 DEF OnData, NotifyWaiters
    <2> HIDE DEF byte
    <2>4. /\ \A q \in Port : q # p => conns'[q] = conns[q]
          /\ conns'[p].ib = Append(conns[p].ib, byte) /\ conns'[p].owner = a
      BY <1>2, <2>1, <2>3 DEF Conn
    <2> HIDE DEF a
    <2>5. /\ \A b \in Attempt : b # a => pc'[b] = pc[b] /\ accepted'[b] = accepted[b]
          /\ accepted'[a] = Append(accepted[a], byte)
          /\ pc'[a] = pc[a] \/ (pc[a] = "parked" /\ pc'[a] = "woken")
      BY <1>2, <2>1, <2>3
    <2>6. \A q \in Live' : q \in Live /\ conns'[q].owner = conns[q].owner
      BY <2>1, <2>4 DEF Live, a
    <2>7. pc[a] \notin Fresh
      BY <2>1 DEF RelayInv, FreshOK, a
    <2>8. \A b \in Attempt : /\ pc'[b] \in Fresh => pc[b] \in Fresh /\ b # a
                             /\ pc'[b] \in Owning \ {"writing"} => pc[b] \in Owning \ {"writing"}
                             /\ pc'[b] \in Owning \ {"closing"} => pc[b] \in Owning \ {"closing"}
      BY <2>5, <2>7 DEF Fresh, Owning, Proxying
    <2>9. QueueOK'
      BY <1>1, <2>5, QueueKept
    <2>10. FreshOK'
      BY <1>1, <2>5, <2>6, <2>8 DEF RelayInv, FreshOK
    <2>11. OneEntry'
      BY <2>6 DEF RelayInv, OneEntry
    <2>12. HeldOK'
      BY <1>1, <2>8 DEF RelayInv, HeldOK
    <2>13. NoByteLostInRelay'
      <3>1. SUFFICES ASSUME NEW b \in Attempt, pc'[b] \in Owning \ {"closing"}, HasConn(b)'
                     PROVE  delivered'[b] \o held'[b] \o conns'[sport'[b]].ib = accepted'[b]
        BY DEF NoByteLostInRelay
      <3>2. /\ pc[b] \in Owning \ {"closing"} /\ HasConn(b)
            /\ sport[b] \in Live /\ sport[b] \in Port
        BY <1>1, <2>6, <2>8, <3>1 DEF HasConn, present, Live
      <3>3. delivered[b] \o held[b] \o conns[sport[b]].ib = accepted[b]
        BY <3>2 DEF RelayInv, NoByteLostInRelay
      <3>4. conns[sport[b]].owner = b
        BY <1>6, <3>2 DEF MuxInv, OwnOK
      <3>5. CASE b # a
        <4>1. sport[b] # p
          BY <3>4, <3>5 DEF a
        <4> QED
          BY <1>1, <2>4, <2>5, <3>2, <3>3, <3>5, <4>1
      <3>6. CASE b = a
        <4>1. sport[b] = p
          BY <3>2, <3>4, <3>6 DEF RelayInv, OneEntry, a
        <4>2. delivered[b] \in Seq(Byte) /\ held[b] \in Seq(Byte)
          BY DEF MuxInv, ProxyOK
        <4>3. delivered[b] \o held[b] \in Seq(Byte)
          BY <4>2, ConcatProperties
        <4>4. ASSUME NEW x \in Seq(Byte), NEW y \in Seq(Byte)
              PROVE  x \o Append(y, byte) = Append(x \o y, byte)
          BY <2>2
        <4>5. (delivered[b] \o held[b]) \o Append(conns[p].ib, byte)
                = Append((delivered[b] \o held[b]) \o conns[p].ib, byte)
          BY <2>1, <4>3, <4>4
        <4> QED
          BY <1>1, <2>4, <2>5, <3>3, <3>6, <4>1, <4>5
      <3> QED
        BY <3>5, <3>6
    <2> QED
      BY <2>9, <2>10, <2>11, <2>12, <2>13 DEF RelayInv
  <1>7. CASE present /\ Matches(f) # {}
    <2>1. PICK p \in Matches(f), ok \in SendResults :
            OnSynAck(p, f, ok) \/ OnClose(p, f) \/ OnData(p, f, ok)
      BY <1>7 DEF HandlePacket, f
    <2>2. p \in Live /\ ok \in BOOLEAN /\ f.seq \in Nat
      BY <1>2 DEF Matches, SendResults, Frame
    <2>3. CASE OnSynAck(p, f, ok)
      BY <1>5, <2>2, <2>3 DEF OnSynAck, ConnState
    <2>4. CASE OnClose(p, f)
      BY <1>5, <2>2, <2>4 DEF OnClose, ConnState
    <2>5. CASE OnData(p, f, ok) /\ Overflows(p)
      BY <1>4, <2>5 DEF OnData
    <2> QED
      BY <1>6, <1>7, <2>1, <2>2, <2>3, <2>4, <2>5
  <1> QED
    BY <1>4, <1>7 DEF HandlePacket, f
-----------------------------------------------------------------------------
\* The other steps move no byte.
LEMMA QuietRelay ==
    ASSUME MuxInv, RelayInv,
           Phone \/ UsbGone \/ DisconnectUnmanage \/ RemoveManaged \/ UNCHANGED vars
    PROVE  RelayInv'
  <1>1. /\ UNCHANGED <<sport, held, delivered, accepted, conns, connectQ, pc>>
        /\ present' => present
    <2>1. CASE Phone
      BY <2>1 DEF Phone, PhoneAnswersSyn, PhoneSendsData, PhoneCloses, PhoneSends,
            deviceVars, proxyVars, history, present
    <2>2. CASE UsbGone
      BY <2>2 DEF UsbGone, channels, proxyVars, history, present
    <2>3. CASE DisconnectUnmanage
      BY <2>3 DEF DisconnectUnmanage, channels, proxyVars, history, present
    <2>4. CASE RemoveManaged
      BY <2>4 DEF RemoveManaged, channels, proxyVars, history, present
    <2>5. CASE UNCHANGED vars
      BY <2>5 DEF vars, deviceVars, channels, proxyVars, history, present
    <2> QED
      BY <2>1, <2>2, <2>3, <2>4, <2>5
  <1>2. QueueOK'
    BY <1>1, QueueKept
  <1> QED
    BY <1>1, <1>2, RelayKept DEF Live

\* Messages to the phone move no byte towards a client.
LEMMA HandleOutRelay ==
    ASSUME MuxInv, RelayInv, HandleOut
    PROVE  RelayInv'
  <1>1. UNCHANGED <<conns, pc, sport, removal, held, delivered, accepted, connectQ>>
    BY DEF HandleOut, deviceVars, proxyVars
  <1>2. QueueOK'
    BY <1>1, QueueKept
  <1> QED
    BY <1>1, <1>2, RelayKept DEF Live, present

\* A request enters the channel once.
LEMMA RequestConnectRelay ==
    ASSUME MuxInv, RelayInv, NEW a \in Attempt, RequestConnect(a)
    PROVE  RelayInv'
  <1>1. /\ UNCHANGED <<sport, held, delivered, accepted, conns, removal>>
        /\ pc[a] = "idle"
        /\ \/ connectQ' = Append(connectQ, a) /\ pc' = [pc EXCEPT ![a] = "queued"]
           \/ connectQ' = connectQ /\ pc' = [pc EXCEPT ![a] = "failed"]
    BY DEF RequestConnect, deviceVars, proxyVars, history
  <1>2. pc \in [Attempt -> PC] /\ connectQ \in Seq(Attempt)
    BY DEF MuxInv, OwnOK, ChannelsOK
  <1>3. /\ \A b \in Attempt : b # a => pc'[b] = pc[b]
        /\ pc'[a] \in {"queued", "failed"}
    BY <1>1, <1>2
  <1>4. QueueOK'
    <2>1. \A i \in 1..Len(connectQ) : connectQ[i] \in Attempt \ {a}
      BY <1>1, <1>2 DEF RelayInv, QueueOK
    <2>2. CASE connectQ' = Append(connectQ, a) /\ pc' = [pc EXCEPT ![a] = "queued"]
      <3>1. /\ Len(connectQ') = Len(connectQ) + 1
            /\ \A i \in 1..Len(connectQ) : connectQ'[i] = connectQ[i]
            /\ connectQ'[Len(connectQ) + 1] = a
            /\ Len(connectQ) \in Nat
        BY <1>2, <2>2
      <3>2. pc'[a] = "queued"
        BY <1>2, <2>2
      <3> QED
        BY <1>3, <2>1, <3>1, <3>2 DEF RelayInv, QueueOK
    <2>3. CASE connectQ' = connectQ
      BY <1>1, <1>3, <2>3, QueueKept
    <2> QED
      BY <1>1, <2>2, <2>3
  <1>5. pc[a] \in Fresh /\ "queued" \notin Owning /\ "failed" \notin Owning
    BY <1>1 DEF Fresh, Owning, Proxying
  <1> QED
    BY <1>1, <1>3, <1>4, <1>5, RelayKept DEF present, Live

\* A request leaves the channel and its handler starts.
LEMMA HandleConnectRelay ==
    ASSUME MuxInv, RelayInv, HandleConnect
    PROVE  RelayInv'
  <1> DEFINE a == Head(connectQ)
  <1>1. /\ UNCHANGED <<sport, held, delivered, accepted, conns, removal>>
        /\ connectQ # <<>> /\ connectQ' = Tail(connectQ)
        /\ pc' = [pc EXCEPT ![a] = "spawned"]
    BY DEF HandleConnect, deviceVars, proxyVars, history
  <1>2. pc \in [Attempt -> PC] /\ connectQ \in Seq(Attempt)
    BY DEF MuxInv, OwnOK, ChannelsOK
  <1>3. /\ a \in Attempt /\ a = connectQ[1] /\ Len(connectQ) >= 1
        /\ Len(connectQ') = Len(connectQ) - 1 /\ Len(connectQ) \in Nat
        /\ \A i \in 1..Len(connectQ') : connectQ'[i] = connectQ[i + 1]
    BY <1>1, <1>2
  <1> HIDE DEF a
  <1>4. pc[a] = "queued"
    BY <1>3 DEF RelayInv, QueueOK
  <1>5. /\ \A b \in Attempt : b # a => pc'[b] = pc[b]
        /\ pc'[a] = "spawned"
    BY <1>1, <1>2, <1>3
  <1>6. QueueOK'
    <2>1. \A i \in 1..Len(connectQ') : i + 1 \in 1..Len(connectQ) /\ i + 1 # 1
      BY <1>3
    <2>2. \A i \in 1..Len(connectQ') : connectQ'[i] # a /\ connectQ'[i] \in Attempt
      BY <1>2, <1>3, <2>1 DEF RelayInv, QueueOK
    <2>3. \A i \in 1..Len(connectQ') : pc'[connectQ'[i]] = "queued"
      BY <1>3, <1>5, <2>1, <2>2 DEF RelayInv, QueueOK
    <2>4. \A i, j \in 1..Len(connectQ') : connectQ'[i] = connectQ'[j] => i = j
      BY <1>3, <2>1 DEF RelayInv, QueueOK
    <2> QED
      BY <2>3, <2>4 DEF QueueOK
  <1>7. pc[a] \in Fresh /\ "spawned" \notin Owning
    BY <1>4 DEF Fresh, Owning, Proxying
  <1> QED
    BY <1>1, <1>5, <1>6, <1>7, RelayKept DEF present, Live

\* Teardown loses connections whole, and no bytes of one that stays.
LEMMA TeardownRelay ==
    ASSUME MuxInv, RelayInv,
           DisconnectCleanup \/ DisconnectStop \/ TaskOrphaned \/ RemoveConns
    PROVE  RelayInv'
  <1>1. /\ UNCHANGED <<sport, held, delivered, accepted>>
        /\ present' => present
        /\ conns' \in {conns, ConnsDead, [p \in Port |-> NoConn]}
        /\ pc' \in {pc, Woken, Abandoned(pc), Abandoned(Woken)}
    BY DEF DisconnectCleanup, DisconnectStop, TaskOrphaned, RemoveConns, channels,
           proxyVars, history, present
  <1>2. pc \in [Attempt -> PC]
    BY DEF MuxInv, OwnOK
  <1>3. \A a \in Attempt :
            \/ pc'[a] = pc[a]
            \/ pc[a] = "parked" /\ pc'[a] = "woken"
            \/ pc[a] = "queued" /\ pc'[a] = "failed"
    BY <1>1, <1>2 DEF Woken, Abandoned
  <1>4. \A a \in Attempt :
            /\ pc'[a] \in Fresh => pc[a] \in Fresh
            /\ pc'[a] \in Owning \ {"writing"} => pc[a] \in Owning \ {"writing"}
            /\ pc'[a] \in Owning \ {"closing"} => pc[a] \in Owning \ {"closing"}
    BY <1>3 DEF Fresh, Owning, Proxying
  <1>5. \A p \in Live' : /\ p \in Live /\ conns'[p].ib = conns[p].ib
                         /\ conns'[p].owner = conns[p].owner
    <2>1. \A p \in Live : /\ [conns[p] EXCEPT !.state = "Dead"].ib = conns[p].ib
                          /\ [conns[p] EXCEPT !.state = "Dead"].owner = conns[p].owner
      BY LiveIsConn DEF Conn
    <2>2. CASE conns' = conns
      BY <2>2 DEF Live
    <2>3. CASE conns' = ConnsDead
      <3>1. \A p \in Port : \/ conns'[p] = conns[p]
                            \/ p \in Live /\ conns'[p] = [conns[p] EXCEPT !.state = "Dead"]
        BY <2>3 DEF ConnsDead
      <3> QED
        BY <2>1, <3>1 DEF Live
    <2>4. CASE conns' = [p \in Port |-> NoConn]
      BY <2>4 DEF Live
    <2> QED
      BY <1>1, <2>2, <2>3, <2>4
  <1>6. QueueOK'
    <2>1. CASE connectQ' = <<>>
      BY <2>1 DEF QueueOK
    <2>2. CASE DisconnectCleanup \/ RemoveConns
      <3>1. /\ connectQ' = connectQ /\ pc' \in {pc, Woken}
        BY <2>2 DEF DisconnectCleanup, RemoveConns, channels
      <3>2. \A a \in Attempt : pc[a] = "queued" => pc'[a] = "queued"
        BY <1>2, <3>1 DEF Woken
      <3> QED
        BY <3>1, <3>2, QueueKept
    <2> QED
      BY <2>1, <2>2 DEF DisconnectStop, TaskOrphaned
  <1> QED
    BY <1>1, <1>4, <1>5, <1>6, RelayKept

-----------------------------------------------------------------------------
\* Every step preserves the invariant.
LEMMA NextRelay ==
    ASSUME MuxInv, RelayInv, [Next]_vars
    PROVE  RelayInv'
  <1>1. ASSUME NEW a \in Attempt, ConnectStep(a) \/ ProxyStep(a) \/ ClientStep(a)
        PROVE  RelayInv'
    BY <1>1, AttemptMovesRelay, ProxyEndRelay, StartConnectRelay, DrainRelay,
       WriteClientRelay, RequestConnectRelay DEF ConnectStep, ProxyStep, ClientStep
  <1>2. CASE TaskStep
    BY <1>2, HandlePacketRelay, HandleOutRelay, HandleConnectRelay, QuietRelay,
       TeardownRelay DEF TaskStep
  <1>3. CASE Phone \/ UsbGone \/ RemoveManaged \/ RemoveConns \/ UNCHANGED vars
    BY <1>3, QuietRelay, TeardownRelay
  <1> QED
    BY <1>1, <1>2, <1>3 DEF Next

\* While a proxy runs, the bytes its client has received, those the proxy is
\* writing and those in ib_buf are together exactly what the device task put
\* into the connection's buffer, in order: std::mem::take under the write lock
\* loses no byte to the task that appends beside it.
THEOREM NoByteLost == Spec => []NoByteLostInRelay
  <1>1. RelayInv => NoByteLostInRelay
    BY DEF RelayInv
  <1> QED
    BY <1>1, InitRelay, NextRelay, MuxInvariant, PTL DEF Spec

-----------------------------------------------------------------------------
(* The relay implements BytePipe.                                          *)

\* The attempts whose pipe has ended.
Gone == {a \in Attempt : pc[a] \in {"closing", "done", "failed"}}

Begins(s, t) == \E r \in Seq(Byte) : s \o r = t

\* What the client has and what the proxy is writing are the beginning of what was
\* accepted, also when the entry is no longer in the table.
PrefixOK == \A a \in Attempt : Begins(delivered[a] \o held[a], accepted[a])

\* What a step does to the pipes: nothing but ending some of them, or one of the
\* three steps that move bytes.
PipeKind ==
    \/ UNCHANGED <<accepted, delivered, held>>
    \/ \E a \in Attempt : Drain(a) \/ WriteClient(a)
    \/ /\ UNCHANGED <<delivered, held>> /\ Gone' = Gone
       /\ \E a \in Attempt, b \in Byte : accepted' = [accepted EXCEPT ![a] = Append(@, b)]

\* A step of one attempt that is not at its end.
LEMMA AttemptGone ==
    ASSUME MuxInv, NEW a \in Attempt, NEW st, pc' = [pc EXCEPT ![a] = st],
           a \in Gone => st \in {"closing", "done", "failed"}
    PROVE  Gone \subseteq Gone'
  <1>1. pc \in [Attempt -> PC]
    BY DEF MuxInv, OwnOK
  <1> QED
    BY <1>1 DEF Gone

\* The steps of the attempts.
LEMMA AttemptPipe ==
    ASSUME MuxInv, NEW a \in Attempt, ConnectStep(a) \/ ProxyStep(a) \/ ClientStep(a)
    PROVE  Gone \subseteq Gone' /\ PipeKind
  <1>1. PipeKind
    <2>1. CASE Drain(a) \/ WriteClient(a)
      BY <2>1 DEF PipeKind
    <2>2. CASE ConnectStep(a)
      BY <2>2 DEF ConnectStep, StartConnect, SendSyn, PollConnect, ConnectTimeout, AnswerClient,
            proxyVars, history, PipeKind
    <2>3. CASE ProxyStart(a) \/ SendUpdate(a) \/ Park(a) \/ Resume(a) \/ ProxyEnd(a)
      BY <2>3 DEF ProxyStart, SendUpdate, Park, Resume, ProxyEnd, proxyVars, history, PipeKind
    <2>4. CASE ClientStep(a)
      BY <2>4 DEF ClientStep, RequestConnect, ClientSends, ClientCloses, proxyVars, history,
            PipeKind
    <2> QED
      BY <2>1, <2>2, <2>3, <2>4 DEF ProxyStep
  <1>2. CASE ProxyEnd(a)
    BY <1>1, <1>2, AttemptGone DEF ProxyEnd
  <1>3. CASE pc[a] \notin {"closing", "done", "failed"}
    <2>1. \E st : pc' = [pc EXCEPT ![a] = st]
      <3>1. CASE ConnectStep(a)
        BY <3>1 DEF ConnectStep, StartConnect, SendSyn, PollConnect, ConnectTimeout, AnswerClient
      <3>2. CASE ProxyStep(a)
        BY <3>2 DEF ProxyStep, ProxyStart, Drain, WriteClient, SendUpdate, Park, Resume, ProxyEnd
      <3>3. CASE ClientStep(a)
        BY <3>3 DEF ClientStep, RequestConnect, ClientSends, ClientCloses
      <3> QED
        BY <3>1, <3>2, <3>3
    <2> QED
      BY <1>1, <1>3, <2>1, AttemptGone DEF Gone
  <1>4. CASE pc[a] \in {"closing", "done", "failed"} /\ ~ProxyEnd(a)
    BY <1>4 DEF ConnectStep, StartConnect, SendSyn, PollConnect, ConnectTimeout, AnswerClient,
       ProxyStep, ProxyStart, Drain, WriteClient, SendUpdate, Park, Resume,
       ClientStep, RequestConnect, ClientSends, ClientCloses
  <1> QED
    BY <1>1, <1>2, <1>3, <1>4

\* A frame of the phone adds a unit for the owner of the connection, or none.
LEMMA PacketPipe ==
    ASSUME MuxInv, HandlePacket
    PROVE  Gone \subseteq Gone' /\ PipeKind
  <1> DEFINE f == Head(usbRx)
  <1>1. pc \in [Attempt -> PC] /\ f \in Frame
    BY DEF MuxInv, OwnOK, ChannelsOK, HandlePacket
  <1>2. UNCHANGED <<delivered, held>>
    BY DEF HandlePacket, proxyVars
  <1> HIDE DEF f
  <1>3. CASE UNCHANGED <<pc, accepted>>
    BY <1>2, <1>3 DEF Gone, PipeKind
  <1>4. ASSUME NEW p \in Live, NEW ok, OnData(p, f, ok), ~Overflows(p)
        PROVE  Gone \subseteq Gone' /\ PipeKind
    <2> DEFINE byte == [from |-> f.by, n |-> f.seq]
               a == conns[p].owner
    <2>1. a \in Attempt
      BY LiveIsConn DEF Conn
    <2>2. byte \in Byte
      BY <1>1 DEF Byte, Frame
    <2>3. /\ accepted' = [accepted EXCEPT ![a] = Append(@, byte)]
          /\ pc' = [pc EXCEPT ![a] = IF @ = "parked" THEN "woken" ELSE @]
      BY <1>4 DEF OnData, NotifyWaiters
    <2> HIDE DEF byte, a
    <2>4. Gone' = Gone
      <3>1. \A b \in Attempt : pc'[b] = pc[b] \/ (pc[b] = "parked" /\ pc'[b] = "woken")
        BY <1>1, <2>1, <2>3
      <3> QED
        BY <3>1 DEF Gone
    <2> QED
      BY <1>2, <2>1, <2>2, <2>3, <2>4 DEF PipeKind
  <1>5. CASE present /\ Matches(f) # {}
    <2>1. PICK p \in Matches(f), ok \in SendResults :
            OnSynAck(p, f, ok) \/ OnClose(p, f) \/ OnData(p, f, ok)
      BY <1>5 DEF HandlePacket, f
    <2>2. p \in Live
      BY DEF Matches
    <2>3. CASE OnSynAck(p, f, ok) \/ OnClose(p, f) \/ (OnData(p, f, ok) /\ Overflows(p))
      BY <1>3, <2>3 DEF OnSynAck, OnClose, OnData
    <2> QED
      BY <1>4, <2>1, <2>2, <2>3
  <1> QED
    BY <1>3, <1>5 DEF HandlePacket, f

\* The other steps move no byte and revive no attempt.
LEMMA OtherPipe ==
    ASSUME MuxInv, RelayInv,
           \/ HandleOut \/ HandleConnect
           \/ DisconnectCleanup \/ DisconnectUnmanage \/ DisconnectStop \/ TaskOrphaned
           \/ Phone \/ UsbGone \/ RemoveManaged \/ RemoveConns \/ UNCHANGED vars
    PROVE  Gone \subseteq Gone' /\ PipeKind
  <1>0. pc \in [Attempt -> PC]
    BY DEF MuxInv, OwnOK
  <1>1. CASE HandleOut
    BY <1>1 DEF HandleOut, proxyVars, PipeKind, Gone
  <1>2. CASE HandleConnect
    <2>1. connectQ \in Seq(Attempt) /\ connectQ # <<>>
      BY <1>2 DEF HandleConnect, MuxInv, ChannelsOK
    <2>2. Head(connectQ) \in Attempt /\ Head(connectQ) = connectQ[1] /\ 1 \in 1..Len(connectQ)
      BY <2>1
    <2>3. Head(connectQ) \notin Gone
      BY <2>2 DEF RelayInv, QueueOK, Gone
    <2>4. Gone \subseteq Gone'
      BY <1>2, <2>2, <2>3, AttemptGone DEF HandleConnect
    <2>5. PipeKind
      BY <1>2 DEF HandleConnect, proxyVars, history, PipeKind
    <2> QED
      BY <2>4, <2>5
  <1>3. CASE DisconnectCleanup \/ DisconnectStop \/ TaskOrphaned \/ RemoveConns
    <2>1. /\ UNCHANGED <<accepted, delivered, held>>
          /\ pc' \in {pc, Woken, Abandoned(pc), Abandoned(Woken)}
      BY <1>3 DEF DisconnectCleanup, DisconnectStop, TaskOrphaned, RemoveConns, proxyVars, history
    <2>2. \A a \in Attempt :
            \/ pc'[a] = pc[a]
            \/ pc[a] = "parked" /\ pc'[a] = "woken"
            \/ pc[a] = "queued" /\ pc'[a] = "failed"
      BY <1>0, <2>1 DEF Woken, Abandoned
    <2> QED
      BY <2>1, <2>2 DEF PipeKind, Gone
  <1>4. CASE Phone
    BY <1>4 DEF Phone, PhoneAnswersSyn, PhoneSendsData, PhoneCloses, PhoneSends, proxyVars,
          history, PipeKind, Gone
  <1>5. CASE UsbGone \/ DisconnectUnmanage \/ RemoveManaged \/ UNCHANGED vars
    BY <1>5 DEF UsbGone, DisconnectUnmanage, RemoveManaged, vars, proxyVars, history, PipeKind,
          Gone
  <1> QED
    BY <1>1, <1>2, <1>3, <1>4, <1>5

\* Every step is of one of the kinds.
LEMMA NextPipe ==
    ASSUME MuxInv, RelayInv, [Next]_vars
    PROVE  Gone \subseteq Gone' /\ PipeKind
  BY AttemptPipe, PacketPipe, OtherPipe DEF Next, TaskStep

\* What a sequence begins with stays its beginning when it grows, or when less of
\* it is taken; and a beginning is an initial segment.
LEMMA BeginsFacts ==
    ASSUME NEW s \in Seq(Byte), NEW h \in Seq(Byte), NEW t, Begins(s \o h, t)
    PROVE  /\ t \in Seq(Byte)
           /\ \A b \in Byte : Begins(s \o h, Append(t, b))
           /\ Begins(s \o <<>>, t)
           /\ Begins((s \o h) \o <<>>, t)
           /\ Len(s) <= Len(s \o h) /\ Len(s \o h) <= Len(t)
           /\ s \o h = SubSeq(t, 1, Len(s \o h))
  <1>1. PICK r \in Seq(Byte) : (s \o h) \o r = t
    BY DEF Begins
  <1>2. s \o h \in Seq(Byte) /\ h \o r \in Seq(Byte) /\ Len(s \o h) = Len(s) + Len(h)
    BY ConcatProperties
  <1>3. t \in Seq(Byte) /\ Len(t) = Len(s \o h) + Len(r)
    BY <1>1, <1>2, ConcatProperties
  <1> DEFINE u == s \o h
  <1>4. \A b \in Byte : Begins(u, Append(t, b))
    <2>1. ASSUME NEW b \in Byte PROVE Append(r, b) \in Seq(Byte) /\ u \o Append(r, b) = Append(t, b)
      <3> HIDE DEF u
      <3>1. u \in Seq(Byte) /\ u \o r = t
        BY <1>1, <1>2 DEF u
      <3>2. u \o Append(r, b) = Append(u \o r, b)
        BY <3>1
      <3> QED
        BY <3>1, <3>2
    <2> QED
      BY <2>1 DEF Begins
  <1>5. s \o <<>> = s /\ u \o <<>> = u
    BY <1>2, ConcatEmptySeq
  <1>6. s \o (h \o r) = t
    <2>1. (s \o h) \o r = s \o (h \o r)
      BY ConcatAssociative
    <2> QED
      BY <1>1, <2>1, Zenon
  <1>7. Begins(s \o <<>>, t) /\ Begins(u \o <<>>, t)
    BY <1>1, <1>2, <1>5, <1>6 DEF Begins
  <1>8. u = SubSeq(t, 1, Len(u))
    <2> HIDE DEF u
    <2>1. u \in Seq(Byte) /\ u \o r = t
      BY <1>1, <1>2 DEF u
    <2>2. \A i \in 1..Len(u) : t[i] = u[i]
      BY <2>1
    <2>3. Len(u) \in Nat /\ Len(u) <= Len(t) /\ t \in Seq(Byte)
      BY <1>3, <2>1 DEF u
    <2> DEFINE v == SubSeq(t, 1, Len(u))
    <2>4. v \in Seq(Byte) /\ Len(v) = Len(u) /\ \A i \in 1..Len(u) : v[i] = t[i]
      BY <2>3
    <2> HIDE DEF v
    <2>5. v = u
      BY <2>1, <2>2, <2>4
    <2> QED
      BY <2>5 DEF v
  <1> QED
    BY <1>2, <1>3, <1>4, <1>7, <1>8

\* Every step keeps the beginnings.
LEMMA PrefixInductive ==
    /\ Init => PrefixOK
    /\ MuxInv /\ RelayInv /\ PrefixOK /\ [Next]_vars => PrefixOK'
  <1>1. ASSUME Init PROVE PrefixOK
    <2>1. \A a \in Attempt : delivered[a] = <<>> /\ held[a] = <<>> /\ accepted[a] = <<>>
      BY <1>1 DEF Init
    <2>2. <<>> \in Seq(Byte) /\ (<<>> \o <<>>) \o <<>> = <<>>
      OBVIOUS
    <2>3. Begins(<<>> \o <<>>, <<>>)
      BY <2>2 DEF Begins
    <2> QED
      BY <2>1, <2>3, Zenon DEF PrefixOK
  <1>2. ASSUME MuxInv, RelayInv, PrefixOK, [Next]_vars PROVE PrefixOK'
    <2>1. /\ delivered \in [Attempt -> Seq(Byte)] /\ held \in [Attempt -> Seq(Byte)]
          /\ accepted \in [Attempt -> Seq(Byte)]
      BY <1>2 DEF MuxInv, ProxyOK, HistoryOK
    <2>2. \A a \in Attempt :
            /\ delivered[a] \in Seq(Byte) /\ held[a] \in Seq(Byte)
            /\ Begins(delivered[a] \o held[a], accepted[a])
      BY <1>2, <2>1 DEF PrefixOK
    <2>3. CASE UNCHANGED <<accepted, delivered, held>>
      BY <1>2, <2>3 DEF PrefixOK
    <2>4. ASSUME NEW a \in Attempt, Drain(a) PROVE PrefixOK'
      <3>1. UNCHANGED <<delivered, accepted>> /\ pc[a] = "drain"
        BY <2>4 DEF Drain, history
      <3>2. CASE UNCHANGED held
        BY <2>3, <3>1, <3>2
      <3>3. CASE HasConn(a) /\ held' = [held EXCEPT ![a] = conns[sport[a]].ib]
        <4> DEFINE d == delivered[a]
                   ib == conns[sport[a]].ib
        <4>1. pc[a] \in Owning \ {"writing", "closing"}
          BY <3>1 DEF Owning, Proxying
        <4>2. held[a] = <<>> /\ d \o held[a] \o ib = accepted[a]
          BY <1>2, <3>3, <4>1 DEF RelayInv, HeldOK, NoByteLostInRelay
        <4>3. d \in Seq(Byte) /\ ib \in Seq(Byte)
          BY <1>2, <2>2, <3>3, LiveIsConn DEF HasConn, Conn
        <4>4. held'[a] = ib /\ \A b \in Attempt : b # a => held'[b] = held[b]
          BY <2>1, <3>3
        <4> HIDE DEF d, ib
        <4>5. d \o <<>> = d /\ d \o ib \in Seq(Byte)
          BY <4>3, ConcatEmptySeq, ConcatProperties
        <4>6. d \o ib = accepted[a]
          BY <4>2, <4>5
        <4>7. <<>> \in Seq(Byte) /\ (d \o ib) \o <<>> = accepted[a]
          BY <4>5, <4>6, ConcatEmptySeq
        <4>8. Begins(d \o ib, accepted[a])
          BY <4>7, Zenon DEF Begins
        <4>9. Begins(delivered'[a] \o held'[a], accepted'[a])
          BY <3>1, <4>4, <4>8 DEF d
        <4> QED
          BY <2>2, <3>1, <4>4, <4>9 DEF PrefixOK
      <3> QED
        BY <2>4, <3>2, <3>3 DEF Drain
    <2>5. ASSUME NEW a \in Attempt, WriteClient(a) PROVE PrefixOK'
      <3>1. /\ UNCHANGED accepted /\ held' = [held EXCEPT ![a] = <<>>]
            /\ \/ delivered' = [delivered EXCEPT ![a] = @ \o held[a]]
               \/ delivered' = delivered
        BY <2>5 DEF WriteClient, history
      <3>2. /\ held'[a] = <<>>
            /\ delivered'[a] = delivered[a] \o held[a] \/ delivered'[a] = delivered[a]
            /\ \A b \in Attempt : b # a => held'[b] = held[b] /\ delivered'[b] = delivered[b]
        BY <2>1, <3>1
      <3>3. /\ Begins(delivered[a] \o <<>>, accepted[a])
            /\ Begins((delivered[a] \o held[a]) \o <<>>, accepted[a])
        BY <2>2, BeginsFacts
      <3>4. Begins(delivered'[a] \o held'[a], accepted'[a])
        BY <3>1, <3>2, <3>3
      <3> QED
        BY <2>2, <3>1, <3>2, <3>4 DEF PrefixOK
    <2>6. ASSUME UNCHANGED <<delivered, held>>, NEW a \in Attempt, NEW b \in Byte,
                 accepted' = [accepted EXCEPT ![a] = Append(@, b)]
          PROVE  PrefixOK'
      <3>1. /\ accepted'[a] = Append(accepted[a], b)
            /\ \A c \in Attempt : c # a => accepted'[c] = accepted[c]
        BY <2>1, <2>6
      <3>2. Begins(delivered[a] \o held[a], Append(accepted[a], b))
        BY <2>2, BeginsFacts
      <3> QED
        BY <2>2, <2>6, <3>1, <3>2 DEF PrefixOK
    <2> QED
      BY <1>2, <2>3, <2>4, <2>5, <2>6, NextPipe DEF PipeKind
  <1> QED
    BY <1>1, <1>2

\* Every step of the relay is a step of the pipes or leaves them alone.
LEMMA StepIsPipe ==
    ASSUME MuxInv, RelayInv, PrefixOK, [Next]_vars
    PROVE  [Pipe!PNext]_Pipe!pvars
  <1>1. /\ delivered \in [Attempt -> Seq(Byte)] /\ held \in [Attempt -> Seq(Byte)]
        /\ accepted \in [Attempt -> Seq(Byte)] /\ pc \in [Attempt -> PC]
    BY DEF MuxInv, ProxyOK, HistoryOK, OwnOK
  <1>2. Gone \subseteq Gone' /\ PipeKind
    BY NextPipe
  <1>3. Gone' \subseteq Attempt
    BY DEF Gone
  <1>4. ASSUME UNCHANGED <<accepted, delivered>> PROVE Pipe!PNext
    BY <1>2, <1>3, <1>4 DEF Pipe!PNext, Pipe!End, Gone
  <1>5. ASSUME NEW a \in Attempt, Drain(a) PROVE Pipe!PNext
    BY <1>4, <1>5 DEF Drain, history
  <1>6. ASSUME NEW a \in Attempt, WriteClient(a) PROVE Pipe!PNext
    <2>1. CASE delivered' = delivered
      BY <1>4, <1>6, <2>1 DEF WriteClient, history
    <2>2. CASE /\ delivered' = [delivered EXCEPT ![a] = @ \o held[a]]
               /\ pc' = [pc EXCEPT ![a] = "update"]
      <3>1. pc[a] = "writing" /\ accepted' = accepted
        BY <1>6 DEF WriteClient, history
      <3>2. Gone' = Gone /\ a \notin Gone
        BY <1>1, <2>2, <3>1 DEF Gone
      <3> DEFINE u == delivered[a] \o held[a]
      <3>3. /\ delivered[a] \in Seq(Byte) /\ held[a] \in Seq(Byte) /\ accepted[a] \in Seq(Byte)
            /\ Begins(delivered[a] \o held[a], accepted[a])
        BY <1>1 DEF PrefixOK
      <3>4. /\ Len(delivered[a]) <= Len(u) /\ Len(u) <= Len(accepted[a])
            /\ u = SubSeq(accepted[a], 1, Len(u))
        BY <3>3, BeginsFacts
      <3>5. Len(u) \in Nat /\ Len(delivered[a]) \in Nat /\ Len(accepted[a]) \in Nat
        BY <3>3, ConcatProperties, LenProperties
      <3> HIDE DEF u
      <3>6. Len(u) \in Len(delivered[a])..Len(accepted[a])
        BY <3>4, <3>5
      <3>7. delivered' = [delivered EXCEPT ![a] = SubSeq(accepted[a], 1, Len(u))]
        BY <2>2, <3>4 DEF u
      <3>8. Pipe!Deliver(a)
        BY <3>1, <3>2, <3>6, <3>7 DEF Pipe!Deliver, Gone
      <3> QED
        BY <3>8 DEF Pipe!PNext
    <2> QED
      BY <1>6, <2>1, <2>2 DEF WriteClient
  <1>7. ASSUME UNCHANGED <<delivered, held>>, Gone' = Gone, NEW a \in Attempt, NEW b \in Byte,
               accepted' = [accepted EXCEPT ![a] = Append(@, b)]
        PROVE  Pipe!PNext
    <2>1. accepted[a] \in Seq(Byte) /\ accepted'[a] = Append(accepted[a], b)
      BY <1>1, <1>7
    <2>2. Len(accepted'[a]) = Len(accepted[a]) + 1 /\ accepted'[a][Len(accepted[a]) + 1] = b
      BY <2>1
    <2>3. Pipe!Accept(a)
      BY <1>7, <2>2 DEF Pipe!Accept, Gone
    <2> QED
      BY <2>3 DEF Pipe!PNext
  <1> QED
    BY <1>2, <1>4, <1>5, <1>6, <1>7 DEF PipeKind

\* For any number of clients, ports and bytes and whatever fails, the relay is a
\* pipe for every client: it implements BytePipe.
THEOREM RelayIsPipe == Spec => ImplementsPipe
  <1>1. Init => Pipe!PInit
    BY DEF Init, Pipe!PInit
  <1>2. MuxInv /\ RelayInv /\ PrefixOK /\ [Next]_vars => [Pipe!PNext]_Pipe!pvars
    BY StepIsPipe
  <1>3. MuxInv /\ RelayInv /\ [Next]_vars => RelayInv'
    BY NextRelay
  <1> QED
    BY <1>1, <1>2, <1>3, InitRelay, PrefixInductive, MuxInvariant, PTL
       DEF Spec, ImplementsPipe, Pipe!PSpec

-----------------------------------------------------------------------------
(* The window: draining always reopens it.                                 *)

\* No send fails while the phone is there (a lost update is not repeated), and
\* the windows the code starts with are open; an empty buffer has room for one
\* unit of the window field.
LinkDelivers ==
    /\ "sendFail" \notin Faults
    /\ SynAckWindow > 0 /\ InitialWindow > 0
    /\ MaxConnBuffer >= WindowUnit

\* The session of the attempt's connection, as the phone knows it.
Sess(a) == phone[<<sport[a], conns[sport[a]].dport>>]
\* The attempt has a connection on which the phone may send.
Exposed(a) ==
    /\ pc[a] \in Owning \ {"closing"} /\ HasConn(a)
    /\ conns[sport[a]].state = "Connected"
    /\ task = "running" /\ readerUp /\ Sess(a).for = a
UpdateQueued(a) ==
    \E i \in 1..Len(dataQ) : dataQ[i].kind = "WindowUpdate" /\ dataQ[i].by = a
\* The phone may go on, or something is under way that will let it.
Relieved(a) ==
    \/ Sess(a).win > 0
    \/ conns[sport[a]].ib # <<>>
    \/ pc[a] \in {"writing", "update"}
    \/ UpdateQueued(a)
WinOK == \A a \in Attempt : Exposed(a) => Relieved(a)
\* A message to the device task names the port of the attempt that sent it.
MsgOK ==
    \A i \in 1..Len(dataQ) : /\ pc[dataQ[i].by] \notin Fresh
                             /\ dataQ[i].sport = sport[dataQ[i].by]
WindowInv == WinOK /\ MsgOK

\* An attempt that has begun keeps its port and does not begin anew.
LEMMA BegunStays ==
    ASSUME MuxInv, RelayInv, [Next]_vars, NEW b \in Attempt, pc[b] \notin Fresh
    PROVE  pc'[b] \notin Fresh /\ sport'[b] = sport[b]
  <1>1. pc \in [Attempt -> PC] /\ sport \in [Attempt -> Port \cup {0}]
    BY DEF MuxInv, OwnOK
  <1>2. ASSUME NEW a \in Attempt, ConnectStep(a)
        PROVE  pc'[b] \notin Fresh /\ sport'[b] = sport[b]
    BY <1>1, <1>2 DEF ConnectStep, StartConnect, SendSyn, PollConnect, ConnectTimeout,
                      AnswerClient, Fresh
  <1>3. ASSUME NEW a \in Attempt, ProxyStep(a)
        PROVE  pc'[b] \notin Fresh /\ sport'[b] = sport[b]
    BY <1>1, <1>3 DEF ProxyStep, ProxyStart, Drain, WriteClient, SendUpdate, Park, Resume,
                      ProxyEnd, Fresh
  <1>4. ASSUME NEW a \in Attempt, ClientStep(a)
        PROVE  pc'[b] \notin Fresh /\ sport'[b] = sport[b]
    BY <1>1, <1>4 DEF ClientStep, RequestConnect, ClientSends, ClientCloses, Fresh
  <1>5. CASE HandlePacket
    <2>1. sport' = sport
      BY <1>5 DEF HandlePacket
    <2>2. pc' = pc \/ \E a : pc' = [pc EXCEPT ![a] = IF @ = "parked" THEN "woken" ELSE @]
      BY <1>5 DEF HandlePacket, OnSynAck, OnClose, OnData, NotifyWaiters
    <2> QED BY <1>1, <2>1, <2>2 DEF Fresh
  <1>6. CASE HandleOut
    BY <1>6 DEF HandleOut
  <1>7. CASE HandleConnect
    <2>1. /\ sport' = sport /\ connectQ # <<>>
          /\ pc' = [pc EXCEPT ![Head(connectQ)] = "spawned"]
      BY <1>7 DEF HandleConnect
    <2>2. Head(connectQ) = connectQ[1] /\ 1 \in 1..Len(connectQ)
      BY <2>1 DEF MuxInv, ChannelsOK
    <2>3. pc[Head(connectQ)] = "queued"
      BY <2>2 DEF RelayInv, QueueOK
    <2>4. Head(connectQ) # b
      BY <2>3 DEF Fresh
    <2>5. pc'[b] = pc[b]
      BY <1>1, <2>1, <2>4
    <2> QED BY <2>1, <2>5
  <1>8. CASE DisconnectCleanup \/ DisconnectUnmanage \/ DisconnectStop \/ TaskOrphaned
    <2>1. sport' = sport /\ pc' \in {pc, Woken, Abandoned(pc), Abandoned(Woken)}
      BY <1>8 DEF DisconnectCleanup, DisconnectUnmanage, DisconnectStop, TaskOrphaned
    <2>2. \/ pc'[b] = pc[b]
          \/ pc'[b] \in {"woken", "failed"}
      BY <1>1, <2>1 DEF Woken, Abandoned
    <2> QED BY <2>1, <2>2 DEF Fresh
  <1>9. CASE Phone
    BY <1>9 DEF Phone, PhoneAnswersSyn, PhoneSendsData, PhoneCloses, PhoneSends
  <1>10. CASE UsbGone \/ RemoveManaged \/ RemoveConns
    BY <1>10 DEF UsbGone, RemoveManaged, RemoveConns
  <1>11. CASE UNCHANGED vars
    BY <1>11 DEF vars
  <1> QED
    BY <1>2, <1>3, <1>4, <1>5, <1>6, <1>7, <1>8, <1>9, <1>10, <1>11 DEF Next, TaskStep

\* What a step does to the messages for the device task.
LEMMA DataQueue ==
    ASSUME MuxInv, [Next]_vars
    PROVE  \/ dataQ' = dataQ \/ dataQ' = <<>>
           \/ dataQ # <<>> /\ dataQ' = Tail(dataQ)
           \/ \E a \in Attempt, kind \in {"Data", "WindowUpdate"} :
                /\ pc[a] \notin Fresh
                /\ dataQ' = Append(dataQ, [kind |-> kind, sport |-> sport[a], by |-> a])
  <1>1. ASSUME NEW a \in Attempt, ConnectStep(a) PROVE dataQ' = dataQ
    BY <1>1 DEF ConnectStep, StartConnect, SendSyn, PollConnect, ConnectTimeout,
                AnswerClient, channels
  <1>2. ASSUME NEW a \in Attempt, SendUpdate(a)
        PROVE  \/ dataQ' = dataQ
               \/ /\ pc[a] \notin Fresh
                  /\ dataQ' = Append(dataQ, [kind |-> "WindowUpdate", sport |-> sport[a], by |-> a])
    BY <1>2 DEF SendUpdate, Fresh
  <1>3. ASSUME NEW a \in Attempt, ClientSends(a)
        PROVE  \/ dataQ' = dataQ
               \/ /\ pc[a] \notin Fresh
                  /\ dataQ' = Append(dataQ, [kind |-> "Data", sport |-> sport[a], by |-> a])
    BY <1>3 DEF ClientSends, Fresh
  <1>4. ASSUME NEW a \in Attempt,
               \/ ProxyStart(a) \/ Drain(a) \/ WriteClient(a) \/ Park(a) \/ Resume(a) \/ ProxyEnd(a)
               \/ RequestConnect(a) \/ ClientCloses(a)
        PROVE  dataQ' = dataQ
    BY <1>4 DEF ProxyStart, Drain, WriteClient, Park, Resume, ProxyEnd, RequestConnect,
                ClientCloses, channels
  <1>5. CASE HandleOut
    BY <1>5 DEF HandleOut
  <1>6. CASE HandlePacket \/ HandleConnect
    BY <1>6 DEF HandlePacket, HandleConnect
  <1>7. CASE DisconnectCleanup \/ DisconnectUnmanage \/ DisconnectStop \/ TaskOrphaned
    BY <1>7 DEF DisconnectCleanup, DisconnectUnmanage, DisconnectStop, TaskOrphaned, channels
  <1>8. CASE Phone
    BY <1>8 DEF Phone, PhoneAnswersSyn, PhoneSendsData, PhoneCloses, PhoneSends
  <1>9. CASE UsbGone \/ RemoveManaged \/ RemoveConns \/ UNCHANGED vars
    BY <1>9 DEF UsbGone, RemoveManaged, RemoveConns, vars, channels
  <1>10. ASSUME NEW a \in Attempt, ConnectStep(a) \/ ProxyStep(a) \/ ClientStep(a)
         PROVE  \/ dataQ' = dataQ
                \/ \E kind \in {"Data", "WindowUpdate"} :
                    /\ pc[a] \notin Fresh
                    /\ dataQ' = Append(dataQ, [kind |-> kind, sport |-> sport[a], by |-> a])
    <2>1. CASE ConnectStep(a)
      BY <1>1, <2>1
    <2>2. CASE SendUpdate(a) \/ ClientSends(a)
      BY <1>2, <1>3, <2>2
    <2>3. CASE ~(ConnectStep(a) \/ SendUpdate(a) \/ ClientSends(a))
      BY <1>4, <1>10, <2>3 DEF ProxyStep, ClientStep
    <2> QED BY <2>1, <2>2, <2>3
  <1> QED
    BY <1>5, <1>6, <1>7, <1>8, <1>9, <1>10 DEF Next, TaskStep

\* So the messages keep naming their senders' ports.
LEMMA MessagesKept ==
    ASSUME MuxInv, RelayInv, MsgOK, [Next]_vars
    PROVE  MsgOK'
  <1>1. dataQ \in Seq(OutMsg) /\ \A i \in 1..Len(dataQ) : dataQ[i].by \in Attempt
    <2>1. dataQ \in Seq(OutMsg)
      BY DEF MuxInv, ChannelsOK
    <2>2. \A m \in OutMsg : m.by \in Attempt
      BY DEF OutMsg
    <2> QED BY <2>1, <2>2
  <1>2. ASSUME NEW i \in 1..Len(dataQ)
        PROVE  pc'[dataQ[i].by] \notin Fresh /\ dataQ[i].sport = sport'[dataQ[i].by]
    BY <1>1, <1>2, BegunStays DEF MsgOK
  <1>3. CASE dataQ' = dataQ \/ dataQ' = <<>>
    BY <1>2, <1>3 DEF MsgOK
  <1>4. CASE dataQ # <<>> /\ dataQ' = Tail(dataQ)
    <2>1. \A i \in 1..Len(dataQ') : i + 1 \in 1..Len(dataQ) /\ dataQ'[i] = dataQ[i + 1]
      BY <1>1, <1>4
    <2> QED BY <1>2, <2>1 DEF MsgOK
  <1>5. ASSUME NEW a \in Attempt, NEW kind \in {"Data", "WindowUpdate"}, pc[a] \notin Fresh,
               dataQ' = Append(dataQ, [kind |-> kind, sport |-> sport[a], by |-> a])
        PROVE  MsgOK'
    <2> DEFINE m == [kind |-> kind, sport |-> sport[a], by |-> a]
    <2>1. m.sport = sport[a] /\ m.by = a
      OBVIOUS
    <2> HIDE DEF m
    <2>2. \A i \in 1..Len(dataQ') : \/ i \in 1..Len(dataQ) /\ dataQ'[i] = dataQ[i]
                                    \/ dataQ'[i] = m
      BY <1>1, <1>5 DEF m
    <2>3. pc'[a] \notin Fresh /\ sport'[a] = sport[a]
      BY <1>5, BegunStays
    <2> QED BY <1>2, <2>1, <2>2, <2>3 DEF MsgOK
  <1> QED BY <1>3, <1>4, <1>5, DataQueue

\* The connection of an exposed attempt, and its session, are in the tables.
LEMMA ExposedFacts ==
    ASSUME MuxInv, NEW a \in Attempt, HasConn(a), pc[a] \in Owning
    PROVE  /\ sport[a] \in Port /\ sport[a] \in Live /\ present
           /\ conns[sport[a]] \in Conn /\ conns[sport[a]].owner = a
           /\ <<sport[a], conns[sport[a]].dport>> \in Port \X DPort
  <1>1. sport[a] \in Live /\ present
    BY DEF HasConn
  <1>2. sport[a] \in Port /\ conns[sport[a]] \in Conn
    BY <1>1, LiveIsConn
  <1>3. conns[sport[a]].owner = a
    BY <1>1 DEF MuxInv, OwnOK
  <1>4. conns[sport[a]].dport \in DPort
    BY <1>2 DEF Conn
  <1> QED BY <1>1, <1>2, <1>3, <1>4

\* An attempt whose connection, session and messages a step leaves alone.
LEMMA WindowSame ==
    ASSUME MuxInv, WinOK, NEW a \in Attempt, Exposed(a)', sport'[a] = sport[a],
           pc[a] \in Owning \ {"closing"}, present, sport[a] \in Live,
           conns[sport[a]].state = "Connected", task = "running", readerUp,
           conns'[sport[a]].dport = conns[sport[a]].dport,
           conns[sport[a]].ib # <<>> => conns'[sport[a]].ib # <<>>,
           phone'[<<sport[a], conns[sport[a]].dport>>].for
                = phone[<<sport[a], conns[sport[a]].dport>>].for,
           phone'[<<sport[a], conns[sport[a]].dport>>].win
                = phone[<<sport[a], conns[sport[a]].dport>>].win,
           pc[a] \in {"writing", "update"} => pc'[a] \in {"writing", "update"},
           UpdateQueued(a) => UpdateQueued(a)'
    PROVE  Relieved(a)'
  <1>1. Sess(a)' = phone'[<<sport[a], conns[sport[a]].dport>>]
    BY DEF Sess
  <1>2. Sess(a)'.for = Sess(a).for /\ Sess(a)'.win = Sess(a).win
    BY <1>1 DEF Sess
  <1>3. Sess(a)'.for = a
    BY DEF Exposed, Sess
  <1>4. Exposed(a)
    BY <1>2, <1>3 DEF Exposed, HasConn
  <1>5. Relieved(a)
    BY <1>4 DEF WinOK
  <1>6. \/ Sess(a)'.win > 0 \/ conns'[sport'[a]].ib # <<>>
        \/ pc'[a] \in {"writing", "update"} \/ UpdateQueued(a)'
    BY <1>2, <1>5 DEF Relieved
  <1> QED BY <1>6 DEF Relieved, Sess

\* A step that leaves all of them alone.
LEMMA WindowCalm ==
    ASSUME MuxInv, WinOK, sport' = sport, present' => present,
           task' = "running" => task = "running", readerUp' => readerUp,
           \A a \in Attempt : pc'[a] \in Owning \ {"closing"} =>
                /\ pc[a] \in Owning \ {"closing"}
                /\ pc[a] \in {"writing", "update"} => pc'[a] \in {"writing", "update"},
           \A p \in Live' :
                /\ p \in Live /\ conns'[p].dport = conns[p].dport
                /\ conns'[p].state = "Connected" => conns[p].state = "Connected"
                /\ conns'[p].ib = conns[p].ib,
           \A k \in Port \X DPort : phone'[k].for = phone[k].for /\ phone'[k].win = phone[k].win,
           \A a \in Attempt : UpdateQueued(a) => UpdateQueued(a)'
    PROVE  WinOK'
  <1> SUFFICES ASSUME NEW a \in Attempt, Exposed(a)' PROVE Relieved(a)'
    BY DEF WinOK
  <1>1. /\ pc'[a] \in Owning \ {"closing"} /\ present' /\ sport[a] \in Live'
        /\ conns'[sport[a]].state = "Connected" /\ task' = "running" /\ readerUp'
    BY DEF Exposed, HasConn, present
  <1>2. /\ pc[a] \in Owning \ {"closing"} /\ present /\ sport[a] \in Live
        /\ conns[sport[a]].state = "Connected" /\ task = "running" /\ readerUp
        /\ conns'[sport[a]].dport = conns[sport[a]].dport
        /\ conns'[sport[a]].ib = conns[sport[a]].ib
        /\ pc[a] \in {"writing", "update"} => pc'[a] \in {"writing", "update"}
    BY <1>1
  <1>3. <<sport[a], conns[sport[a]].dport>> \in Port \X DPort
    BY <1>2, ExposedFacts DEF HasConn
  <1> QED BY <1>2, <1>3, WindowSame

\* The attempts' steps that touch no entry, no session and no message.
LEMMA AttemptCalm ==
    ASSUME MuxInv, WinOK, NEW a \in Attempt,
           \/ PollConnect(a) \/ ConnectTimeout(a) \/ AnswerClient(a) \/ ProxyStart(a)
           \/ WriteClient(a) \/ Park(a) \/ Resume(a) \/ RequestConnect(a) \/ ClientCloses(a)
    PROVE  WinOK'
  <1>1. /\ conns' = conns /\ sport' = sport /\ phone' = phone /\ dataQ' = dataQ
        /\ removal' = removal /\ task' = task /\ readerUp' = readerUp
    BY DEF PollConnect, ConnectTimeout, AnswerClient, ProxyStart, WriteClient, Park, Resume,
           RequestConnect, ClientCloses, deviceVars, channels
  <1>2. pc \in [Attempt -> PC]
    BY DEF MuxInv, OwnOK
  <1>3. \/ pc[a] = "waiting" /\ pc' = [pc EXCEPT ![a] = "answered"]
        \/ pc[a] = "answered" /\ pc' = [pc EXCEPT ![a] = "start"]
        \/ pc[a] = "start" /\ pc' = [pc EXCEPT ![a] = "drain"]
        \/ pc[a] = "writing" /\ pc' = [pc EXCEPT ![a] = "update"]
        \/ pc[a] = "unlocked" /\ pc' = [pc EXCEPT ![a] = "woken"]
        \/ pc[a] = "unlocked" /\ pc' = [pc EXCEPT ![a] = "parked"]
        \/ pc[a] = "woken" /\ pc' = [pc EXCEPT ![a] = "drain"]
        \/ pc' = [pc EXCEPT ![a] = "queued"]
        \/ pc' = [pc EXCEPT ![a] = "failed"]
        \/ pc' = [pc EXCEPT ![a] = "closing"]
    BY DEF PollConnect, ConnectTimeout, AnswerClient, ProxyStart, WriteClient, Park, Resume,
           RequestConnect, ClientCloses
  <1>4. \A b \in Attempt : pc'[b] \in Owning \ {"closing"} =>
                /\ pc[b] \in Owning \ {"closing"}
                /\ pc[b] \in {"writing", "update"} => pc'[b] \in {"writing", "update"}
    BY <1>2, <1>3 DEF Owning, Proxying
  <1>5. Live' = Live /\ present' = present /\ \A b \in Attempt : UpdateQueued(b)' = UpdateQueued(b)
    BY <1>1 DEF Live, present, UpdateQueued
  <1> QED BY <1>1, <1>4, <1>5, WindowCalm

\* The entry is gone with the proxy.
LEMMA ProxyEndWindow ==
    ASSUME MuxInv, WinOK, NEW a \in Attempt, ProxyEnd(a)
    PROVE  WinOK'
  <1>1. /\ sport' = sport /\ phone' = phone /\ dataQ' = dataQ
        /\ removal' = removal /\ task' = task /\ readerUp' = readerUp
        /\ pc' = [pc EXCEPT ![a] = "done"]
        /\ conns' = conns \/ conns' = [conns EXCEPT ![sport[a]] = NoConn]
    BY DEF ProxyEnd, deviceVars, channels
  <1>2. pc \in [Attempt -> PC] /\ conns \in [Port -> Conn \cup {NoConn}]
    BY DEF MuxInv, OwnOK, ConnsOK
  <1>3. \A b \in Attempt : pc'[b] \in Owning \ {"closing"} => pc'[b] = pc[b]
    BY <1>1, <1>2 DEF Owning, Proxying
  <1>4. \A p \in Live' : p \in Live /\ conns'[p] = conns[p]
    BY <1>1, <1>2 DEF Live
  <1>5. present' = present /\ \A b \in Attempt : UpdateQueued(b)' = UpdateQueued(b)
    BY <1>1 DEF present, UpdateQueued
  <1> QED BY <1>1, <1>3, <1>4, <1>5, WindowCalm

\* A client sends: the window message, if any, stays in the channel.
LEMMA ClientSendsWindow ==
    ASSUME MuxInv, WinOK, NEW a \in Attempt, ClientSends(a)
    PROVE  WinOK'
  <1>1. /\ sport' = sport /\ phone' = phone /\ conns' = conns
        /\ removal' = removal /\ task' = task /\ readerUp' = readerUp
        /\ pc[a] \in {"parked", "woken"}
        /\ \/ pc' = [pc EXCEPT ![a] = "drain"]
           \/ pc' = [pc EXCEPT ![a] = "closing"]
        /\ \/ dataQ' = dataQ
           \/ dataQ' = Append(dataQ, [kind |-> "Data", sport |-> sport[a], by |-> a])
    BY DEF ClientSends, deviceVars
  <1>2. pc \in [Attempt -> PC] /\ dataQ \in Seq(OutMsg)
    BY DEF MuxInv, OwnOK, ChannelsOK
  <1>3. \A b \in Attempt : pc'[b] \in Owning \ {"closing"} =>
                /\ pc[b] \in Owning \ {"closing"}
                /\ pc[b] \in {"writing", "update"} => pc'[b] \in {"writing", "update"}
    BY <1>1, <1>2 DEF Owning, Proxying
  <1>4. \A i \in 1..Len(dataQ) : i \in 1..Len(dataQ') /\ dataQ'[i] = dataQ[i]
    BY <1>1, <1>2
  <1>5. \A b \in Attempt : UpdateQueued(b) => UpdateQueued(b)'
    BY <1>4 DEF UpdateQueued
  <1>6. Live' = Live /\ present' = present
    BY <1>1 DEF Live, present
  <1> QED BY <1>1, <1>3, <1>5, <1>6, WindowCalm

\* The proxy that has drained puts its window update into the channel.
LEMMA SendUpdateWindow ==
    ASSUME MuxInv, WinOK, NEW a \in Attempt, SendUpdate(a)
    PROVE  WinOK'
  <1> DEFINE m == [kind |-> "WindowUpdate", sport |-> sport[a], by |-> a]
  <1>1. /\ sport' = sport /\ phone' = phone /\ conns' = conns
        /\ removal' = removal /\ task' = task /\ readerUp' = readerUp
        /\ pc[a] = "update"
        /\ \/ dataQ' = Append(dataQ, m) /\ pc' = [pc EXCEPT ![a] = "drain"]
           \/ dataQ' = dataQ /\ pc' = [pc EXCEPT ![a] = "closing"]
    BY DEF SendUpdate, deviceVars
  <1>2. pc \in [Attempt -> PC] /\ dataQ \in Seq(OutMsg)
    BY DEF MuxInv, OwnOK, ChannelsOK
  <1>3. m.kind = "WindowUpdate" /\ m.by = a
    OBVIOUS
  <1> HIDE DEF m
  <1>4. \A i \in 1..Len(dataQ) : i \in 1..Len(dataQ') /\ dataQ'[i] = dataQ[i]
    BY <1>1, <1>2
  <1>5. \A b \in Attempt : UpdateQueued(b) => UpdateQueued(b)'
    BY <1>4 DEF UpdateQueued
  <1> SUFFICES ASSUME NEW b \in Attempt, Exposed(b)' PROVE Relieved(b)'
    BY DEF WinOK
  <1>6. /\ pc'[b] \in Owning \ {"closing"} /\ present /\ sport[b] \in Live
        /\ conns[sport[b]].state = "Connected" /\ task = "running" /\ readerUp
    BY <1>1 DEF Exposed, HasConn, present, Live
  <1>7. CASE b = a
    <2>1. dataQ' = Append(dataQ, m)
      BY <1>1, <1>2, <1>6, <1>7
    <2>2. Len(dataQ) + 1 \in 1..Len(dataQ') /\ dataQ'[Len(dataQ) + 1] = m
      BY <1>2, <2>1
    <2>3. UpdateQueued(a)'
      BY <1>3, <2>2 DEF UpdateQueued
    <2> QED BY <1>7, <2>3 DEF Relieved
  <1>8. CASE b # a
    <2>1. pc'[b] = pc[b]
      BY <1>1, <1>2, <1>8
    <2> QED BY <1>1, <1>5, <1>6, <2>1, WindowSame
  <1> QED BY <1>7, <1>8

\* The proxy takes the buffer: what it took is written and then announced.
LEMMA DrainWindow ==
    ASSUME MuxInv, WinOK, NEW a \in Attempt, Drain(a)
    PROVE  WinOK'
  <1>1. /\ sport' = sport /\ phone' = phone /\ dataQ' = dataQ
        /\ removal' = removal /\ task' = task /\ readerUp' = readerUp
        /\ pc[a] = "drain"
    BY DEF Drain, deviceVars, channels
  <1>2. pc \in [Attempt -> PC] /\ conns \in [Port -> Conn \cup {NoConn}]
    BY DEF MuxInv, OwnOK, ConnsOK
  <1>3. \A b \in Attempt : UpdateQueued(b) => UpdateQueued(b)'
    BY <1>1 DEF UpdateQueued
  <1> SUFFICES ASSUME NEW b \in Attempt, Exposed(b)' PROVE Relieved(b)'
    BY DEF WinOK
  <1>4. /\ pc'[b] \in Owning \ {"closing"} /\ present /\ sport[b] \in Live'
        /\ conns'[sport[b]].state = "Connected" /\ task = "running" /\ readerUp
    BY <1>1 DEF Exposed, HasConn, present
  <1>5. CASE HasConn(a) /\ conns[sport[a]].state = "Connected"
    <2> DEFINE q == sport[a]
               new == [conns[q] EXCEPT !.ib = <<>>]
    <2>1. /\ conns' = [conns EXCEPT ![q].ib = <<>>]
          /\ pc' = [pc EXCEPT ![a] = IF conns[q].ib # <<>> THEN "writing" ELSE "unlocked"]
      BY <1>5 DEF Drain
    <2>2. q \in Port /\ q \in Live /\ conns[q] \in Conn /\ conns[q].owner = a
      BY <1>1, <1>5, ExposedFacts DEF Owning, Proxying
    <2>3. conns' = [conns EXCEPT ![q] = new]
      BY <2>1
    <2>4. new.ib = <<>> /\ new.dport = conns[q].dport /\ new.state = conns[q].state
      BY <2>2 DEF Conn
    <2> HIDE DEF new
    <2>5. conns'[q] = new /\ \A p \in Port \ {q} : conns'[p] = conns[p]
      BY <1>2, <2>2, <2>3
    <2>6. pc[b] \in Owning \ {"closing"}
      BY <1>1, <1>2, <1>4, <2>1 DEF Owning, Proxying
    <2>7. sport[b] \in Live
      BY <1>4, <2>2, <2>5 DEF Live
    <2>8. CASE b # a
      <3>1. conns[sport[b]].owner = b /\ sport[b] \in Port
        BY <1>4, <2>6, <2>7, ExposedFacts DEF HasConn
      <3>2. sport[b] # q
        BY <2>2, <2>8, <3>1
      <3>3. conns'[sport[b]] = conns[sport[b]] /\ pc'[b] = pc[b]
        BY <1>2, <2>1, <2>5, <2>8, <3>1, <3>2
      <3> QED BY <1>1, <1>3, <1>4, <2>6, <2>7, <3>3, WindowSame
    <2>9. CASE b = a /\ conns[q].ib # <<>>
      <3>1. pc'[a] = "writing"
        BY <1>2, <2>1, <2>9
      <3> QED BY <2>9, <3>1 DEF Relieved
    <2>10. CASE b = a /\ conns[q].ib = <<>>
      BY <1>1, <1>3, <1>4, <1>5, <2>2, <2>4, <2>5, <2>6, <2>10, WindowSame
    <2> QED BY <2>8, <2>9, <2>10
  <1>6. CASE ~(HasConn(a) /\ conns[sport[a]].state = "Connected")
    <2>1. conns' = conns /\ pc' = [pc EXCEPT ![a] = "closing"]
      BY <1>6 DEF Drain
    <2>2. pc'[b] = pc[b]
      BY <1>2, <1>4, <2>1
    <2>3. sport[b] \in Live
      BY <1>4, <2>1 DEF Live
    <2> QED BY <1>1, <1>3, <1>4, <2>1, <2>2, <2>3, WindowSame
  <1> QED BY <1>5, <1>6

\* A new entry is not connected yet, and its port was nobody's.
LEMMA StartConnectWindow ==
    ASSUME MuxInv, WinOK, NEW a \in Attempt, StartConnect(a)
    PROVE  WinOK'
  <1>1. /\ phone' = phone /\ dataQ' = dataQ
        /\ removal' = removal /\ task' = task /\ readerUp' = readerUp
        /\ pc[a] = "spawned"
    BY DEF StartConnect, deviceVars, channels
  <1>2. /\ pc \in [Attempt -> PC] /\ conns \in [Port -> Conn \cup {NoConn}]
        /\ sport \in [Attempt -> Port \cup {0}]
    BY DEF MuxInv, OwnOK, ConnsOK
  <1>3. \A b \in Attempt : UpdateQueued(b) => UpdateQueued(b)'
    BY <1>1 DEF UpdateQueued
  <1> SUFFICES ASSUME NEW b \in Attempt, Exposed(b)' PROVE Relieved(b)'
    BY DEF WinOK
  <1>4. /\ pc'[b] \in Owning \ {"closing"} /\ present /\ sport'[b] \in Live'
        /\ conns'[sport'[b]].state = "Connected" /\ task = "running" /\ readerUp
    BY <1>1 DEF Exposed, HasConn, present
  <1>5. CASE present /\ Port \ Live # {}
    <2>1. FreePort \in Port /\ FreePort \notin Live
      BY <1>5, FreePortFree
    <2>2. PICK d \in DPort : conns' = [conns EXCEPT ![FreePort] = NewConn(a, d)]
      BY <1>5 DEF StartConnect
    <2>3. /\ pc' = [pc EXCEPT ![a] = "syn"] /\ sport' = [sport EXCEPT ![a] = FreePort]
      BY <1>5 DEF StartConnect
    <2>4. conns'[FreePort].state = "SynSent"
      BY <1>2, <2>1, <2>2 DEF NewConn
    <2>5. b # a
      BY <1>2, <1>4, <2>3, <2>4
    <2>6. sport'[b] = sport[b] /\ pc'[b] = pc[b] /\ sport[b] # FreePort
      BY <1>2, <1>4, <2>3, <2>4, <2>5
    <2>7. sport[b] \in Port
      BY <1>4, <2>6 DEF Live
    <2>8. conns'[sport[b]] = conns[sport[b]]
      BY <1>2, <2>1, <2>2, <2>6, <2>7
    <2>9. sport[b] \in Live
      BY <1>4, <2>6, <2>8 DEF Live
    <2> QED BY <1>1, <1>3, <1>4, <2>6, <2>8, <2>9, WindowSame
  <1>6. CASE ~(present /\ Port \ Live # {})
    <2>1. conns' = conns /\ sport' = sport /\ pc' = [pc EXCEPT ![a] = "failed"]
      BY <1>6 DEF StartConnect
    <2>2. pc'[b] = pc[b]
      BY <1>2, <1>4, <2>1 DEF Owning, Proxying
    <2>3. sport[b] \in Live
      BY <1>4, <2>1 DEF Live
    <2> QED BY <1>1, <1>3, <1>4, <2>1, <2>2, <2>3, WindowSame
  <1> QED BY <1>5, <1>6

\* The SYN opens a session with an open window.
LEMMA SendSynWindow ==
    ASSUME MuxInv, WinOK, LinkDelivers, NEW a \in Attempt, SendSyn(a)
    PROVE  WinOK'
  <1>1. /\ conns' = conns /\ sport' = sport /\ dataQ' = dataQ
        /\ removal' = removal /\ task' = task /\ readerUp' = readerUp
        /\ pc[a] = "syn"
        /\ pc' = [pc EXCEPT ![a] = "waiting"] \/ pc' = [pc EXCEPT ![a] = "failed"]
    BY DEF SendSyn, deviceVars, channels
  <1>2. /\ pc \in [Attempt -> PC] /\ phone \in [Port \X DPort -> Session]
    BY DEF MuxInv, OwnOK, PhoneOK
  <1>3. \A b \in Attempt : UpdateQueued(b) => UpdateQueued(b)'
    BY <1>1 DEF UpdateQueued
  <1> SUFFICES ASSUME NEW b \in Attempt, Exposed(b)' PROVE Relieved(b)'
    BY DEF WinOK
  <1> DEFINE j == <<sport[b], conns[sport[b]].dport>>
             k == <<sport[a], conns[sport[a]].dport>>
             new == [for |-> a, st |-> "syn", sent |-> 0, acked |-> 0, win |-> InitialWindow]
  <1>4. /\ pc'[b] \in Owning \ {"closing"} /\ present /\ sport[b] \in Live
        /\ conns[sport[b]].state = "Connected" /\ task = "running" /\ readerUp
    BY <1>1 DEF Exposed, HasConn, present, Live
  <1>5. /\ pc[b] \in Owning \ {"closing"}
        /\ pc[b] \in {"writing", "update"} => pc'[b] \in {"writing", "update"}
    BY <1>1, <1>2, <1>4 DEF Owning, Proxying
  <1>6. j \in Port \X DPort
    BY <1>4, <1>5, ExposedFacts DEF HasConn
  <1>7. phone' = phone \/ phone' = [phone EXCEPT ![k] = new]
    BY DEF SendSyn
  <1>8. new.win = InitialWindow
    OBVIOUS
  <1>9. Sess(b)' = phone'[j]
    BY <1>1 DEF Sess
  <1> HIDE DEF j, k, new
  <1>10. CASE phone'[j] = phone[j]
    BY <1>1, <1>3, <1>4, <1>5, <1>10, WindowSame DEF j
  <1>11. CASE phone'[j] # phone[j]
    <2>1. phone'[j] = new
      BY <1>2, <1>6, <1>7, <1>11
    <2>2. Sess(b)'.win > 0
      BY <1>8, <1>9, <2>1 DEF LinkDelivers
    <2> QED BY <2>2 DEF Relieved, Sess
  <1> QED BY <1>10, <1>11

\* Steps of the phone, the scanner and the task that open no window and close
\* none: nobody is exposed once the task has left its loop.
LEMMA QuietWindow ==
    ASSUME MuxInv, WinOK,
           \/ Phone \/ UsbGone \/ RemoveManaged \/ RemoveConns \/ UNCHANGED vars
           \/ HandleConnect \/ DisconnectCleanup \/ DisconnectUnmanage
           \/ DisconnectStop \/ TaskOrphaned
    PROVE  WinOK'
  <1>1. CASE DisconnectCleanup \/ DisconnectUnmanage \/ DisconnectStop \/ TaskOrphaned
    <2>1. task' # "running"
      BY <1>1 DEF DisconnectCleanup, DisconnectUnmanage, DisconnectStop, TaskOrphaned
    <2> QED BY <2>1 DEF WinOK, Exposed
  <1>2. CASE RemoveConns
    <2>1. ~present'
      BY <1>2 DEF RemoveConns, present
    <2> QED BY <2>1 DEF WinOK, Exposed, HasConn, present
  <1>3. CASE UsbGone \/ RemoveManaged \/ UNCHANGED vars
    <2>1. /\ conns' = conns /\ sport' = sport /\ phone' = phone /\ dataQ' = dataQ /\ pc' = pc
          /\ task' = task /\ (readerUp' => readerUp)
          /\ removal' = removal \/ removal = "none"
      BY <1>3 DEF UsbGone, RemoveManaged, vars, deviceVars, channels
    <2>2. Live' = Live /\ (present' => present)
          /\ \A b \in Attempt : UpdateQueued(b)' = UpdateQueued(b)
      BY <2>1 DEF Live, present, UpdateQueued
    <2> QED BY <2>1, <2>2, WindowCalm
  <1>4. CASE HandleConnect
    <2>1. /\ conns' = conns /\ sport' = sport /\ phone' = phone /\ dataQ' = dataQ
          /\ task' = task /\ readerUp' = readerUp /\ removal' = removal
          /\ pc' = [pc EXCEPT ![Head(connectQ)] = "spawned"]
      BY <1>4 DEF HandleConnect, deviceVars
    <2>2. Live' = Live /\ present' = present
          /\ \A b \in Attempt : UpdateQueued(b)' = UpdateQueued(b)
      BY <2>1 DEF Live, present, UpdateQueued
    <2>3. pc \in [Attempt -> PC]
      BY DEF MuxInv, OwnOK
    <2>4. \A b \in Attempt : pc'[b] \in Owning \ {"closing"} => pc'[b] = pc[b]
      BY <2>1, <2>3 DEF Owning, Proxying
    <2> QED BY <2>1, <2>2, <2>4, WindowCalm
  <1>5. CASE Phone
    <2>1. PICK k \in Port \X DPort :
            PhoneAnswersSyn(k) \/ PhoneSendsData(k) \/ PhoneCloses(k)
      BY <1>5 DEF Phone
    <2>2. /\ conns' = conns /\ sport' = sport /\ dataQ' = dataQ /\ pc' = pc
          /\ task' = task /\ readerUp' = readerUp /\ removal' = removal
      BY <2>1 DEF PhoneAnswersSyn, PhoneSendsData, PhoneCloses, PhoneSends, deviceVars
    <2>3. \/ \E x : phone' = [phone EXCEPT ![k].st = x]
          \/ phone' = [phone EXCEPT ![k].sent = @ + 1]
      BY <2>1 DEF PhoneAnswersSyn, PhoneSendsData, PhoneCloses
    <2>4. phone \in [Port \X DPort -> Session] /\ phone[k] \in Session
      BY DEF MuxInv, PhoneOK
    <2>5. \A j \in Port \X DPort : phone'[j].for = phone[j].for /\ phone'[j].win = phone[j].win
      <3>1. ASSUME NEW new, phone' = [phone EXCEPT ![k] = new],
                   new.for = phone[k].for, new.win = phone[k].win
            PROVE  \A j \in Port \X DPort : phone'[j].for = phone[j].for /\ phone'[j].win = phone[j].win
        BY <2>4, <3>1
      <3>2. ASSUME NEW x, phone' = [phone EXCEPT ![k].st = x]
            PROVE  \E new : /\ phone' = [phone EXCEPT ![k] = new]
                            /\ new.for = phone[k].for /\ new.win = phone[k].win
        <4> DEFINE new == [phone[k] EXCEPT !.st = x]
        <4>1. phone' = [phone EXCEPT ![k] = new]
          BY <3>2
        <4>2. new.for = phone[k].for /\ new.win = phone[k].win
          BY <2>4 DEF Session
        <4> HIDE DEF new
        <4> QED BY <4>1, <4>2
      <3>3. ASSUME phone' = [phone EXCEPT ![k].sent = @ + 1]
            PROVE  \E new : /\ phone' = [phone EXCEPT ![k] = new]
                            /\ new.for = phone[k].for /\ new.win = phone[k].win
        <4> DEFINE new == [phone[k] EXCEPT !.sent = @ + 1]
        <4>1. phone' = [phone EXCEPT ![k] = new]
          BY <3>3
        <4>2. new.for = phone[k].for /\ new.win = phone[k].win
          BY <2>4 DEF Session
        <4> HIDE DEF new
        <4> QED BY <4>1, <4>2
      <3> QED BY <2>3, <3>1, <3>2, <3>3
    <2>6. Live' = Live /\ present' = present
          /\ \A b \in Attempt : UpdateQueued(b)' = UpdateQueued(b)
      BY <2>2 DEF Live, present, UpdateQueued
    <2> QED BY <2>2, <2>5, <2>6, WindowCalm
  <1> QED BY <1>1, <1>2, <1>3, <1>4, <1>5

\* An ACK touches its own session only, and not whose it is.
LEMMA AckedWindow ==
    ASSUME MuxInv, NEW p \in Port, NEW d \in DPort, NEW ack, NEW win,
           NEW ok \in BOOLEAN, PhoneAcked(p, d, ack, win, ok)
    PROVE  /\ \A j \in Port \X DPort : phone'[j].for = phone[j].for
           /\ \A j \in Port \X DPort : j # <<p, d>> => phone'[j] = phone[j]
  <1> DEFINE k == <<p, d>>
             new == [phone[k] EXCEPT !.acked = IF ack > @ THEN ack ELSE @, !.win = win]
  <1>1. k \in Port \X DPort
    OBVIOUS
  <1>2. phone \in [Port \X DPort -> Session] /\ phone[k] \in Session
    BY <1>1 DEF MuxInv, PhoneOK
  <1>3. new.for = phone[k].for
    BY <1>2 DEF Session
  <1>4. phone' = phone \/ phone' = [phone EXCEPT ![k] = new]
    BY <1>1, <1>2 DEF PhoneAcked
  <1> HIDE DEF new, k
  <1>5. /\ \A j \in Port \X DPort : phone'[j].for = phone[j].for
        /\ \A j \in Port \X DPort : j # k => phone'[j] = phone[j]
    BY <1>1, <1>2, <1>3, <1>4
  <1> QED BY <1>5 DEF k

\* An ACK that reaches the phone sets the window of its session.
LEMMA AckedOpens ==
    ASSUME MuxInv, NEW p \in Port, NEW d \in DPort, NEW ack \in Nat, NEW win \in Nat,
           readerUp, PhoneAcked(p, d, ack, win, TRUE)
    PROVE  phone'[<<p, d>>].win = win
  <1> DEFINE k == <<p, d>>
             new == [phone[k] EXCEPT !.acked = IF ack > @ THEN ack ELSE @, !.win = win]
  <1>1. k \in Port \X DPort
    OBVIOUS
  <1>2. phone \in [Port \X DPort -> Session] /\ phone[k] \in Session
    BY <1>1 DEF MuxInv, PhoneOK
  <1>3. new.win = win
    BY <1>2 DEF Session
  <1>4. phone' = [phone EXCEPT ![k] = new]
    BY <1>1, <1>2 DEF PhoneAcked
  <1> HIDE DEF new, k
  <1>5. phone'[k].win = win
    BY <1>1, <1>2, <1>3, <1>4
  <1> QED BY <1>5 DEF k

\* An empty buffer is announced as an open window.
LEMMA EmptyIsOpen ==
    ASSUME LinkDelivers
    PROVE  ScaledWindow(MaxConnBuffer) > 0
  <1>1. \A m, u \in Nat : u > 0 /\ m >= u => (m \div u) \in Nat /\ (m \div u) >= 1
    OBVIOUS
  <1>2. \A x, u \in Nat : x >= 1 /\ u > 0 => x * u > 0
    OBVIOUS
  <1>3. /\ WindowUnit \in Nat /\ WindowUnit > 0 /\ MaxConnBuffer \in Nat
        /\ MaxConnBuffer >= WindowUnit
    BY MuxConstants DEF LinkDelivers
  <1> DEFINE x == MaxConnBuffer \div WindowUnit
  <1>4. x \in Nat /\ x >= 1
    BY <1>1, <1>3
  <1>5. ScaledWindow(MaxConnBuffer) = x * WindowUnit
    BY DEF ScaledWindow
  <1> HIDE DEF x
  <1> QED BY <1>2, <1>3, <1>4, <1>5

\* A frame from the phone: an ACK of a SYN-ACK opens the window; data that
\* closes it is in the buffer for the proxy to drain.
LEMMA HandlePacketWindow ==
    ASSUME MuxInv, WinOK, LinkDelivers, HandlePacket
    PROVE  WinOK'
  <1> DEFINE f == Head(usbRx)
  <1>1. /\ sport' = sport /\ dataQ' = dataQ
        /\ removal' = removal /\ task' = task /\ readerUp' = readerUp
    BY DEF HandlePacket, deviceVars
  <1>2. /\ pc \in [Attempt -> PC] /\ conns \in [Port -> Conn \cup {NoConn}]
    BY DEF MuxInv, OwnOK, ConnsOK
  <1>3. \A b \in Attempt : UpdateQueued(b) => UpdateQueued(b)'
    BY <1>1 DEF UpdateQueued
  <1>4. SendResults = {TRUE}
    BY DEF SendResults, LinkDelivers
  <1>0. f \in Frame
    BY DEF HandlePacket, MuxInv, ChannelsOK
  <1> HIDE DEF f
  <1> SUFFICES ASSUME NEW b \in Attempt, Exposed(b)' PROVE Relieved(b)'
    BY DEF WinOK
  <1>5. /\ pc'[b] \in Owning \ {"closing"} /\ present /\ sport[b] \in Live'
        /\ conns'[sport[b]].state = "Connected" /\ task = "running" /\ readerUp
    BY <1>1 DEF Exposed, HasConn, present
  <1>6. CASE UNCHANGED <<conns, pc, accepted, phone>>
    <2>1. sport[b] \in Live
      BY <1>5, <1>6 DEF Live
    <2> QED BY <1>1, <1>3, <1>5, <1>6, <2>1, WindowSame
  <1>7. ASSUME NEW p \in Live, NEW new, conns' = [conns EXCEPT ![p] = new],
               new.dport = conns[p].dport,
               \/ pc' = pc
               \/ pc' = [pc EXCEPT ![conns[p].owner] = IF @ = "parked" THEN "woken" ELSE @],
               \A j \in Port \X DPort : j # <<p, conns[p].dport>> => phone'[j] = phone[j],
               \/ phone'[<<p, conns[p].dport>>].win > 0
               \/ new.state # "Connected"
               \/ new.ib # <<>>
        PROVE  Relieved(b)'
    <2>1. p \in Port /\ conns[p] \in Conn
      BY LiveIsConn
    <2>2. conns'[p] = new /\ \A q \in Port \ {p} : conns'[q] = conns[q]
      BY <1>2, <1>7, <2>1
    <2>3. /\ pc[b] \in Owning \ {"closing"}
          /\ pc[b] \in {"writing", "update"} => pc'[b] \in {"writing", "update"}
      BY <1>2, <1>5, <1>7 DEF Owning, Proxying
    <2>4. CASE sport[b] = p
      <3>1. Sess(b)' = phone'[<<p, conns[p].dport>>]
        BY <1>1, <1>7, <2>2, <2>4 DEF Sess
      <3>2. phone'[<<p, conns[p].dport>>].win > 0 \/ new.ib # <<>>
        BY <1>5, <1>7, <2>2, <2>4
      <3>3. Sess(b)'.win > 0 \/ conns'[sport'[b]].ib # <<>>
        BY <1>1, <2>2, <2>4, <3>1, <3>2
      <3> QED BY <3>3 DEF Relieved, Sess
    <2>5. CASE sport[b] # p
      <3>1. sport[b] \in Port
        BY <1>5 DEF Live
      <3>2. conns'[sport[b]] = conns[sport[b]]
        BY <2>2, <2>5, <3>1
      <3>3. sport[b] \in Live
        BY <1>5, <3>1, <3>2 DEF Live
      <3>4. <<sport[b], conns[sport[b]].dport>> \in Port \X DPort
        BY <1>5, <2>3, <3>3, ExposedFacts DEF HasConn
      <3>5. <<sport[b], conns[sport[b]].dport>> # <<p, conns[p].dport>>
        BY <2>5
      <3>6. phone'[<<sport[b], conns[sport[b]].dport>>] = phone[<<sport[b], conns[sport[b]].dport>>]
        BY <1>7, <3>4, <3>5
      <3> QED BY <1>1, <1>3, <1>5, <2>3, <3>2, <3>3, <3>6, WindowSame
    <2> QED BY <2>4, <2>5
  <1>8. CASE present /\ Matches(f) # {}
    <2>1. PICK p \in Matches(f), ok \in SendResults :
            OnSynAck(p, f, ok) \/ OnClose(p, f) \/ OnData(p, f, ok)
      BY <1>8 DEF HandlePacket, f
    <2>2. p \in Live /\ ok \in BOOLEAN /\ ok = TRUE
      BY <1>4 DEF Matches
    <2>3. p \in Port /\ conns[p] \in Conn /\ conns[p].dport \in DPort
      BY <2>2, LiveIsConn DEF Conn
    <2>4. CASE OnSynAck(p, f, ok)
      <3> DEFINE new == [conns[p] EXCEPT !.state = "Connected", !.ack = f.seq]
      <3>1. conns' = [conns EXCEPT ![p] = new] /\ pc' = pc
        BY <2>4, <2>3, <1>2 DEF OnSynAck
      <3>2. new.dport = conns[p].dport
        BY <2>3 DEF Conn
      <3> HIDE DEF new
      <3>3. PhoneAcked(p, conns[p].dport, f.seq, SynAckWindow, ok)
        BY <2>4 DEF OnSynAck
      <3>4. \A j \in Port \X DPort : j # <<p, conns[p].dport>> => phone'[j] = phone[j]
        BY <2>2, <2>3, <3>3, AckedWindow
      <3>5. phone'[<<p, conns[p].dport>>].win > 0
        <4>1. f.seq \in Nat /\ SynAckWindow \in Nat
          BY <1>0, MuxConstants DEF Frame
        <4>2. PhoneAcked(p, conns[p].dport, f.seq, SynAckWindow, TRUE)
          BY <2>2, <3>3
        <4>3. phone'[<<p, conns[p].dport>>].win = SynAckWindow
          BY <1>5, <2>3, <4>1, <4>2, AckedOpens
        <4> QED BY <4>3 DEF LinkDelivers
      <3> QED BY <1>7, <2>2, <3>1, <3>2, <3>4, <3>5
    <2>5. CASE OnClose(p, f)
      <3> DEFINE st == IF f.kind = "Rst" THEN "Dead" ELSE "CloseWait"
                 new == [conns[p] EXCEPT !.state = st]
      <3>1. conns' = [conns EXCEPT ![p] = new] /\ pc' = pc /\ phone' = phone
        BY <2>5 DEF OnClose
      <3>2. st # "Connected"
        OBVIOUS
      <3> HIDE DEF st
      <3>3. new.dport = conns[p].dport /\ new.state # "Connected"
        BY <2>3, <3>2 DEF Conn
      <3> HIDE DEF new
      <3> QED BY <1>7, <2>2, <3>1, <3>3
    <2>6. CASE OnData(p, f, ok) /\ Overflows(p)
      BY <1>6, <2>6 DEF OnData
    <2>7. CASE OnData(p, f, ok) /\ ~Overflows(p)
      <3> DEFINE c == conns[p]
                 byte == [from |-> f.by, n |-> f.seq]
                 more == Append(c.ib, byte)
                 new == [c EXCEPT !.ib = more, !.ack = f.seq + 1]
      <3>1. conns' = [conns EXCEPT ![p] = new]
        BY <1>2, <2>3, <2>7 DEF OnData
      <3>2. /\ pc' = [pc EXCEPT ![c.owner] = IF @ = "parked" THEN "woken" ELSE @]
            /\ PhoneAcked(p, c.dport, f.seq + 1, ScaledWindow(FreeBuffer(c) - 1), ok)
        BY <2>7 DEF OnData, NotifyWaiters
      <3>3. Len(more) = Len(c.ib) + 1
        BY <2>3 DEF Conn
      <3>4. Len(c.ib) \in Nat
        BY <2>3 DEF Conn
      <3> HIDE DEF more
      <3>5. more # <<>>
        <4>1. Len(more) # 0
          BY <3>3, <3>4
        <4> QED BY <4>1
      <3>6. new.dport = c.dport /\ new.ib = more
        BY <2>3 DEF Conn
      <3> HIDE DEF new
      <3>7. \A j \in Port \X DPort : j # <<p, c.dport>> => phone'[j] = phone[j]
        BY <2>2, <2>3, <3>2, AckedWindow
      <3>8. new.ib # <<>>
        BY <3>5, <3>6
      <3> QED BY <1>7, <2>2, <3>1, <3>2, <3>6, <3>7, <3>8
    <2> QED BY <2>1, <2>4, <2>5, <2>6, <2>7
  <1> QED BY <1>6, <1>8 DEF HandlePacket, f

\* A message of a proxy: the update of a drained buffer opens the window, and a
\* message of another attempt concerns another port.
LEMMA HandleOutWindow ==
    ASSUME MuxInv, WinOK, MsgOK, LinkDelivers, HandleOut
    PROVE  WinOK'
  <1> DEFINE m == Head(dataQ)
  <1>1. /\ sport' = sport /\ conns' = conns /\ pc' = pc
        /\ removal' = removal /\ task' = task /\ readerUp' = readerUp
        /\ dataQ # <<>> /\ dataQ' = Tail(dataQ)
    BY DEF HandleOut, deviceVars
  <1>2. SendResults = {TRUE}
    BY DEF SendResults, LinkDelivers
  <1>3. PICK ok \in SendResults : SendClientData(m, ok) \/ SendWindowUpdate(m, ok)
    BY DEF HandleOut
  <1>0. ok \in BOOLEAN /\ ok = TRUE
    BY <1>2
  <1>4. dataQ \in Seq(OutMsg) /\ 1 \in 1..Len(dataQ) /\ m = dataQ[1]
    BY <1>1 DEF MuxInv, ChannelsOK
  <1>5. m \in OutMsg /\ m.sport = sport[m.by]
    BY <1>4 DEF MsgOK
  <1>6. \A i \in 1..Len(dataQ) : i # 1 => /\ i - 1 \in 1..Len(dataQ')
                                          /\ dataQ'[i - 1] = dataQ[i]
    BY <1>1, <1>4
  <1> HIDE DEF m
  <1> SUFFICES ASSUME NEW b \in Attempt, Exposed(b)' PROVE Relieved(b)'
    BY DEF WinOK
  <1> DEFINE p == sport[b]
             c == conns[p]
             j == <<p, c.dport>>
  <1>7. /\ pc[b] \in Owning \ {"closing"} /\ present /\ p \in Live
        /\ c.state = "Connected" /\ task = "running" /\ readerUp
    BY <1>1 DEF Exposed, HasConn, present, Live
  <1>8. p \in Port /\ c \in Conn /\ c.dport \in DPort /\ j \in Port \X DPort
    BY <1>7, ExposedFacts DEF HasConn, Conn
  <1>9. Sess(b)' = phone'[j]
    BY <1>1 DEF Sess
  <1>10. CASE m.sport = p /\ m.kind = "Data"
    <2>1. PhoneAcked(p, c.dport, c.ack, InitialWindow, TRUE)
      BY <1>0, <1>3, <1>7, <1>10 DEF SendClientData, SendWindowUpdate
    <2>2. phone'[j].win = InitialWindow
      BY <1>7, <1>8, <2>1, AckedOpens, MuxConstants DEF Conn
    <2>3. Sess(b)'.win > 0
      BY <1>9, <2>2 DEF LinkDelivers
    <2> QED BY <2>3 DEF Relieved, Sess
  <1>11. CASE m.sport = p /\ m.kind = "WindowUpdate" /\ c.ib = <<>>
    <2>1. PhoneAcked(p, c.dport, c.ack, ScaledWindow(FreeBuffer(c)), TRUE)
      BY <1>0, <1>3, <1>7, <1>11 DEF SendClientData, SendWindowUpdate
    <2>2. Len(c.ib) = 0
      BY <1>11
    <2>3. FreeBuffer(c) = MaxConnBuffer
      BY <2>2, MuxConstants DEF FreeBuffer
    <2>4. phone'[j].win = ScaledWindow(FreeBuffer(c))
      <3>1. c.ack \in Nat
        BY <1>8 DEF Conn
      <3>2. ScaledWindow(FreeBuffer(c)) \in Nat
        BY <2>3, WindowIsNat, MuxConstants
      <3> QED BY <1>7, <1>8, <2>1, <3>1, <3>2, AckedOpens
    <2>5. Sess(b)'.win > 0
      BY <1>9, <2>3, <2>4, EmptyIsOpen
    <2> QED BY <2>5 DEF Relieved, Sess
  <1>12. CASE m.sport = p /\ c.ib # <<>>
    <2>1. conns'[sport'[b]].ib # <<>>
      BY <1>1, <1>12
    <2> QED BY <2>1 DEF Relieved
  <1>13. CASE m.sport # p
    <2>1. m.by # b
      BY <1>5, <1>13
    <2>2. phone'[j] = phone[j]
      <3>1. CASE phone' = phone
        BY <3>1
      <3>2. CASE phone' # phone
        <4>1. PICK ack, win : /\ m.sport \in Live
                              /\ PhoneAcked(m.sport, conns[m.sport].dport, ack, win, ok)
          BY <1>3, <3>2 DEF SendClientData, SendWindowUpdate
        <4>2. m.sport \in Port /\ conns[m.sport].dport \in DPort
          BY <4>1, LiveIsConn DEF Conn
        <4>3. j # <<m.sport, conns[m.sport].dport>>
          BY <1>13
        <4> QED BY <1>0, <1>8, <4>1, <4>2, <4>3, AckedWindow
      <3> QED BY <3>1, <3>2
    <2>3. UpdateQueued(b) => UpdateQueued(b)'
      <3>1. ASSUME NEW i \in 1..Len(dataQ), dataQ[i].kind = "WindowUpdate", dataQ[i].by = b
            PROVE  UpdateQueued(b)'
        <4>1. i # 1
          BY <1>4, <2>1, <3>1
        <4>2. i - 1 \in 1..Len(dataQ') /\ dataQ'[i - 1] = dataQ[i]
          BY <1>6, <4>1
        <4> QED BY <3>1, <4>2 DEF UpdateQueued
      <3> QED BY <3>1 DEF UpdateQueued
    <2> QED BY <1>1, <1>7, <2>2, <2>3, WindowSame
  <1>14. m.kind \in {"Data", "WindowUpdate"}
    BY <1>5 DEF OutMsg
  <1> QED BY <1>10, <1>11, <1>12, <1>13, <1>14

\* Every step keeps the window invariant.
LEMMA NextWindow ==
    ASSUME MuxInv, RelayInv, WindowInv, LinkDelivers, [Next]_vars
    PROVE  WindowInv'
  <1>1. WinOK /\ MsgOK
    BY DEF WindowInv
  <1>2. MsgOK'
    BY <1>1, MessagesKept
  <1> SUFFICES WinOK'
    BY <1>2 DEF WindowInv
  <1>3. ASSUME NEW a \in Attempt, ConnectStep(a) \/ ProxyStep(a) \/ ClientStep(a)
        PROVE  WinOK'
    BY <1>1, <1>3, StartConnectWindow, SendSynWindow, AttemptCalm, DrainWindow,
       SendUpdateWindow, ProxyEndWindow, ClientSendsWindow
       DEF ConnectStep, ProxyStep, ClientStep
  <1>4. CASE HandlePacket \/ HandleOut
    BY <1>1, <1>4, HandlePacketWindow, HandleOutWindow
  <1>5. CASE TaskStep /\ ~(HandlePacket \/ HandleOut)
    BY <1>1, <1>5, QuietWindow DEF TaskStep
  <1>6. CASE Phone \/ UsbGone \/ RemoveManaged \/ RemoveConns \/ UNCHANGED vars
    BY <1>1, <1>6, QuietWindow
  <1> QED BY <1>3, <1>4, <1>5, <1>6 DEF Next

\* At the start nobody is exposed and no message is under way.
LEMMA InitWindow == Init => WindowInv
  <1> SUFFICES ASSUME Init PROVE WindowInv
    OBVIOUS
  <1>1. MsgOK
    BY DEF Init, MsgOK
  <1>2. WinOK
    <2>1. \A a \in Attempt : pc[a] = "idle"
      BY DEF Init
    <2> QED BY <2>1 DEF WinOK, Exposed, Owning, Proxying
  <1> QED BY <1>1, <1>2 DEF WindowInv

\* On a link that delivers, a proxy that sleeps on an empty buffer with no
\* message of it pending has told the phone an open window: proxy_loop's
\* WindowUpdate always follows a drain, and no ACK with a closed window can
\* come after it without a byte that wakes the proxy again.
THEOREM WindowsReopen ==
    ASSUME LinkDelivers
    PROVE  Spec => []WindowReopened
  <1>1. WinOK => WindowReopened
    <2> SUFFICES ASSUME WinOK, NEW a \in Attempt,
                        pc[a] = "parked", HasConn(a), dataQ = <<>>,
                        conns[sport[a]].state = "Connected", conns[sport[a]].ib = <<>>,
                        task = "running", readerUp,
                        phone[<<sport[a], conns[sport[a]].dport>>].for = a
                 PROVE  phone[<<sport[a], conns[sport[a]].dport>>].win > 0
      BY DEF WindowReopened
    <2>1. Exposed(a)
      BY DEF Exposed, Sess, Owning, Proxying
    <2>2. Relieved(a)
      BY <2>1 DEF WinOK
    <2>3. ~UpdateQueued(a)
      <3>1. Len(dataQ) = 0
        OBVIOUS
      <3> QED BY <3>1 DEF UpdateQueued
    <2> QED BY <2>2, <2>3 DEF Relieved, Sess
  <1>2. Spec => []RelayInv
    BY InitRelay, NextRelay, MuxInvariant, PTL DEF Spec
  <1>3. MuxInv /\ RelayInv /\ WindowInv /\ [Next]_vars => WindowInv'
    BY NextWindow
  <1>4. WindowInv => WindowReopened
    BY <1>1 DEF WindowInv
  <1> QED
    BY <1>2, <1>3, <1>4, InitWindow, MuxInvariant, PTL DEF Spec
=============================================================================
