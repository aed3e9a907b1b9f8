---------------------------- MODULE MuxFrameSeq ----------------------------
(***************************************************************************)
(* The numbering of the v2 mux frames the daemon sends to one phone.       *)
(* MuxDevice.tx_seq is shared by the device task, which sends ACKs, data   *)
(* and window updates, and by the connect handlers, which are tasks of     *)
(* their own and send SYNs.  A frame is numbered under the conn_mgr lock   *)
(* and sent to USB after the lock is released.  MuxWire has the bytes.       *)
(***************************************************************************)
EXTENDS MuxWire, FiniteSets, TLC

CONSTANTS
    Handler,     \* connect handlers, one SYN each
    SeqModulus,      \* 2^16: tx_seq wraps
    MaxFrames    \* bound: frames the device task sends

ASSUME FrameConstants ==
    /\ IsFiniteSet(Handler)
    /\ SeqModulus \in Nat \ {0, 1}
    /\ MaxFrames \in Nat

VARIABLES
    version,    \* MuxDevice.version
    txSeq,      \* MuxDevice.tx_seq
    task,       \* the device task: what it is doing
    taskSeq,    \* the number of the frame the task is sending
    syn,        \* what each connect handler is doing
    synFrame,   \* the SYN frame of a handler: its number, or v1 framing
    wire,       \* numbers of the v2 frames the phone has received, in order
    frames,     \* history: frames the device task has begun
    gaps,       \* history: numbers used up by frames that could not be sent
    last        \* history: the last frame the phone received

frameVars == <<version, txSeq, task, taskSeq, syn, synFrame, wire, frames, gaps, last>>

V1 == SeqModulus            \* a frame in v1 framing carries no number
Seqs == 0..(SeqModulus - 1)
Inc(n) == (n + 1) % SeqModulus

SendResults == BOOLEAN   \* usb.send() may time out

\* What the frames carry.  The ports of a segment come in the four
\* combinations of an ordinary and a magic-like one; an ACK has no data.
VersionRequest == [protocol |-> HEADER_VERSION, body |-> VersionBody,
                   means |-> [kind |-> "version", major |-> <<0, 2>>, minor |-> <<0, 0>>]]
Setup == [protocol |-> HEADER_SETUP, body |-> SetupBody, means |-> [kind |-> "setup"]]
Tcp(seg) == [protocol |-> HEADER_TCP, body |-> TcpBody(seg),
             means |-> [seg EXCEPT !.offset = 5]]
Segments(flags, datas) ==
    {Tcp([kind |-> "tcp", sport |-> p[1], dport |-> p[2], seq |-> n, ack |-> n,
          offset |-> 0, flags |-> flags, window |-> 512, data |-> d]) :
        p \in {1024, Magic[1]} \X {62078, Magic[2]}, n \in {<<0, 0>>, <<65535, 256>>},
        d \in datas}
Syns == {s \in Segments(TCP_SYN, {<<>>}) : s.means.seq = <<0, 0>>}
Acks == {s \in Segments(TCP_ACK, {<<>>}) : s.means.seq # <<0, 0>>}
Datas == {s \in Segments(TCP_ACK, {B32(AppleMagic) \o B32(Magic)}) : s.means.seq # <<0, 0>>}

\* One usb.send(): on success the phone gets the frame.  The number of a frame
\* that is counted whether or not it was sent is lost with the frame.
Sent(n, packets, counted, ok) ==
    /\ wire' = IF ok /\ n # V1 THEN Append(wire, n) ELSE wire
    /\ gaps' = IF ~ok /\ n # V1 /\ counted THEN gaps + 1 ELSE gaps
    /\ \E p \in packets :
        last' = IF ok THEN [number |-> n, packet |-> p] ELSE last

FrameInit ==
    /\ version = 1 /\ txSeq = 1
    /\ task = "hello" /\ taskSeq = V1
    /\ syn = [h \in Handler |-> "ready"]
    /\ synFrame = [h \in Handler |-> V1]
    /\ wire = <<>>
    /\ frames = 0 /\ gaps = 0
    /\ last = [number |-> V1, packet |-> VersionRequest]

\* The number a frame built now carries: none in v1 framing.
FrameNumber == IF version >= 2 THEN txSeq ELSE V1
-----------------------------------------------------------------------------
\* The phone answers the version request: v2 gets a SETUP frame numbered 0.
ReceiveVersion ==
    /\ task = "hello"
    /\ \E major \in {1, 2} :
        /\ taskSeq' = major
        /\ \/ major = 1 /\ UNCHANGED <<wire, gaps, last>>
           \/ major = 2 /\ \E ok \in SendResults : Sent(0, {Setup}, TRUE, ok)
    /\ task' = "setup"
    /\ UNCHANGED <<version, txSeq, syn, synFrame, frames>>

\* Afterwards, under the lock: version and a fresh count, also when the SETUP
\* could not be sent.
AdoptVersion ==
    /\ task = "setup"
    /\ version' = taskSeq
    /\ txSeq' = 1
    /\ task' = "idle" /\ taskSeq' = V1
    /\ UNCHANGED <<syn, synFrame, wire, frames, gaps, last>>

\* handle_tcp_packet builds an ACK and counts it under one lock.
BuildAck ==
    /\ task = "idle" /\ frames < MaxFrames
    /\ taskSeq' = FrameNumber
    /\ txSeq' = Inc(txSeq)
    /\ task' = "ack"
    /\ frames' = frames + 1
    /\ UNCHANGED <<version, syn, synFrame, wire, gaps, last>>

SendAck ==
    /\ task = "ack"
    /\ \E ok \in SendResults : Sent(taskSeq, Acks, TRUE, ok)
    /\ task' = "idle" /\ taskSeq' = V1
    /\ UNCHANGED <<version, txSeq, syn, synFrame, frames>>

\* send_client_data and send_window_update read tx_seq under the read lock...
BuildData ==
    /\ task = "idle" /\ frames < MaxFrames
    /\ taskSeq' = FrameNumber
    /\ task' = "data"
    /\ frames' = frames + 1
    /\ UNCHANGED <<version, txSeq, syn, synFrame, wire, gaps, last>>

\* ... send, and return on an error ...
SendData ==
    /\ task = "data"
    /\ \E ok \in SendResults :
        /\ Sent(taskSeq, Datas, FALSE, ok)
        /\ task' = IF ok THEN "bump" ELSE "idle"
    /\ taskSeq' = V1
    /\ UNCHANGED <<version, txSeq, syn, synFrame, frames>>

\* Mutant: the frame is never counted.
BumpForgotten ==
    /\ task = "bump"
    /\ task' = "idle"
    /\ UNCHANGED <<version, txSeq, taskSeq, syn, synFrame, wire, frames, gaps, last>>

\* ... and count the frame under a write lock taken afterwards.
BumpData ==
    /\ task = "bump"
    /\ txSeq' = Inc(txSeq)
    /\ task' = "idle"
    /\ UNCHANGED <<version, taskSeq, syn, synFrame, wire, frames, gaps, last>>

\* A connect handler builds its SYN under the lock, counting it if v2 ...
BuildSyn(h) ==
    /\ syn[h] = "ready"
    /\ synFrame' = [synFrame EXCEPT ![h] = FrameNumber]
    /\ txSeq' = IF version >= 2 THEN Inc(txSeq) ELSE txSeq
    /\ syn' = [syn EXCEPT ![h] = "built"]
    /\ UNCHANGED <<version, task, taskSeq, wire, frames, gaps, last>>

\* ... and sends it without the lock.
SendSyn(h) ==
    /\ syn[h] = "built"
    /\ \E ok \in SendResults : Sent(synFrame[h], Syns, TRUE, ok)
    /\ syn' = [syn EXCEPT ![h] = "done"]
    /\ UNCHANGED <<version, txSeq, task, taskSeq, synFrame, frames>>

FrameNext ==
    \/ ReceiveVersion \/ AdoptVersion
    \/ BuildAck \/ SendAck
    \/ BuildData \/ SendData \/ BumpData
    \/ \E h \in Handler : BuildSyn(h) \/ SendSyn(h)

FrameSpec == FrameInit /\ [][FrameNext]_frameVars

HandlerSymmetry == Permutations(Handler)
-----------------------------------------------------------------------------
\* Frames that are numbered and not yet sent, or sent and not yet counted.
Unsent == Cardinality({h \in Handler : syn[h] = "built" /\ synFrame[h] # V1})
            + (IF task = "ack" /\ taskSeq # V1 THEN 1 ELSE 0)
Uncounted == IF task = "bump" /\ version = 2 THEN 1 ELSE 0

\* However the device task and the handlers interleave and whichever sends
\* fail, tx_seq counts every v2 frame once: after the SETUP it is, modulo 2^16,
\* the number of frames on the wire and on their way to it, and of those SETUP,
\* ACK and SYN frames that failed.  A failed data frame leaves no gap.
EveryFrameCounted ==
    version = 2 =>
        txSeq = (Len(wire) + gaps + Unsent - Uncounted) % SeqModulus

\* A v1 frame has no magic, and the first bytes after its header are the ports
\* of the segment: 0xFEED or 0xFACE and 0xFACE read as one.
Ambiguous(f) ==
    /\ f.number = V1 /\ f.packet.means.kind = "tcp"
    /\ <<f.packet.means.sport, f.packet.means.dport>> \in {Magic, AppleMagic}

\* What parse_packet makes of a frame, under either magic of the sender, is
\* what the build functions were given: SYNs, ACKs, data and SETUP in both
\* framings at every point of the negotiation, also when the data looks like
\* a header.  The one exception is a v1 segment between two ports that spell
\* a magic.
FramesParse ==
    LET seqs == IF last.number = V1 THEN NoSeqs ELSE <<last.number, 65535>>
        Bytes(m) == Frame(m, last.packet.protocol, seqs, last.packet.body)
    IN \A m \in {Magic, AppleMagic} :
        ParsePacket(Bytes(m)) = last.packet.means <=> ~Ambiguous(last)

\* (STATUS.md:28) Every frame the phone receives is numbered one more than the
\* frame before it.
WireConsecutive ==
    \A i \in 1..(Len(wire) - 1) : wire[i + 1] = Inc(wire[i])
=============================================================================
