---------------------------- MODULE Reassembler ----------------------------
(***************************************************************************)
(* PacketReassembler::feed (daemon/mux.rs): turns the USB byte stream,     *)
(* which arrives in arbitrary pieces, back into mux frames.  A frame       *)
(* starts with HeaderSize bytes and declares its whole length; here the    *)
(* last header byte is the length field.  The task owns its reassembler,   *)
(* so the steps of one feed() call are not interleaved with anything; each *)
(* turn of its loop is one step.                                           *)
(***************************************************************************)
EXTENDS Integers, Sequences, SequencesExt

CONSTANTS
    HeaderSize,     \* HEADER_SIZE
    MaxBuffer,      \* max_buffer, config.max_reassembly_bytes
    Byte,           \* the byte values of the stream
    MaxChunk,       \* bound: bytes one USB transfer delivers
    MaxStream       \* bound: bytes fed over a whole behaviour

\* The limit is always DEFAULT_MAX_REASSEMBLY_BYTES (no argument or file sets
\* it), far above a header.
ASSUME ReassemblerConstants ==
    /\ HeaderSize \in Nat \ {0}
    /\ MaxBuffer \in Nat /\ MaxBuffer >= HeaderSize
    /\ Byte \subseteq Nat
    /\ MaxChunk \in Nat /\ MaxStream \in Nat

VARIABLES
    buffers,    \* self.buffers
    feeding,    \* a feed() call is in its loop
    packets,    \* every packet returned so far, oldest first
    fed         \* every byte fed so far

vars == <<buffers, feeding, packets, fed>>

DeclaredLength(b) == b[HeaderSize]

\* Mutants: a frame that fills the buffer exactly is taken for corrupt; a
\* length field larger than the buffer is waited for.
TooStrict(n) == n < HeaderSize \/ n >= MaxBuffer
AnyLongLength(n) == n < HeaderSize

\* A length that no frame can have: shorter than a header, or a frame that
\* could never fit in the buffer.
ImpossibleLength(n) == n < HeaderSize \/ n > MaxBuffer

\* feed(data): extend_from_slice.
Feed(data) ==
    /\ ~feeding
    /\ Len(fed) + Len(data) <= MaxStream
    /\ buffers' = buffers \o data
    /\ fed' = fed \o data
    /\ feeding' = TRUE
    /\ UNCHANGED packets

\* Mutant: no byte is dropped.
DropNothing ==
    /\ feeding
    /\ Len(buffers) >= HeaderSize
    /\ ImpossibleLength(DeclaredLength(buffers))
    /\ UNCHANGED vars

\* A corrupt length field: drop one byte and look for a header again.
DropByte ==
    /\ feeding
    /\ Len(buffers) >= HeaderSize
    /\ ImpossibleLength(DeclaredLength(buffers))
    /\ buffers' = Tail(buffers)
    /\ UNCHANGED <<feeding, packets, fed>>

\* Mutant: the length field is taken for the length of the payload.
EmitPayloadLength ==
    LET n == DeclaredLength(buffers) + HeaderSize IN
    /\ feeding
    /\ Len(buffers) >= HeaderSize
    /\ ~ImpossibleLength(DeclaredLength(buffers))
    /\ Len(buffers) >= n
    /\ packets' = Append(packets, SubSeq(buffers, 1, n))
    /\ buffers' = SubSeq(buffers, n + 1, Len(buffers))
    /\ UNCHANGED <<feeding, fed>>

\* A complete frame is cut off the front of the buffer.
EmitPacket ==
    LET n == DeclaredLength(buffers) IN
    /\ feeding
    /\ Len(buffers) >= HeaderSize
    /\ ~ImpossibleLength(n)
    /\ Len(buffers) >= n
    /\ packets' = Append(packets, SubSeq(buffers, 1, n))
    /\ buffers' = SubSeq(buffers, n + 1, Len(buffers))
    /\ UNCHANGED <<feeding, fed>>

\* Not a whole frame yet: feed() returns, after the check that discards a
\* buffer above the limit.
Return ==
    /\ feeding
    /\ \/ Len(buffers) < HeaderSize
       \/ /\ Len(buffers) >= HeaderSize
          /\ ~ImpossibleLength(DeclaredLength(buffers))
          /\ Len(buffers) < DeclaredLength(buffers)
    /\ buffers' = IF Len(buffers) > MaxBuffer THEN <<>> ELSE buffers
    /\ feeding' = FALSE
    /\ UNCHANGED <<packets, fed>>

Init ==
    /\ buffers = <<>>
    /\ feeding = FALSE
    /\ packets = <<>>
    /\ fed = <<>>

Next ==
    \/ \E data \in BoundedSeq(Byte, MaxChunk) \ {<<>>} : Feed(data)
    \/ DropByte
    \/ EmitPacket
    \/ Return

Spec == Init /\ [][Next]_vars

\* feed() is a loop without awaits: once called it runs to its end.
FairSpec == Spec /\ WF_vars(DropByte \/ EmitPacket \/ Return)
-----------------------------------------------------------------------------
\* Types; and the retained bytes are the newest bytes of the stream, in order.
ReassemblerTypeOK ==
    /\ buffers \in Seq(Byte)
    /\ feeding \in BOOLEAN
    /\ packets \in Seq(Seq(Byte))
    /\ fed \in Seq(Byte)
    /\ Len(buffers) <= Len(fed)
    /\ buffers = SubSeq(fed, Len(fed) - Len(buffers) + 1, Len(fed))

\* Between two calls the buffer is always shorter than max_buffer, however
\* corrupt the stream is: a partial frame waits only for a length that fits.
\* The clear() at the end of feed() therefore never discards anything.
BufferBelowCap == ~feeding => Len(buffers) < MaxBuffer

\* Every packet handed to process_device_packet is exactly as long as its
\* header declares and at least a header long, so parse_packet cannot fail
\* on a length that disagrees with the data it got.
PacketsMatchTheirHeader ==
    \A i \in DOMAIN packets :
        /\ Len(packets[i]) >= HeaderSize
        /\ Len(packets[i]) <= MaxBuffer
        /\ DeclaredLength(packets[i]) = Len(packets[i])

\* The frames of a whole stream, by position, without any notion of chunks.
FramesOf(s) ==
    LET from[i \in 1..(Len(s) + 1)] ==
            LET left == Len(s) - i + 1
                n == s[i + HeaderSize - 1]
            IN  IF left < HeaderSize THEN [out |-> <<>>, rest |-> i]
                ELSE IF n < HeaderSize \/ n > MaxBuffer THEN from[i + 1]
                ELSE IF left < n THEN [out |-> <<>>, rest |-> i]
                ELSE [out |-> <<SubSeq(s, i, i + n - 1)>> \o from[i + n].out,
                      rest |-> from[i + n].rest]
    IN  from[1]

\* What comes out does not depend on how the USB reads cut the stream: after
\* any sequence of calls the packets and the retained bytes are those of one
\* pass over all the bytes fed.
ChunkingIrrelevant ==
    ~feeding =>
        LET ref == FramesOf(fed) IN
        /\ packets = ref.out
        /\ buffers = SubSeq(fed, ref.rest, Len(fed))

\* Every call of feed() comes to an end: the resynchronisation loop always
\* consumes bytes.
FeedReturns == feeding ~> ~feeding
=============================================================================
