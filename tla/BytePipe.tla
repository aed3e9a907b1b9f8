------------------------------ MODULE BytePipe ------------------------------
(***************************************************************************)
(* What the relay promises each client of a Connect: a pipe from the       *)
(* phone's end of the connection to the client's socket.  The client has   *)
(* received the first units that were accepted for it, in their order, up  *)
(* to some point, and once its proxy has ended receives no more.  Ports,   *)
(* windows, buffers and notifications do not occur here; MuxConnections is *)
(* shown to implement this specification.                                  *)
(***************************************************************************)
EXTENDS Naturals, Sequences

CONSTANTS
    Client,     \* one for each Connect request
    Unit        \* what a pipe carries

VARIABLES
    input,      \* input[c]: units accepted for client c so far
    output,     \* output[c]: units client c has received
    ended       \* clients whose pipe has ended

pvars == <<input, output, ended>>

PInit ==
    /\ input = [c \in Client |-> <<>>]
    /\ output = [c \in Client |-> <<>>]
    /\ ended = {}

\* One more unit; also for a client that has left, while the phone is not told.
Accept(c) ==
    LET u == input'[c][Len(input[c]) + 1] IN
    /\ Len(input'[c]) = Len(input[c]) + 1 /\ u \in Unit
    /\ input' = [input EXCEPT ![c] = Append(@, u)]
    /\ UNCHANGED <<output, ended>>

\* The client receives some of the units it has not received yet.
Deliver(c) ==
    /\ c \notin ended
    /\ \E n \in Len(output[c])..Len(input[c]) :
        output' = [output EXCEPT ![c] = SubSeq(input[c], 1, n)]
    /\ UNCHANGED <<input, ended>>

\* Pipes end, several at once when the device task does; none begins again.
End ==
    /\ ended \subseteq ended' /\ ended' \subseteq Client
    /\ UNCHANGED <<input, output>>

PNext == (\E c \in Client : Accept(c) \/ Deliver(c)) \/ End

PSpec == PInit /\ [][PNext]_pvars
=============================================================================
