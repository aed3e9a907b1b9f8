-------------------------- MODULE MCClientSessions --------------------------
(* One peer the UID list names and one without credentials.                *)
EXTENDS ClientSessions
CONSTANT u
MCPeer == {[uid |-> u, sid |-> NoIdentity], NoPeer}
=============================================================================
