---------------------------- MODULE PortDebounce ----------------------------
(***************************************************************************)
(* What the USB scanner promises, port by port.  Each physical port is a   *)
(* debouncer of its own: it holds the last serial number that was read at  *)
(* the port and forgets it only after DetachAfterMisses consecutive        *)
(* successful scans that did not see the port.  Device ids, the order of   *)
(* the events and the device table do not occur here; DeviceScanner is     *)
(* shown to implement this specification.                                  *)
(***************************************************************************)
EXTENDS Naturals

CONSTANTS
    Port,               \* physical ports, (bus, address) pairs
    Udid,               \* serial numbers a device can report
    Absent,             \* observation: nothing enumerated at the port
    Unreadable,         \* observation: present, serial not readable
    NoDevice,           \* no serial number is held for the port
    DetachAfterMisses   \* consecutive misses that make a detach

VARIABLES
    held,               \* held[p]: the serial number held for port p
    missed              \* missed[p]: consecutive scans that missed it

dvars == <<held, missed>>

\* What one port makes of one observation of it.
HeldAfter(p, o) ==
    IF o \in Udid THEN o
    ELSE IF o = Absent /\ missed[p] + 1 >= DetachAfterMisses THEN NoDevice
    ELSE held[p]

MissedAfter(p, o) ==
    IF o # Absent \/ held[p] = NoDevice \/ missed[p] + 1 >= DetachAfterMisses
    THEN 0
    ELSE missed[p] + 1

DInit ==
    /\ held = [p \in Port |-> NoDevice]
    /\ missed = [p \in Port |-> 0]

\* One successful scan.  Two ports never report the same serial number.
DScan ==
    \E obs \in [Port -> Udid \cup {Absent, Unreadable}] :
        /\ \A p, q \in Port : obs[p] \in Udid /\ obs[p] = obs[q] => p = q
        /\ held' = [p \in Port |-> HeldAfter(p, obs[p])]
        /\ missed' = [p \in Port |-> MissedAfter(p, obs[p])]

DSpec == DInit /\ [][DScan]_dvars
=============================================================================
