--------------------------- MODULE DeviceScanner ---------------------------
(***************************************************************************)
(* The USB scanner of the relay daemon (daemon/device_scanner.rs): a table *)
(* of known devices, the consecutive-miss counters of the flap             *)
(* suppression, and the ordered list of changes one scan hands to the scan *)
(* task of daemon/mod.rs.  One scan runs under the scanner's write lock,   *)
(* so the whole of diff_devices is one step.                               *)
(***************************************************************************)
EXTENDS Integers, FiniteSets, Sequences, SequencesExt

CONSTANTS
    Port,               \* (usb_bus, usb_address) pairs
    Udid,               \* serial numbers
    Absent,             \* no ScanObservation for the port
    Unreadable,         \* a ScanObservation with udid = None
    NoDevice,           \* refinement mapping: no device at the port
    DetachAfterMisses,  \* DETACH_AFTER_MISSES
    MaxId               \* bound: no scan starts with next_id above it

ASSUME ScannerConstants ==
    /\ IsFiniteSet(Port)
    /\ Absent \notin Udid /\ Unreadable \notin Udid /\ NoDevice \notin Udid
    /\ Absent # Unreadable
    /\ DetachAfterMisses \in Nat \ {0}
    /\ MaxId \in Nat

VARIABLES
    devices,     \* device_id -> UsbDevice, a function on the known ids
    missCounts,  \* port -> misses; 0 stands for "no entry"
    nextId,      \* next_id
    changes,     \* the changes of the last scan not yet handled
    view         \* what a listener that saw every event knows: id -> port

scannerVars == <<devices, missCounts, nextId, changes>>
vars == <<devices, missCounts, nextId, changes, view>>

UsbDevice == [udid : Udid, port : Port]
DeviceChange == [kind : {"Attached"}, id : Nat, port : Port]
                    \cup [kind : {"Detached"}, id : Nat]

Attached(id, p) == [kind |-> "Attached", id |-> id, port |-> p]
Detached(id) == [kind |-> "Detached", id |-> id]

\* What one enumeration can return.  A serial number is read from one open
\* device, so two ports never report the same one.
ScanObservations ==
    {obs \in [Port -> Udid \cup {Absent, Unreadable}] :
        \A p, q \in Port : obs[p] \in Udid /\ obs[p] = obs[q] => p = q}

\* devices.values().find(same bus and address)
Existing(p) == {id \in DOMAIN devices : devices[id].port = p}

\* Ports whose observation attaches a device: (None, Some(udid)), or
\* (Some(existing), Some(udid)) with a different udid.
Attaching(obs) ==
    {p \in Port : obs[p] \in Udid
                    /\ \A id \in Existing(p) : devices[id].udid # obs[p]}

\* Mutant: a replacement attaches the new device and keeps the old one.
ReplacedNone(obs) == {}

\* The known devices that a different serial number at their port replaces.
Replaced(obs) == {id \in DOMAIN devices : devices[id].port \in Attaching(obs)}

\* The known devices not seen for the DETACH_AFTER_MISSES-th time running.
Lost(obs) ==
    {id \in DOMAIN devices :
        /\ obs[devices[id].port] = Absent
        /\ missCounts[devices[id].port] + 1 >= DetachAfterMisses}

\* Mutant: the counter of a port is not cleared when the port is seen again.
MissCountNotCleared(p, o) ==
    IF o # Absent \/ Existing(p) = {} THEN missCounts[p]
    ELSE IF missCounts[p] + 1 >= DetachAfterMisses THEN 0
    ELSE missCounts[p] + 1

MissCountAfter(p, o) ==
    IF o # Absent THEN 0
    ELSE IF Existing(p) = {} THEN missCounts[p]
    ELSE IF missCounts[p] + 1 >= DetachAfterMisses THEN 0
    ELSE missCounts[p] + 1

\* Mutant: the new device is announced before the old one is withdrawn.
AttachFirst(p, id) ==
    <<Attached(id, p)>> \o SetToSeq({Detached(old) : old \in Existing(p)})

\* The changes an observation at port p pushes when it attaches device id:
\* Detached first when it replaces a device.
AttachChanges(p, id) ==
    SetToSeq({Detached(old) : old \in Existing(p)}) \o <<Attached(id, p)>>

\* The table after a diff: the devices kept, and under consecutive new ids
\* the devices attached, in the order of their observations.
DevicesAfter(obs, order) ==
    LET fresh == nextId..(nextId + Len(order) - 1)
        kept == DOMAIN devices \ (Replaced(obs) \cup Lost(obs))
        NewDevice(p) == [udid |-> obs[p], port |-> p]
    IN  [id \in kept \cup fresh |->
            IF id \in fresh THEN NewDevice(order[id - nextId + 1])
                            ELSE devices[id]]

\* Mutant: next_id is advanced once per scan, not once per device.
NextIdOnce(order) == IF order = <<>> THEN nextId ELSE nextId + 1

NextIdAfter(order) == nextId + Len(order)

\* diff_devices: order is the order of the attaching observations in the
\* enumeration, lost the HashMap order of the devices the scan gives up on.
DiffDevices(obs, order, lost) ==
    /\ devices' = DevicesAfter(obs, order)
    /\ missCounts' = [p \in Port |-> MissCountAfter(p, obs[p])]
    /\ nextId' = NextIdAfter(order)
    /\ changes' = FlattenSeq([i \in DOMAIN order |->
                                AttachChanges(order[i], nextId + i - 1)])
                    \o [i \in DOMAIN lost |-> Detached(lost[i])]

\* scan(): the scan task starts one only after it has handled every change
\* of the one before.
Scan(obs) ==
    /\ changes = <<>>
    /\ nextId <= MaxId
    /\ \E order \in SetToSeqs(Attaching(obs)), lost \in SetToSeqs(Lost(obs)) :
            DiffDevices(obs, order, lost)
    /\ UNCHANGED view

\* scan() when the enumeration fails: the device state is kept untouched.
ScanFailed ==
    /\ changes = <<>>
    /\ UNCHANGED vars

\* The scan task broadcasts the next change; a listener applies it.
Broadcast ==
    /\ changes # <<>>
    /\ LET c == Head(changes) IN
        view' = IF c.kind = "Attached"
                THEN [id \in DOMAIN view \cup {c.id} |->
                        IF id = c.id THEN c.port ELSE view[id]]
                ELSE [id \in DOMAIN view \ {c.id} |-> view[id]]
    /\ changes' = Tail(changes)
    /\ UNCHANGED <<devices, missCounts, nextId>>

Init ==
    /\ devices = [id \in {} |-> NoDevice]
    /\ missCounts = [p \in Port |-> 0]
    /\ nextId = 1
    /\ changes = <<>>
    /\ view = [id \in {} |-> NoDevice]

Next ==
    \/ \E obs \in ScanObservations : Scan(obs)
    \/ ScanFailed
    \/ Broadcast

Spec == Init /\ [][Next]_vars
-----------------------------------------------------------------------------
\* Type invariant of the device table, the counters and the id source:
\* every known id has been handed out, and next_id only counts up from 1.
ScannerTypeOK ==
    /\ DOMAIN devices \subseteq 1..(nextId - 1)
    /\ \A id \in DOMAIN devices : devices[id] \in UsbDevice
    /\ devices = [id \in DOMAIN devices |-> devices[id]]
    /\ missCounts \in [Port -> Nat]
    /\ nextId \in Nat \ {0}

\* diff_devices looks an observation up with find(), which returns any match:
\* that is only right because two known devices never share a port, and
\* because a miss is only ever counted against a known device and never
\* reaches the threshold while the device is kept.
OneDevicePerPort ==
    /\ \A id1, id2 \in DOMAIN devices :
            devices[id1].port = devices[id2].port => id1 = id2
    /\ \A p \in Port : /\ missCounts[p] < DetachAfterMisses
                       /\ missCounts[p] > 0 => Existing(p) # {}

\* A listener that applies the events in the order the scan task broadcasts
\* them never sees two devices at one port, not even between the Detached and
\* the Attached of a replacement, and when the scan's changes are all
\* broadcast it knows exactly the devices of the table.
ListenerView ==
    /\ \A id1, id2 \in DOMAIN view : view[id1] = view[id2] => id1 = id2
    /\ changes = <<>> =>
            view = [id \in DOMAIN devices |-> devices[id].port]

\* An id names one device for ever: a known id keeps its serial number and
\* port, and an id that a scan adds was never used before, so a client that
\* holds a stale DeviceID cannot reach another phone with it.
IdsNeverReused ==
    [][/\ \A id \in DOMAIN devices \cap DOMAIN devices' :
                devices'[id] = devices[id]
       /\ \A id \in DOMAIN devices' \ DOMAIN devices :
                /\ id >= nextId
                /\ id \notin DOMAIN view]_vars

\* The scanner implements one debouncer per port: a device is held until its
\* port is missing from DETACH_AFTER_MISSES consecutive successful scans or
\* reports another serial number; an unreadable serial and a failed scan
\* change nothing.
HeldAt(p) ==
    IF Existing(p) = {} THEN NoDevice
    ELSE devices[CHOOSE id \in Existing(p) : TRUE].udid

Debounce == INSTANCE PortDebounce
                WITH held <- [p \in Port |-> HeldAt(p)], missed <- missCounts
ImplementsDebounce == Debounce!DSpec
=============================================================================
