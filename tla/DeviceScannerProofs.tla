------------------------- MODULE DeviceScannerProofs -------------------------
(***************************************************************************)
(* Machine-checked proofs about DeviceScanner, for every set of ports and  *)
(* serial numbers and every detach threshold.                              *)
(***************************************************************************)
EXTENDS DeviceScanner, FiniteSetTheorems, SequenceTheorems, WellFoundedInduction, TLAPS

\* The inductive invariant: typing and the one-device-per-port facts need
\* each other (a fresh id is new only because every known id is below
\* next_id; find() is a function only because ports are not shared).
ScannerInv == ScannerTypeOK /\ OneDevicePerPort

\* A sequence of all elements of a finite set lists each of them once.
LEMMA SetToSeqsFacts ==
    ASSUME NEW S, IsFiniteSet(S), NEW s \in SetToSeqs(S)
    PROVE  /\ s \in Seq(S) /\ Len(s) \in Nat /\ DOMAIN s = 1..Len(s)
           /\ \A i \in 1..Len(s) : s[i] \in S
           /\ \A i, j \in 1..Len(s) : s[i] = s[j] => i = j
           /\ \A x \in S : \E i \in 1..Len(s) : s[i] = x
  <1> DEFINE n == Cardinality(S)
  <1>1. n \in Nat
    BY FS_CardinalityType
  <1>2. s \in [1..n -> S] /\ \A i, j \in 1..n : i # j => s[i] # s[j]
    BY DEF SetToSeqs
  <1>3. IsFiniteSet(1..n) /\ Cardinality(1..n) = n
    BY <1>1, FS_Interval
  <1> HIDE DEF n
  <1>4. s \in Seq(S) /\ Len(s) = n
    BY <1>1, <1>2
  <1>5. s \in Injection(1..n, S)
    BY <1>2 DEF Injection, IsInjective
  <1>6. s \in Surjection(1..n, S)
    BY <1>3, <1>5, FS_Injection DEF n
  <1>7. \A x \in S : \E i \in 1..n : s[i] = x
    BY <1>6 DEF Surjection
  <1> QED BY <1>1, <1>2, <1>4, <1>7

\* The order in which a scan meets the attaching observations is a sequence
\* that lists each attaching port once.
LEMMA OrderFacts ==
    ASSUME NEW obs, NEW order \in SetToSeqs(Attaching(obs))
    PROVE  /\ order \in Seq(Attaching(obs)) /\ Len(order) \in Nat
           /\ DOMAIN order = 1..Len(order)
           /\ \A i \in 1..Len(order) : order[i] \in Attaching(obs)
           /\ \A i, j \in 1..Len(order) : order[i] = order[j] => i = j
           /\ \A p \in Attaching(obs) : \E i \in 1..Len(order) : order[i] = p
  <1>1. IsFiniteSet(Attaching(obs))
    BY FS_Subset, ScannerConstants DEF Attaching
  <1> QED BY <1>1, SetToSeqsFacts

\* The table after a scan: the devices kept, and the new ones, each at a
\* port of its own under an id that was not known before.
LEMMA ScanTable ==
    ASSUME ScannerInv, NEW obs \in ScanObservations,
           NEW order \in SetToSeqs(Attaching(obs)), devices' = DevicesAfter(obs, order)
    PROVE  LET kept == DOMAIN devices \ (Replaced(obs) \cup Lost(obs))
               fresh == nextId..(nextId + Len(order) - 1)
           IN  /\ DOMAIN devices' = kept \cup fresh
               /\ devices' = [id \in DOMAIN devices' |-> devices'[id]]
               /\ \A id \in kept : devices'[id] = devices[id] /\ id < nextId
               /\ \A id \in fresh :
                    /\ id - nextId + 1 \in 1..Len(order)
                    /\ order[id - nextId + 1] \in Attaching(obs)
                    /\ devices'[id] = [udid |-> obs[order[id - nextId + 1]],
                                       port |-> order[id - nextId + 1]]
                    /\ devices'[id].port = order[id - nextId + 1]
                    /\ devices'[id].udid = obs[order[id - nextId + 1]]
  <1> DEFINE kept == DOMAIN devices \ (Replaced(obs) \cup Lost(obs))
             fresh == nextId..(nextId + Len(order) - 1)
  <1>1. nextId \in Nat \ {0} /\ DOMAIN devices \subseteq 1..(nextId - 1)
    BY DEF ScannerInv, ScannerTypeOK
  <1>2. /\ Len(order) \in Nat
        /\ \A i \in 1..Len(order) : order[i] \in Attaching(obs)
    BY OrderFacts
  <1>3. \A id \in kept : id \notin fresh /\ id < nextId
    BY <1>1, <1>2
  <1>4. \A id \in fresh : id - nextId + 1 \in 1..Len(order)
    BY <1>1, <1>2
  <1>5. /\ DOMAIN devices' = kept \cup fresh
        /\ devices' = [id \in DOMAIN devices' |-> devices'[id]]
        /\ \A id \in kept : devices'[id] = devices[id]
        /\ \A id \in fresh : devices'[id] = [udid |-> obs[order[id - nextId + 1]],
                                            port |-> order[id - nextId + 1]]
    BY <1>2, <1>3, <1>4 DEF DevicesAfter
  <1>6. ASSUME NEW id \in fresh
        PROVE  /\ devices'[id].port = order[id - nextId + 1]
               /\ devices'[id].udid = obs[order[id - nextId + 1]]
    <2> DEFINE q == order[id - nextId + 1]
    <2>1. devices'[id] = [udid |-> obs[q], port |-> q]
      BY <1>5
    <2> HIDE DEF q
    <2>2. devices'[id].port = q /\ devices'[id].udid = obs[q]
      BY <2>1
    <2> QED BY <2>2 DEF q
  <1> HIDE DEF kept, fresh
  <1>7. \A id \in fresh : order[id - nextId + 1] \in Attaching(obs)
    BY <1>2, <1>4
  <1>8. \A id \in kept : devices'[id] = devices[id] /\ id < nextId
    BY <1>3, <1>5
  <1>9. \A id \in fresh : /\ devices'[id].port = order[id - nextId + 1]
                         /\ devices'[id].udid = obs[order[id - nextId + 1]]
    BY <1>6
  <1> QED BY <1>4, <1>5, <1>7, <1>8, <1>9 DEF kept, fresh

\* One successful scan preserves the inductive invariant.
LEMMA ScanPreservesInv ==
    ASSUME ScannerInv, NEW obs \in ScanObservations, Scan(obs)
    PROVE  ScannerInv'
  <1>1. PICK order \in SetToSeqs(Attaching(obs)), lost \in SetToSeqs(Lost(obs)) :
            DiffDevices(obs, order, lost)
    BY DEF Scan
  <1> DEFINE kept == DOMAIN devices \ (Replaced(obs) \cup Lost(obs))
             fresh == nextId..(nextId + Len(order) - 1)
  <1>2. /\ nextId \in Nat \ {0} /\ DOMAIN devices \subseteq 1..(nextId - 1)
        /\ \A id \in DOMAIN devices : devices[id] \in UsbDevice
        /\ missCounts \in [Port -> Nat]
    BY DEF ScannerInv, ScannerTypeOK
  <1>3. /\ Len(order) \in Nat
        /\ \A i \in 1..Len(order) : order[i] \in Attaching(obs)
        /\ \A i, j \in 1..Len(order) : order[i] = order[j] => i = j
    BY OrderFacts
  <1>4. /\ DOMAIN devices' = kept \cup fresh
        /\ devices' = [id \in DOMAIN devices' |-> devices'[id]]
        /\ \A id \in kept : devices'[id] = devices[id]
        /\ \A id \in fresh : order[id - nextId + 1] \in Attaching(obs)
        /\ \A id \in fresh : devices'[id] = [udid |-> obs[order[id - nextId + 1]],
                                            port |-> order[id - nextId + 1]]
    BY <1>1, ScanTable DEF DiffDevices
  <1>a. \A id \in fresh : devices'[id].port = order[id - nextId + 1]
    BY <1>1, ScanTable DEF DiffDevices
  <1>5. nextId' = nextId + Len(order)
    BY <1>1 DEF DiffDevices, NextIdAfter
  <1>6. missCounts' = [p \in Port |-> MissCountAfter(p, obs[p])]
    BY <1>1 DEF DiffDevices
  <1>7. ScannerTypeOK'
    <2>1. DOMAIN devices' \subseteq 1..(nextId' - 1) /\ nextId' \in Nat \ {0}
      BY <1>2, <1>3, <1>4, <1>5
    <2>2. \A id \in DOMAIN devices' : devices'[id] \in UsbDevice
      <3>1. ASSUME NEW id \in kept PROVE devices'[id] \in UsbDevice
        BY <1>2, <1>4
      <3>2. ASSUME NEW id \in fresh PROVE devices'[id] \in UsbDevice
        <4> DEFINE q == order[id - nextId + 1]
        <4>1. q \in Port /\ obs[q] \in Udid
          BY <1>4 DEF Attaching
        <4>2. devices'[id] = [udid |-> obs[q], port |-> q]
          BY <1>4
        <4> HIDE DEF q
        <4> QED
          BY <4>1, <4>2 DEF UsbDevice
      <3> QED
        BY <1>4, <3>1, <3>2
    <2>3. missCounts' \in [Port -> Nat]
      BY <1>2, <1>6 DEF MissCountAfter
    <2> QED
      BY <2>1, <2>2, <2>3, <1>4 DEF ScannerTypeOK
  <1>8. \A id1, id2 \in DOMAIN devices' :
            devices'[id1].port = devices'[id2].port => id1 = id2
    <2>1. \A id1, id2 \in kept : devices[id1].port = devices[id2].port => id1 = id2
      BY DEF ScannerInv, OneDevicePerPort
    <2>2. \A id1 \in kept, id2 \in fresh : devices'[id1].port # devices'[id2].port
      <3> SUFFICES ASSUME NEW id1 \in kept, NEW id2 \in fresh
                   PROVE  devices'[id1].port # devices'[id2].port
        OBVIOUS
      <3>1. devices'[id1].port = devices[id1].port
        BY <1>4
      <3>2. devices'[id2].port \in Attaching(obs)
        BY <1>4, <1>a
      <3>3. devices[id1].port \notin Attaching(obs)
        BY DEF Replaced
      <3> QED
        BY <3>1, <3>2, <3>3
    <2>3. ASSUME NEW id1 \in fresh, NEW id2 \in fresh,
                 devices'[id1].port = devices'[id2].port
          PROVE  id1 = id2
      <3>1. order[id1 - nextId + 1] = order[id2 - nextId + 1]
        BY <1>a, <2>3
      <3>2. id1 - nextId + 1 \in 1..Len(order) /\ id2 - nextId + 1 \in 1..Len(order)
        BY <1>2, <1>3
      <3> QED
        BY <1>2, <1>3, <3>1, <3>2
    <2> QED
      BY <1>4, <2>1, <2>2, <2>3
  <1>9. ASSUME NEW p \in Port
        PROVE  /\ missCounts'[p] < DetachAfterMisses
               /\ missCounts'[p] > 0 => Existing(p)' # {}
    <2>1. missCounts[p] \in Nat /\ missCounts[p] < DetachAfterMisses
      BY <1>2 DEF ScannerInv, OneDevicePerPort
    <2>2. missCounts'[p] = MissCountAfter(p, obs[p])
      BY <1>6
    <2>3. missCounts'[p] < DetachAfterMisses
      BY <2>1, <2>2, ScannerConstants DEF MissCountAfter
    <2>4. ASSUME missCounts'[p] > 0
          PROVE  Existing(p)' # {}
      <3>1. obs[p] = Absent
        BY <2>2, <2>4 DEF MissCountAfter
      <3>2. Existing(p) # {} /\ missCounts[p] + 1 < DetachAfterMisses
        BY <2>1, <2>2, <2>4, <3>1, ScannerConstants
           DEF MissCountAfter, ScannerInv, OneDevicePerPort
      <3>3. PICK id \in DOMAIN devices : devices[id].port = p
        BY <3>2 DEF Existing
      <3>4. id \notin Replaced(obs)
        BY <3>1, <3>3, ScannerConstants DEF Replaced, Attaching
      <3>5. id \notin Lost(obs)
        BY <2>1, <3>2, <3>3, ScannerConstants DEF Lost
      <3>6. id \in kept
        BY <3>4, <3>5
      <3> QED
        BY <1>4, <3>3, <3>6 DEF Existing
    <2> QED
      BY <2>3, <2>4
  <1> QED
    BY <1>7, <1>8, <1>9 DEF ScannerInv, OneDevicePerPort

\* Every step of the scanner preserves the inductive invariant.
LEMMA NextPreservesInv == ScannerInv /\ [Next]_vars => ScannerInv'
  <1> SUFFICES ASSUME ScannerInv, [Next]_vars PROVE ScannerInv'
    OBVIOUS
  <1>1. ASSUME NEW obs \in ScanObservations, Scan(obs) PROVE ScannerInv'
    BY <1>1, ScanPreservesInv
  <1>2. CASE ScanFailed
    BY <1>2 DEF ScanFailed, vars, ScannerInv, ScannerTypeOK, OneDevicePerPort, Existing
  <1>3. CASE Broadcast
    BY <1>3 DEF Broadcast, ScannerInv, ScannerTypeOK, OneDevicePerPort, Existing
  <1>4. CASE UNCHANGED vars
    BY <1>4 DEF vars, ScannerInv, ScannerTypeOK, OneDevicePerPort, Existing
  <1> QED
    BY <1>1, <1>2, <1>3, <1>4 DEF Next

\* The inductive invariant of the scanner holds in every reachable state.
LEMMA ScannerInvariant == Spec => []ScannerInv
  <1>1. Init => ScannerInv
    BY ScannerConstants DEF Init, ScannerInv, ScannerTypeOK, OneDevicePerPort
  <1> QED
    BY <1>1, NextPreservesInv, PTL DEF Spec

\* Every known device id was handed out by next_id, and the table, the miss
\* counters and next_id keep their types, whatever the enumerations return.
THEOREM ScannerTypeCorrect == Spec => []ScannerTypeOK
  <1>1. ScannerInv => ScannerTypeOK
    BY DEF ScannerInv
  <1> QED
    BY <1>1, ScannerInvariant, PTL

\* Two known devices never share a port and a kept device is always below the
\* detach threshold, so the find() of diff_devices has at most one match.
THEOREM ScannerPortsDistinct == Spec => []OneDevicePerPort
  <1>1. ScannerInv => OneDevicePerPort
    BY DEF ScannerInv
  <1> QED
    BY <1>1, ScannerInvariant, PTL

-----------------------------------------------------------------------------
(* The scanner implements the debouncers.                                  *)

\* What a port holds is the serial number of the one device there is at it.
LEMMA HeldIsUdid ==
    ASSUME NEW p \in Port
    PROVE  /\ Existing(p) = {} => HeldAt(p) = NoDevice
           /\ \A id \in Existing(p) : Existing(p) = {id} => HeldAt(p) = devices[id].udid
  <1>1. \A id : (CHOOSE x \in {id} : TRUE) = id
    OBVIOUS
  <1> QED BY <1>1 DEF HeldAt

\* A scan is one observation of every debouncer.
LEMMA ScanIsDScan ==
    ASSUME ScannerInv, ScannerInv', NEW obs \in ScanObservations, Scan(obs)
    PROVE  Debounce!DScan
  <1>1. PICK order \in SetToSeqs(Attaching(obs)), lost \in SetToSeqs(Lost(obs)) :
            DiffDevices(obs, order, lost)
    BY DEF Scan
  <1> DEFINE kept == DOMAIN devices \ (Replaced(obs) \cup Lost(obs))
             fresh == nextId..(nextId + Len(order) - 1)
  <1>2. /\ DOMAIN devices' = kept \cup fresh
        /\ \A id \in kept : devices'[id] = devices[id]
        /\ \A id \in fresh :
                /\ order[id - nextId + 1] \in Attaching(obs)
                /\ devices'[id].port = order[id - nextId + 1]
                /\ devices'[id].udid = obs[order[id - nextId + 1]]
    BY <1>1, ScanTable DEF DiffDevices
  <1>3. missCounts' = [p \in Port |-> MissCountAfter(p, obs[p])]
    BY <1>1 DEF DiffDevices
  <1>4. /\ obs \in [Port -> Udid \cup {Absent, Unreadable}]
        /\ \A p, q \in Port : obs[p] \in Udid /\ obs[p] = obs[q] => p = q
    BY DEF ScanObservations
  <1>5. /\ \A id \in DOMAIN devices : devices[id].udid \in Udid /\ devices[id].port \in Port
        /\ \A id1, id2 \in DOMAIN devices : devices[id1].port = devices[id2].port => id1 = id2
        /\ missCounts \in [Port -> Nat]
        /\ \A p \in Port : missCounts[p] > 0 => Existing(p) # {}
    BY DEF ScannerInv, ScannerTypeOK, OneDevicePerPort, UsbDevice
  <1>6. \A id1, id2 \in DOMAIN devices' : devices'[id1].port = devices'[id2].port => id1 = id2
    BY DEF ScannerInv, OneDevicePerPort
  <1>7. ASSUME NEW p \in Port, NEW id \in DOMAIN devices, devices[id].port = p
        PROVE  Existing(p) = {id} /\ HeldAt(p) = devices[id].udid /\ HeldAt(p) # NoDevice
    <2>1. Existing(p) = {id}
      BY <1>5, <1>7 DEF Existing
    <2> QED BY <2>1, <1>5, HeldIsUdid, ScannerConstants
  <1>8. ASSUME NEW p \in Port, NEW id \in DOMAIN devices', devices'[id].port = p
        PROVE  HeldAt(p)' = devices'[id].udid
    <2>1. Existing(p)' = {id}
      BY <1>6, <1>8 DEF Existing
    <2>2. (CHOOSE x \in Existing(p)' : TRUE) = id
      BY <2>1
    <2> QED BY <2>1, <2>2 DEF HeldAt
  <1>9. ASSUME NEW p \in Port
        PROVE  HeldAt(p)' = IF obs[p] \in Udid THEN obs[p]
                            ELSE IF obs[p] = Absent /\ missCounts[p] + 1 >= DetachAfterMisses
                            THEN NoDevice ELSE HeldAt(p)
    <2>1. CASE p \in Attaching(obs)
      <3>1. PICK i \in 1..Len(order) : order[i] = p
        BY <2>1, OrderFacts
      <3>2. nextId \in Nat /\ Len(order) \in Nat
        BY OrderFacts DEF ScannerInv, ScannerTypeOK
      <3> DEFINE id == nextId + i - 1
      <3>3. id \in fresh /\ id - nextId + 1 = i
        BY <3>2
      <3>4. id \in DOMAIN devices' /\ devices'[id].port = p /\ devices'[id].udid = obs[p]
        BY <1>2, <3>1, <3>3
      <3> HIDE DEF id
      <3>5. obs[p] \in Udid
        BY <2>1 DEF Attaching
      <3> QED BY <1>8, <3>4, <3>5
    <2>2. CASE p \notin Attaching(obs) /\ Existing(p) = {}
      <3>1. obs[p] \notin Udid
        BY <2>2 DEF Attaching
      <3>2. \A id \in kept : devices'[id].port # p
        BY <1>2, <2>2 DEF Existing
      <3>3. \A id \in fresh : devices'[id].port # p
        BY <1>2, <2>2
      <3>4. Existing(p)' = {}
        BY <1>2, <3>2, <3>3 DEF Existing
      <3>5. HeldAt(p)' = NoDevice /\ HeldAt(p) = NoDevice
        BY <2>2, <3>4 DEF HeldAt
      <3> QED BY <3>1, <3>5
    <2>3. CASE p \notin Attaching(obs) /\ Existing(p) # {}
      <3>1. PICK id \in DOMAIN devices : devices[id].port = p
        BY <2>3 DEF Existing
      <3>2. HeldAt(p) = devices[id].udid /\ Existing(p) = {id}
        BY <1>7, <3>1
      <3>3. obs[p] \in Udid => obs[p] = devices[id].udid
        BY <2>3, <3>2 DEF Attaching
      <3>4. id \notin Replaced(obs)
        BY <2>3, <3>1 DEF Replaced
      <3>5. CASE id \in Lost(obs)
        <4>1. obs[p] = Absent /\ missCounts[p] + 1 >= DetachAfterMisses /\ obs[p] \notin Udid
          BY <3>1, <3>5, ScannerConstants DEF Lost
        <4>2. \A x \in kept : devices'[x].port # p
          BY <1>2, <1>5, <3>1, <3>5
        <4>3. \A x \in fresh : devices'[x].port # p
          BY <1>2, <2>3
        <4>4. Existing(p)' = {}
          BY <1>2, <4>2, <4>3 DEF Existing
        <4>5. HeldAt(p)' = NoDevice
          BY <4>4 DEF HeldAt
        <4> QED BY <4>1, <4>5
      <3>6. CASE id \notin Lost(obs)
        <4>1. ~(obs[p] = Absent /\ missCounts[p] + 1 >= DetachAfterMisses)
          BY <3>1, <3>6 DEF Lost
        <4>2. id \in kept
          BY <3>4, <3>6
        <4>3. id \in DOMAIN devices' /\ devices'[id] = devices[id]
          BY <1>2, <4>2
        <4>4. HeldAt(p)' = devices[id].udid
          BY <1>8, <3>1, <4>3
        <4> QED BY <3>2, <3>3, <4>1, <4>4
      <3> QED BY <3>5, <3>6
    <2> QED BY <2>1, <2>2, <2>3
  <1>10. ASSUME NEW p \in Port
         PROVE  missCounts'[p] =
                    IF \/ obs[p] # Absent \/ HeldAt(p) = NoDevice
                       \/ missCounts[p] + 1 >= DetachAfterMisses
                    THEN 0 ELSE missCounts[p] + 1
    <2>1. missCounts'[p] = MissCountAfter(p, obs[p])
      BY <1>3
    <2>2. HeldAt(p) = NoDevice <=> Existing(p) = {}
      BY <1>7, HeldIsUdid DEF Existing
    <2>3. Existing(p) = {} => missCounts[p] = 0
      BY <1>5
    <2> QED BY <2>1, <2>2, <2>3 DEF MissCountAfter
  <1> HIDE DEF kept, fresh
  <1>11. [p \in Port |-> HeldAt(p)]' = [p \in Port |-> Debounce!HeldAfter(p, obs[p])]
    BY <1>9 DEF Debounce!HeldAfter
  <1>12. missCounts' = [p \in Port |-> Debounce!MissedAfter(p, obs[p])]
    BY <1>3, <1>10 DEF Debounce!MissedAfter
  <1> QED BY <1>4, <1>11, <1>12 DEF Debounce!DScan

\* The scanner implements one debouncer per port: what is held there changes only
\* with another serial number or after DETACH_AFTER_MISSES scans in a row that
\* missed the port.
THEOREM ScannerRefinesDebounce == Spec => ImplementsDebounce
  <1>1. Init => Debounce!DInit
    BY DEF Init, Debounce!DInit, HeldAt, Existing
  <1>2. ScannerInv /\ ScannerInv' /\ [Next]_vars => [Debounce!DScan]_Debounce!dvars
    <2> SUFFICES ASSUME ScannerInv, ScannerInv', [Next]_vars
                 PROVE  [Debounce!DScan]_Debounce!dvars
      OBVIOUS
    <2>1. ASSUME devices' = devices, missCounts' = missCounts
          PROVE  UNCHANGED Debounce!dvars
      BY <2>1 DEF Debounce!dvars, HeldAt, Existing
    <2>2. ASSUME NEW obs \in ScanObservations, Scan(obs) PROVE Debounce!DScan
      BY <2>2, ScanIsDScan
    <2>3. CASE ScanFailed \/ Broadcast \/ UNCHANGED vars
      BY <2>1, <2>3 DEF ScanFailed, Broadcast, vars
    <2> QED BY <2>2, <2>3 DEF Next
  <1> QED BY <1>1, <1>2, ScannerInvariant, PTL DEF Spec, ImplementsDebounce, Debounce!DSpec

-----------------------------------------------------------------------------
(* The listener.                                                           *)

\* Between two broadcasts view and table differ by exactly the changes still to
\* come: each is about an id of its own, a Detached about one that is in the
\* view only, an Attached about one that is in the table only, and whoever the
\* view has at the port of an Attached is withdrawn before it.
PendingOK ==
    /\ changes \in Seq(DeviceChange)
    /\ \A i, j \in DOMAIN changes : changes[i].id = changes[j].id => i = j
    /\ \A i \in DOMAIN changes : changes[i].kind = "Attached" =>
        /\ changes[i].id \in DOMAIN devices \ DOMAIN view
        /\ devices[changes[i].id].port = changes[i].port
        /\ \A id \in DOMAIN view : view[id] = changes[i].port =>
                \E j \in 1..(i - 1) : changes[j] = Detached(id)
    /\ \A i \in DOMAIN changes : changes[i].kind = "Detached" =>
        changes[i].id \in DOMAIN view \ DOMAIN devices
    /\ \A id \in DOMAIN view \ DOMAIN devices : \E i \in DOMAIN changes : changes[i].id = id
    /\ \A id \in DOMAIN devices \ DOMAIN view : \E i \in DOMAIN changes : changes[i].id = id

ViewOK ==
    /\ view = [id \in DOMAIN view |-> view[id]]
    /\ DOMAIN view \subseteq 1..(nextId - 1)
    /\ \A id \in DOMAIN view \cap DOMAIN devices : view[id] = devices[id].port
    /\ \A id1, id2 \in DOMAIN view : view[id1] = view[id2] => id1 = id2

ListenerInv == ScannerInv /\ PendingOK /\ ViewOK

\* Induction over the natural numbers, with the set of the numbers that have
\* the property in place of the property.
LEMMA SetInduction ==
    ASSUME NEW S, 0 \in S, \A n \in Nat : n \in S => n + 1 \in S
    PROVE  Nat \subseteq S
  <1> SUFFICES ASSUME Nat \ S # {} PROVE FALSE
    OBVIOUS
  <1> DEFINE R == OpToRel(<, Nat)
             T == Nat \ S
  <1>1. IsWellFoundedOn(R, Nat)
    BY NatLessThanWellFounded
  <1>2. \A x, y \in Nat : x < y => <<x, y>> \in R
    BY DEF OpToRel
  <1> HIDE DEF R
  <1>3. PICK x \in T : \A y \in T : ~(<<y, x>> \in R)
    BY <1>1, WFMin
  <1>4. x \in Nat /\ x # 0
    OBVIOUS
  <1>5. x - 1 \in Nat /\ x - 1 < x
    BY <1>4
  <1>6. x - 1 \notin T
    BY <1>2, <1>3, <1>4, <1>5
  <1>7. (x - 1) + 1 \in S
    BY <1>5, <1>6
  <1> QED BY <1>4, <1>7

\* FlattenSeq is computed by the function it defines: there is such a function.
LEMMA FlattenComputes ==
    ASSUME NEW n \in Nat \ {0}, NEW C, NEW G \in [1..n -> Seq(C)]
    PROVE  \E f : /\ f = [i \in 1..n |-> IF i = 1 THEN G[i] ELSE f[i - 1] \o G[i]]
                  /\ FlattenSeq(G) = f[n]
  <1> DEFINE Computes(f, m) == f = [i \in 1..m |-> IF i = 1 THEN G[i] ELSE f[i - 1] \o G[i]]
             S == {m \in Nat : \E f : Computes(f, m)}
  <1>1. 0 \in S
    <2> DEFINE f == [i \in 1..0 |-> G[i]]
    <2>1. f = [i \in 1..0 |-> IF i = 1 THEN G[i] ELSE f[i - 1] \o G[i]]
      OBVIOUS
    <2> QED BY <2>1
  <1>2. ASSUME NEW m \in Nat, m \in S PROVE m + 1 \in S
    <2>1. PICK f : Computes(f, m)
      BY <1>2
    <2> DEFINE x == IF m + 1 = 1 THEN G[m + 1] ELSE f[m] \o G[m + 1]
               g == [i \in 1..(m + 1) |-> IF i = m + 1 THEN x ELSE f[i]]
    <2>2. \A i \in 1..m : f[i] = IF i = 1 THEN G[i] ELSE f[i - 1] \o G[i]
      BY <2>1
    <2>3. ASSUME NEW i \in 1..(m + 1)
          PROVE  g[i] = IF i = 1 THEN G[i] ELSE g[i - 1] \o G[i]
      <3>1. CASE i = m + 1
        <4>1. g[i] = x
          BY <3>1
        <4>2. i # 1 => g[i - 1] = f[m]
          BY <3>1
        <4> QED BY <3>1, <4>1, <4>2
      <3>2. CASE i # m + 1
        <4>1. i \in 1..m /\ g[i] = f[i]
          BY <3>2
        <4>2. i # 1 => i - 1 \in 1..m /\ g[i - 1] = f[i - 1]
          BY <4>1
        <4> QED BY <2>2, <4>1, <4>2
      <3> QED BY <3>1, <3>2
    <2>4. Computes(g, m + 1)
      <3>1. g = [i \in 1..(m + 1) |-> g[i]]
        OBVIOUS
      <3> HIDE DEF g
      <3> QED BY <2>3, <3>1
    <2> HIDE DEF g, Computes
    <2> QED BY <2>4
  <1>3. n \in S
    <2> HIDE DEF S
    <2>1. Nat \subseteq S
      BY <1>1, <1>2, SetInduction
    <2> QED BY <2>1
  <1> DEFINE h == CHOOSE f : Computes(f, n)
  <1>4. Computes(h, n)
    <2>1. \E f : Computes(f, n)
      BY <1>3
    <2> HIDE DEF Computes
    <2> QED BY <2>1
  <1>5. Len(G) = n
    <2> DEFINE T == Seq(C)
    <2>1. G \in [1..n -> T]
      OBVIOUS
    <2> HIDE DEF T
    <2> QED BY <2>1
  <1>6. FlattenSeq(G) = h[n]
    BY <1>5 DEF FlattenSeq
  <1> QED BY <1>4, <1>6

\* Flattening keeps every group of changes in one piece, adds nothing, and keeps
\* ids apart when the groups do.
LEMMA FlattenFacts ==
    ASSUME NEW n \in Nat, NEW G \in [1..n -> Seq(DeviceChange)],
           \A i, j \in 1..n : \A k \in 1..Len(G[i]), l \in 1..Len(G[j]) :
                G[i][k].id = G[j][l].id => i = j /\ k = l
    PROVE  LET F == FlattenSeq(G)
           IN  /\ F \in Seq(DeviceChange)
               /\ \A x \in 1..Len(F) : \E i \in 1..n : \E k \in 1..Len(G[i]) : F[x] = G[i][k]
               /\ \A i \in 1..n : \E o \in Nat :
                    /\ o + Len(G[i]) <= Len(F)
                    /\ \A k \in 1..Len(G[i]) : F[o + k] = G[i][k]
               /\ \A x, y \in 1..Len(F) : F[x].id = F[y].id => x = y
  <1> DEFINE Facts(F, m) ==
                /\ F \in Seq(DeviceChange)
                /\ \A x \in 1..Len(F) : \E i \in 1..m : \E k \in 1..Len(G[i]) : F[x] = G[i][k]
                /\ \A i \in 1..m : \E o \in Nat :
                    /\ o + Len(G[i]) <= Len(F)
                    /\ \A k \in 1..Len(G[i]) : F[o + k] = G[i][k]
                /\ \A x, y \in 1..Len(F) : F[x].id = F[y].id => x = y
  <1>1. CASE n = 0
    <2>1. G = <<>> /\ Len(G) = 0
      BY <1>1
    <2>2. FlattenSeq(G) = <<>>
      BY <2>1 DEF FlattenSeq
    <2> QED BY <1>1, <2>2
  <1>2. CASE n # 0
    <2>1. PICK f : /\ f = [i \in 1..n |-> IF i = 1 THEN G[i] ELSE f[i - 1] \o G[i]]
                   /\ FlattenSeq(G) = f[n]
      BY <1>2, FlattenComputes
    <2>a. \A i \in 1..n : f[i] = IF i = 1 THEN G[i] ELSE f[i - 1] \o G[i]
      BY <2>1
    <2>2. /\ f[1] = G[1]
          /\ \A i \in 1..n : i # 1 => f[i] = f[i - 1] \o G[i]
      <3>1. 1 \in 1..n
        BY <1>2
      <3>2. f[1] = G[1]
        BY <2>a, <3>1, Zenon
      <3>3. \A i \in 1..n : i # 1 => f[i] = f[i - 1] \o G[i]
        BY <2>a, Zenon
      <3> QED BY <3>2, <3>3
    <2> HIDE DEF Facts
    <2> DEFINE S == {m \in Nat : m \in 1..n => Facts(f[m], m)}
    <2>3. 0 \in S
      OBVIOUS
    <2>4. ASSUME NEW m \in Nat, m \in S PROVE m + 1 \in S
      <3> SUFFICES ASSUME m + 1 \in 1..n PROVE Facts(f[m + 1], m + 1)
        OBVIOUS
      <3>1. G[m + 1] \in Seq(DeviceChange)
        OBVIOUS
      <3>2. CASE m = 0
        <4>1. f[m + 1] = G[1] /\ m + 1 = 1
          BY <2>2, <3>2
        <4>2. Facts(G[1], 1)
          <5>1. G[1] \in Seq(DeviceChange) /\ Len(G[1]) \in Nat
            BY <1>2
          <5>2. \A x \in 1..Len(G[1]) : \E i \in 1..1 : \E k \in 1..Len(G[i]) : G[1][x] = G[i][k]
            OBVIOUS
          <5>3. \A i \in 1..1 : \E o \in Nat :
                    /\ o + Len(G[i]) <= Len(G[1])
                    /\ \A k \in 1..Len(G[i]) : G[1][o + k] = G[i][k]
            <6>1. /\ 0 + Len(G[1]) <= Len(G[1])
                  /\ \A k \in 1..Len(G[1]) : G[1][0 + k] = G[1][k]
              BY <5>1
            <6>2. \E o \in Nat : /\ o + Len(G[1]) <= Len(G[1])
                                 /\ \A k \in 1..Len(G[1]) : G[1][o + k] = G[1][k]
              <7> WITNESS 0 \in Nat
              <7> QED BY <6>1
            <6>3. \A i \in 1..1 : i = 1
              OBVIOUS
            <6> SUFFICES ASSUME NEW i \in 1..1
                         PROVE  \E o \in Nat :
                                    /\ o + Len(G[i]) <= Len(G[1])
                                    /\ \A k \in 1..Len(G[i]) : G[1][o + k] = G[i][k]
              OBVIOUS
            <6>4. G[i] = G[1]
              BY <6>3
            <6> QED BY <6>2, <6>4
          <5>4. \A x, y \in 1..Len(G[1]) : G[1][x].id = G[1][y].id => x = y
            BY <1>2
          <5> QED BY <5>1, <5>2, <5>3, <5>4 DEF Facts
        <4> QED BY <4>1, <4>2
      <3>3. CASE m # 0
        <4> DEFINE E == f[m]
                   H == G[m + 1]
                   F == E \o H
        <4>1. f[m + 1] = F
          <5>1. (m + 1) - 1 = m /\ m + 1 # 1
            BY <3>3
          <5> QED BY <2>2, <5>1
        <4>2. m \in 1..n /\ Facts(E, m)
          <5>1. m \in 1..n
            BY <3>3
          <5> QED BY <2>4, <5>1
        <4>3. /\ E \in Seq(DeviceChange)
              /\ \A x \in 1..Len(E) : \E i \in 1..m : \E k \in 1..Len(G[i]) : E[x] = G[i][k]
              /\ \A i \in 1..m : \E o \in Nat :
                    /\ o + Len(G[i]) <= Len(E)
                    /\ \A k \in 1..Len(G[i]) : E[o + k] = G[i][k]
              /\ \A x, y \in 1..Len(E) : E[x].id = E[y].id => x = y
          BY <4>2 DEF Facts
        <4>4. H \in Seq(DeviceChange)
          BY <3>1
        <4>5. \A k, l \in 1..Len(H) : H[k].id = H[l].id => k = l
          OBVIOUS
        <4>6. \A i \in 1..m : \A k \in 1..Len(G[i]), l \in 1..Len(H) : G[i][k].id # H[l].id
          BY <4>2
        <4>7. \A i \in 1..m : Len(G[i]) \in Nat
          BY <4>2
        <4> HIDE DEF E
        <4>8. /\ F \in Seq(DeviceChange) /\ Len(F) = Len(E) + Len(H)
              /\ Len(E) \in Nat /\ Len(H) \in Nat
              /\ \A x \in 1..Len(E) : F[x] = E[x]
              /\ \A x \in 1..Len(H) : F[Len(E) + x] = H[x]
              /\ \A x \in 1..Len(F) : x > Len(E) => x - Len(E) \in 1..Len(H) /\ F[x] = H[x - Len(E)]
          <5> HIDE DEF H
          <5> QED BY <4>3, <4>4
        <4> HIDE DEF F
        <4>9. \A x \in 1..Len(F) :
                \E i \in 1..(m + 1) : \E k \in 1..Len(G[i]) : F[x] = G[i][k]
          <5> SUFFICES ASSUME NEW x \in 1..Len(F)
                       PROVE  \E i \in 1..(m + 1) : \E k \in 1..Len(G[i]) : F[x] = G[i][k]
            OBVIOUS
          <5>1. CASE x <= Len(E)
            <6>1. x \in 1..Len(E) /\ F[x] = E[x]
              BY <4>8, <5>1
            <6>2. PICK i \in 1..m : \E k \in 1..Len(G[i]) : E[x] = G[i][k]
              BY <4>3, <6>1
            <6>3. i \in 1..(m + 1)
              OBVIOUS
            <6> QED BY <6>1, <6>2, <6>3
          <5>2. CASE x > Len(E)
            <6>1. x - Len(E) \in 1..Len(H) /\ F[x] = H[x - Len(E)]
              BY <4>8, <5>2
            <6>2. m + 1 \in 1..(m + 1)
              OBVIOUS
            <6> QED BY <6>1, <6>2
          <5> QED BY <4>8, <5>1, <5>2
        <4>10. ASSUME NEW i \in 1..(m + 1)
               PROVE  \E o \in Nat :
                        /\ o + Len(G[i]) <= Len(F)
                        /\ \A k \in 1..Len(G[i]) : F[o + k] = G[i][k]
          <5>1. CASE i \in 1..m
            <6>1. PICK o \in Nat : /\ o + Len(G[i]) <= Len(E)
                                   /\ \A k \in 1..Len(G[i]) : E[o + k] = G[i][k]
              BY <4>3, <5>1
            <6>2. Len(G[i]) \in Nat
              BY <4>7, <5>1
            <6>3. \A k \in 1..Len(G[i]) : o + k \in 1..Len(E)
              BY <4>8, <6>1, <6>2
            <6>4. o + Len(G[i]) <= Len(F)
              BY <4>8, <6>1, <6>2
            <6>5. \A k \in 1..Len(G[i]) : F[o + k] = G[i][k]
              BY <4>8, <6>1, <6>3
            <6> QED BY <6>4, <6>5
          <5>2. CASE i = m + 1
            <6> HIDE DEF H
            <6>1. G[i] = H
              BY <5>2 DEF H
            <6>2. /\ Len(E) + Len(H) <= Len(F)
                  /\ \A k \in 1..Len(H) : F[Len(E) + k] = H[k]
              BY <4>8
            <6>3. Len(E) \in Nat
              BY <4>8
            <6>4. \E o \in Nat : /\ o + Len(H) <= Len(F)
                                 /\ \A k \in 1..Len(H) : F[o + k] = H[k]
              BY <6>2, <6>3, Zenon
            <6> QED BY <6>1, <6>4
          <5>3. i \in 1..m \/ i = m + 1
            OBVIOUS
          <5> QED BY <5>1, <5>2, <5>3, Zenon
        <4>11. ASSUME NEW x \in 1..Len(F), NEW y \in 1..Len(F), F[x].id = F[y].id
               PROVE  x = y
          <5>1. ASSUME NEW a \in 1..Len(F), NEW b \in 1..Len(F), a <= Len(E), b > Len(E)
                PROVE  F[a].id # F[b].id
            <6>1. a \in 1..Len(E) /\ F[a] = E[a] /\ b - Len(E) \in 1..Len(H) /\ F[b] = H[b - Len(E)]
              BY <4>8, <5>1
            <6>2. PICK i \in 1..m : \E k \in 1..Len(G[i]) : E[a] = G[i][k]
              BY <4>3, <6>1
            <6> HIDE DEF H
            <6> QED BY <4>6, <6>1, <6>2
          <5>2. CASE x <= Len(E) /\ y <= Len(E)
            <6>1. x \in 1..Len(E) /\ y \in 1..Len(E) /\ F[x] = E[x] /\ F[y] = E[y]
              BY <4>8, <5>2
            <6> QED BY <4>3, <4>11, <6>1
          <5>3. CASE x > Len(E) /\ y > Len(E)
            <6>1. /\ x - Len(E) \in 1..Len(H) /\ F[x] = H[x - Len(E)]
                  /\ y - Len(E) \in 1..Len(H) /\ F[y] = H[y - Len(E)]
              BY <4>8, <5>3
            <6> HIDE DEF H
            <6>2. x - Len(E) = y - Len(E)
              BY <4>5, <4>11, <6>1
            <6> QED BY <4>8, <6>2
          <5> QED BY <4>8, <4>11, <5>1, <5>2, <5>3
        <4>12. Facts(F, m + 1)
          BY <4>8, <4>9, <4>10, <4>11 DEF Facts
        <4> QED BY <4>1, <4>12
      <3> QED BY <3>2, <3>3
    <2>5. n \in S
      <3> HIDE DEF S
      <3>1. Nat \subseteq S
        BY <2>3, <2>4, SetInduction
      <3> QED BY <3>1
    <2>6. Facts(f[n], n)
      <3>1. n \in 1..n
        BY <1>2
      <3> QED BY <2>5, <3>1
    <2>7. Facts(FlattenSeq(G), n)
      BY <2>1, <2>6
    <2> QED BY <2>7 DEF Facts
  <1> QED BY <1>1, <1>2

\* Fields of the changes.
LEMMA ChangeFields ==
    /\ \A id, p : /\ Attached(id, p).kind = "Attached" /\ Attached(id, p).id = id
                  /\ Attached(id, p).port = p
    /\ \A id : Detached(id).kind = "Detached" /\ Detached(id).id = id
    /\ \A id \in Nat, p \in Port : Attached(id, p) \in DeviceChange
    /\ \A id \in Nat : Detached(id) \in DeviceChange
    /\ \A c \in DeviceChange : c.kind \in {"Attached", "Detached"} /\ c.id \in Nat
  BY DEF Attached, Detached, DeviceChange

\* The sequence of no element and of one.
LEMMA SetToSeqSmall == SetToSeq({}) = <<>> /\ \A x : SetToSeq({x}) = <<x>>
  <1>1. SetToSeq({}) = <<>>
    <2>1. Cardinality({}) = 0
      BY FS_EmptySet
    <2>2. \A f \in [1..0 -> {}] : f = <<>>
      OBVIOUS
    <2>3. <<>> \in [1..0 -> {}] /\ IsInjective(<<>>)
      BY DEF IsInjective
    <2> QED BY <2>1, <2>2, <2>3 DEF SetToSeq
  <1>2. ASSUME NEW x PROVE SetToSeq({x}) = <<x>>
    <2>1. Cardinality({x}) = 1
      BY FS_Singleton
    <2>2. \A f \in [1..1 -> {x}] : f = <<x>>
      OBVIOUS
    <2>3. <<x>> \in [1..1 -> {x}] /\ IsInjective(<<x>>)
      BY DEF IsInjective
    <2> QED BY <2>1, <2>2, <2>3 DEF SetToSeq
  <1> QED BY <1>1, <1>2

\* The changes of one attaching port: its device, if it has one, is withdrawn,
\* then the new one announced.
LEMMA GroupFacts ==
    ASSUME ScannerInv, NEW p \in Port, NEW id \in Nat
    PROVE  LET g == AttachChanges(p, id)
           IN  /\ g \in Seq(DeviceChange) /\ Len(g) \in 1..2 /\ g[Len(g)] = Attached(id, p)
               /\ \A k \in 1..Len(g) : k # Len(g) =>
                    \E old \in Existing(p) : g[k] = Detached(old)
               /\ \A old \in Existing(p) : Len(g) = 2 /\ g[1] = Detached(old)
  <1>1. /\ DOMAIN devices \subseteq Nat
        /\ \A id1, id2 \in DOMAIN devices : devices[id1].port = devices[id2].port => id1 = id2
    BY DEF ScannerInv, ScannerTypeOK, OneDevicePerPort
  <1>2. Attached(id, p) \in DeviceChange
    BY ChangeFields
  <1>3. CASE Existing(p) = {}
    <2>1. {Detached(old) : old \in Existing(p)} = {}
      BY <1>3
    <2>2. AttachChanges(p, id) = <<Attached(id, p)>>
      <3>1. \A x : <<>> \o <<x>> = <<x>>
        OBVIOUS
      <3>2. AttachChanges(p, id) = <<>> \o <<Attached(id, p)>>
        BY <2>1, SetToSeqSmall DEF AttachChanges
      <3> QED BY <3>1, <3>2
    <2> QED BY <1>2, <1>3, <2>2
  <1>4. CASE Existing(p) # {}
    <2>1. PICK old \in DOMAIN devices : devices[old].port = p
      BY <1>4 DEF Existing
    <2>2. Existing(p) = {old}
      BY <1>1, <2>1 DEF Existing
    <2>3. {Detached(x) : x \in Existing(p)} = {Detached(old)}
      BY <2>2
    <2>4. AttachChanges(p, id) = <<Detached(old)>> \o <<Attached(id, p)>>
      BY <2>3, SetToSeqSmall DEF AttachChanges
    <2>5. Detached(old) \in DeviceChange
      BY <1>1, ChangeFields
    <2>6. AttachChanges(p, id) = <<Detached(old), Attached(id, p)>>
      <3>1. ASSUME NEW x, NEW y PROVE <<x>> \o <<y>> = <<x, y>>
        <4> DEFINE s == <<x>> \o <<y>>
        <4>1. s \in Seq({x, y}) /\ Len(s) = 2 /\ s[1] = x /\ s[2] = y
          OBVIOUS
        <4>2. <<x, y>> \in Seq({x, y}) /\ Len(<<x, y>>) = 2
          OBVIOUS
        <4> HIDE DEF s
        <4>3. \A i \in 1..2 : s[i] = <<x, y>>[i]
          BY <4>1
        <4>4. s = <<x, y>>
          BY <4>1, <4>2, <4>3, SeqEqual
        <4> QED BY <4>4 DEF s
      <3> QED BY <2>4, <3>1
    <2> QED BY <1>2, <2>2, <2>5, <2>6
  <1> QED BY <1>3, <1>4

\* The changes of a scan: one Attached for every attaching port, after the
\* Detached of the device it replaces; one Detached for every device replaced or
\* lost; nothing else, and no id twice.
LEMMA ScanChanges ==
    ASSUME ScannerInv, NEW obs \in ScanObservations,
           NEW order \in SetToSeqs(Attaching(obs)), NEW lost \in SetToSeqs(Lost(obs)),
           DiffDevices(obs, order, lost)
    PROVE  /\ changes' \in Seq(DeviceChange)
           /\ \A x, y \in 1..Len(changes') : changes'[x].id = changes'[y].id => x = y
           /\ \A x \in 1..Len(changes') :
                \/ \E i \in 1..Len(order) :
                    /\ changes'[x] = Attached(nextId + i - 1, order[i])
                    /\ \A old \in Existing(order[i]) :
                        \E y \in 1..(x - 1) : changes'[y] = Detached(old)
                \/ \E old \in Replaced(obs) \cup Lost(obs) : changes'[x] = Detached(old)
           /\ \A i \in 1..Len(order) :
                \E x \in 1..Len(changes') : changes'[x].id = nextId + i - 1
           /\ \A old \in Replaced(obs) \cup Lost(obs) :
                \E x \in 1..Len(changes') : changes'[x].id = old
  <1> DEFINE n == Len(order)
             G == [i \in DOMAIN order |-> AttachChanges(order[i], nextId + i - 1)]
             F == FlattenSeq(G)
             D == [i \in DOMAIN lost |-> Detached(lost[i])]
             c == F \o D
  <1>1. changes' = c
    BY DEF DiffDevices
  <1>2. /\ n \in Nat /\ DOMAIN order = 1..n
        /\ \A i \in 1..n : order[i] \in Attaching(obs)
        /\ \A i, j \in 1..n : order[i] = order[j] => i = j
        /\ \A p \in Attaching(obs) : \E i \in 1..n : order[i] = p
    BY OrderFacts
  <1>3. /\ nextId \in Nat \ {0} /\ DOMAIN devices \subseteq 1..(nextId - 1)
        /\ \A id1, id2 \in DOMAIN devices : devices[id1].port = devices[id2].port => id1 = id2
    BY DEF ScannerInv, ScannerTypeOK, OneDevicePerPort
  <1>4. /\ lost \in Seq(Lost(obs)) /\ Len(lost) \in Nat /\ DOMAIN lost = 1..Len(lost)
        /\ \A i \in 1..Len(lost) : lost[i] \in Lost(obs)
        /\ \A i, j \in 1..Len(lost) : lost[i] = lost[j] => i = j
        /\ \A x \in Lost(obs) : \E i \in 1..Len(lost) : lost[i] = x
    <2>1. IsFiniteSet(1..(nextId - 1))
      BY <1>3, FS_Interval
    <2>2. IsFiniteSet(Lost(obs))
      BY <1>3, <2>1, FS_Subset DEF Lost
    <2> QED BY <2>2, SetToSeqsFacts
  <1>5. ASSUME NEW i \in 1..n
        PROVE  /\ order[i] \in Port /\ nextId + i - 1 \in Nat
               /\ G[i] = AttachChanges(order[i], nextId + i - 1)
               /\ G[i] \in Seq(DeviceChange) /\ Len(G[i]) \in 1..2
               /\ G[i][Len(G[i])] = Attached(nextId + i - 1, order[i])
               /\ \A k \in 1..Len(G[i]) : k # Len(G[i]) =>
                    \E old \in Existing(order[i]) : G[i][k] = Detached(old)
               /\ \A old \in Existing(order[i]) : Len(G[i]) = 2 /\ G[i][1] = Detached(old)
    <2>1. order[i] \in Port /\ nextId + i - 1 \in Nat
      BY <1>2, <1>3 DEF Attaching
    <2>2. G[i] = AttachChanges(order[i], nextId + i - 1)
      BY <1>2
    <2> HIDE DEF G
    <2> QED BY <2>1, <2>2, GroupFacts
  <1>7. G \in [1..n -> Seq(DeviceChange)]
    BY <1>2, <1>5
  <1> HIDE DEF G
  <1>6. ASSUME NEW i \in 1..n, NEW k \in 1..Len(G[i])
        PROVE  \/ k = Len(G[i]) /\ G[i][k].id = nextId + i - 1
               \/ /\ k = 1 /\ Len(G[i]) = 2 /\ G[i][k].id \in DOMAIN devices
                  /\ devices[G[i][k].id].port = order[i]
    <2>1. CASE k = Len(G[i])
      <3>1. G[i][k] = Attached(nextId + i - 1, order[i])
        BY <1>5, <2>1
      <3>2. G[i][k].id = nextId + i - 1
        BY <3>1, ChangeFields
      <3> QED BY <2>1, <3>2
    <2>2. CASE k # Len(G[i])
      <3>1. PICK old \in Existing(order[i]) : G[i][k] = Detached(old)
        BY <1>5, <2>2
      <3>2. Len(G[i]) = 2
        BY <1>5, <3>1
      <3>a. k \in 1..2 /\ k # 2
        BY <2>2, <3>2
      <3>3. k = 1
        BY <3>a
      <3>4. G[i][k].id = old
        BY <3>1, ChangeFields
      <3> QED BY <3>1, <3>2, <3>3, <3>4 DEF Existing
    <2> QED BY <2>1, <2>2
  <1>8. \A i, j \in 1..n : \A k \in 1..Len(G[i]), l \in 1..Len(G[j]) :
            G[i][k].id = G[j][l].id => i = j /\ k = l
    <2> SUFFICES ASSUME NEW i \in 1..n, NEW j \in 1..n,
                        NEW k \in 1..Len(G[i]), NEW l \in 1..Len(G[j]), G[i][k].id = G[j][l].id
                 PROVE  i = j /\ k = l
      OBVIOUS
    <2>1. \A id \in DOMAIN devices : id < nextId
      BY <1>3
    <2>2. i \in Nat /\ j \in Nat /\ i >= 1 /\ j >= 1
      BY <1>2
    <2>3. CASE k = Len(G[i]) /\ G[i][k].id = nextId + i - 1
      <3>1. l = Len(G[j]) /\ G[j][l].id = nextId + j - 1
        BY <1>3, <1>6, <2>1, <2>2, <2>3
      <3>2. i = j
        BY <1>3, <2>2, <2>3, <3>1
      <3> QED BY <2>3, <3>1, <3>2
    <2>4. CASE /\ k = 1 /\ Len(G[i]) = 2 /\ G[i][k].id \in DOMAIN devices
               /\ devices[G[i][k].id].port = order[i]
      <3>1. l = 1 /\ devices[G[j][l].id].port = order[j]
        BY <1>3, <1>6, <2>1, <2>2, <2>4
      <3>2. i = j
        BY <1>2, <2>4, <3>1
      <3> QED BY <2>4, <3>1, <3>2
    <2> QED BY <1>6, <2>3, <2>4
  <1>9. /\ F \in Seq(DeviceChange)
        /\ \A x \in 1..Len(F) : \E i \in 1..n : \E k \in 1..Len(G[i]) : F[x] = G[i][k]
        /\ \A i \in 1..n : \E o \in Nat :
            /\ o + Len(G[i]) <= Len(F)
            /\ \A k \in 1..Len(G[i]) : F[o + k] = G[i][k]
        /\ \A x, y \in 1..Len(F) : F[x].id = F[y].id => x = y
    BY <1>2, <1>7, <1>8, FlattenFacts
  <1> HIDE DEF F
  <1>10. /\ D \in Seq(DeviceChange) /\ Len(D) = Len(lost)
         /\ \A i \in 1..Len(D) : D[i] = Detached(lost[i])
    <2>1. \A i \in 1..Len(lost) : Detached(lost[i]) \in DeviceChange
      <3>1. \A i \in 1..Len(lost) : lost[i] \in Nat
        BY <1>3, <1>4 DEF Lost
      <3> QED BY <3>1, ChangeFields
    <2>2. D \in [1..Len(lost) -> DeviceChange]
      BY <1>4, <2>1
    <2>3. \A i \in 1..Len(lost) : D[i] = Detached(lost[i])
      BY <1>4
    <2> HIDE DEF D
    <2> QED BY <1>4, <2>2, <2>3
  <1> HIDE DEF D
  <1>11. /\ c \in Seq(DeviceChange) /\ Len(c) = Len(F) + Len(D)
         /\ Len(F) \in Nat /\ Len(D) \in Nat
         /\ \A x \in 1..Len(F) : c[x] = F[x]
         /\ \A x \in 1..Len(D) : c[Len(F) + x] = D[x]
         /\ \A x \in 1..Len(c) : x > Len(F) => x - Len(F) \in 1..Len(D) /\ c[x] = D[x - Len(F)]
    <2>1. F \in Seq(DeviceChange) /\ D \in Seq(DeviceChange)
      BY <1>9, <1>10
    <2> QED BY <2>1
  <1> HIDE DEF c
  <1>12. ASSUME NEW x \in 1..Len(F)
         PROVE  \/ \E i \in 1..n :
                    /\ c[x] = Attached(nextId + i - 1, order[i])
                    /\ \A old \in Existing(order[i]) :
                        \E y \in 1..(x - 1) : c[y] = Detached(old)
                \/ \E old \in Replaced(obs) : c[x] = Detached(old)
    <2>1. PICK i \in 1..n : \E k \in 1..Len(G[i]) : F[x] = G[i][k]
      BY <1>9
    <2>2. PICK k \in 1..Len(G[i]) : F[x] = G[i][k]
      BY <2>1
    <2>3. CASE k = Len(G[i])
      <3>1. c[x] = Attached(nextId + i - 1, order[i])
        BY <1>5, <1>11, <2>2, <2>3
      <3>2. PICK o \in Nat : /\ o + Len(G[i]) <= Len(F)
                             /\ \A m \in 1..Len(G[i]) : F[o + m] = G[i][m]
        BY <1>9
      <3>3. Len(G[i]) \in 1..2 /\ Len(G[i]) \in 1..Len(G[i])
        BY <1>5
      <3>4. o + Len(G[i]) \in 1..Len(F) /\ F[o + Len(G[i])] = F[x]
        BY <1>11, <2>2, <2>3, <3>2, <3>3
      <3>5. x = o + Len(G[i])
        BY <1>9, <3>4
      <3>6. ASSUME NEW old \in Existing(order[i])
            PROVE  \E y \in 1..(x - 1) : c[y] = Detached(old)
        <4>1. Len(G[i]) = 2 /\ G[i][1] = Detached(old)
          BY <1>5
        <4>2. o + 1 \in 1..(x - 1) /\ o + 1 \in 1..Len(F)
          BY <1>11, <3>2, <3>5, <4>1
        <4>3. c[o + 1] = Detached(old)
          BY <1>11, <3>2, <4>1, <4>2
        <4> QED BY <4>2, <4>3
      <3> QED BY <3>1, <3>6
    <2>4. CASE k # Len(G[i])
      <3>1. PICK old \in Existing(order[i]) : G[i][k] = Detached(old)
        BY <1>5, <2>4
      <3>2. old \in Replaced(obs)
        BY <1>2 DEF Existing, Replaced
      <3>3. c[x] = Detached(old)
        BY <1>11, <2>2, <3>1
      <3> QED BY <3>2, <3>3
    <2> QED BY <2>3, <2>4
  <1>13. ASSUME NEW x \in 1..Len(c), x > Len(F)
         PROVE  \E i \in 1..Len(lost) : /\ i = x - Len(F) /\ c[x] = Detached(lost[i])
                                        /\ c[x].id = lost[i]
    <2>1. x - Len(F) \in 1..Len(lost) /\ c[x] = Detached(lost[x - Len(F)])
      BY <1>10, <1>11, <1>13
    <2>2. c[x].id = lost[x - Len(F)]
      BY <2>1, ChangeFields
    <2> QED BY <2>1, <2>2
  <1>14. \A x \in 1..Len(c) :
            \/ \E i \in 1..n :
                /\ c[x] = Attached(nextId + i - 1, order[i])
                /\ \A old \in Existing(order[i]) : \E y \in 1..(x - 1) : c[y] = Detached(old)
            \/ \E old \in Replaced(obs) \cup Lost(obs) : c[x] = Detached(old)
    <2> SUFFICES ASSUME NEW x \in 1..Len(c)
                 PROVE  \/ \E i \in 1..n :
                            /\ c[x] = Attached(nextId + i - 1, order[i])
                            /\ \A old \in Existing(order[i]) :
                                \E y \in 1..(x - 1) : c[y] = Detached(old)
                        \/ \E old \in Replaced(obs) \cup Lost(obs) : c[x] = Detached(old)
      OBVIOUS
    <2>1. CASE x <= Len(F)
      <3>1. x \in 1..Len(F)
        BY <1>11, <2>1
      <3> QED BY <1>12, <3>1
    <2>2. CASE x > Len(F)
      <3>1. PICK i \in 1..Len(lost) : c[x] = Detached(lost[i])
        BY <1>13, <2>2
      <3> QED BY <1>4, <3>1
    <2> QED BY <1>11, <2>1, <2>2
  <1>15. \A x, y \in 1..Len(c) : c[x].id = c[y].id => x = y
    <2>1. ASSUME NEW x \in 1..Len(c), NEW y \in 1..Len(c), x <= Len(F), y > Len(F)
          PROVE  c[x].id # c[y].id
      <3>1. PICK i \in 1..Len(lost) : c[y].id = lost[i]
        BY <1>13, <2>1
      <3>2. lost[i] \in DOMAIN devices /\ obs[devices[lost[i]].port] = Absent /\ lost[i] < nextId
        BY <1>3, <1>4 DEF Lost
      <3>3. x \in 1..Len(F)
        BY <1>11, <2>1
      <3>4. ASSUME NEW j \in 1..n, c[x] = Attached(nextId + j - 1, order[j])
            PROVE  c[x].id # lost[i]
        <4>1. c[x].id = nextId + j - 1
          BY <3>4, ChangeFields
        <4> QED BY <1>2, <1>3, <3>2, <4>1
      <3>5. ASSUME NEW old \in Replaced(obs), c[x] = Detached(old)
            PROVE  c[x].id # lost[i]
        <4>1. c[x].id = old
          BY <3>5, ChangeFields
        <4>2. obs[devices[old].port] \in Udid
          BY DEF Replaced, Attaching
        <4> QED BY <3>2, <4>1, <4>2, ScannerConstants
      <3> QED BY <1>12, <3>1, <3>3, <3>4, <3>5
    <2> SUFFICES ASSUME NEW x \in 1..Len(c), NEW y \in 1..Len(c), c[x].id = c[y].id
                 PROVE  x = y
      OBVIOUS
    <2>2. CASE x <= Len(F) /\ y <= Len(F)
      <3>1. x \in 1..Len(F) /\ y \in 1..Len(F) /\ c[x] = F[x] /\ c[y] = F[y]
        BY <1>11, <2>2
      <3> QED BY <1>9, <3>1
    <2>3. CASE x > Len(F) /\ y > Len(F)
      <3>1. PICK i \in 1..Len(lost) : i = x - Len(F) /\ c[x].id = lost[i]
        BY <1>13, <2>3
      <3>2. PICK j \in 1..Len(lost) : j = y - Len(F) /\ c[y].id = lost[j]
        BY <1>13, <2>3
      <3>3. i = j
        BY <1>4, <3>1, <3>2
      <3> QED BY <1>11, <3>1, <3>2, <3>3
    <2> QED BY <1>11, <2>1, <2>2, <2>3
  <1>16. ASSUME NEW i \in 1..n PROVE \E x \in 1..Len(c) : c[x].id = nextId + i - 1
    <2>1. PICK o \in Nat : /\ o + Len(G[i]) <= Len(F)
                           /\ \A m \in 1..Len(G[i]) : F[o + m] = G[i][m]
      BY <1>9
    <2>2. Len(G[i]) \in 1..2 /\ G[i][Len(G[i])].id = nextId + i - 1
      BY <1>5, ChangeFields
    <2>c. Len(G[i]) \in 1..2
      BY <2>2
    <2>a. Len(G[i]) \in 1..Len(G[i]) /\ o + Len(G[i]) \in 1..Len(F)
      <3>1. Len(G[i]) \in Nat /\ Len(G[i]) >= 1
        <4> DEFINE l == Len(G[i])
        <4>1. l \in 1..2
          BY <2>c
        <4> HIDE DEF l
        <4>2. l \in Nat /\ l >= 1
          BY <4>1
        <4> QED BY <4>2 DEF l
      <3>2. o + Len(G[i]) <= Len(F) /\ Len(F) \in Nat
        BY <1>11, <2>1
      <3> QED BY <3>1, <3>2
    <2>b. 1..Len(F) \subseteq 1..Len(c)
      BY <1>11
    <2>3. /\ o + Len(G[i]) \in 1..Len(c) /\ o + Len(G[i]) \in 1..Len(F)
          /\ F[o + Len(G[i])] = G[i][Len(G[i])]
      BY <2>1, <2>a, <2>b
    <2> QED BY <1>11, <2>2, <2>3
  <1>17. ASSUME NEW old \in Replaced(obs) \cup Lost(obs)
         PROVE  \E x \in 1..Len(c) : c[x].id = old
    <2>1. CASE old \in Replaced(obs)
      <3>1. PICK i \in 1..n : order[i] = devices[old].port
        BY <1>2, <2>1 DEF Replaced
      <3>2. old \in Existing(order[i])
        BY <2>1, <3>1 DEF Replaced, Existing
      <3>3. Len(G[i]) = 2 /\ G[i][1] = Detached(old)
        BY <1>5, <3>2
      <3>4. PICK o \in Nat : /\ o + Len(G[i]) <= Len(F)
                             /\ \A m \in 1..Len(G[i]) : F[o + m] = G[i][m]
        BY <1>9
      <3>5. o + 1 \in 1..Len(F) /\ o + 1 \in 1..Len(c) /\ F[o + 1] = G[i][1]
        BY <1>11, <3>3, <3>4
      <3>6. c[o + 1].id = old
        BY <1>11, <3>3, <3>5, ChangeFields
      <3> QED BY <3>5, <3>6
    <2>2. CASE old \in Lost(obs)
      <3>1. PICK i \in 1..Len(lost) : lost[i] = old
        BY <1>4, <2>2
      <3>a. i \in 1..Len(D) /\ D[i] = Detached(old)
        BY <1>10, <3>1
      <3>b. Len(F) + i \in 1..Len(c)
        BY <1>11, <3>a
      <3>2. Len(F) + i \in 1..Len(c) /\ c[Len(F) + i] = Detached(old)
        BY <1>11, <3>a, <3>b
      <3>3. c[Len(F) + i].id = old
        BY <3>2, ChangeFields
      <3> QED BY <3>2, <3>3
    <2> QED BY <2>1, <2>2
  <1> QED BY <1>1, <1>11, <1>14, <1>15, <1>16, <1>17

\* A scan that starts with every change broadcast leaves exactly the changes
\* that lead from the listener's view to the new table.
LEMMA ScanPending ==
    ASSUME ListenerInv, NEW obs \in ScanObservations, Scan(obs)
    PROVE  PendingOK' /\ ViewOK'
  <1> DEFINE gone == Replaced(obs) \cup Lost(obs)
  <1>1. PICK order \in SetToSeqs(Attaching(obs)), lost \in SetToSeqs(Lost(obs)) :
            DiffDevices(obs, order, lost)
    BY DEF Scan
  <1> DEFINE fresh == nextId..(nextId + Len(order) - 1)
  <1>2. changes = <<>> /\ view' = view /\ nextId' = nextId + Len(order)
        /\ devices' = DevicesAfter(obs, order)
    BY <1>1 DEF Scan, DiffDevices, NextIdAfter
  <1>3. ScannerInv /\ nextId \in Nat \ {0} /\ Len(order) \in Nat
    BY OrderFacts DEF ListenerInv, ScannerInv, ScannerTypeOK
  <1>4. /\ DOMAIN devices' = (DOMAIN devices \ gone) \cup fresh
        /\ \A id \in DOMAIN devices \ gone : devices'[id] = devices[id] /\ id < nextId
        /\ \A id \in fresh : devices'[id].port = order[id - nextId + 1]
    BY <1>2, <1>3, ScanTable
  <1>5. /\ changes' \in Seq(DeviceChange)
        /\ \A x, y \in 1..Len(changes') : changes'[x].id = changes'[y].id => x = y
        /\ \A x \in 1..Len(changes') :
             \/ \E i \in 1..Len(order) :
                 /\ changes'[x] = Attached(nextId + i - 1, order[i])
                 /\ \A old \in Existing(order[i]) :
                     \E y \in 1..(x - 1) : changes'[y] = Detached(old)
             \/ \E old \in gone : changes'[x] = Detached(old)
        /\ \A i \in 1..Len(order) :
             \E x \in 1..Len(changes') : changes'[x].id = nextId + i - 1
        /\ \A old \in gone : \E x \in 1..Len(changes') : changes'[x].id = old
    BY <1>1, <1>3, ScanChanges
  <1>6. /\ DOMAIN view = DOMAIN devices /\ DOMAIN view \subseteq 1..(nextId - 1)
        /\ \A id \in DOMAIN view : view[id] = devices[id].port /\ id < nextId
    <2>1. DOMAIN changes = {}
      BY <1>2
    <2>2. DOMAIN view = DOMAIN devices
      BY <2>1 DEF ListenerInv, PendingOK
    <2>3. DOMAIN view \subseteq 1..(nextId - 1)
      BY DEF ListenerInv, ViewOK
    <2> QED BY <1>3, <2>2, <2>3 DEF ListenerInv, ViewOK
  <1>7. gone \subseteq DOMAIN devices
    BY DEF Replaced, Lost
  <1> HIDE DEF gone
  <1>8. \A id \in fresh : id \notin DOMAIN view
    BY <1>3, <1>6
  <1>9. DOMAIN changes' = 1..Len(changes')
    BY <1>5
  <1>10. ASSUME NEW x \in 1..Len(changes'), changes'[x].kind = "Attached"
         PROVE  /\ changes'[x].id \in DOMAIN devices' \ DOMAIN view
                /\ devices'[changes'[x].id].port = changes'[x].port
                /\ \A id \in DOMAIN view : view[id] = changes'[x].port =>
                        \E j \in 1..(x - 1) : changes'[j] = Detached(id)
    <2>1. \A old : changes'[x] # Detached(old)
      BY <1>10, ChangeFields
    <2>2. PICK i \in 1..Len(order) :
             /\ changes'[x] = Attached(nextId + i - 1, order[i])
             /\ \A old \in Existing(order[i]) :
                 \E y \in 1..(x - 1) : changes'[y] = Detached(old)
      BY <1>5, <2>1
    <2>3. changes'[x].id = nextId + i - 1 /\ changes'[x].port = order[i]
      BY <2>2, ChangeFields
    <2>4. nextId + i - 1 \in fresh /\ (nextId + i - 1) - nextId + 1 = i
      BY <1>3
    <2>5. changes'[x].id \in DOMAIN devices' \ DOMAIN view
      BY <1>4, <1>8, <2>3, <2>4
    <2>6. devices'[nextId + i - 1].port = order[i]
      BY <1>4, <2>4
    <2>7. \A id \in DOMAIN view : view[id] = order[i] => id \in Existing(order[i])
      BY <1>6 DEF Existing
    <2> QED BY <2>2, <2>3, <2>5, <2>6, <2>7
  <1>11. ASSUME NEW x \in 1..Len(changes'), changes'[x].kind = "Detached"
         PROVE  changes'[x].id \in DOMAIN view \ DOMAIN devices'
    <2>1. \A id, p : changes'[x] # Attached(id, p)
      BY <1>11, ChangeFields
    <2>2. PICK old \in gone : changes'[x] = Detached(old)
      BY <1>5, <2>1
    <2>3. changes'[x].id = old
      BY <2>2, ChangeFields
    <2>4. old \in DOMAIN view /\ old \notin fresh
      BY <1>6, <1>7, <1>8
    <2> QED BY <1>4, <2>3, <2>4
  <1>12. \A id \in DOMAIN view \ DOMAIN devices' :
            \E x \in 1..Len(changes') : changes'[x].id = id
    BY <1>4, <1>5, <1>6
  <1>13. ASSUME NEW id \in DOMAIN devices' \ DOMAIN view
         PROVE  \E x \in 1..Len(changes') : changes'[x].id = id
    <2>1. id \in fresh
      BY <1>4, <1>6
    <2>2. id - nextId + 1 \in 1..Len(order) /\ nextId + (id - nextId + 1) - 1 = id
      BY <1>3, <2>1
    <2>3. \A i \in 1..Len(order) : nextId + i - 1 = id =>
                \E x \in 1..Len(changes') : changes'[x].id = id
      BY <1>5
    <2> QED BY <2>2, <2>3
  <1>14. PendingOK'
    BY <1>2, <1>5, <1>9, <1>10, <1>11, <1>12, <1>13 DEF PendingOK
  <1>15. ViewOK'
    <2>1. \A id \in DOMAIN view \cap DOMAIN devices' : view[id] = devices'[id].port
      BY <1>4, <1>6, <1>8
    <2>2. DOMAIN view \subseteq 1..(nextId' - 1)
      BY <1>2, <1>3, <1>6
    <2> QED BY <1>2, <2>1, <2>2 DEF ListenerInv, ViewOK
  <1> QED BY <1>14, <1>15

\* The listener applies the oldest change; the others are about other ids.
LEMMA BroadcastPending ==
    ASSUME ListenerInv, Broadcast
    PROVE  PendingOK' /\ ViewOK'
  <1> DEFINE c == changes[1]
             n == Len(changes)
             D == DOMAIN view
  <1>1. /\ changes \in Seq(DeviceChange) /\ changes # <<>> /\ changes' = Tail(changes)
        /\ devices' = devices /\ nextId' = nextId
    BY DEF Broadcast, ListenerInv, PendingOK
  <1>2. /\ n \in Nat \ {0} /\ 1 \in 1..n /\ DOMAIN changes = 1..n /\ Head(changes) = c
        /\ c \in DeviceChange
        /\ changes' \in Seq(DeviceChange) /\ Len(changes') = n - 1
        /\ DOMAIN changes' = 1..(n - 1)
        /\ \A i \in 1..(n - 1) : i + 1 \in 1..n /\ changes'[i] = changes[i + 1]
    BY <1>1
  <1>3. /\ \A i, j \in 1..n : changes[i].id = changes[j].id => i = j
        /\ \A i \in 1..n : changes[i].kind = "Attached" =>
            /\ changes[i].id \in DOMAIN devices \ D
            /\ devices[changes[i].id].port = changes[i].port
            /\ \A id \in D : view[id] = changes[i].port =>
                    \E j \in 1..(i - 1) : changes[j] = Detached(id)
        /\ \A i \in 1..n : changes[i].kind = "Detached" => changes[i].id \in D \ DOMAIN devices
        /\ \A id \in D \ DOMAIN devices : \E i \in 1..n : changes[i].id = id
        /\ \A id \in DOMAIN devices \ D : \E i \in 1..n : changes[i].id = id
    BY <1>2 DEF ListenerInv, PendingOK
  <1>4. /\ \A i \in 1..(n - 1) : changes'[i].id # c.id
        /\ \A i, j \in 1..(n - 1) : changes'[i].id = changes'[j].id => i = j
    <2>1. \A i \in 1..(n - 1) : i + 1 # 1
      BY <1>2
    <2>2. \A i, j \in 1..(n - 1) : i + 1 = j + 1 => i = j
      BY <1>2
    <2> QED BY <1>2, <1>3, <2>1, <2>2
  <1>5. ASSUME NEW i \in 1..n, changes[i].id # c.id
        PROVE  i - 1 \in 1..(n - 1) /\ changes'[i - 1] = changes[i]
    <2>1. i # 1
      BY <1>5
    <2>2. i - 1 \in 1..(n - 1) /\ (i - 1) + 1 = i
      BY <1>2, <2>1
    <2> QED BY <1>2, <2>2
  <1>6. /\ D \subseteq 1..(nextId - 1) /\ DOMAIN devices \subseteq 1..(nextId - 1)
        /\ \A id \in D \cap DOMAIN devices : view[id] = devices[id].port
        /\ \A id1, id2 \in D : view[id1] = view[id2] => id1 = id2
    BY DEF ListenerInv, ViewOK, ScannerInv, ScannerTypeOK
  <1>7. c.kind \in {"Attached", "Detached"}
    BY <1>2, ChangeFields
  <1>8. view' = IF c.kind = "Attached"
                THEN [id \in D \cup {c.id} |-> IF id = c.id THEN c.port ELSE view[id]]
                ELSE [id \in D \ {c.id} |-> view[id]]
    BY <1>2 DEF Broadcast
  <1> DEFINE E == DOMAIN view'
  <1>9. /\ view' = [id \in E |-> view'[id]]
        /\ \A id \in D \ {c.id} : id \in E /\ view'[id] = view[id]
        /\ \A id \in E \ {c.id} : id \in D
        /\ c.id \in E <=> c.kind = "Attached"
        /\ c.kind = "Attached" => view'[c.id] = c.port
    BY <1>7, <1>8
  <1>10. /\ c.kind = "Attached" => c.id \in DOMAIN devices \ D /\ devices[c.id].port = c.port
         /\ c.kind = "Attached" => \A id \in D : view[id] # c.port
         /\ c.kind = "Detached" => c.id \in D \ DOMAIN devices
    <2>1. \A j \in 1..(1 - 1) : FALSE
      OBVIOUS
    <2> QED BY <1>2, <1>3, <2>1
  <1> HIDE DEF E
  <1>11. \A i \in 1..(n - 1) : changes'[i].kind = "Detached" =>
            changes'[i].id \in E \ DOMAIN devices
    BY <1>2, <1>3, <1>4, <1>9
  <1>12. ASSUME NEW i \in 1..(n - 1), changes'[i].kind = "Attached"
         PROVE  /\ changes'[i].id \in DOMAIN devices \ E
                /\ devices[changes'[i].id].port = changes'[i].port
                /\ \A id \in E : view'[id] = changes'[i].port =>
                    \E j \in 1..(i - 1) : changes'[j] = Detached(id)
    <2>1. i + 1 \in 1..n /\ changes'[i] = changes[i + 1] /\ changes'[i].id # c.id
      BY <1>2, <1>4
    <2>2. /\ changes'[i].id \in DOMAIN devices \ D
          /\ devices[changes'[i].id].port = changes'[i].port
          /\ \A id \in D : view[id] = changes'[i].port =>
                    \E j \in 1..((i + 1) - 1) : changes[j] = Detached(id)
      BY <1>3, <1>12, <2>1
    <2>3. changes'[i].id \in DOMAIN devices \ E
      BY <1>9, <2>1, <2>2
    <2>4. ASSUME NEW id \in E, view'[id] = changes'[i].port
          PROVE  \E j \in 1..(i - 1) : changes'[j] = Detached(id)
      <3>1. id # c.id
        <4>1. CASE c.kind = "Attached"
          <5> SUFFICES ASSUME id = c.id PROVE FALSE
            OBVIOUS
          <5>1. devices[c.id].port = devices[changes'[i].id].port
            BY <1>9, <1>10, <2>2, <2>4, <4>1
          <5>2. c.id = changes'[i].id
            BY <1>10, <2>2, <4>1, <5>1 DEF ListenerInv, ScannerInv, OneDevicePerPort
          <5> QED BY <2>1, <5>2
        <4>2. CASE c.kind # "Attached"
          BY <1>9, <4>2
        <4> QED BY <4>1, <4>2
      <3>2. id \in D /\ view[id] = changes'[i].port
        BY <1>9, <2>4, <3>1
      <3>3. PICK j \in 1..((i + 1) - 1) : changes[j] = Detached(id)
        BY <2>2, <3>2
      <3>4. changes[j].id # c.id
        BY <3>1, <3>3, ChangeFields
      <3>5. j \in 1..n /\ j \in 1..i
        BY <1>2
      <3>6. j - 1 \in 1..(n - 1) /\ changes'[j - 1] = changes[j]
        BY <1>5, <3>4, <3>5
      <3>7. j - 1 \in 1..(i - 1)
        BY <1>2, <3>5, <3>6
      <3> QED BY <3>3, <3>6, <3>7
    <2> QED BY <2>2, <2>3, <2>4
  <1>13. ASSUME NEW id \in E \ DOMAIN devices PROVE \E i \in 1..(n - 1) : changes'[i].id = id
    <2>1. id # c.id /\ id \in D
      BY <1>9, <1>10
    <2>2. PICK i \in 1..n : changes[i].id = id
      BY <1>3, <2>1
    <2> QED BY <1>5, <2>1, <2>2
  <1>14. ASSUME NEW id \in DOMAIN devices \ E PROVE \E i \in 1..(n - 1) : changes'[i].id = id
    <2>1. id # c.id /\ id \notin D
      BY <1>7, <1>9, <1>10
    <2>2. PICK i \in 1..n : changes[i].id = id
      BY <1>3, <2>1
    <2> QED BY <1>5, <2>1, <2>2
  <1>15. PendingOK'
    <2>1. E = DOMAIN view' /\ DOMAIN changes' = 1..(n - 1) /\ devices' = devices
      BY <1>1, <1>2 DEF E
    <2>2. \A i \in 1..(n - 1) : changes'[i].kind = "Attached" =>
            /\ changes'[i].id \in DOMAIN devices \ E
            /\ devices[changes'[i].id].port = changes'[i].port
            /\ \A id \in E : view'[id] = changes'[i].port =>
                    \E j \in 1..(i - 1) : changes'[j] = Detached(id)
      BY <1>12
    <2>3. /\ \A id \in E \ DOMAIN devices : \E i \in 1..(n - 1) : changes'[i].id = id
          /\ \A id \in DOMAIN devices \ E : \E i \in 1..(n - 1) : changes'[i].id = id
      BY <1>13, <1>14
    <2>4. \A i, j \in DOMAIN changes' : changes'[i].id = changes'[j].id => i = j
      BY <1>4, <2>1
    <2> HIDE DEF n
    <2> QED BY <1>2, <1>11, <2>1, <2>2, <2>3, <2>4 DEF PendingOK
  <1>16. /\ E \subseteq 1..(nextId - 1)
         /\ \A id \in E \cap DOMAIN devices : view'[id] = devices[id].port
         /\ \A id1, id2 \in E : view'[id1] = view'[id2] => id1 = id2
    <2>1. E \subseteq 1..(nextId - 1)
      BY <1>6, <1>9, <1>10
    <2>2. \A id \in E \cap DOMAIN devices : view'[id] = devices[id].port
      BY <1>6, <1>9, <1>10
    <2>3. \A id1, id2 \in E : view'[id1] = view'[id2] => id1 = id2
      BY <1>6, <1>9, <1>10
    <2> QED BY <2>1, <2>2, <2>3
  <1>17. ViewOK'
    BY <1>1, <1>9, <1>16 DEF ViewOK, E
  <1> QED BY <1>15, <1>17

\* What is still to be broadcast always leads from the view to the table.
LEMMA ListenerInvariant == Spec => []ListenerInv
  <1>1. Init => ListenerInv
    <2> SUFFICES ASSUME Init PROVE ListenerInv
      OBVIOUS
    <2>1. ScannerInv
      BY ScannerConstants DEF Init, ScannerInv, ScannerTypeOK, OneDevicePerPort
    <2>2. DOMAIN devices = {} /\ DOMAIN view = {} /\ changes = <<>>
      BY DEF Init
    <2>3. PendingOK
      BY <2>2 DEF PendingOK
    <2>4. ViewOK
      BY <2>2 DEF Init, ViewOK
    <2> QED BY <2>1, <2>3, <2>4 DEF ListenerInv
  <1>2. ListenerInv /\ [Next]_vars => ListenerInv'
    <2> SUFFICES ASSUME ListenerInv, [Next]_vars PROVE ListenerInv'
      OBVIOUS
    <2>1. ScannerInv'
      BY NextPreservesInv DEF ListenerInv
    <2>2. PendingOK' /\ ViewOK'
      <3>1. ASSUME NEW obs \in ScanObservations, Scan(obs) PROVE PendingOK' /\ ViewOK'
        BY <3>1, ScanPending
      <3>2. CASE Broadcast
        BY <3>2, BroadcastPending
      <3>3. CASE UNCHANGED vars
        BY <3>3 DEF ListenerInv, PendingOK, ViewOK, vars
      <3> QED BY <3>1, <3>2, <3>3 DEF Next, ScanFailed
    <2> QED BY <2>1, <2>2 DEF ListenerInv
  <1> QED BY <1>1, <1>2, PTL DEF Spec

\* A listener that applies the events in broadcast order never sees two devices
\* at one port, and knows exactly the table of the scanner when the changes of
\* the last scan are all broadcast.
THEOREM ListenersFollow == Spec => []ListenerView
  <1>1. ListenerInv => ListenerView
    <2> SUFFICES ASSUME ListenerInv PROVE ListenerView
      OBVIOUS
    <2>1. \A id1, id2 \in DOMAIN view : view[id1] = view[id2] => id1 = id2
      BY DEF ListenerInv, ViewOK
    <2>2. ASSUME changes = <<>> PROVE view = [id \in DOMAIN devices |-> devices[id].port]
      <3>1. DOMAIN changes = {}
        BY <2>2
      <3>2. DOMAIN view = DOMAIN devices
        BY <3>1 DEF ListenerInv, PendingOK
      <3>3. /\ view = [id \in DOMAIN view |-> view[id]]
            /\ \A id \in DOMAIN view \cap DOMAIN devices : view[id] = devices[id].port
        BY DEF ListenerInv, ViewOK
      <3> QED BY <3>2, <3>3
    <2> QED BY <2>1, <2>2 DEF ListenerView
  <1> QED BY <1>1, ListenerInvariant, PTL

\* A device id names one device for ever: no step changes the device of a known
\* id, and a scan adds devices only under ids that were never handed out and
\* that no listener holds.
THEOREM IdsNameOneDevice == Spec => IdsNeverReused
  <1> DEFINE A == /\ \A id \in DOMAIN devices \cap DOMAIN devices' :
                        devices'[id] = devices[id]
                  /\ \A id \in DOMAIN devices' \ DOMAIN devices :
                        /\ id >= nextId
                        /\ id \notin DOMAIN view
  <1>1. ListenerInv /\ [Next]_vars => [A]_vars
    <2> SUFFICES ASSUME ListenerInv, Next PROVE A \/ UNCHANGED vars
      OBVIOUS
    <2>1. CASE ScanFailed \/ Broadcast
      BY <2>1 DEF ScanFailed, Broadcast
    <2>2. ASSUME NEW obs \in ScanObservations, Scan(obs) PROVE A
      <3>1. PICK order \in SetToSeqs(Attaching(obs)) : devices' = DevicesAfter(obs, order)
        BY <2>2 DEF Scan, DiffDevices
      <3> DEFINE kept == DOMAIN devices \ (Replaced(obs) \cup Lost(obs))
                 fresh == nextId..(nextId + Len(order) - 1)
      <3>2. /\ ScannerInv /\ nextId \in Nat /\ Len(order) \in Nat
            /\ DOMAIN devices \subseteq 1..(nextId - 1) /\ DOMAIN view \subseteq 1..(nextId - 1)
        BY OrderFacts DEF ListenerInv, ScannerInv, ScannerTypeOK, ViewOK
      <3>3. /\ DOMAIN devices' = kept \cup fresh
            /\ \A id \in kept : devices'[id] = devices[id]
        BY <3>1, <3>2, ScanTable
      <3>4. \A id \in fresh : id >= nextId /\ id \notin DOMAIN devices /\ id \notin DOMAIN view
        BY <3>2
      <3> HIDE DEF kept, fresh
      <3>5. kept \subseteq DOMAIN devices
        BY DEF kept
      <3> QED BY <3>3, <3>4, <3>5
    <2> QED BY <2>1, <2>2 DEF Next
  <1> QED BY <1>1, ListenerInvariant, PTL DEF Spec, IdsNeverReused
=============================================================================
