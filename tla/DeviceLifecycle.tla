--------------------------- MODULE DeviceLifecycle ---------------------------
(***************************************************************************)
(* The life of one phone in the daemon: the scan loop (daemon/mod.rs) adds *)
(* and removes it in the DeviceManager and reconciles the two, while the   *)
(* USB reader threads and the device tasks of its earlier connections to   *)
(* the bus end on their own (daemon/device_manager.rs, daemon/usb.rs).     *)
(* The scanner is DeviceScanner, reduced to one phone: each time the phone *)
(* is plugged in it has a new bus address, so it is attached under a new   *)
(* id, and the number of the plugging in stands for both.  Each            *)
(* successful AppleMuxInterface::open makes an incarnation: a USB handle,  *)
(* a reader thread and a device task.                                      *)
(***************************************************************************)
EXTENDS Integers, Sequences

CONSTANTS
    DetachAfterMisses,   \* DETACH_AFTER_MISSES
    MaxPlug,             \* bound: times the phone is plugged in
    MaxInc,              \* bound: successful opens
    MaxFail,             \* bound: opens that fail though the phone is free
    MaxErr               \* bound: read errors while the phone is plugged in

ASSUME LifecycleConstants ==
    /\ DetachAfterMisses \in Nat \ {0}
    /\ MaxPlug \in Nat /\ MaxInc \in Nat /\ MaxFail \in Nat /\ MaxErr \in Nat

VARIABLES
    plug,      \* the plugging in that lasts, 0 when the phone is unplugged
    plugs,     \* times the phone was plugged in
    known,     \* ids in the scanner's table
    misses,    \* consecutive scans that missed the port of an id
    loop,      \* the scan loop: what it is doing
    todo,      \* ids still to be handled in this phase of the loop
    gone,      \* ids with a Detached change still to be handled
    fresh,     \* the id and the incarnation add_device is working on
    managed,   \* DeviceManager.devices: id -> incarnation, 0 for none
    mux,       \* ids in conn_mgr.devices
    incs,      \* the incarnations
    fails,     \* opens that have failed
    errs       \* read errors that have happened

scanVars == <<known, misses, loop, todo, gone, fresh>>
mgrVars == <<managed, mux>>
busVars == <<plug, plugs>>
vars == <<scanVars, mgrVars, busVars, incs, fails, errs>>

Id == 1..MaxPlug
Inc == 1..MaxInc
Incarnation == [id : Id, plug : Id, reader : {"up", "down"},
                task : {"starting", "running", "cleaned", "unmanaged", "stopped"}]

\* An Arc<AppleMuxInterface> keeps the interface claimed: the reader thread,
\* the device task and the manager's entry each hold one.
Holds(n) ==
    \/ incs[n].reader = "up"
    \/ incs[n].task # "stopped"
    \/ managed[incs[n].id] = n
Claimed == \E n \in DOMAIN incs : incs[n].plug = plug /\ Holds(n)
-----------------------------------------------------------------------------
(* The scan loop.                                                          *)

\* Ids whose port has been missed often enough.
Lost(seen) == {i \in known \ seen : misses[i] + 1 >= DetachAfterMisses}

\* scan(): attach a readable phone at a new address, count the misses of the
\* other ids, detach those that reach the limit.
Scan ==
    /\ loop = "sleep"
    /\ \E readable \in BOOLEAN :
        LET seen == {plug} \ {0}
            lost == Lost(seen)
            new == IF readable THEN seen \ known ELSE {}
        IN  /\ known' = (known \cup new) \ lost
            /\ misses' = [i \in Id |-> IF i \in (known \ seen) \ lost
                                       THEN misses[i] + 1 ELSE 0]
            /\ todo' = new
            /\ gone' = lost
    /\ loop' = "attach"
    /\ UNCHANGED <<fresh, mgrVars, busVars, incs, fails, errs>>

\* A failed enumeration changes nothing; the loop still reconciles.
ScanFailed ==
    /\ loop = "sleep"
    /\ loop' = "attach"
    /\ UNCHANGED <<known, misses, todo, gone, fresh, mgrVars, busVars, incs, fails, errs>>

Adding == {"attach", "reconcile"}

\* add_device of an id that is managed returns at once.
AlreadyManaged(i) ==
    /\ loop \in Adding /\ i \in todo
    /\ managed[i] # 0
    /\ todo' = todo \ {i}
    /\ UNCHANGED <<known, misses, loop, gone, fresh, mgrVars, busVars, incs, fails, errs>>

\* Mutant: add_device does not ask whether the id is managed or the interface
\* is claimed.
OpenAgain(i) ==
    /\ loop \in Adding /\ i \in todo
    /\ plug # 0 /\ Len(incs) < MaxInc
    /\ incs' = Append(incs, [id |-> i, plug |-> plug, reader |-> "up",
                             task |-> "starting"])
    /\ fresh' = <<i, Len(incs) + 1>>
    /\ loop' = IF loop = "attach" THEN "insert1" ELSE "insert2"
    /\ todo' = todo \ {i}
    /\ UNCHANGED <<known, misses, gone, mgrVars, busVars, fails, errs>>

\* The phone is looked up by its UDID, wherever it is plugged in now, and its
\* interface claimed; the reader thread starts.
Open(i) ==
    /\ loop \in Adding /\ i \in todo
    /\ managed[i] = 0
    /\ plug # 0 /\ ~Claimed /\ Len(incs) < MaxInc
    /\ incs' = Append(incs, [id |-> i, plug |-> plug, reader |-> "up",
                             task |-> "starting"])
    /\ fresh' = <<i, Len(incs) + 1>>
    /\ loop' = IF loop = "attach" THEN "insert1" ELSE "insert2"
    /\ todo' = todo \ {i}
    /\ UNCHANGED <<known, misses, gone, mgrVars, busVars, fails, errs>>

\* The phone is not found, its interface is busy, or the open fails otherwise.
OpenFails(i) ==
    /\ loop \in Adding /\ i \in todo
    /\ managed[i] = 0
    /\ \/ (plug = 0 \/ Claimed) /\ UNCHANGED fails
       \/ plug # 0 /\ ~Claimed /\ fails < MaxFail /\ fails' = fails + 1
    /\ todo' = todo \ {i}
    /\ UNCHANGED <<known, misses, loop, gone, fresh, mgrVars, busVars, incs, errs>>

\* The ManagedDevice goes into the map ...
Insert ==
    /\ loop \in {"insert1", "insert2"}
    /\ managed' = [managed EXCEPT ![fresh[1]] = fresh[2]]
    /\ loop' = IF loop = "insert1" THEN "spawn1" ELSE "spawn2"
    /\ UNCHANGED <<known, misses, todo, gone, fresh, mux, busVars, incs, fails, errs>>

\* ... then conn_mgr gets an entry unless it has one, and the task starts.
Spawn ==
    /\ loop \in {"spawn1", "spawn2"}
    /\ mux' = mux \cup {fresh[1]}
    /\ incs' = [incs EXCEPT ![fresh[2]].task = "running"]
    /\ loop' = IF loop = "spawn1" THEN "attach" ELSE "reconcile"
    /\ fresh' = <<0, 0>>
    /\ UNCHANGED <<known, misses, todo, gone, managed, busVars, fails, errs>>

\* The Detached changes follow the Attached ones.
Detach(i) ==
    /\ loop = "attach" /\ todo = {} /\ i \in gone
    /\ managed' = [managed EXCEPT ![i] = 0]
    /\ loop' = "remove"
    /\ fresh' = <<i, 0>>
    /\ UNCHANGED <<known, misses, todo, gone, mux, busVars, incs, fails, errs>>

\* Mutant: remove_device leaves the connections of the device behind.
RemoveNothing ==
    /\ loop = "remove"
    /\ gone' = gone \ {fresh[1]}
    /\ loop' = "attach"
    /\ fresh' = <<0, 0>>
    /\ UNCHANGED <<known, misses, todo, mgrVars, busVars, incs, fails, errs>>

RemoveConns ==
    /\ loop = "remove"
    /\ mux' = mux \ {fresh[1]}
    /\ gone' = gone \ {fresh[1]}
    /\ loop' = "attach"
    /\ fresh' = <<0, 0>>
    /\ UNCHANGED <<known, misses, todo, managed, busVars, incs, fails, errs>>

\* All changes are handled: every known id is looked at once more.
Reconcile ==
    /\ loop = "attach" /\ todo = {} /\ gone = {}
    /\ loop' = "reconcile"
    /\ todo' = known
    /\ UNCHANGED <<known, misses, gone, fresh, mgrVars, busVars, incs, fails, errs>>

Sleep ==
    /\ loop = "reconcile" /\ todo = {}
    /\ loop' = "sleep"
    /\ UNCHANGED <<known, misses, todo, gone, fresh, mgrVars, busVars, incs, fails, errs>>

LoopStep ==
    \/ Scan \/ ScanFailed \/ Insert \/ Spawn \/ RemoveConns \/ Reconcile \/ Sleep
    \/ \E i \in Id : AlreadyManaged(i) \/ Open(i) \/ OpenFails(i) \/ Detach(i)
-----------------------------------------------------------------------------
(* The reader threads and the device tasks.                                *)

SetReader(n) == incs' = [incs EXCEPT ![n].reader = "down"]
SetTask(n, t) == incs' = [incs EXCEPT ![n].task = t]

\* Mutant: read_worker takes every error for a timeout.
ReaderRetries(n) ==
    /\ incs[n].reader = "up"
    /\ incs[n].plug = plug /\ errs < MaxErr /\ errs' = errs + 1
    /\ SetReader(n)
    /\ UNCHANGED <<scanVars, mgrVars, busVars, fails>>

\* read_worker stops at an error that is not a timeout.
ReaderFails(n) ==
    /\ incs[n].reader = "up"
    /\ \/ incs[n].plug # plug /\ UNCHANGED errs
       \/ incs[n].plug = plug /\ errs < MaxErr /\ errs' = errs + 1
    /\ SetReader(n)
    /\ UNCHANGED <<scanVars, mgrVars, busVars, fails>>

\* The phone sends something and the task that would take it has ended.
ReaderUnheard(n) ==
    /\ incs[n].reader = "up" /\ incs[n].plug = plug
    /\ incs[n].task = "stopped"
    /\ SetReader(n)
    /\ UNCHANGED <<scanVars, mgrVars, busVars, fails, errs>>

\* The reader is gone: the task cleans its connections up ...
Disconnect(n) ==
    /\ incs[n].task = "running" /\ incs[n].reader = "down"
    /\ SetTask(n, "cleaned")
    /\ UNCHANGED <<scanVars, mgrVars, busVars, fails, errs>>

\* ... drops the entry under its id ...
Unmanage(n) ==
    /\ incs[n].task = "cleaned"
    /\ managed' = [managed EXCEPT ![incs[n].id] = 0]
    /\ SetTask(n, "unmanaged")
    /\ UNCHANGED <<scanVars, mux, busVars, fails, errs>>

\* ... and ends.
Stop(n) ==
    /\ incs[n].task = "unmanaged"
    /\ SetTask(n, "stopped")
    /\ UNCHANGED <<scanVars, mgrVars, busVars, fails, errs>>

\* The manager's entry, with the connect channel, was dropped.
Orphaned(n) ==
    /\ incs[n].task = "running"
    /\ managed[incs[n].id] # n
    /\ SetTask(n, "stopped")
    /\ UNCHANGED <<scanVars, mgrVars, busVars, fails, errs>>

TaskStep(n) == Disconnect(n) \/ Unmanage(n) \/ Stop(n) \/ Orphaned(n)
-----------------------------------------------------------------------------
(* The bus (external).                                                     *)

PlugIn ==
    /\ plug = 0 /\ plugs < MaxPlug
    /\ plugs' = plugs + 1 /\ plug' = plugs + 1
    /\ UNCHANGED <<scanVars, mgrVars, incs, fails, errs>>

Unplug ==
    /\ plug # 0
    /\ plug' = 0
    /\ UNCHANGED <<plugs, scanVars, mgrVars, incs, fails, errs>>

Init ==
    /\ plug = 0 /\ plugs = 0
    /\ known = {} /\ misses = [i \in Id |-> 0]
    /\ loop = "sleep" /\ todo = {} /\ gone = {} /\ fresh = <<0, 0>>
    /\ managed = [i \in Id |-> 0] /\ mux = {}
    /\ incs = <<>>
    /\ fails = 0 /\ errs = 0

Next ==
    \/ LoopStep
    \/ \E n \in DOMAIN incs : ReaderFails(n) \/ ReaderUnheard(n) \/ TaskStep(n)
    \/ PlugIn \/ Unplug

Spec == Init /\ [][Next]_vars

\* The loop and the tasks are scheduled; a read on a phone that is gone fails;
\* the enumeration and the serial number of a phone can be read again and
\* again.  The phone promises nothing, least of all to send something.
Fairness ==
    /\ WF_vars(LoopStep)
    /\ SF_vars(Scan /\ (plug # 0 => plug \in known'))
    /\ \A n \in Inc :
        /\ WF_vars(n \in DOMAIN incs /\ TaskStep(n))
        /\ WF_vars(n \in DOMAIN incs /\ incs[n].plug # plug /\ ReaderFails(n))

FairSpec == Spec /\ Fairness
-----------------------------------------------------------------------------
\* Types of the loop, the tables and the incarnations.
LifecycleTypeOK ==
    /\ plug \in 0..plugs /\ plugs \in 0..MaxPlug
    /\ known \subseteq Id /\ misses \in [Id -> 0..(DetachAfterMisses - 1)]
    /\ loop \in {"sleep", "attach", "reconcile", "insert1", "insert2", "spawn1",
                 "spawn2", "remove"}
    /\ todo \subseteq Id /\ gone \subseteq Id
    /\ fresh \in (Id \cup {0}) \X (Inc \cup {0})
    /\ managed \in [Id -> Inc \cup {0}] /\ mux \subseteq Id
    /\ incs \in Seq(Incarnation) /\ Len(incs) <= MaxInc
    /\ fails \in 0..MaxFail /\ errs \in 0..MaxErr

\* An entry of the DeviceManager belongs to an incarnation of that id whose
\* task still runs: a task that ends drops its own entry and never the one of
\* the incarnation that reconciling has put in its place.
ManagedIsAlive ==
    /\ \A i \in Id : managed[i] # 0 =>
        /\ managed[i] \in DOMAIN incs /\ incs[managed[i]].id = i
        /\ incs[managed[i]].task \in {"starting", "running", "cleaned"}
    /\ \A n \in DOMAIN incs : incs[n].task = "cleaned" =>
        managed[incs[n].id] \in {0, n}

\* Between two scans nothing is managed, and no connections are kept, for an id
\* the scanner has given up: reconciling never brings a detached id back.
TablesMatchScanner ==
    loop = "sleep" => /\ \A i \in Id : managed[i] # 0 => i \in known
                      /\ mux \subseteq known

\* When the phone has left the place an incarnation was opened at, its USB handle
\* is released: the reader, the task and the manager all let go of it.
HandlesReleased ==
    \A n \in Inc :
        (n \in DOMAIN incs /\ incs[n].plug # plug)
            ~> (n \in DOMAIN incs /\ ~Holds(n))

\* (mod.rs:110) A phone that stays plugged in and that the manager has not
\* claimed is retried until it is managed under its present id.
PhoneReclaimed ==
    \A i \in Id : [](<>[](plug = i) => <>(managed[i] # 0))
=============================================================================
