------------------------ MODULE DeviceLifecycleProofs ------------------------
(***************************************************************************)
(* Machine-checked proofs about DeviceLifecycle, for any number of         *)
(* pluggings in, opens, failures and read errors and any threshold.        *)
(***************************************************************************)
EXTENDS DeviceLifecycle, TLAPS

Inserting == {"insert1", "insert2"}
Spawning == {"spawn1", "spawn2"}
Active == {"starting", "running", "cleaned"}

\* What the scan loop works on is known; what it withdraws is not, and it is
\* withdrawn before the loop reconciles.
LoopOK ==
    /\ todo \subseteq known
    /\ \A i \in gone : i \notin known
    /\ loop \in {"sleep", "reconcile", "insert2", "spawn2"} => gone = {}

\* add_device has opened the incarnation it is about to insert, and nothing
\* takes the entry away before its task is spawned; remove_device has taken
\* the entry it is about to drop the connections of.
FreshOK ==
    /\ loop \in Inserting \cup Spawning =>
        /\ fresh[1] \in known
        /\ fresh[2] \in DOMAIN incs
        /\ incs[fresh[2]].id = fresh[1]
        /\ incs[fresh[2]].task = "starting"
        /\ managed[fresh[1]] = IF loop \in Inserting THEN 0 ELSE fresh[2]
    /\ loop = "remove" => fresh[1] \in gone /\ managed[fresh[1]] = 0

\* Bus addresses are not used again: an id that was given up stays so.
GivenUpOK ==
    /\ \A i \in known \cup gone : i <= plugs
    /\ \A i \in gone : i # plug
    /\ \A n \in DOMAIN incs :
        /\ incs[n].id <= plugs
        /\ incs[n].id \in known \/ incs[n].id # plug

\* An incarnation whose task has not dropped its entry is in the manager's
\* table, on its way there, or its id was given up.
ActiveOK ==
    \A n \in DOMAIN incs :
        /\ incs[n].task = "starting" => loop \in Inserting \cup Spawning /\ fresh[2] = n
        /\ incs[n].task \in Active =>
            \/ managed[incs[n].id] = n
            \/ loop \in Inserting /\ fresh[2] = n
            \/ incs[n].id \notin known /\ managed[incs[n].id] = 0

\* What the tables hold is known or about to be withdrawn.
TablesOK ==
    /\ \A i \in Id : managed[i] # 0 => i \in known \cup gone
    /\ mux \subseteq known \cup gone

\* The inductive invariant.
LifecycleInv ==
    /\ LifecycleTypeOK /\ LoopOK /\ FreshOK /\ GivenUpOK /\ ActiveOK /\ TablesOK
    /\ ManagedIsAlive
-----------------------------------------------------------------------------
(* The incarnations.                                                       *)

\* The fields of an incarnation.
LEMMA IncType ==
    ASSUME LifecycleTypeOK, NEW n \in DOMAIN incs
    PROVE  /\ n \in 1..Len(incs) /\ n \in Inc /\ n # 0
           /\ incs[n] \in Incarnation /\ incs[n].id \in Id /\ incs[n].plug \in Id
  <1>1. incs \in Seq(Incarnation) /\ Len(incs) <= MaxInc
    BY DEF LifecycleTypeOK
  <1>2. n \in 1..Len(incs) /\ Len(incs) \in Nat
    BY <1>1
  <1>3. n \in Inc /\ n # 0
    BY <1>1, <1>2, LifecycleConstants DEF Inc
  <1>4. incs[n] \in Incarnation
    BY <1>1, <1>2
  <1> QED
    BY <1>2, <1>3, <1>4 DEF Incarnation

\* The task of one incarnation changes.
LEMMA ChangedTask ==
    ASSUME LifecycleTypeOK, NEW n \in DOMAIN incs,
           NEW t \in {"starting", "running", "cleaned", "unmanaged", "stopped"},
           incs' = [incs EXCEPT ![n].task = t]
    PROVE  /\ incs' \in Seq(Incarnation) /\ Len(incs') = Len(incs)
           /\ DOMAIN incs' = DOMAIN incs
           /\ \A m \in DOMAIN incs :
                /\ incs'[m].id = incs[m].id
                /\ incs'[m].task = IF m = n THEN t ELSE incs[m].task
  <1>1. incs \in Seq(Incarnation) /\ incs[n] \in Incarnation
    BY IncType DEF LifecycleTypeOK
  <1> DEFINE e == [incs[n] EXCEPT !.task = t]
  <1>2. e \in Incarnation /\ e.id = incs[n].id /\ e.task = t
    BY <1>1 DEF Incarnation
  <1>3. incs' = [incs EXCEPT ![n] = e]
    OBVIOUS
  <1> HIDE DEF e
  <1>4. incs' \in Seq(Incarnation) /\ Len(incs') = Len(incs) /\ DOMAIN incs' = DOMAIN incs
    BY <1>1, <1>2, <1>3
  <1>5. \A m \in DOMAIN incs : incs'[m] = IF m = n THEN e ELSE incs[m]
    BY <1>3
  <1> QED
    BY <1>2, <1>4, <1>5

\* The reader of one incarnation ends.
LEMMA ChangedReader ==
    ASSUME LifecycleTypeOK, NEW n \in DOMAIN incs, SetReader(n)
    PROVE  /\ incs' \in Seq(Incarnation) /\ Len(incs') = Len(incs)
           /\ DOMAIN incs' = DOMAIN incs
           /\ \A m \in DOMAIN incs :
                incs'[m].id = incs[m].id /\ incs'[m].task = incs[m].task
  <1>1. incs \in Seq(Incarnation) /\ incs[n] \in Incarnation
    BY IncType DEF LifecycleTypeOK
  <1> DEFINE e == [incs[n] EXCEPT !.reader = "down"]
  <1>2. e \in Incarnation /\ e.id = incs[n].id /\ e.task = incs[n].task
    BY <1>1 DEF Incarnation
  <1>3. incs' = [incs EXCEPT ![n] = e]
    BY DEF SetReader
  <1> HIDE DEF e
  <1>4. incs' \in Seq(Incarnation) /\ Len(incs') = Len(incs) /\ DOMAIN incs' = DOMAIN incs
    BY <1>1, <1>2, <1>3
  <1>5. \A m \in DOMAIN incs : incs'[m] = IF m = n THEN e ELSE incs[m]
    BY <1>3
  <1> QED
    BY <1>2, <1>4, <1>5

\* A new incarnation, under the id and at the address it was opened with.
LEMMA NewIncarnation ==
    ASSUME LifecycleTypeOK, NEW i \in Id, Open(i)
    PROVE  LET new == Len(incs) + 1
           IN  /\ incs' \in Seq(Incarnation) /\ Len(incs') = new /\ new \in Inc
               /\ DOMAIN incs' = DOMAIN incs \cup {new} /\ new \notin DOMAIN incs
               /\ \A m \in DOMAIN incs : incs'[m] = incs[m]
               /\ incs'[new].id = i /\ incs'[new].task = "starting"
  <1> DEFINE new == Len(incs) + 1
             e == [id |-> i, plug |-> plug, reader |-> "up", task |-> "starting"]
  <1>1. incs \in Seq(Incarnation) /\ Len(incs) \in Nat /\ Len(incs) < MaxInc
    BY DEF LifecycleTypeOK, Open
  <1>2. plug \in Id
    BY LifecycleConstants DEF LifecycleTypeOK, Open, Id
  <1>3. e \in Incarnation /\ e.id = i /\ e.task = "starting"
    BY <1>2 DEF Incarnation
  <1>4. incs' = Append(incs, e)
    BY DEF Open
  <1> HIDE DEF e
  <1>5. /\ incs' \in Seq(Incarnation) /\ Len(incs') = new
        /\ DOMAIN incs' = DOMAIN incs \cup {new} /\ new \notin DOMAIN incs
        /\ \A m \in DOMAIN incs : incs'[m] = incs[m]
        /\ incs'[new] = e
    BY <1>1, <1>3, <1>4
  <1>6. new \in Inc
    BY <1>1, LifecycleConstants DEF Inc
  <1> QED
    BY <1>3, <1>5, <1>6
-----------------------------------------------------------------------------
(* The initial state and the steps of the scan loop.                       *)

\* The invariant holds at the start.
LEMMA InitEstablishes == Init => LifecycleInv
  BY LifecycleConstants
     DEF Init, LifecycleInv, LifecycleTypeOK, LoopOK, FreshOK, GivenUpOK, ActiveOK,
         TablesOK, ManagedIsAlive, Id, Inc, Inserting, Spawning, Active

\* A scan gives up ids that are not the phone's present one, and learns only
\* the present one.
LEMMA ScanPreserves == ASSUME LifecycleInv, Scan PROVE LifecycleInv'
  <1> DEFINE seen == {plug} \ {0}
             lost == Lost(seen)
  <1>1. PICK new : /\ new \subseteq seen \ known
                   /\ known' = (known \cup new) \ lost
                   /\ misses' = [i \in Id |-> IF i \in (known \ seen) \ lost
                                              THEN misses[i] + 1 ELSE 0]
                   /\ todo' = new /\ gone' = lost
    BY DEF Scan
  <1>2. /\ loop = "sleep" /\ loop' = "attach"
        /\ UNCHANGED <<fresh, managed, mux, plug, plugs, incs, fails, errs>>
    BY DEF Scan, mgrVars, busVars
  <1>4. known \subseteq Id /\ plug \in 0..plugs /\ plugs \in 0..MaxPlug
    BY DEF LifecycleInv, LifecycleTypeOK
  <1>3. lost \subseteq known /\ plug \notin lost /\ gone = {}
    BY <1>2, <1>4 DEF Lost, LifecycleInv, LoopOK, Id
  <1>b. seen \subseteq {plug}
    OBVIOUS
  <1>a. \A i \in (known \ seen) \ lost : ~(misses[i] + 1 >= DetachAfterMisses)
    BY DEF Lost
  <1>5. LifecycleTypeOK'
    <2>1. seen \subseteq Id
      BY <1>4, LifecycleConstants DEF Id
    <2>2. known' \subseteq Id /\ todo' \subseteq Id /\ gone' \subseteq Id
      BY <1>1, <1>3, <1>4, <2>1
    <2>3. misses' \in [Id -> 0..(DetachAfterMisses - 1)]
      <3>1. misses \in [Id -> 0..(DetachAfterMisses - 1)]
        BY DEF LifecycleInv, LifecycleTypeOK
      <3>2. ASSUME NEW i \in Id, i \in (known \ seen) \ lost
            PROVE  misses[i] + 1 \in 0..(DetachAfterMisses - 1)
        BY <1>a, <3>1, <3>2, LifecycleConstants
      <3> HIDE DEF seen, lost
      <3> QED
        BY <1>1, <3>2, LifecycleConstants
    <2> QED
      BY <1>2, <2>2, <2>3 DEF LifecycleInv, LifecycleTypeOK
  <1> HIDE DEF seen, lost
  <1>6. LoopOK'
    BY <1>1, <1>2, <1>3 DEF LoopOK
  <1>7. FreshOK'
    BY <1>2 DEF FreshOK, Inserting, Spawning
  <1>8. GivenUpOK'
    <2>1. \A i \in known' \cup gone' : i <= plugs
      <3>1. plug <= plugs
        BY <1>4, LifecycleConstants
      <3>2. \A i \in known : i <= plugs
        BY DEF LifecycleInv, GivenUpOK
      <3>3. \A i \in known' \cup gone' : i \in known \/ i = plug
        BY <1>1, <1>3, <1>b
      <3> QED
        BY <3>1, <3>2, <3>3
    <2>2. ASSUME NEW n \in DOMAIN incs
          PROVE  incs[n].id <= plugs /\ (incs[n].id \in known' \/ incs[n].id # plug)
      BY <1>1, <1>3 DEF LifecycleInv, GivenUpOK
    <2> QED
      BY <1>1, <1>2, <1>3, <2>1, <2>2 DEF GivenUpOK
  <1>9. ActiveOK'
    <2> SUFFICES ASSUME NEW n \in DOMAIN incs
                 PROVE  /\ incs[n].task # "starting"
                        /\ incs[n].task \in Active =>
                            \/ managed[incs[n].id] = n
                            \/ incs[n].id \notin known' /\ managed[incs[n].id] = 0
      BY <1>2 DEF ActiveOK
    <2>1. incs[n].task # "starting"
      BY <1>2 DEF LifecycleInv, ActiveOK, Inserting, Spawning
    <2>2. ASSUME incs[n].task \in Active, managed[incs[n].id] # n
          PROVE  incs[n].id \notin known' /\ managed[incs[n].id] = 0
      BY <1>1, <1>2, <1>b, <2>2 DEF LifecycleInv, ActiveOK, GivenUpOK, Inserting
    <2> QED
      BY <2>1, <2>2
  <1>10. TablesOK' /\ ManagedIsAlive'
    <2>1. known \cup gone \subseteq known' \cup gone'
      BY <1>1, <1>3
    <2> QED
      BY <1>2, <2>1 DEF LifecycleInv, TablesOK, ManagedIsAlive
  <1> QED
    BY <1>5, <1>6, <1>7, <1>8, <1>9, <1>10 DEF LifecycleInv

\* Steps that only move the loop or take an id off its list.
LEMMA LoopMoves ==
    ASSUME LifecycleInv, todo' \subseteq known, loop \in Adding \cup {"sleep"},
           loop' \in Adding \cup {"sleep"}, loop' # "attach" => gone = {},
           fails' \in 0..MaxFail,
           UNCHANGED <<known, misses, gone, fresh, managed, mux, plug, plugs, incs, errs>>
    PROVE  LifecycleInv'
  <1>1. LifecycleTypeOK'
    BY DEF LifecycleInv, LifecycleTypeOK, Adding
  <1>2. LoopOK' /\ FreshOK' /\ GivenUpOK' /\ TablesOK' /\ ManagedIsAlive'
    BY DEF LifecycleInv, LoopOK, FreshOK, GivenUpOK, TablesOK, ManagedIsAlive,
           Adding, Inserting, Spawning
  <1>3. ActiveOK'
    BY DEF LifecycleInv, ActiveOK, Adding, Inserting, Spawning
  <1> QED
    BY <1>1, <1>2, <1>3 DEF LifecycleInv

\* The steps of the loop that touch no table of the manager.
LEMMA QuietLoopPreserves ==
    ASSUME LifecycleInv, ScanFailed \/ Reconcile \/ Sleep PROVE LifecycleInv'
  <1>1. fails \in 0..MaxFail /\ todo \subseteq known
    BY DEF LifecycleInv, LifecycleTypeOK, LoopOK
  <1>2. loop \in {"sleep", "reconcile"} => gone = {}
    BY DEF LifecycleInv, LoopOK
  <1>3. CASE ScanFailed
    BY <1>1, <1>2, <1>3, LoopMoves DEF ScanFailed, mgrVars, busVars, Adding
  <1>4. CASE Reconcile
    BY <1>1, <1>2, <1>4, LoopMoves DEF Reconcile, mgrVars, busVars, Adding
  <1>5. CASE Sleep
    BY <1>1, <1>2, <1>5, LoopMoves DEF Sleep, mgrVars, busVars, Adding
  <1> QED
    BY <1>3, <1>4, <1>5

\* An attach that adds nothing.
LEMMA NotAddedPreserves ==
    ASSUME LifecycleInv, NEW i \in Id, AlreadyManaged(i) \/ OpenFails(i)
    PROVE  LifecycleInv'
  <1>1. fails \in 0..MaxFail /\ todo \subseteq known
    BY DEF LifecycleInv, LifecycleTypeOK, LoopOK
  <1>2. loop = "reconcile" => gone = {}
    BY DEF LifecycleInv, LoopOK
  <1>3. CASE AlreadyManaged(i)
    BY <1>1, <1>2, <1>3, LoopMoves DEF AlreadyManaged, mgrVars, busVars, Adding
  <1>4. CASE OpenFails(i)
    <2>1. fails' \in 0..MaxFail
      BY <1>1, <1>4, LifecycleConstants DEF OpenFails
    <2> QED
      BY <1>1, <1>2, <1>4, <2>1, LoopMoves DEF OpenFails, mgrVars, busVars, Adding
  <1> QED
    BY <1>3, <1>4

\* Nobody else works under the id of a new incarnation: an active incarnation
\* of a known id would be in the manager's table.
LEMMA OpenPreserves == ASSUME LifecycleInv, NEW i \in Id, Open(i) PROVE LifecycleInv'
  <1> DEFINE new == Len(incs) + 1
  <1>1. /\ incs' \in Seq(Incarnation) /\ Len(incs') = new /\ new \in Inc
        /\ DOMAIN incs' = DOMAIN incs \cup {new} /\ new \notin DOMAIN incs
        /\ \A m \in DOMAIN incs : incs'[m] = incs[m]
        /\ incs'[new].id = i /\ incs'[new].task = "starting"
    BY NewIncarnation DEF LifecycleInv
  <1>2. /\ loop \in Adding /\ i \in todo /\ managed[i] = 0 /\ fresh' = <<i, new>>
        /\ loop' = (IF loop = "attach" THEN "insert1" ELSE "insert2")
        /\ todo' = todo \ {i}
        /\ UNCHANGED <<known, misses, gone, managed, mux, plug, plugs, fails, errs>>
    BY DEF Open, mgrVars, busVars
  <1>3. i \in known
    BY <1>2 DEF LifecycleInv, LoopOK
  <1> HIDE DEF new
  <1>4. LifecycleTypeOK'
    <2>1. Len(incs') <= MaxInc
      BY <1>1, LifecycleConstants DEF Inc
    <2> QED
      BY <1>1, <1>2, <2>1 DEF LifecycleInv, LifecycleTypeOK
  <1>5. LoopOK'
    BY <1>2 DEF LifecycleInv, LoopOK, Adding
  <1>6. FreshOK'
    BY <1>1, <1>2, <1>3 DEF FreshOK, Inserting, Spawning
  <1>7. GivenUpOK'
    BY <1>1, <1>2, <1>3 DEF LifecycleInv, GivenUpOK
  <1>8. ActiveOK'
    BY <1>1, <1>2 DEF LifecycleInv, ActiveOK, Inserting, Spawning, Adding
  <1>9. TablesOK' /\ ManagedIsAlive'
    <2>1. \A j \in Id : managed[j] # new
      BY <1>1 DEF LifecycleInv, ManagedIsAlive, LifecycleTypeOK, Inc
    <2> QED
      BY <1>1, <1>2, <2>1 DEF LifecycleInv, TablesOK, ManagedIsAlive
  <1> QED
    BY <1>4, <1>5, <1>6, <1>7, <1>8, <1>9 DEF LifecycleInv

\* The entry of a new incarnation, before its task runs.
LEMMA InsertPreserves == ASSUME LifecycleInv, Insert PROVE LifecycleInv'
  <1> DEFINE i == fresh[1]
             n == fresh[2]
  <1>1. /\ loop \in Inserting /\ managed' = [managed EXCEPT ![i] = n]
        /\ loop' = (IF loop = "insert1" THEN "spawn1" ELSE "spawn2")
        /\ UNCHANGED <<known, misses, todo, gone, fresh, mux, plug, plugs, incs, fails, errs>>
    BY DEF Insert, busVars, Inserting
  <1>2. /\ i \in known /\ n \in DOMAIN incs /\ incs[n].id = i
        /\ incs[n].task = "starting" /\ managed[i] = 0
    BY <1>1 DEF LifecycleInv, FreshOK
  <1>3. n \in Inc /\ n # 0 /\ i \in Id /\ managed \in [Id -> Inc \cup {0}]
    BY <1>2, IncType DEF LifecycleInv, LifecycleTypeOK
  <1> HIDE DEF i, n
  <1>4. LifecycleTypeOK'
    BY <1>1, <1>3 DEF LifecycleInv, LifecycleTypeOK
  <1>5. LoopOK'
    BY <1>1 DEF LifecycleInv, LoopOK, Inserting
  <1>6. FreshOK'
    BY <1>1, <1>2, <1>3 DEF FreshOK, Inserting, Spawning, i, n
  <1>7. GivenUpOK'
    BY <1>1 DEF LifecycleInv, GivenUpOK
  \* No other incarnation of the id is active.
  <1>8. \A m \in DOMAIN incs : m # n /\ incs[m].task \in Active => incs[m].id # i
    BY <1>1, <1>2, IncType DEF LifecycleInv, ActiveOK, n
  <1>9. ActiveOK'
    BY <1>1, <1>2, <1>3, <1>8, IncType
       DEF LifecycleInv, ActiveOK, Inserting, Spawning, i, n
  <1>10. TablesOK'
    BY <1>1, <1>2, <1>3 DEF LifecycleInv, TablesOK
  <1>11. ManagedIsAlive'
    BY <1>1, <1>2, <1>3, <1>8 DEF LifecycleInv, ManagedIsAlive, Active
  <1> QED
    BY <1>4, <1>5, <1>6, <1>7, <1>9, <1>10, <1>11 DEF LifecycleInv

\* The task of the incarnation just entered.
LEMMA SpawnPreserves == ASSUME LifecycleInv, Spawn PROVE LifecycleInv'
  <1> DEFINE i == fresh[1]
             n == fresh[2]
  <1>1. /\ loop \in Spawning /\ mux' = mux \cup {i} /\ fresh' = <<0, 0>>
        /\ incs' = [incs EXCEPT ![n].task = "running"]
        /\ loop' = (IF loop = "spawn1" THEN "attach" ELSE "reconcile")
        /\ UNCHANGED <<known, misses, todo, gone, managed, plug, plugs, fails, errs>>
    BY DEF Spawn, busVars, Spawning
  <1>2. /\ i \in known /\ n \in DOMAIN incs /\ incs[n].id = i /\ managed[i] = n
    BY <1>1 DEF LifecycleInv, FreshOK, Inserting, Spawning
  <1>3. /\ incs' \in Seq(Incarnation) /\ Len(incs') = Len(incs)
        /\ DOMAIN incs' = DOMAIN incs
        /\ \A m \in DOMAIN incs :
             /\ incs'[m].id = incs[m].id
             /\ incs'[m].task = IF m = n THEN "running" ELSE incs[m].task
    BY <1>1, <1>2, ChangedTask DEF LifecycleInv
  <1>4. n \in Inc /\ n # 0 /\ i \in Id
    BY <1>2, IncType DEF LifecycleInv
  <1>5. LifecycleTypeOK'
    BY <1>1, <1>3, <1>4 DEF LifecycleInv, LifecycleTypeOK
  <1>6. LoopOK' /\ FreshOK'
    BY <1>1 DEF LifecycleInv, LoopOK, FreshOK, Inserting, Spawning
  <1>7. GivenUpOK'
    BY <1>1, <1>3 DEF LifecycleInv, GivenUpOK
  <1>8. ActiveOK'
    BY <1>1, <1>2, <1>3 DEF LifecycleInv, ActiveOK, Inserting, Spawning
  <1>9. TablesOK'
    BY <1>1, <1>2 DEF LifecycleInv, TablesOK
  <1>10. ManagedIsAlive'
    BY <1>1, <1>2, <1>3 DEF LifecycleInv, ManagedIsAlive
  <1> QED
    BY <1>5, <1>6, <1>7, <1>8, <1>9, <1>10 DEF LifecycleInv

\* remove_device: an id that was given up loses its entry, and then its
\* connections.
LEMMA DetachPreserves ==
    ASSUME LifecycleInv, NEW i \in Id, Detach(i) PROVE LifecycleInv'
  <1>1. /\ loop = "attach" /\ todo = {} /\ i \in gone
        /\ managed' = [managed EXCEPT ![i] = 0]
        /\ loop' = "remove" /\ fresh' = <<i, 0>>
        /\ UNCHANGED <<known, misses, todo, gone, mux, plug, plugs, incs, fails, errs>>
    BY DEF Detach, busVars
  <1>2. managed \in [Id -> Inc \cup {0}] /\ i \notin known
    BY <1>1 DEF LifecycleInv, LifecycleTypeOK, LoopOK
  <1>3. LifecycleTypeOK'
    BY <1>1, <1>2 DEF LifecycleInv, LifecycleTypeOK
  <1>4. LoopOK' /\ FreshOK' /\ TablesOK'
    BY <1>1, <1>2 DEF LifecycleInv, LoopOK, FreshOK, TablesOK, Inserting, Spawning
  <1>5. GivenUpOK'
    BY <1>1 DEF LifecycleInv, GivenUpOK
  <1>6. ActiveOK'
    BY <1>1, <1>2, IncType DEF LifecycleInv, ActiveOK, Inserting, Spawning
  <1>7. ManagedIsAlive'
    BY <1>1, <1>2, IncType DEF LifecycleInv, ManagedIsAlive
  <1> QED
    BY <1>3, <1>4, <1>5, <1>6, <1>7 DEF LifecycleInv

\* The second half of remove_device.
LEMMA RemoveConnsPreserves == ASSUME LifecycleInv, RemoveConns PROVE LifecycleInv'
  <1> DEFINE i == fresh[1]
  <1>1. /\ loop = "remove" /\ mux' = mux \ {i} /\ gone' = gone \ {i}
        /\ loop' = "attach" /\ fresh' = <<0, 0>>
        /\ UNCHANGED <<known, misses, todo, managed, plug, plugs, incs, fails, errs>>
    BY DEF RemoveConns, busVars
  <1>2. managed[i] = 0
    BY <1>1 DEF LifecycleInv, FreshOK
  <1> HIDE DEF i
  <1>3. LifecycleTypeOK'
    BY <1>1 DEF LifecycleInv, LifecycleTypeOK
  <1>4. LoopOK' /\ FreshOK'
    BY <1>1 DEF LifecycleInv, LoopOK, FreshOK, Inserting, Spawning
  <1>5. GivenUpOK'
    BY <1>1 DEF LifecycleInv, GivenUpOK
  <1>6. ActiveOK'
    BY <1>1 DEF LifecycleInv, ActiveOK, Inserting, Spawning
  <1>7. TablesOK' /\ ManagedIsAlive'
    BY <1>1, <1>2 DEF LifecycleInv, TablesOK, ManagedIsAlive
  <1> QED
    BY <1>3, <1>4, <1>5, <1>6, <1>7 DEF LifecycleInv
-----------------------------------------------------------------------------
(* The steps of readers, tasks and the bus.                                *)

\* A reader thread ends.
LEMMA ReaderPreserves ==
    ASSUME LifecycleInv, NEW n \in DOMAIN incs, ReaderFails(n) \/ ReaderUnheard(n)
    PROVE  LifecycleInv'
  <1>1. SetReader(n) /\ UNCHANGED <<scanVars, mgrVars, busVars, fails>>
    BY DEF ReaderFails, ReaderUnheard
  <1>2. UNCHANGED <<known, misses, loop, todo, gone, fresh, managed, mux, plug, plugs, fails>>
    BY <1>1 DEF scanVars, mgrVars, busVars
  <1>3. /\ incs' \in Seq(Incarnation) /\ Len(incs') = Len(incs)
        /\ DOMAIN incs' = DOMAIN incs
        /\ \A m \in DOMAIN incs :
             incs'[m].id = incs[m].id /\ incs'[m].task = incs[m].task
    BY <1>1, ChangedReader DEF LifecycleInv
  <1>4. errs' \in 0..MaxErr
    BY LifecycleConstants DEF ReaderFails, ReaderUnheard, LifecycleInv, LifecycleTypeOK
  <1>5. LifecycleTypeOK'
    BY <1>2, <1>3, <1>4 DEF LifecycleInv, LifecycleTypeOK
  <1>6. LoopOK' /\ FreshOK' /\ TablesOK'
    BY <1>2, <1>3 DEF LifecycleInv, LoopOK, FreshOK, TablesOK
  <1>7. GivenUpOK'
    BY <1>2, <1>3 DEF LifecycleInv, GivenUpOK
  <1>8. ActiveOK'
    BY <1>2, <1>3 DEF LifecycleInv, ActiveOK
  <1>9. ManagedIsAlive'
    BY <1>2, <1>3 DEF LifecycleInv, ManagedIsAlive
  <1> QED
    BY <1>5, <1>6, <1>7, <1>8, <1>9 DEF LifecycleInv

\* A task that runs is told that its reader or its entry is gone, or one that
\* has dropped its entry ends: the tables stay as they are.
LEMMA TaskMovesPreserves ==
    ASSUME LifecycleInv, NEW n \in DOMAIN incs, Disconnect(n) \/ Stop(n) \/ Orphaned(n)
    PROVE  LifecycleInv'
  <1>1. PICK t \in {"cleaned", "stopped"} :
            /\ incs' = [incs EXCEPT ![n].task = t]
            /\ incs[n].task \in {"running", "unmanaged"}
            /\ t = "cleaned" => incs[n].task = "running"
            /\ t = "stopped" => incs[n].task = "unmanaged" \/ managed[incs[n].id] # n
            /\ UNCHANGED <<scanVars, mgrVars, busVars, fails, errs>>
    BY DEF Disconnect, Stop, Orphaned, SetTask
  <1>2. UNCHANGED <<known, misses, loop, todo, gone, fresh, managed, mux, plug, plugs, fails,
                    errs>>
    BY <1>1 DEF scanVars, mgrVars, busVars
  <1>3. /\ incs' \in Seq(Incarnation) /\ Len(incs') = Len(incs)
        /\ DOMAIN incs' = DOMAIN incs
        /\ \A m \in DOMAIN incs :
             /\ incs'[m].id = incs[m].id
             /\ incs'[m].task = IF m = n THEN t ELSE incs[m].task
    <2>1. t \in {"starting", "running", "cleaned", "unmanaged", "stopped"}
      OBVIOUS
    <2> QED
      BY <1>1, <2>1, ChangedTask DEF LifecycleInv
  <1>4. LifecycleTypeOK'
    BY <1>2, <1>3 DEF LifecycleInv, LifecycleTypeOK
  <1>5. LoopOK' /\ FreshOK' /\ TablesOK'
    BY <1>1, <1>2, <1>3 DEF LifecycleInv, LoopOK, FreshOK, TablesOK
  <1>6. GivenUpOK'
    BY <1>2, <1>3 DEF LifecycleInv, GivenUpOK
  <1>7. ActiveOK'
    BY <1>1, <1>2, <1>3 DEF LifecycleInv, ActiveOK, Active
  <1>8. ManagedIsAlive'
    <2>1. ASSUME NEW i \in Id, managed[i] # 0
          PROVE  /\ managed[i] \in DOMAIN incs /\ incs[managed[i]].id = i
                 /\ incs'[managed[i]].task \in {"starting", "running", "cleaned"}
      BY <1>1, <1>3, <2>1 DEF LifecycleInv, ManagedIsAlive
    <2>2. ASSUME t = "cleaned"
          PROVE  managed[incs[n].id] \in {0, n}
      BY <1>1, <2>2 DEF LifecycleInv, ActiveOK, Active, FreshOK
    <2> QED
      BY <1>2, <1>3, <2>1, <2>2 DEF LifecycleInv, ManagedIsAlive
  <1> QED
    BY <1>4, <1>5, <1>6, <1>7, <1>8 DEF LifecycleInv

\* A task drops the entry of its device.
LEMMA UnmanagePreserves ==
    ASSUME LifecycleInv, NEW n \in DOMAIN incs, Unmanage(n) PROVE LifecycleInv'
  <1> DEFINE i == incs[n].id
  <1>1. /\ incs[n].task = "cleaned" /\ managed' = [managed EXCEPT ![i] = 0]
        /\ incs' = [incs EXCEPT ![n].task = "unmanaged"]
        /\ UNCHANGED <<known, misses, loop, todo, gone, fresh, mux, plug, plugs, fails, errs>>
    BY DEF Unmanage, SetTask, scanVars, busVars
  <1>2. /\ incs' \in Seq(Incarnation) /\ Len(incs') = Len(incs)
        /\ DOMAIN incs' = DOMAIN incs
        /\ \A m \in DOMAIN incs :
             /\ incs'[m].id = incs[m].id
             /\ incs'[m].task = IF m = n THEN "unmanaged" ELSE incs[m].task
    BY <1>1, ChangedTask DEF LifecycleInv
  <1>3. i \in Id /\ n # 0 /\ managed \in [Id -> Inc \cup {0}] /\ managed[i] \in {0, n}
    BY <1>1, IncType DEF LifecycleInv, LifecycleTypeOK, ManagedIsAlive
  <1>4. \A j \in Id : managed'[j] = IF j = i THEN 0 ELSE managed[j]
    BY <1>1, <1>3
  <1>a. i = incs[n].id
    OBVIOUS
  <1> HIDE DEF i
  <1>5. LifecycleTypeOK'
    BY <1>1, <1>2, <1>3 DEF LifecycleInv, LifecycleTypeOK
  <1>6. LoopOK' /\ TablesOK'
    BY <1>1, <1>4 DEF LifecycleInv, LoopOK, TablesOK
  <1>7. FreshOK'
    <2>1. fresh[2] \in DOMAIN incs => fresh[2] # 0 /\ incs[fresh[2]].id \in Id
      BY IncType DEF LifecycleInv
    <2>2. loop = "remove" => fresh[1] \in Id
      BY DEF LifecycleInv, FreshOK, LifecycleTypeOK
    <2> QED
      BY <1>1, <1>2, <1>3, <1>4, <2>1, <2>2 DEF LifecycleInv, FreshOK, Inserting, Spawning
  <1>8. GivenUpOK'
    BY <1>1, <1>2 DEF LifecycleInv, GivenUpOK
  <1>9. ActiveOK'
    BY <1>1, <1>2, <1>3, <1>4, IncType DEF LifecycleInv, ActiveOK, Active
  <1>10. ManagedIsAlive'
    BY <1>1, <1>2, <1>3, <1>4, <1>a, IncType DEF LifecycleInv, ManagedIsAlive
  <1> QED
    BY <1>5, <1>6, <1>7, <1>8, <1>9, <1>10 DEF LifecycleInv

\* The phone is plugged in or out.
LEMMA BusPreserves == ASSUME LifecycleInv, PlugIn \/ Unplug PROVE LifecycleInv'
  <1>1. UNCHANGED <<known, misses, loop, todo, gone, fresh, managed, mux, incs, fails, errs>>
    BY DEF PlugIn, Unplug, scanVars, mgrVars
  <1>2. plug \in 0..plugs /\ plugs \in 0..MaxPlug /\ known \subseteq Id /\ gone \subseteq Id
    BY DEF LifecycleInv, LifecycleTypeOK
  <1>3. /\ plugs' \in 0..MaxPlug /\ plug' \in 0..plugs' /\ plugs <= plugs'
        /\ plug' = 0 \/ plug' > plugs
    BY <1>2, LifecycleConstants DEF PlugIn, Unplug
  <1>4. LifecycleTypeOK'
    BY <1>1, <1>3 DEF LifecycleInv, LifecycleTypeOK
  <1>5. LoopOK' /\ FreshOK' /\ TablesOK'
    BY <1>1 DEF LifecycleInv, LoopOK, FreshOK, TablesOK
  <1>6. ActiveOK' /\ ManagedIsAlive'
    BY <1>1 DEF LifecycleInv, ActiveOK, ManagedIsAlive
  <1>7. GivenUpOK'
    <2>1. ASSUME NEW i \in Id, i <= plugs PROVE i <= plugs' /\ i # plug'
      BY <1>2, <1>3, <2>1, LifecycleConstants DEF Id
    <2>2. \A n \in DOMAIN incs : incs[n].id \in Id /\ incs[n].id <= plugs
      BY IncType DEF LifecycleInv, GivenUpOK
    <2> QED
      BY <1>1, <1>2, <2>1, <2>2 DEF LifecycleInv, GivenUpOK
  <1> QED
    BY <1>4, <1>5, <1>6, <1>7 DEF LifecycleInv
-----------------------------------------------------------------------------
(* The theorems.                                                           *)

\* Every step keeps the invariant.
LEMMA NextPreserves == LifecycleInv /\ [Next]_vars => LifecycleInv'
  <1> SUFFICES ASSUME LifecycleInv, [Next]_vars PROVE LifecycleInv'
    OBVIOUS
  <1>1. CASE LoopStep
    BY <1>1, ScanPreserves, QuietLoopPreserves, NotAddedPreserves, OpenPreserves,
       InsertPreserves, SpawnPreserves, DetachPreserves, RemoveConnsPreserves
       DEF LoopStep
  <1>2. CASE \E n \in DOMAIN incs : ReaderFails(n) \/ ReaderUnheard(n) \/ TaskStep(n)
    BY <1>2, ReaderPreserves, TaskMovesPreserves, UnmanagePreserves DEF TaskStep
  <1>3. CASE PlugIn \/ Unplug
    BY <1>3, BusPreserves
  <1>4. CASE UNCHANGED vars
    <2>1. UNCHANGED <<known, misses, loop, todo, gone, fresh, managed, mux, plug, plugs,
                      incs, fails, errs>>
      BY <1>4 DEF vars, scanVars, mgrVars, busVars
    <2> QED
      BY <2>1 DEF LifecycleInv, LifecycleTypeOK, LoopOK, FreshOK, GivenUpOK, ActiveOK,
                  TablesOK, ManagedIsAlive
  <1> QED
    BY <1>1, <1>2, <1>3, <1>4 DEF Next

\* So it holds in every reachable state.
LEMMA LifecycleInvariant == Spec => []LifecycleInv
  BY InitEstablishes, NextPreserves, PTL DEF Spec

\* The tables of scanner, manager and connections and the incarnations keep
\* their types, and no more than the allowed misses are counted.
THEOREM LifecycleTypeCorrect == Spec => []LifecycleTypeOK
  <1>1. LifecycleInv => LifecycleTypeOK
    BY DEF LifecycleInv
  <1> QED
    BY <1>1, LifecycleInvariant, PTL

\* handle_usb_disconnect drops the entry under the id, whosever it is: it is
\* always the one of the task that ends, never that of a later incarnation.
THEOREM EntriesAreAlive == Spec => []ManagedIsAlive
  <1>1. LifecycleInv => ManagedIsAlive
    BY DEF LifecycleInv
  <1> QED
    BY <1>1, LifecycleInvariant, PTL

\* Between two scans neither the manager nor the connection table has an id
\* the scanner has given up.
THEOREM TablesAgree == Spec => []TablesMatchScanner
  <1>1. LifecycleInv => TablesMatchScanner
    BY DEF LifecycleInv, TablesOK, LoopOK, TablesMatchScanner
  <1> QED
    BY <1>1, LifecycleInvariant, PTL
=============================================================================
