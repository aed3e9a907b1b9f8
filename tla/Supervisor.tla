----------------------------- MODULE Supervisor -----------------------------
(***************************************************************************)
(* The subprocess supervisor of the Python orchestrator                    *)
(* (meridian_py/services/supervisor.py) and its two threads: the main      *)
(* thread, which calls start_all() and, when the session ends, stop_all()  *)
(* (runner.py), and the watcher, which restarts services that exit.  The   *)
(* watcher takes the lock only to copy the list of services, so it polls   *)
(* and spawns while stop_all() runs.  Processes are numbered in the order  *)
(* they are started.                                                       *)
(***************************************************************************)
EXTENDS Integers, Sequences, FiniteSets

CONSTANTS
    Service,      \* the ProcessSpecs that were added
    StartCalls,   \* times start_all() is called
    MayBeMissing, \* Popen may raise FileNotFoundError
    MaxExit       \* bound: processes that exit without being told to

ASSUME SupervisorConstants ==
    /\ IsFiniteSet(Service)
    /\ StartCalls \in Nat \ {0}
    /\ MayBeMissing \in BOOLEAN
    /\ MaxExit \in Nat

VARIABLES
    main,       \* what the main thread is doing
    calls,      \* start_all() calls begun
    toStart,    \* services this start_all() has still to start
    proc,       \* st.proc: a process number, 0 for None
    stopping,   \* st.stopping
    shutdown,   \* the _shutdown event
    watcher,    \* what the watcher thread is doing
    queue,      \* services this turn of the watcher has still to look at
    fresh,      \* <<service, process>> the watcher works on
    service,    \* the service of each process started so far
    live,       \* processes that run
    told,       \* processes that were sent SIGTERM
    exits       \* history: processes that have exited by themselves

mainVars == <<main, calls, toStart, stopping, shutdown>>
watcherVars == <<watcher, queue, fresh>>
osVars == <<service, live, told, exits>>
supervisorVars == <<mainVars, watcherVars, osVars, proc>>

NoService == <<>>
Found == IF MayBeMissing THEN BOOLEAN ELSE {TRUE}

\* subprocess.Popen: a new process.
Popen(s) ==
    /\ service' = Append(service, s)
    /\ live' = live \cup {Len(service) + 1}
    /\ UNCHANGED <<told, exits>>

Running(s) == proc[s] \in live
-----------------------------------------------------------------------------
(* The main thread.                                                        *)

StartAll ==
    /\ main = "idle" /\ calls < StartCalls
    /\ main' = "starting"
    /\ calls' = calls + 1
    /\ toStart' = Service
    /\ UNCHANGED <<stopping, shutdown, watcherVars, osVars, proc>>

\* _spawn() of one service; whatever st.proc was is overwritten.
StartOne(s) ==
    /\ main = "starting" /\ s \in toStart
    /\ toStart' = toStart \ {s}
    /\ \E found \in Found :
        IF found
        THEN Popen(s) /\ proc' = [proc EXCEPT ![s] = Len(service) + 1]
        ELSE proc' = [proc EXCEPT ![s] = 0] /\ UNCHANGED osVars
    /\ UNCHANGED <<main, calls, stopping, shutdown, watcherVars>>

\* start_all() ends: a watcher is started unless one is alive.
StartWatcher ==
    /\ main = "starting" /\ toStart = {}
    /\ main' = "idle"
    /\ IF watcher = "off"
       THEN shutdown' = FALSE /\ watcher' = "turn"
       ELSE UNCHANGED <<shutdown, watcher>>
    /\ UNCHANGED <<calls, toStart, stopping, queue, fresh, osVars, proc>>

\* stop_all(): first the event, without the lock ...
SetShutdown ==
    /\ main = "idle" /\ calls > 0
    /\ main' = "stopping"
    /\ shutdown' = TRUE
    /\ UNCHANGED <<calls, toStart, stopping, watcherVars, osVars, proc>>

\* Mutant: the services are terminated and not marked.
TerminateOnly ==
    /\ main = "stopping"
    /\ main' = "waiting"
    /\ told' = told \cup {proc[s] : s \in {t \in Service : Running(t)}}
    /\ UNCHANGED <<calls, toStart, stopping, shutdown, watcherVars, service, live, exits,
                   proc>>

\* ... then, under the lock, every service is marked and terminated ...
Terminate ==
    /\ main = "stopping"
    /\ main' = "waiting"
    /\ stopping' = [s \in Service |-> TRUE]
    /\ told' = told \cup {proc[s] : s \in {t \in Service : Running(t)}}
    /\ UNCHANGED <<calls, toStart, shutdown, watcherVars, service, live, exits, proc>>

\* ... then it waits until all are dead or five seconds have passed ...
WaitOver ==
    /\ main = "waiting"
    /\ main' = "killing"
    /\ UNCHANGED <<calls, toStart, stopping, shutdown, watcherVars, osVars, proc>>

\* ... and kills what is left.
Kill ==
    /\ main = "killing"
    /\ main' = "stopped"
    /\ live' = live \ {proc[s] : s \in Service}
    /\ UNCHANGED <<calls, toStart, stopping, shutdown, watcherVars, service, told, exits,
                   proc>>

\* The session's other stop hooks have run and the interpreter ends, and with
\* it the watcher, a daemon thread.
InterpreterExit ==
    /\ main = "stopped"
    /\ main' = "exited"
    /\ watcher' = "off"
    /\ UNCHANGED <<calls, toStart, stopping, shutdown, queue, fresh, osVars, proc>>
-----------------------------------------------------------------------------
(* The watcher thread.                                                     *)

BeginTurn ==
    /\ watcher = "turn"
    /\ IF shutdown
       THEN watcher' = "off" /\ UNCHANGED queue
       ELSE watcher' = "look" /\ queue' = Service
    /\ UNCHANGED <<fresh, mainVars, osVars, proc>>

\* Mutant: the watcher does not ask whether the process has exited.
NeedsNoRestart1(s) == stopping[s] \/ proc[s] = 0
\* Mutant: a service is given up when any of its processes was lost before.
NeedsNoRestart2(s) == stopping[s] \/ proc[s] = 0 \/ Running(s) \/ exits > 1

\* Stopping, never started, or poll() says it still runs.
NeedsNoRestart(s) == stopping[s] \/ proc[s] = 0 \/ Running(s)

\* One service: nothing to do, or the watcher sleeps for its backoff.
LookAt(s) ==
    /\ watcher = "look" /\ s \in queue
    /\ queue' = queue \ {s}
    /\ IF NeedsNoRestart(s)
       THEN UNCHANGED <<watcher, fresh>>
       ELSE watcher' = "backoff" /\ fresh' = <<s, 0>>
    /\ UNCHANGED <<mainVars, osVars, proc>>

\* After the backoff it spawns, without looking again; Popen() ...
Respawn ==
    /\ watcher = "backoff"
    /\ \E found \in Found :
        IF found
        THEN /\ Popen(fresh[1])
             /\ fresh' = <<fresh[1], Len(service) + 1>>
             /\ watcher' = "assign"
             /\ UNCHANGED proc
        ELSE /\ proc' = [proc EXCEPT ![fresh[1]] = 0]
             /\ watcher' = "look" /\ fresh' = NoService
             /\ UNCHANGED osVars
    /\ UNCHANGED <<queue, mainVars>>

\* ... and the assignment to st.proc are two steps.
Assign ==
    /\ watcher = "assign"
    /\ proc' = [proc EXCEPT ![fresh[1]] = fresh[2]]
    /\ watcher' = "look" /\ fresh' = NoService
    /\ UNCHANGED <<queue, mainVars, osVars>>

EndTurn ==
    /\ watcher = "look" /\ queue = {}
    /\ watcher' = "turn"
    /\ UNCHANGED <<queue, fresh, mainVars, osVars, proc>>
-----------------------------------------------------------------------------
(* The processes (external).                                               *)

Exits(p) ==
    /\ p \in live
    /\ live' = live \ {p}
    /\ IF p \in told THEN UNCHANGED exits
       ELSE exits < MaxExit /\ exits' = exits + 1
    /\ UNCHANGED <<service, told, mainVars, watcherVars, proc>>

SupervisorInit ==
    /\ main = "idle" /\ calls = 0 /\ toStart = {}
    /\ proc = [s \in Service |-> 0]
    /\ stopping = [s \in Service |-> FALSE]
    /\ shutdown = FALSE
    /\ watcher = "off" /\ queue = {} /\ fresh = NoService
    /\ service = <<>> /\ live = {} /\ told = {} /\ exits = 0

MainStep == \/ StartAll \/ StartWatcher \/ SetShutdown \/ Terminate
            \/ WaitOver \/ Kill \/ InterpreterExit
            \/ \E s \in Service : StartOne(s)
WatcherStep == \/ BeginTurn \/ Respawn \/ Assign \/ EndTurn
               \/ \E s \in Service : LookAt(s)

SupervisorNext == MainStep \/ WatcherStep \/ \E p \in live : Exits(p)

SupervisorSpec == SupervisorInit /\ [][SupervisorNext]_supervisorVars

\* The interpreter schedules the watcher; start_all() runs to its end.  When
\* the session ends is up to the user.
FairSupervisorSpec ==
    /\ SupervisorSpec
    /\ WF_supervisorVars(WatcherStep)
    /\ WF_supervisorVars(StartWatcher \/ \E s \in Service : StartOne(s))
-----------------------------------------------------------------------------
\* Types of the two threads, the table of services and the processes.
SupervisorTypeOK ==
    /\ main \in {"idle", "starting", "stopping", "waiting", "killing", "stopped",
                 "exited"}
    /\ calls \in 0..StartCalls /\ toStart \subseteq Service
    /\ service \in Seq(Service)
    /\ proc \in [Service -> 0..Len(service)]
    /\ stopping \in [Service -> BOOLEAN] /\ shutdown \in BOOLEAN
    /\ watcher \in {"off", "turn", "look", "backoff", "assign"}
    /\ queue \subseteq Service
    /\ fresh \in {NoService} \cup (Service \X (0..Len(service)))
    /\ live \subseteq DOMAIN service /\ told \subseteq DOMAIN service
    /\ exits \in 0..MaxExit

\* Every process that runs is the one in the table under its service, or the
\* one the watcher has just started and is about to put there: no service runs
\* twice and stop_all() can reach every process.
ProcessesTracked ==
    \A p \in live : \/ proc[service[p]] = p
                    \/ fresh = <<service[p], p>> /\ ~Running(service[p])

\* Once stop_all() has returned at most one process is left: the one the watcher,
\* past its check of stopping, was about to restart.
OneSurvivor == main \in {"stopped", "exited"} => Cardinality(live) <= 1

\* (supervisor.py:5) The supervisor "owns them all and shuts them down cleanly on
\* teardown": when the session has ended and the watcher with it, none of the
\* processes it started runs.  It does not hold: what the watcher spawns after
\* stop_all() has returned outlives the session.  OneSurvivor is what does hold.
CleanTeardown == main = "exited" => live = {}

\* A service that exits is started again unless its program has vanished or the
\* session is being stopped.
Restarted ==
    \A s \in Service :
        (proc[s] # 0 /\ ~Running(s)) ~> (Running(s) \/ proc[s] = 0 \/ shutdown)
=============================================================================
