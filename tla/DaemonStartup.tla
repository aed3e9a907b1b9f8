---------------------------- MODULE DaemonStartup ----------------------------
(***************************************************************************)
(* From the config file and the command line to a socket and back: the     *)
(* layers of the configuration (config.rs, main.rs), the endpoint          *)
(* (daemon/transport.rs), and the life of the unix socket file, which      *)
(* daemons started on the same path share without a lock (daemon/mod.rs,   *)
(* daemon/relay.rs, security.rs).                                          *)
(*                                                                         *)
(* Of the fields that are copied alike max_clients stands for all; a       *)
(* socket_mode is good, malformed or above 0o777.                          *)
(***************************************************************************)
EXTENDS Integers, FiniteSets

CONSTANTS
    Daemon,      \* daemon processes
    Path,        \* unix socket paths; DefaultPath is the platform's default
    DefaultPath,
    None,        \* what a layer does not say; also no file, no socket
    MaxStart,    \* bound: starts
    MaxCrash     \* bound: daemons killed

ASSUME StartupConstants ==
    /\ DefaultPath \in Path /\ None \notin Path \cup Daemon
    /\ MaxStart \in Nat /\ MaxCrash \in Nat

VARIABLES
    pc,        \* where a daemon is
    boot,      \* the layers it was started from, until it is configured
    cfg,       \* its configuration; later only the endpoint and the backend
    sock,      \* owner of the socket file at a path
    shared,    \* history: another daemon used the path since this one looked at it
    dirty,     \* history: paths whose file was left by a killed or failed daemon
    starts, crashes

hist == <<shared, dirty>>
vars == <<pc, boot, cfg, sock, hist, starts, crashes>>
-----------------------------------------------------------------------------
(* The configuration.                                                      *)

\* Endpoint strings: a scheme and what follows it.
UnixEndpoint(p) == [scheme |-> "unix", at |-> p, ok |-> TRUE]
Tcp(ok) == [scheme |-> "tcp", at |-> "port", ok |-> ok]
Pipe == [scheme |-> "pipe", at |-> "name", ok |-> TRUE]
Given == {UnixEndpoint(DefaultPath), Tcp(TRUE), Tcp(FALSE), None}
GivenPath == (Path \ {DefaultPath}) \cup {None}
Endpoint == {UnixEndpoint(p) : p \in Path} \cup {Tcp(TRUE), Tcp(FALSE), Pipe}

\* Hence a layer that says something is told from one that does not.
ASSUME NoneIsNoEndpoint == None \notin Endpoint

\* Layers.  The command line always has a backend (its default is "usb") and
\* passes on no more than these fields.
File == [endpoint : Given, socket_path : GivenPath,
         socket_mode : {"malformed", "high", None}, max_clients : {0, None},
         require_pair_record : {FALSE, None}, backend : {"relay", None}]
Args == [endpoint : Given \cup {Pipe}, socket_path : GivenPath, backend : {"usb", "relay"}]
NoFile == [endpoint |-> None, socket_path |-> None, socket_mode |-> None,
           max_clients |-> None, require_pair_record |-> None, backend |-> None]
NoBoot == [file |-> NoFile, args |-> [endpoint |-> None, socket_path |-> None,
                                      backend |-> "usb"]]

Default == [endpoint |-> UnixEndpoint(DefaultPath), socket_mode |-> "good",
            max_clients |-> 256, require_pair_record |-> TRUE, backend |-> "usb"]

Or(value, default) == IF value = None THEN default ELSE value

\* endpoint_raw: the socket path of a layer comes after its endpoint.
RawEndpoint(layer, default) ==
    IF layer.socket_path # None THEN UnixEndpoint(layer.socket_path)
    ELSE Or(layer.endpoint, default)

\* Mutant: the socket path of the file is not turned into an endpoint.
MergeFileNoPath(c, f) ==
    [endpoint |-> Or(f.endpoint, c.endpoint),
     socket_mode |-> IF f.socket_mode = "malformed" THEN c.socket_mode
                     ELSE Or(f.socket_mode, c.socket_mode),
     max_clients |-> Or(f.max_clients, c.max_clients),
     require_pair_record |-> Or(f.require_pair_record, c.require_pair_record),
     backend |-> Or(f.backend, c.backend)]

\* A malformed mode is reported and left out.
MergeFile(c, f) ==
    [endpoint |-> RawEndpoint(f, c.endpoint),
     socket_mode |-> IF f.socket_mode = "malformed" THEN c.socket_mode
                     ELSE Or(f.socket_mode, c.socket_mode),
     max_clients |-> Or(f.max_clients, c.max_clients),
     require_pair_record |-> Or(f.require_pair_record, c.require_pair_record),
     backend |-> Or(f.backend, c.backend)]

\* The backend is set whether it was asked for or not.
MergeArgs(c, a) ==
    [c EXCEPT !.endpoint = RawEndpoint(a, @), !.backend = a.backend]

FromSources(f, a) == MergeArgs(MergeFile(Default, f), a)

\* Endpoint::parse(): a TCP address must be loopback, a pipe name well-formed.
Parses(e) == e.scheme = "unix" \/ e.ok

Valid(c) == c.max_clients > 0 /\ c.socket_mode # "high"
-----------------------------------------------------------------------------
(* Start.                                                                  *)

GoTo(d, to) == pc' = [pc EXCEPT ![d] = to]
PathOf(d) == cfg[d].endpoint.at
OnUnix(d) == cfg[d].endpoint.scheme = "unix"

\* Daemons that have looked at the path of d, which are at it still.
At(p) == {d \in Daemon : pc[d] \in {"unlink", "bind", "bound", "serving"}
                            /\ OnUnix(d) /\ PathOf(d) = p}

\* run_daemon_entry(): an unreadable file or endpoint is an error.  Nothing
\* shared is touched before Look, so daemons get there one at a time.
Load(d) ==
    /\ pc[d] = "off" /\ starts < MaxStart
    /\ \A e \in Daemon : pc[e] \notin {"loaded", "ready"}
    /\ starts' = starts + 1
    /\ \E f \in File \cup {NoFile}, a \in Args :
        LET c == FromSources(f, a)
        IN  IF Parses(c.endpoint)
            THEN /\ boot' = [boot EXCEPT ![d] = [file |-> f, args |-> a]]
                 /\ cfg' = [cfg EXCEPT ![d] = c]
                 /\ GoTo(d, "loaded")
            ELSE UNCHANGED <<boot, cfg, pc>>
    /\ UNCHANGED <<sock, hist, crashes>>

\* Nothing is done with a configuration that is not valid.
Validate(d) ==
    /\ pc[d] = "loaded"
    /\ GoTo(d, IF Valid(cfg[d]) THEN "ready" ELSE "off")
    /\ boot' = [boot EXCEPT ![d] = IF Valid(cfg[d]) THEN @ ELSE NoBoot]
    /\ cfg' = [cfg EXCEPT ![d] = IF Valid(cfg[d]) THEN @ ELSE Default]
    /\ UNCHANGED <<sock, hist, starts, crashes>>

\* Mutant: a socket file that exists is left alone.
LookNever(d) ==
    /\ pc[d] = "ready"
    /\ boot' = [boot EXCEPT ![d] = NoBoot]
    /\ cfg' = [cfg EXCEPT ![d] = [Default EXCEPT !.endpoint = cfg[d].endpoint]]
    /\ GoTo(d, "bind")
    /\ shared' = [e \in Daemon |-> IF e = d THEN OnUnix(d) /\ At(PathOf(d)) # {}
                                  ELSE shared[e] \/ (OnUnix(d) /\ e \in At(PathOf(d)))]
    /\ UNCHANGED <<sock, dirty, starts, crashes>>

\* path.exists() of a unix endpoint.
Look(d) ==
    /\ pc[d] = "ready"
    /\ boot' = [boot EXCEPT ![d] = NoBoot]
    /\ cfg' = [cfg EXCEPT ![d] = [Default EXCEPT !.endpoint = cfg[d].endpoint]]
    /\ GoTo(d, IF OnUnix(d) /\ sock[PathOf(d)] # None THEN "unlink" ELSE "bind")
    /\ shared' = [e \in Daemon |-> IF e = d THEN OnUnix(d) /\ At(PathOf(d)) # {}
                                  ELSE shared[e] \/ (OnUnix(d) /\ e \in At(PathOf(d)))]
    /\ UNCHANGED <<sock, dirty, starts, crashes>>

Remove(p) == sock' = [sock EXCEPT ![p] = None] /\ dirty' = dirty \ {p}

\* d is gone.
Off(d) == GoTo(d, "off") /\ cfg' = [cfg EXCEPT ![d] = Default]

\* remove_file(), whosever socket it is; it fails when the file is gone by now.
Unlink(d) ==
    /\ pc[d] = "unlink"
    /\ IF sock[PathOf(d)] = None THEN Off(d) /\ UNCHANGED <<sock, dirty>>
       ELSE Remove(PathOf(d)) /\ GoTo(d, "bind") /\ UNCHANGED cfg
    /\ UNCHANGED <<boot, shared, starts, crashes>>

\* bind() of a path needs that there is no file, of a port that nobody has it;
\* a pipe cannot be bound here.
Bind(d) ==
    /\ pc[d] = "bind"
    /\ IF /\ OnUnix(d) => sock[PathOf(d)] = None
          /\ cfg[d].endpoint.scheme = "tcp" =>
                \A e \in Daemon : ~(pc[e] \in {"bound", "serving"} /\ ~OnUnix(e))
          /\ cfg[d].endpoint.scheme # "pipe"
       THEN /\ sock' = IF OnUnix(d) THEN [sock EXCEPT ![PathOf(d)] = d] ELSE sock
            /\ GoTo(d, "bound") /\ UNCHANGED cfg
       ELSE Off(d) /\ UNCHANGED sock
    /\ UNCHANGED <<boot, hist, starts, crashes>>

\* The file left behind by a daemon that is no more.
Left(d) == IF \E p \in Path : sock[p] = d
           THEN dirty' = dirty \cup {p \in Path : sock[p] = d} ELSE UNCHANGED dirty

\* Mode and group are set before the guard exists: on an error the file stays.
Secure(d) ==
    /\ pc[d] = "bound"
    /\ \/ GoTo(d, "serving") /\ UNCHANGED <<cfg, dirty>>
       \/ OnUnix(d) /\ Off(d) /\ Left(d)
    /\ UNCHANGED <<boot, sock, shared, starts, crashes>>

\* Mutant: the socket is not removed.
ExitLeaves(d) ==
    /\ pc[d] = "serving"
    /\ Off(d)
    /\ UNCHANGED <<boot, sock, hist, starts, crashes>>

\* Shutdown: the guard removes whatever is at the path.
Exit(d) ==
    /\ pc[d] = "serving"
    /\ Off(d)
    /\ IF OnUnix(d) THEN Remove(PathOf(d)) ELSE UNCHANGED <<sock, dirty>>
    /\ UNCHANGED <<boot, shared, starts, crashes>>

Crash(d) ==
    /\ pc[d] # "off" /\ crashes < MaxCrash
    /\ crashes' = crashes + 1
    /\ Off(d) /\ Left(d)
    /\ boot' = [boot EXCEPT ![d] = NoBoot]
    /\ UNCHANGED <<sock, shared, starts>>

Init ==
    /\ pc = [d \in Daemon |-> "off"]
    /\ boot = [d \in Daemon |-> NoBoot]
    /\ cfg = [d \in Daemon |-> Default]
    /\ sock = [p \in Path |-> None]
    /\ shared = [d \in Daemon |-> FALSE]
    /\ dirty = {}
    /\ starts = 0 /\ crashes = 0

Next ==
    \E d \in Daemon :
        \/ Load(d) \/ Validate(d) \/ Look(d) \/ Unlink(d) \/ Bind(d) \/ Secure(d)
        \/ Exit(d) \/ Crash(d)

Spec == Init /\ [][Next]_vars
-----------------------------------------------------------------------------
(* Properties.                                                             *)

\* What a daemon is about to run with: the last endpoint that was given (the
\* file's endpoint, its socket path, then the same of the command line), and
\* never one that is not loopback; the pair record check is off only when the
\* file says so.  An invalid or malformed setting never gets this far.
RunsAsAsked ==
    \A d \in Daemon : pc[d] = "ready" =>
        LET f == boot[d].file
            a == boot[d].args
            unix(p) == IF p = None THEN None ELSE UnixEndpoint(p)
            given == <<Default.endpoint, f.endpoint, unix(f.socket_path),
                       a.endpoint, unix(a.socket_path)>>
            last == CHOOSE i \in 1..5 : given[i] # None /\ \A j \in i+1..5 : given[j] = None
        IN  /\ cfg[d].endpoint = given[last]
            /\ cfg[d].endpoint # Tcp(FALSE)
            /\ ~cfg[d].require_pair_record => f.require_pair_record = FALSE
            /\ cfg[d].max_clients > 0 /\ cfg[d].socket_mode = "good"

\* SocketCleanupGuard: a socket file whose daemon is gone is left only by a
\* daemon that was killed, or that failed between bind() and the guard.
NothingLeft ==
    \A p \in Path, d \in Daemon :
        sock[p] = d /\ d \notin At(p) => p \in dirty

\* A file left behind never keeps a daemon from starting: one that has the
\* path for itself finds it free when it binds.
StaleNeverBlocks ==
    \A d \in Daemon :
        pc[d] = "bind" /\ OnUnix(d) /\ ~shared[d] => sock[PathOf(d)] = None

\* What daemon/mod.rs says of the guard: it removes a socket file if this
\* daemon created it.
GuardRemovesOwn ==
    [][\A d \in Daemon, p \in Path :
        (pc[d] = "serving" /\ pc'[d] = "off" /\ sock'[p] # sock[p]) => sock[p] = d]_vars
=============================================================================
