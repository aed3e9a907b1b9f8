---------------------------- MODULE ProcessProofs ----------------------------
(***************************************************************************)
(* Machine-checked proofs about the two components that start and end      *)
(* processes: DaemonStartup, for any number of daemons, paths, starts and  *)
(* crashes, and Supervisor, for any services and number of exits.          *)
(***************************************************************************)
EXTENDS DaemonStartup, Supervisor, FiniteSetTheorems, TLAPS

Config == [endpoint : Endpoint, socket_mode : {"good", "high"},
           max_clients : {0, 256}, require_pair_record : BOOLEAN,
           backend : {"usb", "relay"}]
Layers == [file : File \cup {NoFile}, args : Args \cup {NoBoot.args}]
AtPath == {"unlink", "bind", "bound", "serving"}

\* Types of the daemons, their configurations and the socket files.
StartupTypeOK ==
    /\ pc \in [Daemon -> {"off", "loaded", "ready"} \cup AtPath]
    /\ boot \in [Daemon -> Layers]
    /\ cfg \in [Daemon -> Config]
    /\ sock \in [Path -> Daemon \cup {None}]
    /\ shared \in [Daemon -> BOOLEAN]
    /\ dirty \subseteq Path

\* Until the socket is looked at, the configuration is that of the layers.
ConfigOK ==
    \A d \in Daemon :
        /\ pc[d] \in {"loaded", "ready"} =>
            /\ cfg[d] = FromSources(boot[d].file, boot[d].args)
            /\ boot[d].file \in File \cup {NoFile} /\ boot[d].args \in Args
            /\ Parses(cfg[d].endpoint)
        /\ pc[d] = "ready" => Valid(cfg[d])

\* A daemon that is about to bind has no socket at its path yet.
NotBoundYet ==
    \A d \in Daemon : pc[d] = "bind" /\ OnUnix(d) => sock[PathOf(d)] # d

\* Of two daemons that are at one path the later one saw the earlier, and both
\* are marked.
SharedOK ==
    \A d, e \in Daemon :
        (/\ d # e /\ pc[d] \in AtPath /\ pc[e] \in AtPath /\ OnUnix(d) /\ OnUnix(e)
         /\ PathOf(d) = PathOf(e)) => shared[d] /\ shared[e]

\* The inductive invariant.
StartupInv ==
    /\ StartupTypeOK /\ ConfigOK /\ NotBoundYet /\ SharedOK
    /\ NothingLeft /\ StaleNeverBlocks
-----------------------------------------------------------------------------
(* The configuration.                                                      *)

\* A layer's endpoint is one, whatever the layer leaves out.
LEMMA RawEndpointType ==
    ASSUME NEW layer, NEW default \in Endpoint,
           layer.endpoint \in Given \cup {Pipe}, layer.socket_path \in GivenPath
    PROVE  RawEndpoint(layer, default) \in Endpoint
  BY StartupConstants DEF RawEndpoint, Or, Endpoint, Given, GivenPath

\* Fields of the layers.
LEMMA LayerFields ==
    ASSUME NEW f \in File \cup {NoFile}, NEW a \in Args
    PROVE  /\ f.endpoint \in Given \cup {Pipe} /\ f.socket_path \in GivenPath
           /\ f.socket_mode \in {"malformed", "high", None} /\ f.max_clients \in {0, None}
           /\ f.require_pair_record \in {FALSE, None} /\ f.backend \in {"relay", None}
           /\ a.endpoint \in Given \cup {Pipe} /\ a.socket_path \in GivenPath
           /\ a.backend \in {"usb", "relay"}
  <1>1. CASE f \in File
    <2>1. /\ f.endpoint \in Given /\ f.socket_path \in GivenPath
          /\ f.socket_mode \in {"malformed", "high", None} /\ f.max_clients \in {0, None}
          /\ f.require_pair_record \in {FALSE, None} /\ f.backend \in {"relay", None}
      BY <1>1 DEF File
    <2>2. /\ a.endpoint \in Given \cup {Pipe} /\ a.socket_path \in GivenPath
          /\ a.backend \in {"usb", "relay"}
      BY DEF Args
    <2> QED BY <2>1, <2>2
  <1>2. CASE f = NoFile
    <2>1. /\ f.endpoint = None /\ f.socket_path = None /\ f.socket_mode = None
          /\ f.max_clients = None /\ f.require_pair_record = None /\ f.backend = None
      BY <1>2 DEF NoFile
    <2>2. /\ a.endpoint \in Given \cup {Pipe} /\ a.socket_path \in GivenPath
          /\ a.backend \in {"usb", "relay"}
      BY DEF Args
    <2>3. None \in Given /\ None \in GivenPath
      BY DEF Given, GivenPath
    <2> QED BY <2>1, <2>2, <2>3
  <1> QED BY <1>1, <1>2

\* The default endpoint is one.
LEMMA DefaultEndpoint == Default.endpoint \in Endpoint
  BY StartupConstants DEF Default, Endpoint

\* Layers make a configuration, field by field.
LEMMA FromSourcesFields ==
    ASSUME NEW f \in File \cup {NoFile}, NEW a \in Args
    PROVE  /\ FromSources(f, a) \in Config
           /\ FromSources(f, a).endpoint =
                RawEndpoint(a, RawEndpoint(f, Default.endpoint))
           /\ FromSources(f, a).require_pair_record = Or(f.require_pair_record, TRUE)
  <1> DEFINE ef == RawEndpoint(f, Default.endpoint)
             ea == RawEndpoint(a, ef)
             m == IF f.socket_mode = "malformed" THEN "good" ELSE Or(f.socket_mode, "good")
             n == Or(f.max_clients, 256)
             r == Or(f.require_pair_record, TRUE)
             b == Or(f.backend, "usb")
  <1>1. ef \in Endpoint
    BY LayerFields, DefaultEndpoint, RawEndpointType
  <1>2. ea \in Endpoint
    <2> HIDE DEF ef
    <2> QED BY <1>1, LayerFields, RawEndpointType
  <1>3. m \in {"good", "high"} /\ n \in {0, 256} /\ r \in BOOLEAN /\ b \in {"usb", "relay"}
    BY LayerFields DEF Or
  <1>4. MergeFile(Default, f) =
            [endpoint |-> ef, socket_mode |-> m, max_clients |-> n,
             require_pair_record |-> r, backend |-> b]
    BY DEF MergeFile, Default
  <1> HIDE DEF ef, m, n, r, b
  <1>5. FromSources(f, a) =
            [endpoint |-> RawEndpoint(a, ef), socket_mode |-> m, max_clients |-> n,
             require_pair_record |-> r, backend |-> a.backend]
    <2> DEFINE c == MergeFile(Default, f)
    <2>1. c = [endpoint |-> ef, socket_mode |-> m, max_clients |-> n,
               require_pair_record |-> r, backend |-> b]
      BY <1>4
    <2>2. FromSources(f, a) = MergeArgs(c, a)
      BY DEF FromSources
    <2> HIDE DEF c
    <2>3. c.endpoint = ef
      BY <2>1
    <2>4. MergeArgs(c, a) = [c EXCEPT !.endpoint = RawEndpoint(a, c.endpoint),
                                      !.backend = a.backend]
      BY DEF MergeArgs
    <2>5. MergeArgs(c, a) = [c EXCEPT !.endpoint = RawEndpoint(a, ef), !.backend = a.backend]
      BY <2>3, <2>4
    <2> DEFINE e == RawEndpoint(a, ef)
    <2>6. MergeArgs(c, a) = [c EXCEPT !.endpoint = e, !.backend = a.backend]
      BY <2>5
    <2> HIDE DEF e
    <2>7. MergeArgs(c, a) = [endpoint |-> e, socket_mode |-> m, max_clients |-> n,
                             require_pair_record |-> r, backend |-> a.backend]
      BY <2>6, <2>1
    <2> QED BY <2>2, <2>7 DEF e
  <1>6. FromSources(f, a) =
            [endpoint |-> ea, socket_mode |-> m, max_clients |-> n,
             require_pair_record |-> r, backend |-> a.backend]
    BY <1>5
  <1>7. a.backend \in {"usb", "relay"}
    BY LayerFields
  <1> HIDE DEF ea
  <1>8. FromSources(f, a) \in Config
    BY <1>2, <1>3, <1>6, <1>7 DEF Config
  <1>9. FromSources(f, a).endpoint = ea /\ FromSources(f, a).require_pair_record = r
    BY <1>6
  <1> QED BY <1>8, <1>9 DEF ea, ef, r
-----------------------------------------------------------------------------
(* The socket file.                                                        *)

\* What stands for no configuration has the types of one.
LEMMA Defaults == Default \in Config /\ NoBoot \in Layers
  <1>1. Default \in Config
    BY DefaultEndpoint DEF Default, Config
  <1>2. NoBoot \in Layers
    BY DEF NoBoot, Layers
  <1> QED BY <1>1, <1>2

\* The endpoint of a daemon, and the path of one that is on a unix socket.
LEMMA EndpointFacts ==
    ASSUME StartupTypeOK, NEW d \in Daemon
    PROVE  /\ cfg[d] \in Config /\ cfg[d].endpoint \in Endpoint
           /\ OnUnix(d) => PathOf(d) \in Path
  <1>1. cfg[d] \in Config
    BY DEF StartupTypeOK
  <1>2. cfg[d].endpoint \in Endpoint
    BY <1>1 DEF Config
  <1>3. OnUnix(d) => PathOf(d) \in Path
    BY <1>2 DEF OnUnix, PathOf, Endpoint, UnixEndpoint, Tcp, Pipe
  <1> QED BY <1>1, <1>2, <1>3

\* The four parts that are about socket files hold after a step of d that
\* leaves them alone and does not put d at a path, nor take it from one.
LEMMA ElsewhereKeeps ==
    ASSUME StartupInv, NEW d \in Daemon,
           sock' = sock, shared' = shared, dirty' = dirty,
           pc[d] \notin AtPath, pc'[d] \notin AtPath,
           \A e \in Daemon \ {d} : pc'[e] = pc[e] /\ cfg'[e] = cfg[e]
    PROVE  NotBoundYet' /\ SharedOK' /\ NothingLeft' /\ StaleNeverBlocks'
  <1> USE DEF OnUnix, PathOf
  <1>1. NotBoundYet'
    BY DEF StartupInv, NotBoundYet, AtPath
  <1>2. SharedOK'
    BY DEF StartupInv, SharedOK
  <1>3. NothingLeft'
    BY DEF StartupInv, NothingLeft, At, AtPath
  <1>4. StaleNeverBlocks'
    BY DEF StartupInv, StaleNeverBlocks, AtPath
  <1> QED BY <1>1, <1>2, <1>3, <1>4

\* The configuration part holds after a step of d that leaves d unconfigured.
LEMMA ConfiguredKeeps ==
    ASSUME StartupInv, NEW d \in Daemon, pc'[d] \notin {"loaded", "ready"},
           \A e \in Daemon \ {d} :
                pc'[e] = pc[e] /\ cfg'[e] = cfg[e] /\ boot'[e] = boot[e]
    PROVE  ConfigOK'
  BY DEF StartupInv, ConfigOK

\* run_daemon_entry() reads its layers and touches no socket.
LEMMA LoadStep ==
    ASSUME StartupInv, NEW d \in Daemon, Load(d)
    PROVE  StartupInv'
  <1>1. pc[d] = "off" /\ sock' = sock /\ shared' = shared /\ dirty' = dirty
    BY DEF Load, hist
  <1>2. PICK f \in File \cup {NoFile}, a \in Args :
            IF Parses(FromSources(f, a).endpoint)
            THEN /\ boot' = [boot EXCEPT ![d] = [file |-> f, args |-> a]]
                 /\ cfg' = [cfg EXCEPT ![d] = FromSources(f, a)]
                 /\ GoTo(d, "loaded")
            ELSE UNCHANGED <<boot, cfg, pc>>
    BY DEF Load
  <1> DEFINE c == FromSources(f, a)
             l == [file |-> f, args |-> a]
  <1>3. c \in Config
    BY FromSourcesFields
  <1>4. l \in Layers /\ l.file = f /\ l.args = a
    BY DEF Layers
  <1>5. /\ pc \in [Daemon -> {"off", "loaded", "ready"} \cup AtPath]
        /\ boot \in [Daemon -> Layers] /\ cfg \in [Daemon -> Config]
    BY DEF StartupInv, StartupTypeOK
  <1>6. CASE Parses(c.endpoint)
    <2>1. /\ boot' = [boot EXCEPT ![d] = l] /\ cfg' = [cfg EXCEPT ![d] = c]
          /\ pc' = [pc EXCEPT ![d] = "loaded"]
      BY <1>2, <1>6 DEF GoTo
    <2>2. c = FromSources(l.file, l.args) /\ l.file \in File \cup {NoFile} /\ l.args \in Args
      BY <1>4
    <2> HIDE DEF c, l
    <2>3. /\ pc' \in [Daemon -> {"off", "loaded", "ready"} \cup AtPath]
          /\ boot' \in [Daemon -> Layers] /\ cfg' \in [Daemon -> Config]
      BY <2>1, <1>3, <1>4, <1>5
    <2>4. pc'[d] = "loaded" /\ boot'[d] = l /\ cfg'[d] = c
      BY <2>1, <1>5
    <2>5. \A e \in Daemon \ {d} :
            pc'[e] = pc[e] /\ cfg'[e] = cfg[e] /\ boot'[e] = boot[e]
      BY <2>1, <1>5
    <2>6. StartupTypeOK'
      BY <2>3, <1>1 DEF StartupInv, StartupTypeOK
    <2>7. ConfigOK'
      BY <2>4, <2>5, <2>2, <1>6 DEF StartupInv, ConfigOK
    <2>8. NotBoundYet' /\ SharedOK' /\ NothingLeft' /\ StaleNeverBlocks'
      BY <2>4, <2>5, <1>1, ElsewhereKeeps DEF AtPath
    <2> QED BY <2>6, <2>7, <2>8 DEF StartupInv
  <1>7. CASE ~Parses(c.endpoint)
    <2>1. boot' = boot /\ cfg' = cfg /\ pc' = pc
      BY <1>2, <1>7
    <2>2. StartupTypeOK' /\ ConfigOK'
      BY <1>1, <2>1 DEF StartupInv, StartupTypeOK, ConfigOK
    <2>3. NotBoundYet' /\ SharedOK' /\ NothingLeft' /\ StaleNeverBlocks'
      BY <2>1, <1>1, ElsewhereKeeps DEF AtPath
    <2> QED BY <2>2, <2>3 DEF StartupInv
  <1> QED BY <1>6, <1>7

\* validate() lets a daemon go on or sends it off.
LEMMA ValidateStep ==
    ASSUME StartupInv, NEW d \in Daemon, Validate(d)
    PROVE  StartupInv'
  <1> DEFINE to == IF Valid(cfg[d]) THEN "ready" ELSE "off"
             l == IF Valid(cfg[d]) THEN boot[d] ELSE NoBoot
             c == IF Valid(cfg[d]) THEN cfg[d] ELSE Default
  <1>1. /\ pc[d] = "loaded" /\ sock' = sock /\ shared' = shared /\ dirty' = dirty
        /\ pc' = [pc EXCEPT ![d] = to] /\ boot' = [boot EXCEPT ![d] = l]
        /\ cfg' = [cfg EXCEPT ![d] = c]
    BY DEF Validate, hist, GoTo
  <1>2. /\ pc \in [Daemon -> {"off", "loaded", "ready"} \cup AtPath]
        /\ boot \in [Daemon -> Layers] /\ cfg \in [Daemon -> Config]
    BY DEF StartupInv, StartupTypeOK
  <1>3. to \in {"ready", "off"} /\ l \in Layers /\ c \in Config
    BY <1>2, Defaults
  <1>4. to = "ready" => Valid(cfg[d]) /\ l = boot[d] /\ c = cfg[d]
    OBVIOUS
  <1> HIDE DEF to, l, c
  <1>5. /\ pc' \in [Daemon -> {"off", "loaded", "ready"} \cup AtPath]
        /\ boot' \in [Daemon -> Layers] /\ cfg' \in [Daemon -> Config]
        /\ pc'[d] = to /\ boot'[d] = l /\ cfg'[d] = c
    BY <1>1, <1>2, <1>3
  <1>6. \A e \in Daemon \ {d} : pc'[e] = pc[e] /\ cfg'[e] = cfg[e] /\ boot'[e] = boot[e]
    BY <1>1, <1>2
  <1>7. StartupTypeOK'
    BY <1>1, <1>5 DEF StartupInv, StartupTypeOK
  <1>8. ConfigOK'
    BY <1>1, <1>3, <1>4, <1>5, <1>6 DEF StartupInv, ConfigOK
  <1>9. NotBoundYet' /\ SharedOK' /\ NothingLeft' /\ StaleNeverBlocks'
    BY <1>1, <1>3, <1>5, <1>6, ElsewhereKeeps DEF AtPath
  <1> QED BY <1>7, <1>8, <1>9 DEF StartupInv

\* path.exists(): d comes to its path, is marked when it is not alone there,
\* and marks the others.
LEMMA LookStep ==
    ASSUME StartupInv, NEW d \in Daemon, Look(d)
    PROVE  StartupInv'
  <1> DEFINE c == [Default EXCEPT !.endpoint = cfg[d].endpoint]
             to == IF OnUnix(d) /\ sock[PathOf(d)] # None THEN "unlink" ELSE "bind"
  <1>1. /\ pc[d] = "ready" /\ sock' = sock /\ dirty' = dirty
        /\ pc' = [pc EXCEPT ![d] = to] /\ boot' = [boot EXCEPT ![d] = NoBoot]
        /\ cfg' = [cfg EXCEPT ![d] = c]
        /\ shared' = [e \in Daemon |-> IF e = d THEN OnUnix(d) /\ At(PathOf(d)) # {}
                                  ELSE shared[e] \/ (OnUnix(d) /\ e \in At(PathOf(d)))]
    BY DEF Look, GoTo
  <1>2. /\ pc \in [Daemon -> {"off", "loaded", "ready"} \cup AtPath]
        /\ boot \in [Daemon -> Layers] /\ cfg \in [Daemon -> Config]
        /\ shared \in [Daemon -> BOOLEAN]
    BY DEF StartupInv, StartupTypeOK
  <1>3. cfg[d] \in Config /\ cfg[d].endpoint \in Endpoint /\ (OnUnix(d) => PathOf(d) \in Path)
    BY EndpointFacts DEF StartupInv
  <1>4. c \in Config /\ c.endpoint = cfg[d].endpoint
    BY <1>3, Defaults DEF Config
  <1>5. /\ to \in {"unlink", "bind"}
        /\ to = "bind" /\ OnUnix(d) => sock[PathOf(d)] = None
    OBVIOUS
  <1> HIDE DEF c, to
  <1>6. /\ pc' \in [Daemon -> {"off", "loaded", "ready"} \cup AtPath]
        /\ boot' \in [Daemon -> Layers] /\ cfg' \in [Daemon -> Config]
        /\ pc'[d] = to /\ cfg'[d] = c
    BY <1>1, <1>2, <1>4, <1>5, Defaults DEF AtPath
  <1>7. \A e \in Daemon \ {d} : pc'[e] = pc[e] /\ cfg'[e] = cfg[e] /\ boot'[e] = boot[e]
    BY <1>1, <1>2
  <1>8. shared' \in [Daemon -> BOOLEAN]
    BY <1>1, <1>2, Zenon
  <1>9. \A e \in Daemon \ {d} :
            /\ shared[e] => shared'[e]
            /\ OnUnix(d) /\ e \in At(PathOf(d)) => shared'[e] /\ shared'[d]
    BY <1>1, Zenon
  <1>10. OnUnix(d)' = OnUnix(d) /\ PathOf(d)' = PathOf(d)
    BY <1>4, <1>6 DEF OnUnix, PathOf
  <1>11. \A e \in Daemon \ {d} : OnUnix(e)' = OnUnix(e) /\ PathOf(e)' = PathOf(e)
    BY <1>7 DEF OnUnix, PathOf
  <1>12. StartupTypeOK'
    BY <1>1, <1>6, <1>8 DEF StartupInv, StartupTypeOK
  <1>13. ConfigOK'
    BY <1>5, <1>6, <1>7, ConfiguredKeeps
  <1>14. NotBoundYet'
    BY <1>1, <1>5, <1>6, <1>7, <1>10, <1>11, StartupConstants DEF StartupInv, NotBoundYet
  <1>15. SharedOK'
    <2> SUFFICES ASSUME NEW x \in Daemon, NEW y \in Daemon, x # y,
                        pc'[x] \in AtPath, pc'[y] \in AtPath, OnUnix(x)', OnUnix(y)',
                        PathOf(x)' = PathOf(y)'
                 PROVE  shared'[x] /\ shared'[y]
      BY DEF SharedOK
    <2>1. CASE x = d
      BY <2>1, <1>7, <1>9, <1>10, <1>11 DEF At, AtPath
    <2>2. CASE y = d
      BY <2>2, <1>7, <1>9, <1>10, <1>11 DEF At, AtPath
    <2>3. CASE x # d /\ y # d
      BY <2>3, <1>7, <1>9, <1>11 DEF StartupInv, SharedOK
    <2> QED BY <2>1, <2>2, <2>3
  <1>16. NothingLeft'
    <2> SUFFICES ASSUME NEW p \in Path, NEW e \in Daemon, sock[p] = e, e \notin At(p)'
                 PROVE  p \in dirty
      BY <1>1 DEF NothingLeft
    <2>1. e \notin At(p)
      BY <1>1, <1>6, <1>7, <1>11 DEF At
    <2> QED BY <2>1 DEF StartupInv, NothingLeft
  <1>17. StaleNeverBlocks'
    BY <1>1, <1>5, <1>6, <1>7, <1>9, <1>10, <1>11 DEF StartupInv, StaleNeverBlocks
  <1> QED BY <1>12, <1>13, <1>14, <1>15, <1>16, <1>17 DEF StartupInv

\* A daemon that goes off stops being at a path, and the socket it may have
\* there is gone with it or marked.
LEMMA OffStep ==
    ASSUME StartupInv, NEW d \in Daemon, Off(d),
           boot' \in [Daemon -> Layers],
           \A e \in Daemon \ {d} : boot'[e] = boot[e],
           shared' = shared, sock' \in [Path -> Daemon \cup {None}], dirty' \subseteq Path,
           \A p \in Path : sock'[p] # sock[p] => sock'[p] = None,
           \A p \in Path : sock'[p] # None /\ p \in dirty => p \in dirty',
           \A p \in Path : d \in At(p) /\ sock'[p] = d => p \in dirty'
    PROVE  StartupInv'
  <1>1. pc' = [pc EXCEPT ![d] = "off"] /\ cfg' = [cfg EXCEPT ![d] = Default]
    BY DEF Off, GoTo
  <1>2. /\ pc \in [Daemon -> {"off", "loaded", "ready"} \cup AtPath]
        /\ cfg \in [Daemon -> Config] /\ shared \in [Daemon -> BOOLEAN]
    BY DEF StartupInv, StartupTypeOK
  <1>3. /\ pc' \in [Daemon -> {"off", "loaded", "ready"} \cup AtPath]
        /\ cfg' \in [Daemon -> Config] /\ pc'[d] = "off"
    BY <1>1, <1>2, Defaults
  <1>4. \A e \in Daemon \ {d} : pc'[e] = pc[e] /\ cfg'[e] = cfg[e]
    BY <1>1, <1>2
  <1>5. \A e \in Daemon \ {d} : OnUnix(e)' = OnUnix(e) /\ PathOf(e)' = PathOf(e)
    BY <1>4 DEF OnUnix, PathOf
  <1>6. StartupTypeOK'
    BY <1>2, <1>3 DEF StartupTypeOK
  <1>7. ConfigOK'
    BY <1>3, <1>4, ConfiguredKeeps
  <1>8. \A e \in Daemon \ {d} : OnUnix(e) => PathOf(e) \in Path
    BY EndpointFacts DEF StartupInv
  <1>9. NotBoundYet'
    BY <1>3, <1>4, <1>5, <1>8, StartupConstants DEF StartupInv, NotBoundYet
  <1>10. SharedOK'
    BY <1>3, <1>4, <1>5 DEF StartupInv, SharedOK, AtPath
  <1>11. NothingLeft'
    <2> SUFFICES ASSUME NEW p \in Path, NEW e \in Daemon, sock'[p] = e, e \notin At(p)'
                 PROVE  p \in dirty'
      BY DEF NothingLeft
    <2>1. sock[p] = e /\ sock'[p] # None
      BY StartupConstants
    <2>2. CASE e = d
      BY <2>1, <2>2 DEF StartupInv, NothingLeft
    <2>3. CASE e # d
      <3>1. e \notin At(p)
        BY <2>3, <1>4, <1>5 DEF At
      <3> QED BY <2>1, <3>1 DEF StartupInv, NothingLeft
    <2> QED BY <2>2, <2>3
  <1>12. StaleNeverBlocks'
    BY <1>3, <1>4, <1>5, <1>8 DEF StartupInv, StaleNeverBlocks
  <1> QED BY <1>6, <1>7, <1>9, <1>10, <1>11, <1>12 DEF StartupInv

\* A daemon that goes on from one call at its path to the next keeps all but
\* what the call does to the socket: nothing, the file gone, or its own made
\* where there was none.
LEMMA OnStep ==
    ASSUME StartupInv, NEW d \in Daemon, NEW to \in AtPath, GoTo(d, to), pc[d] \in AtPath,
           cfg' = cfg, boot' = boot, shared' = shared,
           sock' \in [Path -> Daemon \cup {None}], dirty' \subseteq Path,
           \A p \in Path : sock'[p] # sock[p] =>
                \/ sock'[p] = None
                \/ sock'[p] = d /\ d \in At(p) /\ to = "bound",
           \A p \in Path : sock'[p] # None /\ p \in dirty => p \in dirty',
           to = "bind" /\ OnUnix(d) => sock'[PathOf(d)] = None
    PROVE  StartupInv'
  <1>1. pc' = [pc EXCEPT ![d] = to]
    BY DEF GoTo
  <1>2. /\ pc \in [Daemon -> {"off", "loaded", "ready"} \cup AtPath]
        /\ cfg \in [Daemon -> Config] /\ shared \in [Daemon -> BOOLEAN]
        /\ boot \in [Daemon -> Layers]
    BY DEF StartupInv, StartupTypeOK
  <1>3. /\ pc' \in [Daemon -> {"off", "loaded", "ready"} \cup AtPath] /\ pc'[d] = to
        /\ \A e \in Daemon \ {d} : pc'[e] = pc[e]
    BY <1>1, <1>2
  <1>4. \A e \in Daemon : OnUnix(e)' = OnUnix(e) /\ PathOf(e)' = PathOf(e)
    BY DEF OnUnix, PathOf
  <1>5. \A e \in Daemon : OnUnix(e) => PathOf(e) \in Path
    BY EndpointFacts DEF StartupInv
  <1>6. StartupTypeOK'
    BY <1>2, <1>3 DEF StartupTypeOK
  <1>7. ConfigOK'
    BY <1>3, ConfiguredKeeps DEF AtPath
  <1>8. NotBoundYet'
    <2> SUFFICES ASSUME NEW e \in Daemon, pc'[e] = "bind", OnUnix(e)
                 PROVE  sock'[PathOf(e)] # e
      BY <1>4 DEF NotBoundYet
    <2>1. CASE e = d
      BY <2>1, <1>3, StartupConstants
    <2>2. CASE e # d
      BY <2>2, <1>3, <1>5, StartupConstants DEF StartupInv, NotBoundYet
    <2> QED BY <2>1, <2>2
  <1>9. SharedOK'
    <2>1. \A e \in Daemon : pc'[e] \in AtPath => pc[e] \in AtPath
      BY <1>3
    <2> QED BY <2>1, <1>4 DEF StartupInv, SharedOK
  <1>10. \A p \in Path, e \in Daemon : e \in At(p) => e \in At(p)'
    BY <1>3, <1>4 DEF At, AtPath
  <1>11. NothingLeft'
    <2> SUFFICES ASSUME NEW p \in Path, NEW e \in Daemon, sock'[p] = e, e \notin At(p)'
                 PROVE  p \in dirty'
      BY DEF NothingLeft
    <2>1. e \notin At(p) /\ sock'[p] # None
      BY <1>10, StartupConstants
    <2>2. sock[p] = e
      BY <2>1
    <2> QED BY <2>1, <2>2 DEF StartupInv, NothingLeft
  <1>12. StaleNeverBlocks'
    <2> SUFFICES ASSUME NEW e \in Daemon, pc'[e] = "bind", OnUnix(e), ~shared[e]
                 PROVE  sock'[PathOf(e)] = None
      BY <1>4 DEF StaleNeverBlocks
    <2>1. CASE e = d
      BY <2>1, <1>3
    <2>2. CASE e # d
      <3>1. sock[PathOf(e)] = None /\ pc[e] \in AtPath
        BY <2>2, <1>3 DEF StartupInv, StaleNeverBlocks, AtPath
      <3>2. d \notin At(PathOf(e))
        BY <2>2, <3>1 DEF At, StartupInv, SharedOK
      <3> QED BY <1>5, <3>1, <3>2
    <2> QED BY <2>1, <2>2
  <1> QED BY <1>6, <1>7, <1>8, <1>9, <1>11, <1>12 DEF StartupInv

\* remove_file() takes the socket away; a file that is gone sends d off.
LEMMA UnlinkStep ==
    ASSUME StartupInv, NEW d \in Daemon, Unlink(d)
    PROVE  StartupInv'
  <1>1. /\ pc[d] = "unlink" /\ boot' = boot /\ shared' = shared
        /\ \/ sock[PathOf(d)] = None /\ Off(d) /\ sock' = sock /\ dirty' = dirty
           \/ Remove(PathOf(d)) /\ GoTo(d, "bind") /\ cfg' = cfg
    BY DEF Unlink
  <1>2. boot \in [Daemon -> Layers] /\ sock \in [Path -> Daemon \cup {None}] /\ dirty \subseteq Path
    BY DEF StartupInv, StartupTypeOK
  <1>3. OnUnix(d) => PathOf(d) \in Path
    BY EndpointFacts DEF StartupInv
  <1>4. CASE sock[PathOf(d)] = None /\ Off(d) /\ sock' = sock /\ dirty' = dirty
    <2>1. \A p \in Path : d \in At(p) => sock'[p] = None
      BY <1>4 DEF At
    <2> QED BY <1>1, <1>2, <1>4, <2>1, OffStep, StartupConstants
  <1>5. CASE Remove(PathOf(d)) /\ GoTo(d, "bind") /\ cfg' = cfg
    <2>1. sock' = [sock EXCEPT ![PathOf(d)] = None] /\ dirty' = dirty \ {PathOf(d)}
      BY <1>5 DEF Remove
    <2>2. /\ sock' \in [Path -> Daemon \cup {None}] /\ dirty' \subseteq Path
          /\ \A p \in Path : sock'[p] # sock[p] => sock'[p] = None
          /\ \A p \in Path : sock'[p] # None /\ p \in dirty => p \in dirty'
      BY <2>1, <1>2
    <2>3. OnUnix(d) => sock'[PathOf(d)] = None
      BY <2>1, <1>2, <1>3
    <2>4. "bind" \in AtPath /\ pc[d] \in AtPath
      BY <1>1 DEF AtPath
    <2>5. GoTo(d, "bind") /\ cfg' = cfg
      BY <1>5
    <2> HIDE <1>5
    <2> QED BY <1>1, <2>2, <2>3, <2>4, <2>5, OnStep
  <1> QED BY <1>1, <1>4, <1>5

\* bind() makes the socket where there is none, or sends d off, which has
\* made none.
LEMMA BindStep ==
    ASSUME StartupInv, NEW d \in Daemon, Bind(d)
    PROVE  StartupInv'
  <1>1. /\ pc[d] = "bind" /\ boot' = boot /\ shared' = shared /\ dirty' = dirty
        /\ \/ /\ sock' = IF OnUnix(d) THEN [sock EXCEPT ![PathOf(d)] = d] ELSE sock
              /\ GoTo(d, "bound") /\ cfg' = cfg
           \/ Off(d) /\ sock' = sock
    BY DEF Bind, hist
  <1>2. boot \in [Daemon -> Layers] /\ sock \in [Path -> Daemon \cup {None}] /\ dirty \subseteq Path
    BY DEF StartupInv, StartupTypeOK
  <1>3. OnUnix(d) => PathOf(d) \in Path
    BY EndpointFacts DEF StartupInv
  <1>4. CASE Off(d) /\ sock' = sock
    <2>1. \A p \in Path : d \in At(p) => sock'[p] # d
      BY <1>1, <1>4 DEF At, StartupInv, NotBoundYet
    <2> QED BY <1>1, <1>2, <1>4, <2>1, OffStep
  <1>5. CASE /\ sock' = IF OnUnix(d) THEN [sock EXCEPT ![PathOf(d)] = d] ELSE sock
             /\ GoTo(d, "bound") /\ cfg' = cfg
    <2>1. OnUnix(d) => d \in At(PathOf(d))
      BY <1>1 DEF At
    <2>2. /\ sock' \in [Path -> Daemon \cup {None}] /\ dirty' \subseteq Path
          /\ \A p \in Path : sock'[p] # sock[p] => sock'[p] = d /\ d \in At(p)
          /\ \A p \in Path : sock'[p] # None /\ p \in dirty => p \in dirty'
      BY <2>1, <1>1, <1>2, <1>5
    <2>4. "bound" \in AtPath /\ pc[d] \in AtPath
      BY <1>1 DEF AtPath
    <2> QED BY <1>1, <1>5, <2>2, <2>4, OnStep
  <1> QED BY <1>1, <1>4, <1>5

\* A daemon that goes off leaving its socket where it is marks the path.
LEMMA LeftFacts ==
    ASSUME StartupInv, NEW d \in Daemon, Left(d)
    PROVE  /\ dirty' \subseteq Path /\ dirty \subseteq dirty'
           /\ \A p \in Path : sock[p] = d => p \in dirty'
  BY DEF StartupInv, StartupTypeOK, Left

\* Mode and group.
LEMMA SecureStep ==
    ASSUME StartupInv, NEW d \in Daemon, Secure(d)
    PROVE  StartupInv'
  <1>1. /\ pc[d] = "bound" /\ boot' = boot /\ shared' = shared /\ sock' = sock
        /\ \/ GoTo(d, "serving") /\ cfg' = cfg /\ dirty' = dirty
           \/ Off(d) /\ Left(d)
    BY DEF Secure
  <1>2. boot \in [Daemon -> Layers] /\ sock \in [Path -> Daemon \cup {None}] /\ dirty \subseteq Path
    BY DEF StartupInv, StartupTypeOK
  <1>3. CASE GoTo(d, "serving") /\ cfg' = cfg /\ dirty' = dirty
    BY <1>1, <1>2, <1>3, OnStep DEF AtPath
  <1>4. CASE Off(d) /\ Left(d)
    BY <1>1, <1>2, <1>4, LeftFacts, OffStep
  <1> QED BY <1>1, <1>3, <1>4

\* Shutdown: what is at the path of d is gone with it.
LEMMA ExitStep ==
    ASSUME StartupInv, NEW d \in Daemon, Exit(d)
    PROVE  StartupInv'
  <1>1. /\ pc[d] = "serving" /\ boot' = boot /\ shared' = shared /\ Off(d)
        /\ IF OnUnix(d) THEN Remove(PathOf(d)) ELSE sock' = sock /\ dirty' = dirty
    BY DEF Exit
  <1>2. boot \in [Daemon -> Layers] /\ sock \in [Path -> Daemon \cup {None}] /\ dirty \subseteq Path
    BY DEF StartupInv, StartupTypeOK
  <1>3. /\ sock' \in [Path -> Daemon \cup {None}] /\ dirty' \subseteq Path
        /\ \A p \in Path : sock'[p] # sock[p] => sock'[p] = None
        /\ \A p \in Path : sock'[p] # None /\ p \in dirty => p \in dirty'
        /\ \A p \in Path : d \in At(p) => sock'[p] # d
    BY <1>1, <1>2, StartupConstants DEF Remove, At
  <1> QED BY <1>1, <1>2, <1>3, OffStep

\* A killed daemon leaves its socket.
LEMMA CrashStep ==
    ASSUME StartupInv, NEW d \in Daemon, Crash(d)
    PROVE  StartupInv'
  <1>1. /\ boot' = [boot EXCEPT ![d] = NoBoot] /\ shared' = shared /\ sock' = sock
        /\ Off(d) /\ Left(d)
    BY DEF Crash
  <1>2. boot \in [Daemon -> Layers] /\ sock \in [Path -> Daemon \cup {None}] /\ dirty \subseteq Path
    BY DEF StartupInv, StartupTypeOK
  <1>3. boot' \in [Daemon -> Layers] /\ \A e \in Daemon \ {d} : boot'[e] = boot[e]
    BY <1>1, <1>2, Defaults
  <1> QED BY <1>1, <1>2, <1>3, LeftFacts, OffStep

\* Nobody runs and there is no socket file.
LEMMA StartupInit == Init => StartupInv
  <1> SUFFICES ASSUME Init PROVE StartupInv
    OBVIOUS
  <1>1. \A d \in Daemon : pc[d] = "off"
    BY DEF Init
  <1>2. StartupTypeOK
    BY Defaults DEF Init, StartupTypeOK
  <1>3. ConfigOK /\ NotBoundYet /\ SharedOK /\ StaleNeverBlocks
    BY <1>1 DEF ConfigOK, NotBoundYet, SharedOK, StaleNeverBlocks, AtPath
  <1>4. NothingLeft
    BY StartupConstants DEF Init, NothingLeft
  <1> QED BY <1>2, <1>3, <1>4 DEF StartupInv

\* StartupInv holds in every state of every behaviour.
THEOREM StartupInvariant == Spec => []StartupInv
  <1>1. StartupInv /\ [Next]_vars => StartupInv'
    <2> SUFFICES ASSUME StartupInv, [Next]_vars PROVE StartupInv'
      OBVIOUS
    <2>1. CASE Next
      BY <2>1, LoadStep, ValidateStep, LookStep, UnlinkStep, BindStep, SecureStep, ExitStep,
         CrashStep DEF Next
    <2>2. CASE UNCHANGED vars
      <3>1. /\ pc' = pc /\ boot' = boot /\ cfg' = cfg /\ sock' = sock /\ shared' = shared
            /\ dirty' = dirty
        BY <2>2 DEF vars, hist
      <3> QED BY <3>1 DEF StartupInv, StartupTypeOK, ConfigOK, NotBoundYet, SharedOK, NothingLeft,
              StaleNeverBlocks, At, OnUnix, PathOf
    <2> QED BY <2>1, <2>2
  <1> QED BY <1>1, StartupInit, PTL DEF Spec

\* SocketCleanupGuard: a socket file without a daemon was left by one that was
\* killed or that failed before it had the guard.
THEOREM OnlyKilledLeave == Spec => []NothingLeft
  BY StartupInvariant, PTL DEF StartupInv

\* A socket file left behind keeps no daemon from binding that has the path to
\* itself.
THEOREM StaleSocketsReplaced == Spec => []StaleNeverBlocks
  BY StartupInvariant, PTL DEF StartupInv

\* The last of five settings that is given is the fifth, unless that is not
\* given, and so on; the first always is.
LEMMA LastGiven ==
    ASSUME NEW g1, NEW g2, NEW g3, NEW g4, NEW g5, g1 # None
    PROVE  LET given == <<g1, g2, g3, g4, g5>>
               last == CHOOSE i \in 1..5 : given[i] # None /\ \A j \in i+1..5 : given[j] = None
           IN  given[last] = Or(g5, Or(g4, Or(g3, Or(g2, g1))))
  <1> DEFINE given == <<g1, g2, g3, g4, g5>>
             IsLast(i) == given[i] # None /\ \A j \in i+1..5 : given[j] = None
             last == CHOOSE i \in 1..5 : IsLast(i)
  <1>1. given[1] = g1 /\ given[2] = g2 /\ given[3] = g3 /\ given[4] = g4 /\ given[5] = g5
    OBVIOUS
  <1> HIDE DEF given
  <1>2. \E i \in 1..5 : IsLast(i)
    <2>1. CASE g5 # None
      BY <2>1, <1>1
    <2>2. CASE g5 = None /\ g4 # None
      BY <2>2, <1>1
    <2>3. CASE g5 = None /\ g4 = None /\ g3 # None
      BY <2>3, <1>1
    <2>4. CASE g5 = None /\ g4 = None /\ g3 = None /\ g2 # None
      BY <2>4, <1>1
    <2>5. CASE g5 = None /\ g4 = None /\ g3 = None /\ g2 = None
      BY <2>5, <1>1
    <2> QED BY <2>1, <2>2, <2>3, <2>4, <2>5
  <1>3. last \in 1..5 /\ IsLast(last)
    <2> HIDE DEF IsLast
    <2> QED BY <1>2
  <1>4. given[last] = Or(g5, Or(g4, Or(g3, Or(g2, g1))))
    <2> HIDE DEF last
    <2>1. last = 1 \/ last = 2 \/ last = 3 \/ last = 4 \/ last = 5
      BY <1>3
    <2>2. CASE last = 1
      BY <2>2, <1>1, <1>3 DEF Or
    <2>3. CASE last = 2
      BY <2>3, <1>1, <1>3 DEF Or
    <2>4. CASE last = 3
      BY <2>4, <1>1, <1>3 DEF Or
    <2>5. CASE last = 4
      BY <2>5, <1>1, <1>3 DEF Or
    <2>6. CASE last = 5
      BY <2>6, <1>1, <1>3 DEF Or
    <2> QED BY <2>1, <2>2, <2>3, <2>4, <2>5, <2>6
  <1> QED BY <1>4 DEF given, last, IsLast

\* The command line's socket path, then its endpoint, then the same of the
\* file, then the default: config.rs applies the layers in this order.
LEMMA EndpointOrder ==
    ASSUME NEW f \in File \cup {NoFile}, NEW a \in Args
    PROVE  LET unix(p) == IF p = None THEN None ELSE UnixEndpoint(p)
           IN  FromSources(f, a).endpoint =
                 Or(unix(a.socket_path), Or(a.endpoint,
                    Or(unix(f.socket_path), Or(f.endpoint, Default.endpoint))))
  <1> DEFINE unix(p) == IF p = None THEN None ELSE UnixEndpoint(p)
  <1>1. \A p \in GivenPath \ {None} : UnixEndpoint(p) # None
    BY NoneIsNoEndpoint DEF GivenPath, Endpoint
  <1>2. \A layer, d : layer.socket_path \in GivenPath =>
            RawEndpoint(layer, d) = Or(unix(layer.socket_path), Or(layer.endpoint, d))
    BY <1>1 DEF RawEndpoint, Or
  <1>3. f.socket_path \in GivenPath /\ a.socket_path \in GivenPath
    BY LayerFields
  <1>4. FromSources(f, a).endpoint = RawEndpoint(a, RawEndpoint(f, Default.endpoint))
    BY FromSourcesFields
  <1>5. RawEndpoint(f, Default.endpoint) =
            Or(unix(f.socket_path), Or(f.endpoint, Default.endpoint))
    BY <1>2, <1>3
  <1>6. RawEndpoint(a, RawEndpoint(f, Default.endpoint)) =
            Or(unix(a.socket_path), Or(a.endpoint, RawEndpoint(f, Default.endpoint)))
    BY <1>2, <1>3
  <1> QED BY <1>4, <1>5, <1>6

\* Every daemon that is about to look at its socket runs as it was asked to:
\* the last endpoint given, on this host, the pair record check off only when
\* the file says so, and no invalid or malformed setting.
THEOREM ConfiguredAsAsked == Spec => []RunsAsAsked
  <1>1. StartupInv => RunsAsAsked
    <2> SUFFICES ASSUME StartupInv, NEW d \in Daemon, pc[d] = "ready"
                 PROVE
                    LET f == boot[d].file
                        a == boot[d].args
                        unix(p) == IF p = None THEN None ELSE UnixEndpoint(p)
                        given == <<Default.endpoint, f.endpoint, unix(f.socket_path),
                                   a.endpoint, unix(a.socket_path)>>
                        last == CHOOSE i \in 1..5 :
                                    given[i] # None /\ \A j \in i+1..5 : given[j] = None
                    IN  /\ cfg[d].endpoint = given[last]
                        /\ cfg[d].endpoint # Tcp(FALSE)
                        /\ ~cfg[d].require_pair_record => f.require_pair_record = FALSE
                        /\ cfg[d].max_clients > 0 /\ cfg[d].socket_mode = "good"
      BY DEF RunsAsAsked
    <2> DEFINE f == boot[d].file
               a == boot[d].args
               c == cfg[d]
               unix(p) == IF p = None THEN None ELSE UnixEndpoint(p)
               given == <<Default.endpoint, f.endpoint, unix(f.socket_path),
                          a.endpoint, unix(a.socket_path)>>
               last == CHOOSE i \in 1..5 :
                            given[i] # None /\ \A j \in i+1..5 : given[j] = None
    <2>1. /\ c = FromSources(f, a) /\ f \in File \cup {NoFile} /\ a \in Args
          /\ Parses(c.endpoint) /\ Valid(c)
      BY DEF StartupInv, ConfigOK
    <2>2. c \in Config /\ c.require_pair_record = Or(f.require_pair_record, TRUE)
      BY <2>1, FromSourcesFields
    <2>3. c.endpoint = given[last]
      <3>1. Default.endpoint # None
        BY DefaultEndpoint, NoneIsNoEndpoint
      <3>2. given[last] = Or(unix(a.socket_path), Or(a.endpoint,
                            Or(unix(f.socket_path), Or(f.endpoint, Default.endpoint))))
        <4> DEFINE g1 == Default.endpoint
                   g2 == f.endpoint
                   g3 == unix(f.socket_path)
                   g4 == a.endpoint
                   g5 == unix(a.socket_path)
                   list == <<g1, g2, g3, g4, g5>>
                   end == CHOOSE i \in 1..5 : list[i] # None /\ \A j \in i+1..5 : list[j] = None
        <4>1. list = given /\ end = last
          OBVIOUS
        <4>2. g1 # None
          BY <3>1
        <4> HIDE DEF g1, g2, g3, g4, g5, given, last
        <4>3. list[end] = Or(g5, Or(g4, Or(g3, Or(g2, g1))))
          BY <4>2, LastGiven
        <4> HIDE DEF list, end
        <4>4. given[last] = Or(g5, Or(g4, Or(g3, Or(g2, g1))))
          BY <4>1, <4>3
        <4> QED BY <4>4 DEF g1, g2, g3, g4, g5
      <3>3. c.endpoint = Or(unix(a.socket_path), Or(a.endpoint,
                            Or(unix(f.socket_path), Or(f.endpoint, Default.endpoint))))
        BY <2>1, EndpointOrder
      <3> QED BY <3>2, <3>3
    <2> HIDE DEF given, last, c
    <2>4. c.endpoint # Tcp(FALSE)
      BY <2>1 DEF Parses, Tcp
    <2>5. ~c.require_pair_record => f.require_pair_record = FALSE
      BY <2>1, <2>2, LayerFields DEF Or
    <2>6. c.max_clients > 0 /\ c.socket_mode = "good"
      BY <2>1, <2>2 DEF Valid, Config
    <2> QED BY <2>3, <2>4, <2>5, <2>6 DEF given, last, c
  <1> QED BY <1>1, StartupInvariant, PTL

-----------------------------------------------------------------------------
(* Supervisor.                                                             *)

\* Until start_all() has returned there is no watcher, and a service it has
\* still to start has no process in the table.
StartPhase ==
    /\ calls = 0 => /\ main = "idle" /\ watcher = "off" /\ fresh = NoService
                    /\ live = {} /\ \A s \in Service : proc[s] = 0
    /\ main = "starting" => /\ watcher = "off" /\ fresh = NoService
                            /\ \A s \in toStart : proc[s] = 0

\* A process in the table, and the one the watcher has started, is of the
\* service it is kept under.
OwnProcess ==
    /\ \A s \in Service : proc[s] # 0 => service[proc[s]] = s
    /\ watcher = "assign" => service[fresh[2]] = fresh[1]

\* The watcher's service: not yet started in its backoff, started and not in
\* the table when it is about to assign, and in both without a process that runs.
FreshOK ==
    /\ fresh # NoService => \/ watcher \in {"backoff", "assign"}
                            \/ main = "exited"
    /\ watcher \in {"backoff", "assign"} => fresh # NoService
    /\ watcher = "backoff" => fresh[2] = 0
    /\ watcher = "assign" => fresh[2] # 0
    /\ fresh # NoService => ~Running(fresh[1])

\* Every process that runs is in the table or is the watcher's.
Known ==
    \A p \in live : proc[service[p]] = p \/ fresh = <<service[p], p>>

\* From Terminate on every service is marked; from Kill on at most one process
\* runs, and none as long as the watcher may still start one.
StopPhase ==
    /\ main \in {"waiting", "killing", "stopped", "exited"} =>
        \A s \in Service : stopping[s]
    /\ main \in {"stopped", "exited"} =>
        /\ \A p, q \in live : p = q
        /\ watcher = "backoff" => live = {}
    /\ main = "exited" => watcher = "off"

\* The inductive invariant.
SupervisorInv ==
    /\ SupervisorTypeOK /\ StartPhase /\ OwnProcess /\ FreshOK /\ Known /\ StopPhase

\* A process number stays a process number, with its service, when another
\* process is started.
LEMMA PopenTypes ==
    ASSUME service \in Seq(Service), NEW s \in Service, Popen(s)
    PROVE  /\ service' \in Seq(Service) /\ Len(service') = Len(service) + 1
           /\ DOMAIN service = 1..Len(service) /\ DOMAIN service' = 1..(Len(service) + 1)
           /\ service'[Len(service) + 1] = s
           /\ \A p \in 1..Len(service) : service'[p] = service[p]
           /\ live' = live \cup {Len(service) + 1}
           /\ UNCHANGED <<told, exits>>
  BY DEF Popen

\* What the steps need of the types: numbers of processes and the watcher's pair.
LEMMA SupervisorTyped ==
    ASSUME SupervisorInv
    PROVE  /\ service \in Seq(Service) /\ Len(service) \in Nat
           /\ live \subseteq 1..Len(service)
           /\ \A p \in live : service[p] \in Service
           /\ \A s \in Service : proc[s] \in 0..Len(service)
           /\ fresh # NoService => /\ fresh = <<fresh[1], fresh[2]>>
                                   /\ fresh[1] \in Service
                                   /\ fresh[2] \in 0..Len(service)
           /\ watcher \in {"backoff", "assign"} => fresh # NoService
  BY DEF SupervisorInv, SupervisorTypeOK, FreshOK

\* A new process is none that the table or the watcher knew, and one that a
\* thread looked at before keeps its service and does not begin to run.
LEMMA PopenIsNew ==
    ASSUME SupervisorInv, NEW s \in Service, Popen(s)
    PROVE  /\ Len(service) + 1 \notin live
           /\ \A t \in Service : proc[t] # Len(service) + 1
           /\ fresh # NoService => fresh[2] # Len(service) + 1
           /\ \A t \in Service : proc[t] \in live' <=> proc[t] \in live
           /\ \A t \in Service : proc[t] # 0 => service'[proc[t]] = service[proc[t]]
           /\ \A p \in live : service'[p] = service[p]
  BY SupervisorTyped, PopenTypes

\* The session's steps that start no process and end none.
LEMMA QuietMainKeepsInv ==
    ASSUME SupervisorInv, StartCalls = 1,
           StartAll \/ StartWatcher \/ SetShutdown \/ Terminate \/ WaitOver
    PROVE  SupervisorInv'
  <1> USE SupervisorConstants DEF mainVars, watcherVars, osVars
  <1>0. UNCHANGED <<proc, service, live, fresh, queue, exits>>
    BY DEF StartAll, StartWatcher, SetShutdown, Terminate, WaitOver
  <1>1. SupervisorTypeOK'
    <2>1. {proc[s] : s \in {t \in Service : Running(t)}} \subseteq DOMAIN service
      BY DEF SupervisorInv, SupervisorTypeOK, Running
    <2>2. CASE StartAll
      BY <1>0, <2>2 DEF SupervisorInv, SupervisorTypeOK, StartAll
    <2>3. CASE StartWatcher
      BY <1>0, <2>3 DEF SupervisorInv, SupervisorTypeOK, StartWatcher
    <2>4. CASE SetShutdown \/ WaitOver
      BY <1>0, <2>4 DEF SupervisorInv, SupervisorTypeOK, SetShutdown, WaitOver
    <2>5. CASE Terminate
      BY <1>0, <2>1, <2>5 DEF SupervisorInv, SupervisorTypeOK, Terminate
    <2> QED
      BY <2>2, <2>3, <2>4, <2>5
  <1>2. StartPhase'
    BY <1>0 DEF SupervisorInv, SupervisorTypeOK, StartPhase, StartAll, StartWatcher,
                SetShutdown, Terminate, WaitOver
  <1>3. OwnProcess'
    BY <1>0 DEF SupervisorInv, OwnProcess, StartAll, StartWatcher, SetShutdown, Terminate, WaitOver
  <1>4. FreshOK'
    BY <1>0 DEF SupervisorInv, FreshOK, StartPhase, Running, StartAll, StartWatcher, SetShutdown,
                Terminate, WaitOver
  <1>5. Known'
    BY <1>0 DEF SupervisorInv, Known
  <1>6. StopPhase'
    BY <1>0 DEF SupervisorInv, StopPhase, StartAll, StartWatcher, SetShutdown, Terminate, WaitOver
  <1> QED
    BY <1>1, <1>2, <1>3, <1>4, <1>5, <1>6 DEF SupervisorInv

\* start_all() starts a service that has no process yet.
LEMMA StartOneKeepsInv ==
    ASSUME SupervisorInv, NEW s \in Service, StartOne(s)
    PROVE  SupervisorInv'
  <1> USE SupervisorConstants DEF mainVars, watcherVars, osVars
  <1>0. /\ main = "starting" /\ main' = "starting" /\ toStart' = toStart \ {s}
        /\ watcher = "off" /\ fresh = NoService /\ proc[s] = 0
        /\ UNCHANGED <<calls, stopping, shutdown, watcher, queue, fresh>>
    BY DEF StartOne, SupervisorInv, StartPhase
  <1>1. CASE UNCHANGED osVars /\ proc' = [proc EXCEPT ![s] = 0]
    <2>1. proc' = proc
      BY <1>0, <1>1 DEF SupervisorInv, SupervisorTypeOK
    <2> QED
      BY <1>0, <1>1, <2>1 DEF SupervisorInv, SupervisorTypeOK, StartPhase, OwnProcess, FreshOK,
                              Known, StopPhase, Running
  <1>2. CASE Popen(s) /\ proc' = [proc EXCEPT ![s] = Len(service) + 1]
    <2>1. /\ service' \in Seq(Service) /\ Len(service') = Len(service) + 1
          /\ DOMAIN service = 1..Len(service) /\ DOMAIN service' = 1..(Len(service) + 1)
          /\ service'[Len(service) + 1] = s
          /\ live' = live \cup {Len(service) + 1}
          /\ UNCHANGED <<told, exits>>
      BY <1>2, PopenTypes, SupervisorTyped
    <2>2. /\ proc'[s] = Len(service) + 1
          /\ \A t \in Service \ {s} : proc'[t] = proc[t]
          /\ proc' \in [Service -> 0..(Len(service) + 1)]
      BY <1>2 DEF SupervisorInv, SupervisorTypeOK
    <2>3. SupervisorTypeOK'
      BY <1>0, <2>1, <2>2 DEF SupervisorInv, SupervisorTypeOK
    <2>4. StartPhase'
      BY <1>0, <2>2 DEF SupervisorInv, StartPhase, SupervisorTypeOK
    <2>5. OwnProcess'
      BY <1>0, <1>2, <2>1, <2>2, PopenIsNew DEF SupervisorInv, OwnProcess
    <2>6. FreshOK'
      BY <1>0 DEF SupervisorInv, FreshOK
    <2>7. Known'
      <3> SUFFICES ASSUME NEW p \in live' PROVE proc'[service'[p]] = p
        BY DEF Known
      <3>1. CASE p = Len(service) + 1
        BY <2>1, <2>2, <3>1
      <3>2. CASE p \in live
        <4>1. service'[p] = service[p] /\ service[p] \in Service /\ p # 0
          BY <1>2, <3>2, PopenIsNew, SupervisorTyped
        <4>2. proc[service[p]] = p
          BY <1>0, <3>2 DEF SupervisorInv, Known, NoService
        <4> QED
          BY <1>0, <2>2, <4>1, <4>2
      <3> QED
        BY <2>1, <3>1, <3>2
    <2>8. StopPhase'
      BY <1>0 DEF SupervisorInv, StopPhase
    <2> QED
      BY <2>3, <2>4, <2>5, <2>6, <2>7, <2>8 DEF SupervisorInv
  <1> QED
    BY <1>1, <1>2 DEF StartOne, Found

\* kill() ends the processes in the table: what is left is the watcher's.
LEMMA KillKeepsInv == SupervisorInv /\ Kill => SupervisorInv'
  <1> SUFFICES ASSUME SupervisorInv, Kill PROVE SupervisorInv'
    OBVIOUS
  <1> USE DEF mainVars, watcherVars, osVars
  <1>0. /\ main = "killing" /\ main' = "stopped" /\ live' = live \ {proc[s] : s \in Service}
        /\ UNCHANGED <<calls, toStart, stopping, shutdown, watcher, queue, fresh, service, told,
                       exits, proc>>
    BY DEF Kill
  <1>1. \A p \in live' : p \in live /\ fresh = <<service[p], p>>
    BY <1>0, SupervisorTyped DEF SupervisorInv, Known
  <1>2. SupervisorTypeOK'
    BY <1>0 DEF SupervisorInv, SupervisorTypeOK
  <1>3. StartPhase' /\ OwnProcess' /\ Known' /\ FreshOK'
    BY <1>0, <1>1 DEF SupervisorInv, StartPhase, OwnProcess, Known, FreshOK, Running
  <1>4. StopPhase'
    <2>1. \A p \in live' : fresh[2] = p /\ p # 0
      BY <1>1, SupervisorTyped
    <2>2. /\ \A p, q \in live' : p = q
          /\ watcher = "backoff" => live' = {}
      BY <2>1 DEF SupervisorInv, FreshOK
    <2> QED
      BY <1>0, <2>2 DEF SupervisorInv, StopPhase
  <1> QED
    BY <1>2, <1>3, <1>4 DEF SupervisorInv

\* The interpreter ends, the watcher with it; a process may exit at any time.
LEMMA ExitKeepsInv ==
    ASSUME SupervisorInv, InterpreterExit \/ \E p \in live : Exits(p)
    PROVE  SupervisorInv'
  <1> USE SupervisorConstants DEF mainVars, watcherVars, osVars
  <1>1. CASE InterpreterExit
    <2>1. /\ main = "stopped" /\ main' = "exited" /\ watcher' = "off"
          /\ UNCHANGED <<calls, toStart, stopping, shutdown, queue, fresh, service, live, told,
                         exits, proc>>
      BY <1>1 DEF InterpreterExit
    <2> QED
      BY <2>1 DEF SupervisorInv, SupervisorTypeOK, StartPhase, OwnProcess, Known, FreshOK,
                  StopPhase, Running
  <1>2. ASSUME NEW p \in live, Exits(p) PROVE SupervisorInv'
    <2>1. /\ live' = live \ {p} /\ (exits' = exits \/ (exits < MaxExit /\ exits' = exits + 1))
          /\ UNCHANGED <<main, calls, toStart, stopping, shutdown, watcher, queue, fresh,
                         service, told, proc>>
      BY <1>2 DEF Exits
    <2>2. SupervisorTypeOK'
      BY <2>1 DEF SupervisorInv, SupervisorTypeOK
    <2> QED
      BY <2>1, <2>2 DEF SupervisorInv, StartPhase, OwnProcess, Known, FreshOK, StopPhase, Running
  <1> QED
    BY <1>1, <1>2

\* The watcher's steps that start no process.
LEMMA QuietWatcherKeepsInv ==
    ASSUME SupervisorInv, BeginTurn \/ EndTurn \/ \E s \in Service : LookAt(s)
    PROVE  SupervisorInv'
  <1> USE DEF mainVars, watcherVars, osVars
  <1>1. CASE BeginTurn \/ EndTurn
    <2>1. /\ watcher \in {"turn", "look"} /\ watcher' \in {"off", "turn", "look"}
          /\ queue' \in {queue, Service}
          /\ main # "exited"
          /\ UNCHANGED <<main, calls, toStart, stopping, shutdown, fresh, service, live, told,
                         exits, proc>>
      BY <1>1 DEF BeginTurn, EndTurn, SupervisorInv, StopPhase
    <2> QED
      BY <2>1 DEF SupervisorInv, SupervisorTypeOK, StartPhase, OwnProcess, Known, FreshOK,
                  StopPhase, Running
  <1>2. ASSUME NEW s \in Service, LookAt(s) PROVE SupervisorInv'
    <2>1. /\ watcher = "look" /\ queue' \subseteq queue /\ fresh = NoService
          /\ main \notin {"starting", "exited"} /\ calls # 0
          /\ UNCHANGED <<main, calls, toStart, stopping, shutdown, service, live, told,
                         exits, proc>>
      BY <1>2 DEF LookAt, SupervisorInv, StopPhase, StartPhase, FreshOK
    <2>2. CASE UNCHANGED <<watcher, fresh>>
      BY <2>1, <2>2 DEF SupervisorInv, SupervisorTypeOK, StartPhase, OwnProcess, Known, FreshOK,
                        StopPhase, Running
    <2>3. CASE watcher' = "backoff" /\ fresh' = <<s, 0>> /\ ~NeedsNoRestart(s)
      <3>1. fresh' # NoService /\ fresh'[1] = s /\ fresh'[2] = 0
        BY <2>3 DEF NoService
      <3>2. main \notin {"waiting", "killing", "stopped", "exited"}
        BY <2>1, <2>3 DEF SupervisorInv, StopPhase, NeedsNoRestart
      <3>3. SupervisorTypeOK'
        BY <2>1, <2>3 DEF SupervisorInv, SupervisorTypeOK
      <3>4. FreshOK'
        BY <2>1, <2>3, <3>1 DEF FreshOK, NeedsNoRestart, Running
      <3>5. Known'
        <4> SUFFICES ASSUME NEW p \in live PROVE proc[service[p]] = p
          BY <2>1 DEF Known
        <4> QED
          BY <2>1 DEF SupervisorInv, Known, NoService
      <3>6. StartPhase' /\ OwnProcess' /\ StopPhase'
        BY <2>1, <2>3, <3>2 DEF SupervisorInv, StartPhase, OwnProcess, StopPhase
      <3> QED
        BY <3>3, <3>4, <3>5, <3>6 DEF SupervisorInv
    <2> QED
      BY <1>2, <2>2, <2>3 DEF LookAt
  <1> QED
    BY <1>1, <1>2

\* The watcher starts the process of a service none of whose processes runs.
LEMMA RespawnKeepsInv == SupervisorInv /\ Respawn => SupervisorInv'
  <1> SUFFICES ASSUME SupervisorInv, Respawn PROVE SupervisorInv'
    OBVIOUS
  <1> USE DEF mainVars, watcherVars, osVars
  <1> DEFINE s == fresh[1]
             n == Len(service) + 1
  <1>0. /\ watcher = "backoff" /\ s \in Service /\ fresh = <<s, 0>> /\ proc[s] \notin live
        /\ fresh # NoService /\ main \notin {"starting", "exited"} /\ calls # 0
        /\ UNCHANGED <<queue, main, calls, toStart, stopping, shutdown>>
    BY SupervisorTyped DEF Respawn, SupervisorInv, StopPhase, StartPhase, FreshOK, Running
  <1>1. \A p \in live : proc[service[p]] = p /\ p # 0 /\ service[p] # s
    BY <1>0, SupervisorTyped DEF SupervisorInv, Known
  <1>2. CASE Popen(s) /\ fresh' = <<s, n>> /\ watcher' = "assign" /\ UNCHANGED proc
    <2>1. /\ service' \in Seq(Service) /\ Len(service') = n /\ n \in Nat \ {0}
          /\ DOMAIN service = 1..Len(service) /\ DOMAIN service' = 1..n
          /\ service'[n] = s
          /\ live' = live \cup {n}
          /\ UNCHANGED <<told, exits>>
      BY <1>0, <1>2, PopenTypes, SupervisorTyped
    <2>2. fresh' # NoService /\ fresh'[1] = s /\ fresh'[2] = n
      BY <1>2 DEF NoService
    <2>3. SupervisorTypeOK'
      BY <1>0, <1>2, <2>1 DEF SupervisorInv, SupervisorTypeOK
    <2>4. StartPhase'
      BY <1>0, <1>2 DEF StartPhase
    <2>5. OwnProcess'
      BY <1>0, <1>2, <2>1, <2>2, PopenIsNew DEF SupervisorInv, OwnProcess
    <2>6. FreshOK'
      BY <1>0, <1>2, <2>1, <2>2, PopenIsNew DEF FreshOK, Running
    <2>7. Known'
      BY <1>0, <1>1, <1>2, <2>1, PopenIsNew DEF Known
    <2>8. StopPhase'
      BY <1>0, <1>2, <2>1 DEF SupervisorInv, StopPhase
    <2> QED
      BY <2>3, <2>4, <2>5, <2>6, <2>7, <2>8 DEF SupervisorInv
  <1>3. CASE proc' = [proc EXCEPT ![s] = 0] /\ watcher' = "look" /\ fresh' = NoService
             /\ UNCHANGED osVars
    <2>1. /\ proc'[s] = 0 /\ \A t \in Service \ {s} : proc'[t] = proc[t]
          /\ proc' \in [Service -> 0..Len(service)]
      BY <1>0, <1>3, SupervisorTyped DEF SupervisorInv, SupervisorTypeOK
    <2>2. SupervisorTypeOK'
      BY <1>0, <1>3, <2>1 DEF SupervisorInv, SupervisorTypeOK
    <2>3. StartPhase' /\ OwnProcess' /\ FreshOK' /\ StopPhase'
      BY <1>0, <1>3, <2>1 DEF SupervisorInv, StartPhase, OwnProcess, FreshOK, StopPhase
    <2>4. Known'
      BY <1>0, <1>1, <1>3, <2>1, SupervisorTyped DEF Known
    <2> QED
      BY <2>2, <2>3, <2>4 DEF SupervisorInv
  <1> QED
    BY <1>2, <1>3 DEF Respawn, Found

\* The watcher puts its process into the table.
LEMMA AssignKeepsInv == SupervisorInv /\ Assign => SupervisorInv'
  <1> SUFFICES ASSUME SupervisorInv, Assign PROVE SupervisorInv'
    OBVIOUS
  <1> USE DEF mainVars, watcherVars, osVars
  <1> DEFINE s == fresh[1]
             n == fresh[2]
  <1>0. /\ watcher = "assign" /\ s \in Service /\ fresh = <<s, n>> /\ n \in 0..Len(service)
        /\ proc[s] \notin live /\ service[n] = s
        /\ fresh # NoService /\ main \notin {"starting", "exited"} /\ calls # 0
        /\ watcher' = "look" /\ fresh' = NoService
        /\ UNCHANGED <<queue, main, calls, toStart, stopping, shutdown, service, live, told, exits>>
    BY SupervisorTyped DEF Assign, SupervisorInv, OwnProcess, StopPhase, StartPhase, FreshOK, Running
  <1>1. /\ proc'[s] = n /\ \A t \in Service \ {s} : proc'[t] = proc[t]
        /\ proc' \in [Service -> 0..Len(service)]
    BY <1>0 DEF Assign, SupervisorInv, SupervisorTypeOK
  <1>2. SupervisorTypeOK'
    BY <1>0, <1>1 DEF SupervisorInv, SupervisorTypeOK
  <1>3. StartPhase' /\ OwnProcess' /\ FreshOK' /\ StopPhase'
    BY <1>0, <1>1 DEF SupervisorInv, StartPhase, OwnProcess, FreshOK, StopPhase
  <1>4. Known'
    <2> SUFFICES ASSUME NEW p \in live PROVE proc'[service[p]] = p
      BY <1>0 DEF Known
    <2>1. service[p] \in Service /\ (proc[service[p]] = p \/ fresh = <<service[p], p>>)
      BY SupervisorTyped DEF SupervisorInv, Known
    <2> QED
      BY <1>0, <1>1, <2>1
  <1> QED
    BY <1>2, <1>3, <1>4 DEF SupervisorInv

\* The invariant holds at the start and every step keeps it.
LEMMA SupervisorInvInductive ==
    ASSUME StartCalls = 1
    PROVE  /\ SupervisorInit => SupervisorInv
           /\ SupervisorInv /\ [SupervisorNext]_supervisorVars => SupervisorInv'
  <1>1. SupervisorInit => SupervisorInv
    <2> SUFFICES ASSUME SupervisorInit PROVE SupervisorInv
      OBVIOUS
    <2>1. service \in Seq(Service) /\ Len(service) = 0 /\ DOMAIN service = {}
      BY DEF SupervisorInit
    <2>2. SupervisorTypeOK
      <3>1. /\ main = "idle" /\ toStart = {} /\ shutdown \in BOOLEAN
            /\ watcher = "off" /\ queue = {} /\ live = {} /\ told = {} /\ calls = 0 /\ exits = 0
        BY Zenon DEF SupervisorInit
      <3>4. calls \in 0..StartCalls /\ exits \in 0..MaxExit
        BY <3>1, SupervisorConstants
      <3>2. fresh \in {NoService} \cup (Service \X (0..Len(service)))
        BY DEF SupervisorInit
      <3>3. proc \in [Service -> 0..Len(service)] /\ stopping \in [Service -> BOOLEAN]
        BY <2>1 DEF SupervisorInit
      <3> QED
        BY <2>1, <3>1, <3>2, <3>3, <3>4 DEF SupervisorTypeOK
    <2>3. StartPhase /\ OwnProcess /\ FreshOK /\ Known /\ StopPhase
      BY DEF SupervisorInit, StartPhase, OwnProcess, FreshOK, Known, StopPhase
    <2> QED
      BY <2>2, <2>3 DEF SupervisorInv
  <1>2. SupervisorInv /\ UNCHANGED supervisorVars => SupervisorInv'
    BY DEF supervisorVars, mainVars, watcherVars, osVars, SupervisorInv, SupervisorTypeOK,
       StartPhase, OwnProcess, FreshOK, Known, StopPhase, Running
  <1> QED
    BY <1>1, <1>2, QuietMainKeepsInv, StartOneKeepsInv, KillKeepsInv, ExitKeepsInv,
       QuietWatcherKeepsInv, RespawnKeepsInv, AssignKeepsInv
       DEF SupervisorNext, MainStep, WatcherStep

\* Whatever exits and whenever, with one start_all() (StartCalls = 1: the
\* session's own supervisor), no service runs twice, and every process that runs
\* is in the table or is the one the watcher is about to put there.
THEOREM SupervisorTracks ==
    ASSUME StartCalls = 1
    PROVE  SupervisorSpec => []ProcessesTracked
  <1>1. SupervisorInv => ProcessesTracked
    <2> SUFFICES ASSUME SupervisorInv, NEW p \in live, fresh = <<service[p], p>>
                 PROVE  ~Running(service[p])
      BY DEF SupervisorInv, Known, ProcessesTracked
    <2>1. fresh # NoService /\ fresh[1] = service[p]
      BY DEF NoService
    <2> QED
      BY <2>1 DEF SupervisorInv, FreshOK
  <1> QED
    BY <1>1, SupervisorInvInductive, PTL DEF SupervisorSpec

\* When stop_all() has returned at most one process is left, whatever the
\* watcher was doing, and however many services there are.
THEOREM SupervisorStops ==
    ASSUME StartCalls = 1
    PROVE  SupervisorSpec => []OneSurvivor
  <1>1. SupervisorInv => OneSurvivor
    <2> SUFFICES ASSUME SupervisorInv, main \in {"stopped", "exited"}
                 PROVE  Cardinality(live) <= 1
      BY DEF OneSurvivor
    <2>1. \A p, q \in live : p = q
      BY DEF SupervisorInv, StopPhase
    <2>2. CASE live = {}
      BY <2>2, FS_EmptySet
    <2>3. ASSUME NEW p \in live PROVE Cardinality(live) <= 1
      <3>1. live = {p}
        BY <2>1
      <3> QED
        BY <3>1, FS_Singleton
    <2> QED
      BY <2>2, <2>3
  <1> QED
    BY <1>1, SupervisorInvInductive, PTL DEF SupervisorSpec
=============================================================================
