# TLA+ models of ius

The repository holds **meridian-relay**, a Rust replacement for `usbmuxd`/`usbipd`
(`src/meridian-relay`), **meridian-py**, the Python orchestrator that starts the
services around it (`src/meridian-py`), and **probe**, a Swift app that captures
the phone's screen (`src/probe`). The models here are about the daemon, where the
hard behaviour is, and about the orchestrator's process supervisor.

Run everything from this directory: `tlc -config X.cfg M`, `tlapm M.tla`.
`PROJECT.json` has the list of runs, the source lines of every definition, the
hazards, the findings, the mutants and the theorems.

## 1. The system

### The daemon's threads of control

| who | code | state it owns or shares |
|---|---|---|
| scan loop, one | `daemon/mod.rs`, `daemon/device_scanner.rs` | table of known devices, miss counters, `next_id` |
| USB reader thread, one per open phone | `daemon/usb.rs` | an `Arc` of the claimed interface, the sending end of the USB channel |
| device task, one per open phone | `daemon/device_manager.rs` | the packet reassembler; the receiving ends of the USB, data and connect channels |
| connect handler, one per `Connect` | `daemon/device_manager.rs` | an entry of the connection table until the connect is answered |
| client task, one per client | `daemon/connection.rs` | the client's socket and a permit; after `Connect` it becomes the proxy of one connection |
| accept loop, one | `daemon/mod.rs`, `daemon/relay.rs` | the semaphore of `max_clients` |

They share `ConnectionManager` (the `conn_mgr` lock: for every device, its
connections by source port, the mux version and `tx_seq`), `DeviceManager.devices`
(per device the two channel senders) and the scanner. They talk through bounded
channels: reader → task (frames), proxies → task (`MuxOutMsg`), clients → task
(`ConnectRequest`), and through the `Notify` of each connection, with which the
device task wakes the proxy. The scan loop broadcasts `Attached`/`Detached`
events to clients in `Listen`.

### Components, state and operations

* **USB scanner.** `devices`, `miss_counts`, `next_id`; one operation, `scan()`.
  Correct when: a port is debounced (`DETACH_AFTER_MISSES` misses in a row), an id
  is never used twice, and the order of the changes can be followed by a listener.
* **Packet reassembler.** One byte buffer; `feed()`. Correct when the packets do not
  depend on how USB transfers cut the stream, the buffer is bounded, and a corrupt
  length is skipped and never waited for.
* **TCP-over-USB stack.** The connection table and the protocol around it: connect
  (SYN, SYN-ACK, RST, timeout), relay down (append, drain, write, window update),
  relay up (`MuxOutMsg`), close by client or phone, teardown by a USB disconnect or a
  detach. Correct when connections are not mixed up, no accepted byte is lost, buffers
  are capped, the window reopens, every request is answered and every proxy ends.
* **v2 frame numbering.** `version`, `tx_seq`, shared by device task and handlers.
* **Device lifecycle.** Scanner table, manager table, connection table and the USB
  handle of one phone through plugging in and out: `add_device`, `remove_device`,
  `handle_usb_disconnect`, reconciling. Correct when the tables agree, a handle is
  released when its phone leaves, and a plugged-in phone is managed in the end.
* **Frame encoding.** `build_mux_frame` and its callers, `parse_packet`. Correct when
  what is built is what is parsed, in both framings.
* **Client sessions.** Accept loop, permits and gauges, `ListDevices`, `Listen` over a
  bounded broadcast channel, `Connect` with its checks, `MeridianStats`; the relay
  backend's splice. Correct when permits and gauges match the tasks and come back, a
  listener can keep an exact view, lockdown connections need their record, and no
  session stops the scan loop.
* **Pair records and BUID.** Files under raw and dashed names, written by truncation.
  Correct when damage is confined, lookups are exact, deletes remove and the BUID settles.
* **Configuration and daemon start.** Defaults, file and command line; the socket file
  that successive and concurrent daemons share. Correct when the daemon runs as asked,
  cleans up and is never blocked by what another left.
* **Lockdown client.** Requests without numbers over one stream with a deadline.
  Correct when late answers do bounded damage, TLS is kept once agreed, and it ends.
* **Tunnel, device monitor, counters, service glue.** Not modelled, see section 6.
* **Python supervisor and runner.** A table of subprocesses, the main thread
  (`start_all`, `stop_all`) and the watcher that restarts what exits.
* **Python registry and watcher, streaming clients, sideloading, probe app.**

### What is hard

Interleavings at every release of `conn_mgr` (checked state is stale when used:
the buffer is found empty, the lock released, and only then the wait begun);
frames that are built under a lock and sent after it; source ports that are
reused while phone and queues still hold traffic of their last user; two ways
to tear a phone down that overlap (USB disconnect seen by the task, detach decided
by the scan loop); handles kept by threads that outlive their table entry; flaps
and quick replugging; length fields, buffer caps and 16-bit counters at their
edges; a restart that races a shutdown; files and sockets that several tasks or
daemons use without a lock; a late answer taken for another; a lock held during a
write to a peer that does not read. `PROJECT.json` lists each with its line.

## 2. Modules and their code

| module | models | notes |
|---|---|---|
| `PortDebounce` | what the scanner promises, port by port | abstract specification |
| `DeviceScanner` | `device_scanner.rs` `scan`, `diff_devices`; the broadcast in `mod.rs` | implements `PortDebounce` |
| `Reassembler` | `mux.rs` `PacketReassembler::feed` | one step per turn of the loop |
| `BytePipe` | what the relay promises each client | abstract specification |
| `MuxConnections` | `mux.rs` `ConnectionManager`, `device_manager.rs` task and connect handlers, `connection.rs` `Connect` and the proxies | the core; implements `BytePipe` |
| `MCMuxConnections` | symmetry of the attempts | |
| `MuxWire` | the bytes of a frame: the build functions and `parse_packet` of `mux.rs` | operators only |
| `MuxFrameSeq` | version negotiation, every use of `tx_seq` | build and send are separate steps; extends `MuxWire` |
| `ClientSessions` | accept loops, command loop, scan loop, `Listen`, the checks of `Connect`, relay backend | composes the scanner's table, the manager's table and the event channel |
| `MCClientSessions` | the peers of the run | |
| `PairStore` | `connection.rs` pair records and BUID, `platform/unix.rs` `secure_write_secret` | one step per file system call |
| `MCPairStore` | two records of different length, symmetry | |
| `LockdownClient` | `device/lockdown.rs`, `device/info.rs` | the phone is external |
| `MCLockdownClient` | the keys of the run | |
| `DaemonStartup` | `config.rs`, `main.rs`, `Endpoint`, socket file in `mod.rs`, `relay.rs`, `security.rs` | |
| `DeviceLifecycle` | scan loop, `add_device`, `remove_device`, `handle_usb_disconnect`, `read_worker` | one phone, several pluggings in |
| `Supervisor` | `supervisor.py` and the end of a session in `runner.py` | |
| `DeviceScannerProofs`, `MuxConnectionsProofs`, `DeviceLifecycleProofs`, `ClientSessionsProofs`, `PairStoreProofs`, `LockdownClientProofs` | theorems about the module each is named after, and their proofs | section 4 |
| `FrameProofs` | the same for `Reassembler`, `MuxFrameSeq` and `MuxWire`: from bytes to frames and back | section 4 |
| `ProcessProofs` | the same for `DaemonStartup` and `Supervisor`: processes that start, die and are restarted | section 4 |

How code and model correspond in `MuxConnections`:

* An *attempt* is one `Connect` request with all that follows it. The client's task
  waits for the handler its request triggers, so both are one thread of control
  and `pc[a]` is where it stands: `queued` (in the connect channel), `spawned`,
  `syn`, `waiting` (poll loop), `answered`, then the proxy: `start`, `drain`,
  `writing`, `update`, `unlocked` (found the buffer empty and released the lock),
  `parked` (its `Notified` exists), `woken`, `closing`, `done`.
* `conns` is the connection table of the device. `NoConn` is an absent entry.
* `permit[a]` is the permit a `Notify` keeps for `notify_one()`; `notify_waiters()`
  keeps none. This is tokio's contract, modelled from how the code uses it.
* Each hold of the `conn_mgr` lock is one step. Payloads are units of one byte; a
  unit carries the session it was sent on (`from`) and its position (`n`), which is
  all the properties need.
* `phone` is external: it keeps one session per pair of ports, obeys the last
  window it was told, answers SYNs with SYN-ACK or RST and may close. The host
  never tells it that a client has left, because the code sends nothing.
* `Matches` is the code's lookup: exact port pair, else any loose hit in the
  order of a `HashMap`, which is a nondeterministic choice.
* For `BytePipe` the input of a pipe is `accepted`, its output `delivered`, and it has
  ended when the attempt is `closing`, `done` or `failed`.
* `uplink`, `accepted`, `talked` are history variables. `ob_buf` is left out: it is
  written and never read.

`DeviceScanner` takes a whole scan as one step because it runs under the scanner's
write lock; `order` and `lost` stand for the order of the enumeration and of the
`HashMap`. `DeviceLifecycle` reduces the scanner to one phone: each plugging in has a
new bus address and so a new id.

`ClientSessions` is where components meet: of the scanner it keeps the table and
the changes still to be sent, of the manager the set of managed ids, of a connection
that it was answered, of the lockdown directory whether the record is there. Each hold
of the scanner's lock is one step, except `BAD_DEVICE`, which the code writes with the
lock held: the state `refusing` is that hold. The lock queues its waiters, as tokio's
does, so a waiting scan keeps later readers out. A peer may not read (`reads`) and may
leave (`gone`). `view` is what a client knows that applies events to the list it got;
the list is applied at the moment the lock is held, so a client that receives it later
has to replay the events it got since. Phones are attached and lost freely; that
`UsbLost` and detach interleave with all of it is what the properties are about.

`PairStore` has one phone with its two file names. `damaged`, `quiet` and `both` are
history: they say which guarantees can be asked for. In `LockdownClient` an answer is
three pieces, so that a read can be cut off before, in and after its length, and a value
is the key it belongs to. `DaemonStartup` keeps one representative of the fields that
are copied alike, and the whole configuration only until the socket is looked at.

Definitions marked *Mutant* are plausible wrong versions of the definition below
them. Each property is violated when the definition is replaced by its mutant,
which shows that the property depends on that piece of code.

## 3. Runs

| run | checks | shows |
|---|---|---|
| `scanner` | `OneDevicePerPort`, `ListenerView`, `IdsNeverReused`, `ImplementsDebounce` | two ports, two phones, every enumeration including unreadable serials and failed scans |
| `reassembler` | `BufferBelowCap`, `PacketsMatchTheirHeader`, `ChunkingIrrelevant`, `FeedReturns` | every stream of up to 6 bytes cut in every way: same packets as one pass over the stream |
| `mux_relay` | `MuxTypeOK`, `OwnPort`, `BufferCap`, `NoByteLostInRelay`, `WindowReopened`, `ImplementsPipe` | two attempts, clients and phone closing at any moment, timeouts, a detach under running proxies |
| `mux_live` | `ConnectAnswered`, `DisconnectEndsProxies` | two attempts on one port, unplugging, detach, failing sends and timeouts at any moment |
| `frame_seq` | `FramesParse`, `EveryFrameCounted` | three handlers and the task, sends that fail: every v2 frame is counted once, across the wrap, the numbers have gaps exactly for failed SETUP, ACK and SYN frames, and every frame parses back |
| `sessions` | `GaugesExact`, `SyncedView`, `LockdownNeedsRecord`, `PermitReturned`, `ScanGoesOn` | clients of both backends that list, listen, dial, lag, do not read and leave, a phone that comes and goes |
| `pair_store` | `SavedIsWhole`, `QuietAnswersExact`, `DeleteRemoves`, `BuidSettles` | two clients, four commands, a failing write or a crash |
| `lockdown` | `ValuesInStep`, `NoQueryInClear`, `OnlyGapsFilled`, `QueriesEnd` | answers late, cut off, wrong or missing |
| `startup` | `RunsAsAsked`, `NothingLeft`, `StaleNeverBlocks` | three starts of two daemons from every combination of layers, a crash |
| `lifecycle` | `ManagedIsAlive`, `TablesMatchScanner`, `HandlesReleased` | two pluggings in, a failed open, a read error |
| `supervisor` | `ProcessesTracked`, `OneSurvivor`, `Restarted` | crashes, missing programs, shutdown at any moment |

The type invariants `ScannerTypeOK`, `ReassemblerTypeOK`, `LifecycleTypeOK`, `SupervisorTypeOK` and
`StoreTypeOK` hold in the same runs when they are added to their cfg; the runs spend
their properties on the hazards.

One run is expected to fail, because the code disagrees with its own comment:

* `mux_ack_dropped` (`AckedMeansBuffered`). `mux.rs:227`: bytes above the cap are
  "intentionally" not ACKed. The next unit that fits is accepted whatever its
  sequence number and its ACK covers the dropped one, so the stream has a hole.

### Bounds

* `scanner`: two ports are needed for ids to compete and two phones for a
  replacement; `DetachAfterMisses = 2`, as in the code. `MaxId = 4` lets every port see
  attach, replacement, loss and a new attach.
* `reassembler`: header of 2, buffer of 4, byte values below, at and above both limits;
  6 bytes hold three frames or a corrupt header in the middle of one.
* `mux_relay`: a buffer of 3 and a window unit of 2 make the advertised window differ
  from the free space; the initial and SYN-ACK windows (2, 4) are both sides of the
  cap. Two attempts and two ports suffice for ports to be confused.
* `mux_live`: channels of one slot so that every send waits somewhere; one port so that
  the second attempt meets a full table.
* `frame_seq`: `SeqModulus = 4` wraps within one behaviour of a SETUP, three SYNs and three
  frames of the task. Segments have each combination of an ordinary port and one
  that is half a magic, numbers with high and low bytes, and data that looks like a magic.
* `sessions`: two connections and limits 1 and 2, so that one is refused or both run; a
  channel of one event, so that the second makes a listener lag; one device id, which
  comes and goes, is in the table without being managed and managed after it left.
  A peer of the UID list and one without credentials.
* `pair_store`: two clients overlap; four commands are two saves, a delete and a read;
  records of one and two blocks, so that a shorter write over a longer is seen.
* `lockdown`: three keys, so that an answer can be late by one or two. Four keys, as
  in the code, were checked once (1.8 million states).
* `startup`: two daemons on two paths or one; three starts leave room for one that
  crashed, one that runs and one that starts over it.
* `lifecycle`: two pluggings in are one replug; three opens allow a stale claim, a failed
  incarnation and a retry.
* `supervisor`: two services, so that the watcher can be busy with one when the
  other exits; three crashes. `StartCalls = 1` is the session's own supervisor.
  That of tunneld gets two calls (see section 5).

Where deadlock is not checked the system may really stop: all attempts finished,
the bounded stream fed, the interpreter ended.

### Fairness

Weak fairness of each step of the tokio tasks: the runtime polls a ready task
eventually, and `select!` chooses among its ready branches at random, so none is
starved. The poll loop of a connect is one fair action with its timeout: its timer
fires. Clients and phone promise nothing, except that a write to a client's socket
ends. `DeviceLifecycle` needs one strong fairness: over repeated scans of a phone
that stays plugged in the serial number is read in the end. A read on a phone that is
gone fails, so its reader ends; a phone that is present need not send anything, which
is what keeps a stale claim alive (section 5). In `Supervisor` the watcher is scheduled and
`start_all()` runs to its end; whether the session is ever stopped is the user's choice. In `ClientSessions` tasks and the scan loop are
scheduled; strong fairness of `CheckRecord` says that a reader gets its turn between
scans, since the lock is a queue; a read or proxy whose peer is gone ends; a splice
ends only when the upstream does, and nothing makes a peer read. In `LockdownClient`
the client is scheduled and its timer expires, while `Open` and the TLS handshake, which
have no deadline in the code, need not end.

## 4. What is proved

Every safety invariant and action property of the passing runs is also a theorem; so are the
refinements of `PortDebounce` and `BytePipe`. The theorems hold for every value of the constants that meets the named assumptions (`ScannerConstants`,
`ReassemblerConstants`, `MuxConstants`, `NoConnIsNoRecord`, `LifecycleConstants`,
`StoreConstants`, `SessionConstants`, `LockdownConstants`, `StartupConstants`,
`NoneIsNoEndpoint`, `FrameConstants`, `SupervisorConstants`). These say that bounds are numbers, that limits are not zero, that
marker values are not data, that there are finitely many ports, clients and handlers, that a record
is not empty, that the list of keys has no repetition, and, for the reassembler, that its
limit is at least a header (the code's constant is far above). The inductive
invariants below hold in TLC on the instances of the runs, except `ChunkInv` and `PrefixOK`,
which quantify over infinitely many sequences.

**Scanner** (`DeviceScannerProofs`).

* `ScannerTypeCorrect`, `ScannerPortsDistinct`. `OneDevicePerPort` is inductive together
  with the type invariant, which says that known ids are below `next_id`, so that the ids
  of a scan's new devices are fresh. The heart is that a port attaches only when it has
  no device or its device is replaced, and that the sequence of attaching ports has no
  repetition.
* `ListenersFollow` (`ListenerView`), `IdsNameOneDevice` (`IdsNeverReused`), from
  `ListenerInv`. `ListenerView` speaks of the moment when all changes are sent; in between,
  `PendingOK` says that view and table differ by exactly the changes still to come, that
  each is about an id of its own, and that whoever the view has at the port of an
  `Attached` is withdrawn before it. `ViewOK` keeps the view's ids below `next_id`.
* `ScannerRefinesDebounce` (`ImplementsDebounce`). Step by step, for each port: what a
  scan does to the port's device and miss counter is what one step of `PortDebounce`
  allows, and a broadcast is a stutter.

**Reassembler** (`FrameProofs`).

* `BufferStaysBelowCap`, `PacketsWellFormed`. `Return` is reached only with less than a
  header or with a possible length that exceeds what is buffered; either way the buffer is
  below `MaxBuffer`. Hence the final `clear()` of `feed()` never discards anything.
* `ChunksDoNotMatter` (`ChunkingIrrelevant`), from `ChunkInv`: the buffer is a suffix of the
  stream, and, for *every continuation* of the stream, one pass over all of it gives the packets
  so far followed by what it gives from the buffer's first byte on. The continuation is
  what makes it inductive: the bytes of the next call do not change what was decided
  before. The reference pass is a recursive function; that it exists, and what its value
  at a position is, is proved first (`PassExists`).

**v2 frame numbering** (`FrameProofs`). `FramesCounted` (`EveryFrameCounted`), from `FrameSeqInv`.
The count alone is not inductive, because it says nothing before version 2 is adopted:
`Handshake` says that until then every SYN is in v1 framing and the SETUP is the only frame
that may have used a number, so that the fresh `tx_seq = 1` is right; `Numbered`, that a
frame the task builds afterwards has a number. Each step then moves one frame from one
term of the sum to another (`IncCounts`, on remainders; a handler's SYN enters and leaves a finite
set). It holds for every modulus and any finite number of handlers.

**Frame and segment encoding** (`FrameProofs`).

* `TcpRoundTrip`: every segment `build_tcp_packet` can be given (any ports, numbers, flags,
  window and payload that fit a frame below 2^16 bytes), not only those of the run, is what
  `parse_packet` makes of its frame, in v1 and v2 framing and under both magics, unless the
  framing is v1 and the two ports spell a magic. The bytes are followed field by field:
  `Put16`, `Put32` and `PutLast` say that a field is read back at its place and that what is put behind it
  leaves all earlier fields as they read.
* `FramesReadBack` (`FramesParse`), from `Carried`: the last frame on the wire is the version
  request, the SETUP or a segment, in a framing it can have. It needs numbers that fit
  their field, `SeqModulus <= 65536` (the code's `tx_seq` is a `u16`). The exception is exact:
  `MagicPortsMisread` shows that such a v1 segment is taken for a v2 frame.

**TCP-over-USB stack** (`MuxConnectionsProofs`).

* `MuxTypeCorrect`, `PortsAreOwned`, `BuffersStayCapped`, from the inductive invariant
  `MuxInv`, a conjunction of named parts: `DeviceOK`, `ConnsOK` (which holds the cap),
  `ChannelsOK`, `ProxyOK`, `HistoryOK`, `PhoneOK`, and `OwnOK`. `OwnPort` alone is not
  inductive: it says nothing of an attempt whose entry is missing, and `StartConnect` of
  another attempt would then take the port and break it. `OwnOK` adds that an attempt in an
  owning state has its entry in the table for as long as the table has the device, so the
  lowest free port is never one that is still in use. The other parts are the types of
  frames, messages and sessions, which the steps of task and phone need to keep those of
  the table.
* `NoByteLost`, from `RelayInv`, which adds to `MuxInv`: `QueueOK` and `FreshOK` (an attempt
  not yet started has no bytes, and is queued at most once, so that a new entry starts with
  nothing accepted), `OneEntry` (an attempt owns at most one entry of the table, so that
  a unit appended for its owner is one the owner will look for under its own port) and
  `HeldOK` (only a writing proxy holds bytes, so that draining overwrites nothing).
* `RelayIsPipe` (`ImplementsPipe`), the refinement of `BytePipe`. `NoByteLostInRelay` speaks only of
  a running proxy whose entry is in the table; a proxy may also write bytes it took before
  a detach dropped the table. `PrefixOK` says of every attempt, always, that what its client
  has and what its proxy holds are the beginning of what was accepted; draining keeps it
  because of `NoByteLostInRelay`. Every step either moves no byte and ends some pipes, or is a
  drain (a stutter), a write (`Deliver`) or a buffered frame (`Accept`); that an ended
  attempt is never spawned again follows from `QueueOK`.
* `WindowsReopen` (`WindowReopened`), under the hypothesis `LinkDelivers`: no send fails
  while the phone is there, the two windows the code starts with are open, and an empty
  buffer has room for one unit of the window field. The first is needed: a
  `WindowUpdate` whose send fails is not repeated, and with the fault `sendFail` TLC finds
  a proxy asleep behind a closed window. `WindowInv` says of every connection the phone may
  send on, not only of sleeping proxies, that its window is open, or bytes are
  buffered, or the proxy is writing or about to send its update, or that update is in the
  channel; and (`MsgOK`) that a message in the channel names the port of its sender, so
  that another's message does not stand in for it.

**Device lifecycle** (`DeviceLifecycleProofs`). `EntriesAreAlive` (`ManagedIsAlive`) and
`TablesAgree` (`TablesMatchScanner`), from `LifecycleInv`. `FreshOK` follows `add_device` and
`remove_device` through their locks; `ActiveOK` says that an incarnation whose task has not
dropped its entry is in the manager's table, on its way there, or of an id given up, which
is why a task that ends cannot drop its successor's entry; `GivenUpOK` (bus addresses are not
reused) and `TablesOK` (what the tables hold is known or about to be withdrawn) carry the
second theorem through the phases of the loop.

**Client sessions** (`ClientSessionsProofs`), from `SessionInv`.

* `GaugesFollow` (`GaugesExact`): each step changes one session, and the gauges by what that
  session held and holds (`OneDiffers`, on cardinalities).
* `ListenersMissNothing` (`SyncedView`). Not inductive by itself: a scan changes the table
  while events are under way. For every listener, synced or not, the events on their way
  lead to the table for every id they mention (`Settled`), and a synced view agrees with
  the table on the others (`Carried`); that this is what the fold over the events computes
  is an induction over sequences.
* `RecordWasSeen` (`LockdownNeedsRecord`): the id a session dials was handed out before, so a
  phone that comes later cannot be taken for it.

**Pair records and BUID** (`PairStoreProofs`), from `StoreInv`: `DamageConfined`
(`SavedIsWhole`), `LookupsExact` (`QuietAnswersExact`), `DeletesRemove` (`DeleteRemoves`) and the
action property `BuidNeverChanges` (`BuidSettles`). A command is several file system
calls: `WriterOK` says that a file not marked as damaged has one writer, who finds it
empty and leaves its data; `LearntOK` says at each call what an undisturbed task knows of
the files, so that its answer is right at the end.

**Lockdown client** (`LockdownClientProofs`), from `LockdownInv`: `TlsIsKept`
(`NoQueryInClear`), `ValuesBounded` (`ValuesInStep`) and the action property `SetFieldsStay`
(`OnlyGapsFilled`). The stream between client and phone is what matters: `PendingOK` says
that requests, answers being sent and pieces on the wire are in the order of the requests;
`CountOK`, that what is still to come is to a key behind as many others as have a
value; hence the n-th value is at or behind the n-th key (`ValueOK`).

**Daemon start** (`ProcessProofs`), from `StartupInv`: `OnlyKilledLeave` (`NothingLeft`),
`StaleSocketsReplaced` (`StaleNeverBlocks`) and `ConfiguredAsAsked` (`RunsAsAsked`). `SharedOK`
says that of two daemons at one path both are marked, `NotBoundYet` that a daemon about to
bind does not own the file, `ConfigOK` that the configuration is that of its layers until
the socket is looked at.

**Python supervisor** (`ProcessProofs`), from `SupervisorInv`: `SupervisorTracks`
(`ProcessesTracked`) and `SupervisorStops` (`OneSurvivor`), for any number of services and exits,
with `StartCalls = 1`: a second `start_all()`, which a session of `runner.py` makes, does
overwrite the table (section 5). `OwnProcess` says that a process is kept under its own
service; `FreshOK`, that the service the watcher is about to restart has no process that
runs, so that the assignment overwrites none; `StopPhase`, that from the kill on at most one
process runs, and none while the watcher is still in the backoff that ends in a restart:
it handles one service at a time and looks at `stopping` before the next.

Several proofs need induction. The library's induction theorems take an operator, which
the provers cannot instantiate; the proofs use it in the form of sets instead: a set of
numbers that holds 0, and n + 1 with every n, holds all (`NatSetInduction`, from the
well-foundedness of the numbers).

Only model-checked: everything about liveness (`FeedReturns`, `ConnectAnswered`,
`DisconnectEndsProxies`, `PermitReturned`, `ScanGoesOn`, `QueriesEnd`, `HandlesReleased`,
`Restarted`), which needs fairness and `ENABLED` and is out of the prover's reach.

## 5. Seen while modelling, without a run

Properties the modules define and TLC refutes when they are put into a cfg:

* `OwnTrafficOnly` (`MuxConnections`, cfg as `mux_relay`). A client leaves, nothing is
  sent to the phone (`connection.rs:582`), the next client gets the same source port at
  once, and what the phone still sends on the old connection is delivered to it.
* `ProxyWakes` (`MuxConnections`, cfg as `mux_live` with the fault `phoneCloses`). Data
  arrives after the proxy found its buffer empty and released the lock, and before it
  waits: `notify_waiters()` wakes nobody and the proxy sleeps with bytes in its buffer
  (`connection.rs:638`). RST, FIN and `remove_device` do not notify at all.
* `WireConsecutive` (`MuxFrameSeq`). `STATUS.md:28` has `tx_seq` go up by one with every
  frame sent. A SYN and a data frame can carry one number or swap places.
* `PhoneReclaimed` (`DeviceLifecycle`). After a quick replug the stale id claims the phone at
  its new address; its detach ends the task but not the reader, which keeps the
  interface, and every retry under the present id finds it busy (`mod.rs:110` wants it retried).
* `BuidStable` (`PairStore`). Two clients that ask first at the same time are told different
  BUIDs; a test says it "must be stable across requests" (`tests/integration.rs:222`).
  What does hold is `BuidSettles`.
* `GuardRemovesOwn` (`DaemonStartup`). `mod.rs:181`: the guard removes the socket "if we
  created one". It removes whatever is at the path, also the socket of a daemon that
  was started meanwhile and replaced it.
* `CleanTeardown` (`Supervisor`, one service and one exit are enough). `supervisor.py:5`: the
  supervisor "owns them all and shuts them down cleanly on teardown". A service exits, the
  watcher passes its check of `stopping` and sleeps; `stop_all()` finds nothing that runs
  and returns; the watcher then spawns the service (`supervisor.py:131`), and the process
  outlives the session. `OneSurvivor`, which holds, bounds this to one process.

Exceptions that properties state, each a behaviour one may not want:

* `FramesParse`: a v1 segment between ports 0xFEED or 0xFACE and 0xFACE is taken for v2.
* `SavedIsWhole`: overlapping saves of one record can leave a mixture of both.
* `DeleteRemoves`: a record saved under both names survives its deletion under the other;
  one saved under the raw name is not found by the dashed id.
* `SyncedView`: a client that lists before it listens, or lags, may miss a phone for ever.
* `LockdownNeedsRecord`: a phone that leaves between the two looks is not checked.
* `PermitReturned`: a listener whose client left keeps its permit until the next event;
  `ScanGoesOn`: a peer that does not read its `BAD_DEVICE` stops scan loop and readers.
* `ValuesInStep`: a late answer is shown as the value of a later key, though
  `lockdown.rs:265` promises one entry per successfully read key.
* `NothingLeft`: an error in `chmod` or `chown` after `bind` leaves the socket file.

By reading:

* `ob_buf` of a connection grows with everything sent and is never read.
* A connect that fails after `start_connect` leaves its entry, and so its port,
  in the table until the device goes.
* The cleanup of a device task that ended kills the connections of the next
  incarnation under the same id (`device_manager.rs:279`).
* `runner.py` calls `start_all()` of tunneld's supervisor twice. With `StartCalls = 2`
  `ProcessesTracked` fails: the first process is overwritten and never stopped.
* `backend` and `log_format` of the config file have no effect: the command line's
  defaults always override them. `service.rs` runs with the built-in defaults.
* `tunnel.rs` looks for `DeviceID` at the top of a list entry, `make_device_list_response`
  puts it under `Properties`; `monitor.rs` reads `Result` where the reply has `Number`.
* The module comment of `lockdown.rs` says that it probes first; the code starts a session first.
* The bytes of a splice are counted only when it ends without an error.

## 6. Not modelled

Layout of plists, logging and the counters of `metrics.rs`, which only go up; the
characters of UDIDs and endpoints; Windows (named pipes, services, drivers: sequences
of operating-system calls); `tunnel.rs`, `device/monitor.rs` and `device/detect.rs`, programs on
the client's side of the socket; sideloading (its behaviour is decided by Apple's
servers); screen capture and encoding (framework calls); the other Python programs; and
the scripts under `tools/`, which the orchestrator replaced. In the modelled parts:
several phones at once in `MuxConnections` (each has its own table and task), the
contents of payloads, a phone that answers the version request twice (`device_manager.rs:407`
would send SETUP again and set `tx_seq` back to 1; `MuxFrameSeq` takes one answer
only), the receive counter `rx_seq`, which is only echoed, and real time.

## 7. Plan

Done: the daemon's data path, its files, its sessions, its start and the lockdown client,
and the proofs of section 4.

1. The composition of `MuxConnections` and `DeviceLifecycle`: the second cleanup after a
   reconcile, versions and counters carried over by `or_insert_with`.
2. The Python watcher and registry behind `Listen`, with `Detached` events that have no
   serial number; `WdaClient`'s session retry; the probe app's send queues.
