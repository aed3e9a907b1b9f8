------------------------------ MODULE PairStore ------------------------------
(***************************************************************************)
(* The files of the lockdown directory: the pair record of one phone,      *)
(* under its raw (24 digit) and its dashed name, and the BUID              *)
(* (daemon/connection.rs, platform/unix.rs).  Every command of a client is *)
(* a sequence of file system calls with an await between any two, and      *)
(* clients share no lock, so each call is a step of its own.  A record is  *)
(* a sequence of blocks.  A directory that does not exist is one without   *)
(* files: every operation treats both alike.                               *)
(***************************************************************************)
EXTENDS Integers, Sequences, FiniteSets

CONSTANTS
    Client,      \* client tasks
    Record,      \* pair records: non-empty sequences of blocks
    Absent,      \* content of a file that does not exist
    MaxOps,      \* bound: commands
    MaxCrash     \* bound: deaths of the daemon in mid-operation

Block == UNION {{r[i] : i \in DOMAIN r} : r \in Record}
Content == Seq(Block \cup (1..MaxOps))     \* a record, or a BUID

ASSUME StoreConstants ==
    /\ \A r \in Record : r \in Content /\ Len(r) > 0
    /\ Absent \notin Content
    /\ MaxOps \in Nat /\ MaxCrash \in Nat

VARIABLES
    file,       \* content of each file
    pc,         \* what a client's task does next
    cmd,        \* its command: operation, PairRecordID, path it looks at, data
    fd,         \* the file it has open for writing
    answer,     \* the last answer it gave
    ops, crashes,
    quiet,      \* history: no file changed during the command but by itself
    both,       \* history: both names existed when the command began
    damaged,    \* history: names left torn by overlapping, failed or cut off saves
    buids       \* history: every BUID a client was told

hist == <<quiet, both, damaged, buids>>
vars == <<file, pc, cmd, fd, answer, ops, crashes, hist>>

Name == {"raw", "dashed"}
Path == Name \cup {"buid"}
Op == {"read", "has", "delete", "save", "buid"}
NoCmd == [op |-> "none", id |-> "raw", at |-> "raw", data |-> <<>>]
NotFound == [code |-> "NotFound", data |-> <<>>]
Ok(data) == [code |-> "OK", data |-> data]

\* An id of 24 digits is also looked for with a dash; a dashed one is not
\* looked for without it.
Dashed(id) == "dashed"

Exists(p) == file[p] # Absent

\* What a command that nobody disturbs finds.
Lookup(id) == IF Exists(id) THEN file[id] ELSE file[Dashed(id)]

\* Tasks that can still write to the file at p.
Writers(p) == {c \in Client : fd[c] = p}
-----------------------------------------------------------------------------
(* Requests.                                                               *)

Begin(c, op, id, at, data, next) ==
    /\ pc[c] = "idle" /\ ops < MaxOps
    /\ ops' = ops + 1
    /\ cmd' = [cmd EXCEPT ![c] = [op |-> op, id |-> id, at |-> at, data |-> data]]
    /\ pc' = [pc EXCEPT ![c] = next]
    /\ quiet' = [quiet EXCEPT ![c] = \A d \in Client : fd[d] = "none"]
    /\ both' = [both EXCEPT ![c] = \A n \in Name : Exists(n)]
    /\ UNCHANGED <<file, fd, answer, crashes, damaged, buids>>

ReadRequest(c) == \E id \in Name : Begin(c, "read", id, id, <<>>, "stat")

DeleteRequest(c) == \E id \in Name : Begin(c, "delete", id, id, <<>>, "stat")

\* The check of Connect.
HasRequest(c) == \E id \in Name : Begin(c, "has", id, id, <<>>, "stat")

\* A record is saved under the name it is given.
SavePairRecord(c, id, r) == Begin(c, "save", id, id, r, "open")

SaveRequest(c) == \E id \in Name, r \in Record : SavePairRecord(c, id, r)

BuidRequest(c) == Begin(c, "buid", "raw", "buid", <<>>, "readBuid")

\* The task answers and goes back to its command loop.
Answer(c, a) ==
    /\ answer' = [answer EXCEPT ![c] = a]
    /\ pc' = [pc EXCEPT ![c] = "idle"]

\* A missing or malformed PairRecordID or missing or oversized data: refused
\* before any file is looked at.
BadRequest(c) ==
    /\ pc[c] = "idle"
    /\ answer[c].code # "BadCommand"
    /\ Answer(c, [code |-> "BadCommand", data |-> <<>>])
    /\ cmd' = [cmd EXCEPT ![c] = NoCmd]
    /\ UNCHANGED <<file, fd, ops, crashes, hist>>

\* A change of a file disturbs the commands of all other clients, finished or
\* under way.
Disturb(c) == quiet' = [d \in Client |-> quiet[d] /\ d = c]
-----------------------------------------------------------------------------
(* Looking up.                                                             *)

Hit(c) ==
    IF cmd[c].op = "has" THEN Answer(c, Ok(<<>>)) /\ UNCHANGED cmd
    ELSE pc' = [pc EXCEPT ![c] = cmd[c].op] /\ UNCHANGED <<answer, cmd>>

\* Mutant: the name with the dash is not tried.
MissRawOnly(c) ==
    /\ IF cmd[c].op = "delete" THEN Answer(c, Ok(<<>>)) ELSE Answer(c, NotFound)
    /\ UNCHANGED cmd

Miss(c) ==
    \/ /\ pc[c] = "stat"
       /\ cmd' = [cmd EXCEPT ![c].at = Dashed(cmd[c].id)]
       /\ pc' = [pc EXCEPT ![c] = "statDashed"]
       /\ UNCHANGED answer
    \/ /\ pc[c] = "statDashed"
       /\ IF cmd[c].op = "delete" THEN Answer(c, Ok(<<>>))
          ELSE pc' = [pc EXCEPT ![c] = "scan"] /\ UNCHANGED answer
       /\ UNCHANGED cmd

\* metadata() of the raw, then of the dashed path.
Stat(c) ==
    /\ pc[c] \in {"stat", "statDashed"}
    /\ IF Exists(cmd[c].at) THEN Hit(c) ELSE Miss(c)
    /\ UNCHANGED <<file, fd, ops, crashes, hist>>

\* The directory is read when neither path was there: a record saved
\* meanwhile is found under either name.
ScanDir(c) ==
    /\ pc[c] = "scan"
    /\ LET found == {n \in {cmd[c].id, Dashed(cmd[c].id)} : Exists(n)}
       IN  \/ /\ found = {}
              /\ Answer(c, NotFound)
              /\ UNCHANGED cmd
           \/ \E n \in found :
                IF cmd[c].op = "has" THEN Answer(c, Ok(<<>>)) /\ UNCHANGED cmd
                ELSE /\ cmd' = [cmd EXCEPT ![c].at = n]
                     /\ pc' = [pc EXCEPT ![c] = "read"]
                     /\ UNCHANGED answer
    /\ UNCHANGED <<file, fd, ops, crashes, hist>>

\* The file may have been deleted since it was seen, or be in the middle of a
\* save.
ReadFile(c) ==
    /\ pc[c] = "read"
    /\ Answer(c, IF Exists(cmd[c].at) THEN Ok(file[cmd[c].at]) ELSE NotFound)
    /\ UNCHANGED <<file, cmd, fd, ops, crashes, hist>>

\* Mutant: answers without having removed the file.
RemoveFileForgets(c) ==
    /\ pc[c] = "delete"
    /\ Answer(c, Ok(<<>>))
    /\ UNCHANGED <<file, cmd, fd, ops, crashes, hist>>

\* remove_file(): a task that has the file open writes to the unlinked one.
RemoveFile(c) ==
    LET p == cmd[c].at
    IN  /\ pc[c] = "delete"
        /\ file' = [file EXCEPT ![p] = Absent]
        /\ fd' = [d \in Client |-> IF fd[d] = p THEN "unlinked" ELSE fd[d]]
        /\ damaged' = damaged \ {p}
        /\ Answer(c, IF Exists(p) THEN Ok(<<>>)
                     ELSE [code |-> "BadCommand", data |-> <<>>])
        /\ Disturb(c)
        /\ UNCHANGED <<cmd, ops, crashes, both, buids>>
-----------------------------------------------------------------------------
(* Writing a secret file: open with truncation, write, sync.               *)

\* Mutant: the file is opened without O_TRUNC.
OpenKeeps(c) ==
    LET p == cmd[c].at
    IN  /\ pc[c] = "open"
        /\ file' = [file EXCEPT ![p] = IF Exists(p) THEN @ ELSE <<>>]
        /\ fd' = [fd EXCEPT ![c] = p]
        /\ damaged' = IF Writers(p) = {} THEN damaged \ {p} ELSE damaged \cup {p}
        /\ pc' = [pc EXCEPT ![c] = "write"]
        /\ Disturb(c)
        /\ UNCHANGED <<cmd, answer, ops, crashes, both, buids>>

Open(c) ==
    LET p == cmd[c].at
    IN  /\ pc[c] = "open"
        /\ file' = [file EXCEPT ![p] = <<>>]
        /\ fd' = [fd EXCEPT ![c] = p]
        /\ damaged' = IF Writers(p) = {} THEN damaged \ {p} ELSE damaged \cup {p}
        /\ pc' = [pc EXCEPT ![c] = "write"]
        /\ Disturb(c)
        /\ UNCHANGED <<cmd, answer, ops, crashes, both, buids>>

\* write() at offset 0: what is there beyond the data stays.
Overlay(data, old) == data \o SubSeq(old, Len(data) + 1, Len(old))

WriteFile(c) ==
    /\ pc[c] = "write"
    /\ IF fd[c] = "unlinked" THEN UNCHANGED file
       ELSE file' = [file EXCEPT ![fd[c]] = Overlay(cmd[c].data, @)]
    /\ pc' = [pc EXCEPT ![c] = "sync"]
    /\ Disturb(c)
    /\ UNCHANGED <<cmd, fd, answer, ops, crashes, both, damaged, buids>>

\* The file cannot be opened, or the disk is full and it stays as the
\* truncation left it.  A save says so, ReadBUID hands out its BUID all the
\* same.
WriteFails(c) ==
    /\ pc[c] \in {"open", "write"} /\ crashes < MaxCrash
    /\ crashes' = crashes + 1
    /\ damaged' = damaged \cup ({fd[c]} \cap Path)
    /\ fd' = [fd EXCEPT ![c] = "none"]
    /\ IF cmd[c].op = "buid"
       THEN Answer(c, Ok(cmd[c].data)) /\ buids' = buids \cup {cmd[c].data}
       ELSE Answer(c, [code |-> "BadCommand", data |-> <<>>]) /\ UNCHANGED buids
    /\ UNCHANGED <<file, cmd, ops, quiet, both>>

\* sync_all() and the answer: OK, or the BUID this task made.
Sync(c) ==
    /\ pc[c] = "sync"
    /\ fd' = [fd EXCEPT ![c] = "none"]
    /\ IF cmd[c].op = "buid"
       THEN Answer(c, Ok(cmd[c].data)) /\ buids' = buids \cup {cmd[c].data}
       ELSE Answer(c, Ok(<<>>)) /\ UNCHANGED buids
    /\ UNCHANGED <<file, cmd, ops, crashes, quiet, both, damaged>>

\* Mutant: a BUID is made whether there is one or not.
ReadBuidFileIgnored(c) ==
    /\ pc[c] = "readBuid"
    /\ cmd' = [cmd EXCEPT ![c].data = <<ops>>]
    /\ pc' = [pc EXCEPT ![c] = "open"]
    /\ UNCHANGED <<file, fd, answer, ops, crashes, hist>>

\* get_or_create_buid(): a BUID that can be read is handed out; when the file
\* is missing or empty a new one is made (ops is different each time).
ReadBuidFile(c) ==
    /\ pc[c] = "readBuid"
    /\ \/ /\ file["buid"] \notin {Absent, <<>>}
          /\ Answer(c, Ok(file["buid"]))
          /\ buids' = buids \cup {file["buid"]}
          /\ UNCHANGED cmd
       \/ /\ file["buid"] \in {Absent, <<>>}
          /\ cmd' = [cmd EXCEPT ![c].data = <<ops>>]
          /\ pc' = [pc EXCEPT ![c] = "open"]
          /\ UNCHANGED <<answer, buids>>
    /\ UNCHANGED <<file, fd, ops, crashes, quiet, both, damaged>>
-----------------------------------------------------------------------------
\* The daemon dies: tasks and descriptors are gone, the files stay.
Crash ==
    /\ crashes < MaxCrash
    /\ \E c \in Client : pc[c] # "idle"
    /\ crashes' = crashes + 1
    /\ damaged' = damaged \cup {fd[c] : c \in {d \in Client : fd[d] \in Path /\ pc[d] = "write"}}
    /\ pc' = [c \in Client |-> "idle"]
    /\ fd' = [c \in Client |-> "none"]
    /\ cmd' = [c \in Client |-> NoCmd]
    /\ answer' = [c \in Client |-> NotFound]
    /\ UNCHANGED <<file, ops, quiet, both, buids>>

Init ==
    /\ file = [p \in Path |-> Absent]
    /\ pc = [c \in Client |-> "idle"]
    /\ cmd = [c \in Client |-> NoCmd]
    /\ fd = [c \in Client |-> "none"]
    /\ answer = [c \in Client |-> NotFound]
    /\ ops = 0 /\ crashes = 0
    /\ quiet = [c \in Client |-> FALSE]
    /\ both = [c \in Client |-> FALSE]
    /\ damaged = {}
    /\ buids = {}

Next ==
    \/ \E c \in Client :
        \/ ReadRequest(c) \/ DeleteRequest(c) \/ HasRequest(c) \/ SaveRequest(c)
        \/ BuidRequest(c) \/ BadRequest(c)
        \/ Stat(c) \/ ScanDir(c) \/ ReadFile(c) \/ RemoveFile(c)
        \/ Open(c) \/ WriteFile(c) \/ WriteFails(c) \/ Sync(c) \/ ReadBuidFile(c)
    \/ Crash

Spec == Init /\ [][Next]_vars
-----------------------------------------------------------------------------
(* Properties.                                                             *)

\* Types of the files, tasks and descriptors; a task holds a descriptor
\* exactly while it writes.
StoreTypeOK ==
    /\ file \in [Path -> {Absent} \cup Content]
    /\ pc \in [Client -> {"idle", "stat", "statDashed", "scan", "read", "delete",
                          "open", "write", "sync", "readBuid"}]
    /\ \A c \in Client : cmd[c].op \in Op \cup {"none"} /\ cmd[c].at \in Path
    /\ fd \in [Client -> Path \cup {"none", "unlinked"}]
    /\ \A c \in Client : fd[c] # "none" <=> pc[c] \in {"write", "sync"}
    /\ ops \in 0..MaxOps /\ crashes \in 0..MaxCrash
    /\ damaged \in SUBSET Path

\* secure_write_secret() is not atomic, but the damage is confined: a file
\* nobody is writing holds one whole record (or one whole BUID), unless saves
\* of it overlapped or one was cut off, and the next save on its own heals it.
SavedIsWhole ==
    \A p \in Path \ damaged :
        Writers(p) = {} =>
            \/ file[p] = Absent
            \/ p = "buid" /\ Len(file[p]) = 1
            \/ p # "buid" /\ file[p] \in Record

\* read_pair_record() and has_pair_record() find a record with several calls,
\* and answer as if they had looked once: a lookup during which no file
\* changed gives the content found under the raw name, else under the dashed.
QuietAnswersExact ==
    \A c \in Client :
        (pc[c] = "idle" /\ quiet[c]) =>
            /\ cmd[c].op = "read" =>
                answer[c] = IF Lookup(cmd[c].id) = Absent THEN NotFound
                            ELSE Ok(Lookup(cmd[c].id))
            /\ cmd[c].op = "has" =>
                (answer[c].code = "OK" <=> Lookup(cmd[c].id) # Absent)

\* delete_pair_record() removes one file and read_pair_record() accepts two:
\* after a delete that nobody disturbed the record cannot be read any more,
\* unless it had been saved under both names.
DeleteRemoves ==
    \A c \in Client :
        (pc[c] = "idle" /\ quiet[c] /\ cmd[c].op = "delete" /\ answer[c].code = "OK") =>
            /\ ~Exists(cmd[c].id)
            /\ both[c] \/ Lookup(cmd[c].id) = Absent

\* get_or_create_buid() reads, makes and writes without a lock, so clients may
\* be told different BUIDs at first; it settles: once a BUID is in the file and
\* no task is on its way to write another, none ever will be, across crashes
\* too.
BuidSettled ==
    /\ file["buid"] \notin {Absent, <<>>}
    /\ \A c \in Client : cmd[c].op = "buid" => pc[c] \notin {"open", "write"}

BuidSettles ==
    [][BuidSettled => BuidSettled' /\ file'["buid"] = file["buid"]]_vars

\* What tests/integration.rs says: every client is told the same BUID.
BuidStable == Cardinality(buids) <= 1
=============================================================================
