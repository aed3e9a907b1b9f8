--------------------------- MODULE PairStoreProofs ---------------------------
(***************************************************************************)
(* Machine-checked proofs about PairStore, for any number of clients,      *)
(* records, commands and crashes.                                          *)
(***************************************************************************)
EXTENDS PairStore, SequenceTheorems, TLAPS

Command == [op : Op \cup {"none"}, id : Name, at : Path, data : Content]
Reply == [code : {"OK", "NotFound", "BadCommand"}, data : Content]
Step == {"idle", "stat", "statDashed", "scan", "read", "delete", "open", "write", "sync",
         "readBuid"}

\* Types of the history and of what a task holds, next to StoreTypeOK.
TaskTypeOK ==
    /\ cmd \in [Client -> Command] /\ answer \in [Client -> Reply]
    /\ quiet \in [Client -> BOOLEAN] /\ both \in [Client -> BOOLEAN]

\* What a task that has come to call x with command m, the n-th, is there for.
Fits(x, m, n) ==
    /\ x \in {"stat", "statDashed"} => m.op \in {"read", "has", "delete"} /\ m.at \in Name
    /\ x = "scan" => m.op \in {"read", "has"}
    /\ x \in {"read", "delete"} => m.op = x /\ m.at \in Name
    /\ x = "readBuid" => m.op = "buid" /\ m.at = "buid" /\ n > 0
    /\ x \in {"open", "write", "sync"} =>
        \/ m.op = "buid" /\ m.at = "buid" /\ Len(m.data) = 1
        \/ m.op = "save" /\ m.at \in Name /\ m.data \in Record

CmdOK == \A c \in Client : Fits(pc[c], cmd[c], ops)

\* A descriptor is of the file of the command, and that file exists.
FdOK ==
    \A c \in Client :
        fd[c] \in {"none", "unlinked"} \/ (fd[c] = cmd[c].at /\ Exists(fd[c]))

\* Of a file that is not marked there is one writer, who finds it empty and
\* leaves its data.
WriterOK ==
    \A c \in Client : fd[c] \in Path \ damaged =>
        /\ \A d \in Client : fd[d] = fd[c] => d = c
        /\ pc[c] = "write" => file[fd[c]] = <<>>
        /\ pc[c] = "sync" => file[fd[c]] = cmd[c].data

\* What a task that nobody disturbs has learnt when it comes to call x; b: both
\* names were there when it began.
Learnt(x, m, b) ==
    /\ x = "stat" => m.at = m.id
    /\ x = "statDashed" => m.at = "dashed" /\ ~Exists(m.id)
    /\ x = "scan" => ~Exists(m.id) /\ ~Exists("dashed")
    /\ x \in {"read", "delete"} =>
        /\ Exists(m.at)
        /\ m.at = m.id \/ (m.at = "dashed" /\ ~Exists(m.id))
    /\ x \in {"stat", "statDashed", "delete"} =>
        (b <=> (Exists("raw") /\ Exists("dashed")))

LearntOK == \A c \in Client : quiet[c] => Learnt(pc[c], cmd[c], both[c])

\* The answer such a task has given, of QuietAnswersExact and DeleteRemoves.
Answered(x, m, b, a) ==
    x = "idle" =>
        /\ m.op = "read" => a = IF Lookup(m.id) = Absent THEN NotFound ELSE Ok(Lookup(m.id))
        /\ m.op = "has" => (a.code = "OK" <=> Lookup(m.id) # Absent)
        /\ m.op = "delete" /\ a.code = "OK" =>
            ~Exists(m.id) /\ (b \/ Lookup(m.id) = Absent)

AnswersOK == \A c \in Client : quiet[c] => Answered(pc[c], cmd[c], both[c], answer[c])

\* The inductive invariant.
StoreInv ==
    /\ StoreTypeOK /\ TaskTypeOK /\ CmdOK /\ FdOK /\ WriterOK /\ SavedIsWhole
    /\ LearntOK /\ AnswersOK
-----------------------------------------------------------------------------
(* Values.                                                                 *)

\* Records and the empty file are contents, and no content means a missing file.
LEMMA ContentFacts ==
    /\ <<>> \in Content /\ Record \subseteq Content
    /\ \A x \in Content : x # Absent
  BY StoreConstants DEF Content

\* A BUID is a content.
LEMMA BuidContent ==
    ASSUME NEW n \in 1..MaxOps
    PROVE  <<n>> \in Content /\ Len(<<n>>) = 1
  BY DEF Content

\* A write into an empty file leaves the data, and any write a content.
LEMMA OverlayFacts ==
    ASSUME NEW data \in Content, NEW old \in Content
    PROVE  Overlay(data, old) \in Content /\ Overlay(data, <<>>) = data
  <1> DEFINE S == Block \cup (1..MaxOps)
  <1>1. data \in Seq(S) /\ old \in Seq(S) /\ Len(data) \in Nat /\ Len(old) \in Nat
    BY DEF Content
  <1> HIDE DEF S
  <1>2. SubSeq(old, Len(data) + 1, Len(old)) \in Seq(S)
    <2>1. \A i \in Len(data) + 1..Len(old) : i \in 1..Len(old)
      BY <1>1
    <2> QED BY <1>1, <2>1, SubSeqProperties
  <1>3. Overlay(data, old) \in Seq(S)
    BY <1>1, <1>2, ConcatProperties DEF Overlay
  <1>4. SubSeq(<<>>, Len(data) + 1, Len(<<>>)) = <<>>
    BY <1>1, SubSeqEmpty
  <1>5. Overlay(data, <<>>) = data
    BY <1>1, <1>4, ConcatEmptySeq DEF Overlay
  <1> QED BY <1>3, <1>5 DEF Content, S

\* Commands and replies as records.
LEMMA Records ==
    /\ NoCmd \in Command /\ NotFound \in Reply
    /\ \A x \in Content : Ok(x) \in Reply /\ [code |-> "BadCommand", data |-> x] \in Reply
    /\ \A m \in Command, n \in Path : [m EXCEPT !.at = n] \in Command
    /\ \A m \in Command, x \in Content : [m EXCEPT !.data = x] \in Command
  BY ContentFacts DEF NoCmd, NotFound, Ok, Command, Reply, Op, Name, Path

\* An assignment that assigns nothing new.
LEMMA SameValue ==
    ASSUME NEW S, NEW f \in [Client -> S], NEW c \in Client
    PROVE  f = [f EXCEPT ![c] = f[c]]
  OBVIOUS

\* What the types say of one task.
LEMMA TaskFacts ==
    ASSUME StoreInv, NEW c \in Client
    PROVE  /\ pc[c] \in Step /\ cmd[c] \in Command /\ answer[c] \in Reply
           /\ quiet[c] \in BOOLEAN /\ both[c] \in BOOLEAN
           /\ fd[c] \in Path \cup {"none", "unlinked"}
           /\ fd[c] # "none" <=> pc[c] \in {"write", "sync"}
           /\ Fits(pc[c], cmd[c], ops)
           /\ ops \in 0..MaxOps /\ crashes \in 0..MaxCrash
  BY DEF StoreInv, StoreTypeOK, TaskTypeOK, CmdOK, Step

\* What the invariant says of answers is what the properties say.
LEMMA AnswersExact ==
    AnswersOK => QuietAnswersExact /\ DeleteRemoves
  BY DEF AnswersOK, Answered, QuietAnswersExact, DeleteRemoves

-----------------------------------------------------------------------------
(* Steps.                                                                  *)

\* A step of c that touches no file and no descriptor keeps the invariant when
\* the state it brings c to is as it should be.
LEMMA LookupStep ==
    ASSUME StoreInv, NEW c \in Client,
           NEW x \in Step \ {"write", "sync"}, NEW m \in Command, NEW a \in Reply,
           NEW q \in BOOLEAN, NEW b \in BOOLEAN,
           pc[c] \notin {"write", "sync"},
           file' = file, fd' = fd, damaged' = damaged, crashes' = crashes,
           pc' = [pc EXCEPT ![c] = x], cmd' = [cmd EXCEPT ![c] = m],
           answer' = [answer EXCEPT ![c] = a], quiet' = [quiet EXCEPT ![c] = q],
           both' = [both EXCEPT ![c] = b], ops' \in 0..MaxOps, ops' >= ops,
           Fits(x, m, ops'), q => Learnt(x, m, b), q => Answered(x, m, b, a)
    PROVE  StoreInv'
  <1>1. /\ pc \in [Client -> Step] /\ cmd \in [Client -> Command] /\ answer \in [Client -> Reply]
        /\ quiet \in [Client -> BOOLEAN] /\ both \in [Client -> BOOLEAN]
        /\ fd[c] = "none" /\ ops \in 0..MaxOps
    BY TaskFacts DEF StoreInv, StoreTypeOK, TaskTypeOK, Step
  <1>2. /\ pc' \in [Client -> Step] /\ cmd' \in [Client -> Command]
        /\ answer' \in [Client -> Reply]
        /\ quiet' \in [Client -> BOOLEAN] /\ both' \in [Client -> BOOLEAN]
        /\ pc'[c] = x /\ cmd'[c] = m /\ answer'[c] = a /\ quiet'[c] = q /\ both'[c] = b
    BY <1>1
  <1>3. \A d \in Client \ {c} :
            /\ pc'[d] = pc[d] /\ cmd'[d] = cmd[d] /\ answer'[d] = answer[d]
            /\ quiet'[d] = quiet[d] /\ both'[d] = both[d]
    BY <1>1
  <1>4. TaskTypeOK'
    BY <1>2 DEF TaskTypeOK
  <1>5. StoreTypeOK'
    <2>1. \A d \in Client : cmd'[d].op \in Op \cup {"none"} /\ cmd'[d].at \in Path
      BY <1>2 DEF Command
    <2>2. \A d \in Client : fd'[d] # "none" <=> pc'[d] \in {"write", "sync"}
      BY <1>1, <1>2, <1>3, TaskFacts
    <2> QED BY <1>2, <2>1, <2>2 DEF StoreInv, StoreTypeOK, Step
  <1>6. CmdOK'
    <2>1. \A d \in Client \ {c} : Fits(pc'[d], cmd'[d], ops')
      BY <1>1, <1>3 DEF StoreInv, CmdOK, Fits
    <2> QED BY <1>2, <2>1 DEF CmdOK
  <1>7. FdOK'
    BY <1>1, <1>2, <1>3 DEF StoreInv, FdOK, Exists
  <1>8. WriterOK'
    BY <1>1, <1>2, <1>3 DEF StoreInv, WriterOK, Path, Name
  <1>9. SavedIsWhole'
    BY DEF StoreInv, SavedIsWhole, Writers
  <1>10. LearntOK'
    <2>1. \A d \in Client \ {c} : quiet'[d] => Learnt(pc'[d], cmd'[d], both'[d])
      BY <1>3 DEF StoreInv, LearntOK
    <2>2. \A d \in Client : quiet'[d] => Learnt(pc'[d], cmd'[d], both'[d])
      BY <1>2, <2>1
    <2> QED BY <2>2 DEF LearntOK, Learnt, Exists
  <1>11. AnswersOK'
    <2>1. \A d \in Client \ {c} : quiet'[d] => Answered(pc'[d], cmd'[d], both'[d], answer'[d])
      BY <1>3 DEF StoreInv, AnswersOK
    <2>2. \A d \in Client : quiet'[d] => Answered(pc'[d], cmd'[d], both'[d], answer'[d])
      BY <1>2, <2>1
    <2> QED BY <2>2 DEF AnswersOK, Answered, Lookup, Exists
  <1> QED BY <1>4, <1>5, <1>6, <1>7, <1>8, <1>9, <1>10, <1>11 DEF StoreInv

\* A task begins a command.
LEMMA BeginStep ==
    ASSUME StoreInv, NEW c \in Client, NEW op \in Op, NEW id \in Name, NEW at \in Path,
           NEW data \in Content, NEW next \in Step \ {"write", "sync"},
           Begin(c, op, id, at, data, next), next # "idle",
           \A n \in Nat : n > 0 =>
                Fits(next, [op |-> op, id |-> id, at |-> at, data |-> data], n),
           next = "stat" => at = id,
           next \notin {"statDashed", "scan", "read", "delete"}
    PROVE  StoreInv'
  <1> DEFINE m == [op |-> op, id |-> id, at |-> at, data |-> data]
             q == \A d \in Client : fd[d] = "none"
             b == \A n \in Name : Exists(n)
  <1>1. /\ pc[c] = "idle" /\ ops < MaxOps /\ ops' = ops + 1
        /\ cmd' = [cmd EXCEPT ![c] = m] /\ pc' = [pc EXCEPT ![c] = next]
        /\ quiet' = [quiet EXCEPT ![c] = q] /\ both' = [both EXCEPT ![c] = b]
        /\ file' = file /\ fd' = fd /\ answer' = answer /\ crashes' = crashes
        /\ damaged' = damaged
    BY DEF Begin
  <1>2. m \in Command /\ m.at = at /\ m.id = id
    BY DEF Command
  <1>3. q \in BOOLEAN /\ b \in BOOLEAN /\ (b <=> (Exists("raw") /\ Exists("dashed")))
    BY DEF Name
  <1>4. ops \in 0..MaxOps /\ MaxOps \in Nat /\ answer \in [Client -> Reply] /\ answer[c] \in Reply
    BY TaskFacts, StoreConstants DEF StoreInv, TaskTypeOK
  <1>5. ops' \in 0..MaxOps /\ ops' >= ops /\ ops' > 0 /\ ops' \in Nat
    BY <1>1, <1>4
  <1>6. answer' = [answer EXCEPT ![c] = answer[c]]
    BY <1>1, <1>4, SameValue
  <1>7. Fits(next, m, ops')
    BY <1>5
  <1> HIDE DEF m, q, b
  <1>8. Learnt(next, m, b) /\ Answered(next, m, b, answer[c])
    BY <1>2, <1>3 DEF Learnt, Answered
  <1> QED BY <1>1, <1>2, <1>3, <1>4, <1>5, <1>6, <1>7, <1>8, LookupStep

\* Every request begins one.
LEMMA RequestStep ==
    ASSUME StoreInv, NEW c \in Client,
           \/ ReadRequest(c) \/ DeleteRequest(c) \/ HasRequest(c) \/ SaveRequest(c)
           \/ BuidRequest(c)
    PROVE  StoreInv'
  <1> USE ContentFacts
  <1>1. CASE ReadRequest(c)
    <2>1. PICK id \in Name : Begin(c, "read", id, id, <<>>, "stat")
      BY <1>1 DEF ReadRequest
    <2> QED BY <2>1, BeginStep DEF Op, Path, Step, Fits
  <1>2. CASE DeleteRequest(c)
    <2>1. PICK id \in Name : Begin(c, "delete", id, id, <<>>, "stat")
      BY <1>2 DEF DeleteRequest
    <2> QED BY <2>1, BeginStep DEF Op, Path, Step, Fits
  <1>3. CASE HasRequest(c)
    <2>1. PICK id \in Name : Begin(c, "has", id, id, <<>>, "stat")
      BY <1>3 DEF HasRequest
    <2> QED BY <2>1, BeginStep DEF Op, Path, Step, Fits
  <1>4. CASE SaveRequest(c)
    <2>1. PICK id \in Name, r \in Record : Begin(c, "save", id, id, r, "open")
      BY <1>4 DEF SaveRequest, SavePairRecord
    <2> QED BY <2>1, BeginStep DEF Op, Path, Step, Fits
  <1>5. CASE BuidRequest(c)
    BY <1>5, BeginStep DEF BuidRequest, Op, Path, Name, Step, Fits
  <1> QED BY <1>1, <1>2, <1>3, <1>4, <1>5

\* A task that stays undisturbed, or disturbed, and answers or goes on.
LEMMA OnwardStep ==
    ASSUME StoreInv, NEW c \in Client,
           NEW x \in Step \ {"write", "sync"}, NEW m \in Command, NEW a \in Reply,
           pc[c] \notin {"write", "sync"},
           file' = file, fd' = fd, damaged' = damaged, crashes' = crashes, ops' = ops,
           quiet' = quiet, both' = both,
           pc' = [pc EXCEPT ![c] = x], cmd' = [cmd EXCEPT ![c] = m],
           answer' = [answer EXCEPT ![c] = a],
           Fits(x, m, ops), quiet[c] => Learnt(x, m, both[c]),
           quiet[c] => Answered(x, m, both[c], a)
    PROVE  StoreInv'
  <1>1. /\ quiet \in [Client -> BOOLEAN] /\ both \in [Client -> BOOLEAN] /\ ops \in 0..MaxOps
        /\ quiet[c] \in BOOLEAN /\ both[c] \in BOOLEAN
    BY TaskFacts DEF StoreInv, TaskTypeOK
  <1>2. quiet' = [quiet EXCEPT ![c] = quiet[c]] /\ both' = [both EXCEPT ![c] = both[c]]
    BY <1>1, SameValue
  <1>3. ops' \in 0..MaxOps /\ ops' >= ops /\ Fits(x, m, ops')
    BY <1>1
  <1> DEFINE q == quiet[c]
             b == both[c]
  <1>4. /\ q \in BOOLEAN /\ b \in BOOLEAN
        /\ quiet' = [quiet EXCEPT ![c] = q] /\ both' = [both EXCEPT ![c] = b]
        /\ q => Learnt(x, m, b)
        /\ q => Answered(x, m, b, a)
    BY <1>1, <1>2, Zenon
  <1> HIDE DEF q, b
  <1> QED BY <1>3, <1>4, LookupStep, Zenon

\* A request that is refused.
LEMMA BadRequestStep ==
    ASSUME StoreInv, NEW c \in Client, BadRequest(c)
    PROVE  StoreInv'
  <1> DEFINE a == [code |-> "BadCommand", data |-> <<>>]
  <1>1. /\ pc[c] = "idle" /\ file' = file /\ fd' = fd /\ damaged' = damaged
        /\ crashes' = crashes /\ ops' = ops /\ quiet' = quiet /\ both' = both
        /\ pc' = [pc EXCEPT ![c] = "idle"] /\ cmd' = [cmd EXCEPT ![c] = NoCmd]
        /\ answer' = [answer EXCEPT ![c] = a]
    BY DEF BadRequest, Answer, hist
  <1>2. a \in Reply /\ NoCmd \in Command
    BY Records, ContentFacts
  <1>3. /\ Fits("idle", NoCmd, ops) /\ Learnt("idle", NoCmd, both[c])
        /\ Answered("idle", NoCmd, both[c], a)
    BY DEF Fits, Learnt, Answered, NoCmd
  <1> HIDE DEF a
  <1> QED BY <1>1, <1>2, <1>3, OnwardStep DEF Step

\* metadata(): a hit, a miss of the raw name, or one of the dashed.
LEMMA StatStep ==
    ASSUME StoreInv, NEW c \in Client, Stat(c)
    PROVE  StoreInv'
  <1>1. /\ pc[c] \in {"stat", "statDashed"} /\ file' = file /\ fd' = fd /\ damaged' = damaged
        /\ crashes' = crashes /\ ops' = ops /\ quiet' = quiet /\ both' = both
        /\ IF Exists(cmd[c].at) THEN Hit(c) ELSE Miss(c)
    BY DEF Stat, hist
  <1>2. /\ cmd[c] \in Command /\ answer[c] \in Reply /\ cmd \in [Client -> Command]
        /\ answer \in [Client -> Reply] /\ Fits(pc[c], cmd[c], ops)
    BY TaskFacts DEF StoreInv, TaskTypeOK
  <1>3. /\ cmd[c].op \in {"read", "has", "delete"} /\ cmd[c].at \in Name /\ cmd[c].id \in Name
    BY <1>1, <1>2 DEF Fits, Command
  <1>4. quiet[c] => Learnt(pc[c], cmd[c], both[c])
    BY DEF StoreInv, LearntOK
  <1>5. cmd = [cmd EXCEPT ![c] = cmd[c]] /\ answer = [answer EXCEPT ![c] = answer[c]]
    BY <1>2, SameValue
  <1>6. Ok(<<>>) \in Reply /\ Ok(<<>>).code = "OK"
    BY Records, ContentFacts DEF Ok
  <1>7. CASE Exists(cmd[c].at) /\ cmd[c].op = "has"
    <2>1. /\ pc' = [pc EXCEPT ![c] = "idle"] /\ cmd' = [cmd EXCEPT ![c] = cmd[c]]
          /\ answer' = [answer EXCEPT ![c] = Ok(<<>>)]
      BY <1>1, <1>5, <1>7 DEF Hit, Answer
    <2>2. Fits("idle", cmd[c], ops) /\ Learnt("idle", cmd[c], both[c])
      BY DEF Fits, Learnt
    <2>3. quiet[c] => Answered("idle", cmd[c], both[c], Ok(<<>>))
      BY <1>1, <1>4, <1>6, <1>7 DEF Answered, Learnt, Lookup, Exists, Dashed
    <2> QED BY <1>1, <1>2, <1>6, <2>1, <2>2, <2>3, OnwardStep DEF Step
  <1>8. CASE Exists(cmd[c].at) /\ cmd[c].op # "has"
    <2>1. /\ pc' = [pc EXCEPT ![c] = cmd[c].op] /\ cmd' = [cmd EXCEPT ![c] = cmd[c]]
          /\ answer' = [answer EXCEPT ![c] = answer[c]]
      BY <1>1, <1>5, <1>8 DEF Hit
    <2>2. cmd[c].op \in {"read", "delete"}
      BY <1>3, <1>8
    <2>3. Fits(cmd[c].op, cmd[c], ops) /\ Answered(cmd[c].op, cmd[c], both[c], answer[c])
      BY <1>3, <2>2 DEF Fits, Answered
    <2>4. quiet[c] => Learnt(cmd[c].op, cmd[c], both[c])
      BY <1>1, <1>4, <1>8, <2>2 DEF Learnt
    <2> QED BY <1>1, <1>2, <2>1, <2>2, <2>3, <2>4, OnwardStep DEF Step
  <1>9. CASE ~Exists(cmd[c].at) /\ pc[c] = "stat"
    <2> DEFINE m == [cmd[c] EXCEPT !.at = "dashed"]
    <2>1. /\ pc' = [pc EXCEPT ![c] = "statDashed"] /\ cmd' = [cmd EXCEPT ![c] = m]
          /\ answer' = [answer EXCEPT ![c] = answer[c]]
      BY <1>1, <1>5, <1>9 DEF Miss, Dashed
    <2>2. m \in Command /\ m.at = "dashed" /\ m.id = cmd[c].id /\ m.op = cmd[c].op
      BY <1>2 DEF Command, Path, Name
    <2> HIDE DEF m
    <2>3. Fits("statDashed", m, ops) /\ Answered("statDashed", m, both[c], answer[c])
      BY <1>3, <2>2 DEF Fits, Answered, Name
    <2>4. quiet[c] => Learnt("statDashed", m, both[c])
      BY <1>4, <1>9, <2>2 DEF Learnt
    <2> QED BY <1>1, <1>2, <2>1, <2>2, <2>3, <2>4, OnwardStep DEF Step
  <1>10. CASE ~Exists(cmd[c].at) /\ pc[c] = "statDashed" /\ cmd[c].op = "delete"
    <2>1. /\ pc' = [pc EXCEPT ![c] = "idle"] /\ cmd' = [cmd EXCEPT ![c] = cmd[c]]
          /\ answer' = [answer EXCEPT ![c] = Ok(<<>>)]
      BY <1>1, <1>5, <1>10 DEF Miss, Answer
    <2>2. Fits("idle", cmd[c], ops) /\ Learnt("idle", cmd[c], both[c])
      BY DEF Fits, Learnt
    <2>3. quiet[c] => Answered("idle", cmd[c], both[c], Ok(<<>>))
      BY <1>4, <1>10 DEF Answered, Learnt, Lookup, Exists, Dashed
    <2> QED BY <1>1, <1>2, <1>6, <2>1, <2>2, <2>3, OnwardStep DEF Step
  <1>11. CASE ~Exists(cmd[c].at) /\ pc[c] = "statDashed" /\ cmd[c].op # "delete"
    <2>1. /\ pc' = [pc EXCEPT ![c] = "scan"] /\ cmd' = [cmd EXCEPT ![c] = cmd[c]]
          /\ answer' = [answer EXCEPT ![c] = answer[c]]
      BY <1>1, <1>5, <1>11 DEF Miss
    <2>2. Fits("scan", cmd[c], ops) /\ Answered("scan", cmd[c], both[c], answer[c])
      BY <1>3, <1>11 DEF Fits, Answered
    <2>3. quiet[c] => Learnt("scan", cmd[c], both[c])
      BY <1>4, <1>11 DEF Learnt
    <2> QED BY <1>1, <1>2, <2>1, <2>2, <2>3, OnwardStep DEF Step
  <1> QED BY <1>1, <1>7, <1>8, <1>9, <1>10, <1>11

\* The directory: nothing there, or a name that turned up meanwhile.
LEMMA ScanDirStep ==
    ASSUME StoreInv, NEW c \in Client, ScanDir(c)
    PROVE  StoreInv'
  <1> DEFINE found == {n \in {cmd[c].id, Dashed(cmd[c].id)} : Exists(n)}
  <1>1. /\ pc[c] = "scan" /\ file' = file /\ fd' = fd /\ damaged' = damaged
        /\ crashes' = crashes /\ ops' = ops /\ quiet' = quiet /\ both' = both
    BY DEF ScanDir, hist
  <1>2. /\ cmd[c] \in Command /\ answer[c] \in Reply /\ cmd \in [Client -> Command]
        /\ answer \in [Client -> Reply] /\ Fits(pc[c], cmd[c], ops)
    BY TaskFacts DEF StoreInv, TaskTypeOK
  <1>3. cmd[c].op \in {"read", "has"} /\ cmd[c].id \in Name
    BY <1>1, <1>2 DEF Fits, Command
  <1>4. quiet[c] => ~Exists(cmd[c].id) /\ ~Exists("dashed")
    BY <1>1 DEF StoreInv, LearntOK, Learnt
  <1>5. cmd = [cmd EXCEPT ![c] = cmd[c]] /\ answer = [answer EXCEPT ![c] = answer[c]]
    BY <1>2, SameValue
  <1>6. Ok(<<>>) \in Reply /\ NotFound \in Reply /\ NotFound.code = "NotFound"
    BY Records, ContentFacts DEF NotFound
  <1>7. quiet[c] => found = {}
    BY <1>4 DEF Dashed
  <1>8. Fits("idle", cmd[c], ops) /\ Learnt("idle", cmd[c], both[c])
    BY DEF Fits, Learnt
  <1>9. CASE found = {} /\ Answer(c, NotFound) /\ cmd' = cmd
    <2>1. /\ pc' = [pc EXCEPT ![c] = "idle"] /\ cmd' = [cmd EXCEPT ![c] = cmd[c]]
          /\ answer' = [answer EXCEPT ![c] = NotFound]
      BY <1>5, <1>9 DEF Answer
    <2>2. quiet[c] => Answered("idle", cmd[c], both[c], NotFound)
      BY <1>3, <1>4, <1>6 DEF Answered, Lookup, Exists, Dashed
    <2> QED BY <1>1, <1>2, <1>6, <1>8, <2>1, <2>2, OnwardStep DEF Step
  <1>10. ASSUME NEW n \in found, cmd[c].op = "has", Answer(c, Ok(<<>>)), cmd' = cmd
         PROVE  StoreInv'
    <2>1. /\ pc' = [pc EXCEPT ![c] = "idle"] /\ cmd' = [cmd EXCEPT ![c] = cmd[c]]
          /\ answer' = [answer EXCEPT ![c] = Ok(<<>>)]
      BY <1>5, <1>10 DEF Answer
    <2>2. ~quiet[c]
      BY <1>7, <1>10
    <2> QED BY <1>1, <1>2, <1>6, <1>8, <2>1, <2>2, OnwardStep DEF Step
  <1>11. ASSUME NEW n \in found, cmd[c].op # "has",
                cmd' = [cmd EXCEPT ![c].at = n], pc' = [pc EXCEPT ![c] = "read"],
                answer' = answer
         PROVE  StoreInv'
    <2> DEFINE m == [cmd[c] EXCEPT !.at = n]
    <2>1. /\ cmd' = [cmd EXCEPT ![c] = m] /\ answer' = [answer EXCEPT ![c] = answer[c]]
      BY <1>5, <1>11
    <2>2. n \in Name /\ n \in Path
      BY <1>3 DEF Dashed, Name, Path
    <2>3. m \in Command /\ m.at = n /\ m.op = cmd[c].op
      BY <1>2, <2>2 DEF Command
    <2> HIDE DEF m
    <2>4. Fits("read", m, ops)
      BY <1>3, <1>11, <2>2, <2>3 DEF Fits
    <2>5. ~quiet[c]
      BY <1>7, <1>11
    <2> HIDE DEF found
    <2> QED BY <1>1, <1>2, <1>11, <2>1, <2>3, <2>4, <2>5, OnwardStep DEF Step
  <1> QED BY <1>9, <1>10, <1>11 DEF ScanDir

\* read(): the record that was seen, unless it has gone.
LEMMA ReadFileStep ==
    ASSUME StoreInv, NEW c \in Client, ReadFile(c)
    PROVE  StoreInv'
  <1> DEFINE a == IF Exists(cmd[c].at) THEN Ok(file[cmd[c].at]) ELSE NotFound
  <1>1. /\ pc[c] = "read" /\ file' = file /\ fd' = fd /\ damaged' = damaged
        /\ crashes' = crashes /\ ops' = ops /\ quiet' = quiet /\ both' = both
        /\ pc' = [pc EXCEPT ![c] = "idle"] /\ answer' = [answer EXCEPT ![c] = a] /\ cmd' = cmd
    BY DEF ReadFile, Answer, hist
  <1>2. /\ cmd[c] \in Command /\ cmd \in [Client -> Command] /\ cmd[c].op = "read"
        /\ cmd[c].at \in Path
    BY <1>1, TaskFacts DEF StoreInv, TaskTypeOK, Fits, Command
  <1>3. cmd' = [cmd EXCEPT ![c] = cmd[c]]
    BY <1>1, <1>2, SameValue
  <1>4. a \in Reply
    <2>1. file[cmd[c].at] # Absent => file[cmd[c].at] \in Content
      BY <1>2 DEF StoreInv, StoreTypeOK
    <2> QED BY <2>1, Records DEF Exists
  <1>5. quiet[c] => Learnt("read", cmd[c], both[c])
    BY <1>1 DEF StoreInv, LearntOK
  <1>6. quiet[c] => Answered("idle", cmd[c], both[c], a)
    BY <1>2, <1>5 DEF Answered, Learnt, Lookup, Exists, Dashed
  <1>7. Fits("idle", cmd[c], ops) /\ Learnt("idle", cmd[c], both[c])
    BY DEF Fits, Learnt
  <1> HIDE DEF a
  <1> QED BY <1>1, <1>2, <1>3, <1>4, <1>6, <1>7, OnwardStep DEF Step

\* get_or_create_buid() answers, or goes on to make one.
LEMMA ReadBuidFileStep ==
    ASSUME StoreInv, NEW c \in Client, ReadBuidFile(c)
    PROVE  StoreInv'
  <1>1. /\ pc[c] = "readBuid" /\ file' = file /\ fd' = fd /\ damaged' = damaged
        /\ crashes' = crashes /\ ops' = ops /\ quiet' = quiet /\ both' = both
    BY DEF ReadBuidFile
  <1>2. /\ cmd[c] \in Command /\ answer[c] \in Reply /\ cmd \in [Client -> Command]
        /\ answer \in [Client -> Reply] /\ ops \in 0..MaxOps
        /\ cmd[c].op = "buid" /\ cmd[c].at = "buid" /\ ops > 0
    BY <1>1, TaskFacts DEF StoreInv, TaskTypeOK, Fits
  <1>3. cmd = [cmd EXCEPT ![c] = cmd[c]] /\ answer = [answer EXCEPT ![c] = answer[c]]
    BY <1>2, SameValue
  <1>4. CASE /\ file["buid"] \notin {Absent, <<>>} /\ Answer(c, Ok(file["buid"])) /\ cmd' = cmd
    <2> DEFINE a == Ok(file["buid"])
    <2>1. /\ pc' = [pc EXCEPT ![c] = "idle"] /\ cmd' = [cmd EXCEPT ![c] = cmd[c]]
          /\ answer' = [answer EXCEPT ![c] = a]
      BY <1>3, <1>4 DEF Answer
    <2>2. a \in Reply
      <3>1. file["buid"] \in Content
        BY <1>4 DEF StoreInv, StoreTypeOK, Path
      <3> QED BY <3>1, Records
    <2> HIDE DEF a
    <2>3. Fits("idle", cmd[c], ops) /\ Learnt("idle", cmd[c], both[c])
          /\ Answered("idle", cmd[c], both[c], a)
      BY <1>2 DEF Fits, Learnt, Answered
    <2> QED BY <1>1, <1>2, <2>1, <2>2, <2>3, OnwardStep DEF Step
  <1>5. CASE /\ cmd' = [cmd EXCEPT ![c].data = <<ops>>] /\ pc' = [pc EXCEPT ![c] = "open"]
             /\ answer' = answer
    <2> DEFINE m == [cmd[c] EXCEPT !.data = <<ops>>]
    <2>1. /\ cmd' = [cmd EXCEPT ![c] = m] /\ answer' = [answer EXCEPT ![c] = answer[c]]
      BY <1>3, <1>5
    <2>2. <<ops>> \in Content /\ Len(<<ops>>) = 1
      <3>1. ops \in 1..MaxOps
        BY <1>2, StoreConstants
      <3> QED BY <3>1, BuidContent
    <2>3. m \in Command /\ m.data = <<ops>> /\ m.op = "buid" /\ m.at = "buid"
      BY <1>2, <2>2 DEF Command
    <2> HIDE DEF m
    <2>4. Fits("open", m, ops) /\ Learnt("open", m, both[c]) /\ Answered("open", m, both[c], answer[c])
      BY <2>2, <2>3 DEF Fits, Learnt, Answered
    <2> QED BY <1>1, <1>2, <1>5, <2>1, <2>3, <2>4, OnwardStep DEF Step
  <1> QED BY <1>4, <1>5 DEF ReadBuidFile

\* A change of a file by c: what other tasks learnt is not relied on any more.
LEMMA DisturbStep ==
    ASSUME StoreInv, NEW c \in Client, Disturb(c),
           Learnt(pc[c], cmd[c], both[c])',
           quiet[c] => Answered(pc[c], cmd[c], both[c], answer[c])'
    PROVE  LearntOK' /\ AnswersOK' /\ quiet' \in [Client -> BOOLEAN]
  <1>1. quiet \in [Client -> BOOLEAN] /\ quiet' = [d \in Client |-> quiet[d] /\ d = c]
    BY DEF StoreInv, TaskTypeOK, Disturb
  <1>2. quiet' \in [Client -> BOOLEAN] /\ \A d \in Client : quiet'[d] => d = c /\ quiet[c]
    BY <1>1, Zenon
  <1> QED BY <1>2 DEF LearntOK, AnswersOK

\* remove_file().
LEMMA RemoveFileStep ==
    ASSUME StoreInv, NEW c \in Client, RemoveFile(c)
    PROVE  StoreInv'
  <1> DEFINE p == cmd[c].at
             a == IF Exists(p) THEN Ok(<<>>) ELSE [code |-> "BadCommand", data |-> <<>>]
  <1>1. /\ pc[c] = "delete" /\ file' = [file EXCEPT ![p] = Absent]
        /\ fd' = [d \in Client |-> IF fd[d] = p THEN "unlinked" ELSE fd[d]]
        /\ damaged' = damaged \ {p}
        /\ pc' = [pc EXCEPT ![c] = "idle"] /\ answer' = [answer EXCEPT ![c] = a]
        /\ Disturb(c)
        /\ cmd' = cmd /\ ops' = ops /\ crashes' = crashes /\ both' = both
    BY DEF RemoveFile, Answer
  <1>2. /\ cmd[c] \in Command /\ cmd[c].op = "delete" /\ p \in Name /\ cmd[c].id \in Name
        /\ p \in Path /\ fd[c] = "none"
    BY <1>1, TaskFacts DEF Fits, Command, Path
  <1>3. a \in Reply
    BY Records, ContentFacts
  <1> HIDE DEF a
  <1>4. /\ file \in [Path -> {Absent} \cup Content] /\ pc \in [Client -> Step]
        /\ fd \in [Client -> Path \cup {"none", "unlinked"}] /\ answer \in [Client -> Reply]
        /\ damaged \in SUBSET Path
    BY DEF StoreInv, StoreTypeOK, TaskTypeOK, Step
  <1>5. /\ file' \in [Path -> {Absent} \cup Content] /\ pc' \in [Client -> Step]
        /\ fd' \in [Client -> Path \cup {"none", "unlinked"}] /\ answer' \in [Client -> Reply]
        /\ damaged' \in SUBSET Path
    BY <1>1, <1>2, <1>3, <1>4 DEF Step
  <1>6. /\ file'[p] = Absent /\ \A n \in Path \ {p} : file'[n] = file[n]
        /\ pc'[c] = "idle" /\ \A d \in Client \ {c} : pc'[d] = pc[d]
        /\ answer'[c] = a
        /\ \A d \in Client : fd'[d] = IF fd[d] = p THEN "unlinked" ELSE fd[d]
    BY <1>1, <1>2, <1>4
  <1>7. StoreTypeOK'
    <2>1. \A d \in Client : fd'[d] # "none" <=> pc'[d] \in {"write", "sync"}
      BY <1>2, <1>6, TaskFacts DEF Path, Name
    <2> QED BY <1>1, <1>5, <2>1 DEF StoreInv, StoreTypeOK, Step
  <1>8. CmdOK'
    BY <1>1, <1>6 DEF StoreInv, CmdOK, Fits
  <1>9. \A d \in Client : fd'[d] \in Path => fd'[d] = fd[d] /\ fd[d] # p /\ d # c
    BY <1>2, <1>6 DEF Path, Name
  <1>10. FdOK'
    BY <1>1, <1>5, <1>6, <1>9 DEF StoreInv, FdOK, Exists
  <1>11. WriterOK'
    BY <1>1, <1>6, <1>9 DEF StoreInv, WriterOK
  <1>12. SavedIsWhole'
    <2> SUFFICES ASSUME NEW n \in Path \ damaged', Writers(n)' = {}, n # p
                 PROVE  \/ file'[n] = Absent
                        \/ n = "buid" /\ Len(file'[n]) = 1
                        \/ n # "buid" /\ file'[n] \in Record
      BY <1>6 DEF SavedIsWhole
    <2>1. Writers(n) = {} /\ n \notin damaged
      BY <1>1, <1>6 DEF Writers
    <2> QED BY <1>6, <2>1 DEF StoreInv, SavedIsWhole
  <1>13. quiet[c] => Answered(pc[c], cmd[c], both[c], answer[c])'
    <2> SUFFICES ASSUME quiet[c], a.code = "OK"
                 PROVE  /\ file'[cmd[c].id] = Absent
                        /\ both[c] \/ Lookup(cmd[c].id)' = Absent
      BY <1>1, <1>2, <1>6 DEF Answered, Exists
    <2>1. Learnt("delete", cmd[c], both[c])
      BY <1>1 DEF StoreInv, LearntOK
    <2>2. file'[cmd[c].id] = Absent
      BY <1>2, <1>6, <2>1 DEF Learnt, Exists, Path
    <2>3. both[c] \/ file'["dashed"] = Absent
      BY <1>2, <1>6, <2>1 DEF Learnt, Exists, Path, Name
    <2> QED BY <1>1, <2>2, <2>3 DEF Lookup, Exists, Dashed
  <1>14. Learnt(pc[c], cmd[c], both[c])'
    BY <1>6 DEF Learnt
  <1>15. LearntOK' /\ AnswersOK' /\ quiet' \in [Client -> BOOLEAN]
    BY <1>1, <1>13, <1>14, DisturbStep
  <1>16. TaskTypeOK'
    BY <1>1, <1>5, <1>15 DEF StoreInv, TaskTypeOK
  <1> QED BY <1>7, <1>8, <1>10, <1>11, <1>12, <1>15, <1>16 DEF StoreInv

\* open() with truncation.
LEMMA OpenStep ==
    ASSUME StoreInv, NEW c \in Client, Open(c)
    PROVE  StoreInv'
  <1> DEFINE p == cmd[c].at
  <1>1. /\ pc[c] = "open" /\ file' = [file EXCEPT ![p] = <<>>]
        /\ fd' = [fd EXCEPT ![c] = p]
        /\ damaged' = IF Writers(p) = {} THEN damaged \ {p} ELSE damaged \cup {p}
        /\ pc' = [pc EXCEPT ![c] = "write"]
        /\ Disturb(c)
        /\ cmd' = cmd /\ ops' = ops /\ crashes' = crashes /\ both' = both /\ answer' = answer
    BY DEF Open
  <1>2. cmd[c] \in Command /\ p \in Path /\ fd[c] = "none" /\ Fits("open", cmd[c], ops)
    BY <1>1, TaskFacts DEF Command
  <1>3. /\ file \in [Path -> {Absent} \cup Content] /\ pc \in [Client -> Step]
        /\ fd \in [Client -> Path \cup {"none", "unlinked"}] /\ damaged \in SUBSET Path
    BY DEF StoreInv, StoreTypeOK, Step
  <1>4. /\ file' \in [Path -> {Absent} \cup Content] /\ pc' \in [Client -> Step]
        /\ fd' \in [Client -> Path \cup {"none", "unlinked"}] /\ damaged' \in SUBSET Path
    BY <1>1, <1>2, <1>3, ContentFacts DEF Step
  <1>5. /\ file'[p] = <<>> /\ \A n \in Path \ {p} : file'[n] = file[n]
        /\ pc'[c] = "write" /\ \A d \in Client \ {c} : pc'[d] = pc[d]
        /\ fd'[c] = p /\ \A d \in Client \ {c} : fd'[d] = fd[d]
    BY <1>1, <1>2, <1>3
  <1>6. StoreTypeOK'
    <2>1. \A d \in Client : fd'[d] # "none" <=> pc'[d] \in {"write", "sync"}
      BY <1>2, <1>5, TaskFacts DEF Path, Name
    <2> QED BY <1>1, <1>4, <2>1 DEF StoreInv, StoreTypeOK, Step
  <1>7. CmdOK'
    <2>1. Fits("write", cmd[c], ops)
      BY <1>2 DEF Fits
    <2> QED BY <1>1, <1>5, <2>1 DEF StoreInv, CmdOK
  <1>8. FdOK'
    <2>1. <<>> # Absent
      BY ContentFacts
    <2> QED BY <1>1, <1>2, <1>3, <1>5, <2>1 DEF StoreInv, FdOK, Exists
  <1>9. \A d \in Client : fd[d] = p => p \in damaged'
    BY <1>1 DEF Writers
  <1>10. \A n \in Path \ {p} : n \notin damaged' => n \notin damaged
    BY <1>1
  <1>11. WriterOK'
    <2> SUFFICES ASSUME NEW d \in Client, fd'[d] \in Path \ damaged'
                 PROVE  /\ \A e \in Client : fd'[e] = fd'[d] => e = d
                        /\ pc'[d] = "write" => file'[fd'[d]] = <<>>
                        /\ pc'[d] = "sync" => file'[fd'[d]] = cmd[d].data
      BY <1>1 DEF WriterOK
    <2>1. CASE fd'[d] = p
      BY <2>1, <1>5, <1>9
    <2>2. CASE fd'[d] # p
      BY <2>2, <1>1, <1>5, <1>10 DEF StoreInv, WriterOK
    <2> QED BY <2>1, <2>2
  <1>12. SavedIsWhole'
    <2> SUFFICES ASSUME NEW n \in Path \ damaged', Writers(n)' = {}
                 PROVE  \/ file'[n] = Absent
                        \/ n = "buid" /\ Len(file'[n]) = 1
                        \/ n # "buid" /\ file'[n] \in Record
      BY DEF SavedIsWhole
    <2>1. n # p
      BY <1>5 DEF Writers
    <2>2. Writers(n) = {} /\ n \notin damaged
      BY <1>2, <1>5, <1>10, <2>1 DEF Writers, Path, Name
    <2> QED BY <1>5, <2>1, <2>2 DEF StoreInv, SavedIsWhole
  <1>13. Learnt(pc[c], cmd[c], both[c])' /\ Answered(pc[c], cmd[c], both[c], answer[c])'
    BY <1>5 DEF Learnt, Answered
  <1>14. LearntOK' /\ AnswersOK' /\ quiet' \in [Client -> BOOLEAN]
    BY <1>1, <1>13, DisturbStep
  <1>15. TaskTypeOK'
    BY <1>1, <1>14 DEF StoreInv, TaskTypeOK
  <1> QED BY <1>6, <1>7, <1>8, <1>11, <1>12, <1>14, <1>15 DEF StoreInv

\* write() at offset 0.
LEMMA WriteFileStep ==
    ASSUME StoreInv, NEW c \in Client, WriteFile(c)
    PROVE  StoreInv'
  <1> DEFINE p == fd[c]
             x == Overlay(cmd[c].data, file[p])
  <1>1. /\ pc[c] = "write" /\ pc' = [pc EXCEPT ![c] = "sync"] /\ Disturb(c)
        /\ IF p = "unlinked" THEN file' = file ELSE file' = [file EXCEPT ![p] = x]
        /\ cmd' = cmd /\ fd' = fd /\ ops' = ops /\ crashes' = crashes /\ both' = both
        /\ answer' = answer /\ damaged' = damaged
    BY DEF WriteFile
  <1>2. /\ cmd[c] \in Command /\ p \in Path \cup {"unlinked"} /\ Fits("write", cmd[c], ops)
        /\ cmd[c].data \in Content
    BY <1>1, TaskFacts DEF Command
  <1>3. /\ file \in [Path -> {Absent} \cup Content] /\ pc \in [Client -> Step]
        /\ damaged \in SUBSET Path
    BY DEF StoreInv, StoreTypeOK, Step
  <1>4. "unlinked" \notin Path /\ "none" \notin Path
    BY DEF Path, Name
  <1>5. /\ p \in Path => file[p] \in Content /\ x \in Content
        /\ p \in Path \ damaged => x = cmd[c].data
    <2>1. p \in Path => file[p] \in Content
      BY <1>3, <1>4 DEF StoreInv, FdOK, Exists
    <2>2. p \in Path \ damaged => file[p] = <<>>
      BY <1>1 DEF StoreInv, WriterOK
    <2> QED BY <1>2, <2>1, <2>2, OverlayFacts
  <1> HIDE DEF x
  <1>6. /\ file' \in [Path -> {Absent} \cup Content] /\ pc' \in [Client -> Step]
        /\ p \in Path => file'[p] = x
        /\ \A n \in Path \ {p} : file'[n] = file[n]
        /\ pc'[c] = "sync" /\ \A d \in Client \ {c} : pc'[d] = pc[d]
    BY <1>1, <1>2, <1>3, <1>4, <1>5 DEF Step
  <1>7. StoreTypeOK'
    <2>1. \A d \in Client : fd'[d] # "none" <=> pc'[d] \in {"write", "sync"}
      BY <1>1, <1>6, TaskFacts
    <2> QED BY <1>1, <1>6, <2>1 DEF StoreInv, StoreTypeOK, Step
  <1>8. CmdOK'
    <2>1. Fits("sync", cmd[c], ops)
      BY <1>2 DEF Fits
    <2> QED BY <1>1, <1>6, <2>1 DEF StoreInv, CmdOK
  <1>9. FdOK'
    <2>1. p \in Path => file'[p] # Absent
      BY <1>5, <1>6, ContentFacts
    <2>2. \A d \in Client : fd[d] \in {"none", "unlinked"} \/ fd[d] \in Path
      BY TaskFacts
    <2> QED BY <1>1, <1>6, <2>1, <2>2 DEF StoreInv, FdOK, Exists
  <1>10. WriterOK'
    <2> SUFFICES ASSUME NEW d \in Client, fd[d] \in Path \ damaged
                 PROVE  /\ \A e \in Client : fd[e] = fd[d] => e = d
                        /\ pc'[d] = "write" => file'[fd[d]] = <<>>
                        /\ pc'[d] = "sync" => file'[fd[d]] = cmd[d].data
      BY <1>1 DEF WriterOK
    <2>1. \A e \in Client : fd[e] = fd[d] => e = d
      BY DEF StoreInv, WriterOK
    <2>2. CASE d = c
      BY <2>1, <2>2, <1>5, <1>6
    <2>3. CASE d # c
      BY <2>1, <2>3, <1>6 DEF StoreInv, WriterOK
    <2> QED BY <2>1, <2>2, <2>3
  <1>11. SavedIsWhole'
    <2> SUFFICES ASSUME NEW n \in Path \ damaged, Writers(n) = {}
                 PROVE  \/ file'[n] = Absent
                        \/ n = "buid" /\ Len(file'[n]) = 1
                        \/ n # "buid" /\ file'[n] \in Record
      BY <1>1 DEF SavedIsWhole, Writers
    <2>1. n # p
      BY DEF Writers
    <2> QED BY <1>6, <2>1 DEF StoreInv, SavedIsWhole
  <1>12. Learnt(pc[c], cmd[c], both[c])' /\ Answered(pc[c], cmd[c], both[c], answer[c])'
    BY <1>6 DEF Learnt, Answered
  <1>13. LearntOK' /\ AnswersOK' /\ quiet' \in [Client -> BOOLEAN]
    BY <1>1, <1>12, DisturbStep
  <1>14. TaskTypeOK'
    BY <1>1, <1>13 DEF StoreInv, TaskTypeOK
  <1> QED BY <1>7, <1>8, <1>9, <1>10, <1>11, <1>13, <1>14 DEF StoreInv

\* A task gives its descriptor back and answers; marked is what it leaves torn.
LEMMA CloseStep ==
    ASSUME StoreInv, NEW c \in Client, NEW a \in Reply,
           pc[c] \in {"open", "write", "sync"},
           pc[c] = "write" => {fd[c]} \cap Path \subseteq damaged',
           damaged \subseteq damaged', damaged' \subseteq Path,
           fd' = [fd EXCEPT ![c] = "none"], pc' = [pc EXCEPT ![c] = "idle"],
           answer' = [answer EXCEPT ![c] = a], crashes' \in 0..MaxCrash,
           file' = file, cmd' = cmd, ops' = ops, quiet' = quiet, both' = both
    PROVE  StoreInv'
  <1>1. /\ fd \in [Client -> Path \cup {"none", "unlinked"}] /\ pc \in [Client -> Step]
        /\ answer \in [Client -> Reply]
    BY DEF StoreInv, StoreTypeOK, TaskTypeOK, Step
  <1>2. /\ fd' \in [Client -> Path \cup {"none", "unlinked"}] /\ pc' \in [Client -> Step]
        /\ answer' \in [Client -> Reply]
        /\ fd'[c] = "none" /\ pc'[c] = "idle"
        /\ \A d \in Client \ {c} : fd'[d] = fd[d] /\ pc'[d] = pc[d] /\ answer'[d] = answer[d]
    BY <1>1 DEF Step
  <1>3. /\ cmd[c].op \in {"buid", "save"} /\ "none" \notin Path
        /\ \/ cmd[c].at = "buid" /\ Len(cmd[c].data) = 1
           \/ cmd[c].at # "buid" /\ cmd[c].data \in Record
        /\ fd[c] # "none" <=> pc[c] \in {"write", "sync"}
    BY TaskFacts DEF Fits, Path, Name
  <1>4. StoreTypeOK'
    <2>1. \A d \in Client : fd'[d] # "none" <=> pc'[d] \in {"write", "sync"}
      BY <1>2, TaskFacts
    <2> QED BY <1>2, <2>1 DEF StoreInv, StoreTypeOK, Step
  <1>5. TaskTypeOK'
    BY <1>2 DEF StoreInv, TaskTypeOK
  <1>6. CmdOK'
    <2>1. Fits("idle", cmd[c], ops)
      BY DEF Fits
    <2> QED BY <1>2, <2>1 DEF StoreInv, CmdOK
  <1>7. FdOK'
    BY <1>2 DEF StoreInv, FdOK, Exists
  <1>8. WriterOK'
    BY <1>2, <1>3 DEF StoreInv, WriterOK
  <1>9. SavedIsWhole'
    <2> SUFFICES ASSUME NEW n \in Path \ damaged', Writers(n)' = {}
                 PROVE  \/ file[n] = Absent
                        \/ n = "buid" /\ Len(file[n]) = 1
                        \/ n # "buid" /\ file[n] \in Record
      BY DEF SavedIsWhole
    <2>1. \A d \in Client \ {c} : fd[d] # n
      BY <1>2 DEF Writers
    <2>2. CASE fd[c] = n
      <3>1. pc[c] = "sync" /\ cmd[c].at = n
        BY <2>2, <1>3 DEF StoreInv, FdOK, Path, Name
      <3>2. file[n] = cmd[c].data
        BY <2>2, <3>1 DEF StoreInv, WriterOK
      <3> QED BY <1>3, <3>1, <3>2
    <2>3. CASE fd[c] # n
      BY <2>1, <2>3 DEF StoreInv, SavedIsWhole, Writers
    <2> QED BY <2>2, <2>3
  <1>10. LearntOK'
    <2>1. Learnt("idle", cmd[c], both[c])
      BY DEF Learnt
    <2>2. \A d \in Client : quiet[d] => Learnt(pc'[d], cmd[d], both[d])
      BY <1>2, <2>1 DEF StoreInv, LearntOK
    <2> QED BY <2>2 DEF LearntOK, Learnt, Exists
  <1>11. AnswersOK'
    <2>1. Answered("idle", cmd[c], both[c], answer'[c])
      BY <1>3 DEF Answered
    <2>2. \A d \in Client : quiet[d] => Answered(pc'[d], cmd[d], both[d], answer'[d])
      BY <1>2, <2>1 DEF StoreInv, AnswersOK
    <2> QED BY <2>2 DEF AnswersOK, Answered, Lookup, Exists
  <1> QED BY <1>4, <1>5, <1>6, <1>7, <1>8, <1>9, <1>10, <1>11 DEF StoreInv

\* A failed open or write, and sync_all(), end in an answer.
LEMMA WriteEndsStep ==
    ASSUME StoreInv, NEW c \in Client, WriteFails(c) \/ Sync(c)
    PROVE  StoreInv'
  <1>1. crashes \in 0..MaxCrash /\ MaxCrash \in Nat /\ damaged \subseteq Path
    BY StoreConstants DEF StoreInv, StoreTypeOK
  <1>2. \E a \in Reply : Answer(c, a)
    <2>1. cmd[c].data \in Content
      BY TaskFacts DEF Command
    <2>2. /\ Ok(cmd[c].data) \in Reply /\ Ok(<<>>) \in Reply
          /\ [code |-> "BadCommand", data |-> <<>>] \in Reply
      BY <2>1, Records, ContentFacts
    <2>3. \/ Answer(c, Ok(cmd[c].data)) \/ Answer(c, Ok(<<>>))
          \/ Answer(c, [code |-> "BadCommand", data |-> <<>>])
      BY DEF WriteFails, Sync
    <2> QED BY <2>2, <2>3
  <1>3. PICK a \in Reply : answer' = [answer EXCEPT ![c] = a] /\ pc' = [pc EXCEPT ![c] = "idle"]
    BY <1>2 DEF Answer
  <1>4. CASE WriteFails(c)
    <2>1. /\ pc[c] \in {"open", "write"} /\ crashes < MaxCrash /\ crashes' = crashes + 1
          /\ damaged' = damaged \cup ({fd[c]} \cap Path) /\ fd' = [fd EXCEPT ![c] = "none"]
          /\ file' = file /\ cmd' = cmd /\ ops' = ops /\ quiet' = quiet /\ both' = both
      BY <1>4 DEF WriteFails
    <2>2. /\ crashes' \in 0..MaxCrash /\ damaged \subseteq damaged' /\ damaged' \subseteq Path
          /\ {fd[c]} \cap Path \subseteq damaged'
      BY <1>1, <2>1
    <2> QED BY <1>3, <2>1, <2>2, CloseStep
  <1>5. CASE Sync(c)
    <2>1. /\ pc[c] = "sync" /\ crashes' = crashes /\ damaged' = damaged
          /\ fd' = [fd EXCEPT ![c] = "none"]
          /\ file' = file /\ cmd' = cmd /\ ops' = ops /\ quiet' = quiet /\ both' = both
      BY <1>5 DEF Sync
    <2> QED BY <1>1, <1>3, <2>1, CloseStep
  <1> QED BY <1>4, <1>5

\* The daemon dies: a file whose one writer had not written is marked.
LEMMA CrashStep ==
    ASSUME StoreInv, Crash
    PROVE  StoreInv'
  <1>1. /\ crashes < MaxCrash /\ crashes' = crashes + 1
        /\ damaged' = damaged \cup
                {fd[c] : c \in {d \in Client : fd[d] \in Path /\ pc[d] = "write"}}
        /\ pc' = [c \in Client |-> "idle"] /\ fd' = [c \in Client |-> "none"]
        /\ cmd' = [c \in Client |-> NoCmd] /\ answer' = [c \in Client |-> NotFound]
        /\ file' = file /\ ops' = ops /\ quiet' = quiet /\ both' = both
    BY DEF Crash
  <1>2. NoCmd \in Command /\ NotFound \in Reply /\ NoCmd.op = "none" /\ NoCmd.at \in Path
    BY Records DEF NoCmd, Path, Name
  <1>3. StoreTypeOK'
    <2>1. crashes' \in 0..MaxCrash /\ damaged' \in SUBSET Path
      BY <1>1, StoreConstants DEF StoreInv, StoreTypeOK
    <2> QED BY <1>1, <1>2, <2>1 DEF StoreInv, StoreTypeOK
  <1>4. TaskTypeOK'
    BY <1>1, <1>2 DEF StoreInv, TaskTypeOK
  <1>5. CmdOK' /\ FdOK'
    BY <1>1 DEF CmdOK, Fits, FdOK
  <1>6. WriterOK'
    BY <1>1 DEF WriterOK, Path, Name
  <1>7. SavedIsWhole'
    <2> SUFFICES ASSUME NEW n \in Path \ damaged'
                 PROVE  \/ file[n] = Absent
                        \/ n = "buid" /\ Len(file[n]) = 1
                        \/ n # "buid" /\ file[n] \in Record
      BY <1>1 DEF SavedIsWhole
    <2>1. CASE \E c \in Client : fd[c] = n
      <3>1. PICK c \in Client : fd[c] = n
        BY <2>1
      <3>2. pc[c] = "sync" /\ cmd[c].at = n
        BY <1>1, <3>1, TaskFacts DEF StoreInv, FdOK, Path, Name
      <3>3. file[n] = cmd[c].data
        BY <1>1, <3>1, <3>2 DEF StoreInv, WriterOK
      <3>4. \/ cmd[c].at = "buid" /\ Len(cmd[c].data) = 1
            \/ cmd[c].at # "buid" /\ cmd[c].data \in Record
        BY <3>2, TaskFacts DEF Fits, Name
      <3> QED BY <3>2, <3>3, <3>4
    <2>2. CASE \A c \in Client : fd[c] # n
      BY <1>1, <2>2 DEF StoreInv, SavedIsWhole, Writers
    <2> QED BY <2>1, <2>2
  <1>8. LearntOK' /\ AnswersOK'
    BY <1>1, <1>2 DEF LearntOK, AnswersOK, Learnt, Answered
  <1> QED BY <1>3, <1>4, <1>5, <1>6, <1>7, <1>8 DEF StoreInv

\* No file is there and nobody asks.
LEMMA StoreInit == Init => StoreInv
  <1> SUFFICES ASSUME Init PROVE StoreInv
    OBVIOUS
  <1>1. NoCmd \in Command /\ NotFound \in Reply /\ NoCmd.op = "none" /\ NoCmd.at \in Path
    BY Records DEF NoCmd, Path, Name
  <1>2. StoreTypeOK
    BY <1>1, StoreConstants DEF Init, StoreTypeOK
  <1>3. TaskTypeOK
    BY <1>1 DEF Init, TaskTypeOK
  <1>4. CmdOK /\ FdOK /\ WriterOK
    BY DEF Init, CmdOK, Fits, FdOK, WriterOK, Path, Name
  <1>5. SavedIsWhole /\ LearntOK /\ AnswersOK
    BY DEF Init, SavedIsWhole, LearntOK, AnswersOK
  <1> QED BY <1>2, <1>3, <1>4, <1>5 DEF StoreInv

\* StoreInv holds in every state of every behaviour.
THEOREM StoreInvariant == Spec => []StoreInv
  <1>1. StoreInv /\ [Next]_vars => StoreInv'
    <2> SUFFICES ASSUME StoreInv, [Next]_vars PROVE StoreInv'
      OBVIOUS
    <2>1. CASE Next
      BY <2>1, RequestStep, BadRequestStep, StatStep, ScanDirStep, ReadFileStep, RemoveFileStep,
         OpenStep, WriteFileStep, WriteEndsStep, ReadBuidFileStep, CrashStep DEF Next
    <2>2. CASE UNCHANGED vars
      <3>1. /\ file' = file /\ pc' = pc /\ cmd' = cmd /\ fd' = fd /\ answer' = answer
            /\ ops' = ops /\ crashes' = crashes /\ quiet' = quiet /\ both' = both
            /\ damaged' = damaged
        BY <2>2 DEF vars, hist
      <3>2. StoreTypeOK' /\ TaskTypeOK' /\ CmdOK' /\ FdOK' /\ WriterOK' /\ SavedIsWhole'
        BY <3>1 DEF StoreInv, StoreTypeOK, TaskTypeOK, CmdOK, FdOK, Exists, WriterOK,
                    SavedIsWhole, Writers
      <3>3. LearntOK' /\ AnswersOK'
        BY <3>1 DEF StoreInv, LearntOK, Learnt, AnswersOK, Answered, Lookup, Exists
      <3> QED BY <3>2, <3>3 DEF StoreInv
    <2> QED BY <2>1, <2>2
  <1> QED BY <1>1, StoreInit, PTL DEF Spec

\* secure_write_secret(): a file that nobody writes holds one whole record or
\* BUID, unless saves of it overlapped or one was cut off.
THEOREM DamageConfined == Spec => []SavedIsWhole
  BY StoreInvariant, PTL DEF StoreInv

\* read_pair_record() and has_pair_record() answer as if they had looked once,
\* when no file changed meanwhile.
THEOREM LookupsExact == Spec => []QuietAnswersExact
  <1>1. StoreInv => QuietAnswersExact
    BY AnswersExact DEF StoreInv
  <1> QED BY <1>1, StoreInvariant, PTL

\* delete_pair_record() leaves nothing to read, unless both names were there.
THEOREM DeletesRemove == Spec => []DeleteRemoves
  <1>1. StoreInv => DeleteRemoves
    BY AnswersExact DEF StoreInv
  <1> QED BY <1>1, StoreInvariant, PTL
-----------------------------------------------------------------------------
(* The BUID.                                                               *)

\* A step from a settled BUID leaves it and the file as they are: who writes
\* it has been on its way before, and records have other names.
LEMMA SettledStep ==
    ASSUME StoreInv, BuidSettled, [Next]_vars
    PROVE  BuidSettled' /\ file'["buid"] = file["buid"]
  <1>1. /\ file["buid"] \notin {Absent, <<>>}
        /\ \A c \in Client : cmd[c].op = "buid" => pc[c] \notin {"open", "write"}
    BY DEF BuidSettled
  <1>2. /\ file \in [Path -> {Absent} \cup Content] /\ pc \in [Client -> Step]
        /\ cmd \in [Client -> Command] /\ "buid" \in Path /\ "buid" \notin Name
    BY DEF StoreInv, StoreTypeOK, TaskTypeOK, Step, Path, Name
  <1>3. ASSUME file' = file, \A c \in Client : cmd'[c].op = "buid" => pc'[c] \notin {"open", "write"}
        PROVE  BuidSettled' /\ file'["buid"] = file["buid"]
    BY <1>1, <1>3 DEF BuidSettled
  <1>4. ASSUME NEW c \in Client, NEW op \in Op, NEW id, NEW at, NEW data, NEW next,
               Begin(c, op, id, at, data, next), op = "buid" => next = "readBuid"
        PROVE  BuidSettled' /\ file'["buid"] = file["buid"]
    <2>1. /\ file' = file /\ pc' = [pc EXCEPT ![c] = next]
          /\ cmd' = [cmd EXCEPT ![c] = [op |-> op, id |-> id, at |-> at, data |-> data]]
      BY <1>4 DEF Begin
    <2>2. /\ pc'[c] = next /\ cmd'[c].op = op
          /\ \A d \in Client \ {c} : pc'[d] = pc[d] /\ cmd'[d] = cmd[d]
      BY <1>2, <2>1
    <2> QED BY <1>1, <1>3, <1>4, <2>1, <2>2
  <1>5. ASSUME NEW c \in Client, file' = file,
               pc'[c] \notin {"open", "write"} \/ cmd'[c].op # "buid",
               \A d \in Client \ {c} : pc'[d] = pc[d] /\ cmd'[d] = cmd[d]
        PROVE  BuidSettled' /\ file'["buid"] = file["buid"]
    BY <1>1, <1>3, <1>5
  <1>6. ASSUME NEW c \in Client, NEW p \in Path \ {"buid"}, NEW x, file' = [file EXCEPT ![p] = x],
               cmd' = cmd, pc'[c] \notin {"open", "write"} \/ cmd[c].op # "buid",
               \A d \in Client \ {c} : pc'[d] = pc[d]
        PROVE  BuidSettled' /\ file'["buid"] = file["buid"]
    <2>1. file'["buid"] = file["buid"]
      BY <1>2, <1>6
    <2> QED BY <1>1, <1>6, <2>1 DEF BuidSettled
  <1>7. ASSUME NEW c \in Client, pc[c] \in {"open", "write"}
        PROVE  cmd[c].op # "buid" /\ cmd[c].at \in Name
    BY <1>1, <1>7, TaskFacts DEF Fits
  <1>8. CASE UNCHANGED vars
    BY <1>1, <1>3, <1>8 DEF vars
  <1>9. CASE Crash
    <2>1. file' = file /\ \A c \in Client : pc'[c] = "idle"
      BY <1>9 DEF Crash
    <2> QED BY <1>3, <2>1
  <1>10. ASSUME NEW c \in Client,
                \/ ReadRequest(c) \/ DeleteRequest(c) \/ HasRequest(c) \/ SaveRequest(c)
                \/ BuidRequest(c)
         PROVE  BuidSettled' /\ file'["buid"] = file["buid"]
    BY <1>4, <1>10 DEF ReadRequest, DeleteRequest, HasRequest, SaveRequest, SavePairRecord,
                       BuidRequest, Op
  <1>11. ASSUME NEW c \in Client,
                BadRequest(c) \/ Stat(c) \/ ScanDir(c) \/ ReadFile(c) \/ Sync(c)
         PROVE  BuidSettled' /\ file'["buid"] = file["buid"]
    <2>1. file' = file
      BY <1>11 DEF BadRequest, Stat, ScanDir, ReadFile, Sync
    <2>2. /\ pc'[c] \notin {"open", "write"}
          /\ \A d \in Client \ {c} : pc'[d] = pc[d] /\ cmd'[d] = cmd[d]
      <3>1. CASE BadRequest(c)
        BY <1>2, <3>1 DEF BadRequest, Answer
      <3>2. CASE Stat(c)
        <4>1. cmd[c].op \in {"read", "has", "delete"}
          BY <3>2, TaskFacts DEF Stat, Fits
        <4> QED BY <1>2, <3>2, <4>1 DEF Stat, Hit, Miss, Answer
      <3>3. CASE ScanDir(c)
        BY <1>2, <3>3 DEF ScanDir, Answer
      <3>4. CASE ReadFile(c)
        BY <1>2, <3>4 DEF ReadFile, Answer
      <3>5. CASE Sync(c)
        BY <1>2, <3>5 DEF Sync, Answer
      <3> QED BY <1>11, <3>1, <3>2, <3>3, <3>4, <3>5
    <2> QED BY <1>5, <2>1, <2>2
  <1>12. ASSUME NEW c \in Client, RemoveFile(c)
         PROVE  BuidSettled' /\ file'["buid"] = file["buid"]
    <2>1. /\ pc[c] = "delete" /\ file' = [file EXCEPT ![cmd[c].at] = Absent] /\ cmd' = cmd
          /\ pc' = [pc EXCEPT ![c] = "idle"]
      BY <1>12 DEF RemoveFile, Answer
    <2>2. cmd[c].at \in Path \ {"buid"}
      BY <2>1, TaskFacts DEF Fits, Path, Name
    <2>3. pc'[c] = "idle" /\ \A d \in Client \ {c} : pc'[d] = pc[d]
      BY <1>2, <2>1
    <2> QED BY <1>6, <2>1, <2>2, <2>3
  <1>13. ASSUME NEW c \in Client, Open(c)
         PROVE  BuidSettled' /\ file'["buid"] = file["buid"]
    <2>1. /\ pc[c] = "open" /\ file' = [file EXCEPT ![cmd[c].at] = <<>>] /\ cmd' = cmd
          /\ pc' = [pc EXCEPT ![c] = "write"]
      BY <1>13 DEF Open
    <2>2. cmd[c].op # "buid" /\ cmd[c].at \in Path \ {"buid"}
      BY <1>2, <1>7, <2>1 DEF Path
    <2>3. \A d \in Client \ {c} : pc'[d] = pc[d]
      BY <1>2, <2>1
    <2> QED BY <1>6, <2>1, <2>2, <2>3
  <1>14. ASSUME NEW c \in Client, WriteFile(c)
         PROVE  BuidSettled' /\ file'["buid"] = file["buid"]
    <2>1. /\ pc[c] = "write" /\ cmd' = cmd /\ pc' = [pc EXCEPT ![c] = "sync"]
          /\ IF fd[c] = "unlinked" THEN file' = file
             ELSE file' = [file EXCEPT ![fd[c]] = Overlay(cmd[c].data, file[fd[c]])]
      BY <1>14 DEF WriteFile
    <2>2. cmd[c].op # "buid" /\ cmd[c].at \in Path \ {"buid"}
      BY <1>2, <1>7, <2>1 DEF Path
    <2>3. pc'[c] = "sync" /\ \A d \in Client \ {c} : pc'[d] = pc[d]
      BY <1>2, <2>1
    <2>4. CASE fd[c] = "unlinked"
      BY <1>5, <2>1, <2>3, <2>4
    <2>5. CASE fd[c] # "unlinked"
      <3>1. fd[c] = cmd[c].at
        BY <2>1, <2>5, TaskFacts DEF StoreInv, FdOK
      <3> QED BY <1>6, <2>1, <2>2, <2>3, <2>5, <3>1
    <2> QED BY <2>4, <2>5
  <1>15. ASSUME NEW c \in Client, WriteFails(c)
         PROVE  BuidSettled' /\ file'["buid"] = file["buid"]
    <2>1. file' = file /\ cmd' = cmd /\ pc' = [pc EXCEPT ![c] = "idle"]
      BY <1>15 DEF WriteFails, Answer
    <2>2. pc'[c] = "idle" /\ \A d \in Client \ {c} : pc'[d] = pc[d]
      BY <1>2, <2>1
    <2> QED BY <1>5, <2>1, <2>2
  <1>16. ASSUME NEW c \in Client, ReadBuidFile(c)
         PROVE  BuidSettled' /\ file'["buid"] = file["buid"]
    <2>1. file' = file /\ cmd' = cmd /\ pc' = [pc EXCEPT ![c] = "idle"]
      BY <1>1, <1>16 DEF ReadBuidFile, Answer
    <2>2. pc'[c] = "idle" /\ \A d \in Client \ {c} : pc'[d] = pc[d]
      BY <1>2, <2>1
    <2> QED BY <1>5, <2>1, <2>2
  <1> QED BY <1>8, <1>9, <1>10, <1>11, <1>12, <1>13, <1>14, <1>15, <1>16 DEF Next

\* get_or_create_buid() settles: once a BUID is in the file and no task is on its
\* way to write another, none ever will be.
THEOREM BuidNeverChanges == Spec => BuidSettles
  <1>1. StoreInv /\ [Next]_vars =>
            [BuidSettled => BuidSettled' /\ file'["buid"] = file["buid"]]_vars
    BY SettledStep
  <1> QED BY <1>1, StoreInvariant, PTL DEF Spec, BuidSettles
=============================================================================
