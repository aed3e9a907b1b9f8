--------------------------- MODULE LockdownClient ---------------------------
(***************************************************************************)
(* The lockdown client that fills in what a device list shows of a phone   *)
(* (device/lockdown.rs, device/info.rs): connect, read the pair record,    *)
(* StartSession, TLS when the phone asks for it, one GetValue per key, and *)
(* ideviceinfo for what is missing.  Requests and answers carry no number, *)
(* and every read has a deadline after which the request is given up.      *)
(*                                                                         *)
(* An answer is three pieces: the first byte of its length, the rest of    *)
(* the length, and the body.  A value is known by the key it belongs to.   *)
(* Phones do not share a connection, so there is one.                      *)
(***************************************************************************)
EXTENDS Integers, Sequences, FiniteSets, SequencesExt

CONSTANTS
    Keys,      \* the keys asked for, in their order
    Needed,    \* the fields without which ideviceinfo is asked: name, ios_version
    None       \* a field that is not set

ASSUME LockdownConstants ==
    /\ Keys \in Seq({Keys[i] : i \in DOMAIN Keys}) /\ Len(Keys) > 0
    /\ Needed \subseteq {Keys[i] : i \in DOMAIN Keys}
    /\ \A i, j \in DOMAIN Keys : Keys[i] = Keys[j] => i = j
    /\ None \notin {Keys[i] : i \in DOMAIN Keys}

VARIABLES
    pc,        \* where get_value() is
    at,        \* index of the key asked for, 0 for StartSession
    got,       \* what the current read has taken from the channel
    out,       \* the pairs collected
    paired,    \* a pair record was read
    tls,       \* the channel is a TLS stream
    asked,     \* requests the phone has not answered
    sending,   \* pieces of an answer not yet on their way
    wire,      \* pieces that have arrived and were not read
    closed,    \* the phone has closed the channel
    ssl,       \* the phone's answer had EnableSessionSSL
    fields,    \* the device's fields
    fallback   \* enrich_device_info (TRUE) or enrich_all (FALSE)

chan == <<asked, sending, wire, closed>>
vars == <<pc, at, got, out, paired, tls, chan, ssl, fields, fallback>>

Key == {Keys[i] : i \in DOMAIN Keys}
IndexOfKey(k) == CHOOSE i \in DOMAIN Keys : Keys[i] = k
Reading == {"session", "await"}

Piece(part, i, kind) == [part |-> part, of |-> i, kind |-> kind]
Frame(i, kind) == [n \in 1..3 |-> Piece(<<"h1", "h2", "body">>[n], i, kind)]

\* get_value() returns an error.
Fail == pc' = "failed"
-----------------------------------------------------------------------------
(* Before the queries.                                                     *)

\* connect_lockdown() and mux_read_pair_record(); neither has a deadline.
Open ==
    /\ pc = "open"
    /\ \/ Fail /\ UNCHANGED paired
       \/ pc' = "start" /\ paired' \in BOOLEAN
    /\ UNCHANGED <<at, got, out, tls, chan, ssl, fields, fallback>>

Request(i) == IF closed THEN UNCHANGED asked ELSE asked' = Append(asked, i)

\* With a pair record StartSession is sent (a record without HostID or
\* SystemBUID fails), without one the keys are asked for at once.
Start ==
    /\ pc = "start"
    /\ \/ paired /\ pc' = "session" /\ Request(0)
       \/ paired /\ Fail /\ UNCHANGED asked
       \/ ~paired /\ pc' = "query" /\ UNCHANGED asked
    /\ UNCHANGED <<at, got, out, paired, tls, sending, wire, closed, ssl, fields, fallback>>

\* Mutant: a failed handshake leaves the plain channel in use.
TlsUpgradeOrPlain ==
    /\ pc = "tls"
    /\ \/ pc' = "query" /\ tls' = TRUE
       \/ pc' = "query" /\ UNCHANGED tls
    /\ UNCHANGED <<at, got, out, paired, chan, ssl, fields, fallback>>

\* The handshake, without a deadline: any error ends get_value().
TlsUpgrade ==
    /\ pc = "tls"
    /\ \/ pc' = "query" /\ tls' = TRUE /\ ~closed
       \/ Fail /\ UNCHANGED tls
    /\ UNCHANGED <<at, got, out, paired, chan, ssl, fields, fallback>>
-----------------------------------------------------------------------------
(* One request and one answer at a time.                                   *)

\* write_plist(); the keys are done when there is none left, and having read
\* nothing is an error.
Query ==
    /\ pc = "query"
    /\ \/ /\ at < Len(Keys)
          /\ at' = at + 1
          /\ Request(at + 1)
          /\ pc' = "await"
       \/ /\ at = Len(Keys)
          /\ pc' = IF out = <<>> THEN "failed" ELSE "done"
          /\ UNCHANGED <<at, asked>>
    /\ UNCHANGED <<got, out, paired, tls, sending, wire, closed, ssl, fields, fallback>>

\* The request fails: StartSession's error is get_value()'s, that of a key is
\* not looked at.  What was read of the answer is lost.
GiveUp ==
    /\ pc' = IF pc = "session" THEN "failed" ELSE "query"
    /\ got' = <<>>

\* Mutant: a key is asked for again.
TimeoutRetries ==
    /\ pc = "await" /\ wire = <<>> /\ Len(asked) < 2
    /\ Request(at)
    /\ got' = <<>>
    /\ UNCHANGED <<pc, at, out, paired, tls, sending, wire, closed, ssl, fields, fallback>>

\* Mutant: only the wait for the length has a deadline.
TimeoutHeadOnly ==
    /\ pc \in Reading /\ wire = <<>> /\ got = <<>>
    /\ GiveUp
    /\ UNCHANGED <<at, out, paired, tls, chan, ssl, fields, fallback>>

\* REQUEST_TIMEOUT_SECS without a byte, or the channel is closed.
Timeout ==
    /\ pc \in Reading /\ wire = <<>>
    /\ GiveUp
    /\ UNCHANGED <<at, out, paired, tls, chan, ssl, fields, fallback>>

\* The whole answer has been read: it is taken for that to the current request.
Answered(p) ==
    /\ got' = <<>>
    /\ IF pc = "session"
       THEN /\ pc' = CASE p.kind = "error" -> "failed" [] p.kind = "ssl" -> "tls"
                       [] OTHER -> "query"
            /\ UNCHANGED out
       ELSE /\ pc' = "query"
            /\ out' = IF p.kind = "error" THEN out
                      ELSE Append(out, [key |-> Keys[at], value |-> Keys[p.of]])

\* read_plist() takes the pieces in their order ...
ReadPiece ==
    /\ pc \in Reading /\ wire # <<>>
    /\ LET p == Head(wire)
       IN  \/ /\ (got = <<>> /\ p.part = "h1") \/ (got = <<"h1">> /\ p.part = "h2")
              /\ got' = Append(got, p.part)
              /\ UNCHANGED <<pc, out>>
           \/ got = <<"h1", "h2">> /\ p.part = "body" /\ Answered(p)
    /\ wire' = Tail(wire)
    /\ UNCHANGED <<at, paired, tls, asked, sending, closed, ssl, fields, fallback>>

\* ... and after a read that was cut off it is out of step.  The characters of
\* a body make a length above MAX_LOCKDOWN_RESPONSE: an error, and more such
\* characters are left than there are keys.
ReadGarbled ==
    /\ pc \in Reading /\ wire # <<>>
    /\ Head(wire).part = "body" /\ got = <<>>
    /\ GiveUp
    /\ UNCHANGED <<at, out, paired, tls, chan, ssl, fields, fallback>>

\* When only the first byte was lost the length may be an allowed one, and a
\* body is waited for that takes in everything that comes.
Swallow ==
    /\ pc \in Reading /\ wire # <<>>
    /\ (got = <<>> /\ Head(wire).part = "h2") \/ got = <<"swallow">>
    /\ got' = <<"swallow">>
    /\ wire' = Tail(wire)
    /\ UNCHANGED <<pc, at, out, paired, tls, asked, sending, closed, ssl, fields, fallback>>

ReadMisaligned ==
    /\ pc \in Reading /\ wire # <<>>
    /\ got = <<>> /\ Head(wire).part = "h2"
    /\ wire' = Tail(wire)
    /\ GiveUp
    /\ UNCHANGED <<at, out, paired, tls, asked, sending, closed, ssl, fields, fallback>>
-----------------------------------------------------------------------------
(* The phone (external): it answers in order, takes its time, and may      *)
(* close the channel.                                                      *)

PhoneAnswers ==
    /\ asked # <<>> /\ sending = <<>> /\ ~closed
    /\ \E kind \in (IF Head(asked) = 0 THEN {"error", "ssl", "plain"} ELSE {"error", "value"}) :
        /\ sending' = Frame(Head(asked), kind)
        /\ ssl' = (ssl \/ kind = "ssl")
    /\ asked' = Tail(asked)
    /\ UNCHANGED <<pc, at, got, out, paired, tls, wire, closed, fields, fallback>>

PieceArrives ==
    /\ sending # <<>> /\ ~closed
    /\ wire' = Append(wire, Head(sending))
    /\ sending' = Tail(sending)
    /\ UNCHANGED <<pc, at, got, out, paired, tls, asked, closed, ssl, fields, fallback>>

PhoneCloses ==
    /\ ~closed
    /\ closed' = TRUE
    /\ asked' = <<>> /\ sending' = <<>>
    /\ UNCHANGED <<pc, at, got, out, paired, tls, wire, ssl, fields, fallback>>
-----------------------------------------------------------------------------
(* The device's fields.                                                    *)

\* Mutant: the values read replace what is known.
FillAll(values) == [k \in Key |-> IF k \in DOMAIN values THEN values[k] ELSE fields[k]]

\* Only what is not set.
Fill(values) ==
    [k \in Key |-> IF fields[k] = None /\ k \in DOMAIN values THEN values[k] ELSE fields[k]]

\* enrich_via_lockdown(), and whether ideviceinfo is asked.
Enrich ==
    /\ pc \in {"done", "failed"}
    /\ LET read == {out[i].key : i \in DOMAIN out}
           values == [k \in read |-> (CHOOSE e \in ToSet(out) : e.key = k).value]
       IN  fields' = IF pc = "failed" THEN fields ELSE Fill(values)
    /\ pc' = IF fallback /\ \E k \in Needed : fields'[k] = None THEN "ideviceinfo" ELSE "end"
    /\ UNCHANGED <<at, got, out, paired, tls, chan, ssl, fallback>>

\* It is absent, fails, times out or prints some of the values.
IdeviceInfo ==
    /\ pc = "ideviceinfo"
    /\ \E printed \in SUBSET Key : fields' = Fill([k \in printed |-> k])
    /\ pc' = "end"
    /\ UNCHANGED <<at, got, out, paired, tls, chan, ssl, fallback>>

Init ==
    /\ pc = "open" /\ at = 0 /\ got = <<>> /\ out = <<>>
    /\ paired = FALSE /\ tls = FALSE
    /\ asked = <<>> /\ sending = <<>> /\ wire = <<>> /\ closed = FALSE /\ ssl = FALSE
    /\ fields \in {[k \in Key |-> IF k \in set THEN k ELSE None] : set \in SUBSET Key}
    /\ fallback \in BOOLEAN

ClientStep ==
    \/ Start \/ Query \/ Timeout \/ ReadPiece \/ ReadGarbled \/ ReadMisaligned \/ Swallow
    \/ Enrich \/ IdeviceInfo

Next == Open \/ TlsUpgrade \/ ClientStep \/ PhoneAnswers \/ PieceArrives \/ PhoneCloses

\* The client's task is scheduled and its timer expires.
Spec == Init /\ [][Next]_vars /\ WF_vars(ClientStep)
-----------------------------------------------------------------------------
(* Properties.                                                             *)

\* A request that timed out may be answered late, and the answer is then taken
\* for that to a later key.  The damage is bounded: a value read for a key is
\* that of the key itself or of an earlier one, at most as many places back as
\* there are earlier keys without a value, so an unbroken list is right.
ValuesInStep ==
    \A n \in DOMAIN out :
        LET i == IndexOfKey(out[n].key)
            missing == (i - 1) - (n - 1)
        IN  i - IndexOfKey(out[n].value) \in 0..missing

\* Once the phone has asked for TLS no key is asked for in the clear,
\* whatever fails in between.
NoQueryInClear == (ssl /\ pc \in {"query", "await", "done"}) => tls

\* enrich_via_lockdown() and ideviceinfo fill gaps: a field that is set is
\* never replaced, by a value out of step least of all.
OnlyGapsFilled == [][\A k \in Key : fields[k] # None => fields'[k] = fields[k]]_vars

\* After the connection, only the TLS handshake can keep get_value() waiting:
\* StartSession and the keys come to an end whatever the phone sends or fails
\* to send.
QueriesEnd == (pc \in {"session", "query", "await"}) ~> (pc \in {"tls", "end"})
=============================================================================
