------------------------ MODULE ClientSessionsProofs ------------------------
(***************************************************************************)
(* Proofs about the client sessions, for any finite set of clients, any    *)
(* limits and capacities and any allowlists.                               *)
(***************************************************************************)
EXTENDS ClientSessions, FiniteSetTheorems, SequenceTheorems, WellFoundedInduction, TLAPS

Event == [kind : {"attached", "detached"}, id : Nat]
State == {"off", "backlog", "spawned", "dialing", "splice", "reading", "subscribing",
          "listening", "pushing", "refusing", "checking", "connecting", "awaiting",
          "connected", "proxy"}
SessionRecord ==
    [pc : State, peer : Peer \cup {NoPeer}, reads : BOOLEAN, gone : BOOLEAN,
     id : Nat, lockdown : BOOLEAN, seen : BOOLEAN, events : Seq(Event), hand : Event,
     view : SUBSET Nat, synced : BOOLEAN]

\* Types: every known id was handed out, and no session has another.
SessionTypeOK ==
    /\ backend \in {"usb", "relay"} /\ limit \in Nat
    /\ permits \in Int /\ active \in Int /\ listens \in Int
    /\ sess \in [Client -> SessionRecord]
    /\ loop \in {"sleep", "waiting", "apply", "send", "stopped"}
    /\ next \in Nat \ {0} /\ table \subseteq 1..(next - 1)
    /\ todo \in Seq(Event)

\* Of every id that events q are about, the last of them says what table t says.
Settled(q, t) ==
    \A k \in 1..Len(q) :
        (\A l \in (k + 1)..Len(q) : q[l].id # q[k].id) =>
            (q[k].kind = "attached" <=> q[k].id \in t)

\* View and table agree on the ids that no event of q is about.
Carried(q, v, t) ==
    \A i \in v \cup t : (\A k \in 1..Len(q) : q[k].id # i) => (i \in v <=> i \in t)

\* What session s will be told, with changes td not yet sent.
Held(s) == IF s.pc = "pushing" THEN <<s.hand>> ELSE <<>>
Pipe(s, td) == Held(s) \o s.events \o td

Dialling == {"connecting", "awaiting", "connected", "proxy"}

\* Session s with n the next id, tbl the table and td the changes not yet sent.
SessOK(s, n, tbl, td) ==
    /\ s.id < n
    /\ (s.pc \in Dialling /\ RequirePairRecord /\ s.lockdown /\ s.id \in tbl) => s.seen
    /\ s.pc \notin Listening => s.events = <<>> /\ ~s.synced
    /\ s.pc \in Listening => Settled(Pipe(s, td), tbl)
    /\ s.synced => Carried(Pipe(s, td), s.view, tbl)

\* The scan loop takes the lock with every change sent, and what it has not
\* sent leads to the table.
LoopOK ==
    /\ loop \in {"sleep", "waiting"} => todo = <<>>
    /\ loop = "send" => todo # <<>>
    /\ Settled(todo, table)

SessionsOK == \A c \in Client : SessOK(sess[c], next, table, todo)

SessionInv == SessionTypeOK /\ LoopOK /\ SessionsOK /\ GaugesExact

-----------------------------------------------------------------------------
(* Sequences of events.                                                    *)

\* Induction over the natural numbers, with the set of the numbers that have
\* the property in place of the property.
LEMMA NatSetInduction ==
    ASSUME NEW S, 0 \in S, \A n \in Nat : n \in S => n + 1 \in S
    PROVE  Nat \subseteq S
  <1> SUFFICES ASSUME Nat \ S # {} PROVE FALSE
    OBVIOUS
  <1> DEFINE R == OpToRel(<, Nat)
             T == Nat \ S
  <1>1. IsWellFoundedOn(R, Nat)
    BY NatLessThanWellFounded
  <1>2. \A x, y \in Nat : x < y => <<x, y>> \in R
    BY DEF OpToRel
  <1> HIDE DEF R
  <1>3. PICK x \in T : \A y \in T : ~(<<y, x>> \in R)
    BY <1>1, WFMin
  <1>4. x \in Nat /\ x # 0
    OBVIOUS
  <1>5. x - 1 \in Nat /\ x - 1 < x
    BY <1>4
  <1>6. x - 1 \notin T
    BY <1>2, <1>3, <1>4, <1>5
  <1>7. (x - 1) + 1 \in S
    BY <1>5, <1>6
  <1> QED BY <1>4, <1>7

\* A set of numbers up to n that is not empty has a greatest element.
LEMMA Greatest ==
    ASSUME NEW n \in Nat, NEW s \in SUBSET (1..n), s # {}
    PROVE  \E x \in s : \A y \in s : x >= y
  <1> DEFINE S == {m \in Nat : \A r \in SUBSET (1..m) :
                        r # {} => \E x \in r : \A y \in r : x >= y}
  <1>1. 0 \in S
    <2>1. \A r \in SUBSET (1..0) : r = {}
      OBVIOUS
    <2> QED BY <2>1
  <1>2. ASSUME NEW m \in Nat, m \in S PROVE m + 1 \in S
    <2> SUFFICES ASSUME NEW r \in SUBSET (1..(m + 1)), r # {}
                 PROVE  \E x \in r : \A y \in r : x >= y
      OBVIOUS
    <2>1. CASE m + 1 \in r
      <3>1. \A y \in r : m + 1 >= y
        OBVIOUS
      <3> QED BY <2>1, <3>1
    <2>2. CASE m + 1 \notin r
      <3>1. r \in SUBSET (1..m)
        BY <2>2
      <3> QED BY <1>2, <3>1
    <2> QED BY <2>1, <2>2
  <1> HIDE DEF S
  <1>3. Nat \subseteq S
    BY <1>1, <1>2, NatSetInduction
  <1> QED BY <1>3 DEF S

\* What the events of q at the indices s make of the ids v.
Shown(q, v, s) ==
    {i \in v \cup {q[k].id : k \in s} :
        \/ \E k \in s : /\ q[k].id = i /\ q[k].kind = "attached"
                        /\ \A l \in s : l > k => q[l].id # i
        \/ i \in v /\ \A k \in s : q[k].id # i}

\* The view after the events at s is one update of the view without the last.
LEMMA ShownStep ==
    ASSUME NEW q \in Seq(Event), NEW v, NEW s \in SUBSET (1..Len(q)), NEW x \in s,
           \A y \in s : x >= y
    PROVE  Shown(q, v, s) = Seen(Shown(q, v, s \ {x}), q[x])
  <1> DEFINE r == s \ {x}
  <1>1. \A y \in r : y \in Int /\ x \in Int /\ x > y
    OBVIOUS
  <1>2. q[x].kind \in {"attached", "detached"}
    <2>1. q[x] \in Event
      OBVIOUS
    <2> QED BY <2>1 DEF Event
  <1> SUFFICES ASSUME NEW i
               PROVE  i \in Shown(q, v, s) <=> i \in Seen(Shown(q, v, r), q[x])
    BY DEF Shown, Seen
  <1>3. CASE i = q[x].id
    <2>1. i \in Seen(Shown(q, v, r), q[x]) <=> q[x].kind = "attached"
      BY <1>3 DEF Seen
    <2>2. i \in Shown(q, v, s) <=> q[x].kind = "attached"
      <3>1. ASSUME NEW k \in s, q[k].id = i, \A l \in s : l > k => q[l].id # i
            PROVE  k = x
        BY <1>1, <1>3, <3>1
      <3>2. \A l \in s : ~(l > x)
        BY <1>1
      <3> QED BY <1>3, <3>1, <3>2 DEF Shown
    <2> QED BY <2>1, <2>2
  <1>4. CASE i # q[x].id
    <2>1. i \in Seen(Shown(q, v, r), q[x]) <=> i \in Shown(q, v, r)
      BY <1>4 DEF Seen
    <2>2. i \in Shown(q, v, s) <=> i \in Shown(q, v, r)
      BY <1>4 DEF Shown
    <2> QED BY <2>1, <2>2
  <1> QED BY <1>3, <1>4

\* Folding Seen over events leaves the ids whose last event is an Attached, and
\* those of the start that no event is about.
LEMMA FoldShown ==
    ASSUME NEW q \in Seq(Event), NEW v
    PROVE  FoldLeft(Seen, v, q) = Shown(q, v, 1..Len(q))
  <1> DEFINE n == Len(q)
             Computes(f) == f = [s \in SUBSET (1..n) |->
                                    IF s = {} THEN v ELSE Seen(f[s \ {Max(s)}], q[Max(s)])]
             g == [s \in SUBSET (1..n) |-> Shown(q, v, s)]
             iter == CHOOSE f : Computes(f)
  <1>1. FoldLeft(Seen, v, q) = iter[1..n]
    <2>1. DOMAIN q = 1..n
      OBVIOUS
    <2> QED BY <2>1 DEF FoldLeft, MapThenFoldSet
  <1>2. ASSUME NEW s \in SUBSET (1..n), s # {}
        PROVE  Max(s) \in s /\ \A y \in s : Max(s) >= y
    <2>1. n \in Nat
      OBVIOUS
    <2>2. \E x \in s : \A y \in s : x >= y
      BY <1>2, <2>1, Greatest
    <2> QED BY <2>2 DEF Max
  <1>3. Computes(g)
    <2>1. ASSUME NEW s \in SUBSET (1..n)
          PROVE  Shown(q, v, s) = IF s = {} THEN v ELSE Seen(g[s \ {Max(s)}], q[Max(s)])
      <3>1. CASE s = {}
        BY <3>1 DEF Shown
      <3>2. CASE s # {}
        <4>1. s \ {Max(s)} \in SUBSET (1..n)
          OBVIOUS
        <4>2. g[s \ {Max(s)}] = Shown(q, v, s \ {Max(s)})
          BY <4>1
        <4>3. Shown(q, v, s) = Seen(Shown(q, v, s \ {Max(s)}), q[Max(s)])
          BY <1>2, <3>2, ShownStep
        <4> QED BY <3>2, <4>2, <4>3
      <3> QED BY <3>1, <3>2
    <2> HIDE DEF g
    <2>2. g = [s \in SUBSET (1..n) |-> IF s = {} THEN v ELSE Seen(g[s \ {Max(s)}], q[Max(s)])]
      BY <2>1 DEF g
    <2> QED BY <2>2
  <1>4. Computes(iter)
    <2> HIDE DEF Computes, g
    <2> QED BY <1>3
  <1> HIDE DEF iter
  <1>5. \A s \in SUBSET (1..n) :
            iter[s] = IF s = {} THEN v ELSE Seen(iter[s \ {Max(s)}], q[Max(s)])
    BY <1>4
  <1> DEFINE S == {m \in Nat : m <= n => iter[1..m] = Shown(q, v, 1..m)}
  <1>6. 0 \in S
    <2>1. 1..0 = {} /\ {} \in SUBSET (1..n)
      OBVIOUS
    <2>2. iter[{}] = v
      BY <1>5, <2>1
    <2>3. Shown(q, v, {}) = v
      BY DEF Shown
    <2> QED BY <2>1, <2>2, <2>3
  <1>7. ASSUME NEW m \in Nat, m \in S PROVE m + 1 \in S
    <2> SUFFICES ASSUME m + 1 <= n PROVE iter[1..(m + 1)] = Shown(q, v, 1..(m + 1))
      OBVIOUS
    <2> DEFINE s == 1..(m + 1)
    <2>1. s \in SUBSET (1..n) /\ s # {} /\ s \ {m + 1} = 1..m /\ m + 1 \in s
          /\ \A y \in s : m + 1 >= y
      OBVIOUS
    <2>2. Max(s) = m + 1
      <3>1. Max(s) \in s /\ Max(s) >= m + 1 /\ m + 1 >= Max(s)
        BY <1>2, <2>1
      <3>2. Max(s) \in Int
        BY <3>1
      <3> HIDE DEF s
      <3> QED BY <3>1, <3>2
    <2> HIDE DEF s
    <2>3. iter[s] = Seen(iter[1..m], q[m + 1])
      BY <1>5, <2>1, <2>2
    <2>4. Shown(q, v, s) = Seen(Shown(q, v, 1..m), q[m + 1])
      BY <2>1, ShownStep
    <2>5. iter[1..m] = Shown(q, v, 1..m)
      BY <1>7
    <2> QED BY <2>3, <2>4, <2>5 DEF s
  <1>8. n \in S
    <2> HIDE DEF S
    <2>1. Nat \subseteq S
      BY <1>6, <1>7, NatSetInduction
    <2> QED BY <2>1
  <1>9. iter[1..n] = Shown(q, v, 1..n)
    BY <1>8
  <1> QED BY <1>1, <1>9

\* A view that agrees with the table on the ids no event is about becomes the
\* table when all the events are applied.
LEMMA FoldReaches ==
    ASSUME NEW q \in Seq(Event), NEW v, NEW t, Settled(q, t), Carried(q, v, t)
    PROVE  FoldLeft(Seen, v, q) = t
  <1> DEFINE n == Len(q)
             W == Shown(q, v, 1..n)
  <1>1. \A k \in 1..n : \A l \in 1..n : l > k => l \in (k + 1)..n
    OBVIOUS
  <1>2. ASSUME NEW k \in 1..n, \A l \in 1..n : l > k => q[l].id # q[k].id
        PROVE  q[k].kind = "attached" <=> q[k].id \in t
    BY <1>2 DEF Settled
  <1>3. ASSUME NEW i, \E k \in 1..n : q[k].id = i
        PROVE  \E k \in 1..n : q[k].id = i /\ \A l \in 1..n : l > k => q[l].id # i
    <2> DEFINE s == {k \in 1..n : q[k].id = i}
    <2>1. n \in Nat /\ s \in SUBSET (1..n) /\ s # {}
      BY <1>3
    <2>2. PICK x \in s : \A y \in s : x >= y
      <3> HIDE DEF s, n
      <3> QED BY <2>1, Greatest
    <2>3. x \in 1..n /\ q[x].id = i
      OBVIOUS
    <2>4. \A l \in 1..n : l > x => q[l].id # i
      BY <2>2, <2>3
    <2> QED BY <2>3, <2>4
  <1> SUFFICES ASSUME NEW i PROVE i \in W <=> i \in t
    <2>1. W = t
      OBVIOUS
    <2> QED BY <2>1, FoldShown
  <1>4. CASE \E k \in 1..n : q[k].id = i
    <2>1. PICK k \in 1..n : q[k].id = i /\ \A l \in 1..n : l > k => q[l].id # i
      BY <1>3, <1>4
    <2>2. q[k].kind = "attached" <=> i \in t
      BY <1>2, <2>1
    <2>3. i \in W <=> q[k].kind = "attached"
      <3>1. ASSUME NEW m \in 1..n, q[m].id = i, \A l \in 1..n : l > m => q[l].id # i
            PROVE  m = k
        BY <2>1, <3>1
      <3> QED BY <1>4, <2>1, <3>1 DEF Shown
    <2> QED BY <2>2, <2>3
  <1>5. CASE \A k \in 1..n : q[k].id # i
    <2>1. i \in W <=> i \in v
      BY <1>5 DEF Shown
    <2>2. i \in v \cup t => (i \in v <=> i \in t)
      BY <1>5 DEF Carried
    <2> QED BY <2>1, <2>2
  <1> QED BY <1>4, <1>5

\* The elements of a concatenation.
LEMMA Concat ==
    ASSUME NEW T, NEW p \in Seq(T), NEW s \in Seq(T)
    PROVE  LET q == p \o s
           IN  /\ q \in Seq(T) /\ Len(q) = Len(p) + Len(s) /\ Len(p) \in Nat /\ Len(s) \in Nat
               /\ \A k \in 1..Len(p) : k \in 1..Len(q) /\ q[k] = p[k]
               /\ \A k \in 1..Len(s) : Len(p) + k \in 1..Len(q) /\ q[Len(p) + k] = s[k]
               /\ \A k \in 1..Len(q) : k \notin 1..Len(p) =>
                    k - Len(p) \in 1..Len(s) /\ q[k] = s[k - Len(p)]
  OBVIOUS

\* The newest events are settled on their own.
LEMMA SettledSuffix ==
    ASSUME NEW t, NEW p \in Seq(Event), NEW s \in Seq(Event), Settled(p \o s, t)
    PROVE  Settled(s, t)
  <1> DEFINE q == p \o s
             m == Len(p)
             n == Len(s)
  <1>1. /\ q \in Seq(Event) /\ Len(q) = m + n /\ m \in Nat /\ n \in Nat
        /\ \A k \in 1..n : m + k \in 1..Len(q) /\ q[m + k] = s[k]
        /\ \A k \in 1..Len(q) : k \notin 1..m => k - m \in 1..n /\ q[k] = s[k - m]
    BY Concat
  <1>2. Settled(q, t)
    OBVIOUS
  <1> HIDE DEF q, m
  <1> SUFFICES ASSUME NEW k \in 1..n, \A l \in (k + 1)..n : s[l].id # s[k].id
               PROVE  s[k].kind = "attached" <=> s[k].id \in t
    BY DEF Settled
  <1> HIDE DEF n
  <1>3. ASSUME NEW l \in ((m + k) + 1)..Len(q) PROVE q[l].id # q[m + k].id
    <2>1. l \in 1..Len(q) /\ l \notin 1..m /\ l - m \in (k + 1)..n
      BY <1>1
    <2> QED BY <1>1, <2>1
  <1>4. m + k \in 1..Len(q) /\ q[m + k] = s[k]
    BY <1>1
  <1> QED BY <1>2, <1>3, <1>4 DEF Settled

\* Applying the oldest event to the view.
LEMMA CarriedSeen ==
    ASSUME NEW t, NEW v, NEW h \in Event, NEW s \in Seq(Event),
           Settled(<<h>> \o s, t), Carried(<<h>> \o s, v, t)
    PROVE  Carried(s, Seen(v, h), t)
  <1> DEFINE p == <<h>>
             q == p \o s
             n == Len(s)
  <1>1. p \in Seq(Event) /\ Len(p) = 1 /\ p[1] = h
    OBVIOUS
  <1> HIDE DEF p
  <1>2. /\ Len(q) = 1 + n /\ n \in Nat /\ 1 \in 1..Len(q) /\ q[1] = h
        /\ \A k \in 1..Len(q) : k # 1 => k - 1 \in 1..n /\ q[k] = s[k - 1]
    <2>1. /\ Len(q) = Len(p) + n /\ n \in Nat
          /\ \A k \in 1..Len(p) : k \in 1..Len(q) /\ q[k] = p[k]
          /\ \A k \in 1..Len(q) : k \notin 1..Len(p) =>
                k - Len(p) \in 1..n /\ q[k] = s[k - Len(p)]
      <3>1. p \in Seq(Event)
        BY <1>1
      <3> QED BY ONLY <3>1, s \in Seq(Event), Concat
    <2>2. 1..Len(p) = {1}
      BY <1>1
    <2> HIDE DEF q, n
    <2> QED BY <1>1, <2>1, <2>2
  <1>3. Settled(q, t) /\ Carried(q, v, t)
    BY DEF p
  <1>4. h.kind \in {"attached", "detached"}
    BY DEF Event
  <1> HIDE DEF q
  <1> SUFFICES ASSUME NEW i \in Seen(v, h) \cup t, \A k \in 1..n : s[k].id # i
               PROVE  i \in Seen(v, h) <=> i \in t
    BY DEF Carried
  <1>5. \A k \in 1..Len(q) : k # 1 => q[k].id # i
    BY <1>2
  <1>6. CASE i = h.id
    <2>1. \A l \in (1 + 1)..Len(q) : q[l].id # q[1].id
      <3>1. \A l \in (1 + 1)..Len(q) : l \in 1..Len(q) /\ l # 1
        BY <1>2
      <3> QED BY <1>2, <1>5, <1>6, <3>1
    <2>2. h.kind = "attached" <=> i \in t
      BY <1>2, <1>3, <1>6, <2>1 DEF Settled
    <2> QED BY <1>6, <2>2 DEF Seen
  <1>7. CASE i # h.id
    <2>1. \A k \in 1..Len(q) : q[k].id # i
      BY <1>2, <1>5, <1>7
    <2>2. i \in v \cup t
      BY <1>7 DEF Seen
    <2>3. i \in v <=> i \in t
      BY <1>3, <2>1, <2>2 DEF Carried
    <2> QED BY <1>7, <2>3 DEF Seen
  <1> QED BY <1>6, <1>7

\* A scan: events s, which settle the new table, join the older ones; where no
\* event of s is about an id, the table has not changed.
LEMMA SettledAppend ==
    ASSUME NEW t, NEW u, NEW v, NEW p \in Seq(Event), NEW s \in Seq(Event),
           Settled(p, t), Settled(s, u), Carried(s, t, u)
    PROVE  /\ Settled(p \o s, u)
           /\ Carried(p, v, t) => Carried(p \o s, v, u)
  <1> DEFINE q == p \o s
             m == Len(p)
             n == Len(s)
  <1>1. /\ q \in Seq(Event) /\ Len(q) = m + n /\ m \in Nat /\ n \in Nat
        /\ \A k \in 1..m : k \in 1..Len(q) /\ q[k] = p[k]
        /\ \A k \in 1..n : m + k \in 1..Len(q) /\ q[m + k] = s[k]
        /\ \A k \in 1..Len(q) : k \notin 1..m => k - m \in 1..n /\ q[k] = s[k - m]
    BY Concat
  <1> HIDE DEF q, m, n
  <1>2. ASSUME NEW i, \A k \in 1..n : s[k].id # i PROVE i \in t <=> i \in u
    BY <1>2 DEF Carried, n
  <1>3. ASSUME NEW k \in 1..Len(q), \A l \in (k + 1)..Len(q) : q[l].id # q[k].id
        PROVE  q[k].kind = "attached" <=> q[k].id \in u
    <2>1. CASE k \in 1..m
      <3>1. \A l \in 1..n : m + l \in (k + 1)..Len(q) /\ q[m + l] = s[l]
        BY <1>1, <2>1
      <3>2. \A l \in 1..n : s[l].id # q[k].id
        BY <1>3, <3>1
      <3>3. \A l \in (k + 1)..m : l \in (k + 1)..Len(q) /\ q[l] = p[l]
        BY <1>1, <2>1
      <3>4. q[k] = p[k] /\ \A l \in (k + 1)..m : p[l].id # p[k].id
        BY <1>1, <1>3, <2>1, <3>3
      <3>5. q[k].kind = "attached" <=> q[k].id \in t
        BY <2>1, <3>4 DEF Settled, m
      <3> QED BY <1>2, <3>2, <3>5
    <2>2. CASE k \notin 1..m
      <3>1. k - m \in 1..n /\ q[k] = s[k - m]
        BY <1>1, <2>2
      <3>2. \A l \in ((k - m) + 1)..n : /\ m + l \in (k + 1)..Len(q) /\ m + l \in Int
                                        /\ l \in 1..n /\ q[m + l] = s[l]
        BY <1>1, <3>1
      <3>3. \A l \in ((k - m) + 1)..n : s[l].id # s[k - m].id
        BY <1>3, <3>1, <3>2
      <3> QED BY <3>1, <3>3 DEF Settled, n
    <2> QED BY <2>1, <2>2
  <1>4. Settled(q, u)
    BY <1>3 DEF Settled
  <1>5. ASSUME Carried(p, v, t) PROVE Carried(q, v, u)
    <2> SUFFICES ASSUME NEW i \in v \cup u, \A k \in 1..Len(q) : q[k].id # i
                 PROVE  i \in v <=> i \in u
      BY DEF Carried
    <2>1. (\A k \in 1..m : p[k].id # i) /\ (\A k \in 1..n : s[k].id # i)
      BY <1>1
    <2>2. i \in t <=> i \in u
      BY <1>2, <2>1
    <2>3. i \in v \cup t
      BY <2>2
    <2> QED BY <1>5, <2>1, <2>2, <2>3 DEF Carried, m
  <1> QED BY <1>4, <1>5 DEF q

\* A set and the sequence of it have the same elements.
LEMMA SetToSeqCovers ==
    ASSUME NEW S, IsFiniteSet(S)
    PROVE  /\ SetToSeq(S) \in Seq(S)
           /\ \A x \in S : \E k \in 1..Len(SetToSeq(S)) : SetToSeq(S)[k] = x
  <1> DEFINE n == Cardinality(S)
             s == SetToSeq(S)
  <1>1. n \in Nat /\ \E f : f \in Bijection(1..n, S)
    BY FS_CardinalityType DEF ExistsBijection
  <1>2. \E f \in [1..n -> S] : IsInjective(f)
    BY <1>1 DEF Bijection, Injection, IsInjective
  <1>3. s \in [1..n -> S] /\ IsInjective(s)
    BY <1>2 DEF SetToSeq
  <1> HIDE DEF s
  <1>4. s \in Injection(1..n, S)
    BY <1>3 DEF Injection, IsInjective
  <1>5. IsFiniteSet(1..n) /\ Cardinality(1..n) = n
    BY <1>1, FS_Interval
  <1>6. s \in Surjection(1..n, S)
    BY <1>4, <1>5, FS_Injection
  <1>7. \A x \in S : \E k \in 1..n : s[k] = x
    BY <1>6 DEF Surjection
  <1> HIDE DEF n
  <1>8. s \in Seq(S) /\ Len(s) = n
    BY <1>1, <1>3
  <1> QED BY <1>7, <1>8 DEF s

-----------------------------------------------------------------------------
(* Steps of one session.                                                   *)

\* What a session in state pc adds to the gauges.
Holds(pc) == IF pc \in {"off", "backlog"} THEN 0 ELSE 1
Counts(pc) == IF pc \in {"off", "backlog", "spawned"} THEN 0 ELSE 1
Hears(pc) == IF pc \in Listening THEN 1 ELSE 0

\* Two sets of clients that agree on all clients but one.
LEMMA OneDiffers ==
    ASSUME NEW A \in SUBSET Client, NEW B \in SUBSET Client, NEW c, A \ {c} = B \ {c}
    PROVE  /\ Cardinality(A) \in Nat
           /\ Cardinality(B) = Cardinality(A) - (IF c \in A THEN 1 ELSE 0)
                                              + (IF c \in B THEN 1 ELSE 0)
  <1>1. IsFiniteSet(A) /\ IsFiniteSet(B)
    BY SessionConstants, FS_Subset
  <1>2. Cardinality(A) \in Nat /\ Cardinality(B) \in Nat
    BY <1>1, FS_CardinalityType
  <1>3. /\ Cardinality(A \ {c}) = IF c \in A THEN Cardinality(A) - 1 ELSE Cardinality(A)
        /\ Cardinality(B \ {c}) = IF c \in B THEN Cardinality(B) - 1 ELSE Cardinality(B)
    BY <1>1, FS_RemoveElement
  <1> QED BY <1>2, <1>3

\* A step of one session keeps the invariant when the session it leaves is in
\* order and the gauges follow its state.
LEMMA OneSession ==
    ASSUME SessionInv, NEW c \in Client, NEW r \in SessionRecord,
           sess' = [sess EXCEPT ![c] = r],
           permits' = permits + Holds(sess[c].pc) - Holds(r.pc),
           active' = active - Counts(sess[c].pc) + Counts(r.pc),
           listens' = listens - Hears(sess[c].pc) + Hears(r.pc),
           UNCHANGED <<backend, limit, loop, next, table, todo>>,
           SessOK(r, next, table, todo)
    PROVE  SessionInv'
  <1>1. /\ backend' = backend /\ limit' = limit /\ loop' = loop
        /\ next' = next /\ table' = table /\ todo' = todo
    OBVIOUS
  <1>2. SessionTypeOK /\ SessionsOK /\ LoopOK /\ GaugesExact
    BY DEF SessionInv
  <1>3. sess' \in [Client -> SessionRecord] /\ sess'[c] = r
        /\ \A d \in Client : d # c => sess'[d] = sess[d]
    BY <1>2 DEF SessionTypeOK
  <1>4. Holds(r.pc) \in Int /\ Holds(sess[c].pc) \in Int /\ Counts(r.pc) \in Int
        /\ Counts(sess[c].pc) \in Int /\ Hears(r.pc) \in Int /\ Hears(sess[c].pc) \in Int
    BY DEF Holds, Counts, Hears
  <1>5. SessionTypeOK'
    <2>1. permits' \in Int /\ active' \in Int /\ listens' \in Int
      <3>1. \A x, y, z \in Int : x + y - z \in Int /\ x - y + z \in Int
        OBVIOUS
      <3>2. permits \in Int /\ active \in Int /\ listens \in Int
        BY <1>2 DEF SessionTypeOK
      <3> QED BY <1>4, <3>1, <3>2
    <2> QED BY <1>1, <1>2, <1>3, <2>1 DEF SessionTypeOK
  <1>6. SessionsOK'
    <2> SUFFICES ASSUME NEW d \in Client PROVE SessOK(sess'[d], next, table, todo)
      BY <1>1 DEF SessionsOK
    <2>1. SessOK(sess[d], next, table, todo)
      BY <1>2 DEF SessionsOK
    <2> QED BY <1>3, <2>1
  <1>7. LoopOK'
    BY <1>1, <1>2 DEF LoopOK
  <1>8. GaugesExact'
    <2> DEFINE A(X) == {d \in Client : sess[d].pc \notin X}
               B(X) == {d \in Client : sess'[d].pc \notin X}
               L == {d \in Client : sess[d].pc \in Listening}
               M == {d \in Client : sess'[d].pc \in Listening}
    <2>1. ASSUME NEW X
          PROVE  /\ Cardinality(A(X)) \in Nat
                 /\ Cardinality(B(X)) = Cardinality(A(X)) - (IF sess[c].pc \in X THEN 0 ELSE 1)
                                                          + (IF r.pc \in X THEN 0 ELSE 1)
      <3>1. A(X) \in SUBSET Client /\ B(X) \in SUBSET Client /\ A(X) \ {c} = B(X) \ {c}
        BY <1>3
      <3>2. (c \in A(X) <=> sess[c].pc \notin X) /\ (c \in B(X) <=> r.pc \notin X)
        BY <1>3
      <3>3. /\ Cardinality(A(X)) \in Nat
            /\ Cardinality(B(X)) = Cardinality(A(X)) - (IF c \in A(X) THEN 1 ELSE 0)
                                                     + (IF c \in B(X) THEN 1 ELSE 0)
        <4> HIDE DEF A, B
        <4> QED BY <3>1, OneDiffers
      <3> HIDE DEF A, B
      <3> QED BY <3>2, <3>3
    <2>2. /\ Cardinality(L) \in Nat
          /\ Cardinality(M) = Cardinality(L) - Hears(sess[c].pc) + Hears(r.pc)
      <3>1. L \in SUBSET Client /\ M \in SUBSET Client /\ L \ {c} = M \ {c}
        BY <1>3
      <3>2. (c \in L <=> sess[c].pc \in Listening) /\ (c \in M <=> r.pc \in Listening)
        BY <1>3
      <3>3. /\ Cardinality(L) \in Nat
            /\ Cardinality(M) = Cardinality(L) - (IF c \in L THEN 1 ELSE 0)
                                               + (IF c \in M THEN 1 ELSE 0)
        <4> HIDE DEF L, M
        <4> QED BY <3>1, OneDiffers
      <3> HIDE DEF L, M
      <3> QED BY <3>2, <3>3 DEF Hears
    <2>3. /\ permits = limit - Cardinality(A({"off", "backlog"}))
          /\ active = Cardinality(A({"off", "backlog", "spawned"}))
          /\ listens = Cardinality(L)
      BY <1>2 DEF GaugesExact
    <2>4. /\ Cardinality(A({"off", "backlog"})) \in Nat
          /\ Cardinality(B({"off", "backlog"})) =
                Cardinality(A({"off", "backlog"})) - Holds(sess[c].pc) + Holds(r.pc)
      BY <2>1 DEF Holds
    <2>5. /\ Cardinality(A({"off", "backlog", "spawned"})) \in Nat
          /\ Cardinality(B({"off", "backlog", "spawned"})) =
                Cardinality(A({"off", "backlog", "spawned"})) - Counts(sess[c].pc) + Counts(r.pc)
      BY <2>1 DEF Counts
    <2>6. /\ permits' = limit - Cardinality(B({"off", "backlog"}))
          /\ active' = Cardinality(B({"off", "backlog", "spawned"}))
          /\ listens' = Cardinality(M)
      <3> HIDE DEF A, B, L, M
      <3>1. limit \in Nat
        BY <1>2 DEF SessionTypeOK
      <3> QED BY <1>4, <2>2, <2>3, <2>4, <2>5, <3>1
    <2> QED BY <1>1, <2>6 DEF GaugesExact
  <1> QED BY <1>5, <1>6, <1>7, <1>8 DEF SessionInv

\* States of a task that counts and does not listen.
Busy == State \ {"off", "backlog", "spawned", "listening", "pushing"}

\* What a session holds of each gauge.
LEMMA BusyWeight ==
    /\ \A pc \in Busy : Holds(pc) = 1 /\ Counts(pc) = 1 /\ Hears(pc) = 0 /\ pc \notin Listening
    /\ Holds("off") = 0 /\ Counts("off") = 0 /\ Hears("off") = 0
  BY DEF Busy, State, Holds, Counts, Hears, Listening

\* A client that is not connected meets every obligation.
LEMMA OffOK ==
    ASSUME SessionTypeOK
    PROVE  Off \in SessionRecord /\ Off.pc = "off" /\ SessOK(Off, next, table, todo)
  <1>1. Off \in SessionRecord
    BY DEF Off, SessionRecord, State, Event, NoEvent, Detached
  <1>2. /\ Off.pc = "off" /\ Off.id = 0 /\ Off.events = <<>> /\ Off.synced = FALSE
        /\ "off" \notin Dialling /\ "off" \notin Listening
    BY DEF Off, Dialling, Listening
  <1>3. 0 < next
    BY DEF SessionTypeOK
  <1> QED BY <1>1, <1>2, <1>3 DEF SessOK

\* A session that does not listen.
LEMMA QuietOK ==
    ASSUME NEW r \in SessionRecord, r.pc \notin Listening, r.events = <<>>, ~r.synced,
           r.id < next,
           (r.pc \in Dialling /\ RequirePairRecord /\ r.lockdown /\ r.id \in table) => r.seen
    PROVE  SessOK(r, next, table, todo)
  BY DEF SessOK

\* What the invariant says of one session that does not listen.
LEMMA QuietFacts ==
    ASSUME SessionInv, NEW c \in Client, sess[c].pc \notin Listening
    PROVE  /\ sess[c] \in SessionRecord /\ sess[c].events = <<>> /\ sess[c].synced = FALSE
           /\ sess[c].id < next
           /\ (/\ sess[c].pc \in Dialling /\ RequirePairRecord
               /\ sess[c].lockdown /\ sess[c].id \in table) => sess[c].seen
  <1>1. sess[c] \in SessionRecord
    BY DEF SessionInv, SessionTypeOK
  <1>2. sess[c].synced \in BOOLEAN
    BY <1>1 DEF SessionRecord
  <1>3. SessOK(sess[c], next, table, todo)
    BY DEF SessionInv, SessionsOK
  <1> QED BY <1>1, <1>2, <1>3 DEF SessOK

\* The types the steps need.
LEMMA TypesOfInv ==
    ASSUME SessionInv
    PROVE  /\ SessionTypeOK /\ permits \in Int /\ active \in Int /\ listens \in Int
           /\ next \in Nat \ {0} /\ table \subseteq 1..(next - 1) /\ todo \in Seq(Event)
  BY DEF SessionInv, SessionTypeOK

\* What a step of a session leaves alone.
taskVars == <<backend, limit, loop, next, table, todo>>

\* A session ends: its permit and its count are given back.
LEMMA EndOK ==
    ASSUME SessionInv, NEW c \in Client, sess[c].pc \in Busy, End(c), listens' = listens,
           UNCHANGED taskVars
    PROVE  SessionInv'
  <1>1. Off \in SessionRecord /\ Off.pc = "off" /\ SessOK(Off, next, table, todo)
    BY TypesOfInv, OffOK
  <1>2. sess' = [sess EXCEPT ![c] = Off] /\ permits' = permits + 1 /\ active' = active - 1
    BY DEF End, Set
  <1>3. /\ permits' = permits + Holds(sess[c].pc) - Holds(Off.pc)
        /\ active' = active - Counts(sess[c].pc) + Counts(Off.pc)
        /\ listens' = listens - Hears(sess[c].pc) + Hears(Off.pc)
    BY <1>1, <1>2, BusyWeight, TypesOfInv
  <1> QED BY <1>1, <1>2, <1>3, OneSession DEF taskVars

\* A step of a session that changes no gauge.
LEMMA BusyStep ==
    ASSUME SessionInv, NEW c \in Client, sess[c].pc \in Busy,
           NEW r \in SessionRecord, r.pc \in Busy,
           r.events = <<>>, ~r.synced, r.id < next,
           (r.pc \in Dialling /\ RequirePairRecord /\ r.lockdown /\ r.id \in table) => r.seen,
           Set(c, r), UNCHANGED gauges, UNCHANGED taskVars
    PROVE  SessionInv'
  <1>1. SessOK(r, next, table, todo)
    BY BusyWeight, QuietOK
  <1>2. permits' = permits /\ active' = active /\ listens' = listens
    BY DEF gauges
  <1>3. /\ permits' = permits + Holds(sess[c].pc) - Holds(r.pc)
        /\ active' = active - Counts(sess[c].pc) + Counts(r.pc)
        /\ listens' = listens - Hears(sess[c].pc) + Hears(r.pc)
    BY <1>2, BusyWeight, TypesOfInv
  <1> QED BY <1>1, <1>3, OneSession DEF Set, taskVars

\* A session goes on to its next command or answer.
LEMMA GoToOK ==
    ASSUME SessionInv, NEW c \in Client, sess[c].pc \in Busy, NEW pc \in Busy, GoTo(c, pc),
           pc \in Dialling => sess[c].pc \in Dialling, UNCHANGED gauges, UNCHANGED taskVars
    PROVE  SessionInv'
  <1> DEFINE s == sess[c]
             r == [(IF pc = "reading" THEN NoConnect(s) ELSE s) EXCEPT !.pc = pc]
  <1>1. /\ s \in SessionRecord /\ s.events = <<>> /\ s.synced = FALSE /\ s.id < next
        /\ (s.pc \in Dialling /\ RequirePairRecord /\ s.lockdown /\ s.id \in table) => s.seen
    BY BusyWeight, QuietFacts
  <1>2. pc \in State /\ 0 < next
    BY TypesOfInv DEF Busy
  <1>3. CASE pc = "reading"
    <2>1. r = [NoConnect(s) EXCEPT !.pc = pc]
      BY <1>3
    <2>2. /\ r \in SessionRecord /\ r.pc = "reading" /\ r.events = <<>> /\ r.synced = FALSE
          /\ r.id = 0
      <3> HIDE DEF s
      <3> QED BY <1>1, <1>2, <1>3, <2>1 DEF NoConnect, SessionRecord
    <2>3. "reading" \notin Dialling
      BY DEF Dialling
    <2> HIDE DEF r
    <2> QED BY <1>2, <1>3, <2>2, <2>3, BusyStep DEF GoTo, r
  <1>4. CASE pc # "reading"
    <2>1. r = [s EXCEPT !.pc = pc]
      BY <1>4
    <2>2. /\ r \in SessionRecord /\ r.pc = pc /\ r.events = <<>> /\ r.synced = FALSE
          /\ r.id = s.id /\ r.lockdown = s.lockdown /\ r.seen = s.seen
      <3> HIDE DEF s
      <3> QED BY <1>1, <1>2, <2>1 DEF SessionRecord
    <2>3. (r.pc \in Dialling /\ RequirePairRecord /\ r.lockdown /\ r.id \in table) => r.seen
      BY <1>1, <2>2
    <2>4. Set(c, r)
      BY DEF GoTo
    <2> HIDE DEF r
    <2> QED BY <1>1, <2>2, <2>3, <2>4, BusyStep
  <1> QED BY <1>3, <1>4

\* A reply is written, or the client is gone and the session ends.
LEMMA ReplyOK ==
    ASSUME SessionInv, NEW c \in Client, sess[c].pc \in Busy, NEW pc \in Busy, Reply(c, pc),
           pc \in Dialling => sess[c].pc \in Dialling, listens' = listens, UNCHANGED taskVars
    PROVE  SessionInv'
  <1>1. CASE End(c)
    BY <1>1, EndOK
  <1>2. CASE GoTo(c, pc) /\ UNCHANGED <<permits, active>>
    BY <1>2, GoToOK DEF gauges
  <1> QED BY <1>1, <1>2 DEF Reply

\* Accepting a client, and a client that comes or goes before it is served.
LEMMA AcceptSteps ==
    ASSUME SessionInv, NEW c \in Client,
           ClientConnects(c) \/ Accept(c) \/ AcceptFails(c) \/ Admit(c)
    PROVE  SessionInv'
  <1> DEFINE s == sess[c]
  <1>1. Off \in SessionRecord /\ Off.pc = "off" /\ SessOK(Off, next, table, todo)
    BY TypesOfInv, OffOK
  <1>2. ASSUME NEW r \in SessionRecord, r.pc \in State \ Listening, s.pc \in State \ Listening,
               r.pc \notin Dialling, r.events = <<>>, ~r.synced, r.id < next,
               Set(c, r), UNCHANGED taskVars,
               permits' = permits + Holds(s.pc) - Holds(r.pc),
               active' = active - Counts(s.pc) + Counts(r.pc),
               listens' = listens
        PROVE  SessionInv'
    <2>1. SessOK(r, next, table, todo)
      BY <1>2, QuietOK
    <2>2. listens' = listens - Hears(s.pc) + Hears(r.pc)
      BY <1>2, TypesOfInv DEF Hears
    <2> QED BY <1>2, <2>1, <2>2, OneSession DEF Set, taskVars
  <1>3. /\ Off.events = <<>> /\ Off.synced = FALSE /\ Off.id = 0 /\ 0 < next
        /\ "off" \in State \ Listening /\ "off" \notin Dialling
        /\ "backlog" \in State \ Listening /\ "backlog" \notin Dialling
        /\ "spawned" \in State \ Listening /\ "spawned" \notin Dialling
        /\ "reading" \in State \ Listening /\ "reading" \notin Dialling
        /\ "dialing" \in State \ Listening /\ "dialing" \notin Dialling
    BY TypesOfInv DEF Off, State, Listening, Dialling
  <1>4. ASSUME s.pc \in {"backlog", "spawned"}
        PROVE  s \in SessionRecord /\ s.events = <<>> /\ s.synced = FALSE /\ s.id < next
    BY <1>3, <1>4, QuietFacts
  <1>5. CASE ClientConnects(c)
    <2>1. PICK p \in Peer, b \in BOOLEAN :
            Set(c, [Off EXCEPT !.pc = "backlog", !.peer = p, !.reads = b])
      BY <1>5 DEF ClientConnects
    <2> DEFINE r == [Off EXCEPT !.pc = "backlog", !.peer = p, !.reads = b]
    <2>2. /\ r \in SessionRecord /\ r.pc = "backlog" /\ r.events = <<>> /\ r.synced = FALSE
          /\ r.id = 0
      BY <1>1, <1>3 DEF SessionRecord, Off
    <2>3. s.pc = "off" /\ UNCHANGED taskVars /\ UNCHANGED gauges
      BY <1>5 DEF ClientConnects, taskVars, tables
    <2> HIDE DEF r
    <2>4. /\ permits' = permits + Holds(s.pc) - Holds(r.pc)
          /\ active' = active - Counts(s.pc) + Counts(r.pc) /\ listens' = listens
      BY <2>2, <2>3, TypesOfInv DEF gauges, Holds, Counts
    <2> QED BY <1>2, <1>3, <2>1, <2>2, <2>3, <2>4 DEF r
  <1>6. CASE Accept(c)
    <2>1. s.pc = "backlog" /\ UNCHANGED taskVars /\ active' = active /\ listens' = listens
      BY <1>6 DEF Accept, daemonVars, taskVars, tables
    <2>2. CASE permits' = permits - 1 /\ GoTo(c, "spawned")
      <3> DEFINE r == [s EXCEPT !.pc = "spawned"]
      <3>1. Set(c, r)
        BY <2>2 DEF GoTo
      <3>2. /\ r \in SessionRecord /\ r.pc = "spawned" /\ r.events = <<>> /\ r.synced = FALSE
            /\ r.id = s.id
        <4> HIDE DEF s
        <4> QED BY <1>3, <1>4, <2>1 DEF SessionRecord
      <3> HIDE DEF r
      <3>3. /\ permits' = permits + Holds(s.pc) - Holds(r.pc)
            /\ active' = active - Counts(s.pc) + Counts(r.pc)
        BY <2>1, <2>2, <3>2, TypesOfInv DEF Holds, Counts
      <3> QED BY <1>2, <1>3, <1>4, <2>1, <3>1, <3>2, <3>3
    <2>3. CASE permits' = permits /\ Set(c, Off)
      <3>1. /\ permits' = permits + Holds(s.pc) - Holds(Off.pc)
            /\ active' = active - Counts(s.pc) + Counts(Off.pc)
        BY <1>1, <2>1, <2>3, TypesOfInv DEF Holds, Counts
      <3> QED BY <1>1, <1>2, <1>3, <2>1, <2>3, <3>1
    <2> QED BY <1>6, <2>2, <2>3 DEF Accept
  <1>7. CASE AcceptFails(c)
    <2>1. /\ s.pc = "backlog" /\ Set(c, Off) /\ UNCHANGED taskVars
          /\ permits' = permits /\ active' = active /\ listens' = listens
      BY <1>7 DEF AcceptFails, daemonVars, taskVars, tables, gauges
    <2>2. /\ permits' = permits + Holds(s.pc) - Holds(Off.pc)
          /\ active' = active - Counts(s.pc) + Counts(Off.pc)
      BY <1>1, <2>1, TypesOfInv DEF Holds, Counts
    <2> QED BY <1>1, <1>2, <1>3, <2>1, <2>2
  <1>8. CASE Admit(c)
    <2>1. s.pc = "spawned" /\ UNCHANGED taskVars /\ listens' = listens
      BY <1>8 DEF Admit, daemonVars, taskVars, tables
    <2>2. CASE /\ active' = active + 1 /\ permits' = permits
               /\ Set(c, [s EXCEPT !.pc = Started, !.peer = NoPeer])
      <3> DEFINE r == [s EXCEPT !.pc = Started, !.peer = NoPeer]
      <3>1. Started \in {"reading", "dialing"}
        BY DEF Started
      <3>2. /\ r \in SessionRecord /\ r.pc = Started /\ r.events = <<>> /\ r.synced = FALSE
            /\ r.id = s.id
        <4> HIDE DEF s
        <4> QED BY <1>3, <1>4, <2>1, <3>1 DEF SessionRecord
      <3>3. Set(c, r)
        BY <2>2
      <3> HIDE DEF r
      <3>4. /\ permits' = permits + Holds(s.pc) - Holds(r.pc)
            /\ active' = active - Counts(s.pc) + Counts(r.pc)
        BY <2>1, <2>2, <3>1, <3>2, TypesOfInv DEF Holds, Counts
      <3> QED BY <1>2, <1>3, <1>4, <2>1, <3>1, <3>2, <3>3, <3>4
    <2>3. CASE active' = active /\ permits' = permits + 1 /\ Set(c, Off)
      <3>1. /\ permits' = permits + Holds(s.pc) - Holds(Off.pc)
            /\ active' = active - Counts(s.pc) + Counts(Off.pc)
        BY <1>1, <2>1, <2>3, TypesOfInv DEF Holds, Counts
      <3> QED BY <1>1, <1>2, <1>3, <2>1, <2>3, <3>1
    <2> QED BY <1>8, <2>2, <2>3 DEF Admit
  <1> QED BY <1>5, <1>6, <1>7, <1>8

\* A task that answers at once, connects or ends.
LEMMA TaskSteps ==
    ASSUME SessionInv, NEW c \in Client,
           \/ Upstream(c) \/ SpliceEnds(c) \/ ReadFails(c) \/ OtherCommand(c) \/ Listen(c)
           \/ Refuse(c) \/ Dial(c) \/ Dialed(c) \/ StartProxy(c) \/ ProxyEnds(c)
    PROVE  SessionInv'
  <1> USE DEF daemonVars, taskVars, tables
  <1>1. {"dialing", "splice", "reading", "subscribing", "refusing", "connecting",
         "awaiting", "connected", "proxy"} \subseteq Busy
    BY DEF Busy, State
  <1>2. /\ {"awaiting", "connecting", "connected"} \subseteq Dialling
        /\ "reading" \notin Dialling /\ "splice" \notin Dialling /\ "subscribing" \notin Dialling
    BY DEF Dialling
  <1>3. CASE Upstream(c)
    BY <1>1, <1>2, <1>3, EndOK, GoToOK DEF Upstream, gauges
  <1>4. CASE SpliceEnds(c)
    BY <1>1, <1>4, EndOK DEF SpliceEnds
  <1>5. CASE ReadFails(c)
    BY <1>1, <1>5, EndOK DEF ReadFails
  <1>6. CASE OtherCommand(c)
    BY <1>1, <1>2, <1>6, ReplyOK DEF OtherCommand
  <1>7. CASE Listen(c)
    BY <1>1, <1>2, <1>7, ReplyOK DEF Listen
  <1>8. CASE Refuse(c)
    BY <1>1, <1>2, <1>8, ReplyOK DEF Refuse
  <1>9. CASE Dial(c)
    BY <1>1, <1>2, <1>9, ReplyOK, GoToOK DEF Dial, gauges
  <1>10. CASE Dialed(c)
    BY <1>1, <1>2, <1>10, ReplyOK DEF Dialed
  <1>11. CASE StartProxy(c)
    BY <1>1, <1>2, <1>11, EndOK, GoToOK DEF StartProxy, gauges
  <1>12. CASE ProxyEnds(c)
    BY <1>1, <1>12, EndOK DEF ProxyEnds
  <1> QED BY <1>3, <1>4, <1>5, <1>6, <1>7, <1>8, <1>9, <1>10, <1>11, <1>12

\* Connect looks the device up; the record is looked at when it is asked for.
LEMMA ConnectSteps ==
    ASSUME SessionInv, NEW c \in Client, Connect(c) \/ CheckRecord(c)
    PROVE  SessionInv'
  <1> USE DEF daemonVars, taskVars, tables
  <1> DEFINE s == sess[c]
  <1>1. {"reading", "refusing", "checking", "connecting"} \subseteq Busy \cap State
    BY DEF Busy, State
  <1>2. "reading" \notin Dialling /\ "refusing" \notin Dialling /\ "checking" \notin Dialling
    BY DEF Dialling
  <1>3. s.pc \in {"reading", "checking"}
    BY DEF Connect, CheckRecord
  <1>4. s \in SessionRecord /\ s.events = <<>> /\ s.synced = FALSE /\ s.id < next
    BY <1>1, <1>3, BusyWeight, QuietFacts
  <1>5. table \subseteq Nat /\ \A i \in table : i < next
    BY TypesOfInv
  <1>6. CASE Connect(c)
    <2>1. UNCHANGED gauges /\ UNCHANGED taskVars
      BY <1>6 DEF Connect
    <2>2. CASE GoTo(c, "refusing")
      BY <1>1, <1>2, <1>3, <2>1, <2>2, GoToOK
    <2>3. ASSUME NEW i \in table, NEW lockdown \in BOOLEAN,
                 Set(c, [s EXCEPT !.id = i, !.lockdown = lockdown,
                                  !.pc = IF lockdown /\ RequirePairRecord THEN "checking"
                                         ELSE "connecting"])
          PROVE  SessionInv'
      <3> DEFINE x == IF lockdown /\ RequirePairRecord THEN "checking" ELSE "connecting"
                 r == [s EXCEPT !.id = i, !.lockdown = lockdown, !.pc = x]
      <3>1. x \in {"checking", "connecting"} /\ (x = "connecting" => ~(lockdown /\ RequirePairRecord))
        OBVIOUS
      <3>2. Set(c, r)
        BY <2>3
      <3> HIDE DEF x, s
      <3>3. /\ r \in SessionRecord /\ r.pc = x /\ r.events = <<>> /\ r.synced = FALSE /\ r.id = i
            /\ r.lockdown = lockdown
        BY <1>1, <1>4, <1>5, <3>1 DEF SessionRecord
      <3> HIDE DEF r
      <3>4. (r.pc \in Dialling /\ RequirePairRecord /\ r.lockdown /\ r.id \in table) => r.seen
        BY <1>2, <3>1, <3>3
      <3>5. r.id < next /\ r.pc \in Busy /\ s.pc \in Busy
        BY <1>1, <1>3, <1>5, <3>1, <3>3
      <3> QED BY <2>1, <3>2, <3>3, <3>4, <3>5, BusyStep DEF s
    <2> QED BY <1>6, <2>2, <2>3 DEF Connect
  <1>7. CASE CheckRecord(c)
    <2>1. listens' = listens /\ UNCHANGED taskVars
      BY <1>7 DEF CheckRecord
    <2>2. CASE Reply(c, "reading")
      BY <1>1, <1>2, <1>3, <2>1, <2>2, ReplyOK
    <2>3. CASE /\ Set(c, [s EXCEPT !.pc = "connecting", !.seen = s.id \in table])
               /\ UNCHANGED <<permits, active>>
      <3> DEFINE r == [s EXCEPT !.pc = "connecting", !.seen = s.id \in table]
      <3>1. Set(c, r)
        BY <2>3
      <3> HIDE DEF s
      <3>2. (s.id \in table) \in BOOLEAN
        OBVIOUS
      <3>3. /\ r \in SessionRecord /\ r.pc = "connecting" /\ r.events = <<>> /\ r.synced = FALSE
            /\ r.id = s.id /\ r.seen = (s.id \in table)
        BY <1>1, <1>4, <3>2 DEF SessionRecord
      <3> HIDE DEF r
      <3>4. (r.pc \in Dialling /\ RequirePairRecord /\ r.lockdown /\ r.id \in table) => r.seen
        BY <3>3
      <3>5. r.id < next /\ r.pc \in Busy /\ s.pc \in Busy
        BY <1>1, <1>3, <1>4, <3>3
      <3>6. UNCHANGED gauges
        BY <2>1, <2>3 DEF gauges
      <3> QED BY <2>1, <3>1, <3>3, <3>4, <3>5, <3>6, BusyStep DEF s
    <2> QED BY <1>7, <2>2, <2>3 DEF CheckRecord
  <1> QED BY <1>6, <1>7

\* What the invariant says of a session that listens.
LEMMA ListenFacts ==
    ASSUME SessionInv, NEW c \in Client
    PROVE  /\ sess[c] \in SessionRecord /\ sess[c].pc \in State /\ sess[c].hand \in Event
           /\ sess[c].events \in Seq(Event) /\ Held(sess[c]) \in Seq(Event) /\ sess[c].id < next
           /\ sess[c].pc \in Listening => Settled(Pipe(sess[c], todo), table)
           /\ sess[c].synced => Carried(Pipe(sess[c], todo), sess[c].view, table)
  <1>1. sess[c] \in SessionRecord
    BY DEF SessionInv, SessionTypeOK
  <1>2. sess[c].hand \in Event /\ sess[c].events \in Seq(Event) /\ sess[c].pc \in State
    BY <1>1 DEF SessionRecord
  <1>3. SessOK(sess[c], next, table, todo)
    BY DEF SessionInv, SessionsOK
  <1>4. Held(sess[c]) \in Seq(Event)
    BY <1>2 DEF Held
  <1> QED BY <1>1, <1>2, <1>3, <1>4 DEF SessOK

\* A step of a session that goes on listening: only its queue and view change.
LEMMA ListenStep ==
    ASSUME SessionInv, NEW c \in Client, sess[c].pc \in Listening,
           NEW r \in SessionRecord, r.pc \in Listening, r.id = sess[c].id,
           Settled(Pipe(r, todo), table),
           r.synced => Carried(Pipe(r, todo), r.view, table),
           sess' = [sess EXCEPT ![c] = r], UNCHANGED gauges, UNCHANGED taskVars
    PROVE  SessionInv'
  <1>1. r.pc \notin Dialling
    BY DEF Listening, Dialling
  <1>2. SessOK(r, next, table, todo)
    BY <1>1, ListenFacts DEF SessOK
  <1>3. permits' = permits /\ active' = active /\ listens' = listens
    BY DEF gauges
  <1>4. /\ permits' = permits + Holds(sess[c].pc) - Holds(r.pc)
        /\ active' = active - Counts(sess[c].pc) + Counts(r.pc)
        /\ listens' = listens - Hears(sess[c].pc) + Hears(r.pc)
    BY <1>3, TypesOfInv DEF Holds, Counts, Hears, Listening
  <1> QED BY <1>2, <1>4, OneSession DEF taskVars

\* A peer that leaves is noticed later.
LEMMA LeavesStep ==
    ASSUME SessionInv, NEW c \in Client, ClientLeaves(c)
    PROVE  SessionInv'
  <1> DEFINE s == sess[c]
             r == [s EXCEPT !.gone = TRUE]
  <1>1. sess \in [Client -> SessionRecord] /\ s \in SessionRecord
    BY DEF SessionInv, SessionTypeOK
  <1>2. sess' = [sess EXCEPT ![c] = r]
    BY DEF ClientLeaves
  <1>3. /\ permits' = permits /\ active' = active /\ listens' = listens
        /\ UNCHANGED <<backend, limit, loop, next, table, todo>>
    BY DEF ClientLeaves, daemonVars, gauges, tables
  <1>4. SessOK(s, next, table, todo)
    BY DEF SessionInv, SessionsOK
  <1> HIDE DEF s
  <1>5. /\ r \in SessionRecord /\ r.pc = s.pc /\ r.hand = s.hand /\ r.events = s.events
        /\ r.id = s.id /\ r.lockdown = s.lockdown /\ r.seen = s.seen /\ r.view = s.view
        /\ r.synced = s.synced
    BY <1>1 DEF SessionRecord
  <1> HIDE DEF r
  <1>6. Pipe(r, todo) = Pipe(s, todo)
    BY <1>5 DEF Pipe, Held
  <1>7. SessOK(r, next, table, todo)
    BY <1>4, <1>5, <1>6 DEF SessOK
  <1>8. Holds(s.pc) \in Int /\ Counts(s.pc) \in Int /\ Hears(s.pc) \in Int
    BY DEF Holds, Counts, Hears
  <1>9. /\ permits' = permits + Holds(s.pc) - Holds(r.pc)
        /\ active' = active - Counts(s.pc) + Counts(r.pc)
        /\ listens' = listens - Hears(s.pc) + Hears(r.pc)
    BY <1>3, <1>5, <1>8, TypesOfInv
  <1> QED BY <1>2, <1>3, <1>5, <1>7, <1>9, OneSession DEF s

\* A list from the scanner's table makes a view that the events on their way
\* leave as it is.
LEMMA ListStep ==
    ASSUME SessionInv, NEW c \in Client, ListDevices(c)
    PROVE  SessionInv'
  <1>1. UNCHANGED taskVars /\ listens' = listens /\ sess[c].pc = "reading"
    BY DEF ListDevices, daemonVars, taskVars, tables
  <1>2. CASE End(c)
    BY <1>1, <1>2, EndOK DEF Busy, State
  <1>3. ASSUME NEW d \in Client, sess[d].pc \in Listening, UNCHANGED <<permits, active>>,
               Set(d, [sess[d] EXCEPT !.view = table, !.synced = TRUE])
        PROVE  SessionInv'
    <2> DEFINE s == sess[d]
               r == [s EXCEPT !.view = table, !.synced = TRUE]
    <2>1. /\ s \in SessionRecord /\ s.pc \in Listening /\ Settled(Pipe(s, todo), table)
          /\ table \subseteq Nat
      BY <1>3, ListenFacts, TypesOfInv
    <2>2. sess' = [sess EXCEPT ![d] = r]
      BY <1>3 DEF Set
    <2> HIDE DEF s
    <2>3. /\ r \in SessionRecord /\ r.pc = s.pc /\ r.hand = s.hand /\ r.events = s.events
          /\ r.id = s.id /\ r.view = table
      BY <2>1 DEF SessionRecord
    <2> HIDE DEF r
    <2>4. Pipe(r, todo) = Pipe(s, todo)
      BY <2>3 DEF Pipe, Held
    <2>5. Carried(Pipe(r, todo), r.view, table)
      BY <2>3 DEF Carried
    <2>6. UNCHANGED gauges
      BY <1>1, <1>3 DEF gauges
    <2> QED BY <1>1, <2>1, <2>2, <2>3, <2>4, <2>5, <2>6, ListenStep DEF s
  <1> QED BY <1>2, <1>3 DEF ListDevices

\* The subscription starts with what the scan loop has not sent yet.
LEMMA SubscribeStep ==
    ASSUME SessionInv, NEW c \in Client, Subscribe(c)
    PROVE  SessionInv'
  <1> DEFINE s == sess[c]
             r == [s EXCEPT !.pc = "listening"]
  <1>1. /\ s.pc = "subscribing" /\ sess' = [sess EXCEPT ![c] = r]
        /\ permits' = permits /\ active' = active /\ listens' = listens + 1
        /\ UNCHANGED <<backend, limit, loop, next, table, todo>>
    BY DEF Subscribe, GoTo, Set, daemonVars, tables
  <1>2. s \in SessionRecord /\ s.events = <<>> /\ s.synced = FALSE /\ s.id < next
    BY <1>1, QuietFacts DEF Listening
  <1> HIDE DEF s
  <1>3. /\ r \in SessionRecord /\ r.pc = "listening" /\ r.events = <<>> /\ r.synced = FALSE
        /\ r.id = s.id
    BY <1>2 DEF SessionRecord, State
  <1> HIDE DEF r
  <1>4. Pipe(r, todo) = todo
    <2>1. Held(r) = <<>> /\ todo \in Seq(Event) /\ <<>> \in Seq(Event)
      BY <1>3, TypesOfInv DEF Held
    <2>2. <<>> \o <<>> = <<>> /\ <<>> \o todo = todo
      BY <2>1, ConcatEmptySeq
    <2> QED BY <1>3, <2>1, <2>2 DEF Pipe
  <1>5. Settled(todo, table)
    BY DEF SessionInv, LoopOK
  <1>6. SessOK(r, next, table, todo)
    BY <1>2, <1>3, <1>4, <1>5 DEF SessOK, Dialling
  <1>7. /\ permits' = permits + Holds(s.pc) - Holds(r.pc)
        /\ active' = active - Counts(s.pc) + Counts(r.pc)
        /\ listens' = listens - Hears(s.pc) + Hears(r.pc)
    BY <1>1, <1>3, TypesOfInv DEF Holds, Counts, Hears, Listening
  <1> QED BY <1>1, <1>3, <1>6, <1>7, OneSession DEF s

\* Receiving an event, and skipping some: the events left are the newest.
LEMMA ReceiveSteps ==
    ASSUME SessionInv, NEW c \in Client, Recv(c) \/ Lagged(c)
    PROVE  SessionInv'
  <1> DEFINE s == sess[c]
             e == s.events
  <1>1. /\ s.pc = "listening" /\ UNCHANGED gauges /\ UNCHANGED taskVars
        /\ "listening" \in Listening /\ "pushing" \in Listening
    BY DEF Recv, Lagged, daemonVars, taskVars, tables, Listening
  <1>2. /\ s \in SessionRecord /\ e \in Seq(Event) /\ todo \in Seq(Event)
        /\ Settled(Pipe(s, todo), table)
        /\ s.synced => Carried(Pipe(s, todo), s.view, table)
    BY <1>1, ListenFacts, TypesOfInv
  <1>3. Pipe(s, todo) = e \o todo
    <2>1. Held(s) = <<>>
      BY <1>1 DEF Held
    <2>2. <<>> \o e = e
      BY <1>2, ConcatEmptySeq
    <2> QED BY <2>1, <2>2 DEF Pipe
  <1>4. CASE Recv(c)
    <2> DEFINE r == [s EXCEPT !.pc = "pushing", !.hand = Head(e), !.events = Tail(e)]
    <2>1. sess' = [sess EXCEPT ![c] = r] /\ Len(e) \in 1..Capacity
      BY <1>4 DEF Recv, Set
    <2> HIDE DEF s
    <2>2. e # <<>>
      BY <2>1
    <2>3. Head(e) \in Event /\ Tail(e) \in Seq(Event) /\ <<Head(e)>> \o Tail(e) = e
      <3> HIDE DEF e
      <3>1. Head(e) \in Event /\ Tail(e) \in Seq(Event)
        BY <1>2, <2>2
      <3>2. Len(e) \in Nat \ {0}
        BY <1>2, <2>2
      <3>3. SubSeq(e, 1, Len(e)) = <<e[1]>> \o SubSeq(e, 1 + 1, Len(e))
        BY <1>2, <3>2, SubSeqRecursiveFirst
      <3>4. SubSeq(e, 1, Len(e)) = e /\ Tail(e) = SubSeq(e, 2, Len(e)) /\ e[1] = Head(e)
        BY <1>2, <2>2, SubSeqFull, TailIsSubSeq
      <3> QED BY <3>1, <3>3, <3>4
    <2>4. /\ r \in SessionRecord /\ r.pc = "pushing" /\ r.hand = Head(e) /\ r.events = Tail(e)
          /\ r.id = s.id /\ r.view = s.view /\ r.synced = s.synced
      BY <1>2, <2>3 DEF SessionRecord, State
    <2> HIDE DEF r
    <2>5. Pipe(r, todo) = Pipe(s, todo)
      BY <1>3, <2>3, <2>4 DEF Pipe, Held
    <2> QED BY <1>1, <1>2, <2>1, <2>4, <2>5, ListenStep DEF s
  <1>5. CASE Lagged(c)
    <2> DEFINE m == Len(e) - Capacity
               p == SubSeq(e, 1, m)
               q == SubSeq(e, m + 1, Len(e))
               r == [s EXCEPT !.events = q, !.view = {}, !.synced = FALSE]
    <2>1. sess' = [sess EXCEPT ![c] = r] /\ Len(e) > Capacity
      BY <1>5 DEF Lagged, Set
    <2> HIDE DEF s
    <2>2. m \in 1..Len(e) /\ Len(e) \in Nat
      BY <1>2, <2>1, SessionConstants
    <2>3. p \in Seq(Event) /\ q \in Seq(Event) /\ p \o q = e
      <3> HIDE DEF e, m
      <3>1. p \o q = SubSeq(e, 1, Len(e))
        BY <1>2, <2>2, ConcatAdjacentSubSeq
      <3>2. SubSeq(e, 1, Len(e)) = e
        BY <1>2, SubSeqFull
      <3>3. p \in Seq(Event) /\ q \in Seq(Event)
        BY <1>2, <2>2
      <3> QED BY <3>1, <3>2, <3>3
    <2>4. /\ r \in SessionRecord /\ r.pc = s.pc /\ r.events = q /\ r.synced = FALSE
          /\ r.id = s.id
      <3> HIDE DEF q
      <3> QED BY <1>2, <2>3 DEF SessionRecord
    <2> HIDE DEF r, p, q, m, e
    <2>5. Pipe(r, todo) = q \o todo
      <3>1. Held(r) = <<>>
        BY <1>1, <2>4 DEF Held
      <3>2. <<>> \o q = q
        BY <2>3, ConcatEmptySeq
      <3> QED BY <2>4, <3>1, <3>2 DEF Pipe
    <2>6. e \o todo = p \o (q \o todo) /\ q \o todo \in Seq(Event)
      <3>3. p \in Seq(Event) /\ q \in Seq(Event) /\ todo \in Seq(Event)
        BY <1>2, <2>3
      <3>1. (p \o q) \o todo = p \o (q \o todo)
        BY <3>3, ConcatAssociative
      <3>2. q \o todo \in Seq(Event)
        BY <1>2, <2>3
      <3> QED BY <2>3, <3>1, <3>2
    <2>7. Settled(q \o todo, table)
      BY <1>2, <1>3, <2>3, <2>6, SettledSuffix
    <2> QED BY <1>1, <2>1, <2>4, <2>5, <2>7, ListenStep DEF s
  <1> QED BY <1>4, <1>5

\* Writing an event to the client.
LEMMA PushStep ==
    ASSUME SessionInv, NEW c \in Client, Push(c)
    PROVE  SessionInv'
  <1> DEFINE s == sess[c]
             e == s.events
             h == s.hand
  <1>1. s.pc = "pushing" /\ UNCHANGED taskVars /\ "pushing" \in Listening
    BY DEF Push, daemonVars, taskVars, tables, Listening
  <1>2. /\ s \in SessionRecord /\ e \in Seq(Event) /\ h \in Event /\ todo \in Seq(Event)
        /\ Settled(Pipe(s, todo), table)
        /\ s.synced => Carried(Pipe(s, todo), s.view, table)
    BY <1>1, ListenFacts, TypesOfInv
  <1>3. CASE End(c) /\ listens' = listens - 1
    <2>1. Off \in SessionRecord /\ Off.pc = "off" /\ SessOK(Off, next, table, todo)
      BY TypesOfInv, OffOK
    <2>2. sess' = [sess EXCEPT ![c] = Off] /\ permits' = permits + 1 /\ active' = active - 1
      BY <1>3 DEF End, Set
    <2>3. /\ permits' = permits + Holds(s.pc) - Holds(Off.pc)
          /\ active' = active - Counts(s.pc) + Counts(Off.pc)
          /\ listens' = listens - Hears(s.pc) + Hears(Off.pc)
      BY <1>1, <1>3, <2>1, <2>2, TypesOfInv DEF Holds, Counts, Hears, Listening
    <2> QED BY <1>1, <2>1, <2>2, <2>3, OneSession DEF taskVars
  <1>4. CASE /\ Set(c, [s EXCEPT !.pc = "listening", !.hand = NoEvent,
                                 !.view = IF s.synced THEN Seen(s.view, h) ELSE s.view])
             /\ UNCHANGED gauges
    <2> DEFINE w == IF s.synced THEN Seen(s.view, h) ELSE s.view
               r == [s EXCEPT !.pc = "listening", !.hand = NoEvent, !.view = w]
    <2>1. sess' = [sess EXCEPT ![c] = r]
      BY <1>4 DEF Set
    <2> HIDE DEF s
    <2>2. w \in SUBSET Nat /\ (s.synced => w = Seen(s.view, h))
      <3>1. s.view \in SUBSET Nat
        BY <1>2 DEF SessionRecord
      <3>2. h.id \in Nat
        BY <1>2 DEF Event
      <3> QED BY <3>1, <3>2 DEF Seen
    <2> HIDE DEF w
    <2>3. /\ r \in SessionRecord /\ r.pc = "listening" /\ r.events = e /\ r.id = s.id
          /\ r.view = w /\ r.synced = s.synced
      <3>1. NoEvent \in Event
        BY DEF NoEvent, Detached, Event
      <3> QED BY <1>2, <2>2, <3>1 DEF SessionRecord, State
    <2> HIDE DEF r, e, h
    <2>4. Pipe(r, todo) = e \o todo /\ e \o todo \in Seq(Event)
      <3>1. Held(r) = <<>>
        BY <2>3 DEF Held
      <3>2. <<>> \o e = e /\ e \o todo \in Seq(Event)
        BY <1>2, ConcatEmptySeq, ConcatProperties
      <3> QED BY <2>3, <3>1, <3>2 DEF Pipe
    <2>5. Pipe(s, todo) = <<h>> \o (e \o todo) /\ <<h>> \in Seq(Event)
      <3>1. Held(s) = <<h>>
        BY <1>1 DEF Held, h
      <3>2. <<h>> \in Seq(Event)
        BY <1>2
      <3>3. (<<h>> \o e) \o todo = <<h>> \o (e \o todo)
        BY <1>2, <3>2, ConcatAssociative
      <3> QED BY <3>1, <3>2, <3>3 DEF Pipe, e
    <2>6. Settled(Pipe(r, todo), table)
      BY <1>2, <2>4, <2>5, SettledSuffix
    <2>7. r.synced => Carried(Pipe(r, todo), r.view, table)
      BY <1>2, <2>2, <2>3, <2>4, <2>5, CarriedSeen
    <2>8. r.pc \in Listening
      BY <2>3 DEF Listening
    <2> QED BY <1>1, <1>4, <2>1, <2>3, <2>6, <2>7, <2>8, ListenStep DEF s
  <1> QED BY <1>3, <1>4 DEF Push

-----------------------------------------------------------------------------
(* Steps of the scan loop, and the end.                                    *)

\* Sessions that stay in their states keep the gauges exact.
LEMMA GaugesStay ==
    ASSUME GaugesExact, UNCHANGED <<limit, permits, active, listens>>,
           \A c \in Client : sess'[c].pc = sess[c].pc
    PROVE  GaugesExact'
  <1>1. \A X : {c \in Client : sess'[c].pc \notin X} = {c \in Client : sess[c].pc \notin X}
    OBVIOUS
  <1>2. {c \in Client : sess'[c].pc \in Listening} = {c \in Client : sess[c].pc \in Listening}
    OBVIOUS
  <1> QED BY <1>1, <1>2 DEF GaugesExact

\* Steps that concern neither sessions nor the scanner's table.
LEMMA LoopSteps ==
    ASSUME SessionInv, Wake \/ Apply \/ Reconcile \/ UsbLost
    PROVE  SessionInv'
  <1>1. /\ backend' = backend /\ limit' = limit /\ sess' = sess
        /\ permits' = permits /\ active' = active /\ listens' = listens
        /\ next' = next /\ table' = table /\ todo' = todo
    BY DEF Wake, Apply, Reconcile, UsbLost, gauges, tables
  <1>2. loop' \in {"waiting", "send", "sleep", loop}
    BY DEF Wake, Apply, Reconcile, UsbLost
  <1>3. SessionTypeOK'
    BY <1>1, <1>2 DEF SessionInv, SessionTypeOK
  <1>4. LoopOK'
    BY <1>1 DEF SessionInv, LoopOK, Wake, Apply, Reconcile, UsbLost
  <1>5. SessionsOK'
    BY <1>1 DEF SessionInv, SessionsOK
  <1>6. GaugesExact'
    BY <1>1, GaugesStay DEF SessionInv
  <1> QED BY <1>3, <1>4, <1>5, <1>6 DEF SessionInv

\* The changes of a scan settle its new table, and say all that has changed.
LEMMA ScanSettles ==
    ASSUME NEW t \in SUBSET Nat, NEW new \in SUBSET Nat, NEW lost \in SUBSET t,
           IsFiniteSet(new), IsFiniteSet(lost), new \cap lost = {}
    PROVE  LET n == SetToSeq({Attached(i) : i \in new}) \o SetToSeq({Detached(i) : i \in lost})
               u == (t \cup new) \ lost
           IN  n \in Seq(Event) /\ Settled(n, u) /\ Carried(n, t, u)
  <1> DEFINE SA == {Attached(i) : i \in new}
             SB == {Detached(i) : i \in lost}
             A == SetToSeq(SA)
             B == SetToSeq(SB)
             n == A \o B
             u == (t \cup new) \ lost
  <1>1. IsFiniteSet(SA) /\ IsFiniteSet(SB)
    <2> DEFINE f == [i \in new |-> Attached(i)]
               g == [i \in lost |-> Detached(i)]
    <2>1. f \in Surjection(new, SA) /\ g \in Surjection(lost, SB)
      BY DEF Surjection
    <2> HIDE DEF SA, SB, f, g
    <2> QED BY <2>1, FS_Surjection DEF ExistsSurjection
  <1>2. /\ \A i : Attached(i).kind = "attached" /\ Attached(i).id = i
        /\ \A i : Detached(i).kind = "detached" /\ Detached(i).id = i
    BY DEF Attached, Detached
  <1>3. SA \subseteq Event /\ SB \subseteq Event
    BY DEF Attached, Detached, Event
  <1>4. /\ A \in Seq(SA) /\ \A x \in SA : \E k \in 1..Len(A) : A[k] = x
        /\ B \in Seq(SB) /\ \A x \in SB : \E k \in 1..Len(B) : B[k] = x
    <2> HIDE DEF SA, SB
    <2> QED BY <1>1, SetToSeqCovers
  <1> HIDE DEF A, B
  <1>5. /\ A \in Seq(Event) /\ \A k \in 1..Len(A) : \E i \in new : A[k] = Attached(i)
        /\ B \in Seq(Event) /\ \A k \in 1..Len(B) : \E i \in lost : B[k] = Detached(i)
    <2>1. /\ A \in Seq(Event) /\ \A k \in 1..Len(A) : A[k] \in SA
          /\ B \in Seq(Event) /\ \A k \in 1..Len(B) : B[k] \in SB
      <3> HIDE DEF SA, SB
      <3>1. A \in Seq(SA) /\ B \in Seq(SB)
        BY <1>4
      <3>2. (\A k \in 1..Len(A) : A[k] \in SA) /\ (\A k \in 1..Len(B) : B[k] \in SB)
        BY <3>1
      <3> QED BY <1>3, <3>1, <3>2
    <2> QED BY <2>1
  <1> DEFINE a == Len(A)
  <1>6. /\ n \in Seq(Event)
        /\ \A k \in 1..a : k \in 1..Len(n) /\ n[k] = A[k]
        /\ \A k \in 1..Len(B) : a + k \in 1..Len(n) /\ n[a + k] = B[k]
        /\ \A k \in 1..Len(n) : k \notin 1..a => k - a \in 1..Len(B) /\ n[k] = B[k - a]
    BY <1>5, Concat
  <1> HIDE DEF n, a
  <1>7. ASSUME NEW k \in 1..Len(n) PROVE n[k].kind = "attached" <=> n[k].id \in u
    <2>1. CASE k \in 1..a
      <3>1. PICK i \in new : n[k] = Attached(i)
        BY <1>5, <1>6, <2>1 DEF a
      <3> QED BY <1>2, <3>1
    <2>2. CASE k \notin 1..a
      <3>1. PICK i \in lost : n[k] = Detached(i)
        BY <1>5, <1>6, <2>2
      <3> QED BY <1>2, <3>1
    <2> QED BY <2>1, <2>2
  <1>8. ASSUME NEW i, \A k \in 1..Len(n) : n[k].id # i PROVE i \notin new /\ i \notin lost
    <2>1. CASE i \in new
      <3>1. PICK k \in 1..a : A[k] = Attached(i)
        BY <1>4, <2>1 DEF a
      <3> QED BY <1>2, <1>6, <1>8, <3>1
    <2>2. CASE i \in lost
      <3>1. PICK k \in 1..Len(B) : B[k] = Detached(i)
        BY <1>4, <2>2
      <3>2. a + k \in 1..Len(n) /\ n[a + k] = Detached(i)
        BY <1>6, <3>1
      <3> QED BY <1>2, <1>8, <3>2
    <2> QED BY <2>1, <2>2
  <1>9. Settled(n, u)
    BY <1>7 DEF Settled
  <1>10. Carried(n, t, u)
    BY <1>8 DEF Carried
  <1> QED BY <1>6, <1>9, <1>10 DEF n, A, B

\* A scan: the table changes and the events for it are queued at once.
LEMMA ScanStep ==
    ASSUME SessionInv, Scan
    PROVE  SessionInv'
  <1>1. PICK new \in SUBSET ({next} \cap Id), lost \in SUBSET table :
            /\ table' = (table \cup new) \ lost
            /\ next' = next + Cardinality(new)
            /\ todo' = SetToSeq({Attached(i) : i \in new}) \o SetToSeq({Detached(i) : i \in lost})
    BY DEF Scan
  <1>2. /\ loop = "waiting" /\ loop' = "apply"
        /\ backend' = backend /\ limit' = limit /\ sess' = sess
        /\ permits' = permits /\ active' = active /\ listens' = listens
    BY DEF Scan, gauges
  <1>3. next \in Nat \ {0} /\ table \subseteq 1..(next - 1) /\ todo = <<>>
    BY <1>2, TypesOfInv DEF SessionInv, LoopOK
  <1>4. /\ IsFiniteSet(new) /\ IsFiniteSet(lost)
        /\ Cardinality(new) = IF new = {} THEN 0 ELSE 1
    <2>1. IsFiniteSet(table)
      <3>1. IsFiniteSet(1..(next - 1))
        BY <1>3, FS_Interval
      <3> QED BY <1>3, <3>1, FS_Subset
    <2>2. new = {} \/ new = {next}
      OBVIOUS
    <2>3. IsFiniteSet(lost)
      BY <2>1, FS_Subset
    <2>4. CASE new = {}
      BY <2>3, <2>4, FS_EmptySet
    <2>5. CASE new = {next}
      BY <2>3, <2>5, FS_Singleton
    <2> QED BY <2>2, <2>4, <2>5
  <1>5. /\ table \in SUBSET Nat /\ new \in SUBSET Nat /\ new \cap lost = {}
        /\ \A i \in table : i < next
    BY <1>3
  <1>6. todo' \in Seq(Event) /\ Settled(todo', table') /\ Carried(todo', table, table')
    BY <1>1, <1>4, <1>5, ScanSettles
  <1>7. /\ next' \in Nat \ {0} /\ next' >= next /\ table' \subseteq 1..(next' - 1)
        /\ \A i \in table' : i < next => i \in table
    <2>1. CASE new = {}
      <3>1. next' = next /\ table' = table \ lost
        BY <1>1, <1>3, <1>4, <2>1
      <3> QED BY <1>3, <3>1
    <2>2. CASE new # {}
      <3>1. next' = next + 1 /\ table' = (table \cup {next}) \ lost
        BY <1>1, <1>4, <2>2
      <3> QED BY <1>3, <3>1
    <2> QED BY <2>1, <2>2
  <1>8. SessionTypeOK'
    BY <1>2, <1>6, <1>7 DEF SessionInv, SessionTypeOK
  <1>9. LoopOK'
    BY <1>2, <1>6 DEF LoopOK
  <1>10. GaugesExact'
    BY <1>2, GaugesStay DEF SessionInv
  <1>11. ASSUME NEW c \in Client PROVE SessOK(sess[c], next', table', todo')
    <2> DEFINE s == sess[c]
               p == Held(s) \o s.events
    <2>1. SessOK(s, next, table, todo) /\ Held(s) \in Seq(Event) /\ s.events \in Seq(Event)
          /\ s.id \in Nat
      BY ListenFacts DEF SessionInv, SessionsOK, SessionRecord
    <2> HIDE DEF s
    <2>2. p \in Seq(Event)
      BY <2>1, ConcatProperties
    <2>3. Pipe(s, todo) = p /\ Pipe(s, todo') = p \o todo'
      <3>1. p \o <<>> = p
        BY <2>2, ConcatEmptySeq
      <3> QED BY <1>3, <3>1 DEF Pipe
    <2> HIDE DEF p
    <2>4. Settled(p, table) => Settled(p \o todo', table')
      BY <1>6, <2>2, SettledAppend
    <2>5. Settled(p, table) /\ Carried(p, s.view, table) => Carried(p \o todo', s.view, table')
      BY <1>6, <2>2, SettledAppend
    <2>6. s.synced => s.pc \in Listening
      BY <2>1 DEF SessOK
    <2>7. s.id < next' /\ (s.id \in table' => s.id \in table)
      <3>1. s.id < next
        BY <2>1 DEF SessOK
      <3>2. s.id \in Nat /\ next \in Nat /\ next' \in Nat /\ next' >= next
        BY <1>3, <1>7, <2>1
      <3>3. s.id \in table' => s.id \in table
        BY <1>7, <3>1
      <3>4. s.id < next'
        BY <3>1, <3>2
      <3> QED BY <3>3, <3>4
    <2>8. SessOK(s, next', table', todo')
      BY <2>1, <2>3, <2>4, <2>5, <2>6, <2>7 DEF SessOK
    <2> QED BY <2>8 DEF s
  <1>12. SessionsOK'
    BY <1>2, <1>11 DEF SessionsOK
  <1> QED BY <1>8, <1>9, <1>10, <1>12 DEF SessionInv

\* An event goes from the end of the loop's changes to the end of every queue.
LEMMA SendStep ==
    ASSUME SessionInv, Send
    PROVE  SessionInv'
  <1> DEFINE h == Head(todo)
             u == Tail(todo)
  <1>1. /\ loop = "send" /\ loop' = "apply" /\ todo' = u
        /\ backend' = backend /\ limit' = limit /\ next' = next /\ table' = table
        /\ permits' = permits /\ active' = active /\ listens' = listens
        /\ sess' = [c \in Client |-> IF sess[c].pc \in Listening
                                     THEN [sess[c] EXCEPT !.events = Append(@, h)] ELSE sess[c]]
    BY DEF Send, Deliver, gauges
  <1>2. todo \in Seq(Event) /\ todo # <<>> /\ Settled(todo, table)
    BY <1>1, TypesOfInv DEF SessionInv, LoopOK
  <1>3. h \in Event /\ u \in Seq(Event) /\ <<h>> \in Seq(Event) /\ <<h>> \o u = todo
    <2>1. Len(todo) \in Nat \ {0} /\ h \in Event /\ u \in Seq(Event)
      BY <1>2
    <2>2. SubSeq(todo, 1, Len(todo)) = <<todo[1]>> \o SubSeq(todo, 1 + 1, Len(todo))
      BY <1>2, <2>1, SubSeqRecursiveFirst
    <2>3. SubSeq(todo, 1, Len(todo)) = todo /\ u = SubSeq(todo, 2, Len(todo)) /\ todo[1] = h
      BY <1>2, SubSeqFull, TailIsSubSeq
    <2> QED BY <2>1, <2>2, <2>3
  <1> HIDE DEF h, u
  <1>4. ASSUME NEW c \in Client
        PROVE  /\ sess'[c] \in SessionRecord /\ sess'[c].pc = sess[c].pc
               /\ SessOK(sess'[c], next, table, u)
    <2> DEFINE s == sess[c]
    <2>1. /\ SessOK(s, next, table, todo) /\ s \in SessionRecord
          /\ Held(s) \in Seq(Event) /\ s.events \in Seq(Event)
      BY ListenFacts DEF SessionInv, SessionsOK
    <2>2. CASE s.pc \in Listening
      <3> DEFINE r == [s EXCEPT !.events = Append(s.events, h)]
      <3>1. sess'[c] = r
        BY <1>1, <2>2
      <3> HIDE DEF s
      <3>2. /\ r \in SessionRecord /\ r.pc = s.pc /\ r.events = s.events \o <<h>>
            /\ r.id = s.id /\ r.lockdown = s.lockdown /\ r.seen = s.seen /\ r.hand = s.hand
            /\ r.view = s.view /\ r.synced = s.synced
        <4>1. Append(s.events, h) \in Seq(Event) /\ Append(s.events, h) = s.events \o <<h>>
          BY <1>3, <2>1, AppendIsConcat
        <4> QED BY <2>1, <4>1 DEF SessionRecord
      <3> HIDE DEF r
      <3>3. Pipe(r, u) = Pipe(s, todo)
        <4> DEFINE a == Held(s)
                   e == s.events
                   b == <<h>>
        <4>1. a \in Seq(Event) /\ e \in Seq(Event) /\ b \in Seq(Event) /\ u \in Seq(Event)
          BY <1>3, <2>1
        <4>2. Held(r) = a
          BY <3>2 DEF Held
        <4>3. b \o u = todo
          BY <1>3
        <4> HIDE DEF a, e, b
        <4>4. a \o (e \o b) = (a \o e) \o b /\ a \o e \in Seq(Event)
          BY <4>1, ConcatAssociative, ConcatProperties
        <4>5. ((a \o e) \o b) \o u = (a \o e) \o (b \o u)
          <5> DEFINE d == a \o e
          <5>1. d \in Seq(Event)
            BY <4>4
          <5> HIDE DEF d
          <5>2. \A x, y, z \in Seq(Event) : (x \o y) \o z = x \o (y \o z)
            BY ConcatAssociative
          <5>3. (d \o b) \o u = d \o (b \o u)
            BY <4>1, <5>1, <5>2, Zenon
          <5> QED BY <5>3 DEF d
        <4>6. Pipe(r, u) = (a \o (e \o b)) \o u
          BY <3>2, <4>2 DEF Pipe, e, b
        <4>7. Pipe(s, todo) = (a \o e) \o todo
          BY DEF Pipe, a, e
        <4> QED BY <4>3, <4>4, <4>5, <4>6, <4>7
      <3>4. SessOK(r, next, table, u)
        BY <2>1, <2>2, <3>2, <3>3 DEF SessOK
      <3> QED BY <3>1, <3>2, <3>4 DEF s
    <2>3. CASE s.pc \notin Listening
      <3>1. sess'[c] = s
        BY <1>1, <2>3
      <3>2. SessOK(s, next, table, u)
        BY <2>1, <2>3 DEF SessOK
      <3> QED BY <2>1, <3>1, <3>2
    <2> QED BY <2>2, <2>3
  <1>5. SessionTypeOK'
    <2>1. sess' \in [Client -> SessionRecord]
      <3>1. \A c \in Client : sess'[c] \in SessionRecord
        BY <1>4
      <3>2. sess' = [c \in Client |-> sess'[c]]
        BY <1>1
      <3> QED BY <3>1, <3>2
    <2> QED BY <1>1, <1>3, <2>1 DEF SessionInv, SessionTypeOK
  <1>6. LoopOK'
    <2>1. Settled(u, table)
      BY <1>2, <1>3, SettledSuffix
    <2> QED BY <1>1, <2>1 DEF LoopOK
  <1>7. SessionsOK'
    BY <1>1, <1>4 DEF SessionsOK
  <1>8. GaugesExact'
    BY <1>1, <1>4, GaugesStay DEF SessionInv
  <1> QED BY <1>5, <1>6, <1>7, <1>8 DEF SessionInv

\* No session: the gauges are at rest.
LEMMA NobodyThere ==
    ASSUME SessionTypeOK, sess = [c \in Client |-> Off],
           permits = limit, active = 0, listens = 0
    PROVE  SessionsOK /\ GaugesExact
  <1>1. \A c \in Client : sess[c] = Off
    OBVIOUS
  <1>2. Off.pc = "off" /\ SessOK(Off, next, table, todo)
    BY OffOK
  <1>3. SessionsOK
    BY <1>1, <1>2 DEF SessionsOK
  <1>4. /\ {c \in Client : sess[c].pc \notin {"off", "backlog"}} = {}
        /\ {c \in Client : sess[c].pc \notin {"off", "backlog", "spawned"}} = {}
        /\ {c \in Client : sess[c].pc \in Listening} = {}
    BY <1>1, <1>2 DEF Listening
  <1>5. Cardinality({}) = 0 /\ limit \in Nat
    BY FS_EmptySet DEF SessionTypeOK
  <1>6. GaugesExact
    <2>1. permits = limit - 0 /\ active = 0 /\ listens = 0
      BY <1>5
    <2> QED BY <1>4, <1>5, <2>1, Zenon DEF GaugesExact
  <1> QED BY <1>3, <1>6

\* Shutdown aborts every session.
LEMMA ShutdownStep ==
    ASSUME SessionInv, Shutdown
    PROVE  SessionInv'
  <1>1. /\ sess' = [c \in Client |-> Off] /\ permits' = limit /\ active' = 0 /\ listens' = 0
        /\ loop' = "stopped" /\ backend' = backend /\ limit' = limit
        /\ next' = next /\ table' = table /\ todo' = todo
    BY DEF Shutdown, tables
  <1>2. Off \in SessionRecord
    BY TypesOfInv, OffOK
  <1>3. SessionTypeOK'
    BY <1>1, <1>2 DEF SessionInv, SessionTypeOK
  <1>4. LoopOK'
    BY <1>1 DEF SessionInv, LoopOK
  <1>5. SessionsOK' /\ GaugesExact'
    <2>1. \A c \in Client : sess'[c] = Off
      BY <1>1
    <2>2. Off.pc = "off" /\ SessOK(Off, next, table, todo)
      BY TypesOfInv, OffOK
    <2>3. SessionsOK'
      BY <1>1, <2>1, <2>2 DEF SessionsOK
    <2>4. /\ {c \in Client : sess'[c].pc \notin {"off", "backlog"}} = {}
          /\ {c \in Client : sess'[c].pc \notin {"off", "backlog", "spawned"}} = {}
          /\ {c \in Client : sess'[c].pc \in Listening} = {}
      BY <2>1, <2>2 DEF Listening
    <2>5. Cardinality({}) = 0 /\ limit \in Nat
      BY FS_EmptySet DEF SessionInv, SessionTypeOK
    <2>6. permits' = limit' - 0 /\ active' = 0 /\ listens' = 0
      BY <1>1, <2>5
    <2>7. GaugesExact'
      BY <2>4, <2>5, <2>6, Zenon DEF GaugesExact
    <2> QED BY <2>3, <2>7
  <1> QED BY <1>3, <1>4, <1>5 DEF SessionInv

\* The invariant holds at the start.
LEMMA SessionInvInit == Init => SessionInv
  <1> SUFFICES ASSUME Init PROVE SessionInv
    OBVIOUS
  <1>1. SessionTypeOK
    <2>1. Off \in SessionRecord
      BY DEF Off, SessionRecord, State, Event, NoEvent, Detached
    <2>2. limit \in Nat
      BY SessionConstants DEF Init
    <2> QED BY <2>1, <2>2 DEF Init, SessionTypeOK
  <1>2. LoopOK
    BY DEF Init, LoopOK, Settled
  <1>3. SessionsOK /\ GaugesExact
    BY <1>1, NobodyThere DEF Init
  <1> QED BY <1>1, <1>2, <1>3 DEF SessionInv

\* Every step keeps the invariant.
LEMMA SessionInvNext == SessionInv /\ [Next]_vars => SessionInv'
  <1> SUFFICES ASSUME SessionInv, [Next]_vars PROVE SessionInv'
    OBVIOUS
  <1>1. CASE ScanLoop \/ UsbLost
    BY <1>1, LoopSteps, ScanStep, SendStep DEF ScanLoop
  <1>2. CASE Shutdown
    BY <1>2, ShutdownStep
  <1>3. ASSUME NEW c \in Client, Task(c) PROVE SessionInv'
    BY <1>3, AcceptSteps, TaskSteps, ConnectSteps, SubscribeStep, ReceiveSteps, PushStep DEF Task
  <1>4. ASSUME NEW c \in Client, Session(c) PROVE SessionInv'
    BY <1>4, AcceptSteps, TaskSteps, ConnectSteps, LeavesStep, ListStep DEF Session
  <1>5. CASE UNCHANGED vars
    <2>1. /\ backend' = backend /\ limit' = limit /\ sess' = sess /\ loop' = loop
          /\ permits' = permits /\ active' = active /\ listens' = listens
          /\ next' = next /\ table' = table /\ todo' = todo
      BY <1>5 DEF vars, gauges, tables
    <2>2. SessionTypeOK' /\ LoopOK' /\ SessionsOK'
      BY <2>1 DEF SessionInv, SessionTypeOK, LoopOK, SessionsOK
    <2>3. GaugesExact'
      BY <2>1, GaugesStay DEF SessionInv
    <2> QED BY <2>2, <2>3 DEF SessionInv
  <1> QED BY <1>1, <1>2, <1>3, <1>4, <1>5 DEF Next

\* The inductive invariant of the sessions holds in every reachable state.
THEOREM SessionInvariant == Spec => []SessionInv
  BY SessionInvInit, SessionInvNext, PTL DEF Spec

\* The permits of the semaphore and the gauges of clients and listeners agree
\* with the tasks in every state, for any number of clients and any limit.
THEOREM GaugesFollow == Spec => []GaugesExact
  <1>1. SessionInv => GaugesExact
    BY DEF SessionInv
  <1> QED BY <1>1, SessionInvariant, PTL

\* A client that lists the devices after its Listen has subscribed, and has not
\* lagged since, misses nothing: its view and the events on their way make the
\* scanner's table, wherever the scan loop is between table and announcement.
THEOREM ListenersMissNothing == Spec => []SyncedView
  <1>1. SessionInv => SyncedView
    <2> SUFFICES ASSUME SessionInv, NEW c \in Client, sess[c].synced
                 PROVE  table = FoldLeft(Seen, sess[c].view,
                                    (IF sess[c].pc = "pushing" THEN <<sess[c].hand>> ELSE <<>>)
                                        \o sess[c].events \o todo)
      BY DEF SyncedView
    <2> DEFINE q == Pipe(sess[c], todo)
    <2>1. SessOK(sess[c], next, table, todo)
      BY DEF SessionInv, SessionsOK
    <2>2. Settled(q, table) /\ Carried(q, sess[c].view, table)
      BY <2>1 DEF SessOK
    <2>3. q \in Seq(Event)
      BY ListenFacts, TypesOfInv, ConcatProperties DEF Pipe
    <2>4. FoldLeft(Seen, sess[c].view, q) = table
      <3> HIDE DEF q
      <3> QED BY <2>2, <2>3, FoldReaches
    <2> QED BY <2>4 DEF Pipe, Held
  <1> QED BY <1>1, SessionInvariant, PTL

\* With require_pair_record no lockdown connection reaches a phone the scanner
\* still knows unless its record was seen.
THEOREM RecordWasSeen == Spec => []LockdownNeedsRecord
  <1>1. SessionInv => LockdownNeedsRecord
    BY DEF SessionInv, SessionsOK, SessOK, LockdownNeedsRecord, Dialling
  <1> QED BY <1>1, SessionInvariant, PTL
=============================================================================
