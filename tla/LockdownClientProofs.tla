------------------------ MODULE LockdownClientProofs ------------------------
(***************************************************************************)
(* Machine-checked proofs about LockdownClient, for any list of keys and   *)
(* whatever the phone answers, delays or leaves out.                       *)
(***************************************************************************)
EXTENDS LockdownClient, SequenceTheorems, TLAPS

\* The number of a request: 0 for StartSession, else the place of the key.
Index == Nat
\* A piece of an answer, by the request it answers.
PieceType == [part : {"h1", "h2", "body"}, of : Nat,
              kind : {"error", "ssl", "plain", "value"}]
Pair == [key : Key, value : Key]

LockdownTypeOK ==
    /\ at \in 0..Len(Keys)
    /\ out \in Seq(Pair)
    /\ asked \in Seq(Index)
    /\ sending \in Seq(PieceType) /\ wire \in Seq(PieceType)
    /\ tls \in BOOLEAN /\ ssl \in BOOLEAN

\* The answer p was asked for before q, or p and q are pieces of one answer and
\* p is not its last.
Before(p, q) == p.of <= q.of /\ (p.part = "body" => p.of < q.of)
InOrder(s) == \A a, b \in 1..Len(s) : a < b => Before(s[a], s[b])
\* The requests are answered in their order, and what is still to come belongs
\* to requests that were made.
PendingOK(rq, se, wi, top) ==
    /\ InOrder(wi) /\ InOrder(se)
    /\ \A a \in 1..Len(wi), b \in 1..Len(se) : Before(wi[a], se[b])
    /\ \A a, b \in 1..Len(rq) : a < b => rq[a] < rq[b]
    /\ \A a \in 1..Len(wi), b \in 1..Len(rq) : wi[a].of < rq[b]
    /\ \A a \in 1..Len(se), b \in 1..Len(rq) : se[a].of < rq[b]
    /\ \A a \in 1..Len(rq) : rq[a] <= top
    /\ \A a \in 1..Len(se) : se[a].of <= top
    /\ \A a \in 1..Len(wi) : wi[a].of <= top
\* Every answer still to come is to a request above n.
Above(rq, se, wi, n) ==
    /\ \A a \in 1..Len(rq) : rq[a] > n
    /\ \A a \in 1..Len(se) : se[a].of > n
    /\ \A a \in 1..Len(wi) : wi[a].of > n

NothingPending == asked = <<>> /\ sending = <<>> /\ wire = <<>>
AllSsl(s) == \A a \in 1..Len(s) : s[a].kind = "ssl"

\* Before the queries nothing but StartSession was asked for.
SessionOK ==
    /\ pc \in {"open", "start", "session", "tls"} => at = 0 /\ out = <<>>
    /\ pc \in {"open", "start"} => NothingPending /\ ~ssl
    /\ pc = "tls" => NothingPending
    /\ pc = "session" /\ ssl => asked = <<>> /\ AllSsl(sending) /\ AllSsl(wire)

Asking == {"query", "await", "done"}
\* An answer still to come is to a key behind as many others as have a value.
CountOK == pc \in Asking => Len(out) <= at /\ Above(asked, sending, wire, Len(out))

\* The n-th value is that of the n-th key or of a later one, and of the key it
\* was read for or of an earlier one.
ValueOK ==
    \A n \in 1..Len(out) : \E i, j \in 1..Len(Keys) :
        /\ out[n].key = Keys[i] /\ out[n].value = Keys[j]
        /\ n <= j /\ j <= i

LockdownInv ==
    /\ LockdownTypeOK /\ PendingOK(asked, sending, wire, at)
    /\ SessionOK /\ CountOK /\ ValueOK /\ NoQueryInClear

-----------------------------------------------------------------------------
(* What the steps of the channel do to the answers still to come.          *)

\* The requests that pieces belong to are numbers.
LEMMA OfIsNat ==
    ASSUME NEW s \in Seq(PieceType)
    PROVE  \A a \in 1..Len(s) : s[a] \in PieceType /\ s[a].of \in Nat
  <1>1. \A a \in 1..Len(s) : s[a] \in PieceType
    OBVIOUS
  <1>2. \A x \in PieceType : x.of \in Nat
    BY DEF PieceType
  <1> QED BY <1>1, <1>2

\* A piece is read: the others come after it.
LEMMA ReadFirst ==
    ASSUME NEW rq \in Seq(Index), NEW se \in Seq(PieceType), NEW wi \in Seq(PieceType),
           NEW top \in Nat, PendingOK(rq, se, wi, top), wi # <<>>
    PROVE  /\ Head(wi) \in PieceType /\ Head(wi) = wi[1] /\ Head(wi).of <= top
           /\ Tail(wi) \in Seq(PieceType)
           /\ Len(Tail(wi)) = Len(wi) - 1
           /\ \A a \in 1..Len(Tail(wi)) : Tail(wi)[a] = wi[a + 1] /\ a + 1 \in 1..Len(wi)
           /\ PendingOK(rq, se, Tail(wi), top)
           /\ Head(wi).part = "body" => Above(rq, se, Tail(wi), Head(wi).of)
  <1> DEFINE h == Head(wi)
             t == Tail(wi)
  <1>1. Len(wi) \in Nat /\ Len(wi) >= 1 /\ 1 \in 1..Len(wi)
    OBVIOUS
  <1>2. /\ h = wi[1] /\ h \in PieceType /\ t \in Seq(PieceType) /\ Len(t) = Len(wi) - 1
        /\ \A a \in 1..Len(t) : t[a] = wi[a + 1]
    <2>1. h = wi[1] /\ t \in Seq(PieceType)
      OBVIOUS
    <2>2. wi[1] \in PieceType
      BY <1>1
    <2> QED BY <2>1, <2>2, HeadTailProperties
  <1> HIDE DEF h, t
  <1>3. \A a \in 1..Len(t) : a + 1 \in 1..Len(wi) /\ 1 < a + 1
    BY <1>1, <1>2
  <1>4. h.of <= top
    BY <1>1, <1>2 DEF PendingOK
  <1>5. InOrder(t)
    <2> SUFFICES ASSUME NEW a \in 1..Len(t), NEW b \in 1..Len(t), a < b
                 PROVE  Before(t[a], t[b])
      BY DEF InOrder
    <2>1. a + 1 \in 1..Len(wi) /\ b + 1 \in 1..Len(wi) /\ a + 1 < b + 1
      BY <1>3
    <2>2. Before(wi[a + 1], wi[b + 1])
      BY <2>1 DEF PendingOK, InOrder
    <2> QED BY <1>2, <2>2
  <1>6. PendingOK(rq, se, t, top)
    <2>1. \A a \in 1..Len(t), b \in 1..Len(se) : Before(t[a], se[b])
      BY <1>2, <1>3 DEF PendingOK
    <2>2. \A a \in 1..Len(t), b \in 1..Len(rq) : t[a].of < rq[b]
      BY <1>2, <1>3 DEF PendingOK
    <2>3. \A a \in 1..Len(t) : t[a].of <= top
      BY <1>2, <1>3 DEF PendingOK
    <2> QED BY <1>5, <2>1, <2>2, <2>3 DEF PendingOK
  <1>7. h.part = "body" => Above(rq, se, t, h.of)
    <2> SUFFICES ASSUME h.part = "body" PROVE Above(rq, se, t, h.of)
      OBVIOUS
    <2>0. /\ \A a \in 1..Len(rq) : rq[a] \in Nat
          /\ \A a \in 1..Len(se) : se[a].of \in Nat
          /\ \A a \in 1..Len(t) : t[a].of \in Nat
          /\ h.of \in Nat
      <3>1. \A a \in 1..Len(rq) : rq[a] \in Nat
        BY DEF Index
      <3>2. h.of \in Nat
        BY <1>2 DEF PieceType
      <3>3. \A a \in 1..Len(se) : se[a].of \in Nat
        BY OfIsNat
      <3>4. \A a \in 1..Len(t) : t[a].of \in Nat
        BY <1>2, OfIsNat
      <3> QED BY <3>1, <3>2, <3>3, <3>4
    <2>1. \A a \in 1..Len(rq) : h.of < rq[a]
      BY <1>1, <1>2 DEF PendingOK
    <2>2. \A a \in 1..Len(se) : h.of < se[a].of
      BY <1>1, <1>2 DEF PendingOK, Before
    <2>3. \A a \in 1..Len(t) : h.of < t[a].of
      <3> SUFFICES ASSUME NEW a \in 1..Len(t) PROVE h.of < t[a].of
        OBVIOUS
      <3>1. Before(wi[1], wi[a + 1])
        BY <1>1, <1>3 DEF PendingOK, InOrder
      <3> QED BY <1>2, <3>1 DEF Before
    <2> QED BY <2>0, <2>1, <2>2, <2>3 DEF Above
  <1> QED BY <1>2, <1>3, <1>4, <1>6, <1>7 DEF h, t

\* A request is made after all that are pending.
LEMMA AskNext ==
    ASSUME NEW rq \in Seq(Index), NEW se \in Seq(PieceType), NEW wi \in Seq(PieceType),
           NEW top \in Nat, PendingOK(rq, se, wi, top), NEW i \in Nat, i >= top,
           i = top => Len(rq) = 0 /\ Len(se) = 0 /\ Len(wi) = 0
    PROVE  /\ Append(rq, i) \in Seq(Index)
           /\ PendingOK(Append(rq, i), se, wi, i) /\ PendingOK(rq, se, wi, i)
           /\ \A n \in Nat : n < i /\ Above(rq, se, wi, n) => Above(Append(rq, i), se, wi, n)
  <1> DEFINE t == Append(rq, i)
  <1>1. /\ t \in Seq(Index) /\ Len(t) = Len(rq) + 1 /\ Len(rq) \in Nat
        /\ \A a \in 1..Len(t) : \/ a \in 1..Len(rq) /\ t[a] = rq[a]
                                \/ a = Len(rq) + 1 /\ t[a] = i
    <2>1. i \in Index
      BY DEF Index
    <2> QED BY <2>1
  <1> HIDE DEF t
  <1>2. /\ \A a \in 1..Len(rq) : rq[a] \in Nat
        /\ \A a \in 1..Len(se) : se[a].of \in Nat
        /\ \A a \in 1..Len(wi) : wi[a].of \in Nat
    <2>1. \A a \in 1..Len(rq) : rq[a] \in Nat
      BY DEF Index
    <2>2. \A a \in 1..Len(se) : se[a].of \in Nat
      BY OfIsNat
    <2>3. \A a \in 1..Len(wi) : wi[a].of \in Nat
      BY OfIsNat
    <2> QED BY <2>1, <2>2, <2>3
  <1>3. /\ \A a \in 1..Len(rq) : rq[a] < i /\ rq[a] <= i
        /\ \A a \in 1..Len(se) : se[a].of < i /\ se[a].of <= i
        /\ \A a \in 1..Len(wi) : wi[a].of < i /\ wi[a].of <= i
    <2>1. CASE i = top
      BY <2>1
    <2>2. CASE i > top
      <3>1. \A x \in Nat : x <= top => x < i /\ x <= i
        BY <2>2
      <3> QED BY <1>2, <3>1 DEF PendingOK
    <2> QED BY <2>1, <2>2
  <1>4. PendingOK(rq, se, wi, i)
    BY <1>3 DEF PendingOK
  <1>5. PendingOK(t, se, wi, i)
    <2>1. \A a, b \in 1..Len(t) : a < b => t[a] < t[b]
      <3> SUFFICES ASSUME NEW a \in 1..Len(t), NEW b \in 1..Len(t), a < b PROVE t[a] < t[b]
        OBVIOUS
      <3>1. a \in 1..Len(rq) /\ t[a] = rq[a]
        BY <1>1
      <3>2. CASE b \in 1..Len(rq) /\ t[b] = rq[b]
        BY <3>1, <3>2 DEF PendingOK
      <3>3. CASE b = Len(rq) + 1 /\ t[b] = i
        BY <1>3, <3>1, <3>3
      <3> QED BY <1>1, <3>2, <3>3
    <2>2. \A a \in 1..Len(wi), b \in 1..Len(t) : wi[a].of < t[b]
      BY <1>1, <1>3 DEF PendingOK
    <2>3. \A a \in 1..Len(se), b \in 1..Len(t) : se[a].of < t[b]
      BY <1>1, <1>3 DEF PendingOK
    <2>4. \A a \in 1..Len(t) : t[a] <= i
      BY <1>1, <1>3
    <2> QED BY <1>4, <2>1, <2>2, <2>3, <2>4 DEF PendingOK
  <1>6. \A n \in Nat : n < i /\ Above(rq, se, wi, n) => Above(t, se, wi, n)
    BY <1>1 DEF Above
  <1> QED BY <1>1, <1>4, <1>5, <1>6 DEF t

\* The phone begins the next answer.
LEMMA AnswerNext ==
    ASSUME NEW rq \in Seq(Index), NEW se \in Seq(PieceType), NEW wi \in Seq(PieceType),
           NEW top \in Nat, PendingOK(rq, se, wi, top), rq # <<>>,
           NEW kind \in {"error", "ssl", "plain", "value"}
    PROVE  /\ Head(rq) \in Nat /\ Head(rq) = rq[1] /\ 1 \in 1..Len(rq)
           /\ Tail(rq) \in Seq(Index) /\ Frame(Head(rq), kind) \in Seq(PieceType)
           /\ Len(Tail(rq)) = Len(rq) - 1
           /\ \A a \in 1..Len(Frame(Head(rq), kind)) : Frame(Head(rq), kind)[a].kind = kind
           /\ PendingOK(Tail(rq), Frame(Head(rq), kind), wi, top)
           /\ \A n \in Nat : Above(rq, se, wi, n) =>
                    Above(Tail(rq), Frame(Head(rq), kind), wi, n)
  <1> DEFINE h == Head(rq)
             t == Tail(rq)
             f == Frame(h, kind)
  <1>1. Len(rq) \in Nat /\ Len(rq) >= 1 /\ 1 \in 1..Len(rq)
    OBVIOUS
  <1>2. /\ h = rq[1] /\ h \in Nat /\ t \in Seq(Index) /\ Len(t) = Len(rq) - 1
        /\ \A a \in 1..Len(t) : t[a] = rq[a + 1] /\ t[a] \in Nat
    <2>1. h = rq[1] /\ t \in Seq(Index)
      OBVIOUS
    <2>2. rq[1] \in Index
      BY <1>1
    <2>3. Len(t) = Len(rq) - 1 /\ \A a \in 1..Len(t) : t[a] = rq[a + 1]
      BY HeadTailProperties
    <2>4. \A a \in 1..Len(t) : t[a] \in Index
      BY <2>1
    <2> QED BY <2>1, <2>2, <2>3, <2>4 DEF Index
  <1> HIDE DEF h, t
  <1>3. /\ f \in Seq(PieceType) /\ Len(f) = 3 /\ DOMAIN f = 1..3
        /\ \A a \in 1..3 : f[a].of = h /\ f[a].kind = kind
        /\ f[1].part # "body" /\ f[2].part # "body"
    <2>1. f = [n \in 1..3 |-> Piece(<<"h1", "h2", "body">>[n], h, kind)]
      BY DEF Frame
    <2>2. \A n \in 1..3 : n = 1 \/ n = 2 \/ n = 3
      OBVIOUS
    <2>3. \A n \in 1..3 : <<"h1", "h2", "body">>[n] \in {"h1", "h2", "body"}
      BY <2>2
    <2>4. \A n \in 1..3 : Piece(<<"h1", "h2", "body">>[n], h, kind) \in PieceType
      BY <1>2, <2>3 DEF Piece, PieceType
    <2>5. f \in [1..3 -> PieceType]
      BY <2>1, <2>4
    <2>6. f \in Seq(PieceType) /\ Len(f) = 3 /\ DOMAIN f = 1..3
      <3> HIDE DEF f
      <3>1. DOMAIN f = 1..3
        BY <2>5
      <3>2. f \in Seq(PieceType)
        BY <2>5, SeqDef
      <3> QED BY <3>1, <3>2
    <2>7. \A a \in 1..3 : f[a].of = h /\ f[a].kind = kind
      BY <2>1 DEF Piece
    <2>8. f[1].part = "h1" /\ f[2].part = "h2"
      BY <2>1 DEF Piece
    <2> QED BY <2>6, <2>7, <2>8
  <1> HIDE DEF f
  <1>4. \A a \in 1..Len(t) : a + 1 \in 1..Len(rq) /\ 1 < a + 1
    BY <1>1, <1>2
  <1>5. InOrder(f)
    <2> SUFFICES ASSUME NEW a \in 1..3, NEW b \in 1..3, a < b PROVE Before(f[a], f[b])
      BY <1>3 DEF InOrder
    <2>1. a = 1 \/ a = 2
      OBVIOUS
    <2>2. f[a].part # "body" /\ f[a].of = h /\ f[b].of = h
      BY <1>3, <2>1
    <2> QED BY <1>2, <2>2 DEF Before
  <1>6. \A a \in 1..Len(wi) : wi[a].of < h /\ wi[a].of \in Nat
    <2>1. \A a \in 1..Len(wi) : wi[a].of \in Nat
      BY OfIsNat
    <2> QED BY <1>1, <1>2, <2>1 DEF PendingOK
  <1>7. \A a \in 1..Len(t) : h < t[a]
    BY <1>1, <1>2, <1>4 DEF PendingOK
  <1>8. h <= top
    BY <1>1, <1>2 DEF PendingOK
  <1>9. PendingOK(t, f, wi, top)
    <2>1. \A a \in 1..Len(wi), b \in 1..Len(f) : Before(wi[a], f[b])
      BY <1>2, <1>3, <1>6 DEF Before
    <2>2. \A a, b \in 1..Len(t) : a < b => t[a] < t[b]
      <3> SUFFICES ASSUME NEW a \in 1..Len(t), NEW b \in 1..Len(t), a < b PROVE t[a] < t[b]
        OBVIOUS
      <3>1. a + 1 \in 1..Len(rq) /\ b + 1 \in 1..Len(rq) /\ a + 1 < b + 1
        BY <1>4
      <3>2. rq[a + 1] < rq[b + 1]
        BY <3>1 DEF PendingOK
      <3> QED BY <1>2, <3>2
    <2>3. \A a \in 1..Len(wi), b \in 1..Len(t) : wi[a].of < t[b]
      BY <1>2, <1>4 DEF PendingOK
    <2>4. \A a \in 1..Len(f), b \in 1..Len(t) : f[a].of < t[b]
      BY <1>3, <1>7
    <2>5. \A a \in 1..Len(t) : t[a] <= top
      BY <1>2, <1>4 DEF PendingOK
    <2>6. \A a \in 1..Len(f) : f[a].of <= top
      BY <1>3, <1>8
    <2> QED BY <1>5, <2>1, <2>2, <2>3, <2>4, <2>5, <2>6 DEF PendingOK
  <1>10. ASSUME NEW n \in Nat, Above(rq, se, wi, n) PROVE Above(t, f, wi, n)
    <2>1. h > n
      BY <1>1, <1>2, <1>10 DEF Above
    <2>2. \A a \in 1..Len(f) : f[a].of > n
      BY <1>3, <2>1
    <2>3. \A a \in 1..Len(t) : t[a] > n
      BY <1>2, <1>4, <1>10 DEF Above
    <2> QED BY <1>10, <2>2, <2>3 DEF Above
  <1> QED BY <1>1, <1>2, <1>3, <1>9, <1>10 DEF h, t, f

\* A piece goes from the phone to the channel.
LEMMA ArriveNext ==
    ASSUME NEW rq \in Seq(Index), NEW se \in Seq(PieceType), NEW wi \in Seq(PieceType),
           NEW top \in Nat, PendingOK(rq, se, wi, top), se # <<>>
    PROVE  /\ Tail(se) \in Seq(PieceType) /\ Append(wi, Head(se)) \in Seq(PieceType)
           /\ PendingOK(rq, Tail(se), Append(wi, Head(se)), top)
           /\ \A n \in Nat : Above(rq, se, wi, n) => Above(rq, Tail(se), Append(wi, Head(se)), n)
           /\ AllSsl(se) /\ AllSsl(wi) => AllSsl(Tail(se)) /\ AllSsl(Append(wi, Head(se)))
  <1> DEFINE h == Head(se)
             t == Tail(se)
             w == Append(wi, h)
  <1>1. Len(se) \in Nat /\ Len(se) >= 1 /\ 1 \in 1..Len(se)
    OBVIOUS
  <1>2. /\ h = se[1] /\ h \in PieceType /\ t \in Seq(PieceType) /\ Len(t) = Len(se) - 1
        /\ \A a \in 1..Len(t) : t[a] = se[a + 1]
    <2>1. h = se[1] /\ t \in Seq(PieceType)
      OBVIOUS
    <2>2. se[1] \in PieceType
      BY <1>1
    <2> QED BY <2>1, <2>2, HeadTailProperties
  <1> HIDE DEF h, t
  <1>3. \A a \in 1..Len(t) : a + 1 \in 1..Len(se) /\ 1 < a + 1
    BY <1>1, <1>2
  <1>4. /\ w \in Seq(PieceType) /\ Len(w) = Len(wi) + 1 /\ Len(wi) \in Nat
        /\ \A a \in 1..Len(w) : \/ a \in 1..Len(wi) /\ w[a] = wi[a]
                                \/ a = Len(wi) + 1 /\ w[a] = se[1]
    <2>1. h \in PieceType /\ h = se[1]
      BY <1>2
    <2>2. w \in Seq(PieceType) /\ Len(w) = Len(wi) + 1 /\ Len(wi) \in Nat
      BY <2>1
    <2>3. \A a \in 1..Len(wi) : w[a] = wi[a]
      BY <2>1
    <2>4. w[Len(wi) + 1] = h
      BY <2>1
    <2> HIDE DEF w
    <2> QED BY <2>1, <2>2, <2>3, <2>4
  <1> HIDE DEF w
  <1>5. InOrder(t)
    <2> SUFFICES ASSUME NEW a \in 1..Len(t), NEW b \in 1..Len(t), a < b
                 PROVE  Before(t[a], t[b])
      BY DEF InOrder
    <2>1. a + 1 \in 1..Len(se) /\ b + 1 \in 1..Len(se) /\ a + 1 < b + 1
      BY <1>3
    <2>2. Before(se[a + 1], se[b + 1])
      BY <2>1 DEF PendingOK, InOrder
    <2> QED BY <1>2, <2>2
  <1>6. InOrder(w)
    <2> SUFFICES ASSUME NEW a \in 1..Len(w), NEW b \in 1..Len(w), a < b
                 PROVE  Before(w[a], w[b])
      BY DEF InOrder
    <2>1. a \in 1..Len(wi) /\ w[a] = wi[a]
      BY <1>4
    <2>2. CASE b \in 1..Len(wi) /\ w[b] = wi[b]
      BY <2>1, <2>2 DEF PendingOK, InOrder
    <2>3. CASE b = Len(wi) + 1 /\ w[b] = se[1]
      BY <1>1, <2>1, <2>3 DEF PendingOK
    <2> QED BY <1>4, <2>2, <2>3
  <1>7. \A a \in 1..Len(w), b \in 1..Len(t) : Before(w[a], t[b])
    <2> SUFFICES ASSUME NEW a \in 1..Len(w), NEW b \in 1..Len(t) PROVE Before(w[a], se[b + 1])
      BY <1>2
    <2>1. CASE a \in 1..Len(wi) /\ w[a] = wi[a]
      BY <1>3, <2>1 DEF PendingOK
    <2>2. CASE a = Len(wi) + 1 /\ w[a] = se[1]
      BY <1>1, <1>3, <2>2 DEF PendingOK, InOrder
    <2> QED BY <1>4, <2>1, <2>2
  <1>8. \A a \in 1..Len(w) : \/ \E b \in 1..Len(wi) : w[a] = wi[b]
                             \/ \E b \in 1..Len(se) : w[a] = se[b]
    BY <1>1, <1>4
  <1>9. \A a \in 1..Len(t) : \E b \in 1..Len(se) : t[a] = se[b]
    BY <1>2, <1>3
  <1>10. PendingOK(rq, t, w, top)
    <2>1. \A a \in 1..Len(w), b \in 1..Len(rq) : w[a].of < rq[b]
      BY <1>8 DEF PendingOK
    <2>2. \A a \in 1..Len(t), b \in 1..Len(rq) : t[a].of < rq[b]
      BY <1>9 DEF PendingOK
    <2>3. \A a \in 1..Len(t) : t[a].of <= top
      BY <1>9 DEF PendingOK
    <2>4. \A a \in 1..Len(w) : w[a].of <= top
      BY <1>8 DEF PendingOK
    <2> QED BY <1>5, <1>6, <1>7, <2>1, <2>2, <2>3, <2>4 DEF PendingOK
  <1>11. ASSUME NEW n \in Nat, Above(rq, se, wi, n) PROVE Above(rq, t, w, n)
    BY <1>8, <1>9, <1>11 DEF Above
  <1>12. AllSsl(se) /\ AllSsl(wi) => AllSsl(t) /\ AllSsl(w)
    BY <1>8, <1>9 DEF AllSsl
  <1> QED BY <1>2, <1>4, <1>10, <1>11, <1>12 DEF h, t, w

\* The phone closes: what has arrived can still be read.
LEMMA CloseChannel ==
    ASSUME NEW rq \in Seq(Index), NEW se \in Seq(PieceType), NEW wi \in Seq(PieceType),
           NEW top \in Nat, PendingOK(rq, se, wi, top),
           NEW rq2 \in Seq(Index), NEW se2 \in Seq(PieceType), Len(rq2) = 0, Len(se2) = 0
    PROVE  /\ PendingOK(rq2, se2, wi, top)
           /\ \A n \in Nat : Above(rq, se, wi, n) => Above(rq2, se2, wi, n)
           /\ AllSsl(se2)
  BY DEF PendingOK, Above, InOrder, AllSsl

-----------------------------------------------------------------------------
(* The steps.                                                              *)

\* Nothing is asked for at first.
LEMMA LockdownInvInit == Init => LockdownInv
  <1> SUFFICES ASSUME Init PROVE LockdownInv
    OBVIOUS
  <1>1. at = 0 /\ Len(Keys) \in Nat
    BY LockdownConstants DEF Init
  <1>2. asked \in Seq(Index) /\ Len(asked) = 0 /\ asked = <<>>
    BY DEF Init
  <1>3. sending \in Seq(PieceType) /\ Len(sending) = 0 /\ sending = <<>>
    BY DEF Init
  <1>4. wire \in Seq(PieceType) /\ Len(wire) = 0 /\ wire = <<>>
    BY DEF Init
  <1>5. out \in Seq(Pair) /\ Len(out) = 0 /\ out = <<>>
    BY DEF Init
  <1>6. tls = FALSE /\ ssl = FALSE /\ pc = "open"
    BY DEF Init
  <1>7. LockdownTypeOK
    <2>1. at \in 0..Len(Keys)
      BY <1>1
    <2> QED BY <1>2, <1>3, <1>4, <1>5, <1>6, <2>1 DEF LockdownTypeOK
  <1>8. PendingOK(asked, sending, wire, at)
    BY <1>2, <1>3, <1>4 DEF PendingOK, InOrder
  <1>9. SessionOK
    BY <1>1, <1>2, <1>3, <1>4, <1>5, <1>6 DEF SessionOK, NothingPending
  <1>10. CountOK /\ NoQueryInClear
    BY <1>6 DEF CountOK, NoQueryInClear, Asking
  <1>11. ValueOK
    BY <1>5 DEF ValueOK
  <1> QED BY <1>7, <1>8, <1>9, <1>10, <1>11 DEF LockdownInv

\* Steps that read, ask and answer nothing.
LEMMA QuietStep ==
    ASSUME LockdownInv, UNCHANGED <<at, out, asked, sending, wire, ssl>>,
           tls' \in BOOLEAN,
           \/ pc' = pc /\ tls' = tls
           \/ pc = "open" /\ pc' = "start" /\ tls' = tls
           \/ pc = "start" /\ pc' = "query" /\ tls' = tls
           \/ pc = "tls" /\ pc' = "query" /\ tls'
           \/ pc = "await" /\ pc' = "query" /\ tls' = tls
           \/ pc = "query" /\ pc' = "done" /\ tls' = tls
           \/ pc' \in {"failed", "end", "ideviceinfo"} /\ tls' = tls
    PROVE  LockdownInv'
  <1>1. at' = at /\ out' = out /\ asked' = asked /\ sending' = sending /\ wire' = wire /\ ssl' = ssl
    OBVIOUS
  <1>2. LockdownTypeOK' /\ ValueOK'
    BY <1>1 DEF LockdownInv, LockdownTypeOK, ValueOK
  <1>3. PendingOK(asked, sending, wire, at)'
    BY <1>1 DEF LockdownInv
  <1>4. SessionOK'
    BY <1>1 DEF LockdownInv, SessionOK, NothingPending
  <1>5. NothingPending => Above(asked, sending, wire, 0)
    <2> SUFFICES ASSUME NothingPending PROVE Above(asked, sending, wire, 0)
      OBVIOUS
    <2>1. Len(asked) = 0
      BY DEF NothingPending
    <2>2. Len(sending) = 0
      BY DEF NothingPending
    <2>3. Len(wire) = 0
      BY DEF NothingPending
    <2> QED BY <2>1, <2>2, <2>3 DEF Above
  <1>6. out = <<>> => Len(out) = 0
    OBVIOUS
  <1>7. pc \in {"start", "tls"} => Len(out) <= at /\ Above(asked, sending, wire, Len(out))
    <2> SUFFICES ASSUME pc \in {"start", "tls"}
                 PROVE  Len(out) <= at /\ Above(asked, sending, wire, Len(out))
      OBVIOUS
    <2>1. at = 0 /\ out = <<>> /\ NothingPending
      BY DEF LockdownInv, SessionOK
    <2>2. Len(out) = 0 /\ Above(asked, sending, wire, 0)
      BY <1>5, <1>6, <2>1
    <2> QED BY <2>1, <2>2
  <1>8. CountOK'
    <2>1. CountOK
      BY DEF LockdownInv
    <2>2. pc' \in Asking => Len(out) <= at /\ Above(asked, sending, wire, Len(out))
      BY <1>7, <2>1 DEF CountOK, Asking
    <2> QED BY <1>1, <2>2 DEF CountOK
  <1>9. NoQueryInClear'
    <2>1. NoQueryInClear /\ (pc = "start" => ~ssl)
      BY DEF LockdownInv, SessionOK
    <2> QED BY <1>1, <2>1 DEF NoQueryInClear
  <1> QED BY <1>2, <1>3, <1>4, <1>8, <1>9 DEF LockdownInv

\* What the invariant says of the channel, as the lemmas above need it.
LEMMA ChannelFacts ==
    ASSUME LockdownInv
    PROVE  /\ asked \in Seq(Index) /\ sending \in Seq(PieceType) /\ wire \in Seq(PieceType)
           /\ at \in Nat /\ at \in 0..Len(Keys) /\ PendingOK(asked, sending, wire, at)
           /\ out \in Seq(Pair) /\ Len(out) \in Nat /\ Len(Keys) \in Nat
  <1>1. Len(Keys) \in Nat
    BY LockdownConstants
  <1>2. at \in 0..Len(Keys) /\ out \in Seq(Pair)
    BY DEF LockdownInv, LockdownTypeOK
  <1>3. at \in Nat /\ Len(out) \in Nat
    BY <1>1, <1>2
  <1> QED BY <1>1, <1>2, <1>3 DEF LockdownInv, LockdownTypeOK

\* StartSession or the next key is asked for.
LEMMA AskStep ==
    ASSUME LockdownInv, UNCHANGED <<out, tls, sending, wire, ssl>>, Request(at'),
           \/ pc = "start" /\ pc' = "session" /\ at' = at
           \/ pc = "query" /\ pc' = "await" /\ at < Len(Keys) /\ at' = at + 1
    PROVE  LockdownInv'
  <1>1. out' = out /\ tls' = tls /\ sending' = sending /\ wire' = wire /\ ssl' = ssl
    OBVIOUS
  <1>2. /\ asked \in Seq(Index) /\ sending \in Seq(PieceType) /\ wire \in Seq(PieceType)
        /\ at \in Nat /\ PendingOK(asked, sending, wire, at) /\ Len(out) \in Nat
        /\ at \in 0..Len(Keys) /\ Len(Keys) \in Nat
    BY ChannelFacts
  <1>3. at' \in 0..Len(Keys) /\ at' \in Nat /\ at' >= at
    BY <1>2
  <1>4. pc = "start" => /\ Len(asked) = 0 /\ Len(sending) = 0 /\ Len(wire) = 0
                        /\ at = 0 /\ out = <<>> /\ ~ssl
    <2> SUFFICES ASSUME pc = "start"
                 PROVE  /\ Len(asked) = 0 /\ Len(sending) = 0 /\ Len(wire) = 0
                        /\ at = 0 /\ out = <<>> /\ ~ssl
      OBVIOUS
    <2>1. asked = <<>> /\ sending = <<>> /\ wire = <<>> /\ at = 0 /\ out = <<>> /\ ~ssl
      BY DEF LockdownInv, SessionOK, NothingPending
    <2>2. Len(asked) = 0
      BY <2>1
    <2>3. Len(sending) = 0
      BY <2>1
    <2>4. Len(wire) = 0
      BY <2>1
    <2> QED BY <2>1, <2>2, <2>3, <2>4
  <1>5. at' = at => Len(asked) = 0 /\ Len(sending) = 0 /\ Len(wire) = 0
    BY <1>2, <1>4
  <1>6. asked' = asked \/ asked' = Append(asked, at')
    BY DEF Request
  <1> DEFINE i == at'
             r == asked'
  <1>7. /\ r \in Seq(Index) /\ PendingOK(r, sending, wire, i)
        /\ \A n \in Nat : n < i /\ Above(asked, sending, wire, n) => Above(r, sending, wire, n)
    <2>1. /\ Append(asked, i) \in Seq(Index)
          /\ PendingOK(Append(asked, i), sending, wire, i) /\ PendingOK(asked, sending, wire, i)
          /\ \A n \in Nat : n < i /\ Above(asked, sending, wire, n) =>
                Above(Append(asked, i), sending, wire, n)
      <3>1. i \in Nat /\ i >= at /\ (i = at => Len(asked) = 0 /\ Len(sending) = 0 /\ Len(wire) = 0)
        BY <1>3, <1>5
      <3> HIDE DEF i
      <3> QED BY <1>2, <3>1, AskNext
    <2> QED BY <1>2, <1>6, <2>1
  <1>8. LockdownTypeOK'
    BY <1>1, <1>3, <1>7 DEF LockdownInv, LockdownTypeOK
  <1>9. PendingOK(asked, sending, wire, at)'
    BY <1>1, <1>7
  <1>10. SessionOK'
    BY <1>1, <1>4 DEF SessionOK
  <1>11. CountOK'
    <2> SUFFICES ASSUME pc' \in Asking
                 PROVE  Len(out) <= at' /\ Above(asked', sending, wire, Len(out))
      BY <1>1 DEF CountOK
    <2>1. pc = "query" /\ at' = at + 1
      BY DEF Asking
    <2>2. Len(out) <= at /\ Above(asked, sending, wire, Len(out))
      BY <2>1 DEF LockdownInv, CountOK, Asking
    <2>3. Len(out) < at' /\ Len(out) <= at'
      BY <1>2, <2>1, <2>2
    <2> QED BY <1>2, <1>7, <2>2, <2>3
  <1>12. ValueOK'
    BY <1>1 DEF LockdownInv, ValueOK
  <1>13. NoQueryInClear'
    BY <1>1 DEF LockdownInv, NoQueryInClear
  <1> QED BY <1>8, <1>9, <1>10, <1>11, <1>12, <1>13 DEF LockdownInv

\* A piece is taken from the channel and no answer is complete.
LEMMA SkipStep ==
    ASSUME LockdownInv, UNCHANGED <<at, out, tls, asked, sending, ssl>>,
           wire # <<>>, wire' = Tail(wire), pc \in Reading,
           \/ pc' = pc
           \/ pc = "await" /\ pc' = "query"
           \/ pc = "session" /\ pc' = "failed"
    PROVE  LockdownInv'
  <1>1. at' = at /\ out' = out /\ tls' = tls /\ asked' = asked /\ sending' = sending /\ ssl' = ssl
    OBVIOUS
  <1>2. /\ asked \in Seq(Index) /\ sending \in Seq(PieceType) /\ wire \in Seq(PieceType)
        /\ at \in Nat /\ PendingOK(asked, sending, wire, at) /\ Len(out) \in Nat
    BY ChannelFacts
  <1>3. /\ wire' \in Seq(PieceType) /\ PendingOK(asked, sending, wire', at)
        /\ \A a \in 1..Len(wire') : wire'[a] = wire[a + 1] /\ a + 1 \in 1..Len(wire)
    BY <1>2, ReadFirst
  <1>4. LockdownTypeOK'
    BY <1>1, <1>3 DEF LockdownInv, LockdownTypeOK
  <1>5. PendingOK(asked, sending, wire, at)'
    BY <1>1, <1>3
  <1>6. SessionOK'
    <2>1. pc' \notin {"open", "start", "tls"} /\ (pc' = "session" => pc = "session")
      BY DEF Reading
    <2>2. AllSsl(wire) => AllSsl(wire')
      BY <1>3 DEF AllSsl
    <2> QED BY <1>1, <2>1, <2>2 DEF LockdownInv, SessionOK, AllSsl
  <1>7. CountOK'
    <2>1. pc' \in Asking => pc \in Asking
      BY DEF Asking, Reading
    <2>2. Above(asked, sending, wire, Len(out)) => Above(asked, sending, wire', Len(out))
      BY <1>3 DEF Above
    <2> QED BY <1>1, <2>1, <2>2 DEF LockdownInv, CountOK
  <1>8. ValueOK'
    BY <1>1 DEF LockdownInv, ValueOK
  <1>9. NoQueryInClear'
    BY <1>1 DEF LockdownInv, NoQueryInClear, Reading
  <1> QED BY <1>4, <1>5, <1>6, <1>7, <1>8, <1>9 DEF LockdownInv

\* The answer to StartSession: it was all there was to come.
LEMMA SessionAnswered ==
    ASSUME LockdownInv, UNCHANGED <<at, out, tls, asked, sending, ssl>>,
           wire # <<>>, wire' = Tail(wire), Head(wire).part = "body", pc = "session",
           pc' \in {"failed", "tls", "query"}, pc' = "query" => Head(wire).kind # "ssl"
    PROVE  LockdownInv'
  <1>1. at' = at /\ out' = out /\ tls' = tls /\ asked' = asked /\ sending' = sending /\ ssl' = ssl
    OBVIOUS
  <1>2. /\ asked \in Seq(Index) /\ sending \in Seq(PieceType) /\ wire \in Seq(PieceType)
        /\ at \in Nat /\ PendingOK(asked, sending, wire, at)
    BY ChannelFacts
  <1>3. /\ wire' \in Seq(PieceType) /\ PendingOK(asked, sending, wire', at)
        /\ Head(wire) \in PieceType /\ Head(wire) = wire[1]
        /\ Above(asked, sending, wire', Head(wire).of)
    BY <1>2, ReadFirst
  <1>4. at = 0 /\ out = <<>> /\ (ssl => AllSsl(wire))
    BY DEF LockdownInv, SessionOK
  <1>5. Head(wire).of \in Nat
    <2> DEFINE h == Head(wire)
    <2> HIDE DEF h
    <2>1. h \in PieceType
      BY <1>3 DEF h
    <2>2. h.of \in Nat
      BY <2>1 DEF PieceType
    <2> QED BY <2>2 DEF h
  <1>6. /\ Len(asked) = 0 /\ Len(sending) = 0 /\ Len(wire') = 0
    <2>1. Len(asked) \in Nat /\ \A a \in 1..Len(asked) : asked[a] \in Nat
      BY <1>2 DEF Index
    <2>2. Len(sending) \in Nat /\ \A a \in 1..Len(sending) : sending[a].of \in Nat
      BY <1>2, OfIsNat
    <2>3. Len(wire') \in Nat /\ \A a \in 1..Len(wire') : wire'[a].of \in Nat
      BY <1>3, OfIsNat
    <2>4. Len(asked) = 0
      <3>1. \A a \in 1..Len(asked) : asked[a] > Head(wire).of /\ asked[a] <= at
        BY <1>2, <1>3 DEF Above, PendingOK
      <3>2. \A a \in 1..Len(asked) : FALSE
        BY <1>4, <1>5, <2>1, <3>1
      <3> QED BY <2>1, <3>2
    <2>5. Len(sending) = 0
      <3>1. \A a \in 1..Len(sending) : sending[a].of > Head(wire).of /\ sending[a].of <= at
        BY <1>2, <1>3 DEF Above, PendingOK
      <3>2. \A a \in 1..Len(sending) : FALSE
        BY <1>4, <1>5, <2>2, <3>1
      <3> QED BY <2>2, <3>2
    <2>6. Len(wire') = 0
      <3>1. \A a \in 1..Len(wire') : wire'[a].of > Head(wire).of /\ wire'[a].of <= at
        BY <1>3 DEF Above, PendingOK
      <3>2. \A a \in 1..Len(wire') : FALSE
        BY <1>4, <1>5, <2>3, <3>1
      <3>3. \A n \in Nat : (\A a \in 1..n : FALSE) => n = 0
        OBVIOUS
      <3> QED BY <2>3, <3>2, <3>3
    <2> QED BY <2>4, <2>5, <2>6
  <1>7. NothingPending'
    <2>1. asked = <<>>
      BY <1>2, <1>6, EmptySeq
    <2>2. sending = <<>>
      BY <1>2, <1>6, EmptySeq
    <2>3. wire' = <<>>
      BY <1>3, <1>6, EmptySeq
    <2> QED BY <1>1, <2>1, <2>2, <2>3 DEF NothingPending
  <1>8. LockdownTypeOK'
    BY <1>1, <1>3 DEF LockdownInv, LockdownTypeOK
  <1>9. PendingOK(asked, sending, wire, at)'
    BY <1>1, <1>3
  <1>10. SessionOK'
    BY <1>1, <1>4, <1>7 DEF SessionOK
  <1>11. CountOK'
    <2>1. Len(out) = 0
      BY <1>4
    <2>2. Above(asked, sending, wire', Len(out))
      BY <1>6 DEF Above
    <2>3. Len(out) <= at
      BY <1>4, <2>1
    <2> QED BY <1>1, <2>2, <2>3 DEF CountOK
  <1>12. ValueOK'
    BY <1>1 DEF LockdownInv, ValueOK
  <1>13. NoQueryInClear'
    <2> SUFFICES ASSUME pc' = "query" PROVE ~ssl
      BY <1>1 DEF NoQueryInClear
    <2>1. wire[1].kind # "ssl"
      BY <1>3
    <2>2. 1 \in 1..Len(wire)
      BY <1>2
    <2> QED BY <1>4, <2>1, <2>2 DEF AllSsl
  <1> QED BY <1>8, <1>9, <1>10, <1>11, <1>12, <1>13 DEF LockdownInv

\* The answer to a key, its own or a late one.
LEMMA KeyAnswered ==
    ASSUME LockdownInv, UNCHANGED <<at, tls, asked, sending, ssl>>,
           wire # <<>>, wire' = Tail(wire), Head(wire).part = "body", pc = "await",
           pc' = "query",
           \/ out' = out
           \/ out' = Append(out, [key |-> Keys[at], value |-> Keys[Head(wire).of]])
    PROVE  LockdownInv'
  <1>1. at' = at /\ tls' = tls /\ asked' = asked /\ sending' = sending /\ ssl' = ssl
    OBVIOUS
  <1>2. /\ asked \in Seq(Index) /\ sending \in Seq(PieceType) /\ wire \in Seq(PieceType)
        /\ at \in Nat /\ PendingOK(asked, sending, wire, at)
        /\ at \in 0..Len(Keys) /\ out \in Seq(Pair) /\ Len(out) \in Nat /\ Len(Keys) \in Nat
    BY ChannelFacts
  <1>3. /\ wire' \in Seq(PieceType) /\ PendingOK(asked, sending, wire', at)
        /\ Head(wire) \in PieceType /\ Head(wire) = wire[1] /\ Head(wire).of <= at
        /\ Above(asked, sending, wire', Head(wire).of)
        /\ \A a \in 1..Len(wire') : wire'[a] = wire[a + 1] /\ a + 1 \in 1..Len(wire)
    BY <1>2, ReadFirst
  <1>4. Len(out) <= at /\ Above(asked, sending, wire, Len(out))
    BY DEF LockdownInv, CountOK, Asking
  <1> DEFINE j == Head(wire).of
             e == [key |-> Keys[at], value |-> Keys[j]]
  <1>5. j \in Nat /\ j > Len(out) /\ j <= at
    <2>1. 1 \in 1..Len(wire)
      BY <1>2
    <2>2. wire[1].of > Len(out) /\ wire[1].of \in Nat
      BY <1>2, <1>4, <2>1, OfIsNat DEF Above
    <2> QED BY <1>3, <2>2
  <1> HIDE DEF j
  <1>6. j \in 1..Len(Keys) /\ at \in 1..Len(Keys)
    BY <1>2, <1>5
  <1>7. e \in Pair
    <2>1. DOMAIN Keys = 1..Len(Keys)
      BY LockdownConstants
    <2>2. Keys[j] \in Key /\ Keys[at] \in Key
      BY <1>6, <2>1 DEF Key
    <2> QED BY <2>2 DEF Pair
  <1>8. /\ out' \in Seq(Pair)
        /\ \/ Len(out') = Len(out)
           \/ Len(out') = Len(out) + 1 /\ out'[Len(out) + 1] = e
        /\ \A n \in 1..Len(out) : out'[n] = out[n]
    <2>1. CASE out' = out
      BY <1>2, <2>1
    <2>2. CASE out' = Append(out, e)
      <3> HIDE DEF e
      <3> QED BY <1>2, <1>7, <2>2
    <2> QED BY <2>1, <2>2 DEF j
  <1>9. Len(out') \in Nat /\ Len(out') <= j
    BY <1>2, <1>5, <1>8
  <1>10. LockdownTypeOK'
    BY <1>1, <1>3, <1>8 DEF LockdownInv, LockdownTypeOK
  <1>11. PendingOK(asked, sending, wire, at)'
    BY <1>1, <1>3
  <1>12. SessionOK'
    BY DEF SessionOK
  <1>13. CountOK'
    <2>1. /\ \A a \in 1..Len(asked) : asked[a] > j /\ asked[a] \in Nat
          /\ \A a \in 1..Len(sending) : sending[a].of > j /\ sending[a].of \in Nat
          /\ \A a \in 1..Len(wire') : wire'[a].of > j /\ wire'[a].of \in Nat
      <3>1. \A a \in 1..Len(asked) : asked[a] > j /\ asked[a] \in Nat
        BY <1>2, <1>3 DEF Above, j, Index
      <3>2. \A a \in 1..Len(sending) : sending[a].of > j /\ sending[a].of \in Nat
        BY <1>2, <1>3, OfIsNat DEF Above, j
      <3>3. \A a \in 1..Len(wire') : wire'[a].of > j /\ wire'[a].of \in Nat
        BY <1>3, OfIsNat DEF Above, j
      <3> QED BY <3>1, <3>2, <3>3
    <2>2. \A x \in Nat : x > j => x > Len(out')
      BY <1>5, <1>9
    <2>3. Above(asked, sending, wire', Len(out'))
      BY <2>1, <2>2 DEF Above
    <2>4. Len(out') <= at
      BY <1>2, <1>5, <1>9
    <2> QED BY <1>1, <2>3, <2>4 DEF CountOK
  <1>14. ValueOK'
    <2> SUFFICES ASSUME NEW n \in 1..Len(out')
                 PROVE  \E i, k \in 1..Len(Keys) :
                            /\ out'[n].key = Keys[i] /\ out'[n].value = Keys[k]
                            /\ n <= k /\ k <= i
      BY DEF ValueOK
    <2>1. CASE n \in 1..Len(out)
      <3>1. out'[n] = out[n]
        BY <1>8, <2>1
      <3> QED BY <2>1, <3>1 DEF LockdownInv, ValueOK
    <2>2. CASE n \notin 1..Len(out)
      <3>1. n = Len(out) + 1 /\ out'[n] = e
        BY <1>2, <1>8, <2>2
      <3>2. out'[n].key = Keys[at] /\ out'[n].value = Keys[j]
        BY <3>1
      <3>3. n <= j /\ j <= at
        BY <1>2, <1>5, <3>1
      <3> QED BY <1>6, <3>2, <3>3
    <2> QED BY <2>1, <2>2
  <1>15. NoQueryInClear'
    BY <1>1 DEF LockdownInv, NoQueryInClear
  <1> QED BY <1>10, <1>11, <1>12, <1>13, <1>14, <1>15 DEF LockdownInv

\* The phone answers, its pieces arrive, it closes the channel.
LEMMA PhoneStep ==
    ASSUME LockdownInv, PhoneAnswers \/ PieceArrives \/ PhoneCloses
    PROVE  LockdownInv'
  <1>1. at' = at /\ out' = out /\ tls' = tls /\ pc' = pc
    BY DEF PhoneAnswers, PieceArrives, PhoneCloses
  <1>2. /\ asked \in Seq(Index) /\ sending \in Seq(PieceType) /\ wire \in Seq(PieceType)
        /\ at \in Nat /\ PendingOK(asked, sending, wire, at) /\ Len(out) \in Nat
    BY ChannelFacts
  <1>3. ASSUME asked' \in Seq(Index), sending' \in Seq(PieceType), wire' \in Seq(PieceType),
               PendingOK(asked', sending', wire', at), ssl' \in BOOLEAN,
               \A n \in Nat : Above(asked, sending, wire, n) => Above(asked', sending', wire', n),
               pc \in {"open", "start", "tls"} =>
                    asked' = <<>> /\ sending' = <<>> /\ wire' = <<>> /\ ssl' = ssl,
               pc = "session" /\ ssl' => asked' = <<>> /\ AllSsl(sending') /\ AllSsl(wire'),
               pc \in Asking => ssl' = ssl
        PROVE  LockdownInv'
    <2>1. LockdownTypeOK'
      BY <1>1, <1>3 DEF LockdownInv, LockdownTypeOK
    <2>2. PendingOK(asked, sending, wire, at)'
      BY <1>1, <1>3
    <2>3. SessionOK'
      BY <1>1, <1>3 DEF LockdownInv, SessionOK, NothingPending, AllSsl
    <2>4. CountOK'
      BY <1>1, <1>2, <1>3 DEF LockdownInv, CountOK
    <2>5. ValueOK'
      BY <1>1 DEF LockdownInv, ValueOK
    <2>6. NoQueryInClear'
      BY <1>1, <1>3 DEF LockdownInv, NoQueryInClear, Asking
    <2> QED BY <2>1, <2>2, <2>3, <2>4, <2>5, <2>6 DEF LockdownInv
  <1>4. pc \in {"open", "start", "tls"} => asked = <<>> /\ sending = <<>> /\ wire = <<>>
    BY DEF LockdownInv, SessionOK, NothingPending
  <1>5. pc = "session" => at = 0 /\ (ssl => asked = <<>> /\ AllSsl(sending) /\ AllSsl(wire))
    BY DEF LockdownInv, SessionOK
  <1>6. ssl \in BOOLEAN /\ (pc \in Asking => Above(asked, sending, wire, Len(out)))
    BY DEF LockdownInv, LockdownTypeOK, CountOK
  <1>7. CASE PhoneAnswers
    <2>1. PICK kind \in (IF Head(asked) = 0 THEN {"error", "ssl", "plain"} ELSE {"error", "value"}) :
             sending' = Frame(Head(asked), kind) /\ ssl' = (ssl \/ kind = "ssl")
      BY <1>7 DEF PhoneAnswers
    <2>2. kind \in {"error", "ssl", "plain", "value"} /\ (kind = "ssl" => Head(asked) = 0)
      BY <2>1
    <2>3. asked # <<>> /\ asked' = Tail(asked) /\ wire' = wire
      BY <1>7 DEF PhoneAnswers
    <2>4. /\ Head(asked) \in Nat /\ Head(asked) = asked[1] /\ 1 \in 1..Len(asked)
          /\ asked' \in Seq(Index) /\ sending' \in Seq(PieceType) /\ Len(asked') = Len(asked) - 1
          /\ \A a \in 1..Len(sending') : sending'[a].kind = kind
          /\ PendingOK(asked', sending', wire', at)
          /\ \A n \in Nat : Above(asked, sending, wire, n) => Above(asked', sending', wire', n)
      BY <1>2, <2>1, <2>2, <2>3, AnswerNext
    <2>5. pc \notin {"open", "start", "tls"}
      BY <1>4, <2>3
    <2>6. ssl' \in BOOLEAN
      BY <2>1
    <2>7. pc = "session" /\ ssl' => asked' = <<>> /\ AllSsl(sending') /\ AllSsl(wire')
      <3> SUFFICES ASSUME pc = "session", ssl'
                   PROVE  asked' = <<>> /\ AllSsl(sending') /\ AllSsl(wire')
        OBVIOUS
      <3>1. kind = "ssl" /\ at = 0
        BY <1>5, <1>6, <2>1, <2>3
      <3>2. AllSsl(sending')
        BY <2>4, <3>1 DEF AllSsl
      <3>3. \A a \in 1..Len(asked) : asked[a] \in Nat /\ asked[a] = 0
        <4>1. \A a \in 1..Len(asked) : asked[a] \in Nat /\ asked[a] <= at
          BY <1>2 DEF PendingOK, Index
        <4> QED BY <3>1, <4>1
      <3>4. asked' = <<>>
        <4>0. Len(asked) \in Nat
          BY <1>2
        <4>1. ~(2 \in 1..Len(asked))
          <5> SUFFICES ASSUME 2 \in 1..Len(asked) PROVE FALSE
            OBVIOUS
          <5>1. asked[1] < asked[2]
            BY <1>2, <2>4 DEF PendingOK
          <5> QED BY <2>4, <3>3, <5>1
        <4>2. Len(asked) = 1
          BY <2>4, <4>0, <4>1
        <4>3. Len(asked') = 0
          BY <2>4, <4>2
        <4> QED BY <2>4, <4>3, EmptySeq
      <3>5. AllSsl(wire')
        <4>1. \A a \in 1..Len(wire) : wire[a].of \in Nat /\ wire[a].of < asked[1]
          BY <1>2, <2>4, OfIsNat DEF PendingOK
        <4>2. asked[1] = 0
          BY <2>4, <3>3
        <4>3. \A a \in 1..Len(wire) : FALSE
          BY <4>1, <4>2
        <4> QED BY <2>3, <4>3 DEF AllSsl
      <3> QED BY <3>2, <3>4, <3>5
    <2>8. pc \in Asking => ssl' = ssl
      <3> SUFFICES ASSUME pc \in Asking PROVE kind # "ssl"
        BY <1>6, <2>1
      <3>1. asked[1] > Len(out)
        BY <1>6, <2>4 DEF Above
      <3>2. Head(asked) # 0
        BY <1>2, <2>4, <3>1
      <3> QED BY <2>2, <3>2
    <2>9. wire' \in Seq(PieceType)
      BY <1>2, <2>3
    <2> QED BY <1>3, <2>4, <2>5, <2>6, <2>7, <2>8, <2>9
  <1>8. CASE PieceArrives
    <2>1. /\ sending # <<>> /\ asked' = asked /\ wire' = Append(wire, Head(sending))
          /\ sending' = Tail(sending) /\ ssl' = ssl
      BY <1>8 DEF PieceArrives
    <2>2. /\ sending' \in Seq(PieceType) /\ wire' \in Seq(PieceType)
          /\ PendingOK(asked', sending', wire', at)
          /\ \A n \in Nat : Above(asked, sending, wire, n) => Above(asked', sending', wire', n)
          /\ AllSsl(sending) /\ AllSsl(wire) => AllSsl(sending') /\ AllSsl(wire')
      BY <1>2, <2>1, ArriveNext
    <2>3. pc \notin {"open", "start", "tls"}
      BY <1>4, <2>1
    <2>4. pc = "session" /\ ssl' => asked' = <<>> /\ AllSsl(sending') /\ AllSsl(wire')
      BY <1>5, <2>1, <2>2
    <2> QED BY <1>2, <1>3, <1>6, <2>1, <2>2, <2>3, <2>4
  <1>9. CASE PhoneCloses
    <2>1. asked' = <<>> /\ sending' = <<>> /\ wire' = wire /\ ssl' = ssl
      BY <1>9 DEF PhoneCloses
    <2>2. asked' \in Seq(Index) /\ Len(asked') = 0
      BY <2>1
    <2>3. sending' \in Seq(PieceType) /\ Len(sending') = 0
      BY <2>1
    <2>4. /\ PendingOK(asked', sending', wire', at) /\ AllSsl(sending')
          /\ \A n \in Nat : Above(asked, sending, wire, n) => Above(asked', sending', wire', n)
      BY <1>2, <2>1, <2>2, <2>3, CloseChannel
    <2>5. pc \in {"open", "start", "tls"} =>
                asked' = <<>> /\ sending' = <<>> /\ wire' = <<>> /\ ssl' = ssl
      BY <1>4, <2>1
    <2>6. pc = "session" /\ ssl' => asked' = <<>> /\ AllSsl(sending') /\ AllSsl(wire')
      BY <1>5, <2>1, <2>4
    <2>7. wire' \in Seq(PieceType) /\ ssl' \in BOOLEAN /\ (pc \in Asking => ssl' = ssl)
      BY <1>2, <1>6, <2>1
    <2> QED BY <1>3, <2>2, <2>3, <2>4, <2>5, <2>6, <2>7
  <1> QED BY <1>7, <1>8, <1>9

\* Every step of the client and of the phone keeps the invariant.
LEMMA LockdownInvNext == LockdownInv /\ [Next]_vars => LockdownInv'
  <1> SUFFICES ASSUME LockdownInv, [Next]_vars PROVE LockdownInv'
    OBVIOUS
  <1>0. tls \in BOOLEAN
    BY DEF LockdownInv, LockdownTypeOK
  <1>1. CASE Open
    <2>1. /\ UNCHANGED <<at, out, asked, sending, wire, ssl>> /\ tls' = tls
          /\ pc = "open" /\ pc' \in {"failed", "start"}
      BY <1>1 DEF Open, Fail, chan
    <2> QED BY <1>0, <2>1, QuietStep
  <1>2. CASE TlsUpgrade
    <2>1. /\ UNCHANGED <<at, out, asked, sending, wire, ssl>>
          /\ pc = "tls"
          /\ \/ pc' = "failed" /\ tls' = tls
             \/ pc' = "query" /\ tls' = TRUE
      BY <1>2 DEF TlsUpgrade, Fail, chan
    <2> QED BY <1>0, <2>1, QuietStep
  <1>3. CASE Start
    <2>1. /\ UNCHANGED <<at, out, tls, sending, wire, ssl>> /\ pc = "start"
          /\ \/ pc' = "session" /\ Request(0)
             \/ pc' \in {"failed", "query"} /\ asked' = asked
      BY <1>3 DEF Start, Fail
    <2>2. at = 0
      BY <2>1 DEF LockdownInv, SessionOK
    <2>3. CASE pc' = "session" /\ Request(0)
      BY <2>1, <2>2, <2>3, AskStep
    <2>4. CASE pc' \in {"failed", "query"} /\ asked' = asked
      BY <1>0, <2>1, <2>4, QuietStep
    <2> QED BY <2>1, <2>3, <2>4
  <1>4. CASE Query
    <2>1. /\ UNCHANGED <<out, tls, sending, wire, ssl>> /\ pc = "query"
          /\ \/ at < Len(Keys) /\ at' = at + 1 /\ Request(at + 1) /\ pc' = "await"
             \/ pc' \in {"failed", "done"} /\ asked' = asked /\ at' = at
      BY <1>4 DEF Query
    <2>2. CASE at < Len(Keys) /\ at' = at + 1 /\ Request(at + 1) /\ pc' = "await"
      BY <2>1, <2>2, AskStep
    <2>3. CASE pc' \in {"failed", "done"} /\ asked' = asked /\ at' = at
      BY <1>0, <2>1, <2>3, QuietStep
    <2> QED BY <2>1, <2>2, <2>3
  <1>5. CASE Timeout \/ ReadGarbled
    <2>1. /\ UNCHANGED <<at, out, asked, sending, wire, ssl>> /\ tls' = tls
          /\ pc \in {"session", "await"} /\ pc' = IF pc = "session" THEN "failed" ELSE "query"
      BY <1>5 DEF Timeout, ReadGarbled, GiveUp, Reading, chan
    <2> QED BY <1>0, <2>1, QuietStep
  <1>6. CASE ReadPiece
    <2> DEFINE p == Head(wire)
    <2>1. /\ UNCHANGED <<at, tls, asked, sending, ssl>> /\ pc \in Reading
          /\ wire # <<>> /\ wire' = Tail(wire)
          /\ \/ pc' = pc /\ out' = out
             \/ p.part = "body" /\ Answered(p)
      BY <1>6 DEF ReadPiece
    <2>2. CASE pc' = pc /\ out' = out
      BY <2>1, <2>2, SkipStep
    <2>3. CASE p.part = "body" /\ Answered(p) /\ pc = "session"
      <3>1. /\ out' = out
            /\ pc' = CASE p.kind = "error" -> "failed" [] p.kind = "ssl" -> "tls"
                       [] OTHER -> "query"
        BY <2>3 DEF Answered
      <3> HIDE DEF p
      <3>2. pc' \in {"failed", "tls", "query"} /\ (pc' = "query" => p.kind # "ssl")
        BY <3>1
      <3> QED BY <2>1, <2>3, <3>1, <3>2, SessionAnswered DEF p
    <2>4. CASE p.part = "body" /\ Answered(p) /\ pc = "await"
      <3>1. /\ pc' = "query"
            /\ \/ out' = out
               \/ out' = Append(out, [key |-> Keys[at], value |-> Keys[p.of]])
        BY <2>4 DEF Answered
      <3> QED BY <2>1, <2>4, <3>1, KeyAnswered
    <2> QED BY <2>1, <2>2, <2>3, <2>4 DEF Reading
  <1>7. CASE Swallow \/ ReadMisaligned
    <2>1. /\ UNCHANGED <<at, out, tls, asked, sending, ssl>> /\ pc \in Reading
          /\ wire # <<>> /\ wire' = Tail(wire)
          /\ \/ pc' = pc
             \/ pc' = IF pc = "session" THEN "failed" ELSE "query"
      BY <1>7 DEF Swallow, ReadMisaligned, GiveUp
    <2> QED BY <2>1, SkipStep DEF Reading
  <1>8. CASE Enrich \/ IdeviceInfo
    <2>1. /\ UNCHANGED <<at, out, asked, sending, wire, ssl>> /\ tls' = tls
          /\ pc' \in {"failed", "end", "ideviceinfo"}
      BY <1>8 DEF Enrich, IdeviceInfo, chan
    <2> QED BY <1>0, <2>1, QuietStep
  <1>9. CASE PhoneAnswers \/ PieceArrives \/ PhoneCloses
    BY <1>9, PhoneStep
  <1>10. CASE UNCHANGED vars
    <2>1. /\ UNCHANGED <<at, out, asked, sending, wire, ssl>> /\ tls' = tls /\ pc' = pc
      BY <1>10 DEF vars, chan
    <2> QED BY <1>0, <2>1, QuietStep
  <1> QED
    BY <1>1, <1>2, <1>3, <1>4, <1>5, <1>6, <1>7, <1>8, <1>9, <1>10 DEF Next, ClientStep

\* So it holds throughout.
LEMMA LockdownInvariant == Spec => []LockdownInv
  BY LockdownInvInit, LockdownInvNext, PTL DEF Spec

\* Once the phone has asked for TLS, get_value() asks for no key in the clear,
\* however the handshake, the reads and the phone's answers fail.
THEOREM TlsIsKept == Spec => []NoQueryInClear
  <1>1. LockdownInv => NoQueryInClear
    BY DEF LockdownInv
  <1> QED BY <1>1, LockdownInvariant, PTL

\* A late answer does bounded damage: the value read for a key is that of the key
\* or of an earlier one, no further back than there are keys without a value.
THEOREM ValuesBounded == Spec => []ValuesInStep
  <1>1. LockdownInv => ValuesInStep
    <2> SUFFICES ASSUME LockdownInv, NEW n \in DOMAIN out
                 PROVE  IndexOfKey(out[n].key) - IndexOfKey(out[n].value)
                            \in 0..((IndexOfKey(out[n].key) - 1) - (n - 1))
      BY DEF ValuesInStep
    <2>1. DOMAIN Keys = 1..Len(Keys) /\ Len(Keys) \in Nat
      BY LockdownConstants
    <2>2. n \in 1..Len(out) /\ n \in Int
      BY ChannelFacts
    <2>3. PICK i \in 1..Len(Keys), j \in 1..Len(Keys) :
             /\ out[n].key = Keys[i] /\ out[n].value = Keys[j]
             /\ n <= j /\ j <= i
      BY <2>2 DEF LockdownInv, ValueOK
    <2>4. ASSUME NEW k \in 1..Len(Keys) PROVE IndexOfKey(Keys[k]) = k
      <3>1. \A l \in DOMAIN Keys : Keys[l] = Keys[k] => l = k
        BY <2>1, LockdownConstants
      <3>2. k \in DOMAIN Keys
        BY <2>1
      <3> QED BY <3>1, <3>2 DEF IndexOfKey
    <2>5. IndexOfKey(out[n].key) = i /\ IndexOfKey(out[n].value) = j
      BY <2>3, <2>4
    <2>6. i - j \in 0..((i - 1) - (n - 1))
      BY <2>1, <2>2, <2>3
    <2> QED BY <2>5, <2>6
  <1> QED BY <1>1, LockdownInvariant, PTL

\* enrich_via_lockdown() and ideviceinfo replace no field that is set.
THEOREM SetFieldsStay == Spec => OnlyGapsFilled
  <1>1. [Next]_vars => [\A k \in Key : fields[k] # None => fields'[k] = fields[k]]_vars
    <2> SUFFICES ASSUME Next, NEW k \in Key, fields[k] # None PROVE fields'[k] = fields[k]
      OBVIOUS
    <2>1. ASSUME NEW values PROVE Fill(values)[k] = fields[k]
      BY DEF Fill
    <2>2. CASE Enrich
      <3>1. fields' = fields \/ \E values : fields' = Fill(values)
        BY <2>2 DEF Enrich
      <3> QED BY <2>1, <3>1
    <2>3. CASE IdeviceInfo
      <3>1. \E values : fields' = Fill(values)
        BY <2>3 DEF IdeviceInfo
      <3> QED BY <2>1, <3>1
    <2>4. CASE ~(Enrich \/ IdeviceInfo)
      <3>1. fields' = fields
        BY <2>4 DEF Next, ClientStep, Open, TlsUpgrade, Start, Query, Timeout, ReadPiece,
                    ReadGarbled, ReadMisaligned, Swallow, PhoneAnswers, PieceArrives, PhoneCloses
      <3> QED BY <3>1
    <2> QED BY <2>2, <2>3, <2>4
  <1> QED BY <1>1, PTL DEF Spec, OnlyGapsFilled
=============================================================================
