----------------------------- MODULE FrameProofs -----------------------------
(***************************************************************************)
(* Machine-checked proofs about the frames on USB: Reassembler, which cuts *)
(* them out of the byte stream, for every header size, buffer limit and    *)
(* byte alphabet; MuxFrameSeq, which numbers those the daemon sends, for   *)
(* any number of connect handlers and every width of the counter; and      *)
(* MuxWire, which lays them out and parses them.                           *)
(***************************************************************************)
EXTENDS Reassembler, MuxFrameSeq, FiniteSetTheorems, SequenceTheorems,
        WellFoundedInduction, TLAPS

\* The part of the type invariant the bounds need.
Typed ==
    /\ buffers \in Seq(Byte)
    /\ feeding \in BOOLEAN
    /\ packets \in Seq(Seq(Byte))

\* The inductive invariant.
ReassemblerInv == Typed /\ BufferBelowCap /\ PacketsMatchTheirHeader

\* Cutting a frame of a possible length off the buffer leaves the first
\* HeaderSize bytes, and so its length field, in the frame.
LEMMA FrontKeepsHeader ==
    ASSUME NEW b \in Seq(Byte), NEW n \in Nat, n >= HeaderSize, n <= Len(b)
    PROVE  /\ SubSeq(b, 1, n) \in Seq(Byte)
           /\ Len(SubSeq(b, 1, n)) = n
           /\ SubSeq(b, 1, n)[HeaderSize] = b[HeaderSize]
           /\ SubSeq(b, n + 1, Len(b)) \in Seq(Byte)
  BY ReassemblerConstants

\* Return finds less than a header or than a length that fits: it clears nothing.
LEMMA ReturnKeepsBuffer ==
    ReassemblerInv /\ Return => Len(buffers) < MaxBuffer /\ buffers' = buffers
  <1> SUFFICES ASSUME ReassemblerInv, Return PROVE Len(buffers) < MaxBuffer /\ buffers' = buffers
    OBVIOUS
  <1> USE ReassemblerConstants
  <1>1. buffers \in Seq(Byte) /\ (Len(buffers) >= HeaderSize
                                      => DeclaredLength(buffers) \in Nat)
    <2>1. buffers \in Seq(Byte)
      BY DEF ReassemblerInv, Typed
    <2>2. ASSUME Len(buffers) >= HeaderSize PROVE buffers[HeaderSize] \in Byte
      <3>1. HeaderSize \in 1..Len(buffers)
        BY <2>1, <2>2
      <3> QED
        BY <2>1, <3>1
    <2> QED
      BY <2>1, <2>2 DEF DeclaredLength
  <1>2. Len(buffers) < MaxBuffer
    BY <1>1 DEF Return, ImpossibleLength
  <1>3. buffers' = buffers
    BY <1>1, <1>2 DEF Return
  <1> QED BY <1>2, <1>3

\* Every step preserves the inductive invariant: only Return ends a call, and
\* it does so with a buffer shorter than a header or than a length that fits.
LEMMA NextPreservesInv == ReassemblerInv /\ [Next]_vars => ReassemblerInv'
  <1> SUFFICES ASSUME ReassemblerInv, [Next]_vars PROVE ReassemblerInv'
    OBVIOUS
  <1> USE ReassemblerConstants
  <1>1. ASSUME NEW data \in BoundedSeq(Byte, MaxChunk), Feed(data)
        PROVE  ReassemblerInv'
    <2>1. data \in Seq(Byte)
      BY DEF BoundedSeq, SeqOf
    <2> QED
      BY <1>1, <2>1 DEF Feed, ReassemblerInv, Typed, BufferBelowCap,
                        PacketsMatchTheirHeader
  <1>2. CASE DropByte
    <2>1. buffers # <<>>
      BY <1>2 DEF DropByte, ReassemblerInv, Typed
    <2>2. Tail(buffers) \in Seq(Byte)
      BY <2>1 DEF ReassemblerInv, Typed
    <2> QED
      BY <1>2, <2>2 DEF DropByte, ReassemblerInv, Typed, BufferBelowCap,
                        PacketsMatchTheirHeader
  <1>3. CASE EmitPacket
    <2> DEFINE n == DeclaredLength(buffers)
               p == SubSeq(buffers, 1, n)
    <2>1. buffers \in Seq(Byte) /\ packets \in Seq(Seq(Byte)) /\ feeding
      BY <1>3 DEF EmitPacket, ReassemblerInv, Typed
    <2>2. n \in Nat /\ n >= HeaderSize /\ n <= MaxBuffer /\ n <= Len(buffers)
      <3>0. HeaderSize \in 1..Len(buffers)
        BY <1>3, <2>1 DEF EmitPacket
      <3>1. n \in Byte
        BY <2>1, <3>0 DEF DeclaredLength
      <3> QED
        <4>1. ~ImpossibleLength(n) /\ Len(buffers) >= n
          BY <1>3 DEF EmitPacket
        <4> HIDE DEF n
        <4> QED
          BY <2>1, <3>1, <4>1 DEF ImpossibleLength
    <2>3. /\ p \in Seq(Byte) /\ Len(p) = n /\ DeclaredLength(p) = n
          /\ SubSeq(buffers, n + 1, Len(buffers)) \in Seq(Byte)
      BY <2>1, <2>2, FrontKeepsHeader DEF DeclaredLength
    <2>4. packets' = Append(packets, p) /\ feeding'
          /\ buffers' = SubSeq(buffers, n + 1, Len(buffers))
      BY <1>3 DEF EmitPacket
    <2> HIDE DEF n, p
    <2>5. Typed' /\ BufferBelowCap'
      BY <2>1, <2>3, <2>4 DEF Typed, BufferBelowCap
    <2>6. PacketsMatchTheirHeader'
      <3> SUFFICES ASSUME NEW i \in DOMAIN packets'
                   PROVE  /\ Len(packets'[i]) >= HeaderSize
                          /\ Len(packets'[i]) <= MaxBuffer
                          /\ DeclaredLength(packets'[i]) = Len(packets'[i])
        BY DEF PacketsMatchTheirHeader, DeclaredLength
      <3>1. CASE i = Len(packets) + 1
        BY <2>1, <2>2, <2>3, <2>4, <3>1
      <3>2. CASE i \in DOMAIN packets
        BY <2>1, <2>4, <3>2 DEF ReassemblerInv, PacketsMatchTheirHeader
      <3> QED
        BY <2>1, <2>3, <2>4, <3>1, <3>2
    <2> QED
      BY <2>5, <2>6 DEF ReassemblerInv
  <1>4. CASE Return
    <2>1. buffers \in Seq(Byte)
      BY DEF ReassemblerInv, Typed
    <2>2. Len(buffers) < MaxBuffer /\ buffers' = buffers
      BY <1>4, ReturnKeepsBuffer
    <2> QED
      <3>1. buffers' = buffers /\ feeding' = FALSE /\ packets' = packets
        BY <1>4, <2>2 DEF Return
      <3>2. Typed' /\ BufferBelowCap'
        BY <2>1, <2>2, <3>1 DEF ReassemblerInv, Typed, BufferBelowCap
      <3>3. PacketsMatchTheirHeader'
        BY <3>1 DEF ReassemblerInv, PacketsMatchTheirHeader, DeclaredLength
      <3> QED
        BY <3>2, <3>3 DEF ReassemblerInv
  <1>5. CASE UNCHANGED vars
    BY <1>5 DEF vars, ReassemblerInv, Typed, BufferBelowCap,
                PacketsMatchTheirHeader
  <1> QED
    <2>1. BoundedSeq(Byte, MaxChunk) \ {<<>>} \subseteq BoundedSeq(Byte, MaxChunk)
      OBVIOUS
    <2> QED
      BY <1>1, <1>2, <1>3, <1>4, <1>5, <2>1 DEF Next

\* The initial state satisfies it.
LEMMA ReassemblerInvInit == Init => ReassemblerInv
  <1> SUFFICES ASSUME Init PROVE ReassemblerInv
    OBVIOUS
  <1>1. Typed /\ PacketsMatchTheirHeader
    <2>0. buffers \in Seq(Byte)
      BY DEF Init
    <2>1. feeding \in BOOLEAN
      BY DEF Init
    <2>2. packets \in Seq(Seq(Byte))
      <3> DEFINE S == Seq(Byte)
      <3> HIDE DEF S
      <3>1. packets \in Seq(S)
        BY DEF Init
      <3> QED
        BY <3>1 DEF S
    <2>3. DOMAIN packets = {}
      BY DEF Init
    <2> QED
      BY <2>0, <2>1, <2>2, <2>3 DEF Typed, PacketsMatchTheirHeader
  <1>2. Len(buffers) < MaxBuffer
    BY ReassemblerConstants DEF Init
  <1> QED
    BY <1>1, <1>2 DEF ReassemblerInv, BufferBelowCap

\* So it holds throughout.
LEMMA ReassemblerInvariant == Spec => []ReassemblerInv
  BY ReassemblerInvInit, NextPreservesInv, PTL DEF Spec

\* Whatever bytes the device sends, between two feed() calls the reassembly
\* buffer is below its limit, so the clear() at the end of feed() is dead code.
THEOREM BufferStaysBelowCap == Spec => []BufferBelowCap
  <1>1. ReassemblerInv => BufferBelowCap
    BY DEF ReassemblerInv
  <1> QED
    BY <1>1, ReassemblerInvariant, PTL

\* Every packet that feed() returns is as long as its own header says.
THEOREM PacketsWellFormed == Spec => []PacketsMatchTheirHeader
  <1>1. ReassemblerInv => PacketsMatchTheirHeader
    BY DEF ReassemblerInv
  <1> QED
    BY <1>1, ReassemblerInvariant, PTL

-----------------------------------------------------------------------------
(* The frames of a stream do not depend on the chunks.                     *)

\* One position of the pass over the whole stream, and the pass itself.
At(s, f, i) ==
    LET left == Len(s) - i + 1
        n == s[i + HeaderSize - 1]
    IN  IF left < HeaderSize THEN [out |-> <<>>, rest |-> i]
        ELSE IF n < HeaderSize \/ n > MaxBuffer THEN f[i + 1]
        ELSE IF left < n THEN [out |-> <<>>, rest |-> i]
        ELSE [out |-> <<SubSeq(s, i, i + n - 1)>> \o f[i + n].out, rest |-> f[i + n].rest]
From(s) == CHOOSE f : f = [i \in 1..(Len(s) + 1) |-> At(s, f, i)]

\* Induction over the natural numbers, with the set of the numbers that have
\* the property in place of the property.
LEMMA NatSetInduction ==
    ASSUME NEW S, 0 \in S, \A n \in Nat : n \in S => n + 1 \in S
    PROVE  Nat \subseteq S
  <1> SUFFICES ASSUME Nat \ S # {} PROVE FALSE
    OBVIOUS
  <1> DEFINE R == OpToRel(<, Nat)
             T == Nat \ S
  <1>1. IsWellFoundedOn(R, Nat)
    BY NatLessThanWellFounded
  <1>2. \A x, y \in Nat : x < y => <<x, y>> \in R
    BY DEF OpToRel
  <1> HIDE DEF R
  <1>3. PICK x \in T : \A y \in T : ~(<<y, x>> \in R)
    BY <1>1, WFMin
  <1>4. x \in Nat /\ x # 0
    OBVIOUS
  <1>5. x - 1 \in Nat /\ x - 1 < x
    BY <1>4
  <1>6. x - 1 \notin T
    BY <1>2, <1>3, <1>4, <1>5
  <1>7. (x - 1) + 1 \in S
    BY <1>5, <1>6
  <1> QED BY <1>4, <1>7

\* A position looks at later positions only.
LEMMA AtLooksAhead ==
    ASSUME NEW s \in Seq(Byte), NEW f, NEW g, NEW i \in 1..(Len(s) + 1),
           \A j \in (i + 1)..(Len(s) + 1) : f[j] = g[j]
    PROVE  At(s, f, i) = At(s, g, i)
  <1> DEFINE left == Len(s) - i + 1
             n == s[i + HeaderSize - 1]
  <1>1. CASE left < HeaderSize
    BY <1>1 DEF At
  <1>2. CASE left >= HeaderSize
    <2>1. i + 1 \in (i + 1)..(Len(s) + 1) /\ n \in Nat
      <3>1. i + 1 \in (i + 1)..(Len(s) + 1) /\ i + HeaderSize - 1 \in 1..Len(s)
        BY <1>2, ReassemblerConstants
      <3>2. n \in Byte
        BY <3>1
      <3> QED BY <3>1, <3>2, ReassemblerConstants
    <2>2. ~(n < HeaderSize) /\ left >= n => i + n \in (i + 1)..(Len(s) + 1)
      <3> HIDE DEF n
      <3> QED BY <2>1, ReassemblerConstants
    <2>3. f[i + 1] = g[i + 1] /\ (~(n < HeaderSize) /\ left >= n => f[i + n] = g[i + n])
      BY <2>1, <2>2
    <2>4. left \in Int
      OBVIOUS
    <2> HIDE DEF left, n
    <2>5. \/ n < HeaderSize \/ n > MaxBuffer
          \/ ~(n < HeaderSize) /\ left < n
          \/ ~(n < HeaderSize) /\ ~(n > MaxBuffer) /\ left >= n
      BY <2>1, <2>4
    <2> QED BY <2>3, <2>4, <2>5, <2>1 DEF At, left, n
  <1>3. left < HeaderSize \/ left >= HeaderSize
    BY ReassemblerConstants
  <1> QED BY <1>1, <1>2, <1>3

\* The pass exists: it is defined from the last position back.
LEMMA PassExists ==
    ASSUME NEW s \in Seq(Byte)
    PROVE  /\ From(s) = [i \in 1..(Len(s) + 1) |-> At(s, From(s), i)]
           /\ FramesOf(s) = From(s)[1]
  <1> DEFINE N == Len(s) + 1
             Computes(f, m) == f = [i \in (N - m)..N |-> At(s, f, i)]
             S == {m \in Nat : m < N => \E f : Computes(f, m)}
  <1>1. N \in Nat \ {0}
    OBVIOUS
  <1>2. ASSUME NEW m \in Nat, NEW f, m < N,
               \A i \in ((N - m) + 1)..N : f[i] = At(s, f, i)
        PROVE  \E g : Computes(g, m)
    <2> DEFINE k == N - m
               g == [i \in k..N |-> IF i = k THEN At(s, f, i) ELSE f[i]]
    <2>1. k \in 1..N
      BY <1>2
    <2>2. \A j \in (k + 1)..N : j \in k..N /\ j # k /\ j \in Int
      BY <2>1
    <2>3. \A j \in (k + 1)..N : g[j] = f[j]
      BY <2>2
    <2>4. ASSUME NEW i \in k..N PROVE g[i] = At(s, g, i)
      <3>1. i \in 1..(Len(s) + 1) /\ \A j \in (i + 1)..(Len(s) + 1) : j \in (k + 1)..N
        BY <2>1
      <3>2. At(s, g, i) = At(s, f, i)
        <4> HIDE DEF g
        <4> QED BY <2>3, <3>1, AtLooksAhead
      <3>3. g[i] = At(s, f, i)
        <4>1. CASE i = k
          BY <4>1
        <4>2. CASE i # k
          <5>1. i \in (k + 1)..N
            BY <2>1, <4>2
          <5>2. f[i] = At(s, f, i)
            BY <1>2, <5>1
          <5> QED BY <4>2, <5>2
        <4> QED BY <4>1, <4>2
      <3> QED BY <3>2, <3>3
    <2>5. g = [i \in k..N |-> g[i]]
      OBVIOUS
    <2> HIDE DEF g
    <2>6. g = [i \in k..N |-> At(s, g, i)]
      BY <2>4, <2>5
    <2> QED BY <2>6
  <1>3. 0 \in S
    <2>1. \E g : Computes(g, 0)
      <3>1. \A i \in ((N - 0) + 1)..N : FALSE
        BY <1>1
      <3> HIDE DEF Computes, N
      <3> QED BY <1>1, <1>2, <3>1
    <2> QED BY <2>1
  <1>4. ASSUME NEW m \in Nat, m \in S PROVE m + 1 \in S
    <2> SUFFICES ASSUME m + 1 < N PROVE \E g : Computes(g, m + 1)
      OBVIOUS
    <2>1. PICK f : Computes(f, m)
      BY <1>1, <1>4
    <2>2. (N - (m + 1)) + 1 = N - m
      BY <1>1
    <2>3. \A i \in (N - m)..N : f[i] = At(s, f, i)
      BY <2>1
    <2> HIDE DEF Computes, N
    <2> QED BY <1>2, <2>2, <2>3
  <1>5. N - 1 \in S
    <2>1. Nat \subseteq S
      <3> HIDE DEF S
      <3> QED BY <1>3, <1>4, NatSetInduction
    <2>2. N - 1 \in Nat
      BY <1>1
    <2> QED BY <2>1, <2>2
  <1>6. \E f : f = [i \in 1..(Len(s) + 1) |-> At(s, f, i)]
    <2>1. N - 1 < N /\ N - (N - 1) = 1
      BY <1>1
    <2>2. \E f : Computes(f, N - 1)
      BY <1>5, <2>1
    <2> QED BY <2>1, <2>2
  <1>7. From(s) = [i \in 1..(Len(s) + 1) |-> At(s, From(s), i)]
    BY <1>6 DEF From
  <1>8. FramesOf(s) = From(s)[1]
    BY DEF FramesOf, From, At
  <1> QED BY <1>7, <1>8

\* What the pass does at a position, in the terms of the feed() loop.
LEMMA PassSteps ==
    ASSUME NEW s \in Seq(Byte), NEW i \in 1..(Len(s) + 1)
    PROVE  LET left == Len(s) - i + 1
               n == s[i + HeaderSize - 1]
               f == From(s)
           IN  /\ left < HeaderSize => f[i].out = <<>> /\ f[i].rest = i
               /\ left >= HeaderSize => n \in Nat
               /\ left >= HeaderSize /\ ImpossibleLength(n) => f[i] = f[i + 1]
               /\ left >= HeaderSize /\ ~ImpossibleLength(n) /\ left < n =>
                    f[i].out = <<>> /\ f[i].rest = i
               /\ left >= HeaderSize /\ ~ImpossibleLength(n) /\ left >= n =>
                    /\ f[i].out = <<SubSeq(s, i, i + n - 1)>> \o f[i + n].out
                    /\ f[i].rest = f[i + n].rest
  <1> DEFINE left == Len(s) - i + 1
             n == s[i + HeaderSize - 1]
             f == From(s)
  <1>1. f[i] = At(s, f, i)
    <2>1. f = [j \in 1..(Len(s) + 1) |-> At(s, f, j)]
      BY PassExists
    <2> HIDE DEF f
    <2> QED BY <2>1
  <1> HIDE DEF f
  <1>2. left \in Int /\ HeaderSize \in Int
    BY ReassemblerConstants
  <1>3. left >= HeaderSize => n \in Nat
    <2> SUFFICES ASSUME left >= HeaderSize PROVE n \in Nat
      OBVIOUS
    <2>1. i + HeaderSize - 1 \in 1..Len(s)
      BY ReassemblerConstants
    <2>2. n \in Byte
      BY <2>1
    <2> QED BY <2>2, ReassemblerConstants
  <1>4. f[i] = IF left < HeaderSize THEN [out |-> <<>>, rest |-> i]
               ELSE IF ImpossibleLength(n) THEN f[i + 1]
               ELSE IF left < n THEN [out |-> <<>>, rest |-> i]
               ELSE [out |-> <<SubSeq(s, i, i + n - 1)>> \o f[i + n].out, rest |-> f[i + n].rest]
    BY <1>1 DEF At, ImpossibleLength
  <1> HIDE DEF left, n
  <1>5. left >= HeaderSize => ~(left < HeaderSize)
    BY <1>2
  <1>6. left >= HeaderSize /\ left >= n => ~(left < n)
    BY <1>2, <1>3
  <1>7. left < HeaderSize => f[i] = [out |-> <<>>, rest |-> i]
    BY <1>4
  <1>8. left >= HeaderSize /\ ImpossibleLength(n) => f[i] = f[i + 1]
    BY <1>4, <1>5
  <1>9. left >= HeaderSize /\ ~ImpossibleLength(n) /\ left < n =>
            f[i] = [out |-> <<>>, rest |-> i]
    BY <1>4, <1>5
  <1> DEFINE whole == <<SubSeq(s, i, i + n - 1)>> \o f[i + n].out
             end == f[i + n].rest
  <1>10. left >= HeaderSize /\ ~ImpossibleLength(n) /\ left >= n =>
            f[i] = [out |-> whole, rest |-> end]
    BY <1>4, <1>5, <1>6
  <1> HIDE DEF whole, end
  <1>11. /\ left < HeaderSize => f[i].out = <<>> /\ f[i].rest = i
         /\ left >= HeaderSize /\ ~ImpossibleLength(n) /\ left < n =>
              f[i].out = <<>> /\ f[i].rest = i
    BY <1>7, <1>9
  <1>12. left >= HeaderSize /\ ~ImpossibleLength(n) /\ left >= n =>
              f[i].out = whole /\ f[i].rest = end
    BY <1>10
  <1> QED BY <1>3, <1>8, <1>11, <1>12, Zenon DEF left, n, f, whole, end

\* The frames of a pass are sequences of bytes.
LEMMA PassTyped ==
    ASSUME NEW s \in Seq(Byte), NEW i \in 1..(Len(s) + 1)
    PROVE  From(s)[i].out \in Seq(Seq(Byte))
  <1> DEFINE N == Len(s) + 1
             f == From(s)
             T == Seq(Byte)
             S == {m \in Nat : \A j \in 1..N : j >= N - m => f[j].out \in Seq(T)}
  <1>1. N \in Nat \ {0} /\ <<>> \in Seq(T)
    OBVIOUS
  <1>2. ASSUME NEW j \in 1..N, \A k \in 1..N : k > j => f[k].out \in Seq(T)
        PROVE  f[j].out \in Seq(T)
    <2> DEFINE left == Len(s) - j + 1
               n == s[j + HeaderSize - 1]
    <2>1. /\ left < HeaderSize => f[j].out = <<>>
          /\ left >= HeaderSize => n \in Nat
          /\ left >= HeaderSize /\ ImpossibleLength(n) => f[j] = f[j + 1]
          /\ left >= HeaderSize /\ ~ImpossibleLength(n) /\ left < n => f[j].out = <<>>
          /\ left >= HeaderSize /\ ~ImpossibleLength(n) /\ left >= n =>
                f[j].out = <<SubSeq(s, j, j + n - 1)>> \o f[j + n].out
      BY PassSteps
    <2> HIDE DEF f
    <2>2. CASE left < HeaderSize
      BY <1>1, <2>1, <2>2
    <2>3. CASE left >= HeaderSize /\ ImpossibleLength(n)
      <3>1. j + 1 \in 1..N /\ j + 1 > j
        BY <2>3, ReassemblerConstants
      <3> QED BY <1>2, <2>1, <2>3, <3>1
    <2>4. CASE left >= HeaderSize /\ ~ImpossibleLength(n) /\ left < n
      BY <1>1, <2>1, <2>4
    <2>5. CASE left >= HeaderSize /\ ~ImpossibleLength(n) /\ left >= n
      <3>1. n \in Nat /\ n >= HeaderSize
        <4>1. n \in Nat
          BY <2>1, <2>5
        <4> HIDE DEF n
        <4> QED BY <2>5, <4>1, ReassemblerConstants DEF ImpossibleLength
      <3>2. j + n \in 1..N /\ j + n > j /\ 1 <= j /\ j + n - 1 <= Len(s)
        <4> HIDE DEF n
        <4> QED BY <2>5, <3>1, ReassemblerConstants
      <3>3. SubSeq(s, j, j + n - 1) \in T
        <4> HIDE DEF n
        <4>1. \A k \in j..(j + n - 1) : k \in 1..Len(s)
          BY <3>1, <3>2
        <4> QED BY <3>1, <4>1, SubSeqProperties
      <3>4. f[j + n].out \in Seq(T)
        BY <1>2, <3>2
      <3> DEFINE p == SubSeq(s, j, j + n - 1)
      <3> HIDE DEF T, p
      <3>5. <<p>> \o f[j + n].out \in Seq(T)
        BY <3>3, <3>4 DEF p
      <3> QED BY <2>1, <2>5, <3>5 DEF p
    <2>6. \/ left < HeaderSize
          \/ left >= HeaderSize /\ ImpossibleLength(n)
          \/ left >= HeaderSize /\ ~ImpossibleLength(n) /\ left < n
          \/ left >= HeaderSize /\ ~ImpossibleLength(n) /\ left >= n
      <3>1. left \in Int /\ HeaderSize \in Int
        BY ReassemblerConstants
      <3>2. left >= HeaderSize => n \in Nat
        BY <2>1
      <3> HIDE DEF left, n
      <3>3. left < HeaderSize \/ left >= HeaderSize
        BY <3>1
      <3>4. n \in Nat => (left < n \/ left >= n)
        BY <3>1
      <3> QED BY <3>2, <3>3, <3>4
    <2> QED BY <2>2, <2>3, <2>4, <2>5, <2>6
  <1> HIDE DEF f, T
  <1>3. 0 \in S
    <2>1. \A k \in 1..N : ~(k > N)
      OBVIOUS
    <2>2. N \in 1..N
      BY <1>1
    <2>3. f[N].out \in Seq(T)
      BY <1>2, <2>1, <2>2
    <2>4. \A j \in 1..N : j >= N - 0 => j = N
      BY <1>1
    <2> QED BY <2>3, <2>4
  <1>4. ASSUME NEW m \in Nat, m \in S PROVE m + 1 \in S
    <2> SUFFICES ASSUME NEW j \in 1..N, j >= N - (m + 1) PROVE f[j].out \in Seq(T)
      OBVIOUS
    <2>1. \A k \in 1..N : k > j => k >= N - m
      BY <1>1
    <2>2. \A k \in 1..N : k > j => f[k].out \in Seq(T)
      BY <1>4, <2>1
    <2> QED BY <1>2, <2>2
  <1>5. N \in S
    <2> HIDE DEF S
    <2>1. Nat \subseteq S
      BY <1>3, <1>4, NatSetInduction
    <2> QED BY <1>1, <2>1
  <1>6. i \in 1..N /\ i >= N - N
    OBVIOUS
  <1>7. f[i].out \in Seq(T)
    BY <1>5, <1>6
  <1> QED BY <1>7 DEF f, T

\* The buffer b holds the newest bytes of the stream s.
TailOf(b, s) ==
    /\ Len(b) <= Len(s)
    /\ \A k \in 1..Len(b) : b[k] = s[Len(s) - Len(b) + k]

\* The pass over s and whatever may follow it: the packets already cut off, then
\* what it finds from the first byte of the buffer on.
Chain(b, s, ps) ==
    \A e \in Seq(Byte) :
        /\ From(s \o e)[1].out = ps \o From(s \o e)[Len(s) - Len(b) + 1].out
        /\ From(s \o e)[1].rest = From(s \o e)[Len(s) - Len(b) + 1].rest

\* feed() has nothing left to cut off: it waits for the rest of a frame.
Waits(b) ==
    \/ Len(b) < HeaderSize
    \/ /\ Len(b) >= HeaderSize
       /\ ~ImpossibleLength(b[HeaderSize])
       /\ Len(b) < b[HeaderSize]

\* The bytes fed and the bytes to come, seen from the first byte of the buffer.
LEMMA Ahead ==
    ASSUME NEW b \in Seq(Byte), NEW s \in Seq(Byte), TailOf(b, s), NEW e \in Seq(Byte)
    PROVE  LET i == Len(s) - Len(b) + 1 IN
           /\ s \o e \in Seq(Byte)
           /\ i \in 1..(Len(s \o e) + 1)
           /\ Len(s \o e) - i + 1 = Len(b) + Len(e)
           /\ \A k \in 1..Len(b) : i + k - 1 \in 1..Len(s \o e) /\ (s \o e)[i + k - 1] = b[k]
  <1> DEFINE i == Len(s) - Len(b) + 1
             t == s \o e
  <1>1. Len(b) \in Nat /\ Len(s) \in Nat /\ Len(e) \in Nat /\ Len(b) <= Len(s)
    BY DEF TailOf
  <1>2. t \in Seq(Byte) /\ Len(t) = Len(s) + Len(e) /\ \A j \in 1..Len(s) : t[j] = s[j]
    BY ConcatProperties
  <1> HIDE DEF t
  <1>3. i \in 1..(Len(t) + 1) /\ Len(t) - i + 1 = Len(b) + Len(e)
    BY <1>1, <1>2
  <1>4. ASSUME NEW k \in 1..Len(b)
        PROVE  i + k - 1 \in 1..Len(t) /\ t[i + k - 1] = b[k]
    <2>1. i + k - 1 = Len(s) - Len(b) + k /\ i + k - 1 \in 1..Len(s) /\ i + k - 1 \in 1..Len(t)
      BY <1>1, <1>2
    <2>2. b[k] = s[i + k - 1]
      BY <2>1 DEF TailOf
    <2> QED BY <1>2, <2>1, <2>2
  <1> QED BY <1>2, <1>3, <1>4 DEF t

\* More bytes at the end of both.
LEMMA FedTail ==
    ASSUME NEW b \in Seq(Byte), NEW s \in Seq(Byte), TailOf(b, s), NEW d \in Seq(Byte)
    PROVE  TailOf(b \o d, s \o d)
  <1>1. Len(b) \in Nat /\ Len(s) \in Nat /\ Len(d) \in Nat /\ Len(b) <= Len(s)
    BY DEF TailOf
  <1>2. Len(b \o d) = Len(b) + Len(d) /\ Len(s \o d) = Len(s) + Len(d)
    OBVIOUS
  <1>3. ASSUME NEW k \in 1..(Len(b) + Len(d))
        PROVE  (b \o d)[k] = (s \o d)[Len(s) - Len(b) + k]
    <2>1. CASE k <= Len(b)
      <3>1. k \in 1..Len(b) /\ Len(s) - Len(b) + k \in 1..Len(s)
        BY <1>1, <2>1
      <3>2. (b \o d)[k] = b[k]
        BY <3>1, ConcatProperties
      <3>3. (s \o d)[Len(s) - Len(b) + k] = s[Len(s) - Len(b) + k]
        BY <3>1, ConcatProperties
      <3> QED BY <3>1, <3>2, <3>3 DEF TailOf
    <2>2. CASE k > Len(b)
      <3>1. /\ k \in (Len(b) + 1)..(Len(b) + Len(d))
            /\ Len(s) - Len(b) + k \in (Len(s) + 1)..(Len(s) + Len(d))
            /\ (Len(s) - Len(b) + k) - Len(s) = k - Len(b)
        BY <1>1, <2>2
      <3>2. (b \o d)[k] = d[k - Len(b)]
        BY <3>1
      <3>3. (s \o d)[Len(s) - Len(b) + k] = d[(Len(s) - Len(b) + k) - Len(s)]
        BY <3>1
      <3> QED BY <3>1, <3>2, <3>3
    <2> QED BY <1>1, <2>1, <2>2
  <1>4. (Len(s) + Len(d)) - (Len(b) + Len(d)) = Len(s) - Len(b) /\ Len(b) + Len(d) <= Len(s) + Len(d)
    BY <1>1
  <1> QED BY <1>2, <1>3, <1>4 DEF TailOf

\* Bytes cut off the front of the buffer.
LEMMA CutTail ==
    ASSUME NEW b \in Seq(Byte), NEW s \in Seq(Byte), TailOf(b, s), NEW n \in 0..Len(b)
    PROVE  /\ SubSeq(b, n + 1, Len(b)) \in Seq(Byte)
           /\ Len(SubSeq(b, n + 1, Len(b))) = Len(b) - n
           /\ TailOf(SubSeq(b, n + 1, Len(b)), s)
  <1> DEFINE c == SubSeq(b, n + 1, Len(b))
  <1>1. Len(b) \in Nat /\ Len(s) \in Nat /\ Len(b) <= Len(s)
    BY DEF TailOf
  <1>2. /\ c \in Seq(Byte) /\ Len(c) = Len(b) - n
        /\ \A k \in 1..(Len(b) - n) : c[k] = b[n + k]
    <2>1. \A k \in (n + 1)..Len(b) : k \in 1..Len(b)
      BY <1>1
    <2>2. c \in Seq(Byte) /\ Len(c) = Len(b) - n
      BY <1>1
    <2>3. \A k \in 1..(Len(b) - n) : c[k] = b[n + k]
      BY <1>1
    <2> QED BY <2>2, <2>3
  <1> HIDE DEF c
  <1>3. ASSUME NEW k \in 1..(Len(b) - n) PROVE c[k] = s[Len(s) - (Len(b) - n) + k]
    <2>1. n + k \in 1..Len(b) /\ Len(s) - (Len(b) - n) + k = Len(s) - Len(b) + (n + k)
      BY <1>1
    <2>2. b[n + k] = s[Len(s) - Len(b) + (n + k)]
      BY <2>1 DEF TailOf
    <2> QED BY <1>2, <2>1, <2>2
  <1>4. Len(b) - n <= Len(s)
    BY <1>1
  <1>5. TailOf(c, s)
    BY <1>2, <1>3, <1>4 DEF TailOf
  <1> QED BY <1>2, <1>5 DEF c

\* Position arithmetic, apart from what the positions are in.
LEMMA Shift ==
    ASSUME NEW x \in Int, NEW y \in Int, NEW m \in Int
    PROVE  x - (y - m) + 1 = x - y + 1 + m
  OBVIOUS

\* An element appended to the one part is the first of the other.
LEMMA AppendThenConcat ==
    ASSUME NEW T, NEW ps \in Seq(T), NEW p \in T, NEW rest \in Seq(T)
    PROVE  Append(ps, p) \o rest = ps \o (<<p>> \o rest)
  <1> DEFINE one == <<p>>
  <1>1. one \in Seq(T)
    OBVIOUS
  <1>2. Append(ps, p) = ps \o one
    BY AppendIsConcat
  <1> HIDE DEF one
  <1>3. (ps \o one) \o rest = ps \o (one \o rest)
    BY <1>1, ConcatAssociative
  <1> QED BY <1>2, <1>3 DEF one

\* Feeding more bytes: they were among those that may follow.
LEMMA ChainFeed ==
    ASSUME NEW b \in Seq(Byte), NEW s \in Seq(Byte), NEW ps, NEW d \in Seq(Byte),
           TailOf(b, s), Chain(b, s, ps)
    PROVE  Chain(b \o d, s \o d, ps)
  <1> SUFFICES ASSUME NEW e \in Seq(Byte)
               PROVE  LET g == From((s \o d) \o e)
                          i == Len(s \o d) - Len(b \o d) + 1
                      IN  g[1].out = ps \o g[i].out /\ g[1].rest = g[i].rest
    BY DEF Chain
  <1>1. (s \o d) \o e = s \o (d \o e)
    BY ConcatAssociative
  <1>2. d \o e \in Seq(Byte)
    BY ConcatProperties
  <1>3. Len(s \o d) - Len(b \o d) + 1 = Len(s) - Len(b) + 1
    <2>1. Len(b) \in Nat /\ Len(s) \in Nat /\ Len(d) \in Nat
      OBVIOUS
    <2>2. Len(s \o d) = Len(s) + Len(d) /\ Len(b \o d) = Len(b) + Len(d)
      BY ConcatProperties
    <2> QED BY <2>1, <2>2
  <1>4. /\ From(s \o (d \o e))[1].out = ps \o From(s \o (d \o e))[Len(s) - Len(b) + 1].out
        /\ From(s \o (d \o e))[1].rest = From(s \o (d \o e))[Len(s) - Len(b) + 1].rest
    BY <1>2 DEF Chain
  <1> QED BY <1>1, <1>3, <1>4

\* Dropping a byte: the pass moves on by one position.
LEMMA ChainDrop ==
    ASSUME NEW b \in Seq(Byte), NEW s \in Seq(Byte), NEW ps, TailOf(b, s), Chain(b, s, ps),
           Len(b) >= HeaderSize, ImpossibleLength(b[HeaderSize])
    PROVE  Chain(Tail(b), s, ps)
  <1> SUFFICES ASSUME NEW e \in Seq(Byte)
               PROVE  LET g == From(s \o e)
                          i == Len(s) - Len(Tail(b)) + 1
                      IN  g[1].out = ps \o g[i].out /\ g[1].rest = g[i].rest
    BY DEF Chain
  <1> DEFINE i == Len(s) - Len(b) + 1
             t == s \o e
             g == From(t)
  <1>1. Len(b) \in Nat /\ Len(s) \in Nat /\ Len(e) \in Nat /\ HeaderSize \in 1..Len(b)
    BY ReassemblerConstants
  <1>2. Len(s) - Len(Tail(b)) + 1 = i + 1
    <2>1. Len(Tail(b)) = Len(b) - 1
      BY <1>1, HeadTailProperties
    <2>2. \A x : x = Len(b) - 1 => Len(s) - x + 1 = i + 1
      BY <1>1
    <2> QED BY <2>1, <2>2
  <1>3. g[i] = g[i + 1]
    <2>1. /\ t \in Seq(Byte) /\ i \in 1..(Len(t) + 1) /\ Len(t) - i + 1 = Len(b) + Len(e)
          /\ \A k \in 1..Len(b) : i + k - 1 \in 1..Len(t) /\ t[i + k - 1] = b[k]
      BY Ahead
    <2> HIDE DEF t, i
    <2>2. t[i + HeaderSize - 1] = b[HeaderSize]
      BY <1>1, <2>1
    <2>3. Len(t) - i + 1 >= HeaderSize
      BY <1>1, <2>1
    <2> QED BY <2>1, <2>2, <2>3, PassSteps
  <1>4. g[1].out = ps \o g[i].out /\ g[1].rest = g[i].rest
    BY DEF Chain
  <1> QED BY <1>2, <1>3, <1>4

\* Cutting off a frame: the pass cuts off the same one.
LEMMA ChainEmit ==
    ASSUME NEW b \in Seq(Byte), NEW s \in Seq(Byte), NEW ps \in Seq(Seq(Byte)),
           TailOf(b, s), Chain(b, s, ps), NEW n \in Nat, n = b[HeaderSize],
           Len(b) >= HeaderSize, ~ImpossibleLength(n), Len(b) >= n
    PROVE  Chain(SubSeq(b, n + 1, Len(b)), s, Append(ps, SubSeq(b, 1, n)))
  <1> DEFINE p == SubSeq(b, 1, n)
             c == SubSeq(b, n + 1, Len(b))
  <1> SUFFICES ASSUME NEW e \in Seq(Byte)
               PROVE  LET g == From(s \o e)
                          i == Len(s) - Len(c) + 1
                      IN  g[1].out = Append(ps, p) \o g[i].out /\ g[1].rest = g[i].rest
    BY DEF Chain
  <1> DEFINE i == Len(s) - Len(b) + 1
             t == s \o e
             g == From(t)
  <1>1. /\ Len(b) \in Nat /\ Len(s) \in Nat /\ Len(e) \in Nat /\ Len(b) <= Len(s)
        /\ HeaderSize \in 1..Len(b) /\ n \in 1..Len(b) /\ n >= HeaderSize
    BY ReassemblerConstants DEF ImpossibleLength, TailOf
  <1>2. Len(s) - Len(c) + 1 = i + n
    <2>1. Len(c) = Len(b) - n
      BY <1>1, CutTail
    <2>2. Len(b) \in Int /\ Len(s) \in Int /\ n \in Int
      BY <1>1
    <2>3. Len(s) - (Len(b) - n) + 1 = i + n
      BY <2>2, Shift
    <2> QED BY <2>1, <2>3
  <1>3. /\ t \in Seq(Byte) /\ i \in 1..(Len(t) + 1) /\ Len(t) - i + 1 = Len(b) + Len(e)
        /\ \A k \in 1..Len(b) : i + k - 1 \in 1..Len(t) /\ t[i + k - 1] = b[k]
    BY Ahead
  <1>4. i \in Int /\ Len(t) \in Nat
    BY <1>1, <1>3
  <1> HIDE DEF t, i
  <1>5. p = SubSeq(t, i, i + n - 1) /\ p \in Seq(Byte)
    <2> DEFINE q == SubSeq(t, i, i + n - 1)
    <2>1. i + n - 1 \in 1..Len(t)
      BY <1>1, <1>3
    <2>2. p \in Seq(Byte) /\ Len(p) = n /\ \A k \in 1..n : p[k] = b[k]
      <3>1. \A k \in 1..n : k \in 1..Len(b)
        BY <1>1
      <3> QED BY <1>1, <3>1
    <2>3. q \in Seq(Byte) /\ Len(q) = n /\ \A k \in 1..n : q[k] = t[i + k - 1]
      <3>1. \A k \in i..(i + n - 1) : t[k] \in Byte
        <4>1. t \in Seq(Byte) /\ i \in Nat /\ i >= 1 /\ i + n - 1 <= Len(t)
          BY <1>3, <1>4, <2>1
        <4>2. \A k \in i..(i + n - 1) : k \in 1..Len(t)
          BY <1>1, <1>4, <4>1
        <4>3. \A k \in 1..Len(t) : t[k] \in Byte
          BY <4>1
        <4> QED BY <4>2, <4>3
      <3>2. i + n - 1 \in Int /\ i <= i + n - 1 /\ (i + n - 1) - i + 1 = n
        BY <1>1, <1>4
      <3> DEFINE hi == i + n - 1
      <3> HIDE DEF hi
      <3>3. q = SubSeq(t, i, hi)
        BY DEF hi
      <3>4. hi \in Int /\ i <= hi /\ hi - i + 1 = n /\ \A k \in i..hi : t[k] \in Byte
        BY <3>1, <3>2 DEF hi
      <3> HIDE DEF q
      <3>5. q \in Seq(Byte) /\ Len(q) = hi - i + 1 /\ \A k \in 1..(hi - i + 1) : q[k] = t[i + k - 1]
        BY <1>4, <3>3, <3>4, SubSeqProperties
      <3> QED BY <3>4, <3>5
    <2> HIDE DEF p, q
    <2>4. \A k \in 1..n : p[k] = q[k]
      <3>1. \A k \in 1..n : k \in 1..Len(b)
        BY <1>1
      <3> QED BY <1>3, <2>2, <2>3, <3>1
    <2>5. p = q
      BY <2>2, <2>3, <2>4, SeqEqual
    <2> QED BY <2>2, <2>5 DEF q
  <1>6. g[i].out = <<p>> \o g[i + n].out /\ g[i].rest = g[i + n].rest
    <2>1. t[i + HeaderSize - 1] = n /\ Len(t) - i + 1 >= HeaderSize /\ Len(t) - i + 1 >= n
      BY <1>1, <1>3
    <2> DEFINE m == t[i + HeaderSize - 1]
    <2>2. Len(t) - i + 1 >= HeaderSize /\ ~ImpossibleLength(m) /\ Len(t) - i + 1 >= m =>
            /\ g[i].out = <<SubSeq(t, i, i + m - 1)>> \o g[i + m].out
            /\ g[i].rest = g[i + m].rest
      BY <1>3, PassSteps
    <2>3. m = n
      BY <2>1
    <2>4. p = SubSeq(t, i, i + n - 1)
      BY <1>5
    <2> HIDE DEF m, p, g
    <2>5. Len(t) - i + 1 >= HeaderSize /\ ~ImpossibleLength(m) /\ Len(t) - i + 1 >= m
      BY <2>1, <2>3
    <2>6. /\ g[i].out = <<SubSeq(t, i, i + m - 1)>> \o g[i + m].out
          /\ g[i].rest = g[i + m].rest
      BY <2>2, <2>5, Zenon
    <2> QED BY <2>3, <2>4, <2>6, Zenon
  <1>7. g[i + n].out \in Seq(Seq(Byte))
    <2>1. i + n \in 1..(Len(t) + 1)
      <3>1. /\ i \in Int /\ Len(t) \in Int /\ Len(b) \in Int /\ Len(e) \in Int /\ n \in Int
            /\ i >= 1 /\ n >= 0 /\ n <= Len(b) /\ Len(e) >= 0
        BY <1>1, <1>3, <1>4
      <3>2. Len(t) - i + 1 = Len(b) + Len(e)
        BY <1>3
      <3>3. \A j, k, x, y, z \in Int :
                j >= 1 /\ z >= 0 /\ z <= x /\ y >= 0 /\ k - j + 1 = x + y => j + z \in 1..(k + 1)
        OBVIOUS
      <3> QED BY <3>1, <3>2, <3>3
    <2> QED BY <1>3, <2>1, PassTyped
  <1>8. g[1].out = ps \o g[i].out /\ g[1].rest = g[i].rest
    BY DEF Chain, t, i
  <1> DEFINE T == Seq(Byte)
             rest == g[i + n].out
  <1>9. Append(ps, p) \o rest = ps \o (<<p>> \o rest)
    <2>1. ps \in Seq(T) /\ p \in T /\ rest \in Seq(T)
      BY <1>5, <1>7
    <2> HIDE DEF T, rest, p
    <2>2. \A x \in Seq(T), y \in T, z \in Seq(T) : Append(x, y) \o z = x \o (<<y>> \o z)
      BY AppendThenConcat
    <2> QED BY <2>1, <2>2, Zenon
  <1> HIDE DEF p, c, rest
  <1>10. g[1].out = Append(ps, p) \o g[i + n].out /\ g[1].rest = g[i + n].rest
    BY <1>6, <1>8, <1>9 DEF rest
  <1> QED BY <1>2, <1>10 DEF t

\* Where feed() waits, the pass stops too.
LEMMA PassStops ==
    ASSUME NEW b \in Seq(Byte), NEW s \in Seq(Byte), NEW ps \in Seq(Seq(Byte)),
           TailOf(b, s), Chain(b, s, ps), Waits(b)
    PROVE  FramesOf(s).out = ps /\ b = SubSeq(s, FramesOf(s).rest, Len(s))
  <1> DEFINE i == Len(s) - Len(b) + 1
             g == From(s)
  <1>1. Len(b) \in Nat /\ Len(s) \in Nat /\ Len(b) <= Len(s)
    BY DEF TailOf
  <1>2. s \o <<>> = s /\ <<>> \in Seq(Byte) /\ Len(<<>>) = 0
    BY ConcatEmptySeq
  <1>3. /\ i \in 1..(Len(s) + 1) /\ Len(s) - i + 1 = Len(b)
        /\ \A k \in 1..Len(b) : i + k - 1 \in 1..Len(s) /\ s[i + k - 1] = b[k]
    <2>1. i \in 1..(Len(s) + 1) /\ Len(s) - i + 1 = Len(b)
      BY <1>1
    <2>2. ASSUME NEW k \in 1..Len(b) PROVE i + k - 1 \in 1..Len(s) /\ s[i + k - 1] = b[k]
      <3>1. i + k - 1 \in 1..Len(s) /\ i + k - 1 = Len(s) - Len(b) + k
        BY <1>1
      <3> QED BY <3>1 DEF TailOf
    <2> QED BY <2>1, <2>2
  <1>4. g[1].out = ps \o g[i].out /\ g[1].rest = g[i].rest
    <2>1. /\ From(s \o <<>>)[1].out = ps \o From(s \o <<>>)[i].out
          /\ From(s \o <<>>)[1].rest = From(s \o <<>>)[i].rest
      BY <1>2 DEF Chain
    <2> QED BY <1>2, <2>1
  <1> HIDE DEF i
  <1>5. g[i].out = <<>> /\ g[i].rest = i
    <2> DEFINE m == s[i + HeaderSize - 1]
    <2>1. /\ Len(s) - i + 1 < HeaderSize => g[i].out = <<>> /\ g[i].rest = i
          /\ Len(s) - i + 1 >= HeaderSize /\ ~ImpossibleLength(m) /\ Len(s) - i + 1 < m =>
                g[i].out = <<>> /\ g[i].rest = i
      BY <1>3, PassSteps
    <2>2. Len(b) >= HeaderSize => m = b[HeaderSize]
      <3> SUFFICES ASSUME Len(b) >= HeaderSize PROVE m = b[HeaderSize]
        OBVIOUS
      <3>1. HeaderSize \in 1..Len(b)
        BY <1>1, ReassemblerConstants
      <3> QED BY <1>3, <3>1
    <2> HIDE DEF m, g
    <2> QED BY <1>3, <2>1, <2>2 DEF Waits
  <1>6. g[1].out = ps
    <2> DEFINE T == Seq(Byte)
    <2>1. ps \in Seq(T)
      OBVIOUS
    <2> HIDE DEF T, g
    <2>2. ps \o <<>> = ps
      BY <2>1, ConcatEmptySeq
    <2> QED BY <1>4, <1>5, <2>2
  <1>7. b = SubSeq(s, i, Len(s))
    <2> DEFINE q == SubSeq(s, i, Len(s))
    <2>1. \A k \in i..Len(s) : s[k] \in Byte
      BY <1>1, <1>3
    <2>2. i \in Int /\ Len(s) \in Int /\ (i <= Len(s) \/ Len(b) = 0)
      BY <1>1, <1>3
    <2>3. /\ q \in Seq(Byte) /\ Len(q) = IF i <= Len(s) THEN Len(s) - i + 1 ELSE 0
          /\ \A k \in 1..(Len(s) - i + 1) : q[k] = s[i + k - 1]
      BY <2>1, <2>2, SubSeqProperties
    <2> HIDE DEF q
    <2>4. Len(q) = Len(b)
      BY <1>1, <1>3, <2>2, <2>3
    <2>5. \A k \in 1..Len(b) : q[k] = b[k]
      BY <1>3, <2>3
    <2>6. b = q
      BY <2>3, <2>4, <2>5, SeqEqual
    <2> QED BY <2>6 DEF q
  <1>8. FramesOf(s) = g[1]
    BY PassExists
  <1> HIDE DEF g
  <1> QED BY <1>4, <1>5, <1>6, <1>7, <1>8

\* The inductive invariant: between the calls and at every turn of the loop the
\* packets so far and what the buffer will give are what one pass gives.
ChunkInv ==
    /\ ReassemblerInv
    /\ fed \in Seq(Byte)
    /\ TailOf(buffers, fed)
    /\ Chain(buffers, fed, packets)
    /\ ~feeding => Waits(buffers)

\* It holds of the empty buffer.
LEMMA ChunkInvInit == Init => ChunkInv
  <1> SUFFICES ASSUME Init, ReassemblerInv PROVE ChunkInv
    BY ReassemblerInvInit
  <1>1. buffers = <<>> /\ fed = <<>> /\ packets = <<>>
    BY DEF Init
  <1>2. fed \in Seq(Byte) /\ Len(buffers) = 0 /\ Len(fed) = 0
    BY <1>1
  <1>3. TailOf(buffers, fed)
    BY <1>2 DEF TailOf
  <1>4. Waits(buffers)
    BY <1>2, ReassemblerConstants DEF Waits
  <1>5. Chain(buffers, fed, packets)
    <2> SUFFICES ASSUME NEW e \in Seq(Byte)
                 PROVE  /\ From(fed \o e)[1].out = packets \o From(fed \o e)[Len(fed) - Len(buffers) + 1].out
                        /\ From(fed \o e)[1].rest = From(fed \o e)[Len(fed) - Len(buffers) + 1].rest
      BY DEF Chain
    <2>1. Len(fed) - Len(buffers) + 1 = 1
      BY <1>2
    <2>2. fed \o e = e
      BY <1>1, ConcatEmptySeq
    <2>3. From(e)[1].out \in Seq(Seq(Byte))
      <3>1. 1 \in 1..(Len(e) + 1)
        OBVIOUS
      <3> QED BY <3>1, PassTyped
    <2> DEFINE T == Seq(Byte)
               o == From(e)[1].out
    <2>4. o \in Seq(T)
      BY <2>3
    <2> HIDE DEF T, o
    <2>5. <<>> \o o = o
      BY <2>4, ConcatEmptySeq
    <2> QED BY <1>1, <2>1, <2>2, <2>5 DEF o
  <1> QED BY <1>2, <1>3, <1>4, <1>5 DEF ChunkInv

\* Every step keeps it.
LEMMA ChunkInvNext == ChunkInv /\ [Next]_vars => ChunkInv'
  <1> SUFFICES ASSUME ChunkInv, [Next]_vars, ReassemblerInv' PROVE ChunkInv'
    BY NextPreservesInv DEF ChunkInv
  <1>1. /\ buffers \in Seq(Byte) /\ fed \in Seq(Byte) /\ packets \in Seq(Seq(Byte))
        /\ TailOf(buffers, fed) /\ Chain(buffers, fed, packets)
        /\ ~feeding => Waits(buffers)
    BY DEF ChunkInv, ReassemblerInv, Typed
  <1>2. ASSUME NEW data \in BoundedSeq(Byte, MaxChunk), Feed(data)
        PROVE  ChunkInv'
    <2>1. data \in Seq(Byte)
      BY DEF BoundedSeq, SeqOf
    <2>2. buffers' = buffers \o data /\ fed' = fed \o data /\ packets' = packets /\ feeding'
      BY <1>2 DEF Feed
    <2>3. fed' \in Seq(Byte)
      BY <1>1, <2>1, <2>2, ConcatProperties
    <2>4. TailOf(buffers', fed')
      BY <1>1, <2>1, <2>2, FedTail
    <2>5. Chain(buffers', fed', packets')
      BY <1>1, <2>1, <2>2, ChainFeed
    <2> QED BY <2>2, <2>3, <2>4, <2>5 DEF ChunkInv
  <1>3. CASE DropByte
    <2>1. /\ buffers' = Tail(buffers) /\ fed' = fed /\ packets' = packets /\ feeding'
          /\ Len(buffers) >= HeaderSize /\ ImpossibleLength(buffers[HeaderSize])
      BY <1>3 DEF DropByte, DeclaredLength
    <2>2. Chain(buffers', fed', packets')
      BY <1>1, <2>1, ChainDrop
    <2>3. TailOf(buffers', fed')
      <3>1. 1 \in 0..Len(buffers) /\ buffers # <<>>
        BY <1>1, <2>1, ReassemblerConstants
      <3>2. TailOf(SubSeq(buffers, 1 + 1, Len(buffers)), fed)
        BY <1>1, <3>1, CutTail
      <3>3. Tail(buffers) = SubSeq(buffers, 2, Len(buffers))
        BY <1>1, <3>1, TailIsSubSeq
      <3>4. 1 + 1 = 2
        OBVIOUS
      <3> QED BY <2>1, <3>2, <3>3, <3>4, Zenon
    <2> QED BY <1>1, <2>1, <2>2, <2>3 DEF ChunkInv
  <1>4. CASE EmitPacket
    <2> DEFINE n == buffers[HeaderSize]
    <2>1. /\ buffers' = SubSeq(buffers, n + 1, Len(buffers)) /\ fed' = fed /\ feeding'
          /\ packets' = Append(packets, SubSeq(buffers, 1, n))
          /\ Len(buffers) >= HeaderSize /\ ~ImpossibleLength(n) /\ Len(buffers) >= n
      BY <1>4 DEF EmitPacket, DeclaredLength
    <2>2. n \in Nat
      <3>1. HeaderSize \in 1..Len(buffers)
        BY <1>1, <2>1, ReassemblerConstants
      <3>2. n \in Byte
        BY <1>1, <3>1
      <3> QED BY <3>2, ReassemblerConstants
    <2>3. Chain(buffers', fed', packets')
      BY <1>1, <2>1, <2>2, ChainEmit
    <2>4. TailOf(buffers', fed')
      <3>1. n \in 0..Len(buffers)
        <4> HIDE DEF n
        <4> QED BY <1>1, <2>1, <2>2
      <3> QED BY <1>1, <2>1, <3>1, CutTail
    <2> QED BY <1>1, <2>1, <2>3, <2>4 DEF ChunkInv
  <1>5. CASE Return
    <2>1. Waits(buffers) /\ fed' = fed /\ packets' = packets
      BY <1>5 DEF Return, Waits, DeclaredLength
    <2>2. buffers' = buffers
      BY <1>5, ReturnKeepsBuffer DEF ChunkInv
    <2> QED BY <1>1, <2>1, <2>2 DEF ChunkInv
  <1>6. CASE UNCHANGED vars
    <2>1. buffers' = buffers /\ fed' = fed /\ packets' = packets /\ feeding' = feeding
      BY <1>6 DEF vars
    <2> QED BY <1>1, <2>1 DEF ChunkInv
  <1> QED
    <2>1. BoundedSeq(Byte, MaxChunk) \ {<<>>} \subseteq BoundedSeq(Byte, MaxChunk)
      OBVIOUS
    <2> QED BY <1>2, <1>3, <1>4, <1>5, <1>6, <2>1 DEF Next

\* However the USB reads cut the stream, after any sequence of feed() calls the
\* packets returned and the bytes retained are those of one pass over all the
\* bytes fed.
THEOREM ChunksDoNotMatter == Spec => []ChunkingIrrelevant
  <1>1. ChunkInv => ChunkingIrrelevant
    <2> SUFFICES ASSUME ChunkInv, ~feeding
                 PROVE  /\ packets = FramesOf(fed).out
                        /\ buffers = SubSeq(fed, FramesOf(fed).rest, Len(fed))
      BY DEF ChunkingIrrelevant
    <2>1. /\ buffers \in Seq(Byte) /\ fed \in Seq(Byte) /\ packets \in Seq(Seq(Byte))
          /\ TailOf(buffers, fed) /\ Chain(buffers, fed, packets) /\ Waits(buffers)
      BY DEF ChunkInv, ReassemblerInv, Typed
    <2> QED BY <2>1, PassStops
  <1> QED BY <1>1, ChunkInvInit, ChunkInvNext, PTL DEF Spec

-----------------------------------------------------------------------------
(* MuxFrameSeq.                                                            *)

\* Quotient and remainder are named: the provers relate them in no other form.
LEMMA DivMod ==
    ASSUME NEW x \in Int, NEW m \in Nat \ {0}
    PROVE  \E q, r \in Int :
             q = x \div m /\ r = x % m /\ 0 <= r /\ r < m /\ x = m * q + r
  <1>1. \E q, r : q = x \div m /\ r = x % m
    OBVIOUS
  <1>2. PICK q, r : q = x \div m /\ r = x % m
    BY <1>1
  <1>3. x = m * q + r /\ q \in Int /\ r \in Int /\ 0 <= r /\ r < m
    BY <1>2
  <1> QED
    BY <1>2, <1>3

\* A remainder is known by its bounds.
LEMMA ModIs ==
    ASSUME NEW m \in Nat \ {0}, NEW y \in Int, NEW k \in Int, NEW r \in Int,
           0 <= r, r < m, y = m * k + r
    PROVE  y % m = r
  OBVIOUS

\* Counting modulo m and then reducing is reducing the count.
LEMMA ModNext ==
    ASSUME NEW x \in Int, NEW m \in Nat \ {0}
    PROVE  ((x % m) + 1) % m = (x + 1) % m
  <1>1. PICK q, r \in Int :
          q = x \div m /\ r = x % m /\ 0 <= r /\ r < m /\ x = m * q + r
    BY DivMod
  <1>2. CASE r + 1 < m
    <2>1. /\ x + 1 = m * q + (r + 1) /\ 0 <= r + 1 /\ r + 1 = m * 0 + (r + 1)
          /\ x + 1 \in Int /\ r + 1 \in Int
      BY <1>1, <1>2
    <2>2. (x + 1) % m = r + 1
      BY <1>2, <2>1, ModIs
    <2>3. (r + 1) % m = r + 1
      BY <1>2, <2>1, ModIs
    <2> QED
      BY <1>1, <2>2, <2>3
  <1>3. CASE r + 1 = m
    <2>1. /\ x + 1 = m * (q + 1) /\ r + 1 = m * 1
          /\ x + 1 \in Int /\ r + 1 \in Int /\ q + 1 \in Int
      BY <1>1, <1>3
    <2>2. \A y, k \in Int : y = m * k => y % m = 0
      OBVIOUS
    <2>3. (x + 1) % m = 0
      BY <2>1, <2>2
    <2>4. (r + 1) % m = 0
      BY <2>1, <2>2
    <2> QED
      BY <1>1, <2>3, <2>4
  <1> QED
    BY <1>1, <1>2, <1>3

\* Handlers whose numbered SYN is not sent yet.
Waiting == {h \in Handler : syn[h] = "built" /\ synFrame[h] # V1}
Total == Len(wire) + gaps
TaskUnsent == IF task = "ack" /\ taskSeq # V1 THEN 1 ELSE 0

\* Types of the device task, the handlers and the counters.
FrameTyped ==
    /\ version \in {1, 2} /\ txSeq \in Seqs
    /\ task \in {"hello", "setup", "idle", "ack", "data", "bump"}
    /\ taskSeq \in IF task = "setup" THEN {1, 2} ELSE Seqs \cup {V1}
    /\ syn \in [Handler -> {"ready", "built", "done"}]
    /\ synFrame \in [Handler -> Seqs \cup {V1}]
    /\ wire \in Seq(Seqs) /\ gaps \in Nat

\* Until the version is adopted every SYN is in v1 framing and only the SETUP
\* frame may have been numbered.
Handshake ==
    task \in {"hello", "setup"} =>
        /\ version = 1
        /\ \A h \in Handler : synFrame[h] = V1
        /\ Total = IF task = "setup" /\ taskSeq = 2 THEN 1 ELSE 0

\* A frame the task builds after that carries a number.
Numbered == version = 2 /\ task \in {"ack", "data"} => taskSeq # V1

\* The inductive invariant.
FrameSeqInv == FrameTyped /\ Handshake /\ Numbered /\ EveryFrameCounted

\* The counts are numbers, and V1 is no number of a frame.
LEMMA FrameCounts ==
    ASSUME FrameTyped
    PROVE  /\ Total \in Nat /\ TaskUnsent \in 0..1 /\ Uncounted \in 0..1
           /\ IsFiniteSet(Waiting) /\ Cardinality(Waiting) \in Nat
           /\ Unsent = Cardinality(Waiting) + TaskUnsent
           /\ V1 \notin Seqs /\ 0 \in Seqs /\ 1 \in Seqs /\ SeqModulus \in Nat \ {0}
  <1>1. IsFiniteSet(Waiting) /\ Cardinality(Waiting) \in Nat
    <2>1. Waiting \subseteq Handler
      BY DEF Waiting
    <2> QED
      BY <2>1, FrameConstants, FS_Subset, FS_CardinalityType
  <1>2. Total \in Nat
    BY DEF FrameTyped, Total
  <1> QED
    BY <1>1, <1>2, FrameConstants DEF TaskUnsent, Uncounted, Unsent, Waiting, V1, Seqs

\* The shape EveryFrameCounted has in the steps.
Counted ==
    version = 2 =>
        txSeq = (Total + Cardinality(Waiting) + TaskUnsent - Uncounted) % SeqModulus

\* The two are the same in every typed state.
LEMMA CountedForm == FrameTyped => (EveryFrameCounted <=> Counted)
  <1> SUFFICES ASSUME FrameTyped PROVE EveryFrameCounted <=> Counted
    OBVIOUS
  <1>1. Len(wire) \in Int /\ gaps \in Int
    BY DEF FrameTyped
  <1>2. Len(wire) + gaps + Unsent - Uncounted
            = Total + Cardinality(Waiting) + TaskUnsent - Uncounted
    BY <1>1, FrameCounts DEF Total
  <1> QED
    BY <1>2 DEF EveryFrameCounted, Counted

\* And so in the next one.
LEMMA CountedNext == FrameTyped' /\ Counted' => EveryFrameCounted'
  BY CountedForm, PTL

\* A frame that is counted in any case adds one to the frames on the wire and
\* the gaps together, and an unnumbered one nothing.
LEMMA SentCounted ==
    ASSUME FrameTyped, NEW n \in Seqs \cup {V1}, NEW pkts, NEW ok \in BOOLEAN,
           Sent(n, pkts, TRUE, ok)
    PROVE  /\ wire' \in Seq(Seqs) /\ gaps' \in Nat
           /\ Total' = IF n = V1 THEN Total ELSE Total + 1
  <1>1. CASE n = V1
    BY <1>1 DEF Sent, FrameTyped, Total
  <1>2. CASE n # V1 /\ ok
    BY <1>2 DEF Sent, FrameTyped, Total
  <1>3. CASE n # V1 /\ ~ok
    BY <1>3 DEF Sent, FrameTyped, Total
  <1> QED
    BY <1>1, <1>2, <1>3

\* A data frame adds one when it is sent and nothing when it is not.
LEMMA SentUncounted ==
    ASSUME FrameTyped, NEW n \in Seqs \cup {V1}, NEW pkts, NEW ok \in BOOLEAN,
           Sent(n, pkts, FALSE, ok)
    PROVE  /\ wire' \in Seq(Seqs) /\ gaps' \in Nat
           /\ Total' = IF ok /\ n # V1 THEN Total + 1 ELSE Total
  <1>1. CASE n # V1 /\ ok
    BY <1>1 DEF Sent, FrameTyped, Total
  <1>2. CASE ~(n # V1 /\ ok)
    BY <1>2 DEF Sent, FrameTyped, Total
  <1> QED
    BY <1>1, <1>2

\* The device task's handshake.
LEMMA HandshakeKeepsInv ==
    ASSUME FrameSeqInv, ReceiveVersion \/ AdoptVersion
    PROVE  FrameSeqInv'
  <1>0. FrameTyped /\ Handshake
    BY DEF FrameSeqInv
  <1>1. CASE ReceiveVersion
    <2>1. /\ task = "hello" /\ task' = "setup" /\ version = 1 /\ Total = 0
          /\ \A h \in Handler : synFrame[h] = V1
          /\ UNCHANGED <<version, txSeq, syn, synFrame, frames>>
      BY <1>0, <1>1 DEF ReceiveVersion, Handshake
    <2>2. /\ wire' \in Seq(Seqs) /\ gaps' \in Nat /\ taskSeq' \in {1, 2}
          /\ Total' = IF taskSeq' = 2 THEN 1 ELSE 0
      <3>1. CASE taskSeq' = 1 /\ UNCHANGED <<wire, gaps, last>>
        BY <1>0, <2>1, <3>1 DEF FrameTyped, Total
      <3>2. ASSUME NEW ok \in BOOLEAN, taskSeq' = 2, Sent(0, {Setup}, TRUE, ok)
            PROVE  /\ wire' \in Seq(Seqs) /\ gaps' \in Nat /\ taskSeq' = 2 /\ Total' = 1
        <4>1. 0 \in Seqs \cup {V1} /\ 0 # V1
          BY <1>0, FrameCounts
        <4> HIDE DEF Setup
        <4>2. wire' \in Seq(Seqs) /\ gaps' \in Nat /\ Total' = IF 0 = V1 THEN Total ELSE Total + 1
          BY <1>0, <3>2, <4>1, SentCounted
        <4> QED
          BY <2>1, <3>2, <4>1, <4>2
      <3> QED
        BY <1>1, <3>1, <3>2 DEF ReceiveVersion, SendResults
    <2>3. FrameTyped'
      BY <1>0, <2>1, <2>2 DEF FrameTyped, Seqs, V1
    <2>4. Handshake'
      BY <2>1, <2>2 DEF Handshake
    <2>5. Numbered' /\ EveryFrameCounted'
      BY <2>1 DEF Numbered, EveryFrameCounted
    <2> QED
      BY <2>3, <2>4, <2>5 DEF FrameSeqInv
  <1>2. CASE AdoptVersion
    <2>1. /\ task = "setup" /\ task' = "idle" /\ version' = taskSeq /\ taskSeq \in {1, 2}
          /\ txSeq' = 1 /\ taskSeq' = V1
          /\ taskSeq = 2 => Total = 1
          /\ \A h \in Handler : synFrame[h] = V1
          /\ UNCHANGED <<syn, synFrame, wire, gaps>>
      BY <1>0, <1>2 DEF AdoptVersion, Handshake, FrameTyped
    <2>2. FrameTyped'
      BY <1>0, <2>1, FrameCounts DEF FrameTyped, Seqs, V1
    <2>3. Handshake' /\ Numbered'
      BY <2>1 DEF Handshake, Numbered
    <2>4. Waiting' = {} /\ TaskUnsent' = 0 /\ Uncounted' = 0 /\ Total' = Total
      BY <2>1 DEF Waiting, TaskUnsent, Uncounted, Total, V1
    <2>5. Cardinality(Waiting') = 0
      BY <2>4, FS_EmptySet
    <2>6. Counted'
      <3>1. 1 % SeqModulus = 1
        BY FrameConstants
      <3> QED
        BY <2>1, <2>4, <2>5, <3>1 DEF Counted
    <2>7. EveryFrameCounted'
      BY <2>2, <2>6, CountedNext
    <2> QED
      BY <2>2, <2>3, <2>7 DEF FrameSeqInv
  <1> QED
    BY <1>1, <1>2

\* Inc() counts one frame more.
LEMMA IncCounts ==
    ASSUME FrameTyped, Counted, version = 2
    PROVE  /\ Total + Cardinality(Waiting) + TaskUnsent - Uncounted \in Int
           /\ Inc(txSeq) = (Total + Cardinality(Waiting) + TaskUnsent - Uncounted + 1) % SeqModulus
  <1> DEFINE x == Total + Cardinality(Waiting) + TaskUnsent - Uncounted
  <1>1. x \in Int /\ SeqModulus \in Nat \ {0}
    BY FrameCounts
  <1>2. txSeq = x % SeqModulus
    BY DEF Counted
  <1> HIDE DEF x
  <1>3. Inc(txSeq) = (x + 1) % SeqModulus
    BY <1>1, <1>2, ModNext DEF Inc
  <1> QED
    BY <1>1, <1>3 DEF x

\* Inc() stays below SeqModulus.
LEMMA IncTyped == FrameTyped => Inc(txSeq) \in Seqs
  BY FrameConstants DEF FrameTyped, Inc, Seqs

\* What the steps after the handshake keep when they leave the handlers alone.
LEMMA TaskStep ==
    ASSUME FrameSeqInv, task \notin {"hello", "setup"}, task' \in {"idle", "ack", "data", "bump"},
           taskSeq' \in Seqs \cup {V1}, txSeq' \in Seqs,
           wire' \in Seq(Seqs), gaps' \in Nat, UNCHANGED <<version, syn, synFrame>>
    PROVE  FrameTyped' /\ Handshake' /\ Cardinality(Waiting') = Cardinality(Waiting)
  <1>1. Waiting' = Waiting
    BY DEF Waiting, V1
  <1> QED
    BY <1>1 DEF FrameSeqInv, FrameTyped, Handshake, Seqs, V1

\* The device task's ACK is built and counted in one step and sent in another.
LEMMA AckKeepsInv ==
    ASSUME FrameSeqInv, BuildAck \/ SendAck
    PROVE  FrameSeqInv'
  <1>0. FrameTyped /\ Counted /\ Numbered
    BY CountedForm DEF FrameSeqInv
  <1>1. CASE BuildAck
    <2>1. /\ task = "idle" /\ task' = "ack" /\ taskSeq' = FrameNumber /\ txSeq' = Inc(txSeq)
          /\ UNCHANGED <<version, syn, synFrame, wire, gaps>>
      BY <1>1 DEF BuildAck
    <2>2. /\ taskSeq' \in Seqs \cup {V1} /\ txSeq' \in Seqs
          /\ version = 2 => taskSeq' # V1
      BY <1>0, <2>1, IncTyped, FrameCounts DEF FrameNumber, FrameTyped
    <2>3. FrameTyped' /\ Handshake' /\ Cardinality(Waiting') = Cardinality(Waiting)
      BY <1>0, <2>1, <2>2, TaskStep DEF FrameTyped
    <2>4. Numbered'
      BY <2>1, <2>2 DEF Numbered, V1
    <2>5. Counted'
      <3> SUFFICES ASSUME version = 2
                   PROVE  txSeq' = (Total' + Cardinality(Waiting') + TaskUnsent' - Uncounted') % SeqModulus
        BY <2>1 DEF Counted
      <3>1. Total' = Total /\ TaskUnsent = 0 /\ TaskUnsent' = 1 /\ Uncounted = 0 /\ Uncounted' = 0
        BY <2>1, <2>2 DEF Total, TaskUnsent, Uncounted, V1
      <3>2. Total + Cardinality(Waiting) + 1 - 0 = Total + Cardinality(Waiting) + 0 - 0 + 1
        BY <1>0, FrameCounts
      <3> QED
        BY <1>0, <2>1, <2>3, <3>1, <3>2, IncCounts
    <2> QED
      BY <2>3, <2>4, <2>5, CountedNext DEF FrameSeqInv
  <1>2. CASE SendAck
    <2>1. /\ task = "ack" /\ task' = "idle" /\ taskSeq' = V1 /\ taskSeq \in Seqs \cup {V1}
          /\ UNCHANGED <<version, txSeq, syn, synFrame>>
      BY <1>0, <1>2 DEF SendAck, FrameTyped
    <2>2. PICK ok \in BOOLEAN : Sent(taskSeq, Acks, TRUE, ok)
      BY <1>2 DEF SendAck, SendResults
    <2> HIDE DEF Acks
    <2>3. /\ wire' \in Seq(Seqs) /\ gaps' \in Nat
          /\ Total' = IF taskSeq = V1 THEN Total ELSE Total + 1
      BY <1>0, <2>1, <2>2, SentCounted
    <2>4. FrameTyped' /\ Handshake' /\ Cardinality(Waiting') = Cardinality(Waiting)
      BY <1>0, <2>1, <2>3, TaskStep DEF FrameTyped
    <2>5. Numbered'
      BY <2>1 DEF Numbered
    <2>6. Counted'
      <3> SUFFICES ASSUME version = 2
                   PROVE  txSeq' = (Total' + Cardinality(Waiting') + TaskUnsent' - Uncounted') % SeqModulus
        BY <2>1 DEF Counted
      <3>1. /\ Total' = Total + 1 /\ TaskUnsent = 1 /\ TaskUnsent' = 0
            /\ Uncounted = 0 /\ Uncounted' = 0
        BY <1>0, <2>1, <2>3 DEF Numbered, TaskUnsent, Uncounted
      <3>2. Total + 1 + Cardinality(Waiting) + 0 - 0 = Total + Cardinality(Waiting) + 1 - 0
        BY <1>0, FrameCounts
      <3> QED
        BY <1>0, <2>1, <2>4, <3>1, <3>2 DEF Counted
    <2> QED
      BY <2>4, <2>5, <2>6, CountedNext DEF FrameSeqInv
  <1> QED
    BY <1>1, <1>2

\* A data frame takes the number when it is built and counts it when it is sent.
LEMMA DataKeepsInv ==
    ASSUME FrameSeqInv, BuildData \/ SendData \/ BumpData
    PROVE  FrameSeqInv'
  <1>0. FrameTyped /\ Counted /\ Numbered
    BY CountedForm DEF FrameSeqInv
  <1>1. CASE BuildData
    <2>1. /\ task = "idle" /\ task' = "data" /\ taskSeq' = FrameNumber
          /\ UNCHANGED <<version, txSeq, syn, synFrame, wire, gaps>>
      BY <1>1 DEF BuildData
    <2>2. taskSeq' \in Seqs \cup {V1} /\ (version = 2 => taskSeq' # V1)
      BY <1>0, <2>1, FrameCounts DEF FrameNumber, FrameTyped
    <2>3. FrameTyped' /\ Handshake' /\ Cardinality(Waiting') = Cardinality(Waiting)
      BY <1>0, <2>1, <2>2, TaskStep DEF FrameTyped
    <2>4. Numbered'
      BY <2>1, <2>2 DEF Numbered, V1
    <2>5. Total' = Total /\ TaskUnsent' = TaskUnsent /\ Uncounted' = Uncounted
      BY <2>1 DEF Total, TaskUnsent, Uncounted
    <2>6. Counted'
      BY <1>0, <2>1, <2>3, <2>5 DEF Counted
    <2> QED
      BY <2>3, <2>4, <2>6, CountedNext DEF FrameSeqInv
  <1>2. CASE SendData
    <2>1. /\ task = "data" /\ taskSeq' = V1 /\ taskSeq \in Seqs \cup {V1}
          /\ UNCHANGED <<version, txSeq, syn, synFrame>>
      BY <1>0, <1>2 DEF SendData, FrameTyped
    <2>2. PICK ok \in BOOLEAN : /\ Sent(taskSeq, Datas, FALSE, ok)
                                /\ task' = IF ok THEN "bump" ELSE "idle"
      BY <1>2 DEF SendData, SendResults
    <2> HIDE DEF Datas
    <2>3. /\ wire' \in Seq(Seqs) /\ gaps' \in Nat
          /\ Total' = IF ok /\ taskSeq # V1 THEN Total + 1 ELSE Total
      BY <1>0, <2>1, <2>2, SentUncounted
    <2>4. FrameTyped' /\ Handshake' /\ Cardinality(Waiting') = Cardinality(Waiting)
      BY <1>0, <2>1, <2>2, <2>3, TaskStep DEF FrameTyped
    <2>5. Numbered'
      BY <2>1, <2>2 DEF Numbered
    <2>6. Counted'
      <3> SUFFICES ASSUME version = 2
                   PROVE  txSeq' = (Total' + Cardinality(Waiting') + TaskUnsent' - Uncounted') % SeqModulus
        BY <2>1 DEF Counted
      <3>1. TaskUnsent = 0 /\ TaskUnsent' = 0 /\ Uncounted = 0 /\ taskSeq # V1
        BY <1>0, <2>1, <2>2 DEF Numbered, TaskUnsent, Uncounted
      <3>2. CASE ok
        <4>1. Total' = Total + 1 /\ Uncounted' = 1
          BY <2>1, <2>2, <2>3, <3>1, <3>2 DEF Uncounted
        <4>2. Total + 1 + Cardinality(Waiting) + 0 - 1 = Total + Cardinality(Waiting) + 0 - 0
          BY <1>0, FrameCounts
        <4> QED
          BY <1>0, <2>1, <2>4, <3>1, <4>1, <4>2 DEF Counted
      <3>3. CASE ~ok
        <4>1. Total' = Total /\ Uncounted' = 0
          BY <2>1, <2>2, <2>3, <3>3 DEF Uncounted
        <4> QED
          BY <1>0, <2>1, <2>4, <3>1, <4>1 DEF Counted
      <3> QED
        BY <3>2, <3>3
    <2> QED
      BY <2>4, <2>5, <2>6, CountedNext DEF FrameSeqInv
  <1>3. CASE BumpData
    <2>1. /\ task = "bump" /\ task' = "idle" /\ txSeq' = Inc(txSeq) /\ taskSeq \in Seqs \cup {V1}
          /\ UNCHANGED <<version, taskSeq, syn, synFrame, wire, gaps>>
      BY <1>0, <1>3 DEF BumpData, FrameTyped
    <2>2. FrameTyped' /\ Handshake' /\ Cardinality(Waiting') = Cardinality(Waiting)
      BY <1>0, <2>1, TaskStep, IncTyped DEF FrameTyped
    <2>3. Numbered'
      BY <2>1 DEF Numbered
    <2>4. Counted'
      <3> SUFFICES ASSUME version = 2
                   PROVE  txSeq' = (Total' + Cardinality(Waiting') + TaskUnsent' - Uncounted') % SeqModulus
        BY <2>1 DEF Counted
      <3>1. Total' = Total /\ TaskUnsent = 0 /\ TaskUnsent' = 0 /\ Uncounted = 1 /\ Uncounted' = 0
        BY <2>1 DEF Total, TaskUnsent, Uncounted
      <3>2. Total + Cardinality(Waiting) + 0 - 0 = Total + Cardinality(Waiting) + 0 - 1 + 1
        BY <1>0, FrameCounts
      <3> QED
        BY <1>0, <2>1, <2>2, <3>1, <3>2, IncCounts
    <2> QED
      BY <2>2, <2>3, <2>4, CountedNext DEF FrameSeqInv
  <1> QED
    BY <1>1, <1>2, <1>3

\* A handler's SYN is numbered and counted in one step, unless it is built before
\* the version is known, and sent in another.
LEMMA SynKeepsInv ==
    ASSUME FrameSeqInv, NEW h \in Handler, BuildSyn(h) \/ SendSyn(h)
    PROVE  FrameSeqInv'
  <1>0. FrameTyped /\ Counted /\ Numbered /\ Handshake
    BY CountedForm DEF FrameSeqInv
  <1>1. CASE BuildSyn(h)
    <2>1. /\ syn[h] = "ready" /\ synFrame' = [synFrame EXCEPT ![h] = FrameNumber]
          /\ txSeq' = IF version = 2 THEN Inc(txSeq) ELSE txSeq
          /\ syn' = [syn EXCEPT ![h] = "built"]
          /\ UNCHANGED <<version, task, taskSeq, wire, gaps>>
      BY <1>0, <1>1 DEF BuildSyn, FrameTyped
    <2>2. FrameNumber = IF version = 2 THEN txSeq ELSE V1
      BY <1>0 DEF FrameNumber, FrameTyped
    <2>3. FrameTyped'
      BY <1>0, <2>1, <2>2, IncTyped DEF FrameTyped, Seqs, V1
    <2>4. Handshake'
      BY <1>0, <2>1, <2>2 DEF Handshake, Total, V1, FrameTyped
    <2>5. Numbered'
      BY <1>0, <2>1 DEF Numbered, V1
    <2>6. Counted'
      <3> SUFFICES ASSUME version = 2
                   PROVE  txSeq' = (Total' + Cardinality(Waiting') + TaskUnsent' - Uncounted') % SeqModulus
        BY <2>1 DEF Counted
      <3>1. Total' = Total /\ TaskUnsent' = TaskUnsent /\ Uncounted' = Uncounted
        BY <2>1 DEF Total, TaskUnsent, Uncounted, V1
      <3>2. h \notin Waiting /\ Waiting' = Waiting \cup {h}
        BY <1>0, <2>1, <2>2, FrameCounts DEF Waiting, V1, FrameTyped
      <3>3. Cardinality(Waiting') = Cardinality(Waiting) + 1
        BY <1>0, <3>2, FrameCounts, FS_AddElement
      <3>4. Total + (Cardinality(Waiting) + 1) + TaskUnsent - Uncounted
              = Total + Cardinality(Waiting) + TaskUnsent - Uncounted + 1
        BY <1>0, FrameCounts
      <3> QED
        BY <1>0, <2>1, <3>1, <3>3, <3>4, IncCounts
    <2> QED
      BY <2>3, <2>4, <2>5, <2>6, CountedNext DEF FrameSeqInv
  <1>2. CASE SendSyn(h)
    <2>1. /\ syn[h] = "built" /\ syn' = [syn EXCEPT ![h] = "done"] /\ synFrame[h] \in Seqs \cup {V1}
          /\ UNCHANGED <<version, txSeq, task, taskSeq, synFrame>>
      BY <1>0, <1>2 DEF SendSyn, FrameTyped
    <2>2. PICK ok \in BOOLEAN : Sent(synFrame[h], Syns, TRUE, ok)
      BY <1>2 DEF SendSyn, SendResults
    <2> HIDE DEF Syns
    <2>3. /\ wire' \in Seq(Seqs) /\ gaps' \in Nat
          /\ Total' = IF synFrame[h] = V1 THEN Total ELSE Total + 1
      BY <1>0, <2>1, <2>2, SentCounted
    <2>4. FrameTyped'
      BY <1>0, <2>1, <2>3 DEF FrameTyped, Seqs, V1
    <2>5. Handshake'
      BY <1>0, <2>1, <2>3 DEF Handshake, V1
    <2>6. Numbered'
      BY <1>0, <2>1 DEF Numbered, V1
    <2>7. Counted'
      <3> SUFFICES ASSUME version = 2
                   PROVE  txSeq' = (Total' + Cardinality(Waiting') + TaskUnsent' - Uncounted') % SeqModulus
        BY <2>1 DEF Counted
      <3>1. TaskUnsent' = TaskUnsent /\ Uncounted' = Uncounted
        BY <2>1 DEF TaskUnsent, Uncounted, V1
      <3>2. CASE synFrame[h] = V1
        <4>1. Waiting' = Waiting /\ Total' = Total
          BY <1>0, <2>1, <2>3, <3>2 DEF Waiting, V1, FrameTyped
        <4> QED
          BY <1>0, <2>1, <3>1, <4>1 DEF Counted
      <3>3. CASE synFrame[h] # V1
        <4>1. h \in Waiting /\ Waiting' = Waiting \ {h} /\ Total' = Total + 1
          BY <1>0, <2>1, <2>3, <3>3 DEF Waiting, V1, FrameTyped
        <4>2. Cardinality(Waiting') = Cardinality(Waiting) - 1
          BY <1>0, <4>1, FrameCounts, FS_RemoveElement
        <4>3. Total + 1 + (Cardinality(Waiting) - 1) + TaskUnsent - Uncounted
                = Total + Cardinality(Waiting) + TaskUnsent - Uncounted
          BY <1>0, FrameCounts
        <4> QED
          BY <1>0, <2>1, <3>1, <4>1, <4>2, <4>3 DEF Counted
      <3> QED
        BY <3>2, <3>3
    <2> QED
      BY <2>4, <2>5, <2>6, <2>7, CountedNext DEF FrameSeqInv
  <1> QED
    BY <1>1, <1>2

\* The invariant holds at the start and every step keeps it.
LEMMA FrameSeqInvInductive ==
    /\ FrameInit => FrameSeqInv
    /\ FrameSeqInv /\ [FrameNext]_frameVars => FrameSeqInv'
  <1>1. FrameInit => FrameSeqInv
    <2> SUFFICES ASSUME FrameInit PROVE FrameSeqInv
      OBVIOUS
    <2>1. wire \in Seq(Seqs) /\ Len(wire) = 0
      BY DEF FrameInit
    <2>2. FrameTyped
      BY <2>1, FrameConstants DEF FrameInit, FrameTyped, Seqs, V1
    <2>3. Handshake /\ Numbered /\ EveryFrameCounted
      BY <2>1 DEF FrameInit, Handshake, Numbered, EveryFrameCounted, Total
    <2> QED
      BY <2>2, <2>3 DEF FrameSeqInv
  <1>2. FrameSeqInv /\ UNCHANGED frameVars => FrameSeqInv'
    BY DEF frameVars, FrameSeqInv, FrameTyped, Handshake, Numbered, EveryFrameCounted, Unsent,
       Uncounted, Total, V1, Seqs
  <1> QED
    BY <1>1, <1>2, HandshakeKeepsInv, AckKeepsInv, DataKeepsInv, SynKeepsInv DEF FrameNext

\* However the device task and any number of handlers interleave and whichever
\* sends fail, tx_seq counts every v2 frame once, for every width of the counter.
THEOREM FramesCounted == FrameSpec => []EveryFrameCounted
  <1>1. FrameSeqInv => EveryFrameCounted
    BY DEF FrameSeqInv
  <1> QED
    BY <1>1, FrameSeqInvInductive, PTL DEF FrameSpec

-----------------------------------------------------------------------------
(* MuxWire.                                                                *)

Octet == {n \in Nat : n < 256}
U16 == {n \in Nat : n < 65536}
U32 == U16 \X U16

\* A segment as build_tcp_packet is given it, in a frame of at most 2^16 - 1 bytes.
Segment ==
    [kind : {"tcp"}, sport : U16, dport : U16, seq : U32, ack : U32, offset : {0},
     flags : Octet, window : U16,
     data : {d \in Seq(Octet) : Len(d) + 36 <= 65535}]

\* What a parser reads of the first string of two, and of the second.
LEMMA ReadFirst ==
    ASSUME NEW T, NEW s \in Seq(T), NEW t \in Seq(T), NEW i \in 1..Len(s)
    PROVE  /\ i + 1 <= Len(s) => N16(s \o t, i) = N16(s, i)
           /\ i + 3 <= Len(s) => N32(s \o t, i) = N32(s, i)
  <1>1. \A j \in 1..Len(s) : (s \o t)[j] = s[j]
    OBVIOUS
  <1>2. i + 1 <= Len(s) => N16(s \o t, i) = N16(s, i)
    BY <1>1 DEF N16
  <1>3. i + 3 <= Len(s) => N32(s \o t, i) = N32(s, i)
    <2> SUFFICES ASSUME i + 3 <= Len(s) PROVE N32(s \o t, i) = N32(s, i)
      OBVIOUS
    <2>1. i + 1 \in 1..Len(s) /\ i + 2 \in 1..Len(s) /\ i + 2 + 1 \in 1..Len(s)
      OBVIOUS
    <2> QED
      BY <1>1, <2>1 DEF N32, N16
  <1> QED
    BY <1>2, <1>3

\* The second string begins after the first.
LEMMA ReadSecond ==
    ASSUME NEW T, NEW s \in Seq(T), NEW t \in Seq(T), NEW i \in 1..Len(t),
           NEW k \in Nat, k = Len(s) + i
    PROVE  /\ (s \o t)[k] = t[i]
           /\ i + 1 <= Len(t) => N16(s \o t, k) = N16(t, i)
           /\ i + 3 <= Len(t) => N32(s \o t, k) = N32(t, i)
  <1>1. \A j \in 1..Len(t) : (s \o t)[Len(s) + j] = t[j]
    OBVIOUS
  <1>2. i + 1 <= Len(t) => N16(s \o t, k) = N16(t, i)
    <2> SUFFICES ASSUME i + 1 <= Len(t) PROVE N16(s \o t, k) = N16(t, i)
      OBVIOUS
    <2>1. i + 1 \in 1..Len(t) /\ k + 1 = Len(s) + (i + 1)
      OBVIOUS
    <2> QED
      BY <1>1, <2>1 DEF N16
  <1>3. i + 3 <= Len(t) => N32(s \o t, k) = N32(t, i)
    <2> SUFFICES ASSUME i + 3 <= Len(t) PROVE N32(s \o t, k) = N32(t, i)
      OBVIOUS
    <2>1. /\ i + 1 \in 1..Len(t) /\ k + 1 = Len(s) + (i + 1)
          /\ i + 2 \in 1..Len(t) /\ k + 2 = Len(s) + (i + 2)
          /\ i + 2 + 1 \in 1..Len(t) /\ k + 2 + 1 = Len(s) + (i + 2 + 1)
      OBVIOUS
    <2> QED
      BY <1>1, <2>1 DEF N32, N16
  <1> QED
    BY <1>1, <1>2, <1>3

\* to_be_bytes and from_be_bytes of a u16 are inverse.
LEMMA Halves ==
    ASSUME NEW n \in U16
    PROVE  B16(n) \in Seq(Octet) /\ Len(B16(n)) = 2 /\ N16(B16(n), 1) = n
  <1>0. n \in Int /\ 0 <= n /\ n < 65536
    BY DEF U16
  <1>1. PICK q, r \in Int :
          q = n \div 256 /\ r = n % 256 /\ 0 <= r /\ r < 256 /\ n = 256 * q + r
    <2>1. 256 \in Nat \ {0}
      OBVIOUS
    <2> QED
      BY <1>0, <2>1, DivMod
  <1>2. q \in Octet /\ r \in Octet
    <2>1. 0 <= q /\ q < 256
      BY <1>0, <1>1
    <2> QED
      BY <1>1, <2>1 DEF Octet
  <1>3. B16(n) = <<q, r>>
    BY <1>1 DEF B16
  <1>4. <<q, r>> \in Seq(Octet) /\ Len(<<q, r>>) = 2 /\ <<q, r>>[1] = q /\ <<q, r>>[2] = r
    BY <1>2
  <1>5. N16(<<q, r>>, 1) = n
    BY <1>1, <1>4 DEF N16
  <1> QED
    BY <1>3, <1>4, <1>5

\* And of a u32.
LEMMA Words ==
    ASSUME NEW w \in U32
    PROVE  B32(w) \in Seq(Octet) /\ Len(B32(w)) = 4 /\ N32(B32(w), 1) = w
  <1>1. w[1] \in U16 /\ w[2] \in U16 /\ w = <<w[1], w[2]>>
    BY DEF U32
  <1> DEFINE s == B16(w[1])
             t == B16(w[2])
  <1>2. s \in Seq(Octet) /\ Len(s) = 2 /\ N16(s, 1) = w[1]
    BY <1>1, Halves
  <1>3. t \in Seq(Octet) /\ Len(t) = 2 /\ N16(t, 1) = w[2]
    BY <1>1, Halves
  <1>4. B32(w) = s \o t
    BY DEF B32
  <1> HIDE DEF s, t
  <1>5. s \o t \in Seq(Octet) /\ Len(s \o t) = 4
    <2>1. s \o t \in Seq(Octet) /\ Len(s \o t) = Len(s) + Len(t)
      <3>1. s \in Seq(Octet) /\ t \in Seq(Octet)
        BY <1>2, <1>3
      <3> QED
        BY <3>1, ConcatProperties
    <2> QED
      BY <1>2, <1>3, <2>1
  <1>6. N16(s \o t, 1) = w[1]
    <2>1. 1 \in 1..Len(s) /\ 1 + 1 <= Len(s)
      BY <1>2
    <2> QED
      BY <1>2, <1>3, <2>1, ReadFirst
  <1>7. N16(s \o t, 3) = w[2]
    <2>1. 1 \in 1..Len(t) /\ 1 + 1 <= Len(t) /\ 3 = Len(s) + 1
      BY <1>2, <1>3
    <2>2. s \in Seq(Octet) /\ t \in Seq(Octet) /\ 3 \in Nat
      BY <1>2, <1>3
    <2>3. N16(s \o t, 3) = N16(t, 1)
      BY <2>1, <2>2, ReadSecond
    <2> QED
      BY <1>3, <2>3
  <1> QED
    BY <1>1, <1>4, <1>5, <1>6, <1>7 DEF N32

\* Two byte strings.
LEMMA Join ==
    ASSUME NEW s \in Seq(Octet), NEW t \in Seq(Octet)
    PROVE  s \o t \in Seq(Octet) /\ Len(s \o t) = Len(s) + Len(t)
  BY ConcatProperties

\* What a byte string reads as is kept when more is put behind it.
Keeps(r, s, k) ==
    /\ \A i \in 1..k : i + 1 <= k => N16(r, i) = N16(s, i)
    /\ \A i \in 1..k : i + 3 <= k => N32(r, i) = N32(s, i)

\* A field of two bytes is read back at its place.
LEMMA Put16 ==
    ASSUME NEW s \in Seq(Octet), NEW n \in U16, NEW k \in Nat, k = Len(s)
    PROVE  /\ s \o B16(n) \in Seq(Octet) /\ Len(s \o B16(n)) = k + 2
           /\ N16(s \o B16(n), k + 1) = n
           /\ Keeps(s \o B16(n), s, k)
  <1> DEFINE t == B16(n)
  <1>1. t \in Seq(Octet) /\ Len(t) = 2 /\ N16(t, 1) = n
    BY Halves
  <1> HIDE DEF t
  <1>2. s \o t \in Seq(Octet) /\ Len(s \o t) = k + 2
    BY <1>1, Join
  <1>3. N16(s \o t, k + 1) = n
    <2>1. 1 \in 1..Len(t) /\ 1 + 1 <= Len(t) /\ k + 1 \in Nat /\ k + 1 = Len(s) + 1
      BY <1>1
    <2>2. t \in Seq(Octet)
      BY <1>1
    <2>3. N16(s \o t, k + 1) = N16(t, 1)
      BY <2>1, <2>2, ReadSecond
    <2> QED
      BY <1>1, <2>3
  <1>4. Keeps(s \o t, s, k)
    BY <1>1, ReadFirst DEF Keeps
  <1> QED
    BY <1>2, <1>3, <1>4 DEF t

\* And one of four.
LEMMA Put32 ==
    ASSUME NEW s \in Seq(Octet), NEW w \in U32, NEW k \in Nat, k = Len(s)
    PROVE  /\ s \o B32(w) \in Seq(Octet) /\ Len(s \o B32(w)) = k + 4
           /\ N32(s \o B32(w), k + 1) = w
           /\ Keeps(s \o B32(w), s, k)
  <1> DEFINE t == B32(w)
  <1>1. t \in Seq(Octet) /\ Len(t) = 4 /\ N32(t, 1) = w
    BY Words
  <1> HIDE DEF t
  <1>2. s \o t \in Seq(Octet) /\ Len(s \o t) = k + 4
    BY <1>1, Join
  <1>3. N32(s \o t, k + 1) = w
    <2>1. 1 \in 1..Len(t) /\ 1 + 3 <= Len(t) /\ k + 1 \in Nat /\ k + 1 = Len(s) + 1
      BY <1>1
    <2>2. t \in Seq(Octet)
      BY <1>1
    <2>3. N32(s \o t, k + 1) = N32(t, 1)
      BY <2>1, <2>2, ReadSecond
    <2> QED
      BY <1>1, <2>3
  <1>4. Keeps(s \o t, s, k)
    BY <1>1, ReadFirst DEF Keeps
  <1> QED
    BY <1>2, <1>3, <1>4 DEF t

\* What is put last is the rest of the string.
LEMMA PutLast ==
    ASSUME NEW s \in Seq(Octet), NEW d \in Seq(Octet), NEW k \in Nat, k = Len(s)
    PROVE  /\ s \o d \in Seq(Octet) /\ Len(s \o d) = k + Len(d)
           /\ SubSeq(s \o d, k + 1, Len(s \o d)) = d
           /\ Keeps(s \o d, s, k)
  <1> DEFINE r == s \o d
             u == SubSeq(r, k + 1, Len(r))
  <1>1. r \in Seq(Octet) /\ Len(r) = k + Len(d)
    BY Join
  <1>2. \A i \in 1..Len(d) : r[k + i] = d[i]
    OBVIOUS
  <1> HIDE DEF r
  <1>3. /\ u \in Seq(Octet) /\ Len(u) = Len(d)
        /\ \A i \in 1..Len(d) : u[i] = r[k + i]
    BY <1>1
  <1> HIDE DEF u
  <1>4. u = d
    BY <1>2, <1>3
  <1>5. Keeps(r, s, k)
    BY ReadFirst DEF Keeps, r
  <1> QED
    BY <1>1, <1>4, <1>5 DEF r, u

\* Nor does putting still more behind change it.
LEMMA KeepsOf ==
    ASSUME NEW r, NEW s, NEW u, NEW k \in Nat, NEW j \in Nat, j <= k,
           Keeps(r, s, k), Keeps(s, u, j)
    PROVE  Keeps(r, u, j)
  <1>1. \A i \in 1..j : i \in 1..k /\ (i + 1 <= j => i + 1 <= k) /\ (i + 3 <= j => i + 3 <= k)
    OBVIOUS
  <1> QED
    BY <1>1, Zenon DEF Keeps

\* The five words of header and the flags are read back from their 16 bits.
LEMMA OffsetFlagsParts ==
    ASSUME NEW flags \in Octet
    PROVE  /\ OffsetFlags(flags) \in U16
           /\ OffsetFlags(flags) \div 4096 = 5 /\ OffsetFlags(flags) % 256 = flags
  <1>1. flags \in Int /\ 0 <= flags /\ flags < 256
    BY DEF Octet
  <1>2. flags % 4096 = flags
    <2>1. flags = 4096 * 0 + flags
      BY <1>1
    <2> QED
      BY <1>1, <2>1, ModIs
  <1>3. OffsetFlags(flags) = 20480 + flags
    BY <1>1, <1>2 DEF OffsetFlags
  <1>4. (20480 + flags) % 256 = flags
    <2>1. 20480 + flags = 256 * 80 + flags
      BY <1>1
    <2> QED
      BY <1>1, <2>1, ModIs
  <1>5. (20480 + flags) \div 4096 = 5
    BY <1>1
  <1> QED
    BY <1>1, <1>3, <1>4, <1>5 DEF U16

\* The fields parse_tcp_header reads of a segment are those build_tcp_packet wrote.
LEMMA TcpFields ==
    ASSUME NEW seg \in Segment
    PROVE  LET p == TcpBody(seg) IN
           /\ p \in Seq(Octet) /\ Len(p) = 20 + Len(seg.data)
           /\ N16(p, 1) = seg.sport /\ N16(p, 3) = seg.dport
           /\ N32(p, 5) = seg.seq /\ N32(p, 9) = seg.ack
           /\ N16(p, 13) = OffsetFlags(seg.flags) /\ N16(p, 15) = seg.window
           /\ SubSeq(p, 21, Len(p)) = seg.data
  <1>0. /\ seg.sport \in U16 /\ seg.dport \in U16 /\ seg.seq \in U32 /\ seg.ack \in U32
        /\ OffsetFlags(seg.flags) \in U16 /\ seg.window \in U16 /\ <<0, 0>> \in U32
        /\ seg.data \in Seq(Octet)
    <2>1. /\ seg.sport \in U16 /\ seg.dport \in U16 /\ seg.seq \in U32 /\ seg.ack \in U32
          /\ seg.flags \in Octet /\ seg.window \in U16 /\ seg.data \in Seq(Octet)
      BY DEF Segment
    <2>2. <<0, 0>> \in U32
      BY DEF U32, U16
    <2> QED
      BY <2>1, <2>2, OffsetFlagsParts
  <1> DEFINE p1 == B16(seg.sport)
             p2 == p1 \o B16(seg.dport)
             p3 == p2 \o B32(seg.seq)
             p4 == p3 \o B32(seg.ack)
             p5 == p4 \o B16(OffsetFlags(seg.flags))
             p6 == p5 \o B16(seg.window)
             p7 == p6 \o B32(<<0, 0>>)
             p8 == p7 \o seg.data
  <1>1. p1 \in Seq(Octet) /\ Len(p1) = 2 /\ N16(p1, 1) = seg.sport
    BY <1>0, Halves
  <1>2. /\ p2 \in Seq(Octet) /\ Len(p2) = 2 + 2 /\ N16(p2, 2 + 1) = seg.dport
        /\ Keeps(p2, p1, 2)
    <2> HIDE DEF p1
    <2>1. p1 \in Seq(Octet) /\ seg.dport \in U16 /\ 2 \in Nat /\ 2 = Len(p1)
      BY <1>0, <1>1
    <2> QED
      BY <2>1, Put16, Zenon
  <1>3. p3 \in Seq(Octet) /\ Len(p3) = 4 + 4 /\ N32(p3, 4 + 1) = seg.seq /\ Keeps(p3, p2, 4)
    <2> HIDE DEF p2
    <2>1. p2 \in Seq(Octet) /\ seg.seq \in U32 /\ 4 \in Nat /\ 4 = Len(p2)
      BY <1>0, <1>2
    <2> QED
      BY <2>1, Put32, Zenon
  <1>4. p4 \in Seq(Octet) /\ Len(p4) = 8 + 4 /\ N32(p4, 8 + 1) = seg.ack /\ Keeps(p4, p3, 8)
    <2> HIDE DEF p3
    <2>1. p3 \in Seq(Octet) /\ seg.ack \in U32 /\ 8 \in Nat /\ 8 = Len(p3)
      BY <1>0, <1>3
    <2> QED
      BY <2>1, Put32, Zenon
  <1>5. /\ p5 \in Seq(Octet) /\ Len(p5) = 12 + 2
        /\ N16(p5, 12 + 1) = OffsetFlags(seg.flags) /\ Keeps(p5, p4, 12)
    <2> HIDE DEF p4
    <2>1. p4 \in Seq(Octet) /\ OffsetFlags(seg.flags) \in U16 /\ 12 \in Nat /\ 12 = Len(p4)
      BY <1>0, <1>4
    <2> QED
      BY <2>1, Put16, Zenon
  <1>6. p6 \in Seq(Octet) /\ Len(p6) = 14 + 2 /\ N16(p6, 14 + 1) = seg.window /\ Keeps(p6, p5, 14)
    <2> HIDE DEF p5
    <2>1. p5 \in Seq(Octet) /\ seg.window \in U16 /\ 14 \in Nat /\ 14 = Len(p5)
      BY <1>0, <1>5
    <2> QED
      BY <2>1, Put16, Zenon
  <1>7. p7 \in Seq(Octet) /\ Len(p7) = 16 + 4 /\ Keeps(p7, p6, 16)
    <2> HIDE DEF p6
    <2>1. p6 \in Seq(Octet) /\ <<0, 0>> \in U32 /\ 16 \in Nat /\ 16 = Len(p6)
      BY <1>0, <1>6
    <2> QED
      BY <2>1, Put32, Zenon
  <1>8. /\ p8 \in Seq(Octet) /\ Len(p8) = 20 + Len(seg.data)
        /\ SubSeq(p8, 20 + 1, Len(p8)) = seg.data /\ Keeps(p8, p7, 20)
    <2> HIDE DEF p7
    <2>1. p7 \in Seq(Octet) /\ seg.data \in Seq(Octet) /\ 20 \in Nat /\ 20 = Len(p7)
      BY <1>0, <1>7
    <2> QED
      BY <2>1, PutLast, Zenon
  <1>9. TcpBody(seg) = p8
    BY DEF TcpBody
  <1> HIDE DEF p1, p2, p3, p4, p5, p6, p7, p8
  <1>10. /\ Keeps(p8, p6, 16) /\ Keeps(p8, p5, 14) /\ Keeps(p8, p4, 12)
         /\ Keeps(p8, p3, 8) /\ Keeps(p8, p2, 4) /\ Keeps(p8, p1, 2)
    <2>1. Keeps(p8, p6, 16)
      BY <1>7, <1>8, KeepsOf
    <2>2. Keeps(p8, p5, 14)
      BY <1>6, <2>1, KeepsOf
    <2>3. Keeps(p8, p4, 12)
      BY <1>5, <2>2, KeepsOf
    <2>4. Keeps(p8, p3, 8)
      BY <1>4, <2>3, KeepsOf
    <2>5. Keeps(p8, p2, 4)
      BY <1>3, <2>4, KeepsOf
    <2>6. Keeps(p8, p1, 2)
      BY <1>2, <2>5, KeepsOf
    <2> QED
      BY <2>1, <2>2, <2>3, <2>4, <2>5, <2>6
  <1>11. /\ N16(p8, 1) = N16(p1, 1) /\ N16(p8, 3) = N16(p2, 3)
         /\ N32(p8, 5) = N32(p3, 5) /\ N32(p8, 9) = N32(p4, 9)
         /\ N16(p8, 13) = N16(p5, 13) /\ N16(p8, 15) = N16(p6, 15)
    BY <1>10 DEF Keeps
  <1>12. /\ N16(p8, 1) = seg.sport /\ N16(p8, 3) = seg.dport
         /\ N32(p8, 5) = seg.seq /\ N32(p8, 9) = seg.ack
         /\ N16(p8, 13) = OffsetFlags(seg.flags) /\ N16(p8, 15) = seg.window
    BY <1>1, <1>2, <1>3, <1>4, <1>5, <1>6, <1>11
  <1> QED
    BY <1>8, <1>9, <1>12

\* The two words every frame begins with.
LEMMA HeaderWords ==
    ASSUME NEW protocol \in U32, NEW n \in U16
    PROVE  LET h == B32(protocol) \o B32(<<0, n>>) IN
           /\ h \in Seq(Octet) /\ Len(h) = 8
           /\ N32(h, 1) = protocol /\ N32(h, 5) = <<0, n>>
  <1> DEFINE s == B32(protocol)
             w == <<0, n>>
  <1>1. s \in Seq(Octet) /\ 4 \in Nat /\ 4 = Len(s) /\ N32(s, 1) = protocol
    BY Words
  <1>2. w \in U32
    BY DEF U32, U16
  <1> HIDE DEF s, w
  <1>3. /\ s \o B32(w) \in Seq(Octet) /\ Len(s \o B32(w)) = 4 + 4
        /\ N32(s \o B32(w), 4 + 1) = w
        /\ Keeps(s \o B32(w), s, 4)
    BY <1>1, <1>2, Put32, Zenon
  <1>4. N32(s \o B32(w), 1) = N32(s, 1)
    BY <1>3 DEF Keeps
  <1> QED
    BY <1>1, <1>3, <1>4 DEF s, w

\* A v2 frame: its magic, and its payload after 16 bytes.
LEMMA FrameV2 ==
    ASSUME NEW m \in U32, NEW protocol \in U32, NEW a \in U16, NEW b \in U16,
           NEW p \in Seq(Octet), Len(p) + 16 \in U16
    PROVE  LET f == Frame(m, protocol, <<a, b>>, p) IN
           /\ f \in Seq(Octet) /\ Len(f) = Len(p) + 16
           /\ N32(f, 1) = protocol /\ N32(f, 5) = <<0, Len(p) + 16>> /\ N32(f, 9) = m
           /\ SubSeq(f, 17, Len(f)) = p
  <1> DEFINE n == Len(p) + 16
             h == B32(protocol) \o B32(<<0, n>>)
             x1 == B32(m)
             x2 == x1 \o B16(a)
             x3 == x2 \o B16(b)
             g == h \o x3
             f == g \o p
  <1>1. /\ h \in Seq(Octet) /\ 8 \in Nat /\ 8 = Len(h)
        /\ N32(h, 1) = protocol /\ N32(h, 5) = <<0, n>>
    BY HeaderWords
  <1>2. x1 \in Seq(Octet) /\ 4 \in Nat /\ 4 = Len(x1) /\ N32(x1, 1) = m
    BY Words
  <1>3. x2 \in Seq(Octet) /\ Len(x2) = 4 + 2 /\ Keeps(x2, x1, 4)
    <2> HIDE DEF x1
    <2> QED
      BY <1>2, Put16, Zenon
  <1>4. x3 \in Seq(Octet) /\ Len(x3) = 6 + 2 /\ Keeps(x3, x2, 6)
    <2>1. x2 \in Seq(Octet) /\ 6 \in Nat /\ 6 = Len(x2)
      BY <1>3
    <2> HIDE DEF x2
    <2> QED
      BY <2>1, Put16, Zenon
  <1>5. N32(x3, 1) = m
    <2> HIDE DEF x1, x2, x3
    <2>1. N32(x3, 1) = N32(x2, 1)
      BY <1>4 DEF Keeps
    <2>2. N32(x2, 1) = N32(x1, 1)
      BY <1>3 DEF Keeps
    <2> QED
      BY <1>2, <2>1, <2>2
  <1>6. /\ Frame(m, protocol, <<a, b>>, p) = f
    BY DEF Frame, NoSeqs
  <1> HIDE DEF h, x1, x2, x3
  <1>7. g \in Seq(Octet) /\ Len(g) = 8 + Len(x3) /\ Keeps(g, h, 8)
    <2>1. x3 \in Seq(Octet)
      BY <1>4
    <2> QED
      BY <1>1, <2>1, PutLast, Zenon
  <1>8. N32(g, 9) = m
    <2>0. Len(x3) = 8 /\ Len(h) = 8
      BY <1>1, <1>4
    <2>1. 1 \in 1..Len(x3) /\ 1 + 3 <= Len(x3) /\ 9 \in Nat /\ 9 = Len(h) + 1
      BY <2>0
    <2>2. h \in Seq(Octet) /\ x3 \in Seq(Octet)
      BY <1>1, <1>4
    <2>3. N32(g, 9) = N32(x3, 1)
      BY <2>1, <2>2, ReadSecond
    <2> QED
      BY <1>5, <2>3
  <1>9. g \in Seq(Octet) /\ 16 \in Nat /\ 16 = Len(g)
    BY <1>4, <1>7
  <1> HIDE DEF g
  <1>10. /\ f \in Seq(Octet) /\ Len(f) = 16 + Len(p)
         /\ SubSeq(f, 16 + 1, Len(f)) = p /\ Keeps(f, g, 16)
    BY <1>9, PutLast, Zenon
  <1> HIDE DEF f
  <1>11. N32(f, 1) = N32(g, 1) /\ N32(f, 5) = N32(g, 5) /\ N32(f, 9) = N32(g, 9)
    BY <1>10 DEF Keeps
  <1>12. N32(g, 1) = N32(h, 1) /\ N32(g, 5) = N32(h, 5)
    BY <1>7 DEF Keeps
  <1>13. Len(f) = n
    BY <1>10
  <1>14. /\ f \in Seq(Octet) /\ SubSeq(f, 17, Len(f)) = p
         /\ N32(f, 1) = protocol /\ N32(f, 5) = <<0, n>> /\ N32(f, 9) = m
    BY <1>1, <1>8, <1>10, <1>11, <1>12
  <1> QED
    BY <1>6, <1>13, <1>14 DEF n

\* A v1 frame: its payload after 8 bytes, the first of them where v2 has the magic.
LEMMA FrameV1 ==
    ASSUME NEW m, NEW protocol \in U32, NEW p \in Seq(Octet), Len(p) + 8 \in U16, Len(p) >= 4
    PROVE  LET f == Frame(m, protocol, NoSeqs, p) IN
           /\ f \in Seq(Octet) /\ Len(f) = Len(p) + 8
           /\ N32(f, 1) = protocol /\ N32(f, 5) = <<0, Len(p) + 8>> /\ N32(f, 9) = N32(p, 1)
           /\ SubSeq(f, 9, Len(f)) = p
           /\ Len(p) >= 10 => /\ Len(SubSeq(f, 17, Len(f))) = Len(p) - 8
                              /\ N16(SubSeq(f, 17, Len(f)), 1) = N16(p, 9)
  <1> DEFINE n == Len(p) + 8
             h == B32(protocol) \o B32(<<0, n>>)
             f == h \o p
  <1>1. /\ h \in Seq(Octet) /\ 8 \in Nat /\ 8 = Len(h)
        /\ N32(h, 1) = protocol /\ N32(h, 5) = <<0, n>>
    BY HeaderWords
  <1>2. Frame(m, protocol, NoSeqs, p) = f
    <2>1. Frame(m, protocol, NoSeqs, p) = (h \o <<>>) \o p
      BY DEF Frame
    <2>2. h \o <<>> = h
      BY <1>1, ConcatEmptySeq
    <2> QED
      BY <2>1, <2>2
  <1> HIDE DEF h
  <1>3. /\ f \in Seq(Octet) /\ Len(f) = 8 + Len(p)
        /\ SubSeq(f, 8 + 1, Len(f)) = p /\ Keeps(f, h, 8)
    BY <1>1, PutLast, Zenon
  <1>4. N32(f, 9) = N32(p, 1)
    <2>0. Len(h) = 8 /\ Len(p) \in Nat
      BY <1>1
    <2>1. 1 \in 1..Len(p) /\ 1 + 3 <= Len(p) /\ 9 \in Nat /\ 9 = Len(h) + 1
      BY <2>0
    <2>2. h \in Seq(Octet)
      BY <1>1
    <2> QED
      BY <2>1, <2>2, ReadSecond
  <1>5. \A i \in 1..Len(p) : f[8 + i] = p[i]
    <2>1. h \in Seq(Octet)
      BY <1>1
    <2>2. \A i \in 1..Len(p) : f[Len(h) + i] = p[i]
      BY <2>1
    <2> QED
      BY <1>1, <2>2
  <1> HIDE DEF f
  <1>6. N32(f, 1) = N32(h, 1) /\ N32(f, 5) = N32(h, 5)
    BY <1>3 DEF Keeps
  <1>7. ASSUME Len(p) >= 10
        PROVE  /\ Len(SubSeq(f, 17, Len(f))) = Len(p) - 8
               /\ N16(SubSeq(f, 17, Len(f)), 1) = N16(p, 9)
    <2> DEFINE u == SubSeq(f, 17, Len(f))
    <2>1. Len(u) = Len(p) - 8 /\ \A i \in 1..Len(u) : u[i] = f[16 + i]
      BY <1>3, <1>7
    <2> HIDE DEF u
    <2>2. u[1] = f[16 + 1] /\ u[1 + 1] = f[16 + 2]
      BY <1>7, <2>1
    <2>3. f[16 + 1] = p[9] /\ f[16 + 2] = p[9 + 1]
      BY <1>5, <1>7
    <2>4. N16(u, 1) = N16(p, 9)
      BY <2>2, <2>3 DEF N16
    <2> QED
      BY <2>1, <2>4 DEF u
  <1>8. /\ f \in Seq(Octet) /\ Len(f) = n /\ SubSeq(f, 9, Len(f)) = p
        /\ N32(f, 1) = protocol /\ N32(f, 5) = <<0, n>> /\ N32(f, 9) = N32(p, 1)
    BY <1>1, <1>3, <1>4, <1>6
  <1> QED
    BY <1>2, <1>7, <1>8 DEF n

\* The declared length is read back.
LEMMA LengthIs ==
    ASSUME NEW f, NEW n \in Nat, N32(f, 5) = <<0, n>>
    PROVE  Length(f) = n
  <1>1. N32(f, 5)[1] = 0 /\ N32(f, 5)[2] = n
    OBVIOUS
  <1> QED
    BY <1>1 DEF Length

\* The magics are words.
LEMMA MagicWords == \A m \in {Magic, AppleMagic} : m \in U32
  <1>1. 65261 \in U16 /\ 64206 \in U16
    BY DEF U16
  <1> QED
    BY <1>1 DEF U32, Magic, AppleMagic

\* parse_packet hands the payload of a v2 frame to the match on the protocol.
LEMMA ParseV2 ==
    ASSUME NEW m \in {Magic, AppleMagic}, NEW protocol \in U32, NEW a \in U16, NEW b \in U16,
           NEW p \in Seq(Octet), Len(p) + 16 \in U16
    PROVE  ParsePacket(Frame(m, protocol, <<a, b>>, p)) = Body(protocol, p)
  <1> DEFINE f == Frame(m, protocol, <<a, b>>, p)
             n == Len(p) + 16
  <1>1. m \in U32
    BY MagicWords
  <1>2. /\ Len(f) = n
        /\ N32(f, 1) = protocol /\ N32(f, 5) = <<0, n>> /\ N32(f, 9) = m
        /\ SubSeq(f, 17, Len(f)) = p
    BY <1>1, FrameV2
  <1>3. n \in Nat /\ n >= 16
    OBVIOUS
  <1> HIDE DEF f, n
  <1>4. Length(f) = n
    BY <1>2, <1>3, LengthIs
  <1>5. IsV2(f)
    <2>1. Len(f) >= 12
      BY <1>2, <1>3
    <2> QED
      BY <1>2, <2>1 DEF IsV2
  <1>6. ~(Len(f) < 8 \/ n > Len(f) \/ n < 16)
    BY <1>2, <1>3
  <1>7. ParsePacket(f) = Body(N32(f, 1), SubSeq(f, 16 + 1, n))
    BY <1>4, <1>5, <1>6 DEF ParsePacket
  <1>8. SubSeq(f, 16 + 1, n) = p /\ N32(f, 1) = protocol
    BY <1>2
  <1>9. ParsePacket(f) = Body(protocol, p)
    BY <1>7, <1>8, Zenon
  <1> QED
    BY <1>9 DEF f

\* And that of a v1 frame, unless it begins like a magic.
LEMMA ParseV1 ==
    ASSUME NEW m, NEW protocol \in U32, NEW p \in Seq(Octet), Len(p) + 8 \in U16,
           Len(p) >= 4, N32(p, 1) \notin {Magic, AppleMagic}
    PROVE  ParsePacket(Frame(m, protocol, NoSeqs, p)) = Body(protocol, p)
  <1> DEFINE f == Frame(m, protocol, NoSeqs, p)
             n == Len(p) + 8
  <1>2. /\ Len(f) = n
        /\ N32(f, 1) = protocol /\ N32(f, 5) = <<0, n>> /\ N32(f, 9) = N32(p, 1)
        /\ SubSeq(f, 9, Len(f)) = p
    BY FrameV1
  <1>3. n \in Nat /\ n >= 8
    OBVIOUS
  <1> HIDE DEF f, n
  <1>4. Length(f) = n
    BY <1>2, <1>3, LengthIs
  <1>5. ~IsV2(f)
    BY <1>2 DEF IsV2
  <1>6. ~(Len(f) < 8 \/ n > Len(f) \/ n < 8)
    BY <1>2, <1>3
  <1>7. ParsePacket(f) = Body(N32(f, 1), SubSeq(f, 8 + 1, n))
    BY <1>4, <1>5, <1>6 DEF ParsePacket
  <1>8. SubSeq(f, 8 + 1, n) = p /\ N32(f, 1) = protocol
    BY <1>2
  <1>9. ParsePacket(f) = Body(protocol, p)
    BY <1>7, <1>8, Zenon
  <1> QED
    BY <1>9 DEF f

\* A segment is parsed to what it was built from.
LEMMA BodyOfTcp ==
    ASSUME NEW seg \in Segment
    PROVE  Body(HEADER_TCP, TcpBody(seg)) = [seg EXCEPT !.offset = 5]
  <1> DEFINE p == TcpBody(seg)
  <1>1. /\ p \in Seq(Octet) /\ Len(p) = 20 + Len(seg.data)
        /\ N16(p, 1) = seg.sport /\ N16(p, 3) = seg.dport
        /\ N32(p, 5) = seg.seq /\ N32(p, 9) = seg.ack
        /\ N16(p, 13) = OffsetFlags(seg.flags) /\ N16(p, 15) = seg.window
        /\ SubSeq(p, 21, Len(p)) = seg.data
    BY TcpFields
  <1>2. seg.flags \in Octet /\ seg.data \in Seq(Octet)
    BY DEF Segment
  <1>3. N16(p, 13) \div 4096 = 5 /\ N16(p, 13) % 256 = seg.flags
    BY <1>1, <1>2, OffsetFlagsParts
  <1> HIDE DEF p
  <1>4. Len(p) >= 20
    BY <1>1, <1>2
  <1>5. Body(HEADER_TCP, p) = ParseTcp(p)
    BY <1>4 DEF Body, HEADER_TCP, HEADER_VERSION, HEADER_CONTROL, HEADER_SETUP
  <1> DEFINE Fields(sport, dport, seq, ack, offset, flags, window, data) ==
               [kind |-> "tcp", sport |-> sport, dport |-> dport, seq |-> seq, ack |-> ack,
                offset |-> offset, flags |-> flags, window |-> window, data |-> data]
  <1>6. ParseTcp(p) = Fields(seg.sport, seg.dport, seg.seq, seg.ack, 5, seg.flags, seg.window,
                             seg.data)
    <2> DEFINE o == N16(p, 13) \div 4096
               g == N16(p, 13) % 256
               d == SubSeq(p, 21, Len(p))
    <2>1. ParseTcp(p) = Fields(N16(p, 1), N16(p, 3), N32(p, 5), N32(p, 9), o, g, N16(p, 15), d)
      BY DEF ParseTcp
    <2>2. o = 5 /\ g = seg.flags /\ d = seg.data
      BY <1>1, <1>3
    <2>3. /\ N16(p, 1) = seg.sport /\ N16(p, 3) = seg.dport
          /\ N32(p, 5) = seg.seq /\ N32(p, 9) = seg.ack /\ N16(p, 15) = seg.window
      BY <1>1
    <2> HIDE DEF Fields, o, g, d
    <2> QED
      BY <2>1, <2>2, <2>3, Zenon
  <1>7. [seg EXCEPT !.offset = 5] =
          Fields(seg.sport, seg.dport, seg.seq, seg.ack, 5, seg.flags, seg.window, seg.data)
    BY DEF Segment
  <1> QED
    BY <1>5, <1>6, <1>7 DEF p

\* Every segment build_tcp_packet can be given, with any ports, numbers, flags,
\* window and payload, in either framing and under either magic, is parsed back
\* to itself by parse_packet; the one exception is a v1 segment between two
\* ports that spell a magic.
THEOREM TcpRoundTrip ==
    ASSUME NEW seg \in Segment, NEW m \in {Magic, AppleMagic}, NEW seqs \in {NoSeqs} \cup U32,
           seqs = NoSeqs => <<seg.sport, seg.dport>> \notin {Magic, AppleMagic}
    PROVE  ParsePacket(Frame(m, HEADER_TCP, seqs, TcpBody(seg))) = [seg EXCEPT !.offset = 5]
  <1> DEFINE p == TcpBody(seg)
  <1>1. /\ p \in Seq(Octet) /\ Len(p) = 20 + Len(seg.data)
        /\ N16(p, 1) = seg.sport /\ N16(p, 3) = seg.dport
    BY TcpFields
  <1>2. seg.data \in Seq(Octet) /\ Len(seg.data) + 36 <= 65535
    BY DEF Segment
  <1>3. HEADER_TCP \in U32
    BY DEF HEADER_TCP, U32, U16
  <1>4. Body(HEADER_TCP, p) = [seg EXCEPT !.offset = 5]
    BY BodyOfTcp
  <1> HIDE DEF p
  <1>5. Len(p) + 16 \in U16 /\ Len(p) + 8 \in U16 /\ Len(p) >= 4
    BY <1>1, <1>2 DEF U16
  <1>6. CASE seqs = NoSeqs
    <2>1. N32(p, 1) = <<seg.sport, seg.dport>>
      BY <1>1 DEF N32
    <2>2. ParsePacket(Frame(m, HEADER_TCP, NoSeqs, p)) = Body(HEADER_TCP, p)
      BY <1>1, <1>3, <1>5, <1>6, <2>1, ParseV1
    <2> QED
      BY <1>4, <1>6, <2>2 DEF p
  <1>7. CASE seqs \in U32
    <2>1. seqs = <<seqs[1], seqs[2]>> /\ seqs[1] \in U16 /\ seqs[2] \in U16
      BY <1>7 DEF U32
    <2>2. ParsePacket(Frame(m, HEADER_TCP, <<seqs[1], seqs[2]>>, p)) = Body(HEADER_TCP, p)
      BY <1>1, <1>3, <1>5, <2>1, ParseV2
    <2> QED
      BY <1>4, <2>1, <2>2 DEF p
  <1> QED
    BY <1>6, <1>7

\* A v1 segment between two ports that spell a magic is taken for a v2 frame whose
\* payload begins with the acknowledgement number: it is too short, or its source
\* port is wrong.
LEMMA MagicPortsMisread ==
    ASSUME NEW seg \in Segment, NEW m, <<seg.sport, seg.dport>> \in {Magic, AppleMagic},
           Len(seg.data) = 0 \/ (Len(seg.data) = 8 /\ seg.ack[1] # seg.sport)
    PROVE  ParsePacket(Frame(m, HEADER_TCP, NoSeqs, TcpBody(seg))) # [seg EXCEPT !.offset = 5]
  <1> DEFINE p == TcpBody(seg)
             f == Frame(m, HEADER_TCP, NoSeqs, p)
             n == Len(p) + 8
             u == SubSeq(f, 17, Len(f))
  <1>1. /\ p \in Seq(Octet) /\ Len(p) = 20 + Len(seg.data)
        /\ N16(p, 1) = seg.sport /\ N16(p, 3) = seg.dport /\ N32(p, 9) = seg.ack
    BY TcpFields
  <1>2. HEADER_TCP \in U32
    BY DEF HEADER_TCP, U32, U16
  <1> HIDE DEF p
  <1>3. /\ n \in Nat /\ Len(p) + 8 \in U16 /\ Len(p) >= 10 /\ Len(p) >= 4 /\ n >= 16
        /\ Len(seg.data) = 0 => Len(p) = 20
        /\ Len(seg.data) = 8 => Len(p) = 28
    <2>1. Len(p) = 20 + Len(seg.data)
      BY <1>1
    <2>2. \A a, b \in Nat : a = 20 + b /\ (b = 0 \/ b = 8) =>
            /\ a + 8 \in Nat /\ a + 8 < 65536 /\ a >= 10 /\ a >= 4 /\ a + 8 >= 16
            /\ (b = 0 => a = 20) /\ (b = 8 => a = 28)
      OBVIOUS
    <2>3. Len(p) \in Nat /\ Len(seg.data) \in Nat
      <3>1. p \in Seq(Octet) /\ seg.data \in Seq(Octet)
        BY <1>1 DEF Segment
      <3> QED
        BY <3>1, LenProperties
    <2>4. PICK a \in Nat, b \in Nat : a = Len(p) /\ b = Len(seg.data)
      BY <2>3, Zenon
    <2>5. a = 20 + b /\ (b = 0 \/ b = 8)
      BY <2>1, <2>4, Zenon
    <2>6. /\ a + 8 \in Nat /\ a + 8 < 65536 /\ a >= 10 /\ a >= 4 /\ a + 8 >= 16
          /\ (b = 0 => a = 20) /\ (b = 8 => a = 28)
      BY <2>2, <2>5
    <2>7. a + 8 \in U16
      BY <2>6 DEF U16
    <2> QED
      BY <2>4, <2>6, <2>7
  <1>4. /\ Len(f) = n /\ N32(f, 1) = HEADER_TCP /\ N32(f, 5) = <<0, n>> /\ N32(f, 9) = N32(p, 1)
        /\ Len(u) = Len(p) - 8 /\ N16(u, 1) = N16(p, 9)
    BY <1>1, <1>2, <1>3, FrameV1
  <1>5. N32(p, 1) = <<seg.sport, seg.dport>> /\ N16(p, 9) = seg.ack[1]
    BY <1>1 DEF N32
  <1> HIDE DEF f, n, u
  <1>6. Length(f) = n
    BY <1>3, <1>4, LengthIs
  <1>7. IsV2(f) /\ ~(Len(f) < 8 \/ n > Len(f) \/ n < 16)
    <2>1. Len(f) >= 12 /\ ~(Len(f) < 8 \/ n > Len(f) \/ n < 16)
      BY <1>3, <1>4
    <2> QED
      BY <1>4, <1>5, <2>1 DEF IsV2
  <1>8. ParsePacket(f) = Body(HEADER_TCP, u)
    <2>1. ParsePacket(f) = Body(N32(f, 1), SubSeq(f, 16 + 1, n))
      BY <1>6, <1>7 DEF ParsePacket
    <2>2. SubSeq(f, 16 + 1, n) = u /\ N32(f, 1) = HEADER_TCP
      BY <1>4 DEF u
    <2> QED
      BY <2>1, <2>2, Zenon
  <1>9. /\ [seg EXCEPT !.offset = 5].kind = "tcp"
        /\ [seg EXCEPT !.offset = 5].sport = seg.sport
    BY DEF Segment
  <1>10. CASE Len(seg.data) = 0
    <2>0. Len(p) = 20 /\ Len(u) = Len(p) - 8
      BY <1>3, <1>4, <1>10, Zenon
    <2>1. ~(Len(u) >= 20)
      <3>1. Len(u) = 20 - 8
        BY <2>0, Zenon
      <3>2. PICK x : x = Len(u)
        OBVIOUS
      <3>3. x = 20 - 8
        BY <3>1, <3>2, Zenon
      <3>4. ~(x >= 20)
        BY <3>3
      <3> QED
        BY <3>2, <3>4, Zenon
    <2>2. Body(HEADER_TCP, u) = [kind |-> "error"]
      BY <2>1 DEF Body, HEADER_TCP, HEADER_VERSION, HEADER_CONTROL, HEADER_SETUP
    <2> QED
      BY <1>8, <1>9, <2>2 DEF f, p
  <1>11. CASE Len(seg.data) = 8 /\ seg.ack[1] # seg.sport
    <2>0. Len(p) = 28 /\ Len(u) = Len(p) - 8
      BY <1>3, <1>4, <1>11, Zenon
    <2>1. Len(u) >= 20
      BY <2>0
    <2>2. Body(HEADER_TCP, u) = ParseTcp(u)
      BY <2>1 DEF Body, HEADER_TCP, HEADER_VERSION, HEADER_CONTROL, HEADER_SETUP
    <2>3. ParseTcp(u).sport = N16(u, 1)
      BY DEF ParseTcp
    <2>4. ParsePacket(f).sport # [seg EXCEPT !.offset = 5].sport
      BY <1>4, <1>5, <1>8, <1>9, <1>11, <2>2, <2>3, Zenon
    <2> QED
      BY <2>4 DEF f, p
  <1> QED
    BY <1>10, <1>11

\* The segments of the packets, in the terms of their parameters.
Ports == {1024, Magic[1]} \X {62078, Magic[2]}
Numbers == {<<0, 0>>, <<65535, 256>>}
SegmentOf(p, n, flags, d) ==
    [kind |-> "tcp", sport |-> p[1], dport |-> p[2], seq |-> n, ack |-> n,
     offset |-> 0, flags |-> flags, window |-> 512, data |-> d]
LongData == B32(AppleMagic) \o B32(Magic)

\* They are segments.
LEMMA SegmentsTyped ==
    ASSUME NEW p \in Ports, NEW n \in Numbers, NEW flags \in {TCP_SYN, TCP_ACK},
           NEW d \in Seq(Octet), Len(d) <= 8
    PROVE  /\ SegmentOf(p, n, flags, d) \in Segment
           /\ n # <<0, 0>> => n[1] # p[1]
  <1>1. Magic[1] = 65261 /\ Magic[2] = 64206
    BY DEF Magic
  <1>2. /\ p[1] = 1024 \/ p[1] = 65261
        /\ p[2] = 62078 \/ p[2] = 64206
    BY <1>1 DEF Ports
  <1>3. p[1] \in U16 /\ p[2] \in U16 /\ 512 \in U16
    BY <1>2 DEF U16
  <1>4. flags \in Octet
    BY DEF Octet, TCP_SYN, TCP_ACK
  <1>5. n \in U32
    BY DEF U16, U32, Numbers
  <1>6. Len(d) + 36 <= 65535
    <2>1. \A x \in Nat : x <= 8 => x + 36 <= 65535
      OBVIOUS
    <2>2. Len(d) \in Nat
      OBVIOUS
    <2> QED
      BY <2>1, <2>2
  <1>7. n # <<0, 0>> => n[1] # p[1]
    <2>1. n # <<0, 0>> => n[1] = 65535
      BY DEF Numbers
    <2> QED
      BY <1>2, <2>1
  <1> QED
    BY <1>3, <1>4, <1>5, <1>6, <1>7 DEF Segment, SegmentOf

\* The frames of the daemon carry segments without data, or with eight bytes and
\* an acknowledgement number that is no port of theirs.
LEMMA PacketSegments ==
    ASSUME NEW k \in Syns \cup Acks \cup Datas
    PROVE  \E seg \in Segment :
             /\ k.protocol = HEADER_TCP /\ k.body = TcpBody(seg)
             /\ k.means = [seg EXCEPT !.offset = 5]
             /\ Len(seg.data) = 0 \/ (Len(seg.data) = 8 /\ seg.ack[1] # seg.sport)
  <1>1. LongData \in Seq(Octet) /\ Len(LongData) = 8
    <2>1. /\ B32(AppleMagic) \in Seq(Octet) /\ Len(B32(AppleMagic)) = 4
          /\ B32(Magic) \in Seq(Octet) /\ Len(B32(Magic)) = 4
      BY MagicWords, Words
    <2>2. LongData \in Seq(Octet) /\ Len(LongData) = Len(B32(AppleMagic)) + Len(B32(Magic))
      BY <2>1, Join DEF LongData
    <2> QED
      BY <2>1, <2>2
  <1>2. ASSUME NEW flags, NEW d, NEW j \in Segments(flags, {d})
        PROVE  \E p \in Ports, n \in Numbers : j = Tcp(SegmentOf(p, n, flags, d))
    <2>1. Segments(flags, {d}) =
            {Tcp(SegmentOf(p, n, flags, e)) : p \in Ports, n \in Numbers, e \in {d}}
      BY DEF Segments, SegmentOf, Ports, Numbers
    <2> QED
      BY <2>1
  <1>3. ASSUME NEW p \in Ports, NEW n \in Numbers, NEW flags \in {TCP_SYN, TCP_ACK},
               NEW d \in Seq(Octet), Len(d) <= 8, k = Tcp(SegmentOf(p, n, flags, d)),
               Len(d) = 0 \/ (Len(d) = 8 /\ n # <<0, 0>>)
        PROVE  \E seg \in Segment :
                 /\ k.protocol = HEADER_TCP /\ k.body = TcpBody(seg)
                 /\ k.means = [seg EXCEPT !.offset = 5]
                 /\ Len(seg.data) = 0 \/ (Len(seg.data) = 8 /\ seg.ack[1] # seg.sport)
    <2> DEFINE seg == SegmentOf(p, n, flags, d)
    <2>1. seg \in Segment /\ (n # <<0, 0>> => n[1] # p[1])
      BY <1>3, SegmentsTyped
    <2>2. seg.data = d /\ seg.ack = n /\ seg.sport = p[1]
      BY DEF SegmentOf
    <2> HIDE DEF seg
    <2>3. /\ k.protocol = HEADER_TCP /\ k.body = TcpBody(seg)
          /\ k.means = [seg EXCEPT !.offset = 5]
      BY <1>3 DEF Tcp, seg
    <2>4. Len(seg.data) = 0 \/ (Len(seg.data) = 8 /\ seg.ack[1] # seg.sport)
      BY <1>3, <2>1, <2>2
    <2> QED
      BY <2>1, <2>3, <2>4
  <1>4. CASE k \in Syns \cup Acks
    <2>1. PICK flags \in {TCP_SYN, TCP_ACK} : k \in Segments(flags, {<<>>})
      BY <1>4 DEF Syns, Acks
    <2>2. PICK p \in Ports, n \in Numbers : k = Tcp(SegmentOf(p, n, flags, <<>>))
      BY <1>2, <2>1
    <2>3. <<>> \in Seq(Octet) /\ Len(<<>>) = 0 /\ Len(<<>>) <= 8
      OBVIOUS
    <2> QED
      BY <1>3, <2>2, <2>3
  <1>5. CASE k \in Datas
    <2>1. k \in Segments(TCP_ACK, {LongData}) /\ k.means.seq # <<0, 0>>
      BY <1>5 DEF Datas, LongData
    <2>2. PICK p \in Ports, n \in Numbers : k = Tcp(SegmentOf(p, n, TCP_ACK, LongData))
      BY <1>2, <2>1
    <2>3. k.means.seq = n
      BY <2>2 DEF Tcp, SegmentOf
    <2>4. Len(LongData) <= 8
      BY <1>1
    <2> QED
      BY <1>1, <1>3, <2>1, <2>2, <2>3, <2>4
  <1> QED
    BY <1>4, <1>5

\* The last frame is the version request, the SETUP or a segment, and only the
\* first of them must be in v1 framing and the second in v2.
Carried ==
    \/ last.number = V1 /\ last.packet = VersionRequest
    \/ last.number \in Seqs /\ last.packet = Setup
    \/ last.number \in Seqs \cup {V1} /\ last.packet \in Syns \cup Acks \cup Datas

\* A frame that was sent becomes the last, one that was not leaves it.
LEMMA SentLast ==
    ASSUME NEW n, NEW pkts, NEW counted, NEW ok \in BOOLEAN, Sent(n, pkts, counted, ok)
    PROVE  last' = last \/ \E p \in pkts : last'.number = n /\ last'.packet = p
  <1>1. PICK p \in pkts : last' = IF ok THEN [number |-> n, packet |-> p] ELSE last
    BY DEF Sent
  <1> QED
    BY <1>1

\* Every step sends a frame of one of those kinds or none.
LEMMA CarriedInductive ==
    /\ FrameInit => Carried
    /\ FrameTyped /\ Carried /\ [FrameNext]_frameVars => Carried'
  <1>1. ASSUME FrameInit PROVE Carried
    <2>1. last = [number |-> V1, packet |-> VersionRequest]
      BY <1>1 DEF FrameInit
    <2> QED
      BY <2>1 DEF Carried
  <1>2. ASSUME FrameTyped, Carried, [FrameNext]_frameVars PROVE Carried'
    <2>0. ASSUME last' = last PROVE Carried'
      BY <1>2, <2>0 DEF Carried
    <2>1. ASSUME NEW n \in Seqs \cup {V1}, NEW pkts, pkts \subseteq Syns \cup Acks \cup Datas,
                 NEW counted, NEW ok \in BOOLEAN, Sent(n, pkts, counted, ok)
          PROVE  Carried'
      <3>1. CASE last' = last
        BY <2>0, <3>1
      <3>2. ASSUME NEW p \in pkts, last'.number = n, last'.packet = p PROVE Carried'
        BY <2>1, <3>2 DEF Carried
      <3> QED
        BY <2>1, <3>1, <3>2, SentLast
    <2>2. ASSUME NEW ok \in BOOLEAN, Sent(0, {Setup}, TRUE, ok) PROVE Carried'
      <3>1. CASE last' = last
        BY <2>0, <3>1
      <3>2. ASSUME NEW p \in {Setup}, last'.number = 0, last'.packet = p PROVE Carried'
        <4>1. 0 \in Seqs
          BY <1>2, FrameCounts
        <4> QED
          BY <3>2, <4>1 DEF Carried
      <3>3. last' = last \/ \E p \in {Setup} : last'.number = 0 /\ last'.packet = p
        <4>1. PICK p \in {Setup} : last' = IF ok THEN [number |-> 0, packet |-> p] ELSE last
          BY <2>2 DEF Sent
        <4> QED
          BY <4>1
      <3> QED
        BY <3>1, <3>2, <3>3, Zenon
    <2>3. CASE ReceiveVersion
      BY <2>0, <2>2, <2>3 DEF ReceiveVersion, SendResults
    <2>4. CASE SendAck
      <3>1. task = "ack" /\ taskSeq \in Seqs \cup {V1}
        BY <1>2, <2>4 DEF FrameTyped, SendAck
      <3>2. PICK ok \in BOOLEAN : Sent(taskSeq, Acks, TRUE, ok)
        BY <2>4 DEF SendAck, SendResults
      <3> QED
        BY <2>1, <3>1, <3>2, Zenon
    <2>5. CASE SendData
      <3>1. task = "data" /\ taskSeq \in Seqs \cup {V1}
        BY <1>2, <2>5 DEF FrameTyped, SendData
      <3>2. PICK ok \in BOOLEAN : Sent(taskSeq, Datas, FALSE, ok)
        BY <2>5 DEF SendData, SendResults
      <3> QED
        BY <2>1, <3>1, <3>2, Zenon
    <2>6. ASSUME NEW h \in Handler, SendSyn(h) PROVE Carried'
      <3>1. synFrame[h] \in Seqs \cup {V1}
        BY <1>2 DEF FrameTyped
      <3>2. PICK ok \in BOOLEAN : Sent(synFrame[h], Syns, TRUE, ok)
        BY <2>6 DEF SendSyn, SendResults
      <3> QED
        BY <2>1, <3>1, <3>2, Zenon
    <2>7. CASE AdoptVersion
      BY <2>0, <2>7 DEF AdoptVersion
    <2>8. CASE BuildAck
      BY <2>0, <2>8 DEF BuildAck
    <2>9. CASE BuildData
      BY <2>0, <2>9 DEF BuildData
    <2>10. CASE BumpData
      BY <2>0, <2>10 DEF BumpData
    <2>11. ASSUME NEW h \in Handler, BuildSyn(h) PROVE Carried'
      BY <2>0, <2>11 DEF BuildSyn
    <2>12. CASE UNCHANGED frameVars
      BY <2>0, <2>12 DEF frameVars
    <2> QED
      BY <1>2, <2>3, <2>4, <2>5, <2>6, <2>7, <2>8, <2>9, <2>10, <2>11, <2>12 DEF FrameNext
  <1> QED
    BY <1>1, <1>2

\* The version request reads back as version 2.0.
LEMMA VersionReadsBack ==
    ASSUME NEW m
    PROVE  ParsePacket(Frame(m, VersionRequest.protocol, NoSeqs, VersionRequest.body))
             = VersionRequest.means
  <1> DEFINE s == B32(<<0, 2>>)
             z == <<0, 0>>
             t == s \o B32(z)
             v == t \o B32(z)
  <1>1. s \in Seq(Octet) /\ 4 \in Nat /\ 4 = Len(s) /\ N32(s, 1) = <<0, 2>>
    <2>1. <<0, 2>> \in U32
      BY DEF U32, U16
    <2> QED
      BY <2>1, Words
  <1>2. z \in U32
    BY DEF U32, U16
  <1>3. VersionBody = v
    BY DEF VersionBody
  <1> HIDE DEF s, z
  <1>4. /\ t \in Seq(Octet) /\ Len(t) = 4 + 4 /\ N32(t, 4 + 1) = z
        /\ Keeps(t, s, 4)
    BY <1>1, <1>2, Put32, Zenon
  <1>5. t \in Seq(Octet) /\ 8 \in Nat /\ 8 = Len(t)
    BY <1>4
  <1> HIDE DEF t
  <1>6. v \in Seq(Octet) /\ Len(v) = 8 + 4 /\ Keeps(v, t, 8)
    BY <1>2, <1>5, Put32, Zenon
  <1> HIDE DEF v
  <1>7. N32(v, 1) = N32(t, 1) /\ N32(v, 5) = N32(t, 5)
    BY <1>6 DEF Keeps
  <1>8. N32(t, 1) = N32(s, 1)
    BY <1>4 DEF Keeps
  <1>9. N32(v, 1) = <<0, 2>> /\ N32(v, 5) = <<0, 0>>
    BY <1>1, <1>4, <1>7, <1>8 DEF z
  <1>10. Len(v) + 8 \in U16 /\ Len(v) >= 4 /\ Len(v) >= 8
    <2>1. Len(v) = 12
      BY <1>6
    <2> QED
      BY <2>1 DEF U16
  <1>11. N32(v, 1) \notin {Magic, AppleMagic} /\ HEADER_VERSION \in U32
    BY <1>9 DEF Magic, AppleMagic, HEADER_VERSION, U32, U16
  <1>12. ParsePacket(Frame(m, HEADER_VERSION, NoSeqs, v)) = Body(HEADER_VERSION, v)
    <2>1. v \in Seq(Octet)
      BY <1>6
    <2> QED
      BY <1>10, <1>11, <2>1, ParseV1
  <1>13. Body(HEADER_VERSION, v) = [kind |-> "version", major |-> <<0, 2>>, minor |-> <<0, 0>>]
    BY <1>9, <1>10 DEF Body, HEADER_VERSION, HEADER_CONTROL, HEADER_SETUP, HEADER_TCP
  <1>14. /\ VersionRequest.protocol = HEADER_VERSION /\ VersionRequest.body = v
         /\ VersionRequest.means = [kind |-> "version", major |-> <<0, 2>>, minor |-> <<0, 0>>]
    BY <1>3 DEF VersionRequest
  <1> QED
    BY <1>12, <1>13, <1>14, Zenon

\* The SETUP reads back as one.
LEMMA SetupReadsBack ==
    ASSUME NEW m \in {Magic, AppleMagic}, NEW a \in U16, NEW b \in U16
    PROVE  ParsePacket(Frame(m, Setup.protocol, <<a, b>>, Setup.body)) = Setup.means
  <1>1. SetupBody \in Seq(Octet) /\ Len(SetupBody) + 16 \in U16
    BY DEF SetupBody, Octet, U16
  <1>2. HEADER_SETUP \in U32
    BY DEF HEADER_SETUP, U32, U16
  <1>3. Setup.protocol = HEADER_SETUP /\ Setup.body = SetupBody /\ Setup.means = [kind |-> "setup"]
    BY DEF Setup
  <1>4. ParsePacket(Frame(m, HEADER_SETUP, <<a, b>>, SetupBody)) = Body(HEADER_SETUP, SetupBody)
    BY <1>1, <1>2, ParseV2
  <1>5. Body(HEADER_SETUP, SetupBody) = [kind |-> "setup"]
    BY DEF Body, HEADER_SETUP, HEADER_VERSION, HEADER_CONTROL, HEADER_TCP
  <1> QED
    BY <1>3, <1>4, <1>5, Zenon

\* A segment reads back as it was built unless it is in v1 framing between two
\* ports that spell a magic, and then it does not.
LEMMA SegmentReadsBack ==
    ASSUME NEW k \in Syns \cup Acks \cup Datas, NEW m \in {Magic, AppleMagic},
           NEW seqs \in {NoSeqs} \cup U32
    PROVE  /\ k.means.kind = "tcp"
           /\ ParsePacket(Frame(m, k.protocol, seqs, k.body)) = k.means
                <=> ~(seqs = NoSeqs /\ <<k.means.sport, k.means.dport>> \in {Magic, AppleMagic})
  <1>1. PICK seg \in Segment :
          /\ k.protocol = HEADER_TCP /\ k.body = TcpBody(seg)
          /\ k.means = [seg EXCEPT !.offset = 5]
          /\ Len(seg.data) = 0 \/ (Len(seg.data) = 8 /\ seg.ack[1] # seg.sport)
    BY PacketSegments
  <1> DEFINE e == [seg EXCEPT !.offset = 5]
             P == <<seg.sport, seg.dport>> \in {Magic, AppleMagic}
  <1>2. e.kind = "tcp" /\ e.sport = seg.sport /\ e.dport = seg.dport
    BY DEF Segment
  <1>3. CASE seqs = NoSeqs /\ P
    <2>1. ParsePacket(Frame(m, HEADER_TCP, NoSeqs, TcpBody(seg))) # e
      BY <1>1, <1>3, MagicPortsMisread
    <2> HIDE DEF e
    <2> QED
      BY <1>1, <1>2, <1>3, <2>1 DEF e
  <1>4. CASE ~(seqs = NoSeqs /\ P)
    <2>1. ParsePacket(Frame(m, HEADER_TCP, seqs, TcpBody(seg))) = e
      BY <1>4, TcpRoundTrip
    <2> HIDE DEF e
    <2> QED
      BY <1>1, <1>2, <1>4, <2>1 DEF e
  <1> QED
    BY <1>3, <1>4

\* The last frame parses as it should.
LEMMA CarriedParses ==
    ASSUME SeqModulus <= 65536, Carried
    PROVE  FramesParse
  <1> DEFINE seqs == IF last.number = V1 THEN NoSeqs ELSE <<last.number, 65535>>
             k == last.packet
  <1>1. V1 \notin Seqs /\ 65535 \in U16 /\ \A n \in Seqs : n \in U16
    BY FrameConstants DEF V1, Seqs, U16
  <1>2. SUFFICES ASSUME NEW m \in {Magic, AppleMagic}
                 PROVE  ParsePacket(Frame(m, k.protocol, seqs, k.body)) = k.means
                          <=> ~Ambiguous(last)
    BY DEF FramesParse
  <1>3. CASE last.number = V1 /\ k = VersionRequest
    <2>1. VersionRequest.means.kind # "tcp"
      BY DEF VersionRequest
    <2>2. ~Ambiguous(last)
      BY <1>3, <2>1 DEF Ambiguous
    <2>3. seqs = NoSeqs
      BY <1>3
    <2> HIDE DEF seqs
    <2>4. ParsePacket(Frame(m, VersionRequest.protocol, NoSeqs, VersionRequest.body))
            = VersionRequest.means
      BY VersionReadsBack
    <2>5. ParsePacket(Frame(m, k.protocol, seqs, k.body)) = k.means
      BY <1>3, <2>3, <2>4
    <2> QED
      BY <2>2, <2>5
  <1>4. CASE last.number \in Seqs /\ k = Setup
    <2>1. last.number # V1 /\ last.number \in U16
      BY <1>1, <1>4
    <2>2. ~Ambiguous(last)
      BY <2>1 DEF Ambiguous
    <2>3. seqs = <<last.number, 65535>>
      BY <2>1
    <2> HIDE DEF seqs
    <2>4. ParsePacket(Frame(m, Setup.protocol, <<last.number, 65535>>, Setup.body)) = Setup.means
      BY <1>1, <2>1, SetupReadsBack
    <2>5. ParsePacket(Frame(m, k.protocol, seqs, k.body)) = k.means
      BY <1>4, <2>3, <2>4
    <2> QED
      BY <2>2, <2>5
  <1>5. CASE last.number \in Seqs \cup {V1} /\ k \in Syns \cup Acks \cup Datas
    <2>1. seqs \in {NoSeqs} \cup U32 /\ (seqs = NoSeqs <=> last.number = V1)
      <3>1. CASE last.number = V1
        BY <3>1
      <3>2. CASE last.number # V1
        <4>1. last.number \in U16
          BY <1>1, <1>5, <3>2
        <4> QED
          BY <1>1, <3>2, <4>1 DEF U32, NoSeqs
      <3> QED
        BY <3>1, <3>2
    <2> HIDE DEF seqs
    <2>2. /\ k.means.kind = "tcp"
          /\ ParsePacket(Frame(m, k.protocol, seqs, k.body)) = k.means
               <=> ~(seqs = NoSeqs /\ <<k.means.sport, k.means.dport>> \in {Magic, AppleMagic})
      BY <1>5, <2>1, SegmentReadsBack
    <2> QED
      BY <2>1, <2>2 DEF Ambiguous
  <1> QED
    BY <1>3, <1>4, <1>5 DEF Carried

\* Frames are read as they were built: at every point of the negotiation and in
\* whatever order the device task and the handlers send, parse_packet makes of
\* the last frame on the wire what the build functions were given, in both
\* framings and under both magics, except of a v1 segment between two ports that
\* spell a magic.  The numbers must fit the u16 they are sent in.
THEOREM FramesReadBack ==
    ASSUME SeqModulus <= 65536
    PROVE  FrameSpec => []FramesParse
  <1>1. FrameSeqInv => FrameTyped
    BY DEF FrameSeqInv
  <1>2. Carried => FramesParse
    BY CarriedParses
  <1> QED
    BY <1>1, <1>2, FrameSeqInvInductive, CarriedInductive, PTL DEF FrameSpec
=============================================================================
