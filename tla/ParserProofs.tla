---------------------------- MODULE ParserProofs ----------------------------
(***************************************************************************)
(* extractHostname() and Packet::flow_view(), on every sequence of bytes.  *)
(* Neither reads outside the bytes it is given, and an answer of           *)
(* extractHostname() other than NeedMore is final.                         *)
(*                                                                         *)
(* The parsers are loops, and the model has them as recursive functions.   *)
(* A definition of that form says something only if there is a function    *)
(* that satisfies it, so each loop is first shown to go forward and to end *)
(* with the buffer (RecursionExists); then one turn of it can be unfolded, *)
(* and a property of all of it is proved by induction from the end of the  *)
(* buffer (TowardsEnd).                                                    *)
(***************************************************************************)
EXTENDS ClientHello, SequenceTheorems, WellFoundedInduction, TLAPS

-----------------------------------------------------------------------------
\* Induction and recursion, stated with sets and functions.

\* A nonempty set of naturals has a least element.
LEMMA NatLeast == ASSUME NEW T, T \subseteq Nat, T # {} PROVE \E x \in T : \A y \in T : x <= y
<1> DEFINE R == {ss \in Nat \X Nat : ss[1] < ss[2]}
<1>1. IsWellFoundedOn(R, Nat)
  BY NatLessThanWellFounded DEF OpToRel
<1>2. PICK x \in T : \A y \in T : ~(<<y, x>> \in R)
  <2> HIDE DEF R
  <2> QED
    BY <1>1, WFMin
<1>3. \A y \in T : ~(y < x)
  <2> TAKE y \in T
  <2>1. <<y, x>> \in Nat \X Nat
    OBVIOUS
  <2> QED
    BY <1>2, <2>1
<1>4. \A y \in T : x <= y
  BY <1>3
<1> QED
  BY <1>4

\* Induction over the naturals, the statement being a set.
LEMMA NatSet ==
  ASSUME NEW S, 0 \in S, \A n \in Nat : n \in S => n + 1 \in S PROVE \A n \in Nat : n \in S
<1>1. SUFFICES ASSUME Nat \ S # {} PROVE FALSE
  OBVIOUS
<1>2. PICK x \in Nat \ S : \A y \in Nat \ S : x <= y
  BY <1>1, NatLeast
<1>3. x - 1 \in Nat /\ x - 1 \in S /\ x = (x - 1) + 1
  BY <1>2
<1> QED
  BY <1>2, <1>3

\* Induction for a loop whose offset grows as far as end.
LEMMA TowardsEnd ==
  ASSUME NEW S, NEW end \in Nat,
         \A o \in Nat : (\A k \in Nat : k > o /\ k <= end => k \in S) => o \in S
  PROVE  \A o \in Nat : o \in S
<1> DEFINE A == {n \in Nat : \A o \in Nat : end < o + n => o \in S}
<1>1. 0 \in A
  OBVIOUS
<1>2. ASSUME NEW n \in Nat, n \in A PROVE n + 1 \in A
  <2>1. SUFFICES ASSUME NEW o \in Nat, end < o + (n + 1) PROVE o \in S
    OBVIOUS
  <2>2. \A k \in Nat : k > o /\ k <= end => k \in S
    BY <1>2, <2>1
  <2> QED
    BY <2>2
<1>3. end + 1 \in A
  <2> HIDE DEF A
  <2> QED
    BY <1>1, <1>2, NatSet
<1> QED
  BY <1>3

\* f is defined on D by recursion along next, as far as Stop.
Recursion(D, Stop, base, next, step, f) ==
  f = [x \in D |-> IF x \in Stop THEN base[x] ELSE step[<<x, f[next[x]]>>]]

\* The same of g, where the measure m is below n.
Below(D, Stop, base, next, step, m, n, g) ==
  \A x \in D : m[x] < n => g[x] = IF x \in Stop THEN base[x] ELSE step[<<x, g[next[x]]>>]

\* A recursion along which a measure decreases defines a function.
LEMMA RecursionExists ==
  ASSUME NEW D, NEW Stop, NEW base, NEW next, NEW step, NEW m \in [D -> Nat],
         \A x \in D : x \notin Stop => next[x] \in D /\ m[next[x]] < m[x]
  PROVE  \E f : Recursion(D, Stop, base, next, step, f)
<1> DEFINE B(n, g) == Below(D, Stop, base, next, step, m, n, g)
           A == {n \in Nat : \E g : B(n, g)}
<1>1. \A n \in Nat : n \in A
  <2>1. 0 \in A
    <3>1. B(0, base)
      BY DEF Below
    <3> QED
      BY <3>1
  <2>2. ASSUME NEW n \in Nat, n \in A PROVE n + 1 \in A
    <3>1. PICK g : B(n, g)
      BY <2>2
    <3> DEFINE h == [x \in D |-> IF m[x] < n THEN g[x]
                                 ELSE IF x \in Stop THEN base[x] ELSE step[<<x, g[next[x]]>>]]
    <3>2. ASSUME NEW x \in D, m[x] < n + 1
          PROVE  h[x] = IF x \in Stop THEN base[x] ELSE step[<<x, h[next[x]]>>]
      <4>1. x \notin Stop => next[x] \in D /\ m[next[x]] < n
        BY <3>2
      <4>2. x \notin Stop => h[next[x]] = g[next[x]]
        BY <4>1
      <4>3. h[x] = IF x \in Stop THEN base[x] ELSE step[<<x, g[next[x]]>>]
        BY <3>1 DEF Below
      <4> HIDE DEF h
      <4> QED
        BY <4>2, <4>3
    <3>3. B(n + 1, h)
      <4> HIDE DEF h
      <4> QED
        BY <3>2 DEF Below
    <3> QED
      BY <3>3
  <2> HIDE DEF A
  <2> QED
    BY <2>1, <2>2, NatSet
<1>2. ASSUME NEW n \in Nat, NEW k \in Nat, NEW g, NEW h, B(n, g), B(k, h)
      PROVE  \A x \in D : m[x] < n /\ m[x] < k => g[x] = h[x]
  <2> DEFINE E == {i \in Nat : \A x \in D : m[x] < i /\ m[x] < n /\ m[x] < k => g[x] = h[x]}
  <2>1. 0 \in E
    OBVIOUS
  <2>2. ASSUME NEW i \in Nat, i \in E PROVE i + 1 \in E
    <3>1. SUFFICES ASSUME NEW x \in D, m[x] < i + 1, m[x] < n, m[x] < k PROVE g[x] = h[x]
      OBVIOUS
    <3>2. /\ g[x] = IF x \in Stop THEN base[x] ELSE step[<<x, g[next[x]]>>]
          /\ h[x] = IF x \in Stop THEN base[x] ELSE step[<<x, h[next[x]]>>]
      BY <1>2, <3>1 DEF Below
    <3>3. x \notin Stop => next[x] \in D /\ m[next[x]] < i /\ m[next[x]] < n /\ m[next[x]] < k
      BY <3>1
    <3>4. x \notin Stop => g[next[x]] = h[next[x]]
      BY <2>2, <3>3
    <3> QED
      BY <3>2, <3>4
  <2>3. \A i \in Nat : i \in E
    <3> HIDE DEF E
    <3> QED
      BY <2>1, <2>2, NatSet
  <2>4. TAKE x \in D
  <2>5. m[x] + 1 \in E
    BY <2>3
  <2> QED
    BY <2>5
<1> DEFINE G(x) == CHOOSE g : B(m[x] + 1, g)
           f == [x \in D |-> G(x)[x]]
<1>3. \A x \in D : B(m[x] + 1, G(x))
  <2> TAKE x \in D
  <2>1. m[x] + 1 \in A
    BY <1>1
  <2> HIDE DEF B
  <2> QED
    BY <2>1
<1>4. ASSUME NEW x \in D PROVE f[x] = IF x \in Stop THEN base[x] ELSE step[<<x, f[next[x]]>>]
  <2>1. B(m[x] + 1, G(x)) /\ m[x] + 1 \in Nat
    BY <1>3
  <2>2. f[x] = G(x)[x]
    OBVIOUS
  <2> HIDE DEF f, G
  <2>3. G(x)[x] = IF x \in Stop THEN base[x] ELSE step[<<x, G(x)[next[x]]>>]
    BY <2>1 DEF Below
  <2>4. ASSUME x \notin Stop PROVE f[next[x]] = G(x)[next[x]]
    <3>1. next[x] \in D /\ m[next[x]] < m[x]
      BY <2>4
    <3>2. B(m[next[x]] + 1, G(next[x])) /\ m[next[x]] + 1 \in Nat
      BY <1>3, <3>1
    <3>3. f[next[x]] = G(next[x])[next[x]]
      BY <3>1 DEF f
    <3>4. m[next[x]] < m[next[x]] + 1 /\ m[next[x]] < m[x] + 1
      BY <3>1
    <3> HIDE DEF B
    <3> QED
      BY <1>2, <2>1, <3>1, <3>2, <3>3, <3>4
  <2> QED
    BY <2>2, <2>3, <2>4
<1>5. f = [x \in D |-> IF x \in Stop THEN base[x] ELSE step[<<x, f[next[x]]>>]]
  <2>1. f = [x \in D |-> f[x]]
    OBVIOUS
  <2> HIDE DEF f
  <2> QED
    BY <1>4, <2>1
<1> HIDE DEF f
<1> QED
  BY <1>5 DEF Recursion

\* A loop: its last turn gives the value.
Loop(D, Stop, base, next, f) == f = [x \in D |-> IF x \in Stop THEN base[x] ELSE f[next[x]]]

\* A loop that goes forward up to an end has a function that computes it.
LEMMA LoopExists ==
  ASSUME NEW D, NEW Stop, NEW base, NEW next, NEW m \in [D -> Nat],
         \A x \in D : x \notin Stop => next[x] \in D /\ m[next[x]] < m[x]
  PROVE  \E f : Loop(D, Stop, base, next, f)
<1> DEFINE T == {base[x] : x \in D}
           step == [u \in D \X T |-> u[2]]
<1>1. PICK f : Recursion(D, Stop, base, next, step, f)
  <2> HIDE DEF step
  <2> QED
    BY RecursionExists
<1>2. \A x \in D : f[x] = IF x \in Stop THEN base[x] ELSE step[<<x, f[next[x]]>>]
  BY <1>1 DEF Recursion
<1> DEFINE A == {n \in Nat : \A x \in D : m[x] < n => f[x] \in T}
<1>3. \A n \in Nat : n \in A
  <2>1. 0 \in A
    OBVIOUS
  <2>2. ASSUME NEW n \in Nat, n \in A PROVE n + 1 \in A
    <3>1. SUFFICES ASSUME NEW x \in D, m[x] < n + 1 PROVE f[x] \in T
      OBVIOUS
    <3>2. CASE x \in Stop
      BY <1>2, <3>2
    <3>3. CASE x \notin Stop
      <4>1. next[x] \in D /\ m[next[x]] < n
        BY <3>1, <3>3
      <4>2. f[next[x]] \in T
        BY <2>2, <4>1
      <4> HIDE DEF T
      <4> QED
        BY <1>2, <3>3, <4>2
    <3> QED
      BY <3>2, <3>3
  <2> HIDE DEF A
  <2> QED
    BY <2>1, <2>2, NatSet
<1>4. ASSUME NEW x \in D, x \notin Stop PROVE f[x] = f[next[x]]
  <2>1. next[x] \in D /\ m[next[x]] + 1 \in A
    BY <1>3, <1>4
  <2>2. f[next[x]] \in T
    BY <2>1
  <2> HIDE DEF T
  <2> QED
    BY <1>2, <1>4, <2>2
<1>5. f = [x \in D |-> IF x \in Stop THEN base[x] ELSE f[next[x]]]
  <2>1. f = [x \in D |-> f[x]]
    BY <1>1 DEF Recursion
  <2> HIDE DEF T, step
  <2> QED
    BY <1>2, <1>4, <2>1
<1> QED
  BY <1>5 DEF Loop

\* A function defined from its previous value.
Iteration(c, step, f) == f = [i \in Nat |-> IF i = 0 THEN c ELSE step[<<i, f[i - 1]>>]]

\* So has a loop that counts.
LEMMA IterationExists == ASSUME NEW c, NEW step PROVE \E f : Iteration(c, step, f)
<1> DEFINE m == [i \in Nat |-> i]
           base == [i \in Nat |-> c]
           next == [i \in Nat |-> i - 1]
<1>1. PICK f : Recursion(Nat, {0}, base, next, step, f)
  <2>1. m \in [Nat -> Nat] /\ \A x \in Nat : x \notin {0} => next[x] \in Nat /\ m[next[x]] < m[x]
    OBVIOUS
  <2> HIDE DEF m, base, next
  <2> QED
    BY <2>1, RecursionExists
<1>2. f = [i \in Nat |-> IF i = 0 THEN c ELSE step[<<i, f[i - 1]>>]]
  <2>1. f = [i \in Nat |-> f[i]]
    BY <1>1 DEF Recursion
  <2>2. \A i \in Nat : f[i] = IF i \in {0} THEN base[i] ELSE step[<<i, f[next[i]]>>]
    BY <1>1 DEF Recursion
  <2>3. \A i \in Nat : base[i] = c /\ next[i] = i - 1
    OBVIOUS
  <2> HIDE DEF base, next
  <2>4. \A i \in Nat : f[i] = IF i = 0 THEN c ELSE step[<<i, f[i - 1]>>]
    BY <2>2, <2>3
  <2> QED
    BY <2>1, <2>4
<1> QED
  BY <1>2 DEF Iteration

\* What such a function has at 0 and keeps from one value to the next, it has.
LEMMA IterationKeeps ==
  ASSUME NEW c, NEW step, NEW f, NEW T, Iteration(c, step, f), c \in T,
         \A i \in Nat, v \in T : step[<<i, v>>] \in T
  PROVE  f \in [Nat -> T]
<1> DEFINE A == {i \in Nat : f[i] \in T}
<1>1. 0 \in A
  BY DEF Iteration
<1>2. ASSUME NEW i \in Nat, i \in A PROVE i + 1 \in A
  <2>1. f[i + 1] = step[<<i + 1, f[i]>>]
    BY DEF Iteration
  <2> QED
    BY <1>2, <2>1
<1>3. \A i \in Nat : i \in A
  <2> HIDE DEF A
  <2> QED
    BY <1>1, <1>2, NatSet
<1> QED
  BY <1>3 DEF Iteration

-----------------------------------------------------------------------------
\* Reads.

Buffers == [b : Seq(Byte), junk : Byte]
Word == 65536

\* The fields of a buffer.
LEMMA BufferFields ==
  ASSUME NEW s \in Seq(Byte), NEW j \in Byte
  PROVE  Buffer(s, j) \in Buffers /\ Buffer(s, j).b = s /\ Buffer(s, j).junk = j
         /\ Size(Buffer(s, j)) = Len(s)
  BY DEF Buffer, Buffers, Size

\* A read gives a byte, two give a number of two bytes, wherever they are.
LEMMA ReadType ==
  ASSUME NEW p \in Buffers, NEW i \in Nat
  PROVE  Size(p) \in Nat /\ Rd(p, i) \in Byte /\ Be16(p, i) \in Nat /\ Be16(p, i) < Word
<1>1. p.b \in Seq(Byte) /\ p.junk \in Byte /\ Size(p) \in Nat
  BY LenProperties DEF Buffers, Size
<1>2. ASSUME NEW k \in Nat PROVE Rd(p, k) \in Byte
  BY <1>1, ElementOfSeq DEF Rd, Size
<1>3. Rd(p, i) \in Byte /\ Rd(p, i + 1) \in Byte
  BY <1>2
<1>4. \A x, y \in Byte : x * 256 + y \in Nat /\ x * 256 + y < Word
  BY DEF Byte, Word
<1> QED
  BY <1>1, <1>3, <1>4 DEF Be16

\* Bytes within the buffer are those of the buffer.
LEMMA BytesInside ==
  ASSUME NEW p \in Buffers, NEW off \in Nat, NEW n \in Nat, off + n <= Size(p)
  PROVE  Bytes(p, off, n) = SubSeq(p.b, off + 1, off + n)
         /\ Bytes(p, off, n) \in Seq(Byte) /\ Len(Bytes(p, off, n)) = n
<1>1. p.b \in Seq(Byte) /\ Size(p) = Len(p.b) /\ Len(p.b) \in Nat
  BY LenProperties DEF Buffers, Size
<1>2. \A i \in (off + 1)..(off + n) : p.b[i] \in Byte
  BY <1>1, ElementOfSeq
<1>3. /\ SubSeq(p.b, off + 1, off + n) \in Seq(Byte) /\ Len(SubSeq(p.b, off + 1, off + n)) = n
      /\ \A i \in 1..n : SubSeq(p.b, off + 1, off + n)[i] = p.b[off + i]
  <2>1. off + 1 \in Int /\ off + n \in Int
    OBVIOUS
  <2>2. /\ SubSeq(p.b, off + 1, off + n) \in Seq(Byte)
        /\ Len(SubSeq(p.b, off + 1, off + n))
             = IF off + 1 <= off + n THEN off + n - (off + 1) + 1 ELSE 0
        /\ \A i \in 1..(off + n - (off + 1) + 1) :
             SubSeq(p.b, off + 1, off + n)[i] = p.b[off + 1 + i - 1]
    BY <1>2, <2>1, SubSeqProperties
  <2>3. off + n - (off + 1) + 1 = n /\ \A i \in 1..n : off + 1 + i - 1 = off + i
    OBVIOUS
  <2> QED
    BY <2>2, <2>3
<1>4. \A i \in 1..n : Rd(p, off + i - 1) = p.b[off + i]
  BY <1>1 DEF Rd
<1>5. SubSeq(p.b, off + 1, off + n) = [i \in 1..n |-> SubSeq(p.b, off + 1, off + n)[i]]
  BY <1>3, LenProperties
<1> QED
  BY <1>3, <1>4, <1>5 DEF Bytes

-----------------------------------------------------------------------------
\* The loops meet the equations of the code.

\* One turn of the loop over a server name list.
LEMMA FirstHostNameStep ==
  ASSUME NEW hs \in Buffers, NEW q \in Nat, NEW end \in Nat
  PROVE  LET n == Be16(hs, q + 1)
         IN FirstHostName(hs, q, end) =
              IF q + 3 > end \/ q + 3 + n > end THEN NotFound
              ELSE IF Rd(hs, q) = 0 THEN Found(Bytes(hs, q + 3, n))
              ELSE FirstHostName(hs, q + 3 + n, end)
<1> DEFINE N(o) == Be16(hs, o + 1)
           Is(f) == f = [o \in Nat |->
             IF o + 3 > end \/ o + 3 + N(o) > end THEN NotFound
             ELSE IF Rd(hs, o) = 0 THEN Found(Bytes(hs, o + 3, N(o)))
             ELSE f[o + 3 + N(o)]]
           F == CHOOSE f : Is(f)
           Stop == {o \in Nat : o + 3 > end \/ o + 3 + N(o) > end \/ Rd(hs, o) = 0}
           base == [o \in Nat |-> IF o + 3 > end \/ o + 3 + N(o) > end THEN NotFound
                                  ELSE Found(Bytes(hs, o + 3, N(o)))]
           next == [o \in Nat |-> o + 3 + N(o)]
           m == [o \in Nat |-> IF o <= end THEN end - o ELSE 0]
<1>1. ASSUME NEW o \in Nat PROVE N(o) \in Nat
  <2>1. o + 1 \in Nat
    OBVIOUS
  <2> QED
    BY <2>1, ReadType
<1> HIDE DEF N
<1>2. PICK f : Loop(Nat, Stop, base, next, f)
  <2>1. m \in [Nat -> Nat] /\ \A x \in Nat : x \notin Stop => next[x] \in Nat /\ m[next[x]] < m[x]
    BY <1>1
  <2> HIDE DEF m, Stop, base, next
  <2> QED
    BY <2>1, LoopExists
<1>3. Is(f)
  BY <1>1, <1>2 DEF Loop
<1>4. Is(F)
  BY <1>3, Zenon
<1>5. \A x : FirstHostName(hs, x, end) = F[x]
  BY Zenon DEF FirstHostName, N
<1> HIDE DEF F
<1>6. F[q] = IF q + 3 > end \/ q + 3 + N(q) > end THEN NotFound
             ELSE IF Rd(hs, q) = 0 THEN Found(Bytes(hs, q + 3, N(q)))
             ELSE F[q + 3 + N(q)]
  BY <1>4
<1> QED
  BY <1>5, <1>6 DEF N

\* One turn of the loop over the extensions.
LEMMA FindServerNameStep ==
  ASSUME NEW hs \in Buffers, NEW o \in Nat, NEW end \in Nat
  PROVE  LET elen  == Be16(hs, o + 2)
             next  == o + 4 + elen
             named == o + 6 + Be16(hs, o + 4)
         IN FindServerName(hs, o, end) =
              IF o + 4 > end \/ next > end THEN NotFound
              ELSE IF Be16(hs, o) # 0 THEN FindServerName(hs, next, end)
              ELSE IF elen < 2 THEN NotFound
              ELSE FirstHostName(hs, o + 6, IF named < next THEN named ELSE next)
<1> DEFINE L(i) == Be16(hs, i + 2)
           X(i) == i + 4 + L(i)
           M(i) == i + 6 + Be16(hs, i + 4)
           R(i) == IF L(i) < 2 THEN NotFound
                   ELSE FirstHostName(hs, i + 6, IF M(i) < X(i) THEN M(i) ELSE X(i))
           Is(f) == f = [i \in Nat |->
             IF i + 4 > end \/ X(i) > end THEN NotFound
             ELSE IF Be16(hs, i) # 0 THEN f[X(i)]
             ELSE R(i)]
           F == CHOOSE f : Is(f)
           Stop == {i \in Nat : i + 4 > end \/ X(i) > end \/ Be16(hs, i) = 0}
           base == [i \in Nat |-> IF i + 4 > end \/ X(i) > end THEN NotFound ELSE R(i)]
           next == [i \in Nat |-> X(i)]
           m == [i \in Nat |-> IF i <= end THEN end - i ELSE 0]
<1>1. ASSUME NEW i \in Nat PROVE X(i) \in Nat /\ X(i) >= i + 4
  <2>1. L(i) \in Nat
    <3>1. i + 2 \in Nat
      OBVIOUS
    <3> QED
      BY <3>1, ReadType
  <2> HIDE DEF L
  <2> QED
    BY <2>1
<1> HIDE DEF X, R, M, L
<1>2. PICK f : Loop(Nat, Stop, base, next, f)
  <2>1. m \in [Nat -> Nat] /\ \A x \in Nat : x \notin Stop => next[x] \in Nat /\ m[next[x]] < m[x]
    BY <1>1
  <2> HIDE DEF m, Stop, base, next
  <2> QED
    BY <2>1, LoopExists
<1>3. Is(f)
  BY <1>1, <1>2 DEF Loop
<1>4. Is(F)
  BY <1>3, Zenon
<1>5. \A x : FindServerName(hs, x, end) = F[x]
  BY Zenon DEF FindServerName, X, R, M, L
<1> HIDE DEF F
<1>6. F[o] = IF o + 4 > end \/ X(o) > end THEN NotFound
             ELSE IF Be16(hs, o) # 0 THEN F[X(o)]
             ELSE R(o)
  BY <1>4
<1>7. FindServerName(hs, o, end) = IF o + 4 > end \/ X(o) > end THEN NotFound
                                  ELSE IF Be16(hs, o) # 0 THEN FindServerName(hs, X(o), end)
                                  ELSE R(o)
  BY <1>5, <1>6
<1> QED
  BY <1>7 DEF X, R, M, L

\* A record that is taken is one of the buffer's, and not empty.
LEMMA TakeRecordType ==
  ASSUME NEW p \in Buffers, NEW off \in Nat, TakeRecord(p, off).res = "Found"
  PROVE  LET rl == Be16(p, off + 3)
         IN /\ rl \in 1..MaxRecord /\ off + RecordHeader + rl <= Size(p)
            /\ TakeRecord(p, off) = Found(SubSeq(p.b, off + RecordHeader + 1, off + RecordHeader + rl))
            /\ TakeRecord(p, off).bytes \in Seq(Byte) /\ Len(TakeRecord(p, off).bytes) = rl
<1> DEFINE rl == Be16(p, off + 3)
<1>1. rl \in Nat /\ Size(p) \in Nat
  <2>1. off + 3 \in Nat
    OBVIOUS
  <2> QED
    BY <2>1, ReadType
<1> HIDE DEF rl
<1>2. /\ Size(p) - off >= RecordHeader /\ Size(p) - off - RecordHeader >= rl
      /\ rl \in 1..MaxRecord /\ TakeRecord(p, off) = Found(Bytes(p, off + RecordHeader, rl))
  BY <1>1 DEF TakeRecord, NeedMore, NotFound, RecordHeader, rl
<1>3. off + RecordHeader \in Nat /\ off + RecordHeader + rl <= Size(p)
  BY <1>1, <1>2 DEF RecordHeader
<1>4. /\ Bytes(p, off + RecordHeader, rl) = SubSeq(p.b, off + RecordHeader + 1, off + RecordHeader + rl)
      /\ Bytes(p, off + RecordHeader, rl) \in Seq(Byte) /\ Len(Bytes(p, off + RecordHeader, rl)) = rl
  BY <1>1, <1>3, BytesInside
<1>5. TakeRecord(p, off).bytes = Bytes(p, off + RecordHeader, rl)
  BY <1>2 DEF Found
<1>6. /\ TakeRecord(p, off) = Found(SubSeq(p.b, off + RecordHeader + 1, off + RecordHeader + rl))
      /\ TakeRecord(p, off).bytes \in Seq(Byte) /\ Len(TakeRecord(p, off).bytes) = rl
  BY <1>2, <1>4, <1>5
<1> QED
  BY <1>2, <1>3, <1>6 DEF rl

\* One turn of the loop over the records.
LEMMA JoinStep ==
  ASSUME NEW p \in Buffers, NEW off \in Nat, NEW scratch \in Seq(Byte)
  PROVE  LET rec  == TakeRecord(p, off)
             all  == scratch \o rec.bytes
             want == HelloSize(Buffer(all, 0), 0)
         IN Join(p, off, scratch) =
              IF rec.res # "Found" THEN rec
              ELSE IF Len(all) >= MsgHeader /\ want = 0 THEN NotFound
              ELSE IF Len(all) >= MsgHeader /\ want <= Len(all) THEN Found(SubSeq(all, 1, want))
              ELSE Join(p, off + RecordHeader + Len(rec.bytes), all)
<1> DEFINE D == [off : Nat, scratch : Seq(Byte)]
           St(o, s) == [off |-> o, scratch |-> s]
           All(u) == u.scratch \o TakeRecord(p, u.off).bytes
           Want(u) == HelloSize(Buffer(All(u), 0), 0)
           Not(u) == Len(All(u)) >= MsgHeader /\ Want(u) = 0
           Whole(u) == Len(All(u)) >= MsgHeader /\ Want(u) <= Len(All(u))
           Next(u) == [off |-> u.off + RecordHeader + Len(TakeRecord(p, u.off).bytes),
                       scratch |-> All(u)]
           Is(f) == f = [u \in D |->
             IF TakeRecord(p, u.off).res # "Found" THEN TakeRecord(p, u.off)
             ELSE IF Not(u) THEN NotFound
             ELSE IF Whole(u) THEN Found(SubSeq(All(u), 1, Want(u)))
             ELSE f[Next(u)]]
           F == CHOOSE f : Is(f)
           Stop == {u \in D : TakeRecord(p, u.off).res # "Found" \/ Not(u) \/ Whole(u)}
           base == [u \in D |-> IF TakeRecord(p, u.off).res # "Found" THEN TakeRecord(p, u.off)
                                ELSE IF Not(u) THEN NotFound
                                ELSE Found(SubSeq(All(u), 1, Want(u)))]
           next == [u \in D |-> Next(u)]
           m == [u \in D |-> IF u.off <= Size(p) THEN Size(p) - u.off ELSE 0]
<1>0. Size(p) \in Nat
  BY ReadType
<1>1. ASSUME NEW u \in D, TakeRecord(p, u.off).res = "Found"
      PROVE  Next(u) \in D /\ Next(u).off > u.off /\ Next(u).off <= Size(p)
  <2>0. u.off \in Nat /\ u.scratch \in Seq(Byte)
    OBVIOUS
  <2>1. /\ TakeRecord(p, u.off).bytes \in Seq(Byte) /\ Len(TakeRecord(p, u.off).bytes) >= 1
        /\ u.off + RecordHeader + Len(TakeRecord(p, u.off).bytes) <= Size(p)
    BY <1>1, <2>0, TakeRecordType, HelloLimitsAssumption
  <2>2. Len(TakeRecord(p, u.off).bytes) \in Nat
    BY <2>1, LenProperties
  <2>3. All(u) \in Seq(Byte)
    BY <2>0, <2>1, ConcatProperties
  <2> HIDE DEF All
  <2> QED
    BY <2>0, <2>1, <2>2, <2>3 DEF RecordHeader
<1> HIDE DEF Next, All, Want, Not, Whole
<1>2. PICK f : Loop(D, Stop, base, next, f)
  <2>1. m \in [D -> Nat]
    BY <1>0
  <2>2. ASSUME NEW x \in D, x \notin Stop PROVE next[x] \in D /\ m[next[x]] < m[x]
    <3>1. TakeRecord(p, x.off).res = "Found"
      BY <2>2
    <3>2. next[x] = Next(x) /\ Next(x) \in D /\ Next(x).off > x.off /\ Next(x).off <= Size(p)
      BY <1>1, <3>1
    <3>3. x.off \in Nat /\ Next(x).off \in Nat
      BY <3>2
    <3>4. m[next[x]] = Size(p) - Next(x).off /\ m[x] = Size(p) - x.off
      BY <1>0, <3>2, <3>3
    <3> QED
      BY <1>0, <3>2, <3>3, <3>4
  <2> HIDE DEF m, Stop, base, next, D
  <2> QED
    BY <2>1, <2>2, LoopExists
<1>3. Is(f)
  <2> HIDE DEF D
  <2> QED
    BY <1>2 DEF Loop
<1>4. Is(F)
  BY <1>3, Zenon
<1>5. \A o, s : Join(p, o, s) = F[St(o, s)]
  BY Zenon DEF Join, All, Want, Not, Whole, Next
<1> HIDE DEF F
<1>6. ASSUME NEW u \in D
      PROVE  F[u] = IF TakeRecord(p, u.off).res # "Found" THEN TakeRecord(p, u.off)
                    ELSE IF Not(u) THEN NotFound
                    ELSE IF Whole(u) THEN Found(SubSeq(All(u), 1, Want(u)))
                    ELSE F[Next(u)]
  <2> HIDE DEF D
  <2> QED
    BY <1>4
<1> DEFINE u == St(off, scratch)
<1>7. u \in D /\ u.off = off /\ u.scratch = scratch
  OBVIOUS
<1>8. Next(u) = St(off + RecordHeader + Len(TakeRecord(p, off).bytes), All(u))
  BY <1>7 DEF Next
<1> HIDE DEF St
<1>9. Join(p, off, scratch) =
        IF TakeRecord(p, off).res # "Found" THEN TakeRecord(p, off)
        ELSE IF Not(u) THEN NotFound
        ELSE IF Whole(u) THEN Found(SubSeq(All(u), 1, Want(u)))
        ELSE Join(p, off + RecordHeader + Len(TakeRecord(p, off).bytes), All(u))
  <2> HIDE DEF D, u
  <2> QED
    BY <1>5, <1>6, <1>7, <1>8 DEF u
<1>10. All(u) = scratch \o TakeRecord(p, off).bytes
  BY <1>7 DEF All
<1> HIDE DEF u
<1> QED
  BY <1>9, <1>10 DEF Want, Not, Whole

Headers == [type : Byte, off : Nat]
SkipHeader(p, l3, h) ==
  IF Skippable(p, l3, h) THEN [type |-> Rd(p, h.off), off |-> Past(p, h)] ELSE h

\* The header after an extension header is further on.
LEMMA PastType ==
  ASSUME NEW p \in Buffers, NEW h \in Headers PROVE Past(p, h) \in Nat /\ Past(p, h) >= h.off + 8
<1>1. h.off \in Nat /\ h.off + 1 \in Nat
  BY DEF Headers
<1>2. Rd(p, h.off + 1) \in Byte
  BY <1>1, ReadType
<1>3. \A x \in Byte, o \in Nat : o + (x + 1) * 8 \in Nat /\ o + (x + 1) * 8 >= o + 8
  BY DEF Byte
<1> QED
  BY <1>1, <1>2, <1>3 DEF Past

\* Skipping a header leads to a header.
LEMMA SkipType ==
  ASSUME NEW p \in Buffers, NEW l3, NEW h \in Headers PROVE SkipHeader(p, l3, h) \in Headers
<1>1. h.off \in Nat
  BY DEF Headers
<1> QED
  BY <1>1, ReadType, PastType DEF SkipHeader, Headers

\* One turn of the loop over IPv6 extension headers.
LEMMA WalkV6Step ==
  ASSUME NEW p \in Buffers, NEW l3
  PROVE  /\ WalkV6(p, l3, 0) = [type |-> Rd(p, 6), off |-> 40]
         /\ \A n \in Nat : /\ WalkV6(p, l3, n) \in Headers
                           /\ WalkV6(p, l3, n + 1) = SkipHeader(p, l3, WalkV6(p, l3, n))
<1> DEFINE c == [type |-> Rd(p, 6), off |-> 40]
           step == [u \in Nat \X Headers |-> SkipHeader(p, l3, u[2])]
           Is(f) == f = [i \in Nat |-> IF i = 0 THEN c ELSE SkipHeader(p, l3, f[i - 1])]
           F == CHOOSE f : Is(f)
<1>1. c \in Headers
  BY ReadType DEF Headers
<1>2. \A i \in Nat, h \in Headers : step[<<i, h>>] = SkipHeader(p, l3, h) /\ step[<<i, h>>] \in Headers
  BY SkipType
<1>3. PICK f : Iteration(c, step, f)
  <2> HIDE DEF c, step
  <2> QED
    BY IterationExists
<1>4. f \in [Nat -> Headers]
  <2> HIDE DEF c, step
  <2> QED
    BY <1>1, <1>2, <1>3, IterationKeeps
<1>5. Is(f)
  <2> HIDE DEF c, step
  <2>1. f = [i \in Nat |-> IF i = 0 THEN c ELSE step[<<i, f[i - 1]>>]]
    BY <1>3 DEF Iteration
  <2>2. \A i \in Nat : i # 0 => step[<<i, f[i - 1]>>] = SkipHeader(p, l3, f[i - 1])
    BY <1>2, <1>4
  <2> QED
    BY <2>1, <2>2
<1>6. Is(F)
  BY <1>5, Zenon
<1>7. \A n : WalkV6(p, l3, n) = F[n]
  BY Zenon DEF WalkV6, SkipHeader
<1> HIDE DEF F, c
<1>8. F[0] = c /\ \A n \in Nat : F[n + 1] = SkipHeader(p, l3, F[n])
  BY <1>6
<1> DEFINE A == {n \in Nat : F[n] \in Headers}
<1>9. \A n \in Nat : n \in A
  <2>1. 0 \in A /\ \A n \in Nat : n \in A => n + 1 \in A
    BY <1>1, <1>8, SkipType
  <2> HIDE DEF A
  <2> QED
    BY <2>1, NatSet
<1> QED
  BY <1>7, <1>8, <1>9 DEF c

\* A hash is a natural number, so that two of them can be ordered.
LEMMA EndpointHashType ==
  ASSUME NEW ip, \A i \in 1..16 : ip[i] \in Byte, NEW port \in Nat
  PROVE  EndpointHash(ip, port) \in Nat
<1> DEFINE step == [u \in Nat \X Nat |-> IF u[1] \in 1..16 THEN HashStep(u[2], ip[u[1]]) ELSE 0]
           Is(f) == f = [i \in 0..16 |-> IF i = 0 THEN 0 ELSE HashStep(f[i - 1], ip[i])]
           F == CHOOSE f : Is(f)
<1>1. ASSUME NEW h \in Nat, NEW x \in Nat PROVE HashStep(h, x) \in Nat
  <2>1. h * 131 + x \in Nat
    OBVIOUS
  <2> QED
    BY <2>1, KeyModAssumption DEF HashStep
<1>2. \A i \in 1..16 : ip[i] \in Nat
  <2>1. \A x \in Byte : x \in Nat
    BY DEF Byte
  <2> QED
    BY <2>1
<1>3. /\ \A i \in Nat, v \in Nat : step[<<i, v>>] \in Nat
      /\ \A i \in 1..16, v \in Nat : step[<<i, v>>] = HashStep(v, ip[i])
  <2>1. ASSUME NEW i \in Nat, NEW v \in Nat
        PROVE  step[<<i, v>>] = IF i \in 1..16 THEN HashStep(v, ip[i]) ELSE 0
    OBVIOUS
  <2> HIDE DEF step
  <2>2. ASSUME NEW i \in Nat, NEW v \in Nat PROVE step[<<i, v>>] \in Nat
    <3>1. i \in 1..16 => HashStep(v, ip[i]) \in Nat
      BY <1>1, <1>2
    <3> QED
      BY <2>1, <3>1
  <2>3. ASSUME NEW i \in 1..16, NEW v \in Nat PROVE step[<<i, v>>] = HashStep(v, ip[i])
    <3>1. i \in Nat
      OBVIOUS
    <3> QED
      BY <2>1, <3>1
  <2> QED
    BY <2>2, <2>3
<1> HIDE DEF step
<1>4. PICK g : Iteration(0, step, g)
  BY IterationExists
<1>5. g \in [Nat -> Nat]
  BY <1>3, <1>4, IterationKeeps
<1> DEFINE f == [i \in 0..16 |-> g[i]]
<1>6. ASSUME NEW i \in 0..16 PROVE f[i] = IF i = 0 THEN 0 ELSE HashStep(f[i - 1], ip[i])
  <2>1. CASE i = 0
    BY <1>4, <2>1 DEF Iteration
  <2>2. CASE i # 0
    <3>1. i \in 1..16 /\ i \in Nat /\ i - 1 \in 0..16 /\ i - 1 \in Nat
      BY <2>2
    <3>2. g[i] = step[<<i, g[i - 1]>>]
      BY <1>4, <2>2, <3>1 DEF Iteration
    <3>3. step[<<i, g[i - 1]>>] = HashStep(g[i - 1], ip[i])
      BY <1>3, <1>5, <3>1
    <3> QED
      BY <2>2, <3>1, <3>2, <3>3
  <2> QED
    BY <2>1, <2>2
<1>7. Is(f)
  <2>1. f = [i \in 0..16 |-> f[i]]
    OBVIOUS
  <2> HIDE DEF f
  <2> QED
    BY <1>6, <2>1
<1>8. Is(F)
  BY <1>7, Zenon
<1>9. EndpointHash(ip, port) = HashStep(F[16], port)
  BY Zenon DEF EndpointHash
<1> HIDE DEF F
<1> DEFINE A == {i \in Nat : i <= 16 => F[i] \in Nat}
<1>10. \A i \in Nat : i \in A
  <2>1. 0 \in A
    BY <1>8
  <2>2. ASSUME NEW i \in Nat, i \in A PROVE i + 1 \in A
    <3>1. SUFFICES ASSUME i + 1 <= 16 PROVE F[i + 1] \in Nat
      OBVIOUS
    <3>2. F[i + 1] = HashStep(F[i], ip[i + 1]) /\ F[i] \in Nat /\ ip[i + 1] \in Nat
      BY <1>2, <1>8, <2>2, <3>1
    <3> QED
      BY <1>1, <3>2
  <2> HIDE DEF A
  <2> QED
    BY <2>1, <2>2, NatSet
<1>11. F[16] \in Nat
  <2>1. 16 \in A
    BY <1>10
  <2> QED
    BY <2>1
<1> QED
  BY <1>1, <1>9, <1>11

-----------------------------------------------------------------------------
\* A longer buffer: it begins with the same bytes.  Two buffers with the same bytes and
\* different junk are each longer than the other in this sense.

Extends(p, r) ==
  /\ p \in Buffers /\ r \in Buffers /\ Size(p) <= Size(r)
  /\ \A i \in Nat : i < Size(p) => Rd(p, i) = Rd(r, i)

\* Every read within a buffer is the same in a longer one.
LEMMA ExtendsReads ==
  ASSUME NEW p, NEW r, Extends(p, r), NEW i \in Nat
  PROVE  /\ Size(p) \in Nat /\ Size(r) \in Nat /\ Size(p) <= Size(r)
         /\ i < Size(p) => Rd(p, i) = Rd(r, i)
         /\ i + 2 <= Size(p) => Be16(p, i) = Be16(r, i)
         /\ i + 3 <= Size(p) => Be24(p, i) = Be24(r, i)
<1>1. Size(p) \in Nat /\ Size(r) \in Nat /\ Size(p) <= Size(r)
  BY ReadType DEF Extends
<1>2. ASSUME NEW k \in Nat, k < Size(p) PROVE Rd(p, k) = Rd(r, k)
  BY <1>2 DEF Extends
<1>3. ASSUME NEW k \in Nat, k + 2 <= Size(p) PROVE Be16(p, k) = Be16(r, k)
  <2>1. k + 1 \in Nat /\ k < Size(p) /\ k + 1 < Size(p)
    BY <1>1, <1>3
  <2> QED
    BY <1>2, <2>1 DEF Be16
<1>4. ASSUME i + 3 <= Size(p) PROVE Be24(p, i) = Be24(r, i)
  <2>1. i + 1 \in Nat /\ i < Size(p) /\ i + 1 + 2 <= Size(p)
    BY <1>1, <1>4
  <2> QED
    BY <1>2, <1>3, <2>1 DEF Be24
<1> QED
  BY <1>1, <1>2, <1>3, <1>4

\* So is every copy of bytes within it.
LEMMA ExtendsBytes ==
  ASSUME NEW p, NEW r, Extends(p, r), NEW off \in Nat, NEW n \in Nat, off + n <= Size(p)
  PROVE  Bytes(p, off, n) = Bytes(r, off, n)
<1>1. ASSUME NEW i \in 1..n PROVE Rd(p, off + i - 1) = Rd(r, off + i - 1)
  <2>1. off + i - 1 \in Nat /\ off + i - 1 < Size(p)
    BY ExtendsReads
  <2> QED
    BY <2>1, ExtendsReads
<1> QED
  BY <1>1 DEF Bytes

\* What is not waiting for more bytes does not change when more bytes come.
LEMMA TakeRecordFinal ==
  ASSUME NEW p, NEW r, Extends(p, r), NEW off \in Nat, TakeRecord(p, off) # NeedMore
  PROVE  TakeRecord(r, off) = TakeRecord(p, off)
<1> DEFINE rl == Be16(p, off + 3)
<1>1. Size(p) \in Nat /\ Size(r) \in Nat /\ Size(p) <= Size(r) /\ p \in Buffers
  BY ExtendsReads DEF Extends
<1>2. ~(Size(p) - off < RecordHeader)
  BY DEF TakeRecord
<1>3. /\ off + 1 \in Nat /\ off + 3 \in Nat /\ off < Size(p) /\ off + 1 < Size(p)
      /\ off + 3 + 2 <= Size(p) /\ ~(Size(r) - off < RecordHeader)
  BY <1>1, <1>2 DEF RecordHeader
<1>4. Rd(p, off) = Rd(r, off) /\ Rd(p, off + 1) = Rd(r, off + 1)
  BY <1>3, ExtendsReads
<1>5. rl = Be16(r, off + 3) /\ rl \in Nat
  BY <1>1, <1>3, ExtendsReads, ReadType
<1> HIDE DEF rl
<1>6. CASE Rd(p, off) # Handshake \/ Rd(p, off + 1) # 3 \/ rl \notin 1..MaxRecord
  BY <1>2, <1>3, <1>4, <1>5, <1>6 DEF TakeRecord, rl
<1>7. CASE ~(Rd(p, off) # Handshake \/ Rd(p, off + 1) # 3 \/ rl \notin 1..MaxRecord)
  <2>1. ~(Size(p) - off - RecordHeader < rl)
    BY <1>2, <1>7 DEF TakeRecord, rl
  <2>2. off + RecordHeader \in Nat /\ off + RecordHeader + rl <= Size(p)
        /\ ~(Size(r) - off - RecordHeader < rl)
    BY <1>1, <1>5, <2>1 DEF RecordHeader
  <2>3. Bytes(p, off + RecordHeader, rl) = Bytes(r, off + RecordHeader, rl)
    BY <1>5, <2>2, ExtendsBytes
  <2> QED
    BY <1>2, <1>3, <1>4, <1>5, <1>7, <2>1, <2>2, <2>3 DEF TakeRecord, rl
<1> QED
  BY <1>6, <1>7

\* The turn of the loop after the one at off: it is further on and inside the buffer.
LEMMA JoinNext ==
  ASSUME NEW p \in Buffers, NEW off \in Nat, NEW s \in Seq(Byte), TakeRecord(p, off).res = "Found"
  PROVE  LET rec == TakeRecord(p, off)
             next == off + RecordHeader + Len(rec.bytes)
         IN /\ rec.bytes \in Seq(Byte) /\ s \o rec.bytes \in Seq(Byte)
            /\ Len(s \o rec.bytes) = Len(s) + Len(rec.bytes)
            /\ next \in Nat /\ next > off /\ next <= Size(p)
<1> DEFINE rec == TakeRecord(p, off)
<1>1. /\ rec.bytes \in Seq(Byte) /\ Len(rec.bytes) \in Nat /\ Len(rec.bytes) >= 1
      /\ off + RecordHeader + Len(rec.bytes) <= Size(p)
  BY TakeRecordType, HelloLimitsAssumption, LenProperties
<1>2. s \o rec.bytes \in Seq(Byte) /\ Len(s \o rec.bytes) = Len(s) + Len(rec.bytes)
  BY <1>1, ConcatProperties
<1>3. PICK L \in Nat : L = Len(rec.bytes)
  BY <1>1
<1>4. off + RecordHeader + L \in Nat /\ off + RecordHeader + L > off
  BY DEF RecordHeader
<1> QED
  BY <1>1, <1>2, <1>3, <1>4

\* Nor does the joined message, once it is there.
LEMMA JoinFinal ==
  ASSUME NEW p, NEW r, Extends(p, r), NEW off \in Nat, NEW s \in Seq(Byte),
         Join(p, off, s) # NeedMore
  PROVE  Join(r, off, s) = Join(p, off, s)
<1> DEFINE A == {o \in Nat : \A t \in Seq(Byte) :
                               Join(p, o, t) # NeedMore => Join(r, o, t) = Join(p, o, t)}
<1>0. p \in Buffers /\ r \in Buffers
  BY DEF Extends
<1>1. ASSUME NEW o \in Nat, \A k \in Nat : k > o /\ k <= Size(p) => k \in A PROVE o \in A
  <2>1. SUFFICES ASSUME NEW t \in Seq(Byte), Join(p, o, t) # NeedMore
                 PROVE  Join(r, o, t) = Join(p, o, t)
    OBVIOUS
  <2> DEFINE rec == TakeRecord(p, o)
             all == t \o rec.bytes
             next == o + RecordHeader + Len(rec.bytes)
             want == HelloSize(Buffer(all, 0), 0)
  <2>2. Join(p, o, t) = IF rec.res # "Found" THEN rec
             ELSE IF Len(all) >= MsgHeader /\ want = 0 THEN NotFound
             ELSE IF Len(all) >= MsgHeader /\ want <= Len(all) THEN Found(SubSeq(all, 1, want))
             ELSE Join(p, next, all)
    BY <1>0, JoinStep
  <2>3. rec # NeedMore
    <3> HIDE DEF all, next, want
    <3> QED
      BY <2>1, <2>2 DEF NeedMore
  <2>4. TakeRecord(r, o) = rec
    BY <2>3, TakeRecordFinal
  <2>5. Join(r, o, t) = IF rec.res # "Found" THEN rec
             ELSE IF Len(all) >= MsgHeader /\ want = 0 THEN NotFound
             ELSE IF Len(all) >= MsgHeader /\ want <= Len(all) THEN Found(SubSeq(all, 1, want))
             ELSE Join(r, next, all)
    BY <1>0, <2>4, JoinStep
  <2>6. ASSUME rec.res = "Found", Join(p, next, all) # NeedMore
        PROVE  Join(r, next, all) = Join(p, next, all)
    <3>1. all \in Seq(Byte) /\ next \in Nat /\ next > o /\ next <= Size(p)
      BY <1>0, <2>6, JoinNext
    <3> HIDE DEF next, all
    <3> QED
      BY <1>1, <2>6, <3>1
  <2> HIDE DEF rec, all, next, want
  <2> QED
    BY <2>1, <2>2, <2>5, <2>6
<1>2. Size(p) \in Nat
  BY <1>0, ReadType
<1>3. off \in A
  <2> HIDE DEF A
  <2> QED
    BY <1>1, <1>2, TowardsEnd
<1> QED
  BY <1>3

\* The answers there are.
Answers == {NeedMore, NotFound} \cup {Found(b) : b \in Seq(Byte)}

\* A message's length, when its header has been read.
LEMMA HelloSizeType ==
  ASSUME NEW p \in Buffers, NEW i \in Nat
  PROVE  HelloSize(p, i) \in Nat /\ (HelloSize(p, i) # 0 => HelloSize(p, i) >= MsgHeader)
<1>1. i + 1 \in Nat /\ i + 2 \in Nat /\ i + 1 + 1 = i + 2
  OBVIOUS
<1>2. PICK x \in Byte, y \in Nat : x = Rd(p, i + 1) /\ y = Be16(p, i + 1 + 1)
  BY <1>1, ReadType
<1>3. Be24(p, i + 1) = x * 65536 + y
  BY <1>2 DEF Be24
<1>4. x * 65536 + y \in Nat
  BY DEF Byte
<1> QED
  BY <1>3, <1>4 DEF HelloSize, MsgHeader

\* Joining records gives an answer.
LEMMA JoinType ==
  ASSUME NEW p \in Buffers, NEW off \in Nat, NEW s \in Seq(Byte) PROVE Join(p, off, s) \in Answers
<1> DEFINE A == {o \in Nat : \A t \in Seq(Byte) : Join(p, o, t) \in Answers}
<1>1. ASSUME NEW o \in Nat, \A k \in Nat : k > o /\ k <= Size(p) => k \in A PROVE o \in A
  <2>1. SUFFICES ASSUME NEW t \in Seq(Byte) PROVE Join(p, o, t) \in Answers
    OBVIOUS
  <2> DEFINE rec == TakeRecord(p, o)
             all == t \o rec.bytes
             next == o + RecordHeader + Len(rec.bytes)
             want == HelloSize(Buffer(all, 0), 0)
  <2>2. rec.res # "Found" => rec \in Answers
    BY DEF TakeRecord, Answers, Found
  <2>3. ASSUME rec.res = "Found"
        PROVE  /\ Join(p, next, all) \in Answers
               /\ want <= Len(all) => Found(SubSeq(all, 1, want)) \in Answers
    <3>1. all \in Seq(Byte) /\ next \in Nat /\ next > o /\ next <= Size(p)
      BY <2>3, JoinNext
    <3>2. Join(p, next, all) \in Answers
      <4> HIDE DEF next, all
      <4> QED
        BY <1>1, <3>1
    <3> HIDE DEF all
    <3>3. want \in Nat
      <4>1. 0 \in Byte
        BY DEF Byte
      <4> QED
        BY <3>1, <4>1, BufferFields, HelloSizeType
    <3> HIDE DEF want
    <3>4. ASSUME want <= Len(all) PROVE SubSeq(all, 1, want) \in Seq(Byte)
      <4>1. \A i \in 1..want : all[i] \in Byte
        BY <3>1, <3>3, <3>4, LenProperties, ElementOfSeq
      <4> QED
        BY <3>3, <4>1, SubSeqProperties
    <3> QED
      BY <3>2, <3>4 DEF Answers
  <2>4. Join(p, o, t) = IF rec.res # "Found" THEN rec
             ELSE IF Len(all) >= MsgHeader /\ want = 0 THEN NotFound
             ELSE IF Len(all) >= MsgHeader /\ want <= Len(all) THEN Found(SubSeq(all, 1, want))
             ELSE Join(p, next, all)
    BY JoinStep
  <2>5. NotFound \in Answers
    BY DEF Answers
  <2> HIDE DEF rec, all, next, want
  <2> QED
    BY <2>2, <2>3, <2>4, <2>5
<1>2. Size(p) \in Nat
  BY ReadType
<1>3. off \in A
  <2> HIDE DEF A
  <2> QED
    BY <1>1, <1>2, TowardsEnd
<1> QED
  BY <1>3

\* A message header within a buffer is the same in a longer one.
LEMMA HelloSizeExtends ==
  ASSUME NEW p, NEW r, Extends(p, r), NEW i \in Nat, i + MsgHeader <= Size(p)
  PROVE  HelloSize(p, i) = HelloSize(r, i)
<1>1. i + 1 \in Nat /\ i < Size(p) /\ i + 1 + 3 <= Size(p)
  BY ExtendsReads DEF MsgHeader
<1>2. Rd(p, i) = Rd(r, i) /\ Be24(p, i + 1) = Be24(r, i + 1)
  BY <1>1, ExtendsReads
<1> QED
  BY <1>2 DEF HelloSize

\* The two ways collectHandshake() goes once the first record header is there and
\* announces a handshake record.
FirstRecord(p) ==
  /\ Size(p) >= RecordHeader /\ Rd(p, 0) = Handshake /\ Rd(p, 1) = 3
  /\ Be16(p, 3) \in 1..MaxRecord

\* What collectHandshake() does in each of them.
LEMMA CollectCases ==
  ASSUME NEW p \in Buffers
  PROVE  LET want == HelloSize(p, RecordHeader)
             hs == CollectHandshake(p)
         IN /\ ~FirstRecord(p) => hs \in {NeedMore, NotFound}
            /\ FirstRecord(p) =>
                 hs = IF FastPath(p) /\ want = 0 THEN NotFound
                      ELSE IF FastPath(p) /\ want <= Be16(p, 3)
                        THEN IF Size(p) < RecordHeader + want THEN NeedMore
                             ELSE Found(Bytes(p, RecordHeader, want))
                      ELSE Join(p, 0, <<>>)
<1>1. Size(p) \in Nat
  BY ReadType
<1>2. ASSUME ~FirstRecord(p) PROVE CollectHandshake(p) \in {NeedMore, NotFound}
  BY <1>1, <1>2 DEF CollectHandshake, FirstRecord, RecordHeader
<1>3. ASSUME FirstRecord(p)
      PROVE  Size(p) # 0 /\ ~(Rd(p, 0) # Handshake \/ (Size(p) >= 2 /\ Rd(p, 1) # 3))
             /\ ~(Size(p) < RecordHeader)
  BY <1>1, <1>3 DEF FirstRecord, RecordHeader
<1>4. ASSUME FirstRecord(p)
      PROVE  CollectHandshake(p) =
                 IF FastPath(p) /\ HelloSize(p, RecordHeader) = 0 THEN NotFound
                 ELSE IF FastPath(p) /\ HelloSize(p, RecordHeader) <= Be16(p, 3)
                   THEN IF Size(p) < RecordHeader + HelloSize(p, RecordHeader) THEN NeedMore
                        ELSE Found(Bytes(p, RecordHeader, HelloSize(p, RecordHeader)))
                 ELSE Join(p, 0, <<>>)
  <2>1. Be16(p, 3) \in 1..MaxRecord
    BY <1>4 DEF FirstRecord
  <2> QED
    BY <1>3, <1>4, <2>1 DEF CollectHandshake
<1> QED
  BY <1>2, <1>4

\* collectHandshake() gives an answer.
LEMMA CollectType ==
  ASSUME NEW p \in Buffers PROVE CollectHandshake(p) \in Answers
<1> DEFINE want == HelloSize(p, RecordHeader)
<1>0. RecordHeader \in Nat /\ <<>> \in Seq(Byte) /\ 0 \in Nat
  BY DEF RecordHeader
<1>1. want \in Nat /\ Size(p) \in Nat
  BY <1>0, HelloSizeType, ReadType
<1>2. NeedMore \in Answers /\ NotFound \in Answers /\ Join(p, 0, <<>>) \in Answers
  BY <1>0, JoinType DEF Answers
<1>3. ~(Size(p) < RecordHeader + want) => Found(Bytes(p, RecordHeader, want)) \in Answers
  <2>1. ~(Size(p) < RecordHeader + want) => Bytes(p, RecordHeader, want) \in Seq(Byte)
    <3> HIDE DEF want
    <3> QED
      BY <1>0, <1>1, BytesInside
  <2> QED
    BY <2>1 DEF Answers
<1> QED
  BY <1>2, <1>3, CollectCases

\* What collectHandshake() finds does not change when more bytes come.
LEMMA CollectFinal ==
  ASSUME NEW p, NEW r, Extends(p, r), CollectHandshake(p) # NeedMore
  PROVE  CollectHandshake(r) = CollectHandshake(p)
<1> DEFINE want == HelloSize(p, RecordHeader)
<1>1. /\ p \in Buffers /\ r \in Buffers /\ Size(p) \in Nat /\ Size(r) \in Nat
      /\ Size(p) <= Size(r) /\ RecordHeader \in Nat /\ <<>> \in Seq(Byte)
  BY ExtendsReads DEF Extends, RecordHeader
<1>2. Join(p, 0, <<>>) # NeedMore => Join(r, 0, <<>>) = Join(p, 0, <<>>)
  <2>1. ASSUME NEW e \in Seq(Byte), Join(p, 0, e) # NeedMore PROVE Join(r, 0, e) = Join(p, 0, e)
    BY <2>1, JoinFinal
  <2> QED
    BY <1>1, <2>1, Zenon
<1>3. CASE ~FirstRecord(p)
  <2>1. CollectHandshake(p) = NotFound
    BY <1>1, <1>3, CollectCases
  <2>2. Size(p) # 0
    BY <2>1 DEF CollectHandshake, NeedMore, NotFound
  <2>3. /\ Rd(p, 0) = Rd(r, 0) /\ Size(r) # 0
        /\ Size(p) >= 2 => Rd(p, 1) = Rd(r, 1) /\ Size(r) >= 2
        /\ Size(p) >= 5 => Be16(p, 3) = Be16(r, 3) /\ Size(r) >= 5
    BY <1>1, <2>2, ExtendsReads
  <2>4. CASE Rd(p, 0) # Handshake \/ (Size(p) >= 2 /\ Rd(p, 1) # 3)
    BY <2>1, <2>3, <2>4 DEF CollectHandshake
  <2>5. CASE ~(Rd(p, 0) # Handshake \/ (Size(p) >= 2 /\ Rd(p, 1) # 3))
    <3>1. ~(Size(p) < RecordHeader)
      BY <2>1, <2>2, <2>5 DEF CollectHandshake, NeedMore, NotFound
    <3>2. Size(p) >= 2 /\ Size(p) >= 5 /\ ~(Size(r) < RecordHeader)
      BY <1>1, <3>1 DEF RecordHeader
    <3>3. Be16(p, 3) \notin 1..MaxRecord
      BY <1>1, <1>3, <2>5, <3>1, <3>2 DEF FirstRecord, RecordHeader
    <3> QED
      BY <2>1, <2>3, <2>5, <3>2, <3>3 DEF CollectHandshake
  <2> QED
    BY <2>4, <2>5
<1>4. CASE FirstRecord(p)
  <2>1. FirstRecord(r) /\ Be16(p, 3) = Be16(r, 3) /\ Be16(p, 3) \in Nat
    <3>1. Size(p) >= 5
      BY <1>1, <1>4 DEF FirstRecord, RecordHeader
    <3>2. Rd(p, 0) = Rd(r, 0) /\ Rd(p, 1) = Rd(r, 1) /\ Be16(p, 3) = Be16(r, 3) /\ Size(r) >= 5
      BY <1>1, <3>1, ExtendsReads
    <3> QED
      BY <1>1, <1>4, <3>2, ReadType DEF FirstRecord, RecordHeader
  <2> DEFINE C(b) == IF FastPath(b) /\ HelloSize(b, RecordHeader) = 0 THEN NotFound
                     ELSE IF FastPath(b) /\ HelloSize(b, RecordHeader) <= Be16(b, 3)
                       THEN IF Size(b) < RecordHeader + HelloSize(b, RecordHeader) THEN NeedMore
                            ELSE Found(Bytes(b, RecordHeader, HelloSize(b, RecordHeader)))
                     ELSE Join(b, 0, <<>>)
  <2>2. CollectHandshake(p) = C(p) /\ CollectHandshake(r) = C(r)
    BY <1>1, <1>4, <2>1, CollectCases
  <2>3. CASE FastPath(p)
    <3>1. RecordHeader + MsgHeader <= Size(p)
      BY <2>3 DEF FastPath, RecordHeader, MsgHeader
    <3>2. FastPath(r) /\ HelloSize(r, RecordHeader) = want /\ want \in Nat
      BY <1>1, <2>1, <2>3, <3>1, HelloSizeExtends, HelloSizeType
         DEF FastPath, RecordHeader, MsgHeader
    <3> HIDE DEF want
    <3>3. ASSUME ~(Size(p) < RecordHeader + want)
          PROVE  /\ Bytes(p, RecordHeader, want) = Bytes(r, RecordHeader, want)
                 /\ ~(Size(r) < RecordHeader + want)
      <4>1. RecordHeader + want <= Size(p)
        BY <1>1, <3>2, <3>3
      <4> QED
        BY <1>1, <3>2, <4>1, ExtendsBytes
    <3> QED
      BY <1>2, <2>1, <2>2, <2>3, <3>2, <3>3 DEF want
  <2>4. CASE ~FastPath(p)
    <3>1. CollectHandshake(p) = Join(p, 0, <<>>)
      BY <2>2, <2>4
    <3>2. Join(r, 0, <<>>) = Join(p, 0, <<>>)
      BY <1>2, <3>1
    <3>3. ~(Be16(p, 3) >= MsgHeader)
      <4>0. ASSUME TakeRecord(p, 0) = NeedMore PROVE FALSE
        <5>1. Join(p, 0, <<>>) = TakeRecord(p, 0)
          <6>1. TakeRecord(p, 0).res # "Found"
            BY <4>0 DEF NeedMore
          <6>2. ASSUME NEW e \in Seq(Byte) PROVE Join(p, 0, e) = TakeRecord(p, 0)
            BY <1>1, <6>1, JoinStep
          <6> QED
            BY <1>1, <6>2, Zenon
        <5> QED
          BY <3>1, <4>0, <5>1
      <4>1. SUFFICES ASSUME Be16(p, 3) >= MsgHeader, Size(p) < RecordHeader + MsgHeader
                     PROVE  TakeRecord(p, 0) = NeedMore
        BY <1>1, <2>4, <4>0 DEF FastPath, RecordHeader, MsgHeader
      <4>2. /\ ~(Size(p) - 0 < RecordHeader) /\ Rd(p, 0) = Handshake /\ Rd(p, 0 + 1) = 3
            /\ Be16(p, 0 + 3) \in 1..MaxRecord /\ Size(p) - 0 - RecordHeader < Be16(p, 0 + 3)
        BY <1>1, <1>4, <2>1, <4>1 DEF FirstRecord, RecordHeader, MsgHeader
      <4> QED
        BY <4>2 DEF TakeRecord
    <3>4. ~FastPath(r)
      BY <2>1, <3>3 DEF FastPath
    <3> QED
      BY <2>2, <3>1, <3>2, <3>4
  <2> QED
    BY <2>3, <2>4
<1> QED
  BY <1>3, <1>4

\* The walk through a whole message: it ends, it never waits, and what it finds is the
\* same in every buffer that has the message's bytes.
Settled == Answers \ {NeedMore}

\* A parse of a whole message never waits.
LEMMA SettledCases ==
  NotFound \in Settled /\ \A b \in Seq(Byte) : Found(b) \in Settled
  BY DEF Settled, Answers, NotFound, NeedMore, Found

\* A server name list that ends within the message is read the same, whatever follows.
LEMMA FirstHostNameSame ==
  ASSUME NEW p, NEW r, Extends(p, r), NEW q \in Nat, NEW end \in Nat, end <= Size(p)
  PROVE  /\ FirstHostName(p, q, end) = FirstHostName(r, q, end)
         /\ FirstHostName(p, q, end) \in Settled
<1> DEFINE A == {o \in Nat : /\ FirstHostName(p, o, end) = FirstHostName(r, o, end)
                             /\ FirstHostName(p, o, end) \in Settled}
<1>0. p \in Buffers /\ r \in Buffers /\ Size(p) \in Nat
  BY ExtendsReads DEF Extends
<1>1. ASSUME NEW o \in Nat, \A k \in Nat : k > o /\ k <= end => k \in A PROVE o \in A
  <2> DEFINE n == Be16(p, o + 1)
             Step(b, m) == IF o + 3 > end \/ o + 3 + m > end THEN NotFound
                           ELSE IF Rd(b, o) = 0 THEN Found(Bytes(b, o + 3, m))
                           ELSE FirstHostName(b, o + 3 + m, end)
  <2>1. FirstHostName(p, o, end) = Step(p, n) /\ FirstHostName(r, o, end) = Step(r, Be16(r, o + 1))
    BY <1>0, FirstHostNameStep
  <2>2. o + 1 \in Nat /\ o + 3 \in Nat /\ n \in Nat
    BY <1>0, ReadType
  <2>3. CASE o + 3 > end
    BY <2>1, <2>3, SettledCases
  <2>4. CASE ~(o + 3 > end)
    <3>1. o < Size(p) /\ o + 1 + 2 <= Size(p)
      BY <1>0, <2>4
    <3>2. Rd(p, o) = Rd(r, o) /\ n = Be16(r, o + 1)
      BY <2>2, <3>1, ExtendsReads
    <3> HIDE DEF n
    <3>3. CASE o + 3 + n > end
      BY <2>1, <3>2, <3>3, SettledCases
    <3>4. CASE ~(o + 3 + n > end)
      <4>1. o + 3 + n <= Size(p) /\ o + 3 + n \in Nat /\ o + 3 + n > o /\ o + 3 + n <= end
        BY <1>0, <2>2, <3>4
      <4>2. Bytes(p, o + 3, n) = Bytes(r, o + 3, n) /\ Bytes(p, o + 3, n) \in Seq(Byte)
        <5>1. PICK a \in Nat, l \in Nat : a = o + 3 /\ l = n
          BY <2>2
        <5>2. a + l <= Size(p)
          BY <4>1, <5>1
        <5>3. Bytes(p, a, l) = Bytes(r, a, l)
          BY <5>2, ExtendsBytes
        <5>4. Bytes(p, a, l) \in Seq(Byte)
          BY <1>0, <5>2, BytesInside
        <5> QED
          BY <5>1, <5>3, <5>4
      <4>3. o + 3 + n \in A
        BY <1>1, <4>1
      <4>4. Step(p, n) = Step(r, n) /\ Step(p, n) \in Settled
        BY <3>2, <4>2, <4>3, SettledCases
      <4> HIDE DEF Step
      <4> QED
        BY <2>1, <3>2, <4>4
    <3> QED
      BY <3>3, <3>4
  <2> QED
    BY <2>3, <2>4
<1>2. q \in A
  <2> HIDE DEF A
  <2> QED
    BY <1>1, TowardsEnd
<1> QED
  BY <1>2

\* So are the extensions, ...
LEMMA FindServerNameSame ==
  ASSUME NEW p, NEW r, Extends(p, r), NEW o \in Nat, NEW end \in Nat, end <= Size(p)
  PROVE  /\ FindServerName(p, o, end) = FindServerName(r, o, end)
         /\ FindServerName(p, o, end) \in Settled
<1> DEFINE A == {i \in Nat : /\ FindServerName(p, i, end) = FindServerName(r, i, end)
                             /\ FindServerName(p, i, end) \in Settled}
<1>0. p \in Buffers /\ r \in Buffers /\ Size(p) \in Nat
  BY ExtendsReads DEF Extends
<1>1. ASSUME NEW i \in Nat, \A k \in Nat : k > i /\ k <= end => k \in A PROVE i \in A
  <2> DEFINE elen == Be16(p, i + 2)
             Upto(m, l) == IF i + 6 + m < i + 4 + l THEN i + 6 + m ELSE i + 4 + l
             Step(b, l, m) ==
               IF i + 4 > end \/ i + 4 + l > end THEN NotFound
               ELSE IF Be16(b, i) # 0 THEN FindServerName(b, i + 4 + l, end)
               ELSE IF l < 2 THEN NotFound
               ELSE FirstHostName(b, i + 6, Upto(m, l))
  <2>1. /\ FindServerName(p, i, end) = Step(p, elen, Be16(p, i + 4))
        /\ FindServerName(r, i, end) = Step(r, Be16(r, i + 2), Be16(r, i + 4))
    BY <1>0, FindServerNameStep
  <2>2. i + 2 \in Nat /\ i + 4 \in Nat /\ i + 6 \in Nat /\ elen \in Nat /\ Be16(p, i + 4) \in Nat
    BY <1>0, ReadType
  <2>3. CASE i + 4 > end
    BY <2>1, <2>3, SettledCases
  <2>4. CASE ~(i + 4 > end)
    <3>1. i + 2 <= Size(p) /\ i + 2 + 2 <= Size(p)
      BY <1>0, <2>4
    <3>2. Be16(p, i) = Be16(r, i) /\ elen = Be16(r, i + 2)
      BY <2>2, <3>1, ExtendsReads
    <3> HIDE DEF elen
    <3>3. CASE i + 4 + elen > end \/ (Be16(p, i) = 0 /\ elen < 2)
      BY <2>1, <3>2, <3>3, SettledCases
    <3>4. CASE ~(i + 4 + elen > end) /\ Be16(p, i) # 0
      <4>1. i + 4 + elen \in Nat /\ i + 4 + elen > i /\ i + 4 + elen <= end
        BY <2>2, <3>4
      <4>2. i + 4 + elen \in A
        BY <1>1, <4>1
      <4> QED
        BY <2>1, <2>4, <3>2, <3>4, <4>2
    <3>5. CASE ~(i + 4 + elen > end) /\ Be16(p, i) = 0 /\ ~(elen < 2)
      <4>1. i + 4 + 2 <= Size(p)
        BY <1>0, <2>2, <3>5
      <4>2. Be16(p, i + 4) = Be16(r, i + 4)
        BY <2>2, <4>1, ExtendsReads
      <4>3. PICK m \in Nat : m = Be16(p, i + 4)
        BY <2>2
      <4>4. Upto(m, elen) \in Nat /\ Upto(m, elen) <= Size(p)
        BY <1>0, <2>2, <3>5
      <4> HIDE DEF Upto
      <4>5. /\ FirstHostName(p, i + 6, Upto(m, elen)) = FirstHostName(r, i + 6, Upto(m, elen))
            /\ FirstHostName(p, i + 6, Upto(m, elen)) \in Settled
        BY <2>2, <4>4, FirstHostNameSame
      <4> QED
        BY <2>1, <2>4, <3>2, <3>5, <4>2, <4>3, <4>5
    <3> QED
      BY <3>3, <3>4, <3>5
  <2> QED
    BY <2>3, <2>4
<1>2. o \in A
  <2> HIDE DEF A
  <2> QED
    BY <1>1, TowardsEnd
<1> QED
  BY <1>2

\* ... and the message.
LEMMA ParseClientHelloSame ==
  ASSUME NEW p, NEW r, Extends(p, r), Size(p) = Size(r)
  PROVE  ParseClientHello(p) = ParseClientHello(r) /\ ParseClientHello(p) \in Settled
<1> DEFINE sid == MsgHeader + 2 + RandomLen
           Suits(x) == sid + 1 + x
           Comp(s, x) == s + 2 + x
           Exts(c, x) == c + 1 + x
<1>0. p \in Buffers /\ r \in Buffers /\ Size(p) \in Nat
  BY ExtendsReads DEF Extends
<1>1. sid \in Nat
  BY HelloLimitsAssumption DEF MsgHeader
<1>2. CASE Size(p) < MsgHeader \/ Rd(p, 0) # 1 \/ sid + 1 > Size(p)
  <2>1. Size(p) < MsgHeader \/ Rd(p, 0) = Rd(r, 0)
    BY <1>0, ExtendsReads DEF MsgHeader
  <2> QED
    BY <1>2, <2>1, SettledCases DEF ParseClientHello
<1>3. CASE ~(Size(p) < MsgHeader \/ Rd(p, 0) # 1 \/ sid + 1 > Size(p))
  <2>1. Rd(p, 0) = Rd(r, 0) /\ sid < Size(p)
    BY <1>0, <1>1, <1>3, ExtendsReads DEF MsgHeader
  <2>2. PICK a \in Nat : a = Rd(p, sid) /\ a = Rd(r, sid)
    <3> HIDE DEF sid
    <3>1. \A x \in Byte : x \in Nat
      BY DEF Byte
    <3>2. Rd(p, sid) = Rd(r, sid) /\ Rd(p, sid) \in Byte
      BY <1>0, <1>1, <2>1, ExtendsReads, ReadType
    <3> QED
      BY <3>1, <3>2
  <2>3. PICK s \in Nat : s = Suits(a)
    BY <1>1
  <2>4. PICK c \in Nat : c = Comp(s, Be16(p, s))
    BY <1>0, ReadType
  <2>5. PICK e \in Nat : e = Exts(c, Rd(p, c))
    <3>1. \A x \in Byte : Exts(c, x) \in Nat
      BY DEF Byte
    <3> QED
      BY <1>0, <3>1, ReadType
  <2> DEFINE Step(b, c1, e1) ==
               IF s + 2 > Size(p) \/ c1 + 1 > Size(p) \/ e1 + 2 > Size(p) THEN NotFound
               ELSE FindServerName(b, e1 + 2, ExtensionsEnd(b, e1))
  <2>6. ParseClientHello(p) = Step(p, c, e)
    BY <1>3, <2>2, <2>3, <2>4, <2>5 DEF ParseClientHello
  <2>7. ParseClientHello(r)
          = Step(r, Comp(s, Be16(r, s)), Exts(Comp(s, Be16(r, s)), Rd(r, Comp(s, Be16(r, s)))))
    BY <1>3, <2>1, <2>2, <2>3 DEF ParseClientHello
  <2>8. CASE s + 2 > Size(p)
    BY <2>6, <2>7, <2>8, SettledCases
  <2>9. CASE ~(s + 2 > Size(p))
    <3>1. Be16(p, s) = Be16(r, s)
      BY <1>0, <2>9, ExtendsReads
    <3>2. ParseClientHello(r) = Step(r, c, Exts(c, Rd(r, c)))
      BY <2>4, <2>7, <3>1
    <3>3. CASE c + 1 > Size(p)
      BY <2>6, <3>2, <3>3, SettledCases
    <3>4. CASE ~(c + 1 > Size(p))
      <4>1. Rd(p, c) = Rd(r, c)
        BY <1>0, <3>4, ExtendsReads
      <4>2. ParseClientHello(r) = Step(r, c, e)
        BY <2>5, <3>2, <4>1
      <4>3. CASE e + 2 > Size(p)
        BY <2>6, <4>2, <4>3, SettledCases
      <4>4. CASE ~(e + 2 > Size(p))
        <5>1. Be16(p, e) = Be16(r, e) /\ Be16(p, e) \in Nat /\ e + 2 \in Nat
          BY <1>0, <4>4, ExtendsReads, ReadType
        <5>2. PICK x \in Nat : x = ExtensionsEnd(p, e) /\ x <= Size(p) /\ x = ExtensionsEnd(r, e)
          BY <1>0, <5>1 DEF ExtensionsEnd
        <5>3. /\ FindServerName(p, e + 2, x) = FindServerName(r, e + 2, x)
              /\ FindServerName(p, e + 2, x) \in Settled
          BY <5>1, <5>2, FindServerNameSame
        <5> QED
          BY <2>6, <2>9, <3>4, <4>2, <4>4, <5>2, <5>3
      <4> QED
        BY <4>3, <4>4
    <3> QED
      BY <3>3, <3>4
  <2> QED
    BY <2>8, <2>9
<1> QED
  BY <1>2, <1>3

-----------------------------------------------------------------------------
\* extractHostname().

\* The same bytes before other memory.
LEMMA SameBytesExtend ==
  ASSUME NEW s \in Seq(Byte), NEW j \in Byte, NEW k \in Byte PROVE Extends(Buffer(s, j), Buffer(s, k))
<1>1. ASSUME NEW i \in Nat, i < Len(s) PROVE Rd(Buffer(s, j), i) = Rd(Buffer(s, k), i)
  BY <1>1, BufferFields DEF Rd
<1> QED
  BY <1>1, BufferFields, LenProperties DEF Extends

\* A stream extends each beginning of it.
LEMMA PrefixExtends ==
  ASSUME NEW s \in Seq(Byte), NEW n \in Nat, n <= Len(s), NEW j \in Byte, NEW k \in Byte
  PROVE  /\ SubSeq(s, 1, n) \in Seq(Byte) /\ Len(SubSeq(s, 1, n)) = n
         /\ Extends(Buffer(SubSeq(s, 1, n), j), Buffer(s, k))
<1>1. /\ SubSeq(s, 1, n) \in Seq(Byte) /\ Len(SubSeq(s, 1, n)) = n
      /\ \A i \in 1..n : SubSeq(s, 1, n)[i] = s[i]
  <2>1. \A i \in 1..n : s[i] \in Byte
    BY LenProperties, ElementOfSeq
  <2>2. /\ SubSeq(s, 1, n) \in Seq(Byte)
        /\ Len(SubSeq(s, 1, n)) = IF 1 <= n THEN n - 1 + 1 ELSE 0
        /\ \A i \in 1..(n - 1 + 1) : SubSeq(s, 1, n)[i] = s[1 + i - 1]
    BY <2>1, SubSeqProperties
  <2> QED
    BY <2>2
<1>2. PICK t \in Seq(Byte) : t = SubSeq(s, 1, n)
  BY <1>1
<1>3. Len(t) = n /\ Len(s) \in Nat /\ \A i \in 1..n : t[i] = s[i]
  BY <1>1, <1>2, LenProperties
<1>4. ASSUME NEW i \in Nat, i < n PROVE Rd(Buffer(t, j), i) = Rd(Buffer(s, k), i)
  BY <1>3, <1>4, BufferFields DEF Rd
<1> QED
  BY <1>1, <1>2, <1>3, <1>4, BufferFields DEF Extends

\* An answer other than NeedMore is the answer on every longer buffer, whatever is in
\* memory after either.
THEOREM ExtractFinal ==
  ASSUME NEW p, NEW r, Extends(p, r), ExtractHostname(p) # NeedMore
  PROVE  ExtractHostname(r) = ExtractHostname(p)
<1> DEFINE hs == CollectHandshake(p)
<1>1. p \in Buffers /\ r \in Buffers /\ p.junk \in Byte /\ r.junk \in Byte
  BY DEF Extends, Buffers
<1>2. hs \in Answers
  BY <1>1, CollectType
<1>3. hs # NeedMore
  BY DEF ExtractHostname, NeedMore
<1>4. CollectHandshake(r) = hs
  BY <1>3, CollectFinal
<1>5. CASE hs.res = "Found"
  <2>1. PICK b \in Seq(Byte) : hs = Found(b)
    BY <1>2, <1>5 DEF Answers, NeedMore, NotFound
  <2>2. hs.bytes = b
    BY <2>1 DEF Found
  <2>3. /\ Extends(Buffer(b, p.junk), Buffer(b, r.junk))
        /\ Size(Buffer(b, p.junk)) = Size(Buffer(b, r.junk))
    BY <1>1, SameBytesExtend, BufferFields
  <2>4. ParseClientHello(Buffer(b, p.junk)) = ParseClientHello(Buffer(b, r.junk))
    BY <2>3, ParseClientHelloSame
  <2> QED
    BY <1>4, <1>5, <2>2, <2>4 DEF ExtractHostname
<1>6. CASE hs.res # "Found"
  BY <1>4, <1>6 DEF ExtractHostname
<1> QED
  BY <1>5, <1>6

\* The answer does not depend on what is in memory after the bytes.
THEOREM ExtractReadsItsBytes ==
  ASSUME NEW s \in Seq(Byte), NEW j \in Byte, NEW k \in Byte
  PROVE  ExtractHostname(Buffer(s, j)) = ExtractHostname(Buffer(s, k))
<1>1. Extends(Buffer(s, j), Buffer(s, k)) /\ Extends(Buffer(s, k), Buffer(s, j))
  BY SameBytesExtend
<1>2. ExtractHostname(Buffer(s, j)) # NeedMore \/ ExtractHostname(Buffer(s, k)) # NeedMore
        => ExtractHostname(Buffer(s, j)) = ExtractHostname(Buffer(s, k))
  BY <1>1, ExtractFinal
<1> QED
  BY <1>2

\* extractHostname() gives an answer.
LEMMA ExtractType == ASSUME NEW p \in Buffers PROVE ExtractHostname(p) \in Answers
<1> DEFINE hs == CollectHandshake(p)
<1>1. hs \in Answers /\ p.junk \in Byte
  BY CollectType DEF Buffers
<1>2. CASE hs.res = "Found"
  <2>1. PICK b \in Seq(Byte) : hs = Found(b)
    BY <1>1, <1>2 DEF Answers, NeedMore, NotFound
  <2>2. hs.bytes = b
    BY <2>1 DEF Found
  <2>3. Extends(Buffer(b, p.junk), Buffer(b, p.junk))
    BY <1>1, SameBytesExtend
  <2>4. ParseClientHello(Buffer(b, p.junk)) \in Settled
    BY <2>3, ParseClientHelloSame
  <2> QED
    BY <1>2, <2>2, <2>4 DEF ExtractHostname, Settled
<1>3. CASE hs.res # "Found"
  BY <1>1, <1>3 DEF ExtractHostname
<1> QED
  BY <1>2, <1>3

-----------------------------------------------------------------------------
\* Packet::flow_view() reads nothing outside the packet either.

\* The transport header, which begins within the packet.
LEMMA ParseL4Same ==
  ASSUME NEW p, NEW r, Extends(p, r), NEW off \in Nat, NEW len \in Nat, off + len <= Size(p),
         NEW proto, NEW f
  PROVE  ParseL4(proto, p, off, len, f) = ParseL4(proto, r, off, len, f)
<1>0. Size(p) \in Nat
  BY ExtendsReads
<1>1. ASSUME len >= 8
      PROVE  /\ Be16(p, off) = Be16(r, off) /\ Be16(p, off + 2) = Be16(r, off + 2)
             /\ Be16(p, off + 4) = Be16(r, off + 4)
  <2>1. off + 2 \in Nat /\ off + 4 \in Nat
    OBVIOUS
  <2>2. off + 2 <= Size(p) /\ off + 2 + 2 <= Size(p) /\ off + 4 + 2 <= Size(p)
    BY <1>0, <1>1
  <2> QED
    BY <2>1, <2>2, ExtendsReads
<1>2. ASSUME len >= 20
      PROVE  Rd(p, off + 12) = Rd(r, off + 12) /\ Rd(p, off + 13) = Rd(r, off + 13)
  <2>1. off + 12 \in Nat /\ off + 13 \in Nat /\ off + 12 < Size(p) /\ off + 13 < Size(p)
    BY <1>0, <1>2
  <2> QED
    BY <2>1, ExtendsReads
<1>3. ParseUDP(p, off, len, f) = ParseUDP(r, off, len, f)
  <2>1. CASE len < 8
    BY <2>1 DEF ParseUDP
  <2>2. CASE ~(len < 8)
    <3>1. len >= 8
      BY <2>2
    <3> QED
      BY <1>1, <3>1 DEF ParseUDP
  <2> QED
    BY <2>1, <2>2
<1>4. ParseTCP(p, off, len, f) = ParseTCP(r, off, len, f)
  <2>1. CASE len < 20
    BY <2>1 DEF ParseTCP
  <2>2. CASE ~(len < 20)
    <3>1. len >= 8 /\ len >= 20
      BY <2>2
    <3> QED
      BY <1>1, <1>2, <3>1 DEF ParseTCP
  <2> QED
    BY <2>1, <2>2
<1> QED
  BY <1>3, <1>4 DEF ParseL4

\* An extension header.
LEMMA SkipHeaderSame ==
  ASSUME NEW p, NEW r, Extends(p, r), NEW l3 \in Nat, l3 <= Size(p), NEW h \in Headers, h.off <= l3
  PROVE  SkipHeader(p, l3, h) = SkipHeader(r, l3, h) /\ SkipHeader(p, l3, h).off <= l3
<1>0. Size(p) \in Nat /\ h.off \in Nat /\ p \in Buffers /\ r \in Buffers
  BY ExtendsReads DEF Headers, Extends
<1>1. Past(p, h) \in Nat /\ Past(p, h) >= h.off + 8 /\ Past(r, h) \in Nat /\ Past(r, h) >= h.off + 8
  BY <1>0, PastType
<1>2. CASE h.off + 8 <= l3
  <2>1. /\ h.off + 1 \in Nat /\ h.off + 2 \in Nat /\ h.off < Size(p) /\ h.off + 1 < Size(p)
        /\ h.off + 2 + 2 <= Size(p)
    BY <1>0, <1>2
  <2>2. Rd(p, h.off) = Rd(r, h.off) /\ Rd(p, h.off + 1) = Rd(r, h.off + 1)
        /\ Be16(p, h.off + 2) = Be16(r, h.off + 2)
    BY <1>0, <2>1, ExtendsReads
  <2>3. Past(p, h) = Past(r, h)
    BY <2>2 DEF Past
  <2> QED
    BY <1>1, <2>2, <2>3 DEF SkipHeader, Skippable
<1>3. CASE ~(h.off + 8 <= l3)
  <2>1. ~(Past(p, h) <= l3) /\ ~(Past(r, h) <= l3)
    BY <1>0, <1>1, <1>3
  <2> QED
    BY <2>1 DEF SkipHeader, Skippable
<1> QED
  BY <1>2, <1>3

\* All of them.
LEMMA WalkV6Same ==
  ASSUME NEW p, NEW r, Extends(p, r), NEW l3 \in Nat, l3 <= Size(p), l3 >= 40, NEW n \in Nat
  PROVE  /\ WalkV6(p, l3, n) = WalkV6(r, l3, n) /\ WalkV6(p, l3, n) \in Headers
         /\ WalkV6(p, l3, n).off <= l3
<1> DEFINE A == {k \in Nat : WalkV6(p, l3, k) = WalkV6(r, l3, k) /\ WalkV6(p, l3, k).off <= l3}
<1>0. Size(p) \in Nat /\ p \in Buffers /\ r \in Buffers
  BY ExtendsReads DEF Extends
<1>1. \A k \in Nat : WalkV6(p, l3, k) \in Headers
  BY <1>0, WalkV6Step
<1>2. 0 \in A
  <2>1. Rd(p, 6) = Rd(r, 6)
    BY <1>0, ExtendsReads
  <2>2. /\ WalkV6(p, l3, 0) = [type |-> Rd(p, 6), off |-> 40]
        /\ WalkV6(r, l3, 0) = [type |-> Rd(r, 6), off |-> 40]
    BY <1>0, WalkV6Step
  <2> QED
    BY <2>1, <2>2
<1>3. ASSUME NEW k \in Nat, k \in A PROVE k + 1 \in A
  <2>1. PICK h \in Headers : h = WalkV6(p, l3, k)
    BY <1>1
  <2>2. /\ WalkV6(p, l3, k + 1) = SkipHeader(p, l3, WalkV6(p, l3, k))
        /\ WalkV6(r, l3, k + 1) = SkipHeader(r, l3, WalkV6(r, l3, k))
    BY <1>0, WalkV6Step
  <2>3. h = WalkV6(r, l3, k) /\ h.off <= l3
    BY <1>3, <2>1
  <2>4. SkipHeader(p, l3, h) = SkipHeader(r, l3, h) /\ SkipHeader(p, l3, h).off <= l3
    BY <2>3, SkipHeaderSame
  <2> QED
    BY <2>1, <2>2, <2>3, <2>4
<1>4. n \in A
  <2> HIDE DEF A
  <2> QED
    BY <1>2, <1>3, NatSet
<1> QED
  BY <1>1, <1>4

\* The IPv4 header and what follows it.
LEMMA ParseIPv4Same ==
  ASSUME NEW p, NEW r, Extends(p, r), Size(p) = Size(r) PROVE ParseIPv4(p) = ParseIPv4(r)
<1>0. Size(p) \in Nat /\ p \in Buffers
  BY ExtendsReads DEF Extends
<1>1. CASE Size(p) < 20
  BY <1>1 DEF ParseIPv4
<1>2. CASE ~(Size(p) < 20)
  <2>1. \A i \in Nat : i < 20 => Rd(p, i) = Rd(r, i)
    BY <1>0, <1>2, ExtendsReads
  <2>2. Be16(p, 2) = Be16(r, 2) /\ Be16(p, 6) = Be16(r, 6) /\ Be16(p, 2) \in Nat
    BY <1>0, <1>2, ExtendsReads, ReadType
  <2>3. ASSUME NEW off \in Nat, off + 4 <= 20 PROVE Addr4(p, off) = Addr4(r, off)
    <3>1. ASSUME NEW i \in 1..16, i <= 4 PROVE Rd(p, off + i - 1) = Rd(r, off + i - 1)
      BY <2>1, <2>3, <3>1
    <3> QED
      BY <3>1 DEF Addr4
  <2>4. Addr4(p, 12) = Addr4(r, 12) /\ Addr4(p, 16) = Addr4(r, 16)
    BY <2>3
  <2>5. PICK x \in Byte : x = Rd(p, 0) /\ x = Rd(r, 0)
    BY <1>0, <2>1, ReadType
  <2>6. PICK ihl \in Nat : ihl = (x % 16) * 4
    <3>1. \A y \in Byte : y % 16 \in Nat
      BY DEF Byte
    <3>2. \A y \in Nat : y * 4 \in Nat
      OBVIOUS
    <3> QED
      BY <3>1, <3>2
  <2> DEFINE f(b) == [NoFlow EXCEPT !.ip_version = 4, !.src_ip = Addr4(b, 12), !.dst_ip = Addr4(b, 16)]
             l3 == IF Be16(p, 2) \in ihl..Size(p) THEN Be16(p, 2) ELSE Size(p)
             Bad == ihl < 20 \/ ihl > Size(p) \/ Be16(p, 6) % 8192 # 0
  <2>7. f(p) = f(r) /\ Rd(p, 9) = Rd(r, 9)
    <3>1. f(p) = f(r)
      BY <2>4, Zenon
    <3>2. Rd(p, 9) = Rd(r, 9)
      BY <2>1
    <3> QED
      BY <3>1, <3>2
  <2>8. /\ ParseIPv4(p) = IF Bad THEN Undissected ELSE ParseL4(Rd(p, 9), p, ihl, l3 - ihl, f(p))
        /\ ParseIPv4(r) = IF Bad THEN Undissected ELSE ParseL4(Rd(r, 9), r, ihl, l3 - ihl, f(r))
    BY <1>2, <2>2, <2>5, <2>6 DEF ParseIPv4
  <2>9. ASSUME ~Bad PROVE l3 - ihl \in Nat /\ ihl + (l3 - ihl) <= Size(p)
    BY <1>0, <2>2, <2>9
  <2> HIDE DEF f, l3, Bad
  <2>10. ASSUME ~Bad
         PROVE  ParseL4(Rd(p, 9), p, ihl, l3 - ihl, f(p)) = ParseL4(Rd(p, 9), r, ihl, l3 - ihl, f(p))
    BY <2>9, <2>10, ParseL4Same
  <2> QED
    BY <2>7, <2>8, <2>10
<1> QED
  BY <1>1, <1>2

\* The IPv6 header and what follows it.
LEMMA ParseIPv6Same ==
  ASSUME NEW p, NEW r, Extends(p, r), Size(p) = Size(r) PROVE ParseIPv6(p) = ParseIPv6(r)
<1>0. Size(p) \in Nat /\ p \in Buffers
  BY ExtendsReads DEF Extends
<1>1. CASE Size(p) < 40
  BY <1>1 DEF ParseIPv6
<1>2. CASE ~(Size(p) < 40)
  <2>1. Be16(p, 4) = Be16(r, 4) /\ Be16(p, 4) \in Nat
    BY <1>0, <1>2, ExtendsReads, ReadType
  <2>2. Bytes(p, 8, 16) = Bytes(r, 8, 16) /\ Bytes(p, 24, 16) = Bytes(r, 24, 16)
    BY <1>0, <1>2, ExtendsBytes
  <2>3. PICK l3 \in Nat : /\ l3 = IF 40 + Be16(p, 4) <= Size(p) THEN 40 + Be16(p, 4) ELSE Size(p)
                          /\ l3 <= Size(p) /\ l3 >= 40
    BY <1>0, <1>2, <2>1
  <2> DEFINE n == MaxV6ExtHeaders - 1
             f(b) == [NoFlow EXCEPT !.ip_version = 6, !.src_ip = Bytes(b, 8, 16),
                                    !.dst_ip = Bytes(b, 24, 16)]
  <2>4. n \in Nat
    BY DEF MaxV6ExtHeaders
  <2>5. PICK h \in Headers : h = WalkV6(p, l3, n) /\ h = WalkV6(r, l3, n) /\ h.off <= l3
    <3> HIDE DEF n
    <3> QED
      BY <2>3, <2>4, WalkV6Same
  <2>6. f(p) = f(r)
    BY <2>2
  <2>7. /\ ParseIPv6(p) = ParseL4(h.type, p, h.off, l3 - h.off, f(p))
        /\ ParseIPv6(r) = ParseL4(h.type, r, h.off, l3 - h.off, f(r))
    BY <1>2, <2>1, <2>3, <2>5 DEF ParseIPv6
  <2>8. h.off \in Nat /\ l3 - h.off \in Nat /\ h.off + (l3 - h.off) <= Size(p)
    BY <1>0, <2>3, <2>5 DEF Headers
  <2> HIDE DEF f
  <2>9. ParseL4(h.type, p, h.off, l3 - h.off, f(p)) = ParseL4(h.type, r, h.off, l3 - h.off, f(p))
    BY <2>8, ParseL4Same
  <2> QED
    BY <2>6, <2>7, <2>9
<1> QED
  BY <1>1, <1>2

\* The view of a packet does not depend on what is in memory after the bytes captured.
THEOREM FlowViewReadsItsBytes ==
  ASSUME NEW s \in Seq(Byte), NEW j \in Byte, NEW k \in Byte
  PROVE  FlowViewOf(Buffer(s, j)) = FlowViewOf(Buffer(s, k))
<1> DEFINE p == Buffer(s, j)
           r == Buffer(s, k)
<1>1. Extends(p, r) /\ Size(p) = Size(r) /\ Size(p) \in Nat
  BY SameBytesExtend, BufferFields, LenProperties
<1> HIDE DEF p, r
<1>2. ParseIPv4(p) = ParseIPv4(r) /\ ParseIPv6(p) = ParseIPv6(r)
  BY <1>1, ParseIPv4Same, ParseIPv6Same
<1>3. Size(p) > 0 => Rd(p, 0) = Rd(r, 0)
  BY <1>1, ExtendsReads
<1>4. ParseFlow(p) = ParseFlow(r)
  <2>1. CASE Size(p) > 0
    BY <1>1, <1>2, <1>3, <2>1 DEF ParseFlow
  <2>2. CASE ~(Size(p) > 0)
    BY <1>1, <2>2 DEF ParseFlow
  <2> QED
    BY <2>1, <2>2
<1> QED
  BY <1>4 DEF FlowViewOf, p, r
=============================================================================
