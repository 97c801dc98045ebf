----------------------------- MODULE WireProofs -----------------------------
(***************************************************************************)
(* What the parsers read in bytes that a client wrote: extractHostname()   *)
(* in a hello in records, and Packet::flow_view() in a packet.             *)
(***************************************************************************)
EXTENDS Inspection, ParserProofs

-----------------------------------------------------------------------------
\* Sequences.

\* s is made of the parts ss, the i-th of which comes after at[i] elements.
Parts(ss, s, at) ==
  /\ at \in [1..(Len(ss) + 1) -> Nat] /\ at[1] = 0 /\ at[Len(ss) + 1] = Len(s)
  /\ \A i \in 1..Len(ss) : /\ at[i + 1] = at[i] + Len(ss[i])
                           /\ \A k \in 1..Len(ss[i]) : s[at[i] + k] = ss[i][k]

\* A concatenation, element by element.
LEMMA Cat ==
  ASSUME NEW T, NEW s \in Seq(T), NEW t \in Seq(T)
  PROVE  /\ Len(s) \in Nat /\ Len(t) \in Nat
         /\ s \o t \in Seq(T) /\ Len(s \o t) = Len(s) + Len(t)
         /\ \A k \in 1..Len(s) : (s \o t)[k] = s[k]
         /\ \A k \in 1..Len(t) : (s \o t)[Len(s) + k] = t[k]
<1>1. PICK a \in Nat, b \in Nat : a = Len(s) /\ b = Len(t)
  BY LenProperties
<1>2. /\ s \o t \in Seq(T) /\ Len(s \o t) = a + b
      /\ \A i \in 1..(a + b) : (s \o t)[i] = IF i <= a THEN s[i] ELSE t[i - a]
  BY <1>1, ConcatProperties
<1>3. ASSUME NEW k \in 1..a PROVE (s \o t)[k] = s[k]
  <2>1. k \in 1..(a + b) /\ k <= a
    OBVIOUS
  <2> QED
    BY <1>2, <2>1
<1>4. ASSUME NEW k \in 1..b PROVE (s \o t)[a + k] = t[k]
  <2>1. a + k \in 1..(a + b) /\ ~(a + k <= a) /\ a + k - a = k
    OBVIOUS
  <2> QED
    BY <1>2, <2>1
<1> QED
  BY <1>1, <1>2, <1>3, <1>4

\* A list of sequences, one after the other: by induction over the list.
LEMMA FlattenParts ==
  ASSUME NEW T, NEW ss \in Seq(Seq(T))
  PROVE  FlattenSeq(ss) \in Seq(T) /\ \E at : Parts(ss, FlattenSeq(ss), at)
<1>1. Len(ss) \in Nat /\ \A i \in 1..Len(ss) : ss[i] \in Seq(T) /\ Len(ss[i]) \in Nat
  BY LenProperties, ElementOfSeq
<1>2. PICK n \in Nat : n = Len(ss)
  BY <1>1
<1>3. CASE n = 0
  <2>1. ss = <<>> /\ FlattenSeq(ss) = <<>>
    BY <1>2, <1>3, EmptySeq DEF FlattenSeq
  <2> DEFINE at == [i \in 1..1 |-> 0]
  <2>2. at \in [1..1 -> Nat] /\ at[1] = 0
    OBVIOUS
  <2>3. Len(<<>>) = 0 /\ <<>> \in Seq(T) /\ 0 + 1 = 1
    BY EmptySeq
  <2>4. Parts(ss, FlattenSeq(ss), at)
    <3> HIDE DEF at
    <3> QED
      BY <1>2, <1>3, <2>1, <2>2, <2>3 DEF Parts
  <2> QED
    BY <2>1, <2>3, <2>4
<1>4. CASE n # 0
  <2> DEFINE D == 1..n
             Is(f) == f = [i \in D |-> IF i = 1 THEN ss[i] ELSE f[i - 1] \o ss[i]]
             F == CHOOSE f : Is(f)
             base == [i \in D |-> ss[i]]
             next == [i \in D |-> i - 1]
             step == [u \in D \X Seq(T) |-> u[2] \o ss[u[1]]]
             m == [i \in D |-> i]
  <2>1. PICK f : Recursion(D, {1}, base, next, step, f)
    <3>1. m \in [D -> Nat] /\ \A x \in D : x \notin {1} => next[x] \in D /\ m[next[x]] < m[x]
      OBVIOUS
    <3> HIDE DEF m, D, base, next, step
    <3> QED
      BY <3>1, RecursionExists
  <2>2. /\ f = [i \in D |-> f[i]]
        /\ \A i \in D : f[i] = IF i = 1 THEN ss[i] ELSE step[<<i, f[i - 1]>>]
    <3>1. f = [x \in D |-> IF x \in {1} THEN base[x] ELSE step[<<x, f[next[x]]>>]]
      BY <2>1 DEF Recursion
    <3>2. \A i \in D : base[i] = ss[i] /\ next[i] = i - 1
      OBVIOUS
    <3> HIDE DEF D, base, next, step
    <3> QED
      BY <3>1, <3>2
  <2>3. \A i \in D, s \in Seq(T) : step[<<i, s>>] = s \o ss[i] /\ step[<<i, s>>] \in Seq(T)
    <3>1. \A i \in D, s \in Seq(T) : step[<<i, s>>] = s \o ss[i]
      OBVIOUS
    <3>2. \A i \in D : ss[i] \in Seq(T)
      BY <1>1, <1>2
    <3>3. ASSUME NEW i \in D, NEW s \in Seq(T) PROVE s \o ss[i] \in Seq(T)
      <4>1. PICK t \in Seq(T) : t = ss[i]
        BY <3>2
      <4> QED
        BY <4>1, Cat
    <3> HIDE DEF D, step
    <3> QED
      BY <3>1, <3>3
  <2> HIDE DEF step
  <2>4. ASSUME NEW g, \A i \in D : g[i] = IF i = 1 THEN ss[i] ELSE step[<<i, g[i - 1]>>]
        PROVE  \A i \in D : g[i] \in Seq(T)
    <3> DEFINE A == {i \in Nat : i + 1 \in D => g[i + 1] \in Seq(T)}
    <3>0. 1 \in D /\ 0 + 1 = 1
      BY <1>4
    <3>1. 0 \in A
      <4>1. g[1] = ss[1] /\ ss[1] \in Seq(T)
        BY <1>1, <1>2, <2>4, <3>0
      <4> QED
        BY <3>0, <4>1
    <3>2. ASSUME NEW i \in Nat, i \in A PROVE i + 1 \in A
      <4>1. SUFFICES ASSUME i + 1 + 1 \in D PROVE g[i + 1 + 1] \in Seq(T)
        OBVIOUS
      <4>2. i + 1 \in D /\ i + 1 + 1 # 1 /\ i + 1 + 1 - 1 = i + 1
        BY <4>1
      <4>3. g[i + 1] \in Seq(T)
        BY <3>2, <4>2
      <4>4. g[i + 1 + 1] = step[<<i + 1 + 1, g[i + 1]>>]
        BY <2>4, <4>1, <4>2
      <4> HIDE DEF D
      <4> QED
        BY <2>3, <4>1, <4>3, <4>4
    <3>3. \A i \in Nat : i \in A
      <4> HIDE DEF A
      <4> QED
        BY <3>1, <3>2, NatSet
    <3>4. TAKE i \in D
    <3>5. i - 1 \in Nat /\ i - 1 + 1 = i
      BY <3>4
    <3>6. i - 1 \in A
      BY <3>3, <3>5
    <3> QED
      BY <3>4, <3>5, <3>6
  <2>5. Is(f)
    <3>1. \A i \in D : f[i] \in Seq(T)
      BY <2>2, <2>4
    <3>2. \A i \in D : i # 1 => i - 1 \in D
      OBVIOUS
    <3>3. \A i \in D : i # 1 => step[<<i, f[i - 1]>>] = f[i - 1] \o ss[i]
      BY <2>3, <3>1, <3>2
    <3> HIDE DEF D
    <3> QED
      BY <2>2, <3>3
  <2>6. Is(F)
    BY <2>5, Zenon
  <2>7. FlattenSeq(ss) = F[n]
    <3>1. Len(ss) # 0
      BY <1>2, <1>4
    <3> QED
      BY <1>2, <3>1, Zenon DEF FlattenSeq
  <2> HIDE DEF F
  <2>8. \A i \in D : F[i] \in Seq(T) /\ F[i] = IF i = 1 THEN ss[i] ELSE F[i - 1] \o ss[i]
    <3> DEFINE A == {i \in Nat : i + 1 \in D => F[i + 1] \in Seq(T)}
    <3>0. \A i \in D : F[i] = IF i = 1 THEN ss[i] ELSE F[i - 1] \o ss[i]
      <4> HIDE DEF D
      <4> QED
        BY <2>6
    <3>1. 0 \in A
      <4>1. 1 \in D /\ 0 + 1 = 1
        BY <1>4
      <4>2. F[1] = ss[1] /\ ss[1] \in Seq(T)
        BY <1>1, <1>2, <3>0, <4>1
      <4> QED
        BY <4>1, <4>2
    <3>2. ASSUME NEW i \in Nat, i \in A PROVE i + 1 \in A
      <4>1. SUFFICES ASSUME i + 1 + 1 \in D PROVE F[i + 1 + 1] \in Seq(T)
        OBVIOUS
      <4>2. PICK e \in D, z \in D : e = i + 1 /\ z = i + 1 + 1 /\ z # 1 /\ z - 1 = e
        BY <4>1
      <4>3. F[e] \in Seq(T) /\ ss[z] \in Seq(T)
        BY <1>1, <1>2, <3>2, <4>2
      <4>4. F[z] = F[e] \o ss[z]
        <5>1. F[z] = IF z = 1 THEN ss[z] ELSE F[z - 1] \o ss[z]
          BY <3>0, <4>2
        <5> QED
          BY <4>2, <5>1
      <4>5. PICK a \in Seq(T), b \in Seq(T) : a = F[e] /\ b = ss[z]
        BY <4>3
      <4>6. a \o b \in Seq(T)
        BY Cat
      <4> QED
        BY <4>2, <4>4, <4>5, <4>6
    <3>3. \A i \in Nat : i \in A
      <4> HIDE DEF A
      <4> QED
        BY <3>1, <3>2, NatSet
    <3>4. TAKE i \in D
    <3>5. i - 1 \in Nat /\ i - 1 + 1 = i
      BY <3>4
    <3>6. i - 1 \in A
      BY <3>3, <3>5
    <3> QED
      BY <3>0, <3>4, <3>5, <3>6
  <2> DEFINE at == [i \in 1..(n + 1) |-> IF i = 1 THEN 0 ELSE Len(F[i - 1])]
  <2>9. /\ at \in [1..(n + 1) -> Nat] /\ at[1] = 0 /\ at[n + 1] = Len(F[n])
        /\ \A i \in D : at[i + 1] = Len(F[i])
    <3>1. \A i \in D : Len(F[i]) \in Nat
      BY <2>8, LenProperties
    <3> QED
      BY <1>4, <3>1
  <2>10. ASSUME NEW i \in D
         PROVE  /\ at[i + 1] = at[i] + Len(ss[i])
                /\ \A k \in 1..Len(ss[i]) : F[i][at[i] + k] = ss[i][k]
    <3>1. ss[i] \in Seq(T) /\ Len(ss[i]) \in Nat
      BY <1>1, <1>2
    <3>2. CASE i = 1
      <4> HIDE DEF at
      <4>1. F[i] = ss[i] /\ at[i] = 0 /\ at[i + 1] = Len(ss[i])
        BY <2>8, <2>9, <3>2
      <4>2. PICK l \in Nat : l = Len(ss[i])
        BY <3>1
      <4>3. \A k \in 1..l : at[i] + k = k
        BY <4>1
      <4> QED
        BY <4>1, <4>2, <4>3
    <3>3. CASE i # 1
      <4>1. i - 1 \in D /\ i - 1 + 1 = i
        BY <3>3
      <4>2. F[i] = F[i - 1] \o ss[i] /\ F[i - 1] \in Seq(T) /\ at[i] = Len(F[i - 1])
            /\ Len(F[i - 1]) \in Nat
        BY <2>8, <2>9, <3>3, <4>1, LenProperties
      <4> HIDE DEF at
      <4>3. PICK a \in Seq(T), b \in Seq(T) : a = F[i - 1] /\ b = ss[i]
        BY <3>1, <4>2
      <4>4. Len(a \o b) = Len(a) + Len(b) /\ \A k \in 1..Len(b) : (a \o b)[Len(a) + k] = b[k]
        BY Cat
      <4> QED
        BY <2>9, <4>2, <4>3, <4>4
    <3> QED
      BY <3>2, <3>3
  <2> HIDE DEF at
  <2>11. ASSUME NEW i \in D, NEW k \in 1..Len(ss[i]) PROVE F[n][at[i] + k] = ss[i][k]
    <3>1. at[i] \in Nat /\ Len(ss[i]) \in Nat /\ at[i + 1] = at[i] + Len(ss[i])
          /\ at[i + 1] = Len(F[i]) /\ F[i][at[i] + k] = ss[i][k]
      <4>1. i \in 1..(n + 1)
        OBVIOUS
      <4> QED
        BY <1>1, <1>2, <2>9, <2>10, <4>1
    <3>2. PICK a \in Nat, l \in Nat : a = at[i] /\ l = Len(ss[i])
      BY <3>1
    <3>3. PICK x \in Nat : x = a + k /\ x \in 1..(a + l)
      <4>1. k \in 1..l
        BY <3>2
      <4>2. a + k \in Nat /\ a + k \in 1..(a + l)
        BY <4>1
      <4> QED
        BY <4>2, Zenon
    <3>4. x \in 1..Len(F[i]) /\ F[i][x] = ss[i][k]
      BY <3>1, <3>2, <3>3
    <3> DEFINE A == {d \in Nat : i + d \in D => x \in 1..Len(F[i + d]) /\ F[i + d][x] = ss[i][k]}
    <3>5. 0 \in A
      <4>1. i + 0 = i
        OBVIOUS
      <4> QED
        BY <3>4, <4>1
    <3>6. ASSUME NEW d \in Nat, d \in A PROVE d + 1 \in A
      <4>1. SUFFICES ASSUME i + (d + 1) \in D
                     PROVE  x \in 1..Len(F[i + (d + 1)]) /\ F[i + (d + 1)][x] = ss[i][k]
        OBVIOUS
      <4>2. PICK e \in Nat : e = i + d /\ e \in D /\ e + 1 \in D /\ e + 1 # 1
                             /\ i + (d + 1) = e + 1 /\ e + 1 - 1 = e
        BY <4>1
      <4>3. x \in 1..Len(F[e]) /\ F[e][x] = ss[i][k]
        BY <3>6, <4>2
      <4>4. F[e + 1] = F[e] \o ss[e + 1] /\ F[e] \in Seq(T) /\ ss[e + 1] \in Seq(T)
        <5>1. PICK w \in D : w = e + 1 /\ w # 1 /\ w - 1 = e
          BY <4>2
        <5>2. F[w] = IF w = 1 THEN ss[w] ELSE F[w - 1] \o ss[w]
          BY <2>8, <5>1
        <5>3. F[e] \in Seq(T) /\ ss[w] \in Seq(T)
          BY <1>1, <1>2, <2>8, <4>2, <5>1
        <5> QED
          BY <5>1, <5>2, <5>3
      <4>5. PICK y \in Seq(T), z \in Seq(T) : y = F[e] /\ z = ss[e + 1]
        BY <4>4
      <4>6. /\ Len(y) \in Nat /\ Len(z) \in Nat /\ Len(y \o z) = Len(y) + Len(z)
            /\ \A q \in 1..Len(y) : (y \o z)[q] = y[q]
        BY Cat
      <4>7. x \in 1..Len(y \o z) /\ (y \o z)[x] = y[x]
        <5>1. PICK u \in Nat, v \in Nat : u = Len(y) /\ v = Len(z)
          BY <4>6
        <5>2. x \in 1..u
          BY <4>3, <4>5, <5>1
        <5>3. x \in 1..(u + v)
          BY <5>2
        <5> QED
          BY <4>6, <5>1, <5>2, <5>3
      <4> QED
        BY <4>2, <4>3, <4>4, <4>5, <4>7
    <3>7. n - i \in A
      <4>1. n - i \in Nat
        OBVIOUS
      <4> HIDE DEF A
      <4> QED
        BY <3>5, <3>6, <4>1, NatSet
    <3>8. i + (n - i) = n /\ n \in D
      BY <1>4
    <3> QED
      BY <3>2, <3>3, <3>7, <3>8
  <2>12. n \in D
    BY <1>4
  <2>13. Parts(ss, F[n], at)
    BY <1>2, <2>9, <2>10, <2>11 DEF Parts
  <2> QED
    BY <2>7, <2>8, <2>12, <2>13
<1> QED
  BY <1>3, <1>4

\* Bytes are numbers.
LEMMA ByteSeq == ASSUME NEW s \in Seq(Byte) PROVE s \in Seq(Nat) /\ Len(s) \in Nat
<1>1. Byte \subseteq Nat
  BY DEF Byte
<1>2. s \in [1..Len(s) -> Byte] /\ Len(s) \in Nat
  BY LenProperties
<1>3. s \in [1..Len(s) -> Nat]
  BY <1>1, <1>2
<1> QED
  BY <1>2, <1>3, IsASeq

\* A number up to 255 is a byte.
LEMMA SmallByte == \A n \in Nat : n <= 255 => n \in Byte
  BY DEF Byte

\* Two bytes of a number, the higher one first.
LEMMA U16Type ==
  ASSUME NEW n \in Nat
  PROVE  /\ U16(n) \in Seq(Nat) /\ Len(U16(n)) = 2
         /\ U16(n)[1] = n \div 256 /\ U16(n)[2] = n % 256
         /\ n < Word => U16(n) \in Seq(Byte)
<1>1. n \div 256 \in Nat /\ n % 256 \in Nat
  OBVIOUS
<1>2. n % 256 < 256
  OBVIOUS
<1>3. n < Word => n \div 256 < 256
  BY DEF Word
<1>4. PICK h \in Nat, l \in Nat : h = n \div 256 /\ l = n % 256
  BY <1>1
<1>5. U16(n) = <<h, l>>
  BY <1>4 DEF U16
<1>6. n < Word => h \in Byte /\ l \in Byte
  BY <1>2, <1>3, <1>4 DEF Byte
<1>7. <<h, l>> \in Seq(Nat) /\ Len(<<h, l>>) = 2 /\ <<h, l>>[1] = h /\ <<h, l>>[2] = l
  OBVIOUS
<1>8. h \in Byte /\ l \in Byte => <<h, l>> \in Seq(Byte)
  OBVIOUS
<1> QED
  BY <1>4, <1>5, <1>6, <1>7, <1>8

\* Zero bytes.
LEMMA ZerosType ==
  ASSUME NEW n \in Nat PROVE Zeros(n) \in Seq(Byte) /\ Zeros(n) \in Seq(Nat) /\ Len(Zeros(n)) = n
<1>1. 0 \in Byte
  BY DEF Byte
<1>2. Zeros(n) \in [1..n -> Byte]
  BY <1>1 DEF Zeros
<1>3. Zeros(n) \in Seq(Byte)
  BY <1>2, IsASeq
<1>4. Len(Zeros(n)) = n
  BY DEF Zeros
<1> QED
  BY <1>3, <1>4, ByteSeq

\* A sequence with its length before it.
LEMMA SizedType ==
  ASSUME NEW s \in Seq(Nat)
  PROVE  /\ Sized(s) \in Seq(Nat) /\ Len(Sized(s)) = 2 + Len(s) /\ Len(s) \in Nat
         /\ s \in Seq(Byte) /\ Len(s) < Word => Sized(s) \in Seq(Byte)
<1>1. Len(s) \in Nat
  BY LenProperties
<1>2. PICK u \in Seq(Nat) : u = U16(Len(s)) /\ Len(u) = 2 /\ (Len(s) < Word => u \in Seq(Byte))
  BY <1>1, U16Type
<1>3. u \o s \in Seq(Nat) /\ Len(u \o s) = Len(u) + Len(s)
  BY Cat
<1>4. u \in Seq(Byte) /\ s \in Seq(Byte) => u \o s \in Seq(Byte)
  BY Cat
<1> QED
  BY <1>1, <1>2, <1>3, <1>4 DEF Sized

-----------------------------------------------------------------------------
\* The buffer p has the bytes s at offset o.

At(p, o, s) ==
  o + Len(s) <= Size(p) /\ \A i \in 1..Len(s) : Rd(p, o + i - 1) = s[i]

\* What is made of two parts has each at its place.
LEMMA AtCat ==
  ASSUME NEW p \in Buffers, NEW o \in Nat, NEW s \in Seq(Byte), NEW t \in Seq(Byte),
         At(p, o, s \o t)
  PROVE  At(p, o, s) /\ At(p, o + Len(s), t) /\ o + Len(s) \in Nat
<1>1. PICK a \in Nat, b \in Nat : a = Len(s) /\ b = Len(t)
  BY LenProperties
<1>2. /\ Len(s \o t) = a + b /\ \A k \in 1..a : (s \o t)[k] = s[k]
      /\ \A k \in 1..b : (s \o t)[a + k] = t[k]
  BY <1>1, Cat
<1>3. o + (a + b) <= Size(p) /\ \A i \in 1..(a + b) : Rd(p, o + i - 1) = (s \o t)[i]
  BY <1>2 DEF At
<1>4. Size(p) \in Nat
  BY ReadType
<1>5. ASSUME NEW i \in 1..a PROVE Rd(p, o + i - 1) = s[i]
  <2>1. i \in 1..(a + b)
    OBVIOUS
  <2> QED
    BY <1>2, <1>3, <2>1
<1>6. ASSUME NEW i \in 1..b PROVE Rd(p, o + a + i - 1) = t[i]
  <2>1. a + i \in 1..(a + b) /\ o + (a + i) - 1 = o + a + i - 1
    OBVIOUS
  <2> QED
    BY <1>2, <1>3, <2>1
<1>7. o + a <= Size(p) /\ o + a + b <= Size(p) /\ o + a \in Nat
  BY <1>3, <1>4
<1> QED
  BY <1>1, <1>5, <1>6, <1>7 DEF At

\* A number written in two bytes is read back.
LEMMA AtU16 ==
  ASSUME NEW p \in Buffers, NEW o \in Nat, NEW n \in Nat, At(p, o, U16(n)) PROVE Be16(p, o) = n
<1>1. \A i \in 1..2 : Rd(p, o + i - 1) = U16(n)[i]
  <2>1. PICK u : u = U16(n) /\ Len(u) = 2
    BY U16Type
  <2> QED
    BY <2>1 DEF At
<1>2. Rd(p, o) = U16(n)[1] /\ Rd(p, o + 1) = U16(n)[2]
  <2>1. o + 1 - 1 = o /\ o + 2 - 1 = o + 1 /\ 1 \in 1..2 /\ 2 \in 1..2
    OBVIOUS
  <2> QED
    BY <1>1, <2>1
<1>3. Rd(p, o) = n \div 256 /\ Rd(p, o + 1) = n % 256
  BY <1>2, U16Type
<1>4. (n \div 256) * 256 + (n % 256) = n
  OBVIOUS
<1> QED
  BY <1>3, <1>4 DEF Be16

\* Bytes that are there are copied.
LEMMA AtBytes ==
  ASSUME NEW p \in Buffers, NEW o \in Nat, NEW s \in Seq(Byte), At(p, o, s)
  PROVE  Bytes(p, o, Len(s)) = s /\ o + Len(s) <= Size(p)
<1>1. s = [i \in 1..Len(s) |-> s[i]]
  BY LenProperties
<1>2. \A i \in 1..Len(s) : Rd(p, o + i - 1) = s[i]
  BY DEF At
<1> QED
  BY <1>1, <1>2 DEF At, Bytes

\* A buffer begins with its bytes, and with each beginning of them.
LEMMA AtStart ==
  ASSUME NEW s \in Seq(Byte), NEW t \in Seq(Byte), NEW j \in Byte
  PROVE  At(Buffer(s \o t, j), 0, s) /\ At(Buffer(s, j), 0, s)
<1>1. ASSUME NEW u \in Seq(Byte) PROVE At(Buffer(u, j), 0, u)
  <2>1. Size(Buffer(u, j)) = Len(u) /\ Buffer(u, j).b = u /\ Len(u) \in Nat
    BY BufferFields, LenProperties
  <2>2. ASSUME NEW i \in 1..Len(u) PROVE Rd(Buffer(u, j), 0 + i - 1) = u[i]
    BY <2>1 DEF Rd
  <2> QED
    BY <2>1, <2>2 DEF At
<1>2. s \o t \in Seq(Byte)
  BY Cat
<1>3. At(Buffer(s \o t, j), 0, s \o t) /\ Buffer(s \o t, j) \in Buffers
  BY <1>1, <1>2, BufferFields
<1> QED
  BY <1>1, <1>3, AtCat

\* The parts of a sequence lie inside it, one after the other.
LEMMA PartsInside ==
  ASSUME NEW T, NEW ss \in Seq(Seq(T)), NEW s \in Seq(T), NEW at, Parts(ss, s, at)
  PROVE  \A i \in 1..Len(ss) : /\ at[i] \in Nat /\ at[i + 1] \in Nat /\ Len(ss[i]) \in Nat
                               /\ at[i + 1] = at[i] + Len(ss[i]) /\ at[i + 1] <= Len(s)
<1>1. PICK n \in Nat, m \in Nat : n = Len(ss) /\ m = Len(s)
  BY LenProperties
<1>2. /\ at \in [1..(n + 1) -> Nat] /\ at[n + 1] = m
      /\ \A i \in 1..n : Len(ss[i]) \in Nat /\ at[i + 1] = at[i] + Len(ss[i])
  BY <1>1, ElementOfSeq, LenProperties DEF Parts
<1> DEFINE S == {k \in Nat : k <= n => at[(n + 1) - k] <= m}
<1>3. 0 \in S
  BY <1>2
<1>4. ASSUME NEW k \in Nat, k \in S PROVE k + 1 \in S
  <2>1. SUFFICES ASSUME k + 1 <= n PROVE at[(n + 1) - (k + 1)] <= m
    OBVIOUS
  <2>2. PICK i \in 1..n : i = (n + 1) - (k + 1)
    BY <2>1
  <2>3. i + 1 = (n + 1) - k /\ k <= n /\ i \in 1..(n + 1) /\ i + 1 \in 1..(n + 1)
    BY <2>1, <2>2
  <2>4. at[i + 1] <= m
    BY <1>4, <2>3
  <2>5. at[i] \in Nat /\ at[i + 1] = at[i] + Len(ss[i]) /\ Len(ss[i]) \in Nat
    BY <1>2, <2>3
  <2> QED
    BY <2>2, <2>4, <2>5
<1> HIDE DEF S
<1>5. \A k \in Nat : k \in S
  BY <1>3, <1>4, NatSet
<1>6. ASSUME NEW i \in 1..n PROVE at[i + 1] <= m
  <2>1. PICK k \in Nat : k = n - i
    OBVIOUS
  <2>2. k <= n /\ (n + 1) - k = i + 1
    BY <2>1
  <2> QED
    BY <1>5, <2>2 DEF S
<1>7. ASSUME NEW i \in 1..n PROVE at[i] \in Nat /\ at[i + 1] \in Nat
  BY <1>2
<1> QED
  BY <1>1, <1>2, <1>6, <1>7

\* The parts of a list are each at their place.
LEMMA AtParts ==
  ASSUME NEW p \in Buffers, NEW o \in Nat, NEW ss \in Seq(Seq(Byte)), NEW s \in Seq(Byte),
         NEW at, Parts(ss, s, at), At(p, o, s)
  PROVE  \A i \in 1..Len(ss) : o + at[i] \in Nat /\ At(p, o + at[i], ss[i])
<1>1. SUFFICES ASSUME NEW i \in 1..Len(ss) PROVE o + at[i] \in Nat /\ At(p, o + at[i], ss[i])
  OBVIOUS
<1>2. PICK m \in Nat, a \in Nat, l \in Nat : m = Len(s) /\ a = at[i] /\ l = Len(ss[i])
  BY PartsInside, LenProperties
<1>3. a + l <= m
  BY <1>2, PartsInside
<1>4. /\ o + m <= Size(p) /\ \A k \in 1..m : Rd(p, o + k - 1) = s[k]
  BY <1>2 DEF At
<1>5. \A k \in 1..l : s[a + k] = ss[i][k]
  BY <1>2 DEF Parts
<1>6. Size(p) \in Nat
  BY ReadType
<1>7. ASSUME NEW k \in 1..l PROVE Rd(p, o + a + k - 1) = ss[i][k]
  <2>1. a + k \in 1..m /\ o + (a + k) - 1 = o + a + k - 1
    BY <1>3
  <2> QED
    BY <1>4, <1>5, <2>1
<1>8. o + a + l <= Size(p) /\ o + a \in Nat
  BY <1>3, <1>4, <1>6
<1> QED
  BY <1>2, <1>7, <1>8 DEF At

-----------------------------------------------------------------------------
\* The same lemmas with the lengths named.

Str(T, s, n) == s \in Seq(T) /\ Len(s) = n /\ n \in Nat

\* Two sequences, ...
LEMMA StrCat ==
  ASSUME NEW T, NEW a, NEW b, NEW k, NEW l, Str(T, a, k), Str(T, b, l)
  PROVE  Str(T, a \o b, k + l)
  BY Cat DEF Str

\* ... three, ...
LEMMA StrCat3 ==
  ASSUME NEW T, NEW a, NEW b, NEW c, NEW k, NEW l, NEW m, Str(T, a, k), Str(T, b, l), Str(T, c, m)
  PROVE  Str(T, a \o b \o c, k + l + m)
<1>1. Str(T, a \o b, k + l)
  BY StrCat
<1> QED
  BY <1>1, StrCat

\* ... four.
LEMMA StrCat4 ==
  ASSUME NEW T, NEW a, NEW b, NEW c, NEW d, NEW k, NEW l, NEW m, NEW n,
         Str(T, a, k), Str(T, b, l), Str(T, c, m), Str(T, d, n)
  PROVE  Str(T, a \o b \o c \o d, k + l + m + n)
<1>1. Str(T, a \o b \o c, k + l + m)
  BY StrCat3
<1> QED
  BY <1>1, StrCat

\* A sequence has its length.
LEMMA StrOf == ASSUME NEW T, NEW s \in Seq(T) PROVE Str(T, s, Len(s))
  BY LenProperties DEF Str

\* Bytes are values of every larger set.
LEMMA StrWider ==
  ASSUME NEW T, NEW s, NEW n, Byte \subseteq T, Str(Byte, s, n) PROVE Str(T, s, n)
  BY SeqMonotonic DEF Str

\* A number that fits is two bytes.
LEMMA StrU16 == ASSUME NEW n \in Nat, n < Word PROVE Str(Byte, U16(n), 2)
  BY U16Type DEF Str

\* Zero bytes.
LEMMA StrZeros == ASSUME NEW n \in Nat PROVE Str(Byte, Zeros(n), n)
  BY ZerosType DEF Str

\* One byte, ...
LEMMA StrOne == ASSUME NEW a \in Byte PROVE Str(Byte, <<a>>, 1)
  BY DEF Str

\* ... two, ...
LEMMA StrTwo == ASSUME NEW a \in Byte, NEW b \in Byte PROVE Str(Byte, <<a, b>>, 2)
  BY DEF Str

\* ... four.
LEMMA StrFour ==
  ASSUME NEW a \in Byte, NEW b \in Byte, NEW c \in Byte, NEW d \in Byte
  PROVE  Str(Byte, <<a, b, c, d>>, 4)
  BY DEF Str

\* Two parts and their places, ...
LEMMA AtStr ==
  ASSUME NEW p \in Buffers, NEW o \in Nat, NEW a, NEW b, NEW k, NEW l,
         Str(Byte, a, k), Str(Byte, b, l), At(p, o, a \o b)
  PROVE  At(p, o, a) /\ At(p, o + k, b)
  BY AtCat DEF Str

\* ... three, ...
LEMMA AtStr3 ==
  ASSUME NEW p \in Buffers, NEW o \in Nat, NEW a, NEW b, NEW c, NEW k, NEW l, NEW m,
         Str(Byte, a, k), Str(Byte, b, l), Str(Byte, c, m), At(p, o, a \o b \o c)
  PROVE  At(p, o, a) /\ At(p, o + k, b) /\ At(p, o + k + l, c)
<1>1. Str(Byte, a \o b, k + l)
  BY StrCat
<1>2. At(p, o, a \o b) /\ At(p, o + (k + l), c)
  BY <1>1, AtStr
<1>3. At(p, o, a) /\ At(p, o + k, b)
  BY <1>2, AtStr
<1>4. o + (k + l) = o + k + l
  BY DEF Str
<1> QED
  BY <1>2, <1>3, <1>4

\* ... four.
LEMMA AtStr4 ==
  ASSUME NEW p \in Buffers, NEW o \in Nat, NEW a, NEW b, NEW c, NEW d,
         NEW k, NEW l, NEW m, NEW n,
         Str(Byte, a, k), Str(Byte, b, l), Str(Byte, c, m), Str(Byte, d, n),
         At(p, o, a \o b \o c \o d)
  PROVE  At(p, o, a) /\ At(p, o + k, b) /\ At(p, o + k + l, c) /\ At(p, o + k + l + m, d)
<1>1. Str(Byte, a \o b \o c, k + l + m)
  BY StrCat3
<1>2. At(p, o, a \o b \o c) /\ At(p, o + (k + l + m), d)
  BY <1>1, AtStr
<1>3. At(p, o, a) /\ At(p, o + k, b) /\ At(p, o + k + l, c)
  BY <1>2, AtStr3
<1>4. o + (k + l + m) = o + k + l + m
  BY DEF Str
<1> QED
  BY <1>2, <1>3, <1>4

\* The elements of short strings.
LEMMA AtOne == ASSUME NEW p, NEW o \in Nat, NEW a, At(p, o, <<a>>) PROVE Rd(p, o) = a
<1>1. Len(<<a>>) = 1 /\ <<a>>[1] = a /\ o + 1 - 1 = o /\ 1 \in 1..1
  OBVIOUS
<1>2. \A i \in 1..1 : Rd(p, o + i - 1) = <<a>>[i]
  BY <1>1 DEF At
<1> QED
  BY <1>1, <1>2

\* Two bytes are read, ...
LEMMA AtTwo ==
  ASSUME NEW p, NEW o \in Nat, NEW a, NEW b, At(p, o, <<a, b>>)
  PROVE  Rd(p, o) = a /\ Rd(p, o + 1) = b
<1>1. /\ Len(<<a, b>>) = 2 /\ <<a, b>>[1] = a /\ <<a, b>>[2] = b /\ 1 \in 1..2 /\ 2 \in 1..2
      /\ o + 1 - 1 = o /\ o + 2 - 1 = o + 1
  OBVIOUS
<1>2. \A i \in 1..2 : Rd(p, o + i - 1) = <<a, b>>[i]
  BY <1>1 DEF At
<1> QED
  BY <1>1, <1>2

\* ... and four.
LEMMA AtFour ==
  ASSUME NEW p, NEW o \in Nat, NEW a, NEW b, NEW c, NEW d, At(p, o, <<a, b, c, d>>)
  PROVE  Rd(p, o) = a /\ Rd(p, o + 1) = b /\ Rd(p, o + 2) = c /\ Rd(p, o + 3) = d
<1>1. /\ Len(<<a, b, c, d>>) = 4 /\ <<a, b, c, d>>[1] = a /\ <<a, b, c, d>>[2] = b
      /\ <<a, b, c, d>>[3] = c /\ <<a, b, c, d>>[4] = d
      /\ 1 \in 1..4 /\ 2 \in 1..4 /\ 3 \in 1..4 /\ 4 \in 1..4
      /\ o + 1 - 1 = o /\ o + 2 - 1 = o + 1 /\ o + 3 - 1 = o + 2 /\ o + 4 - 1 = o + 3
  OBVIOUS
<1>2. \A i \in 1..4 : Rd(p, o + i - 1) = <<a, b, c, d>>[i]
  BY <1>1 DEF At
<1> QED
  BY <1>1, <1>2

-----------------------------------------------------------------------------
\* The transport header.

Hosts == {Client, Server}
L4Head(e) == IF e.proto = Udp THEN 8 ELSE 24
UdpSize(e, n) == IF e.sized THEN 8 + n ELSE 0
L4Rest(e, n) == IF e.proto = Udp THEN U16(UdpSize(e, n)) \o Zeros(2)
                ELSE Zeros(8) \o <<96, 24>> \o Zeros(10)

\* A host has a number.
LEMMA HostType ==
  ASSUME NEW h \in Hosts PROVE h \in Nat /\ h \in Byte /\ 400 + h \in Nat /\ 400 + h < Word
  BY DEF Hosts, Client, Server, Byte, Word

\* The data offset and the flags of the TCP header.
LEMMA TcpConstants == Str(Byte, <<96, 24>>, 2)
<1>1. 96 \in Byte /\ 24 \in Byte
  BY DEF Byte
<1> QED
  BY <1>1, StrTwo

\* What follows the ports in a transport header.
LEMMA L4RestType ==
  ASSUME NEW e, NEW n, NEW T, Byte \subseteq T, Str(T, U16(UdpSize(e, n)), 2)
  PROVE  Str(T, L4Rest(e, n), L4Head(e) - 4)
<1>0. ASSUME NEW s, NEW k, Str(Byte, s, k) PROVE Str(T, s, k)
  BY <1>0, StrWider
<1>1. CASE e.proto = Udp
  <2>1. Str(T, Zeros(2), 2)
    BY <1>0, StrZeros
  <2>2. Str(T, U16(UdpSize(e, n)) \o Zeros(2), 2 + 2)
    BY <2>1, StrCat
  <2>3. L4Head(e) - 4 = 2 + 2
    BY <1>1 DEF L4Head
  <2> QED
    BY <1>1, <2>2, <2>3 DEF L4Rest
<1>2. CASE e.proto # Udp
  <2>1. Str(T, Zeros(8), 8) /\ Str(T, Zeros(10), 10)
    BY <1>0, StrZeros
  <2>2. Str(T, <<96, 24>>, 2)
    BY <1>0, TcpConstants
  <2>3. Str(T, Zeros(8) \o <<96, 24>> \o Zeros(10), 8 + 2 + 10)
    BY <2>1, <2>2, StrCat3
  <2>4. L4Head(e) - 4 = 8 + 2 + 10
    BY <1>2 DEF L4Head
  <2> QED
    BY <1>2, <2>3, <2>4 DEF L4Rest
<1> QED
  BY <1>1, <1>2

\* A transport segment has its ports, the rest of its header and its payload.
LEMMA L4Parts ==
  ASSUME NEW e, NEW from, NEW to, NEW payload
  PROVE  L4(e, from, to, payload)
           = U16(400 + from) \o U16(400 + to) \o L4Rest(e, Len(payload)) \o payload
  BY Zenon DEF L4, L4Rest, UdpSize

\* Its length.
LEMMA L4Type ==
  ASSUME NEW e, NEW T, NEW payload, NEW n, Str(T, payload, n), Byte \subseteq T,
         NEW from \in Hosts, NEW to \in Hosts, Str(T, U16(UdpSize(e, n)), 2)
  PROVE  Str(T, L4(e, from, to, payload), L4Head(e) + n)
<1>1. Str(T, U16(400 + from), 2) /\ Str(T, U16(400 + to), 2)
  BY HostType, StrU16, StrWider
<1>2. Str(T, L4Rest(e, n), L4Head(e) - 4)
  BY L4RestType
<1>3. Len(payload) = n /\ n \in Nat
  BY DEF Str
<1>4. Str(T, U16(400 + from) \o U16(400 + to) \o L4Rest(e, n) \o payload, 2 + 2 + (L4Head(e) - 4) + n)
  BY <1>1, <1>2, StrCat4
<1>5. 2 + 2 + (L4Head(e) - 4) + n = L4Head(e) + n
  BY <1>3 DEF L4Head
<1> QED
  BY <1>3, <1>4, <1>5, L4Parts

\* What is read in it, in a buffer that may end before the packet does.
LEMMA L4Reads ==
  ASSUME NEW p, NEW q, Extends(p, q), NEW e, NEW payload, NEW n, Str(Byte, payload, n),
         NEW from \in Hosts, NEW to \in Hosts, UdpSize(e, n) < Word,
         NEW off \in Nat, At(q, off, L4(e, from, to, payload))
  PROVE  /\ off + 8 <= Size(p) => Be16(p, off) = 400 + from /\ Be16(p, off + 2) = 400 + to
         /\ off + 8 <= Size(p) /\ e.proto = Udp => Be16(p, off + 4) = UdpSize(e, n)
         /\ off + 20 <= Size(p) /\ e.proto # Udp => Rd(p, off + 12) = 96
         /\ At(q, off + L4Head(e), payload)
<1>0. p \in Buffers /\ q \in Buffers /\ Size(p) \in Nat
  BY ExtendsReads DEF Extends
<1>1. Len(payload) = n /\ n \in Nat
  BY DEF Str
<1>2. UdpSize(e, n) \in Nat
  BY <1>1 DEF UdpSize
<1>3. Str(Byte, U16(UdpSize(e, n)), 2)
  BY <1>2, StrU16
<1>4. /\ Str(Byte, U16(400 + from), 2) /\ Str(Byte, U16(400 + to), 2)
      /\ 400 + from \in Nat /\ 400 + to \in Nat
  BY HostType, StrU16
<1>5. Str(Byte, L4Rest(e, n), L4Head(e) - 4)
  BY <1>3, L4RestType
<1>6. L4(e, from, to, payload) = U16(400 + from) \o U16(400 + to) \o L4Rest(e, n) \o payload
  BY <1>1, L4Parts
<1>7. /\ At(q, off, U16(400 + from)) /\ At(q, off + 2, U16(400 + to))
      /\ At(q, off + 2 + 2, L4Rest(e, n))
      /\ At(q, off + 2 + 2 + (L4Head(e) - 4), payload)
  <2> DEFINE a == U16(400 + from)
             b == U16(400 + to)
             c == L4Rest(e, n)
             k == 2
             m == L4Head(e) - 4
  <2>1. Str(Byte, a, k) /\ Str(Byte, b, k) /\ Str(Byte, c, m) /\ At(q, off, a \o b \o c \o payload)
    BY <1>4, <1>5, <1>6
  <2> HIDE DEF a, b, c, k, m
  <2>2. At(q, off, a) /\ At(q, off + k, b) /\ At(q, off + k + k, c) /\ At(q, off + k + k + m, payload)
    BY <1>0, <2>1, AtStr4
  <2> QED
    BY <2>2 DEF a, b, c, k, m
<1>8. /\ off + 2 + 2 = off + 4 /\ off + 2 + 2 + (L4Head(e) - 4) = off + L4Head(e)
      /\ off + 2 \in Nat /\ off + 4 \in Nat /\ off + 12 \in Nat /\ off + 4 + 8 = off + 12
  BY DEF L4Head
<1>10. ASSUME off + 8 <= Size(p)
       PROVE  Be16(p, off) = 400 + from /\ Be16(p, off + 2) = 400 + to
  <2>1. Be16(q, off) = 400 + from /\ Be16(q, off + 2) = 400 + to
    BY <1>0, <1>4, <1>7, <1>8, AtU16
  <2>2. off + 2 <= Size(p) /\ off + 2 + 2 <= Size(p)
    BY <1>0, <1>10
  <2> QED
    BY <1>8, <2>1, <2>2, ExtendsReads
<1>11. ASSUME off + 8 <= Size(p), e.proto = Udp PROVE Be16(p, off + 4) = UdpSize(e, n)
  <2>1. At(q, off + 4, U16(UdpSize(e, n)) \o Zeros(2))
    BY <1>7, <1>8, <1>11 DEF L4Rest
  <2>2. Str(Byte, Zeros(2), 2)
    BY StrZeros
  <2>3. At(q, off + 4, U16(UdpSize(e, n)))
    BY <1>0, <1>3, <1>8, <2>1, <2>2, AtStr
  <2>4. Be16(q, off + 4) = UdpSize(e, n)
    BY <1>0, <1>2, <1>8, <2>3, AtU16
  <2>5. off + 4 + 2 <= Size(p)
    BY <1>0, <1>11
  <2> QED
    BY <1>8, <2>4, <2>5, ExtendsReads
<1>12. ASSUME off + 20 <= Size(p), e.proto # Udp PROVE Rd(p, off + 12) = 96
  <2>1. At(q, off + 4, Zeros(8) \o <<96, 24>> \o Zeros(10))
    BY <1>7, <1>8, <1>12 DEF L4Rest
  <2>2. Str(Byte, Zeros(8), 8) /\ Str(Byte, Zeros(10), 10)
    BY StrZeros
  <2>3. At(q, off + 4 + 8, <<96, 24>>)
    <3> DEFINE a == Zeros(8)
               b == <<96, 24>>
               c == Zeros(10)
               o == off + 4
               k == 8
               l == 2
               m == 10
    <3>1. /\ Str(Byte, a, k) /\ Str(Byte, b, l) /\ Str(Byte, c, m) /\ At(q, o, a \o b \o c)
          /\ o \in Nat
      BY <1>8, <2>1, <2>2, TcpConstants
    <3> HIDE DEF a, b, c, o, k, l, m
    <3>2. At(q, o + k, b)
      BY <1>0, <3>1, AtStr3
    <3> QED
      BY <3>2 DEF b, o, k
  <2>4. Rd(q, off + 12) = 96
    BY <1>8, <2>3, AtTwo
  <2>5. off + 12 < Size(p)
    BY <1>0, <1>12
  <2> QED
    BY <1>8, <2>4, <2>5, ExtendsReads
<1> QED
  BY <1>7, <1>8, <1>10, <1>11, <1>12

\* What a view has of the packet: the connection, and the place of the payload.
ViewOf(f, proto, src, dst, from, to) ==
  /\ f.ip_proto = proto /\ f.src_ip = src /\ f.dst_ip = dst
  /\ f.src_port = 400 + from /\ f.dst_port = 400 + to
  /\ f.payload \in Nat /\ f.payload_len \in Nat /\ DOMAIN f = DOMAIN NoFlow

Addressed(v, src, dst) == [NoFlow EXCEPT !.ip_version = v, !.src_ip = src, !.dst_ip = dst]

\* The fields of a view that has addresses.
LEMMA AddressedFields ==
  ASSUME NEW v, NEW src, NEW dst, NEW proto, NEW flags, NEW sp, NEW dp, NEW at, NEW n
  PROVE  LET f == Addressed(v, src, dst)
             u == [f EXCEPT !.ip_proto = proto, !.src_port = sp, !.dst_port = dp,
                            !.payload = at, !.payload_len = n]
             t == [f EXCEPT !.ip_proto = proto, !.tcp_flags = flags, !.src_port = sp,
                            !.dst_port = dp, !.payload = at, !.payload_len = n]
         IN /\ u.ip_proto = proto /\ u.src_ip = src /\ u.dst_ip = dst /\ u.src_port = sp
            /\ u.dst_port = dp /\ u.payload = at /\ u.payload_len = n
            /\ t.ip_proto = proto /\ t.src_ip = src /\ t.dst_ip = dst /\ t.src_port = sp
            /\ t.dst_port = dp /\ t.payload = at /\ t.payload_len = n
            /\ DOMAIN u = DOMAIN NoFlow /\ DOMAIN t = DOMAIN NoFlow
  BY DEF Addressed, NoFlow

\* The transport header is found to be what it is, with the payload behind it.
LEMMA L4View ==
  ASSUME NEW p, NEW q, Extends(p, q), NEW e, NEW payload, NEW n, Str(Byte, payload, n),
         NEW from \in Hosts, NEW to \in Hosts, UdpSize(e, n) < Word,
         NEW off \in Nat, At(q, off, L4(e, from, to, payload)),
         NEW len \in Nat, off + len <= Size(p), NEW v, NEW src, NEW dst
  PROVE  LET r == ParseL4(e.proto, p, off, len, Addressed(v, src, dst))
         IN /\ r.ok \in BOOLEAN /\ (r.ok <=> e.proto \in {Tcp, Udp} /\ len >= L4Head(e))
            /\ r.ok => /\ ViewOf(r.flow, e.proto, src, dst, from, to)
                       /\ r.flow.payload = off + L4Head(e)
                       /\ r.flow.payload + r.flow.payload_len <= off + len
                       /\ len = L4Head(e) + n => r.flow.payload_len = n
<1> DEFINE f == Addressed(v, src, dst)
           r == ParseL4(e.proto, p, off, len, f)
<1>0. Size(p) \in Nat /\ n \in Nat
  BY ExtendsReads DEF Str
<1>1. /\ off + 8 <= Size(p) => Be16(p, off) = 400 + from /\ Be16(p, off + 2) = 400 + to
      /\ off + 8 <= Size(p) /\ e.proto = Udp => Be16(p, off + 4) = UdpSize(e, n)
      /\ off + 20 <= Size(p) /\ e.proto # Udp => Rd(p, off + 12) = 96
  BY L4Reads
<1>2. SUFFICES /\ r.ok \in BOOLEAN /\ (r.ok <=> e.proto \in {Tcp, Udp} /\ len >= L4Head(e))
               /\ r.ok => /\ ViewOf(r.flow, e.proto, src, dst, from, to)
                          /\ r.flow.payload = off + L4Head(e)
                          /\ r.flow.payload + r.flow.payload_len <= off + len
                          /\ len = L4Head(e) + n => r.flow.payload_len = n
  OBVIOUS
<1> HIDE DEF f, r
<1>3. CASE e.proto = Udp
  <2> DEFINE said == UdpSize(e, n) - 8
             l == IF said \in 0..(len - 8) THEN said ELSE len - 8
             g == [f EXCEPT !.ip_proto = Udp, !.src_port = 400 + from, !.dst_port = 400 + to,
                            !.payload = off + 8, !.payload_len = l]
  <2>1. r = ParseUDP(p, off, len, f)
    BY <1>3 DEF ParseL4, Udp, Tcp, r
  <2>4. L4Head(e) = 8
    BY <1>3 DEF L4Head
  <2>2. CASE len < 8
    <3>1. r = Undissected
      BY <2>1, <2>2 DEF ParseUDP
    <3>2. r.ok = FALSE
      BY <3>1 DEF Undissected
    <3>3. ~(len >= L4Head(e))
      BY <2>2, <2>4
    <3> QED
      BY <3>2, <3>3, Zenon
  <2>3. CASE ~(len < 8)
    <3>1. off + 8 <= Size(p) /\ len >= 8
      BY <1>0, <2>3
    <3>2. /\ Be16(p, off) = 400 + from /\ Be16(p, off + 2) = 400 + to
          /\ Be16(p, off + 4) = UdpSize(e, n)
      BY <1>1, <1>3, <3>1
    <3>3. ParseUDP(p, off, len, f) = Dissected(g)
      <4>1. ParseUDP(p, off, len, f)
              = Dissected([f EXCEPT !.ip_proto = Udp,
                              !.src_port = Be16(p, off), !.dst_port = Be16(p, off + 2),
                              !.payload = off + 8,
                              !.payload_len = IF Be16(p, off + 4) - 8 \in 0..(len - 8)
                                              THEN Be16(p, off + 4) - 8 ELSE len - 8])
        BY <2>3, Zenon DEF ParseUDP
      <4> QED
        BY <3>2, <4>1
    <3>4. /\ l \in Nat /\ off + 8 + l <= off + len /\ (len = 8 + n => l = n)
          /\ off + 8 \in Nat
      BY <1>0, <3>1 DEF UdpSize
    <3> HIDE DEF l
    <3>5. /\ g.ip_proto = Udp /\ g.src_ip = src /\ g.dst_ip = dst /\ g.src_port = 400 + from
          /\ g.dst_port = 400 + to /\ g.payload = off + 8 /\ g.payload_len = l
          /\ DOMAIN g = DOMAIN NoFlow
      BY AddressedFields DEF f
    <3> HIDE DEF g
    <3>6. r.ok /\ r.flow = g
      BY <2>1, <3>3 DEF Dissected
    <3>7. ViewOf(g, Udp, src, dst, from, to)
      BY <3>4, <3>5 DEF ViewOf
    <3>8. e.proto \in {Tcp, Udp} /\ len >= L4Head(e)
      BY <1>3, <2>4, <3>1
    <3> QED
      BY <1>3, <2>4, <3>4, <3>5, <3>6, <3>7, <3>8
  <2> QED
    BY <2>2, <2>3
<1>4. CASE e.proto = Tcp
  <2> DEFINE g == [f EXCEPT !.ip_proto = Tcp, !.tcp_flags = Rd(p, off + 13),
                            !.src_port = 400 + from, !.dst_port = 400 + to,
                            !.payload = off + 24, !.payload_len = len - 24]
  <2>1. r = ParseTCP(p, off, len, f)
    BY <1>4 DEF ParseL4, Udp, Tcp, r
  <2>6. L4Head(e) = 24 /\ e.proto # Udp
    BY <1>4 DEF L4Head, Udp, Tcp
  <2> DEFINE d == (Rd(p, off + 12) \div 16) * 4
             h == [f EXCEPT !.ip_proto = Tcp, !.tcp_flags = Rd(p, off + 13),
                            !.src_port = Be16(p, off), !.dst_port = Be16(p, off + 2),
                            !.payload = off + d, !.payload_len = len - d]
  <2>4. ParseTCP(p, off, len, f)
          = IF len < 20 \/ d < 20 \/ d > len THEN Undissected ELSE Dissected(h)
    BY Zenon DEF ParseTCP
  <2>5. Undissected.ok = FALSE
    BY DEF Undissected
  <2> HIDE DEF d
  <2>2. CASE len < 20
    <3>1. r = Undissected
      BY <2>1, <2>2, <2>4
    <3>2. ~(len >= L4Head(e))
      BY <2>2, <2>6
    <3> QED
      BY <2>5, <3>1, <3>2, Zenon
  <2>3. CASE ~(len < 20)
    <3>1. off + 8 <= Size(p) /\ off + 20 <= Size(p)
      BY <1>0, <2>3
    <3>2. Be16(p, off) = 400 + from /\ Be16(p, off + 2) = 400 + to /\ Rd(p, off + 12) = 96
      BY <1>1, <2>6, <3>1
    <3>3. d = 24
      <4>1. (96 \div 16) * 4 = 24
        OBVIOUS
      <4> QED
        BY <3>2, <4>1 DEF d
    <3>4. CASE len < 24
      <4>1. r = Undissected
        BY <2>1, <2>4, <3>3, <3>4
      <4>2. ~(len >= L4Head(e))
        BY <2>6, <3>4
      <4> QED
        BY <2>5, <4>1, <4>2, Zenon
    <3>5. CASE ~(len < 24)
      <4>1. ParseTCP(p, off, len, f) = Dissected(g)
        <5>1. h = g
          BY <3>2, <3>3
        <5> HIDE DEF g, h
        <5> QED
          BY <2>3, <2>4, <3>3, <3>5, <5>1
      <4>2. /\ len - 24 \in Nat /\ off + 24 + (len - 24) <= off + len
            /\ (len = 24 + n => len - 24 = n) /\ off + 24 \in Nat
        BY <1>0, <3>5
      <4>3. /\ g.ip_proto = Tcp /\ g.src_ip = src /\ g.dst_ip = dst /\ g.src_port = 400 + from
            /\ g.dst_port = 400 + to /\ g.payload = off + 24 /\ g.payload_len = len - 24
            /\ DOMAIN g = DOMAIN NoFlow
        BY AddressedFields DEF f
      <4> HIDE DEF g
      <4>4. r.ok /\ r.flow = g
        BY <2>1, <4>1 DEF Dissected
      <4>5. ViewOf(g, Tcp, src, dst, from, to)
        BY <4>2, <4>3 DEF ViewOf
      <4>6. e.proto \in {Tcp, Udp} /\ len >= L4Head(e)
        BY <1>4, <2>6, <3>5
      <4> QED
        BY <1>4, <2>6, <4>2, <4>3, <4>4, <4>5, <4>6
    <3> QED
      BY <3>4, <3>5
  <2> QED
    BY <2>2, <2>3
<1>5. CASE e.proto \notin {Tcp, Udp}
  <2>1. r = Undissected
    BY <1>5 DEF ParseL4, r
  <2>2. r.ok = FALSE
    BY <2>1 DEF Undissected
  <2> QED
    BY <1>5, <2>2
<1> QED
  BY <1>3, <1>4, <1>5

-----------------------------------------------------------------------------
\* The IPv4 header.

\* A number of any size, in two numbers.
LEMMA StrNat == ASSUME NEW n \in Nat PROVE Str(Nat, U16(n), 2)
  BY U16Type DEF Str

Frags == 8192
V4Head(e) == 20 + 4 * Len(e.exts)
V4Total(e, n) == IF e.sized THEN V4Head(e) + n ELSE 0
V4Start(e, n) == <<64 + (5 + Len(e.exts)), 0>> \o U16(V4Total(e, n)) \o Zeros(2) \o U16(e.frag)
V4Front(e, n, from, to) ==
  V4Start(e, n) \o <<64, e.proto, 0, 0>> \o <<10, 0, 0, from>> \o <<10, 0, 0, to>>

\* An IPv4 packet has a header of fixed size, options and a segment.
LEMMA V4Parts ==
  ASSUME NEW e, NEW from, NEW to, NEW l4, Len(e.exts) \in Nat
  PROVE  Ipv4(e, from, to, l4) = V4Front(e, Len(l4), from, to) \o Zeros(4 * Len(e.exts)) \o l4
<1>1. (5 + Len(e.exts)) * 4 = V4Head(e)
  BY DEF V4Head
<1>2. (IF e.sized THEN (5 + Len(e.exts)) * 4 + Len(l4) ELSE 0) = V4Total(e, Len(l4))
  BY <1>1 DEF V4Total
<1> QED
  BY <1>2, Zenon DEF Ipv4, V4Front, V4Start

\* The length of the fixed part.
LEMMA V4FrontType ==
  ASSUME NEW e, NEW T, Byte \subseteq T, NEW n, NEW from \in Hosts, NEW to \in Hosts,
         e.proto \in Byte, Len(e.exts) \in 0..10,
         Str(T, U16(V4Total(e, n)), 2), Str(T, U16(e.frag), 2)
  PROVE  /\ Str(T, <<64 + (5 + Len(e.exts)), 0>>, 2) /\ Str(T, Zeros(2), 2)
         /\ Str(T, <<64, e.proto, 0, 0>>, 4) /\ Str(T, <<10, 0, 0, from>>, 4)
         /\ Str(T, <<10, 0, 0, to>>, 4) /\ Str(T, V4Start(e, n), 8)
         /\ Str(T, V4Front(e, n, from, to), 20)
<1>0. ASSUME NEW s, NEW k, Str(Byte, s, k) PROVE Str(T, s, k)
  BY <1>0, StrWider
<1>1. 64 + (5 + Len(e.exts)) \in Byte /\ 0 \in Byte /\ 64 \in Byte /\ 10 \in Byte
  <2>1. (\A x \in 0..10 : 64 + (5 + x) \in Byte) /\ 0 \in Byte /\ 64 \in Byte /\ 10 \in Byte
    BY DEF Byte
  <2> QED
    BY <2>1
<1>2. from \in Byte /\ to \in Byte
  BY HostType
<1>3. Str(T, <<64 + (5 + Len(e.exts)), 0>>, 2)
  BY <1>0, <1>1, StrTwo
<1>4. Str(T, Zeros(2), 2)
  BY <1>0, StrZeros
<1>5. Str(T, <<64, e.proto, 0, 0>>, 4)
  BY <1>0, <1>1, StrFour
<1>6. Str(T, <<10, 0, 0, from>>, 4)
  BY <1>0, <1>1, <1>2, StrFour
<1>7. Str(T, <<10, 0, 0, to>>, 4)
  BY <1>0, <1>1, <1>2, StrFour
<1>8. Str(T, V4Start(e, n), 2 + 2 + 2 + 2)
  BY <1>3, <1>4, StrCat4 DEF V4Start
<1>9. 2 + 2 + 2 + 2 = 8 /\ 8 + 4 + 4 + 4 = 20
  OBVIOUS
<1>10. Str(T, V4Start(e, n), 8)
  BY <1>8, <1>9
<1>11. Str(T, V4Front(e, n, from, to), 8 + 4 + 4 + 4)
  BY <1>5, <1>6, <1>7, <1>10, StrCat4 DEF V4Front
<1> QED
  BY <1>3, <1>4, <1>5, <1>6, <1>7, <1>9, <1>10, <1>11

\* The length of the packet.
LEMMA V4Type ==
  ASSUME NEW e, NEW T, Byte \subseteq T, NEW l4, NEW n, Str(T, l4, n),
         NEW from \in Hosts, NEW to \in Hosts, e.proto \in Byte, Len(e.exts) \in 0..10,
         Str(T, U16(V4Total(e, n)), 2), Str(T, U16(e.frag), 2)
  PROVE  Str(T, Ipv4(e, from, to, l4), V4Head(e) + n)
<1>1. Len(l4) = n /\ n \in Nat /\ Len(e.exts) \in Nat /\ 4 * Len(e.exts) \in Nat
  BY DEF Str
<1>2. Str(T, V4Front(e, n, from, to), 20)
  BY V4FrontType
<1>3. Str(T, Zeros(4 * Len(e.exts)), 4 * Len(e.exts))
  BY <1>1, StrZeros, StrWider
<1>4. Str(T, V4Front(e, n, from, to) \o Zeros(4 * Len(e.exts)) \o l4, 20 + 4 * Len(e.exts) + n)
  BY <1>2, <1>3, StrCat3
<1> QED
  BY <1>1, <1>4, V4Parts DEF V4Head

\* The address of a host, as the view has it.
V4Addr(h) == [i \in 1..16 |-> IF i = 1 THEN 10 ELSE IF i = 4 THEN h ELSE 0]

\* An address is read back.
LEMMA AtV4Addr ==
  ASSUME NEW p, NEW q, Extends(p, q), NEW o \in Nat, o + 4 <= Size(p), NEW h,
         At(q, o, <<10, 0, 0, h>>)
  PROVE  Addr4(p, o) = V4Addr(h)
<1>0. Size(p) \in Nat
  BY ExtendsReads
<1>1. o \in Nat /\ o + 1 \in Nat /\ o + 2 \in Nat /\ o + 3 \in Nat
      /\ o < Size(p) /\ o + 1 < Size(p) /\ o + 2 < Size(p) /\ o + 3 < Size(p)
  BY <1>0
<1>2. Rd(q, o) = 10 /\ Rd(q, o + 1) = 0 /\ Rd(q, o + 2) = 0 /\ Rd(q, o + 3) = h
  BY AtFour
<1>3. Rd(p, o) = 10 /\ Rd(p, o + 1) = 0 /\ Rd(p, o + 2) = 0 /\ Rd(p, o + 3) = h
  BY <1>1, <1>2, ExtendsReads
<1>4. ASSUME NEW i \in 1..16
      PROVE  (IF i <= 4 THEN Rd(p, o + i - 1) ELSE 0) = IF i = 1 THEN 10 ELSE IF i = 4 THEN h ELSE 0
  <2>1. i <= 4 => i = 1 \/ i = 2 \/ i = 3 \/ i = 4
    OBVIOUS
  <2>2. o + 1 - 1 = o /\ o + 2 - 1 = o + 1 /\ o + 3 - 1 = o + 2 /\ o + 4 - 1 = o + 3
    OBVIOUS
  <2>3. CASE i = 1
    BY <1>3, <2>2, <2>3
  <2>4. CASE i = 2
    BY <1>3, <2>2, <2>4
  <2>5. CASE i = 3
    BY <1>3, <2>2, <2>5
  <2>6. CASE i = 4
    BY <1>3, <2>2, <2>6
  <2>7. CASE ~(i <= 4)
    BY <2>7
  <2> QED
    BY <2>1, <2>3, <2>4, <2>5, <2>6, <2>7
<1> QED
  BY <1>4, Zenon DEF Addr4, V4Addr

\* What parseIPv4() reads of the fixed part.
LEMMA V4FrontAt ==
  ASSUME NEW e, NEW q \in Buffers, NEW n, NEW from \in Hosts, NEW to \in Hosts,
         e.proto \in Byte, Len(e.exts) \in 0..10, V4Total(e, n) \in Nat, V4Total(e, n) < Word,
         e.frag \in Nat, e.frag < Word, At(q, 0, V4Front(e, n, from, to))
  PROVE  /\ Rd(q, 0) = 64 + (5 + Len(e.exts)) /\ Be16(q, 2) = V4Total(e, n)
         /\ Be16(q, 6) = e.frag /\ Rd(q, 9) = e.proto
         /\ At(q, 12, <<10, 0, 0, from>>) /\ At(q, 16, <<10, 0, 0, to>>)
<1>1. Str(Byte, U16(V4Total(e, n)), 2) /\ Str(Byte, U16(e.frag), 2)
  BY StrU16
<1>2. /\ Str(Byte, <<64 + (5 + Len(e.exts)), 0>>, 2) /\ Str(Byte, Zeros(2), 2)
      /\ Str(Byte, <<64, e.proto, 0, 0>>, 4) /\ Str(Byte, <<10, 0, 0, from>>, 4)
      /\ Str(Byte, <<10, 0, 0, to>>, 4) /\ Str(Byte, V4Start(e, n), 8)
  BY <1>1, V4FrontType
<1>3. /\ At(q, 0, V4Start(e, n)) /\ At(q, 8, <<64, e.proto, 0, 0>>)
      /\ At(q, 12, <<10, 0, 0, from>>) /\ At(q, 16, <<10, 0, 0, to>>)
  <2> DEFINE a == V4Start(e, n)
             b == <<64, e.proto, 0, 0>>
             c == <<10, 0, 0, from>>
             d == <<10, 0, 0, to>>
             o == 0
             k == 8
             l == 4
  <2>1. /\ o \in Nat /\ Str(Byte, a, k) /\ Str(Byte, b, l) /\ Str(Byte, c, l) /\ Str(Byte, d, l)
        /\ At(q, o, a \o b \o c \o d)
    BY <1>2 DEF V4Front
  <2> HIDE DEF a, b, c, d, o, k, l
  <2>2. At(q, o, a) /\ At(q, o + k, b) /\ At(q, o + k + l, c) /\ At(q, o + k + l + l, d)
    BY <2>1, AtStr4
  <2>3. o = 0 /\ o + k = 8 /\ o + k + l = 12 /\ o + k + l + l = 16
    BY DEF o, k, l
  <2> QED
    BY <2>2, <2>3 DEF a, b, c, d
<1>4. /\ At(q, 0, <<64 + (5 + Len(e.exts)), 0>>) /\ At(q, 2, U16(V4Total(e, n)))
      /\ At(q, 6, U16(e.frag))
  <2> DEFINE a == <<64 + (5 + Len(e.exts)), 0>>
             b == U16(V4Total(e, n))
             c == Zeros(2)
             d == U16(e.frag)
             o == 0
             k == 2
  <2>1. /\ o \in Nat /\ Str(Byte, a, k) /\ Str(Byte, b, k) /\ Str(Byte, c, k) /\ Str(Byte, d, k)
        /\ At(q, o, a \o b \o c \o d)
    BY <1>1, <1>2, <1>3 DEF V4Start
  <2> HIDE DEF a, b, c, d, o, k
  <2>2. At(q, o, a) /\ At(q, o + k, b) /\ At(q, o + k + k + k, d)
    BY <2>1, AtStr4
  <2>3. o = 0 /\ o + k = 2 /\ o + k + k + k = 6
    BY DEF o, k
  <2> QED
    BY <2>2, <2>3 DEF a, b, d
<1>5. 0 \in Nat /\ 2 \in Nat /\ 6 \in Nat /\ 8 \in Nat /\ 8 + 1 = 9
  OBVIOUS
<1>6. Rd(q, 0) = 64 + (5 + Len(e.exts))
  BY <1>4, <1>5, AtTwo
<1>7. Be16(q, 2) = V4Total(e, n) /\ Be16(q, 6) = e.frag
  BY <1>4, <1>5, AtU16
<1>8. Rd(q, 9) = e.proto
  <2>1. PICK o \in Nat : o = 8
    BY <1>5
  <2>3. ASSUME NEW a, NEW b, NEW c, NEW d, At(q, o, <<a, b, c, d>>) PROVE Rd(q, o + 1) = b
    BY <2>3, AtFour
  <2>2. Rd(q, o + 1) = e.proto
    BY <1>3, <2>1, <2>3, Zenon
  <2> QED
    BY <1>5, <2>1, <2>2
<1> QED
  BY <1>3, <1>5, <1>6, <1>7, <1>8

\* flow_view() on the first bytes of an IPv4 packet.
LEMMA V4View ==
  ASSUME NEW p, NEW q, Extends(p, q), NEW e, NEW payload, NEW n, Str(Byte, payload, n),
         NEW from \in Hosts, NEW to \in Hosts, e.proto \in Byte,
         e.frag \in Nat, e.frag < Word, e.frag < Frags,
         Len(e.exts) \in 0..10, UdpSize(e, n) < Word, V4Total(e, L4Head(e) + n) < Word,
         At(q, 0, Ipv4(e, from, to, L4(e, from, to, payload))),
         ~e.sized => Size(q) = V4Head(e) + (L4Head(e) + n)
  PROVE  LET r == ParseIPv4(p)
             all == Size(p) >= V4Head(e) + (L4Head(e) + n)
         IN /\ Size(p) > 0 => Rd(p, 0) \div 16 = 4
            /\ r.ok \in BOOLEAN
            /\ all => (r.ok <=> e.frag = 0 /\ e.proto \in {Tcp, Udp})
            /\ r.ok => /\ ViewOf(r.flow, e.proto, V4Addr(from), V4Addr(to), from, to)
                       /\ r.flow.payload = V4Head(e) + L4Head(e)
                       /\ r.flow.payload + r.flow.payload_len <= Size(p)
                       /\ all => r.flow.payload_len = n
<1> DEFINE r == ParseIPv4(p)
           m == L4Head(e) + n
           h == V4Head(e)
           total == V4Total(e, m)
           l4 == L4(e, from, to, payload)
           f == Addressed(4, V4Addr(from), V4Addr(to))
           all == Size(p) >= h + m
<1>0. /\ Size(p) \in Nat /\ Size(q) \in Nat /\ Size(p) <= Size(q) /\ p \in Buffers /\ q \in Buffers
  BY ExtendsReads DEF Extends
<1>1. n \in Nat /\ L4Head(e) \in Nat /\ m \in Nat /\ L4Head(e) >= 8
  BY DEF Str, L4Head
<1>2. h \in Nat /\ h >= 20 /\ h = (5 + Len(e.exts)) * 4
  BY DEF V4Head
<1>3. total \in Nat
  BY <1>1, <1>2 DEF V4Total
<1>4. UdpSize(e, n) \in Nat
  BY <1>1 DEF UdpSize
<1>6. Str(Byte, U16(UdpSize(e, n)), 2) /\ Str(Byte, U16(total), 2) /\ Str(Byte, U16(e.frag), 2)
  BY <1>3, <1>4, StrU16
<1>5. Str(Byte, l4, m)
  <2> PICK T : T = Byte
    OBVIOUS
  <2>1. Str(T, payload, n) /\ Byte \subseteq T /\ Str(T, U16(UdpSize(e, n)), 2)
    BY <1>6
  <2>2. Str(T, L4(e, from, to, payload), L4Head(e) + n)
    BY <2>1, L4Type
  <2> QED
    BY <2>2
<1>7. Str(Byte, V4Front(e, m, from, to), 20)
  <2> PICK T : T = Byte
    OBVIOUS
  <2> HIDE DEF m
  <2>1. Byte \subseteq T /\ Str(T, U16(V4Total(e, m)), 2) /\ Str(T, U16(e.frag), 2)
    BY <1>6
  <2>2. Str(T, V4Front(e, m, from, to), 20)
    BY <2>1, V4FrontType
  <2> QED
    BY <2>2
<1>8. At(q, 0, V4Front(e, m, from, to)) /\ At(q, h, l4)
  <2>1. Len(l4) = m /\ Len(e.exts) \in Nat
    BY <1>5 DEF Str
  <2> DEFINE a == V4Front(e, m, from, to)
             b == Zeros(4 * Len(e.exts))
             k == 20
             l == 4 * Len(e.exts)
             o == 0
  <2>2. Ipv4(e, from, to, l4) = a \o b \o l4
    BY <2>1, V4Parts
  <2>6. l \in Nat
    BY <2>1
  <2>3. o \in Nat /\ Str(Byte, a, k) /\ Str(Byte, b, l) /\ At(q, o, a \o b \o l4)
    BY <1>7, <2>2, <2>6, StrZeros
  <2>4. o = 0 /\ o + k + l = h
    BY DEF V4Head
  <2> HIDE DEF a, b, k, l, o, l4, h, m
  <2>5. At(q, o, a) /\ At(q, o + k + l, l4)
    BY <1>0, <1>5, <2>3, AtStr3
  <2> QED
    BY <2>4, <2>5 DEF a
<1> HIDE DEF m
<1>9. /\ Rd(q, 0) = 64 + (5 + Len(e.exts)) /\ Be16(q, 2) = total
      /\ Be16(q, 6) = e.frag /\ Rd(q, 9) = e.proto
      /\ At(q, 12, <<10, 0, 0, from>>) /\ At(q, 16, <<10, 0, 0, to>>)
  <2>1. V4Total(e, m) < Word
    BY DEF m
  <2> QED
    BY <1>0, <1>3, <1>8, <2>1, V4FrontAt
<1>16. ASSUME Size(p) > 0 PROVE Rd(p, 0) \div 16 = 4
  <2>1. \A x \in 0..10 : (64 + (5 + x)) \div 16 = 4
    OBVIOUS
  <2>2. Rd(p, 0) = Rd(q, 0)
    BY <1>16, ExtendsReads
  <2> QED
    BY <1>9, <2>1, <2>2
<1>10. SUFFICES
         /\ r.ok \in BOOLEAN
         /\ all => (r.ok <=> e.frag = 0 /\ e.proto \in {Tcp, Udp})
         /\ r.ok => /\ ViewOf(r.flow, e.proto, V4Addr(from), V4Addr(to), from, to)
                    /\ r.flow.payload = h + L4Head(e)
                    /\ r.flow.payload + r.flow.payload_len <= Size(p)
                    /\ all => r.flow.payload_len = n
  BY <1>16 DEF m
<1> HIDE DEF r, h, total, l4, f, all
<1> DEFINE i == (Rd(p, 0) % 16) * 4
           g == [NoFlow EXCEPT !.ip_version = 4, !.src_ip = Addr4(p, 12), !.dst_ip = Addr4(p, 16)]
           l3 == IF Be16(p, 2) \in i..Size(p) THEN Be16(p, 2) ELSE Size(p)
<1>13. r = IF Size(p) < 20 \/ i < 20 \/ i > Size(p) \/ Be16(p, 6) % Frags # 0
           THEN Undissected ELSE ParseL4(Rd(p, 9), p, i, l3 - i, g)
  BY DEF ParseIPv4, Frags, r
<1> HIDE DEF i, g, l3
<1>14. Undissected.ok = FALSE
  BY DEF Undissected
<1>15. ASSUME Size(p) >= 20
       PROVE  /\ i = h /\ Be16(p, 2) = total /\ Be16(p, 6) = e.frag /\ Rd(p, 9) = e.proto /\ g = f
  <2>1. /\ 0 < Size(p) /\ 2 + 2 <= Size(p) /\ 6 + 2 <= Size(p) /\ 9 < Size(p)
        /\ 12 + 4 <= Size(p) /\ 16 + 4 <= Size(p)
        /\ 0 \in Nat /\ 2 \in Nat /\ 6 \in Nat /\ 9 \in Nat /\ 12 \in Nat /\ 16 \in Nat
    BY <1>0, <1>15
  <2>2. Rd(p, 0) = Rd(q, 0) /\ Rd(p, 9) = Rd(q, 9) /\ Be16(p, 2) = Be16(q, 2) /\ Be16(p, 6) = Be16(q, 6)
    BY <2>1, ExtendsReads
  <2>3. Addr4(p, 12) = V4Addr(from) /\ Addr4(p, 16) = V4Addr(to)
    BY <1>9, <2>1, AtV4Addr
  <2>4. \A x \in 0..10 : ((64 + (5 + x)) % 16) * 4 = (5 + x) * 4
    OBVIOUS
  <2>5. i = h
    BY <1>2, <1>9, <2>2, <2>4 DEF i
  <2>6. g = f
    BY <2>3 DEF f, g, Addressed
  <2> QED
    BY <1>9, <2>2, <2>5, <2>6
<1>11. CASE Size(p) < h
  <2>1. r = Undissected
    <3>1. CASE Size(p) < 20
      BY <1>13, <3>1
    <3>2. CASE Size(p) >= 20
      <4>1. i > Size(p)
        BY <1>0, <1>2, <1>11, <1>15, <3>2
      <4> QED
        BY <1>13, <4>1
    <3> QED
      BY <1>0, <3>1, <3>2
  <2>2. ~all
    BY <1>0, <1>1, <1>2, <1>11 DEF all
  <2> QED
    BY <1>14, <2>1, <2>2, Zenon
<1>12. CASE ~(Size(p) < h)
  <2>1. Size(p) >= 20 /\ h <= Size(p)
    BY <1>0, <1>2, <1>12
  <2>2. i = h /\ Be16(p, 2) = total /\ Be16(p, 6) = e.frag /\ Rd(p, 9) = e.proto /\ g = f
    BY <1>15, <2>1
  <2>3. e.frag % Frags # 0 <=> e.frag # 0
    BY DEF Frags
  <2>4. CASE e.frag # 0
    <3>1. r = Undissected
      BY <1>13, <2>2, <2>3, <2>4
    <3> QED
      BY <1>14, <2>4, <3>1, Zenon
  <2>5. CASE e.frag = 0
    <3> DEFINE len == l3 - h
    <3>1. r = ParseL4(e.proto, p, h, len, f)
      <4>1. ~(Size(p) < 20 \/ i < 20 \/ i > Size(p) \/ Be16(p, 6) % Frags # 0)
        BY <1>0, <1>2, <2>1, <2>2, <2>3, <2>5
      <4> QED
        BY <1>13, <2>2, <4>1
    <3>2. /\ l3 \in Nat /\ l3 >= h /\ l3 <= Size(p) /\ (all => l3 = h + m)
      <4>1. l3 = IF total \in h..Size(p) THEN total ELSE Size(p)
        BY <2>2 DEF l3
      <4>2. e.sized => total = h + m
        BY DEF total, V4Total, h
      <4>3. ~e.sized => total = 0 /\ Size(q) = h + m
        BY DEF total, V4Total, h, m
      <4> QED
        BY <1>0, <1>1, <1>2, <1>3, <2>1, <4>1, <4>2, <4>3 DEF all
    <3>3. /\ len \in Nat /\ h + len <= Size(p) /\ (all => len = m) /\ h + len = l3
      BY <1>0, <1>1, <1>2, <3>2
    <3> HIDE DEF len
    <3>4. /\ r.ok \in BOOLEAN /\ (r.ok <=> e.proto \in {Tcp, Udp} /\ len >= L4Head(e))
          /\ r.ok => /\ ViewOf(r.flow, e.proto, V4Addr(from), V4Addr(to), from, to)
                     /\ r.flow.payload = h + L4Head(e)
                     /\ r.flow.payload + r.flow.payload_len <= h + len
                     /\ len = L4Head(e) + n => r.flow.payload_len = n
      <4>1. At(q, h, L4(e, from, to, payload))
        BY <1>8 DEF l4
      <4> DEFINE v == 4
                 src == V4Addr(from)
                 dst == V4Addr(to)
                 R == ParseL4(e.proto, p, h, len, Addressed(v, src, dst))
      <4>2. r = R
        BY <3>1 DEF f
      <4> HIDE DEF v, src, dst, R
      <4>3. /\ R.ok \in BOOLEAN /\ (R.ok <=> e.proto \in {Tcp, Udp} /\ len >= L4Head(e))
            /\ R.ok => /\ ViewOf(R.flow, e.proto, src, dst, from, to)
                       /\ R.flow.payload = h + L4Head(e)
                       /\ R.flow.payload + R.flow.payload_len <= h + len
                       /\ len = L4Head(e) + n => R.flow.payload_len = n
        BY <1>2, <3>3, <4>1, L4View DEF R
      <4> QED
        BY <4>2, <4>3 DEF src, dst
    <3>5. all => len >= L4Head(e) /\ len = L4Head(e) + n
      BY <1>1, <3>3 DEF m
    <3>6. r.ok => r.flow.payload + r.flow.payload_len <= Size(p)
      <4>1. SUFFICES ASSUME r.ok PROVE r.flow.payload + r.flow.payload_len <= Size(p)
        OBVIOUS
      <4>2. r.flow.payload \in Nat /\ r.flow.payload_len \in Nat
        BY <3>4, <4>1 DEF ViewOf
      <4> QED
        BY <1>0, <1>2, <3>3, <3>4, <4>1, <4>2
    <3> QED
      BY <2>5, <3>4, <3>5, <3>6
  <2> QED
    BY <2>4, <2>5
<1> QED
  BY <1>11, <1>12

-----------------------------------------------------------------------------
\* The extension headers of IPv6.

\* What is assumed of them: the i-th is of type V6Next(e, i), and behind the last is
\* the transport header.
Chain(e) ==
  /\ e.exts \in Seq(Byte \ {Tcp, Udp}) /\ e.proto \in Byte \ V6ExtHeaders
  /\ e.frag \in Nat /\ e.frag < Frags
V6Next(e, i) == IF i = Len(e.exts) + 1 THEN e.proto ELSE e.exts[i]
HeaderLen(t) == IF t = Fragment THEN 8 ELSE 16
Passable(e, i) == e.exts[i] \in V6ExtHeaders /\ (e.exts[i] = Fragment => e.frag = 0)

\* The headers of a packet have types.
LEMMA ChainType ==
  ASSUME NEW e, Chain(e)
  PROVE  /\ Len(e.exts) \in Nat /\ e.frag * 8 \in Nat /\ e.frag * 8 < Word
         /\ \A i \in 1..(Len(e.exts) + 1) : V6Next(e, i) \in Byte
         /\ \A i \in 1..Len(e.exts) : e.exts[i] \in Byte /\ e.exts[i] \notin {Tcp, Udp}
<1>1. Len(e.exts) \in Nat
  BY LenProperties DEF Chain
<1>2. \A i \in 1..Len(e.exts) : e.exts[i] \in Byte /\ e.exts[i] \notin {Tcp, Udp}
  BY ElementOfSeq DEF Chain
<1>3. e.frag * 8 \in Nat /\ e.frag * 8 < Word
  <2>1. e.frag \in Nat /\ e.frag < Frags
    BY DEF Chain
  <2>2. \A x \in Nat : x < Frags => x * 8 \in Nat /\ x * 8 < Word
    BY DEF Frags, Word
  <2> QED
    BY <2>1, <2>2
<1>4. \A i \in 1..(Len(e.exts) + 1) : i = Len(e.exts) + 1 \/ i \in 1..Len(e.exts)
  BY <1>1
<1> QED
  BY <1>1, <1>2, <1>3, <1>4 DEF V6Next, Chain

\* An extension header, by its type.
LEMMA ExtHeaderParts ==
  ASSUME NEW e, Chain(e), NEW i \in 1..Len(e.exts)
  PROVE  ExtHeader(e, i) = IF e.exts[i] = Fragment
                           THEN <<V6Next(e, i + 1), 0>> \o U16(e.frag * 8) \o Zeros(4)
                           ELSE <<V6Next(e, i + 1), 1>> \o Zeros(14)
<1>1. i = Len(e.exts) <=> i + 1 = Len(e.exts) + 1
  BY ChainType
<1>2. V6Next(e, i + 1) = IF i = Len(e.exts) THEN e.proto ELSE e.exts[i + 1]
  BY <1>1 DEF V6Next
<1> QED
  BY <1>2, Zenon DEF ExtHeader

\* Its length.
LEMMA ExtHeaderType ==
  ASSUME NEW e, Chain(e), NEW i \in 1..Len(e.exts)
  PROVE  /\ Str(Byte, ExtHeader(e, i), HeaderLen(e.exts[i]))
         /\ Str(Byte, <<V6Next(e, i + 1), 0>>, 2) /\ Str(Byte, <<V6Next(e, i + 1), 1>>, 2)
         /\ Str(Byte, U16(e.frag * 8), 2)
<1>1. i + 1 \in 1..(Len(e.exts) + 1)
  BY ChainType
<1>2. V6Next(e, i + 1) \in Byte
  BY <1>1, ChainType
<1>3. 0 \in Byte /\ 1 \in Byte
  BY DEF Byte
<1>4. Str(Byte, <<V6Next(e, i + 1), 0>>, 2) /\ Str(Byte, <<V6Next(e, i + 1), 1>>, 2)
  BY <1>2, <1>3, StrTwo
<1>5. Str(Byte, U16(e.frag * 8), 2)
  BY ChainType, StrU16
<1>6. Str(Byte, Zeros(4), 4) /\ Str(Byte, Zeros(14), 14)
  BY StrZeros
<1>7. Str(Byte, <<V6Next(e, i + 1), 0>> \o U16(e.frag * 8) \o Zeros(4), 2 + 2 + 4)
  BY <1>4, <1>5, <1>6, StrCat3
<1>8. Str(Byte, <<V6Next(e, i + 1), 1>> \o Zeros(14), 2 + 14)
  BY <1>4, <1>6, StrCat
<1>9. 2 + 2 + 4 = 8 /\ 2 + 14 = 16
  OBVIOUS
<1>10. Str(Byte, ExtHeader(e, i), HeaderLen(e.exts[i]))
  BY <1>7, <1>8, <1>9, ExtHeaderParts DEF HeaderLen
<1> QED
  BY <1>4, <1>5, <1>10

\* The bytes of a header.
LEMMA ExtHeaderAt ==
  ASSUME NEW q \in Buffers, NEW e, Chain(e), NEW i \in 1..Len(e.exts), NEW o \in Nat,
         At(q, o, ExtHeader(e, i))
  PROVE  /\ Rd(q, o) = V6Next(e, i + 1)
         /\ e.exts[i] = Fragment => Be16(q, o + 2) = e.frag * 8
         /\ e.exts[i] # Fragment => Rd(q, o + 1) = 1
<1>1. ASSUME NEW x, NEW y, At(q, o, <<x, y>>) PROVE Rd(q, o) = x /\ Rd(q, o + 1) = y
  BY <1>1, AtTwo
<1>2. CASE e.exts[i] = Fragment
  <2> DEFINE a == <<V6Next(e, i + 1), 0>>
             b == U16(e.frag * 8)
             c == Zeros(4)
             k == 2
             l == 4
  <2>1. Str(Byte, a, k) /\ Str(Byte, b, k) /\ Str(Byte, c, l) /\ At(q, o, a \o b \o c)
    BY <1>2, ExtHeaderType, ExtHeaderParts, StrZeros
  <2> HIDE DEF a, b, c, k, l
  <2>2. At(q, o, a) /\ At(q, o + k, b)
    BY <2>1, AtStr3
  <2>3. Rd(q, o) = V6Next(e, i + 1)
    BY <1>1, <2>2 DEF a
  <2>4. At(q, o + 2, U16(e.frag * 8)) /\ o + 2 \in Nat
    BY <2>2 DEF b, k
  <2>5. Be16(q, o + 2) = e.frag * 8
    BY <2>4, ChainType, AtU16
  <2> QED
    BY <1>2, <2>3, <2>5
<1>3. CASE e.exts[i] # Fragment
  <2> DEFINE a == <<V6Next(e, i + 1), 1>>
             b == Zeros(14)
             k == 2
             l == 14
  <2>1. Str(Byte, a, k) /\ Str(Byte, b, l) /\ At(q, o, a \o b)
    BY <1>3, ExtHeaderType, ExtHeaderParts, StrZeros
  <2> HIDE DEF a, b, k, l
  <2>2. At(q, o, a)
    BY <2>1, AtStr
  <2>3. Rd(q, o) = V6Next(e, i + 1) /\ Rd(q, o + 1) = 1
    BY <1>1, <2>2, Zenon DEF a
  <2> QED
    BY <1>3, <2>3
<1> QED
  BY <1>2, <1>3

\* The walk skips a header of a known type that lies within the packet, and is then at
\* the one behind it.
LEMMA SkipAt ==
  ASSUME NEW p, NEW q, Extends(p, q), NEW e, Chain(e), NEW i \in 1..Len(e.exts),
         NEW o \in Nat, At(q, o, ExtHeader(e, i)), NEW l3 \in Nat, l3 <= Size(p)
  PROVE  LET h == [type |-> e.exts[i], off |-> o]
             len == HeaderLen(e.exts[i])
         IN SkipHeader(p, l3, h) = IF Passable(e, i) /\ o + len <= l3
                                   THEN [type |-> V6Next(e, i + 1), off |-> o + len] ELSE h
<1> DEFINE t == e.exts[i]
           h == [type |-> t, off |-> o]
           len == HeaderLen(t)
           next == [type |-> V6Next(e, i + 1), off |-> o + len]
<1>0. p \in Buffers /\ q \in Buffers /\ Size(p) \in Nat /\ t \in Byte
  BY ExtendsReads, ChainType DEF Extends
<1>1. /\ Rd(q, o) = V6Next(e, i + 1)
      /\ t = Fragment => Be16(q, o + 2) = e.frag * 8
      /\ t # Fragment => Rd(q, o + 1) = 1
  BY <1>0, ExtHeaderAt
<1>2. h.type = t /\ h.off = o /\ h \in Headers
  BY <1>0 DEF Headers
<1> HIDE DEF h, t
<1>3. Past(p, h) = IF t = Fragment THEN o + 8 ELSE o + (Rd(p, o + 1) + 1) * 8
  BY <1>2 DEF Past
<1>4. Past(p, h) \in Nat /\ Past(p, h) >= o + 8
  BY <1>0, <1>2, PastType
<1>5. SkipHeader(p, l3, h) = IF Skippable(p, l3, h) THEN [type |-> Rd(p, o), off |-> Past(p, h)] ELSE h
  BY <1>2 DEF SkipHeader
<1>6. Skippable(p, l3, h) <=>
        /\ Past(p, h) <= l3
        /\ \/ t \in {HopByHop, Routing, DestOpts, Mobility} /\ o + 2 <= l3
           \/ t = Fragment /\ Be16(p, o + 2) \div 8 = 0
  BY <1>2 DEF Skippable
<1>7. SUFFICES SkipHeader(p, l3, h) = IF Passable(e, i) /\ o + len <= l3 THEN next ELSE h
  BY DEF h, t
<1>8. CASE t = Fragment
  <2>1. Past(p, h) = o + 8 /\ len = 8
    BY <1>3, <1>8 DEF HeaderLen
  <2>2. CASE o + 8 <= l3
    <3>1. o < Size(p) /\ (o + 2) + 2 <= Size(p) /\ o + 2 \in Nat
      BY <1>0, <2>2
    <3>2. Rd(p, o) = V6Next(e, i + 1) /\ Be16(p, o + 2) = e.frag * 8
      BY <1>1, <1>8, <3>1, ExtendsReads
    <3>3. (e.frag * 8) \div 8 = e.frag
      BY DEF Chain
    <3>4. Skippable(p, l3, h) <=> e.frag = 0
      BY <1>6, <1>8, <2>1, <2>2, <3>2, <3>3 DEF HopByHop, Routing, DestOpts, Mobility, Fragment
    <3>5. Passable(e, i) <=> e.frag = 0
      BY <1>8 DEF Passable, V6ExtHeaders, t
    <3>6. [type |-> Rd(p, o), off |-> Past(p, h)] = next
      BY <2>1, <3>2
    <3>7. o + len <= l3
      BY <2>1, <2>2
    <3> QED
      BY <1>5, <3>4, <3>5, <3>6, <3>7
  <2>3. CASE ~(o + 8 <= l3)
    <3>1. ~Skippable(p, l3, h) /\ ~(o + len <= l3)
      BY <1>6, <2>1, <2>3
    <3> QED
      BY <1>5, <3>1
  <2> QED
    BY <2>2, <2>3
<1>9. CASE t # Fragment
  <2>1. len = 16
    BY <1>9 DEF HeaderLen
  <2>4. Passable(e, i) <=> t \in {HopByHop, Routing, DestOpts, Mobility}
    BY <1>9 DEF Passable, V6ExtHeaders, t
  <2>2. CASE o + 2 <= l3
    <3>1. o < Size(p) /\ o + 1 < Size(p) /\ o + 1 \in Nat
      BY <1>0, <2>2
    <3>2. Rd(p, o) = V6Next(e, i + 1) /\ Rd(p, o + 1) = 1
      BY <1>1, <1>9, <3>1, ExtendsReads
    <3>3. Past(p, h) = o + 16
      BY <1>3, <1>9, <3>2
    <3>4. Skippable(p, l3, h) <=> o + len <= l3 /\ Passable(e, i)
      BY <1>6, <1>9, <2>1, <2>2, <2>4, <3>3
    <3>5. [type |-> Rd(p, o), off |-> Past(p, h)] = next
      BY <2>1, <3>2, <3>3
    <3> QED
      BY <1>5, <3>4, <3>5
  <2>3. CASE ~(o + 2 <= l3)
    <3>1. ~Skippable(p, l3, h)
      BY <1>6, <1>9, <2>3
    <3>2. ~(o + len <= l3)
      BY <2>1, <2>3
    <3> QED
      BY <1>5, <3>1, <3>2
  <2> QED
    BY <2>2, <2>3
<1> QED
  BY <1>8, <1>9

\* The headers lie one behind the other in q, from offset 40 on.
Headed(q, e, at) ==
  /\ at \in [1..(Len(e.exts) + 1) -> Nat] /\ at[1] = 40 /\ Rd(q, 6) = V6Next(e, 1)
  /\ \A i \in 1..Len(e.exts) : /\ at[i + 1] = at[i] + HeaderLen(e.exts[i])
                               /\ At(q, at[i], ExtHeader(e, i))

Walked(p, l3, e, at, n, i) ==
  /\ WalkV6(p, l3, n) = [type |-> V6Next(e, i), off |-> at[i]]
  /\ i <= n + 1 /\ at[i] <= l3 /\ \A k \in 1..(i - 1) : Passable(e, k)
  /\ i = n + 1 \/ i = Len(e.exts) + 1 \/ ~Passable(e, i) \/ l3 < at[i + 1]

\* The walk is at one of the headers, and has passed those before it; in a packet that
\* has them all, it has passed as many as it had turns.
LEMMA WalkAt ==
  ASSUME NEW p, NEW q, Extends(p, q), NEW e, Chain(e), NEW at, Headed(q, e, at),
         NEW l3 \in Nat, l3 <= Size(p), 40 <= l3, NEW n \in Nat
  PROVE  \E i \in 1..(Len(e.exts) + 1) : Walked(p, l3, e, at, n, i)
<1> DEFINE x == Len(e.exts)
           Is(k, i) == /\ WalkV6(p, l3, k) = [type |-> V6Next(e, i), off |-> at[i]]
                       /\ i <= k + 1 /\ at[i] <= l3 /\ \A j \in 1..(i - 1) : Passable(e, j)
                       /\ \/ i = k + 1 \/ i = x + 1 \/ ~Passable(e, i) \/ l3 < at[i + 1]
           S == {k \in Nat : \E i \in 1..(x + 1) : Is(k, i)}
<1>0. x \in Nat /\ p \in Buffers /\ q \in Buffers /\ Size(p) \in Nat
  BY ChainType, ExtendsReads DEF Extends
<1>1. 0 \in S
  <2>1. WalkV6(p, l3, 0) = [type |-> Rd(p, 6), off |-> 40]
    BY <1>0, WalkV6Step
  <2>2. Rd(p, 6) = V6Next(e, 1)
    <3>1. 6 \in Nat /\ 6 < Size(p)
      BY <1>0
    <3> QED
      BY <3>1, ExtendsReads DEF Headed
  <2>3. Is(0, 1)
    <3>1. at[1] = 40 /\ 1 <= 0 + 1 /\ 1 = 0 + 1 /\ 1..(1 - 1) = {}
      BY DEF Headed
    <3> QED
      BY <2>1, <2>2, <3>1
  <2> QED
    BY <1>0, <2>3
<1>2. ASSUME NEW k \in Nat, k \in S PROVE k + 1 \in S
  <2>1. PICK i \in 1..(x + 1) : Is(k, i)
    BY <1>2
  <2> DEFINE h == [type |-> V6Next(e, i), off |-> at[i]]
  <2>2. WalkV6(p, l3, k + 1) = SkipHeader(p, l3, h)
    BY <1>0, <2>1, WalkV6Step
  <2>3. CASE i = x + 1
    <3>1. h.type = e.proto
      BY <2>3 DEF V6Next
    <3>2. ~Skippable(p, l3, h)
      BY <3>1 DEF Skippable, Chain, V6ExtHeaders
    <3>3. WalkV6(p, l3, k + 1) = h
      BY <2>2, <3>2 DEF SkipHeader
    <3>4. i <= (k + 1) + 1
      BY <2>1
    <3>5. Is(k + 1, i)
      BY <2>1, <2>3, <3>3, <3>4
    <3> QED
      BY <3>5
  <2>4. CASE i # x + 1
    <3>1. i \in 1..x /\ i + 1 \in 1..(x + 1) /\ (i + 1) - 1 = i
      BY <1>0, <2>4
    <3>2. at[i] \in Nat /\ at[i + 1] = at[i] + HeaderLen(e.exts[i]) /\ At(q, at[i], ExtHeader(e, i))
      BY <3>1 DEF Headed
    <3>3. V6Next(e, i) = e.exts[i]
      BY <2>4 DEF V6Next
    <3>4. SkipHeader(p, l3, h) = IF Passable(e, i) /\ at[i + 1] <= l3
                                 THEN [type |-> V6Next(e, i + 1), off |-> at[i + 1]] ELSE h
      BY <3>1, <3>2, <3>3, SkipAt
    <3>5. CASE Passable(e, i) /\ at[i + 1] <= l3
      <4>1. WalkV6(p, l3, k + 1) = [type |-> V6Next(e, i + 1), off |-> at[i + 1]]
        BY <2>2, <3>4, <3>5
      <4>2. at[i + 1] \in Nat
        BY <3>1 DEF Headed
      <4>3. i = k + 1
        BY <2>1, <2>4, <3>5, <4>2
      <4>4. \A j \in 1..((i + 1) - 1) : Passable(e, j)
        <5>1. \A j \in 1..i : j \in 1..(i - 1) \/ j = i
          OBVIOUS
        <5> QED
          BY <2>1, <3>1, <3>5, <5>1
      <4>5. i + 1 = (k + 1) + 1 /\ i + 1 <= (k + 1) + 1
        BY <4>3
      <4>6. Is(k + 1, i + 1)
        BY <3>5, <4>1, <4>4, <4>5
      <4> QED
        BY <3>1, <4>6
    <3>6. CASE ~(Passable(e, i) /\ at[i + 1] <= l3)
      <4>1. WalkV6(p, l3, k + 1) = h
        BY <2>2, <3>4, <3>6
      <4>2. at[i + 1] \in Nat
        BY <3>1 DEF Headed
      <4>3. ~Passable(e, i) \/ l3 < at[i + 1]
        BY <3>6, <4>2
      <4>4. i <= (k + 1) + 1
        BY <2>1
      <4>5. Is(k + 1, i)
        BY <2>1, <4>1, <4>3, <4>4
      <4> QED
        BY <4>5
    <3> QED
      BY <3>5, <3>6
  <2> QED
    BY <2>3, <2>4
<1>3. n \in S
  <2> HIDE DEF S
  <2> QED
    BY <1>1, <1>2, NatSet
<1> QED
  BY <1>3 DEF Walked

-----------------------------------------------------------------------------
\* The IPv6 header.

V6List(e) == [i \in DOMAIN e.exts |-> ExtHeader(e, i)]
V6Exts(e) == FlattenSeq(V6List(e))
V6Len(e, k) == IF e.sized THEN k ELSE 0
V6Start(e, k) == <<96, 0, 0, 0>> \o U16(V6Len(e, k)) \o <<V6Next(e, 1), 64>>
V6Half(e, k, from) == V6Start(e, k) \o Zeros(15) \o <<from>> \o Zeros(15)
V6Whole(e, from, to, rest) == V6Half(e, Len(rest), from) \o <<to>> \o rest

\* All extension headers.
LEMMA V6ExtsType ==
  ASSUME NEW e, Chain(e)
  PROVE  /\ V6List(e) \in Seq(Seq(Byte)) /\ Len(V6List(e)) = Len(e.exts)
         /\ \A i \in 1..Len(e.exts) : V6List(e)[i] = ExtHeader(e, i)
         /\ V6Exts(e) \in Seq(Byte) /\ Len(V6Exts(e)) \in Nat
<1>1. PICK x \in Nat : x = Len(e.exts) /\ DOMAIN e.exts = 1..x
  BY LenProperties DEF Chain
<1>2. \A i \in 1..x : ExtHeader(e, i) \in Seq(Byte)
  BY <1>1, ExtHeaderType DEF Str
<1>3. V6List(e) \in [1..x -> Seq(Byte)] /\ \A i \in 1..x : V6List(e)[i] = ExtHeader(e, i)
  BY <1>1, <1>2 DEF V6List
<1>4. V6List(e) \in Seq(Seq(Byte)) /\ Len(V6List(e)) = x
  BY <1>3, IsASeq, LenProperties
<1>5. V6Exts(e) \in Seq(Byte)
  BY <1>4, FlattenParts DEF V6Exts
<1> QED
  BY <1>1, <1>3, <1>4, <1>5, LenProperties

\* An IPv6 packet has a header of fixed size, extension headers and a segment.
LEMMA V6Parts ==
  ASSUME NEW e, Chain(e), NEW from, NEW to, NEW l4, NEW rest, rest = V6Exts(e) \o l4
  PROVE  Ipv6(e, from, to, l4) = V6Whole(e, from, to, rest)
<1>1. e.exts = <<>> <=> Len(e.exts) = 0
  BY EmptySeq DEF Chain
<1>2. Len(e.exts) = 0 <=> 1 = Len(e.exts) + 1
  BY ChainType
<1>3. V6Next(e, 1) = IF e.exts = <<>> THEN e.proto ELSE e.exts[1]
  BY <1>1, <1>2 DEF V6Next
<1> QED
  BY <1>3, Zenon DEF Ipv6, V6Whole, V6Half, V6Start, V6Exts, V6List, V6Len

\* The length of the header up to the destination address.
LEMMA V6HalfType ==
  ASSUME NEW e, Chain(e), NEW T, Byte \subseteq T, NEW k, NEW from \in Hosts, NEW to \in Hosts,
         Str(T, U16(V6Len(e, k)), 2)
  PROVE  /\ Str(T, <<96, 0, 0, 0>>, 4) /\ Str(T, <<V6Next(e, 1), 64>>, 2)
         /\ Str(T, Zeros(15), 15) /\ Str(T, <<from>>, 1) /\ Str(T, <<to>>, 1)
         /\ Str(T, V6Start(e, k), 8) /\ Str(T, V6Half(e, k, from), 39)
<1>0. ASSUME NEW s, NEW n, Str(Byte, s, n) PROVE Str(T, s, n)
  BY <1>0, StrWider
<1>1. 0 \in Byte /\ 96 \in Byte /\ 64 \in Byte
  BY DEF Byte
<1>2. from \in Byte /\ to \in Byte
  BY HostType
<1>3. V6Next(e, 1) \in Byte
  <2>1. 1 \in 1..(Len(e.exts) + 1)
    BY ChainType
  <2> QED
    BY <2>1, ChainType
<1>4. Str(T, <<96, 0, 0, 0>>, 4)
  BY <1>0, <1>1, StrFour
<1>5. Str(T, <<V6Next(e, 1), 64>>, 2)
  BY <1>0, <1>1, <1>3, StrTwo
<1>6. Str(T, Zeros(15), 15)
  BY <1>0, StrZeros
<1>7. Str(T, <<from>>, 1) /\ Str(T, <<to>>, 1)
  BY <1>0, <1>2, StrOne
<1>8. Str(T, V6Start(e, k), 4 + 2 + 2)
  BY <1>4, <1>5, StrCat3 DEF V6Start
<1>9. 4 + 2 + 2 = 8 /\ 8 + 15 + 1 + 15 = 39
  OBVIOUS
<1>10. Str(T, V6Start(e, k), 8)
  BY <1>8, <1>9
<1>11. Str(T, V6Half(e, k, from), 8 + 15 + 1 + 15)
  BY <1>6, <1>7, <1>10, StrCat4 DEF V6Half
<1> QED
  BY <1>4, <1>5, <1>6, <1>7, <1>9, <1>10, <1>11

\* The length of the packet.
LEMMA V6Type ==
  ASSUME NEW e, Chain(e), NEW T, Byte \subseteq T, NEW l4, NEW n, Str(T, l4, n),
         NEW from \in Hosts, NEW to \in Hosts,
         Str(T, U16(V6Len(e, Len(V6Exts(e)) + n)), 2)
  PROVE  Str(T, Ipv6(e, from, to, l4), 40 + (Len(V6Exts(e)) + n))
<1> DEFINE x == Len(V6Exts(e))
           rest == V6Exts(e) \o l4
<1>1. Str(T, V6Exts(e), x) /\ x \in Nat /\ n \in Nat
  BY V6ExtsType, StrOf, StrWider DEF Str
<1>2. Str(T, rest, x + n)
  BY <1>1, StrCat
<1>3. Len(rest) = x + n
  BY <1>2 DEF Str
<1>4. Str(T, V6Half(e, x + n, from), 39) /\ Str(T, <<to>>, 1)
  <2> HIDE DEF x
  <2>1. PICK k : k = x + n
    OBVIOUS
  <2>2. Str(T, U16(V6Len(e, k)), 2)
    BY <2>1 DEF x
  <2> QED
    BY <2>1, <2>2, V6HalfType
<1>5. Ipv6(e, from, to, l4) = V6Half(e, x + n, from) \o <<to>> \o rest
  <2>2. rest = V6Exts(e) \o l4
    OBVIOUS
  <2> HIDE DEF rest
  <2>1. Ipv6(e, from, to, l4) = V6Half(e, Len(rest), from) \o <<to>> \o rest
    <3>1. Ipv6(e, from, to, l4) = V6Whole(e, from, to, rest)
      BY <2>2, V6Parts
    <3> QED
      BY <3>1, Zenon DEF V6Whole
  <2> QED
    BY <1>3, <2>1
<1> HIDE DEF rest, x
<1>6. Str(T, V6Half(e, x + n, from) \o <<to>> \o rest, 39 + 1 + (x + n))
  BY <1>2, <1>4, StrCat3
<1>7. 39 + 1 + (x + n) = 40 + (x + n)
  BY <1>1
<1> QED
  BY <1>5, <1>6, <1>7 DEF x

\* The address of a host, as the view has it.
V6Addr(h) == [i \in 1..16 |-> IF i = 16 THEN h ELSE 0]

\* An address is read back.
LEMMA AtV6Addr ==
  ASSUME NEW p, NEW q, Extends(p, q), NEW o \in Nat, o + 16 <= Size(p), NEW h,
         At(q, o, Zeros(15)), At(q, o + 15, <<h>>)
  PROVE  Bytes(p, o, 16) = V6Addr(h)
<1>0. Size(p) \in Nat
  BY ExtendsReads
<1>1. ASSUME NEW i \in 1..16 PROVE Rd(p, o + i - 1) = IF i = 16 THEN h ELSE 0
  <2>1. o + i - 1 \in Nat /\ o + i - 1 < Size(p)
    BY <1>0
  <2>2. Rd(p, o + i - 1) = Rd(q, o + i - 1)
    BY <2>1, ExtendsReads
  <2>3. CASE i = 16
    <3>1. o + 15 \in Nat /\ o + 16 - 1 = o + 15
      OBVIOUS
    <3>2. Rd(q, o + 15) = h
      BY <3>1, AtOne
    <3> QED
      BY <2>2, <2>3, <3>1, <3>2
  <2>4. CASE i # 16
    <3>1. i \in 1..15 /\ Len(Zeros(15)) = 15 /\ Zeros(15)[i] = 0
      BY <2>4, ZerosType DEF Zeros
    <3>2. Rd(q, o + i - 1) = Zeros(15)[i]
      BY <3>1 DEF At
    <3> QED
      BY <2>2, <2>4, <3>1, <3>2
  <2> QED
    BY <2>3, <2>4
<1> QED
  BY <1>1, Zenon DEF Bytes, V6Addr

\* What parseIPv6() reads before the destination address.
LEMMA V6HalfAt ==
  ASSUME NEW e, Chain(e), NEW q \in Buffers, NEW k, NEW from \in Hosts,
         V6Len(e, k) \in Nat, V6Len(e, k) < Word, At(q, 0, V6Half(e, k, from))
  PROVE  /\ Rd(q, 0) = 96 /\ Be16(q, 4) = V6Len(e, k) /\ Rd(q, 6) = V6Next(e, 1)
         /\ At(q, 8, Zeros(15)) /\ At(q, 23, <<from>>) /\ At(q, 24, Zeros(15))
<1>1. Str(Byte, U16(V6Len(e, k)), 2)
  BY StrU16
<1>2. /\ Str(Byte, <<96, 0, 0, 0>>, 4) /\ Str(Byte, <<V6Next(e, 1), 64>>, 2)
      /\ Str(Byte, Zeros(15), 15) /\ Str(Byte, <<from>>, 1) /\ Str(Byte, V6Start(e, k), 8)
  <2>1. PICK T : T = Byte
    OBVIOUS
  <2>2. Byte \subseteq T /\ Str(T, U16(V6Len(e, k)), 2)
    BY <1>1, <2>1
  <2>3. /\ Str(T, <<96, 0, 0, 0>>, 4) /\ Str(T, <<V6Next(e, 1), 64>>, 2)
        /\ Str(T, Zeros(15), 15) /\ Str(T, <<from>>, 1) /\ Str(T, V6Start(e, k), 8)
    BY <2>2, V6HalfType
  <2> QED
    BY <2>1, <2>3
<1>3. /\ At(q, 0, V6Start(e, k)) /\ At(q, 8, Zeros(15)) /\ At(q, 23, <<from>>)
      /\ At(q, 24, Zeros(15))
  <2> DEFINE a == V6Start(e, k)
             b == Zeros(15)
             c == <<from>>
             o == 0
             i == 8
             j == 15
             l == 1
  <2>1. /\ o \in Nat /\ Str(Byte, a, i) /\ Str(Byte, b, j) /\ Str(Byte, c, l)
        /\ At(q, o, a \o b \o c \o b)
    BY <1>2 DEF V6Half
  <2>3. o = 0 /\ o + i = 8 /\ o + i + j = 23 /\ o + i + j + l = 24
    OBVIOUS
  <2> HIDE DEF a, b, c, o, i, j, l
  <2>2. At(q, o, a) /\ At(q, o + i, b) /\ At(q, o + i + j, c) /\ At(q, o + i + j + l, b)
    BY <2>1, AtStr4
  <2> QED
    BY <2>2, <2>3 DEF a, b, c
<1>4. At(q, 0, <<96, 0, 0, 0>>) /\ At(q, 4, U16(V6Len(e, k))) /\ At(q, 6, <<V6Next(e, 1), 64>>)
  <2> DEFINE a == <<96, 0, 0, 0>>
             b == U16(V6Len(e, k))
             c == <<V6Next(e, 1), 64>>
             o == 0
             i == 4
             j == 2
  <2>1. /\ o \in Nat /\ Str(Byte, a, i) /\ Str(Byte, b, j) /\ Str(Byte, c, j)
        /\ At(q, o, a \o b \o c)
    BY <1>1, <1>2, <1>3 DEF V6Start
  <2>3. o = 0 /\ o + i = 4 /\ o + i + j = 6
    OBVIOUS
  <2> HIDE DEF a, b, c, o, i, j
  <2>2. At(q, o, a) /\ At(q, o + i, b) /\ At(q, o + i + j, c)
    BY <2>1, AtStr3
  <2> QED
    BY <2>2, <2>3 DEF a, b, c
<1>5. ASSUME NEW o \in Nat, NEW x, NEW y, At(q, o, <<x, y>>) PROVE Rd(q, o) = x
  BY <1>5, AtTwo
<1>6. ASSUME NEW o \in Nat, NEW a, NEW b, NEW c, NEW d, At(q, o, <<a, b, c, d>>) PROVE Rd(q, o) = a
  BY <1>6, AtFour
<1>7. 0 \in Nat /\ 4 \in Nat /\ 6 \in Nat
  OBVIOUS
<1>8. Rd(q, 0) = 96
  BY <1>4, <1>6, <1>7, Zenon
<1>9. Be16(q, 4) = V6Len(e, k)
  BY <1>4, <1>7, AtU16
<1>10. Rd(q, 6) = V6Next(e, 1)
  BY <1>4, <1>5, <1>7, Zenon
<1> QED
  BY <1>3, <1>8, <1>9, <1>10

\* What the packet q has where.
LEMMA V6At ==
  ASSUME NEW e, Chain(e), NEW q \in Buffers, NEW l4, NEW n, Str(Byte, l4, n),
         NEW from \in Hosts, NEW to \in Hosts,
         V6Len(e, Len(V6Exts(e)) + n) < Word, At(q, 0, Ipv6(e, from, to, l4))
  PROVE  /\ Rd(q, 0) = 96 /\ Be16(q, 4) = V6Len(e, Len(V6Exts(e)) + n)
         /\ At(q, 8, Zeros(15)) /\ At(q, 23, <<from>>)
         /\ At(q, 24, Zeros(15)) /\ At(q, 39, <<to>>)
         /\ \E at : /\ Headed(q, e, at) /\ at[Len(e.exts) + 1] = 40 + Len(V6Exts(e))
                    /\ At(q, at[Len(e.exts) + 1], l4)
                    /\ \A i \in 1..Len(e.exts) : at[i + 1] <= 40 + Len(V6Exts(e))
<1> DEFINE s == V6Exts(e)
           x == Len(V6Exts(e))
           rest == s \o l4
           k == x + n
<1>1. Str(Byte, s, x) /\ x \in Nat /\ n \in Nat
  BY V6ExtsType, StrOf DEF Str
<1>2. Str(Byte, rest, k)
  BY <1>1, StrCat
<1>3. Len(rest) = k /\ k \in Nat
  BY <1>2 DEF Str
<1>4. V6Len(e, k) \in Nat /\ V6Len(e, k) < Word
  BY <1>3 DEF V6Len
<1>5. Str(Byte, V6Half(e, k, from), 39) /\ Str(Byte, <<to>>, 1)
  <2> HIDE DEF k
  <2>1. PICK T : T = Byte
    OBVIOUS
  <2>2. Byte \subseteq T /\ Str(T, U16(V6Len(e, k)), 2)
    BY <1>4, <2>1, StrU16
  <2>3. Str(T, V6Half(e, k, from), 39) /\ Str(T, <<to>>, 1)
    BY <2>2, V6HalfType
  <2> QED
    BY <2>1, <2>3
<1>6. At(q, 0, V6Half(e, k, from)) /\ At(q, 39, <<to>>) /\ At(q, 40, rest)
  <2>4. rest = V6Exts(e) \o l4
    OBVIOUS
  <2> HIDE DEF rest, k
  <2>0. Ipv6(e, from, to, l4) = V6Half(e, Len(rest), from) \o <<to>> \o rest
    <3>1. Ipv6(e, from, to, l4) = V6Whole(e, from, to, rest)
      BY <2>4, V6Parts
    <3> QED
      BY <3>1, Zenon DEF V6Whole
  <2> DEFINE a == V6Half(e, k, from)
             b == <<to>>
             o == 0
             i == 39
             j == 1
  <2>1. /\ o \in Nat /\ Str(Byte, a, i) /\ Str(Byte, b, j) /\ At(q, o, a \o b \o rest)
    BY <1>3, <1>5, <2>0
  <2>3. o = 0 /\ o + i = 39 /\ o + i + j = 40
    OBVIOUS
  <2> HIDE DEF a, b, o, i, j
  <2>2. At(q, o, a) /\ At(q, o + i, b) /\ At(q, o + i + j, rest)
    BY <1>2, <2>1, AtStr3
  <2> QED
    BY <2>2, <2>3 DEF a, b
<1>7. /\ Rd(q, 0) = 96 /\ Be16(q, 4) = V6Len(e, k) /\ Rd(q, 6) = V6Next(e, 1)
      /\ At(q, 8, Zeros(15)) /\ At(q, 23, <<from>>) /\ At(q, 24, Zeros(15))
  <2> HIDE DEF k
  <2> QED
    BY <1>4, <1>6, V6HalfAt
<1>8. At(q, 40, s) /\ At(q, 40 + x, l4)
  <2>1. PICK o \in Nat : o = 40
    OBVIOUS
  <2>2. At(q, o, s \o l4)
    BY <1>6, <2>1
  <2> HIDE DEF s, x
  <2>3. At(q, o, s) /\ At(q, o + x, l4)
    BY <1>1, <2>2, AtStr
  <2> QED
    BY <2>1, <2>3
<1>9. PICK off : Parts(V6List(e), s, off)
  BY V6ExtsType, FlattenParts DEF V6Exts
<1>10. PICK l \in Nat : l = Len(e.exts)
  BY ChainType
<1>11. /\ off \in [1..(l + 1) -> Nat] /\ off[1] = 0 /\ off[l + 1] = x
       /\ \A i \in 1..l : off[i + 1] = off[i] + Len(ExtHeader(e, i))
  BY <1>9, <1>10, V6ExtsType DEF Parts
<1>12. \A i \in 1..l : At(q, 40 + off[i], ExtHeader(e, i))
  <2>1. PICK o \in Nat : o = 40
    OBVIOUS
  <2>2. V6List(e) \in Seq(Seq(Byte)) /\ Len(V6List(e)) = l /\ s \in Seq(Byte) /\ At(q, o, s)
    BY <1>1, <1>8, <1>10, <2>1, V6ExtsType DEF Str
  <2> HIDE DEF s
  <2>3. \A i \in 1..l : At(q, o + off[i], V6List(e)[i])
    BY <1>9, <2>2, AtParts
  <2> QED
    BY <1>10, <2>1, <2>3, V6ExtsType
<1> DEFINE at == [i \in 1..(l + 1) |-> 40 + off[i]]
<1>13. Headed(q, e, at)
  <2>1. at \in [1..(l + 1) -> Nat]
    BY <1>11
  <2>2. at[1] = 40
    BY <1>11
  <2>3. ASSUME NEW i \in 1..l
        PROVE  at[i + 1] = at[i] + HeaderLen(e.exts[i]) /\ At(q, at[i], ExtHeader(e, i))
    <3>1. i \in 1..(l + 1) /\ i + 1 \in 1..(l + 1)
      OBVIOUS
    <3>2. at[i] = 40 + off[i] /\ at[i + 1] = 40 + off[i + 1] /\ off[i] \in Nat /\ off[i + 1] \in Nat
      BY <1>11, <3>1
    <3>3. Len(ExtHeader(e, i)) = HeaderLen(e.exts[i])
      BY <1>10, ExtHeaderType DEF Str
    <3>4. off[i + 1] = off[i] + HeaderLen(e.exts[i])
      BY <1>11, <3>3
    <3>5. HeaderLen(e.exts[i]) \in Nat
      BY DEF HeaderLen
    <3> HIDE DEF at
    <3>6. at[i + 1] = at[i] + HeaderLen(e.exts[i])
      BY <3>2, <3>4, <3>5
    <3> QED
      BY <1>12, <3>2, <3>6
  <2> HIDE DEF at
  <2> QED
    BY <1>7, <1>10, <2>1, <2>2, <2>3 DEF Headed
<1>14. at[l + 1] = 40 + x
  BY <1>11
<1>15. ASSUME NEW i \in 1..l PROVE at[i + 1] <= 40 + x
  <2>1. V6List(e) \in Seq(Seq(Byte)) /\ Len(V6List(e)) = l /\ s \in Seq(Byte)
    BY <1>1, <1>10, V6ExtsType DEF Str
  <2> HIDE DEF s
  <2>2. off[i + 1] <= Len(s) /\ off[i + 1] \in Nat
    BY <1>9, <2>1, PartsInside
  <2>3. at[i + 1] = 40 + off[i + 1]
    BY <1>10
  <2> QED
    BY <1>1, <2>2, <2>3 DEF s
<1> HIDE DEF at, x
<1> QED
  BY <1>6, <1>7, <1>8, <1>10, <1>13, <1>14, <1>15 DEF x

\* flow_view() on the first bytes of an IPv6 packet.
V6Good(e) ==
  /\ e.frag = 0 /\ e.proto \in {Tcp, Udp} /\ e.sized /\ Len(e.exts) < MaxV6ExtHeaders
  /\ \A i \in 1..Len(e.exts) : e.exts[i] \in V6ExtHeaders

\* What parseIPv6() makes of the packet.
LEMMA V6View ==
  ASSUME NEW p, NEW q, Extends(p, q), NEW e, Chain(e), NEW payload, NEW n, Str(Byte, payload, n),
         NEW from \in Hosts, NEW to \in Hosts, UdpSize(e, n) < Word,
         V6Len(e, Len(V6Exts(e)) + (L4Head(e) + n)) < Word,
         e.frag # 0 => \E i \in 1..Len(e.exts) : e.exts[i] = Fragment,
         At(q, 0, Ipv6(e, from, to, L4(e, from, to, payload)))
  PROVE  LET r == ParseIPv6(p)
             all == Size(p) >= 40 + (Len(V6Exts(e)) + (L4Head(e) + n))
         IN /\ Size(p) > 0 => Rd(p, 0) \div 16 = 6
            /\ r.ok \in BOOLEAN
            /\ all => (r.ok <=> V6Good(e))
            /\ r.ok => /\ ViewOf(r.flow, e.proto, V6Addr(from), V6Addr(to), from, to)
                       /\ r.flow.payload = (40 + Len(V6Exts(e))) + L4Head(e)
                       /\ r.flow.payload + r.flow.payload_len <= Size(p)
                       /\ all => r.flow.payload_len = n
<1> DEFINE r == ParseIPv6(p)
           x == Len(V6Exts(e))
           m == L4Head(e) + n
           k == x + m
           l == Len(e.exts)
           l4 == L4(e, from, to, payload)
           all == Size(p) >= 40 + k
<1>0. /\ Size(p) \in Nat /\ Size(q) \in Nat /\ Size(p) <= Size(q) /\ p \in Buffers /\ q \in Buffers
      /\ l \in Nat
  BY ExtendsReads, ChainType DEF Extends
<1>1. n \in Nat /\ L4Head(e) \in Nat /\ m \in Nat /\ L4Head(e) >= 8
  BY DEF Str, L4Head
<1>2. x \in Nat /\ k \in Nat
  BY <1>1, V6ExtsType
<1>4. UdpSize(e, n) \in Nat
  BY <1>1 DEF UdpSize
<1>5. Str(Byte, l4, m)
  <2> PICK T : T = Byte
    OBVIOUS
  <2>1. Str(T, payload, n) /\ Byte \subseteq T /\ Str(T, U16(UdpSize(e, n)), 2)
    BY <1>4, StrU16
  <2>2. Str(T, L4(e, from, to, payload), L4Head(e) + n)
    BY <2>1, L4Type
  <2> QED
    BY <2>2
<1>6. /\ Rd(q, 0) = 96 /\ Be16(q, 4) = V6Len(e, k)
      /\ At(q, 8, Zeros(15)) /\ At(q, 23, <<from>>)
      /\ At(q, 24, Zeros(15)) /\ At(q, 39, <<to>>)
      /\ \E at : /\ Headed(q, e, at) /\ at[l + 1] = 40 + x /\ At(q, at[l + 1], l4)
                 /\ \A i \in 1..l : at[i + 1] <= 40 + x
  <2>1. V6Len(e, Len(V6Exts(e)) + m) < Word /\ At(q, 0, Ipv6(e, from, to, l4))
    OBVIOUS
  <2> HIDE DEF l4, m
  <2> QED
    BY <1>0, <1>5, <2>1, V6At
<1>7. PICK at : /\ Headed(q, e, at) /\ at[l + 1] = 40 + x /\ At(q, at[l + 1], l4)
                /\ \A i \in 1..l : at[i + 1] <= 40 + x
  BY <1>6
<1>8. V6Len(e, k) = (IF e.sized THEN k ELSE 0) /\ V6Len(e, k) \in Nat
  BY <1>2 DEF V6Len
<1>16. ASSUME Size(p) > 0 PROVE Rd(p, 0) \div 16 = 6
  <2>1. 96 \div 16 = 6
    OBVIOUS
  <2>2. Rd(p, 0) = Rd(q, 0)
    BY <1>16, ExtendsReads
  <2> QED
    BY <1>6, <2>1, <2>2
<1>10. SUFFICES
         /\ r.ok \in BOOLEAN
         /\ all => (r.ok <=> V6Good(e))
         /\ r.ok => /\ ViewOf(r.flow, e.proto, V6Addr(from), V6Addr(to), from, to)
                    /\ r.flow.payload = (40 + x) + L4Head(e)
                    /\ r.flow.payload + r.flow.payload_len <= Size(p)
                    /\ all => r.flow.payload_len = n
  BY <1>16
<1> DEFINE said == 40 + Be16(p, 4)
           l3 == IF said <= Size(p) THEN said ELSE Size(p)
           h == WalkV6(p, l3, MaxV6ExtHeaders - 1)
           g == [NoFlow EXCEPT !.ip_version = 6, !.src_ip = Bytes(p, 8, 16),
                               !.dst_ip = Bytes(p, 24, 16)]
           f == Addressed(6, V6Addr(from), V6Addr(to))
<1>11. r = IF Size(p) < 40 THEN Undissected ELSE ParseL4(h.type, p, h.off, l3 - h.off, g)
  BY Zenon DEF ParseIPv6
<1>12. Undissected.ok = FALSE
  BY DEF Undissected
<1> HIDE DEF r, x, m, k, l, l4, all, l3, h, g, f
<1>13. CASE Size(p) < 40
  <2>1. r = Undissected
    BY <1>11, <1>13
  <2>2. ~all
    BY <1>0, <1>2, <1>13 DEF all
  <2> QED
    BY <1>12, <2>1, <2>2, Zenon
<1>14. CASE ~(Size(p) < 40)
  <2>1. /\ 4 \in Nat /\ 8 \in Nat /\ 24 \in Nat /\ 4 + 2 <= Size(p) /\ 8 + 16 <= Size(p)
        /\ 24 + 16 <= Size(p) /\ 8 + 15 = 23 /\ 24 + 15 = 39
    BY <1>0, <1>14
  <2>2. Be16(p, 4) = V6Len(e, k)
    BY <1>6, <2>1, ExtendsReads
  <2>3. g = f
    <3>1. ASSUME NEW o \in Nat, NEW a, o + 16 <= Size(p), At(q, o, Zeros(15)), At(q, o + 15, <<a>>)
          PROVE  Bytes(p, o, 16) = V6Addr(a)
      BY <3>1, AtV6Addr
    <3>2. Bytes(p, 8, 16) = V6Addr(from) /\ Bytes(p, 24, 16) = V6Addr(to)
      BY <1>6, <2>1, <3>1
    <3> QED
      BY <3>2 DEF f, g, Addressed
  <2>4. /\ l3 \in Nat /\ 40 <= l3 /\ l3 <= Size(p)
        /\ l3 = IF 40 + V6Len(e, k) <= Size(p) THEN 40 + V6Len(e, k) ELSE Size(p)
    BY <1>0, <1>8, <1>14, <2>2 DEF l3
  <2>5. PICK i \in 1..(l + 1) :
          /\ WalkV6(p, l3, 7) = [type |-> V6Next(e, i), off |-> at[i]]
          /\ i <= 7 + 1 /\ at[i] <= l3 /\ \A j \in 1..(i - 1) : Passable(e, j)
          /\ i = 7 + 1 \/ i = l + 1 \/ ~Passable(e, i) \/ l3 < at[i + 1]
    <3>1. PICK t \in Nat : t = 7
      OBVIOUS
    <3>2. \E i \in 1..(l + 1) : Walked(p, l3, e, at, t, i)
      <4>1. Headed(q, e, at)
        BY <1>7
      <4> QED
        BY <2>4, <4>1, WalkAt DEF l
    <3> QED
      BY <3>1, <3>2 DEF Walked, l
  <2>6. h = [type |-> V6Next(e, i), off |-> at[i]]
    <3>1. MaxV6ExtHeaders - 1 = 7
      BY DEF MaxV6ExtHeaders
    <3> QED
      BY <2>5, <3>1 DEF h
  <2>7. r = ParseL4(V6Next(e, i), p, at[i], l3 - at[i], f)
    BY <1>11, <1>14, <2>3, <2>6
  <2>8. at[i] \in Nat /\ at[l + 1] \in Nat
    <3>1. at \in [1..(l + 1) -> Nat]
      BY <1>7 DEF Headed, l
    <3>2. l \in Nat
      BY <1>0 DEF l
    <3>3. l + 1 \in 1..(l + 1)
      BY <3>2
    <3> QED
      BY <3>1, <3>3
  <2>9. CASE i # l + 1
    <3>1. i \in 1..l /\ V6Next(e, i) = e.exts[i]
      BY <1>0, <2>9 DEF V6Next, l
    <3>2. V6Next(e, i) \notin {Tcp, Udp}
      BY <3>1, ChainType DEF l
    <3>3. r = Undissected
      BY <2>7, <3>2 DEF ParseL4
    <3>4. ASSUME all, V6Good(e) PROVE FALSE
      <4>1. e.sized /\ l < 8 /\ Passable(e, i)
        BY <3>1, <3>4 DEF V6Good, MaxV6ExtHeaders, Passable, l
      <4>2. l3 = 40 + k
        BY <1>0, <1>2, <1>8, <2>4, <3>4, <4>1 DEF all
      <4>3. at[i + 1] <= 40 + x /\ at[i + 1] \in Nat
        <5>1. at[i + 1] <= 40 + x
          BY <1>7, <3>1
        <5>2. Headed(q, e, at) /\ i + 1 \in 1..(l + 1)
          BY <1>0, <1>7, <3>1
        <5>3. at[i + 1] \in Nat
          BY <5>2 DEF Headed, l
        <5> QED
          BY <5>1, <5>3
      <4>4. at[i + 1] <= l3
        BY <1>1, <1>2, <4>2, <4>3 DEF k
      <4> QED
        BY <1>0, <2>4, <2>5, <2>9, <3>1, <4>1, <4>3, <4>4
    <3> QED
      BY <1>12, <3>3, <3>4, Zenon
  <2>10. CASE i = l + 1
    <3> DEFINE len == l3 - (40 + x)
               o == 40 + x
    <3>0. V6Next(e, i) = e.proto /\ at[i] = o
      BY <1>7, <2>10 DEF V6Next, l
    <3>1. r = ParseL4(e.proto, p, o, len, f)
      BY <2>7, <3>0
    <3>2. /\ len \in Nat /\ o \in Nat /\ o + len <= Size(p) /\ o + len = l3
          /\ (all /\ e.sized => len = m) /\ (~e.sized => len = 0)
      <4>1. o <= l3
        BY <2>5, <3>0
      <4>2. all /\ e.sized => l3 = 40 + k
        BY <1>0, <1>2, <1>8, <2>4 DEF all
      <4>3. ~e.sized => l3 = 40
        BY <1>0, <1>8, <1>14, <2>4
      <4>4. len \in Nat /\ o \in Nat /\ o + len = l3 /\ o + len <= Size(p)
        BY <1>0, <1>2, <2>4, <4>1
      <4>5. all /\ e.sized => len = m
        BY <1>1, <1>2, <4>2 DEF k
      <4>6. ~e.sized => len = 0
        BY <1>2, <4>1, <4>3, <4>4
      <4> QED
        BY <4>4, <4>5, <4>6
    <3>8. At(q, o, L4(e, from, to, payload))
      BY <1>7, <2>10 DEF l4
    <3> HIDE DEF len, o
    <3>4. /\ r.ok \in BOOLEAN /\ (r.ok <=> e.proto \in {Tcp, Udp} /\ len >= L4Head(e))
          /\ r.ok => /\ ViewOf(r.flow, e.proto, V6Addr(from), V6Addr(to), from, to)
                     /\ r.flow.payload = o + L4Head(e)
                     /\ r.flow.payload + r.flow.payload_len <= o + len
                     /\ len = L4Head(e) + n => r.flow.payload_len = n
      <4> DEFINE v == 6
                 src == V6Addr(from)
                 dst == V6Addr(to)
                 R == ParseL4(e.proto, p, o, len, Addressed(v, src, dst))
      <4>2. r = R
        BY <3>1 DEF f
      <4> HIDE DEF v, src, dst, R
      <4>3. /\ R.ok \in BOOLEAN /\ (R.ok <=> e.proto \in {Tcp, Udp} /\ len >= L4Head(e))
            /\ R.ok => /\ ViewOf(R.flow, e.proto, src, dst, from, to)
                       /\ R.flow.payload = o + L4Head(e)
                       /\ R.flow.payload + R.flow.payload_len <= o + len
                       /\ len = L4Head(e) + n => R.flow.payload_len = n
        BY <3>2, <3>8, L4View DEF R
      <4> QED
        BY <4>2, <4>3 DEF src, dst
    <3>5. V6Good(e) <=> e.proto \in {Tcp, Udp} /\ e.sized
      <4>1. \A j \in 1..l : Passable(e, j)
        <5>1. i - 1 = l
          BY <1>0, <2>10
        <5> QED
          BY <2>5, <5>1
      <4>2. l < 8
        BY <1>0, <2>5, <2>10
      <4>3. e.frag = 0 /\ \A j \in 1..l : e.exts[j] \in V6ExtHeaders
        BY <4>1 DEF Passable, l
      <4> QED
        BY <4>2, <4>3 DEF V6Good, MaxV6ExtHeaders, l
    <3>6. len >= L4Head(e) => e.sized
      BY <1>1, <3>2
    <3>7. all /\ e.sized => len >= L4Head(e) /\ len = L4Head(e) + n
      BY <1>1, <3>2 DEF m
    <3>9. r.ok => r.flow.payload + r.flow.payload_len <= Size(p)
      <4>1. SUFFICES ASSUME r.ok PROVE r.flow.payload + r.flow.payload_len <= Size(p)
        OBVIOUS
      <4>2. r.flow.payload \in Nat /\ r.flow.payload_len \in Nat
        BY <3>4, <4>1 DEF ViewOf
      <4> QED
        BY <1>0, <3>2, <3>4, <4>1, <4>2
    <3>10. all => (r.ok <=> V6Good(e))
      BY <3>4, <3>5, <3>6, <3>7
    <3>11. r.ok /\ all => r.flow.payload_len = n
      BY <3>4, <3>6, <3>7
    <3> QED
      BY <3>4, <3>9, <3>10, <3>11 DEF o
  <2> QED
    BY <2>9, <2>10
<1> QED
  BY <1>13, <1>14

-----------------------------------------------------------------------------
\* The messages a client sends.

NameList(names) == [i \in DOMAIN names |-> NameBytes(names[i])]
Names(names) == FlattenSeq(NameList(names))

\* An entry of a server name list.
LEMMA NameBytesType ==
  ASSUME NEW n \in NameTypes
  PROVE  /\ Len(n.name) \in Nat /\ n.type \in Byte /\ n.name \in Seq(Byte)
         /\ Str(Nat, NameBytes(n), 3 + Len(n.name))
         /\ Len(n.name) < Word => Str(Byte, NameBytes(n), 3 + Len(n.name))
<1>1. n.type \in Byte /\ n.name \in Seq(Byte)
  BY DEF NameTypes
<1>2. PICK k \in Nat : k = Len(n.name) /\ Str(Byte, n.name, k)
  BY <1>1, LenProperties DEF Str
<1>3. Byte \subseteq Nat
  BY DEF Byte
<1>4. ASSUME NEW T, Byte \subseteq T, Str(T, U16(k), 2) PROVE Str(T, NameBytes(n), 3 + k)
  <2>1. Str(T, <<n.type>>, 1) /\ Str(T, n.name, k)
    BY <1>1, <1>2, <1>4, StrOne, StrWider
  <2>2. Str(T, U16(k) \o n.name, 2 + k)
    BY <1>4, <2>1, StrCat
  <2>3. Str(T, <<n.type>> \o (U16(k) \o n.name), 1 + (2 + k))
    BY <2>1, <2>2, StrCat
  <2>4. 1 + (2 + k) = 3 + k
    OBVIOUS
  <2>5. NameBytes(n) = <<n.type>> \o (U16(k) \o n.name)
    BY <1>2, Zenon DEF NameBytes, Sized
  <2> QED
    BY <2>3, <2>4, <2>5
<1>5. Str(Nat, NameBytes(n), 3 + k)
  BY <1>3, <1>4, StrNat
<1>6. k < Word => Str(Byte, NameBytes(n), 3 + k)
  BY <1>4, StrU16
<1> QED
  BY <1>1, <1>2, <1>5, <1>6

\* The entries of a list, and each of them, fit where the list fits.
LEMMA NamesType ==
  ASSUME NEW names \in Seq(NameTypes)
  PROVE  /\ Len(NameList(names)) = Len(names) /\ Len(names) \in Nat
         /\ \A i \in 1..Len(names) : names[i] \in NameTypes /\ NameList(names)[i] = NameBytes(names[i])
         /\ NameList(names) \in Seq(Seq(Nat)) /\ Names(names) \in Seq(Nat) /\ Len(Names(names)) \in Nat
         /\ Len(Names(names)) < Word =>
              /\ Names(names) \in Seq(Byte) /\ NameList(names) \in Seq(Seq(Byte))
              /\ \A i \in 1..Len(names) : Len(names[i].name) < Word
<1>1. PICK l \in Nat : l = Len(names) /\ DOMAIN names = 1..l
  BY LenProperties
<1>2. \A i \in 1..l : names[i] \in NameTypes
  BY <1>1, ElementOfSeq
<1>3. \A i \in 1..l : NameList(names)[i] = NameBytes(names[i])
  BY <1>1 DEF NameList
<1>4. \A i \in 1..l : /\ NameBytes(names[i]) \in Seq(Nat)
                       /\ Len(NameBytes(names[i])) = 3 + Len(names[i].name)
  BY <1>2, NameBytesType DEF Str
<1>5. NameList(names) \in [1..l -> Seq(Nat)]
  BY <1>1, <1>4 DEF NameList
<1>6. NameList(names) \in Seq(Seq(Nat)) /\ Len(NameList(names)) = l
  BY <1>5, IsASeq, LenProperties
<1>7. Names(names) \in Seq(Nat) /\ \E at : Parts(NameList(names), Names(names), at)
  BY <1>6, FlattenParts DEF Names
<1>8. PICK at : Parts(NameList(names), Names(names), at)
  BY <1>7
<1>9. PICK m \in Nat : m = Len(Names(names))
  BY <1>7, LenProperties
<1>10. ASSUME m < Word
       PROVE  /\ Names(names) \in Seq(Byte) /\ NameList(names) \in Seq(Seq(Byte))
              /\ \A i \in 1..l : Len(names[i].name) < Word
  <2>1. ASSUME NEW i \in 1..l PROVE Len(names[i].name) < Word /\ NameBytes(names[i]) \in Seq(Byte)
    <3>1. /\ at[i] \in Nat /\ at[i + 1] = at[i] + Len(NameList(names)[i])
          /\ at[i + 1] <= m
      BY <1>6, <1>7, <1>8, <1>9, PartsInside
    <3>2. Len(NameList(names)[i]) = 3 + Len(names[i].name)
      BY <1>3, <1>4
    <3>3. Len(names[i].name) \in Nat
      BY <1>2, NameBytesType
    <3>4. Word \in Nat
      BY DEF Word
    <3>5. Len(names[i].name) < Word
      BY <1>10, <3>1, <3>2, <3>3, <3>4
    <3> QED
      BY <1>2, <3>5, NameBytesType DEF Str
  <2>2. NameList(names) \in [1..l -> Seq(Byte)]
    BY <1>1, <2>1 DEF NameList
  <2>3. NameList(names) \in Seq(Seq(Byte))
    BY <2>2, IsASeq
  <2>4. Names(names) \in Seq(Byte)
    BY <2>3, FlattenParts DEF Names
  <2> QED
    BY <2>1, <2>3, <2>4
<1> QED
  BY <1>1, <1>2, <1>3, <1>6, <1>7, <1>9, <1>10

ExtList(exts) == [i \in DOMAIN exts |-> ExtBytes(exts[i])]
Exts(exts) == FlattenSeq(ExtList(exts))

\* An extension has a type, a length and a list with a length.
LEMMA ExtBytesParts ==
  ASSUME NEW e, NEW k, NEW l, k = Len(Names(e.names)), l = Len(U16(k) \o Names(e.names))
  PROVE  ExtBytes(e) = U16(e.type) \o (U16(l) \o (U16(k) \o Names(e.names)))
<1>1. EncodeAll(e.names, NameBytes) = Names(e.names)
  BY Zenon DEF EncodeAll, Names, NameList
<1>2. Sized(Names(e.names)) = U16(k) \o Names(e.names)
  BY Zenon DEF Sized
<1>3. Sized(U16(k) \o Names(e.names)) = U16(l) \o (U16(k) \o Names(e.names))
  BY Zenon DEF Sized
<1> QED
  BY <1>1, <1>2, <1>3, Zenon DEF ExtBytes

\* Its length.
LEMMA ExtBytesType ==
  ASSUME NEW e \in ExtTypes
  PROVE  LET k == Len(Names(e.names))
         IN /\ k \in Nat /\ e.type \in Nat /\ e.type < Word /\ e.names \in Seq(NameTypes)
            /\ Str(Nat, ExtBytes(e), 6 + k)
            /\ ExtBytes(e) = U16(e.type) \o (U16(2 + k) \o (U16(k) \o Names(e.names)))
            /\ 2 + k < Word => Str(Byte, ExtBytes(e), 6 + k)
<1>1. e.type \in Nat /\ e.type < Word /\ e.names \in Seq(NameTypes)
  BY DEF ExtTypes, Word
<1>2. PICK k \in Nat : k = Len(Names(e.names)) /\ Str(Nat, Names(e.names), k)
  BY <1>1, NamesType DEF Str
<1>3. Str(Nat, U16(k), 2)
  BY StrNat
<1>4. Str(Nat, U16(k) \o Names(e.names), 2 + k)
  BY <1>2, <1>3, StrCat
<1>5. PICK l \in Nat : l = 2 + k /\ l = Len(U16(k) \o Names(e.names))
  BY <1>4 DEF Str
<1>6. ExtBytes(e) = U16(e.type) \o (U16(l) \o (U16(k) \o Names(e.names)))
  BY <1>2, <1>5, ExtBytesParts
<1>7. ASSUME NEW T, Str(T, Names(e.names), k), Str(T, U16(k), 2), Str(T, U16(l), 2),
             Str(T, U16(e.type), 2)
      PROVE  Str(T, ExtBytes(e), 6 + k)
  <2>1. Str(T, U16(k) \o Names(e.names), 2 + k)
    BY <1>7, StrCat
  <2>2. Str(T, U16(l) \o (U16(k) \o Names(e.names)), 2 + (2 + k))
    BY <1>7, <2>1, StrCat
  <2>3. Str(T, U16(e.type) \o (U16(l) \o (U16(k) \o Names(e.names))), 2 + (2 + (2 + k)))
    BY <1>7, <2>2, StrCat
  <2>4. 2 + (2 + (2 + k)) = 6 + k
    OBVIOUS
  <2> QED
    BY <1>6, <2>3, <2>4
<1>8. Str(Nat, ExtBytes(e), 6 + k)
  BY <1>1, <1>2, <1>3, <1>7, StrNat
<1>9. ASSUME 2 + k < Word PROVE Str(Byte, ExtBytes(e), 6 + k)
  <2>1. Word \in Nat
    BY DEF Word
  <2>2. k < Word /\ l < Word
    BY <1>5, <1>9, <2>1
  <2>3. Str(Byte, Names(e.names), k)
    BY <1>1, <1>2, <2>2, NamesType DEF Str
  <2>4. Str(Byte, U16(k), 2) /\ Str(Byte, U16(l), 2) /\ Str(Byte, U16(e.type), 2)
    BY <1>1, <2>2, StrU16
  <2> QED
    BY <1>7, <2>3, <2>4
<1> QED
  BY <1>1, <1>2, <1>5, <1>6, <1>8, <1>9

\* The extensions, and each of them, fit where all fit.
LEMMA ExtsType ==
  ASSUME NEW exts \in Seq(ExtTypes)
  PROVE  /\ Len(ExtList(exts)) = Len(exts) /\ Len(exts) \in Nat
         /\ \A i \in 1..Len(exts) : exts[i] \in ExtTypes /\ ExtList(exts)[i] = ExtBytes(exts[i])
         /\ ExtList(exts) \in Seq(Seq(Nat)) /\ Exts(exts) \in Seq(Nat) /\ Len(Exts(exts)) \in Nat
         /\ Len(Exts(exts)) < Word =>
              /\ Exts(exts) \in Seq(Byte) /\ ExtList(exts) \in Seq(Seq(Byte))
              /\ \A i \in 1..Len(exts) : 2 + Len(Names(exts[i].names)) < Word
<1>1. PICK l \in Nat : l = Len(exts) /\ DOMAIN exts = 1..l
  BY LenProperties
<1>2. \A i \in 1..l : exts[i] \in ExtTypes
  BY <1>1, ElementOfSeq
<1>3. \A i \in 1..l : ExtList(exts)[i] = ExtBytes(exts[i])
  BY <1>1 DEF ExtList
<1>4. \A i \in 1..l : /\ ExtBytes(exts[i]) \in Seq(Nat)
                      /\ Len(ExtBytes(exts[i])) = 6 + Len(Names(exts[i].names))
  BY <1>2, ExtBytesType DEF Str
<1>5. ExtList(exts) \in [1..l -> Seq(Nat)]
  BY <1>1, <1>4 DEF ExtList
<1>6. ExtList(exts) \in Seq(Seq(Nat)) /\ Len(ExtList(exts)) = l
  BY <1>5, IsASeq, LenProperties
<1>7. Exts(exts) \in Seq(Nat) /\ \E at : Parts(ExtList(exts), Exts(exts), at)
  BY <1>6, FlattenParts DEF Exts
<1>8. PICK at : Parts(ExtList(exts), Exts(exts), at)
  BY <1>7
<1>9. PICK m \in Nat : m = Len(Exts(exts))
  BY <1>7, LenProperties
<1>10. ASSUME m < Word
       PROVE  /\ Exts(exts) \in Seq(Byte) /\ ExtList(exts) \in Seq(Seq(Byte))
              /\ \A i \in 1..l : 2 + Len(Names(exts[i].names)) < Word
  <2>1. ASSUME NEW i \in 1..l
        PROVE  2 + Len(Names(exts[i].names)) < Word /\ ExtBytes(exts[i]) \in Seq(Byte)
    <3>1. /\ at[i] \in Nat /\ at[i + 1] = at[i] + Len(ExtList(exts)[i])
          /\ at[i + 1] <= m
      BY <1>6, <1>7, <1>8, <1>9, PartsInside
    <3>2. Len(ExtList(exts)[i]) = 6 + Len(Names(exts[i].names))
      BY <1>3, <1>4
    <3>3. Len(Names(exts[i].names)) \in Nat
      BY <1>2, ExtBytesType
    <3>4. Word \in Nat
      BY DEF Word
    <3>5. 2 + Len(Names(exts[i].names)) < Word
      BY <1>10, <3>1, <3>2, <3>3, <3>4
    <3> QED
      BY <1>2, <3>5, ExtBytesType DEF Str
  <2>2. ExtList(exts) \in [1..l -> Seq(Byte)]
    BY <1>1, <2>1 DEF ExtList
  <2>3. ExtList(exts) \in Seq(Seq(Byte))
    BY <2>2, IsASeq
  <2>4. Exts(exts) \in Seq(Byte)
    BY <2>3, FlattenParts DEF Exts
  <2> QED
    BY <2>1, <2>3, <2>4
<1> QED
  BY <1>1, <1>2, <1>3, <1>6, <1>7, <1>9, <1>10

\* A number in three bytes; one that fits in two begins with a zero.
LEMMA U24Type ==
  ASSUME NEW n \in Nat
  PROVE  /\ Str(Nat, U24(n), 3)
         /\ n < Word => U24(n) = <<0>> \o U16(n) /\ Str(Byte, U24(n), 3)
<1>1. PICK a \in Nat, b \in Nat : /\ a = n \div 65536 /\ b = n % 65536
                                  /\ n < Word => a = 0 /\ b = n
  BY DEF Word
<1>2. U24(n) = <<a>> \o U16(b)
  BY <1>1 DEF U24
<1>3. Str(Nat, <<a>>, 1)
  BY DEF Str
<1>4. Str(Nat, <<a>> \o U16(b), 1 + 2)
  BY <1>3, StrNat, StrCat
<1>5. ASSUME n < Word PROVE U24(n) = <<0>> \o U16(n) /\ Str(Byte, U24(n), 1 + 2)
  <2>1. a = 0 /\ b = n
    BY <1>1, <1>5
  <2>2. U24(n) = <<0>> \o U16(n)
    BY <1>2, <2>1
  <2>3. 0 \in Byte
    BY DEF Byte
  <2>4. Str(Byte, <<0>>, 1) /\ Str(Byte, U16(n), 2)
    BY <1>5, <2>3, StrOne, StrU16
  <2>5. Str(Byte, <<0>> \o U16(n), 1 + 2)
    BY <2>4, StrCat
  <2> QED
    BY <2>2, <2>5
<1>6. 1 + 2 = 3
  OBVIOUS
<1> QED
  BY <1>2, <1>4, <1>5, <1>6

\* The parts of a message.
ExtPart(h) == IF h.exts = <<>> THEN <<>> ELSE Sized(Exts(h.exts))
Opening(h) == <<3, 3>> \o Zeros(RandomLen) \o <<Len(h.sid)>> \o h.sid
Suites == Sized(<<19, 1>>)
Body(h) == Opening(h) \o Suites \o <<1, 0>> \o ExtPart(h)
BodyLen(h) == 2 + RandomLen + 1 + Len(h.sid) + 4 + 2 + Len(ExtPart(h))

\* A message has a type, a length and a body.
LEMMA MessageParts ==
  ASSUME NEW h PROVE Message(h) = <<h.type>> \o U24(Len(Body(h))) \o Body(h)
<1>1. EncodeAll(h.exts, ExtBytes) = Exts(h.exts)
  BY Zenon DEF EncodeAll, Exts, ExtList
<1>2. ExtPart(h) = IF h.exts = <<>> THEN <<>> ELSE Sized(EncodeAll(h.exts, ExtBytes))
  BY <1>1, Zenon DEF ExtPart
<1> QED
  BY <1>2, Zenon DEF Message, Body, Opening, Suites

\* The cipher suites.
LEMMA SuitesType == Str(Byte, Suites, 4) /\ Suites = U16(2) \o <<19, 1>> /\ Str(Byte, <<19, 1>>, 2)
<1>1. 19 \in Byte /\ 1 \in Byte
  BY DEF Byte
<1>2. Str(Byte, <<19, 1>>, 2)
  BY <1>1, StrTwo
<1>3. PICK s \in Seq(Byte) : s = <<19, 1>> /\ Len(s) = 2
  BY <1>2 DEF Str
<1>4. Sized(s) = U16(2) \o s
  BY <1>3 DEF Sized
<1>5. 2 \in Nat /\ 2 < Word
  BY DEF Word
<1>6. Str(Byte, U16(2) \o s, 2 + 2)
  BY <1>2, <1>3, <1>5, StrU16, StrCat
<1>7. 2 + 2 = 4
  OBVIOUS
<1> QED
  BY <1>2, <1>3, <1>4, <1>6, <1>7 DEF Suites

\* The opening and what is behind it are bytes, whatever the extensions are.
LEMMA BodyType ==
  ASSUME NEW h, NEW T, Byte \subseteq T, h.sid \in Seq(Byte), Len(h.sid) <= 255,
         NEW t, Str(T, ExtPart(h), t)
  PROVE  /\ Str(T, Body(h), BodyLen(h)) /\ BodyLen(h) \in Nat
         /\ Str(T, <<3, 3>>, 2) /\ Str(T, Zeros(RandomLen), RandomLen)
         /\ Str(T, <<Len(h.sid)>>, 1) /\ Str(T, h.sid, Len(h.sid))
         /\ Str(T, Opening(h), 2 + RandomLen + 1 + Len(h.sid))
         /\ Str(T, Suites, 4) /\ Str(T, <<1, 0>>, 2)
<1>0. ASSUME NEW s, NEW n, Str(Byte, s, n) PROVE Str(T, s, n)
  BY <1>0, StrWider
<1>1. RandomLen \in Nat /\ t \in Nat /\ Len(ExtPart(h)) = t
  BY HelloLimitsAssumption DEF Str
<1>2. PICK k \in Nat : k = Len(h.sid) /\ k \in Byte
  <2>1. PICK k \in Nat : k = Len(h.sid)
    BY LenProperties
  <2>2. k <= 255
    BY <2>1
  <2>3. k \in Byte
    BY <2>2, SmallByte
  <2> QED
    BY <2>1, <2>3
<1>3. 3 \in Byte /\ 0 \in Byte /\ 1 \in Byte
  BY DEF Byte
<1>4. Str(T, <<3, 3>>, 2)
  BY <1>0, <1>3, StrTwo
<1>5. Str(T, Zeros(RandomLen), RandomLen)
  BY <1>0, <1>1, StrZeros
<1>6. Str(T, <<k>>, 1)
  BY <1>0, <1>2, StrOne
<1>7. Str(T, h.sid, k)
  BY <1>0, <1>2, StrOf
<1>8. Str(T, <<1, 0>>, 2)
  BY <1>0, <1>3, StrTwo
<1>9. Str(T, Suites, 4)
  BY <1>0, SuitesType
<1>10. Str(T, Opening(h), 2 + RandomLen + 1 + k)
  <2>1. Str(T, <<3, 3>> \o Zeros(RandomLen) \o <<k>> \o h.sid, 2 + RandomLen + 1 + k)
    BY <1>4, <1>5, <1>6, <1>7, StrCat4
  <2> QED
    BY <1>2, <2>1 DEF Opening
<1>11. Str(T, Body(h), (2 + RandomLen + 1 + k) + 4 + 2 + t)
  BY <1>8, <1>9, <1>10, StrCat4 DEF Body
<1>12. BodyLen(h) = (2 + RandomLen + 1 + k) + 4 + 2 + t /\ BodyLen(h) \in Nat
  <2>1. BodyLen(h) = 2 + RandomLen + 1 + k + 4 + 2 + t
    BY <1>1, <1>2, Zenon DEF BodyLen
  <2>2. 2 + RandomLen + 1 + k + 4 + 2 + t \in Nat
    BY <1>1
  <2> QED
    BY <2>1, <2>2
<1> QED
  BY <1>2, <1>4, <1>5, <1>6, <1>7, <1>8, <1>9, <1>10, <1>11, <1>12

\* The extensions and their length.
LEMMA ExtPartType ==
  ASSUME NEW h, h.exts \in Seq(ExtTypes)
  PROVE  /\ Str(Nat, ExtPart(h), Len(ExtPart(h)))
         /\ h.exts # <<>> => Len(ExtPart(h)) = 2 + Len(Exts(h.exts)) /\ Len(Exts(h.exts)) \in Nat
         /\ Len(ExtPart(h)) < Word => Str(Byte, ExtPart(h), Len(ExtPart(h)))
<1>1. CASE h.exts = <<>>
  <2>1. ExtPart(h) = <<>>
    BY <1>1 DEF ExtPart
  <2>2. ASSUME NEW T PROVE Str(T, <<>>, 0) /\ Len(<<>>) = 0
    BY EmptySeq DEF Str
  <2> QED
    BY <1>1, <2>1, <2>2
<1>2. CASE h.exts # <<>>
  <2>1. PICK s \in Seq(Nat), k \in Nat : s = Exts(h.exts) /\ k = Len(s) /\ (k < Word => s \in Seq(Byte))
    BY ExtsType
  <2>2. /\ Sized(s) \in Seq(Nat) /\ Len(Sized(s)) = 2 + k
        /\ s \in Seq(Byte) /\ k < Word => Sized(s) \in Seq(Byte)
    BY <2>1, SizedType
  <2>3. ExtPart(h) = Sized(s)
    BY <1>2, <2>1 DEF ExtPart
  <2>4. Word \in Nat /\ (2 + k < Word => k < Word)
    BY DEF Word
  <2> QED
    BY <2>1, <2>2, <2>3, <2>4 DEF Str
<1> QED
  BY <1>1, <1>2

\* A message fits its fields when its length does: the lengths in it are smaller.
LEMMA MessageType ==
  ASSUME NEW h, HelloFits(h)
  PROVE  /\ Str(Byte, Message(h), 4 + BodyLen(h)) /\ Len(Message(h)) = 4 + BodyLen(h)
         /\ Str(Byte, Body(h), BodyLen(h)) /\ Str(Byte, ExtPart(h), Len(ExtPart(h)))
         /\ BodyLen(h) \in MinMsg..MaxMsg /\ BodyLen(h) \in Nat /\ BodyLen(h) < Word
         /\ Message(h) = <<h.type>> \o (<<0>> \o U16(BodyLen(h))) \o Body(h)
<1>1. /\ h.type \in Byte /\ h.sid \in Seq(Byte) /\ h.exts \in Seq(ExtTypes)
      /\ Len(h.sid) <= 255 /\ Len(Message(h)) <= MsgHeader + MaxMsg
  BY DEF HelloFits
<1>2. Byte \subseteq Nat
  BY DEF Byte
<1>3. PICK t \in Nat : t = Len(ExtPart(h))
  BY <1>1, ExtPartType DEF Str
<1>4. PICK b \in Nat : b = BodyLen(h) /\ Str(Nat, Body(h), b)
  <2>1. PICK T : T = Nat
    OBVIOUS
  <2>2. Byte \subseteq T /\ Str(T, ExtPart(h), t)
    BY <1>1, <1>2, <1>3, <2>1, ExtPartType
  <2>3. Str(T, Body(h), BodyLen(h)) /\ BodyLen(h) \in Nat
    BY <1>1, <2>2, BodyType
  <2> QED
    BY <2>1, <2>3
<1>5. Len(Body(h)) = b
  BY <1>4 DEF Str
<1>6. Message(h) = <<h.type>> \o U24(b) \o Body(h)
  BY <1>5, MessageParts
<1>7. Str(Nat, <<h.type>>, 1)
  BY <1>1, <1>2, StrOne, StrWider
<1>8. Str(Nat, U24(b), 3)
  BY U24Type
<1>9. Str(Nat, <<h.type>> \o U24(b) \o Body(h), 1 + 3 + b)
  BY <1>4, <1>7, <1>8, StrCat3
<1>10. Len(Message(h)) = 4 + b
  <2>1. 1 + 3 + b = 4 + b
    OBVIOUS
  <2> QED
    BY <1>6, <1>9, <2>1 DEF Str
<1>11. b <= MaxMsg /\ b < Word /\ MaxMsg \in Nat
  <2>1. MaxMsg \in Nat /\ MaxMsg < Word /\ Word \in Nat
    BY HelloLimitsAssumption DEF Word
  <2> QED
    BY <1>1, <1>10, <2>1 DEF MsgHeader
<1>12. t <= b /\ MinMsg <= b /\ MinMsg \in Nat
  <2>1. RandomLen \in Nat /\ Len(h.sid) \in Nat
    BY <1>1, LenProperties, HelloLimitsAssumption
  <2>2. PICK k \in Nat, r \in Nat : k = Len(h.sid) /\ r = RandomLen
    BY <2>1
  <2>3. b = 2 + r + 1 + k + 4 + 2 + t
    BY <1>3, <1>4, <2>2, Zenon DEF BodyLen
  <2>4. MinMsg = 2 + r
    BY <2>2 DEF MinMsg
  <2> QED
    BY <2>3, <2>4
<1>13. Str(Byte, ExtPart(h), t)
  <2>1. Word \in Nat
    BY DEF Word
  <2>2. t < Word
    BY <1>11, <1>12, <2>1
  <2> QED
    BY <1>1, <1>3, <2>2, ExtPartType
<1>14. Str(Byte, Body(h), b)
  <2>1. PICK T : T = Byte
    OBVIOUS
  <2>2. Byte \subseteq T /\ Str(T, ExtPart(h), t)
    BY <1>13, <2>1
  <2>3. Str(T, Body(h), BodyLen(h))
    BY <1>1, <2>2, BodyType
  <2> QED
    BY <1>4, <2>1, <2>3
<1>15. U24(b) = <<0>> \o U16(b) /\ Str(Byte, U24(b), 3)
  BY <1>11, U24Type
<1>16. Str(Byte, <<h.type>> \o U24(b) \o Body(h), 4 + b)
  <2>1. Str(Byte, <<h.type>>, 1)
    BY <1>1, StrOne
  <2>2. Str(Byte, <<h.type>> \o U24(b) \o Body(h), 1 + 3 + b)
    BY <1>14, <1>15, <2>1, StrCat3
  <2>3. 1 + 3 + b = 4 + b
    OBVIOUS
  <2> QED
    BY <2>2, <2>3
<1> QED
  BY <1>3, <1>4, <1>6, <1>10, <1>11, <1>12, <1>13, <1>14, <1>15, <1>16

-----------------------------------------------------------------------------
\* The records.

Case(c) == HelloFits(c.hello) /\ RecordsFit(c)

\* What a client sends.
LEMMA SentType ==
  ASSUME NEW c, HelloFits(c.hello)
  PROVE  Sent(c) \in Seq(Byte) /\ Len(Sent(c)) = Len(Message(c.hello)) + Len(c.hello.rest)
         /\ Len(Message(c.hello)) \in Nat /\ Len(c.hello.rest) \in Nat
<1>1. Message(c.hello) \in Seq(Byte) /\ c.hello.rest \in Seq(Byte)
  BY MessageType DEF HelloFits, Str
<1> QED
  BY <1>1, Cat DEF Sent

\* The records' ends are positions in the message, in increasing order.
LEMMA EndsType ==
  ASSUME NEW c, Case(c)
  PROVE  /\ Len(c.ends) \in Nat \ {0}
         /\ \A i \in 1..Len(c.ends) :
              /\ c.ends[i] \in Nat /\ Start(c, i) \in Nat /\ c.ends[i] - Start(c, i) \in 1..MaxRecord
              /\ Start(c, i) < c.ends[i] /\ c.ends[i] <= Len(Sent(c))
              /\ i + 1 \in 1..Len(c.ends) => Start(c, i + 1) = c.ends[i]
<1>1. c.ends \in Seq(Nat) /\ c.ends # <<>> /\ c.ends[Len(c.ends)] = Len(Sent(c))
  BY DEF Case, RecordsFit
<1>2. PICK l \in Nat : l = Len(c.ends) /\ l # 0 /\ DOMAIN c.ends = 1..l
  BY <1>1, EmptySeq, LenProperties
<1>3. PICK m \in Nat : m = Len(Sent(c)) /\ c.ends[l] = m
  BY <1>1, <1>2, SentType, LenProperties DEF Case
<1>4. \A i \in 1..l : c.ends[i] \in Nat
  BY <1>1, <1>2, ElementOfSeq
<1>5. ASSUME NEW i \in 1..l PROVE Start(c, i) \in Nat
  <2>1. i # 1 => i - 1 \in 1..l
    OBVIOUS
  <2> QED
    BY <1>4, <2>1 DEF Start
<1>6. \A i \in 1..l : c.ends[i] - Start(c, i) \in 1..MaxRecord
  BY <1>2 DEF Case, RecordsFit
<1>7. \A i \in 1..l : Start(c, i) < c.ends[i]
  BY <1>4, <1>5, <1>6
<1>8. ASSUME NEW i \in 1..l, i + 1 \in 1..l PROVE Start(c, i + 1) = c.ends[i]
  <2>1. i + 1 # 1 /\ (i + 1) - 1 = i
    OBVIOUS
  <2> QED
    BY <2>1 DEF Start
<1> DEFINE S == {k \in Nat : k < l => c.ends[l - k] <= m}
<1>9. 0 \in S
  BY <1>2, <1>3
<1>10. ASSUME NEW k \in Nat, k \in S PROVE k + 1 \in S
  <2>1. SUFFICES ASSUME k + 1 < l PROVE c.ends[l - (k + 1)] <= m
    OBVIOUS
  <2>2. PICK i \in 1..l : i = l - (k + 1)
    BY <2>1
  <2>3. i + 1 \in 1..l /\ i + 1 = l - k /\ k < l
    BY <2>1, <2>2
  <2>4. c.ends[i + 1] <= m
    BY <1>10, <2>3
  <2>5. c.ends[i] < c.ends[i + 1]
    BY <1>7, <1>8, <2>3
  <2> QED
    BY <1>4, <2>2, <2>3, <2>4, <2>5
<1> HIDE DEF S
<1>11. \A k \in Nat : k \in S
  BY <1>9, <1>10, NatSet
<1>12. ASSUME NEW i \in 1..l PROVE c.ends[i] <= m
  <2>1. PICK k \in Nat : k = l - i
    OBVIOUS
  <2>2. k < l /\ l - k = i
    BY <2>1
  <2> QED
    BY <1>11, <2>2 DEF S
<1> QED
  BY <1>2, <1>3, <1>4, <1>5, <1>6, <1>7, <1>8, <1>12

Chunk(c, i) == SubSeq(Sent(c), Start(c, i) + 1, c.ends[i])
ChunkLen(c, i) == c.ends[i] - Start(c, i)
RecordList(c) == [i \in DOMAIN c.ends |-> Record(c, i)]

\* The payload of a record.
LEMMA ChunkType ==
  ASSUME NEW c, Case(c), NEW i \in 1..Len(c.ends)
  PROVE  /\ Str(Byte, Chunk(c, i), ChunkLen(c, i)) /\ ChunkLen(c, i) \in 1..MaxRecord
         /\ ChunkLen(c, i) \in Nat /\ ChunkLen(c, i) < Word /\ MaxRecord \in Nat
         /\ \A k \in 1..ChunkLen(c, i) : Chunk(c, i)[k] = Sent(c)[Start(c, i) + k]
<1>1. PICK a \in Nat, b \in Nat : /\ a = Start(c, i) /\ b = c.ends[i] /\ a < b
                                  /\ b <= Len(Sent(c)) /\ b - a \in 1..MaxRecord
  BY EndsType
<1>2. Sent(c) \in Seq(Byte) /\ Len(Sent(c)) \in Nat
  BY SentType, LenProperties DEF Case
<1>3. \A k \in (a + 1)..b : Sent(c)[k] \in Byte
  BY <1>1, <1>2, ElementOfSeq
<1>4. /\ SubSeq(Sent(c), a + 1, b) \in Seq(Byte)
      /\ Len(SubSeq(Sent(c), a + 1, b)) = IF a + 1 <= b THEN b - (a + 1) + 1 ELSE 0
      /\ \A k \in 1..(b - (a + 1) + 1) : SubSeq(Sent(c), a + 1, b)[k] = Sent(c)[(a + 1) + k - 1]
  BY <1>3, SubSeqProperties
<1>5. b - (a + 1) + 1 = b - a /\ a + 1 <= b /\ b - a \in Nat
  BY <1>1
<1>6. \A k \in 1..(b - a) : SubSeq(Sent(c), a + 1, b)[k] = Sent(c)[a + k]
  <2>1. SUFFICES ASSUME NEW k \in 1..(b - a) PROVE SubSeq(Sent(c), a + 1, b)[k] = Sent(c)[a + k]
    OBVIOUS
  <2>2. (a + 1) + k - 1 = a + k
    OBVIOUS
  <2> QED
    BY <1>4, <1>5, <2>2
<1>7. MaxRecord \in Nat /\ MaxRecord < Word /\ Word \in Nat
  BY HelloLimitsAssumption DEF Word
<1>8. b - a < Word
  BY <1>1, <1>7
<1>9. Chunk(c, i) = SubSeq(Sent(c), a + 1, b) /\ ChunkLen(c, i) = b - a
  BY <1>1 DEF Chunk, ChunkLen
<1> QED
  BY <1>1, <1>4, <1>5, <1>6, <1>7, <1>8, <1>9 DEF Str

\* A record has its header and its payload.
LEMMA RecordParts ==
  ASSUME NEW c, Case(c), NEW i \in 1..Len(c.ends)
  PROVE  /\ Record(c, i) = <<Handshake, 3, 1>> \o (U16(ChunkLen(c, i)) \o Chunk(c, i))
         /\ Str(Byte, <<Handshake, 3, 1>>, 3) /\ Str(Byte, U16(ChunkLen(c, i)), 2)
         /\ Str(Byte, Record(c, i), 5 + ChunkLen(c, i))
<1>1. PICK n \in Nat : n = ChunkLen(c, i) /\ Str(Byte, Chunk(c, i), n) /\ n < Word
  BY ChunkType
<1>2. Len(Chunk(c, i)) = n
  BY <1>1 DEF Str
<1>3. Record(c, i) = <<Handshake, 3, 1>> \o (U16(n) \o Chunk(c, i))
  BY <1>2, Zenon DEF Record, Sized, Chunk
<1>4. Handshake \in Byte /\ 3 \in Byte /\ 1 \in Byte
  BY DEF Byte, Handshake
<1>5. Str(Byte, <<Handshake, 3, 1>>, 3)
  BY <1>4 DEF Str
<1>6. Str(Byte, U16(n), 2)
  BY <1>1, StrU16
<1>7. Str(Byte, U16(n) \o Chunk(c, i), 2 + n)
  BY <1>1, <1>6, StrCat
<1>8. Str(Byte, <<Handshake, 3, 1>> \o (U16(n) \o Chunk(c, i)), 3 + (2 + n))
  BY <1>5, <1>7, StrCat
<1>9. 3 + (2 + n) = 5 + n
  OBVIOUS
<1> QED
  BY <1>1, <1>3, <1>5, <1>6, <1>8, <1>9

\* All records.
LEMMA RecordsType ==
  ASSUME NEW c, Case(c)
  PROVE  /\ RecordList(c) \in Seq(Seq(Byte)) /\ Len(RecordList(c)) = Len(c.ends)
         /\ \A i \in 1..Len(c.ends) : RecordList(c)[i] = Record(c, i)
         /\ Records(c) \in Seq(Byte) /\ Records(c) = FlattenSeq(RecordList(c))
<1>1. PICK l \in Nat : l = Len(c.ends) /\ DOMAIN c.ends = 1..l
  BY LenProperties DEF Case, RecordsFit
<1>2. \A i \in 1..l : Record(c, i) \in Seq(Byte)
  BY <1>1, RecordParts DEF Str
<1>3. RecordList(c) \in [1..l -> Seq(Byte)] /\ \A i \in 1..l : RecordList(c)[i] = Record(c, i)
  BY <1>1, <1>2 DEF RecordList
<1>4. RecordList(c) \in Seq(Seq(Byte)) /\ Len(RecordList(c)) = l
  BY <1>3, IsASeq, LenProperties
<1>5. Records(c) = FlattenSeq(RecordList(c))
  BY Zenon DEF Records, RecordList
<1>6. FlattenSeq(RecordList(c)) \in Seq(Byte)
  BY <1>4, FlattenParts
<1> QED
  BY <1>1, <1>3, <1>4, <1>5, <1>6

\* The stream, damaged or not, is a sequence of bytes.
LEMMA WireType ==
  ASSUME NEW c, Case(c)
  PROVE  Wire(c) \in Seq(Byte) /\ Len(Wire(c)) \in Nat /\ (c.flip.at = 0 => Wire(c) = Records(c))
<1>1. PICK r \in Seq(Byte) : r = Records(c) /\ Len(r) \in Nat
  BY RecordsType, LenProperties
<1>2. c.flip.at \in 0..Len(r) /\ c.flip.to \in Byte
  BY <1>1 DEF Case, RecordsFit
<1>3. CASE c.flip.at = 0
  BY <1>1, <1>3 DEF Wire
<1>4. CASE c.flip.at # 0
  <2>1. c.flip.at \in 1..Len(r)
    BY <1>1, <1>2, <1>4
  <2>2. [r EXCEPT ![c.flip.at] = c.flip.to] \in Seq(Byte)
    BY <1>2, <2>1, ExceptSeq
  <2>3. Wire(c) = [r EXCEPT ![c.flip.at] = c.flip.to]
    BY <1>1, <1>4 DEF Wire
  <2> QED
    BY <1>4, <2>2, <2>3, LenProperties
<1> QED
  BY <1>3, <1>4

-----------------------------------------------------------------------------
\* Packets.

\* What fits an encapsulation has headers of the types it names.
LEMMA EncapType ==
  ASSUME NEW c, NEW e, EncapFits(c, e)
  PROVE  /\ e.version \in {4, 6} /\ e.sized \in BOOLEAN /\ e.pad \in Seq(Byte) /\ Chain(e)
         /\ e.proto \in Byte
         /\ e.version = 4 => Len(e.exts) \in 0..10
         /\ e.version = 6 /\ e.frag # 0 => \E i \in 1..Len(e.exts) : e.exts[i] = Fragment
         /\ e.sized => Len(Unpadded(e, Client, Server, Wire(c))) < Word
         /\ ~e.sized => e.pad = <<>>
<1>1. /\ e.version \in {4, 6} /\ e.sized \in BOOLEAN /\ e.pad \in Seq(Byte)
      /\ e.exts \in Seq(Byte \ {Tcp, Udp}) /\ e.proto \in Byte \ V6ExtHeaders
      /\ e.version = 4 => Len(e.exts) <= 10
      /\ ~e.sized => e.pad = <<>>
  BY DEF EncapFits
<1>2. e.frag \in Nat /\ e.frag < Frags
  BY DEF EncapFits, Frags
<1>3. e.sized => Len(Unpadded(e, Client, Server, Wire(c))) < Word
  BY DEF EncapFits, Word
<1>4. e.version = 6 /\ e.frag # 0 => \E i \in DOMAIN e.exts : e.exts[i] = Fragment
  BY DEF EncapFits
<1>5. DOMAIN e.exts = 1..Len(e.exts) /\ Len(e.exts) \in Nat
  BY <1>1, LenProperties
<1>6. e.version = 4 => Len(e.exts) \in 0..10
  <2>1. \A x \in Nat : x <= 10 => x \in 0..10
    OBVIOUS
  <2> QED
    BY <1>1, <1>5, <2>1
<1> QED
  BY <1>1, <1>2, <1>3, <1>4, <1>5, <1>6 DEF Chain

Head4or6(e) == IF e.version = 4 THEN V4Head(e) ELSE 40 + Len(V6Exts(e))
UnpaddedLen(e, n) == Head4or6(e) + (L4Head(e) + n)

\* The length of the network header.
LEMMA HeadType ==
  ASSUME NEW e, Chain(e), NEW n \in Nat
  PROVE  /\ Head4or6(e) \in Nat /\ L4Head(e) \in Nat /\ UnpaddedLen(e, n) \in Nat
         /\ Head4or6(e) >= 20 /\ L4Head(e) >= 8
<1>1. Len(e.exts) \in Nat /\ Len(V6Exts(e)) \in Nat
  BY ChainType, V6ExtsType
<1>2. Head4or6(e) \in Nat /\ Head4or6(e) >= 20
  BY <1>1 DEF Head4or6, V4Head
<1>3. L4Head(e) \in Nat /\ L4Head(e) >= 8
  BY DEF L4Head
<1> QED
  BY <1>2, <1>3 DEF UnpaddedLen

\* The length of a packet.
LEMMA UnpaddedStr ==
  ASSUME NEW e, Chain(e), e.version \in {4, 6}, e.proto \in Byte,
         e.version = 4 => Len(e.exts) \in 0..10,
         NEW T, Byte \subseteq T, NEW payload, NEW n, Str(T, payload, n),
         \A k \in Nat : (IF e.sized THEN k <= UnpaddedLen(e, n) ELSE k = 0) => Str(T, U16(k), 2),
         NEW from \in Hosts, NEW to \in Hosts
  PROVE  Str(T, Unpadded(e, from, to, payload), UnpaddedLen(e, n))
<1> DEFINE l4 == L4(e, from, to, payload)
           m == L4Head(e) + n
<1>1. n \in Nat
  BY DEF Str
<1>2. Head4or6(e) \in Nat /\ L4Head(e) \in Nat /\ Head4or6(e) >= 20 /\ L4Head(e) >= 8 /\ m \in Nat
  <2>1. Head4or6(e) \in Nat /\ L4Head(e) \in Nat /\ Head4or6(e) >= 20 /\ L4Head(e) >= 8
    BY <1>1, HeadType
  <2> QED
    BY <1>1, <2>1
<1>3. UnpaddedLen(e, n) = Head4or6(e) + m
  BY DEF UnpaddedLen
<1>4. Str(T, U16(UdpSize(e, n)), 2)
  <2>1. UdpSize(e, n) \in Nat /\ IF e.sized THEN UdpSize(e, n) <= Head4or6(e) + m ELSE UdpSize(e, n) = 0
    BY <1>1, <1>2 DEF UdpSize
  <2> QED
    BY <1>3, <2>1
<1>5. Str(T, l4, m)
  BY <1>4, L4Type
<1>6. Str(T, U16(e.frag), 2)
  <2>1. e.frag \in Nat /\ e.frag < Word
    BY DEF Chain, Frags, Word
  <2> QED
    BY <2>1, StrU16, StrWider
<1> HIDE DEF l4, m
<1>7. CASE e.version = 4
  <2>1. Head4or6(e) = V4Head(e)
    BY <1>7 DEF Head4or6
  <2>2. V4Total(e, m) \in Nat /\ IF e.sized THEN V4Total(e, m) <= Head4or6(e) + m ELSE V4Total(e, m) = 0
    BY <1>2, <2>1 DEF V4Total
  <2>3. Str(T, U16(V4Total(e, m)), 2)
    BY <1>3, <2>2
  <2>4. Len(e.exts) \in 0..10
    BY <1>7
  <2>5. Str(T, Ipv4(e, from, to, l4), V4Head(e) + m)
    BY <1>5, <1>6, <2>3, <2>4, V4Type
  <2>6. Unpadded(e, from, to, payload) = Ipv4(e, from, to, l4)
    BY <1>7 DEF Unpadded, l4
  <2> QED
    BY <1>3, <2>1, <2>5, <2>6
<1>8. CASE e.version # 4
  <2> DEFINE x == Len(V6Exts(e))
  <2>0. x \in Nat
    BY V6ExtsType
  <2>1. Head4or6(e) = 40 + x
    BY <1>8 DEF Head4or6
  <2> HIDE DEF x
  <2>2. /\ V6Len(e, x + m) \in Nat
        /\ IF e.sized THEN V6Len(e, x + m) <= Head4or6(e) + m ELSE V6Len(e, x + m) = 0
    BY <1>2, <2>0, <2>1 DEF V6Len
  <2>3. Str(T, U16(V6Len(e, x + m)), 2)
    BY <1>3, <2>2
  <2>5. Str(T, Ipv6(e, from, to, l4), 40 + (x + m))
    BY <1>5, <2>3, V6Type DEF x
  <2>6. Unpadded(e, from, to, payload) = Ipv6(e, from, to, l4)
    BY <1>8 DEF Unpadded, l4
  <2>7. 40 + (x + m) = Head4or6(e) + m
    BY <1>2, <2>0, <2>1
  <2> QED
    BY <1>3, <2>5, <2>6, <2>7
<1> QED
  BY <1>7, <1>8

\* The packets of a case fit their length fields, and are made of bytes.
LEMMA PacketType ==
  ASSUME NEW c, Case(c), NEW e, EncapFits(c, e), NEW payload, NEW n, Str(Byte, payload, n),
         n <= Len(Wire(c)), NEW from \in Hosts, NEW to \in Hosts
  PROVE  /\ Str(Byte, Unpadded(e, from, to, payload), UnpaddedLen(e, n))
         /\ e.sized => UnpaddedLen(e, n) < Word
         /\ PacketBytes(e, from, to, payload) \in Seq(Byte)
         /\ PacketBytes(e, from, to, payload) = Unpadded(e, from, to, payload) \o e.pad
<1>1. /\ e.version \in {4, 6} /\ e.sized \in BOOLEAN /\ e.pad \in Seq(Byte) /\ Chain(e)
      /\ e.proto \in Byte
      /\ e.version = 4 => Len(e.exts) \in 0..10
  BY EncapType
<1>2. PICK w \in Nat : w = Len(Wire(c)) /\ Str(Byte, Wire(c), w)
  BY WireType DEF Str
<1>3. n \in Nat /\ n <= w
  BY <1>2 DEF Str
<1>4. e.sized => UnpaddedLen(e, w) < Word
  <2>1. PICK T : T = Nat
    OBVIOUS
  <2>2. Byte \subseteq T /\ \A k \in Nat : Str(T, U16(k), 2)
    BY <2>1, StrNat DEF Byte
  <2>3. Str(T, Wire(c), w) /\ Client \in Hosts /\ Server \in Hosts
    BY <1>2, <2>2, StrWider DEF Hosts
  <2>4. Str(T, Unpadded(e, Client, Server, Wire(c)), UnpaddedLen(e, w))
    BY <1>1, <2>2, <2>3, UnpaddedStr
  <2>5. Len(Unpadded(e, Client, Server, Wire(c))) = UnpaddedLen(e, w)
    BY <2>4 DEF Str
  <2> QED
    BY <2>5, EncapType
<1>5. UnpaddedLen(e, n) <= UnpaddedLen(e, w) /\ UnpaddedLen(e, n) \in Nat /\ UnpaddedLen(e, w) \in Nat
  <2>1. Head4or6(e) \in Nat /\ L4Head(e) \in Nat
    BY <1>1, <1>3, HeadType
  <2> QED
    BY <1>3, <2>1 DEF UnpaddedLen
<1>6. Word \in Nat /\ 0 < Word /\ 0 \in Nat
  BY DEF Word
<1>7. e.sized => UnpaddedLen(e, n) < Word
  BY <1>4, <1>5, <1>6
<1>8. Str(Byte, Unpadded(e, from, to, payload), UnpaddedLen(e, n))
  <2>1. PICK T : T = Byte
    OBVIOUS
  <2>2. ASSUME NEW k \in Nat, IF e.sized THEN k <= UnpaddedLen(e, n) ELSE k = 0
        PROVE  Str(T, U16(k), 2)
    <3>1. k < Word
      BY <1>5, <1>6, <1>7, <2>2
    <3> QED
      BY <2>1, <3>1, StrU16
  <2>3. Byte \subseteq T /\ Str(T, payload, n)
    BY <2>1
  <2>4. Str(T, Unpadded(e, from, to, payload), UnpaddedLen(e, n))
    BY <1>1, <2>2, <2>3, UnpaddedStr
  <2> QED
    BY <2>1, <2>4
<1>9. PacketBytes(e, from, to, payload) = Unpadded(e, from, to, payload) \o e.pad
  BY DEF PacketBytes
<1>10. Unpadded(e, from, to, payload) \o e.pad \in Seq(Byte)
  BY <1>1, <1>8, Cat DEF Str
<1> QED
  BY <1>7, <1>8, <1>9, <1>10
V4or6(e, h) == IF e.version = 4 THEN V4Addr(h) ELSE V6Addr(h)

\* flow_view() on the first bytes of a packet: what it finds is the connection's, and
\* the payload's place; of the whole packet it finds what there is to find.
LEMMA ParseView ==
  ASSUME NEW c, Case(c), NEW e, EncapFits(c, e), NEW payload, NEW n, Str(Byte, payload, n),
         n <= Len(Wire(c)), NEW from \in Hosts, NEW to \in Hosts,
         NEW p, NEW q, Extends(p, q), At(q, 0, Unpadded(e, from, to, payload)),
         ~e.sized => Size(q) = UnpaddedLen(e, n)
  PROVE  LET r == ParseFlow(p)
             all == Size(p) >= UnpaddedLen(e, n)
         IN /\ r.ok \in BOOLEAN
            /\ all => (r.ok <=> Dissectable(e))
            /\ r.ok => /\ ViewOf(r.flow, e.proto, V4or6(e, from), V4or6(e, to), from, to)
                       /\ r.flow.payload = Head4or6(e) + L4Head(e)
                       /\ r.flow.payload + r.flow.payload_len <= Size(p)
                       /\ all => r.flow.payload_len = n
<1> DEFINE r == ParseFlow(p)
           all == Size(p) >= UnpaddedLen(e, n)
<1>1. /\ e.version \in {4, 6} /\ e.sized \in BOOLEAN /\ Chain(e) /\ e.proto \in Byte
      /\ e.version = 4 => Len(e.exts) \in 0..10
      /\ e.version = 6 /\ e.frag # 0 => \E i \in 1..Len(e.exts) : e.exts[i] = Fragment
  BY EncapType
<1>2. n \in Nat /\ Size(p) \in Nat
  BY ExtendsReads DEF Str
<1>3. /\ Head4or6(e) \in Nat /\ L4Head(e) \in Nat /\ UnpaddedLen(e, n) \in Nat
      /\ Head4or6(e) >= 20 /\ L4Head(e) >= 8
  BY <1>1, <1>2, HeadType
<1>4. e.sized => UnpaddedLen(e, n) < Word
  BY PacketType
<1>5. Word \in Nat /\ 0 < Word
  BY DEF Word
<1>6. UnpaddedLen(e, n) = Head4or6(e) + (L4Head(e) + n)
  BY DEF UnpaddedLen
<1>7. UdpSize(e, n) < Word
  BY <1>2, <1>3, <1>4, <1>5, <1>6 DEF UdpSize
<1>8. SUFFICES /\ r.ok \in BOOLEAN
               /\ all => (r.ok <=> Dissectable(e))
               /\ r.ok => /\ ViewOf(r.flow, e.proto, V4or6(e, from), V4or6(e, to), from, to)
                          /\ r.flow.payload = Head4or6(e) + L4Head(e)
                          /\ r.flow.payload + r.flow.payload_len <= Size(p)
                          /\ all => r.flow.payload_len = n
  OBVIOUS
<1>9. r = IF Size(p) > 0 /\ Rd(p, 0) \div 16 = 4 THEN ParseIPv4(p)
          ELSE IF Size(p) > 0 /\ Rd(p, 0) \div 16 = 6 THEN ParseIPv6(p) ELSE Undissected
  BY DEF ParseFlow
<1> HIDE DEF r, all
<1>10. CASE ~(Size(p) > 0)
  <2>1. ~all
    BY <1>2, <1>3, <1>6, <1>10 DEF all
  <2>2. r.ok = FALSE
    BY <1>9, <1>10 DEF Undissected
  <2> QED
    BY <2>1, <2>2, Zenon
<1>11. CASE Size(p) > 0 /\ e.version = 4
  <2>1. Head4or6(e) = V4Head(e) /\ V4or6(e, from) = V4Addr(from) /\ V4or6(e, to) = V4Addr(to)
    BY <1>11 DEF Head4or6, V4or6
  <2>2. At(q, 0, Ipv4(e, from, to, L4(e, from, to, payload)))
    BY <1>11, Zenon DEF Unpadded
  <2>3. V4Total(e, L4Head(e) + n) < Word
    BY <1>4, <1>5, <1>6, <2>1 DEF V4Total
  <2>4. ~e.sized => Size(q) = V4Head(e) + (L4Head(e) + n)
    BY <1>6, <2>1
  <2>5. e.frag \in Nat /\ e.frag < Word /\ e.frag < Frags
    BY <1>1 DEF Chain, Frags, Word
  <2> DEFINE R == ParseIPv4(p)
             whole == Size(p) >= V4Head(e) + (L4Head(e) + n)
  <2>6. /\ Size(p) > 0 => Rd(p, 0) \div 16 = 4
        /\ R.ok \in BOOLEAN
        /\ whole => (R.ok <=> e.frag = 0 /\ e.proto \in {Tcp, Udp})
        /\ R.ok => /\ ViewOf(R.flow, e.proto, V4Addr(from), V4Addr(to), from, to)
                   /\ R.flow.payload = V4Head(e) + L4Head(e)
                   /\ R.flow.payload + R.flow.payload_len <= Size(p)
                   /\ whole => R.flow.payload_len = n
    <3>1. Len(e.exts) \in 0..10
      BY <1>1, <1>11
    <3> QED
      BY <1>1, <1>7, <2>2, <2>3, <2>4, <2>5, <3>1, V4View
  <2>7. r = R
    BY <1>9, <1>11, <2>6
  <2>8. all <=> whole
    BY <1>6, <2>1 DEF all
  <2>9. Dissectable(e) <=> e.frag = 0 /\ e.proto \in {Tcp, Udp}
    BY <1>11 DEF Dissectable
  <2> HIDE DEF R, whole
  <2> QED
    BY <2>1, <2>6, <2>7, <2>8, <2>9
<1>12. CASE Size(p) > 0 /\ e.version # 4
  <2>0. e.version = 6
    BY <1>1, <1>12
  <2> DEFINE x == Len(V6Exts(e))
             R == ParseIPv6(p)
             whole == Size(p) >= 40 + (x + (L4Head(e) + n))
  <2>1. Head4or6(e) = 40 + x /\ V4or6(e, from) = V6Addr(from) /\ V4or6(e, to) = V6Addr(to)
    BY <1>12 DEF Head4or6, V4or6
  <2>2. At(q, 0, Ipv6(e, from, to, L4(e, from, to, payload)))
    BY <1>12, Zenon DEF Unpadded
  <2>3. x \in Nat
    BY <1>1, V6ExtsType
  <2>4. V6Len(e, x + (L4Head(e) + n)) < Word
    <3> HIDE DEF x
    <3> QED
      BY <1>2, <1>3, <1>4, <1>5, <1>6, <2>1, <2>3 DEF V6Len
  <2>5. e.frag # 0 => \E i \in 1..Len(e.exts) : e.exts[i] = Fragment
    BY <1>1, <2>0
  <2>6. /\ Size(p) > 0 => Rd(p, 0) \div 16 = 6
        /\ R.ok \in BOOLEAN
        /\ whole => (R.ok <=> V6Good(e))
        /\ R.ok => /\ ViewOf(R.flow, e.proto, V6Addr(from), V6Addr(to), from, to)
                   /\ R.flow.payload = (40 + x) + L4Head(e)
                   /\ R.flow.payload + R.flow.payload_len <= Size(p)
                   /\ whole => R.flow.payload_len = n
    BY <1>1, <1>7, <2>2, <2>4, <2>5, V6View
  <2>7. r = R
    BY <1>9, <1>12, <2>6
  <2>8. all <=> whole
    <3> HIDE DEF x
    <3> QED
      BY <1>2, <1>3, <1>6, <2>1, <2>3 DEF all
  <2>9. Dissectable(e) <=> V6Good(e)
    <3>1. DOMAIN e.exts = 1..Len(e.exts)
      BY <1>1, LenProperties DEF Chain
    <3> QED
      BY <2>0, <3>1 DEF Dissectable, V6Good
  <2> HIDE DEF R, whole, x
  <2> QED
    BY <2>1, <2>6, <2>7, <2>8, <2>9
<1> QED
  BY <1>10, <1>11, <1>12

\* The key of a flow does not depend on the direction.
ConnKey(proto, a, b) == IF a < b THEN Mix(Mix(proto, a), b) ELSE Mix(Mix(proto, b), a)
HostHash(e, h) == EndpointHash(V4or6(e, h), 400 + h)

\* The hash of an endpoint is a number.
LEMMA HostHashType == ASSUME NEW e, NEW h \in Hosts PROVE HostHash(e, h) \in Nat
<1>1. h \in Byte /\ 400 + h \in Nat
  BY HostType
<1>2. 10 \in Byte /\ 0 \in Byte
  BY DEF Byte
<1>3. \A i \in 1..16 : V4Addr(h)[i] \in Byte
  BY <1>1, <1>2 DEF V4Addr
<1>4. \A i \in 1..16 : V6Addr(h)[i] \in Byte
  BY <1>1, <1>2 DEF V6Addr
<1>5. \A i \in 1..16 : V4or6(e, h)[i] \in Byte
  BY <1>3, <1>4 DEF V4or6
<1> QED
  BY <1>1, <1>5, EndpointHashType DEF HostHash

\* The key of a connection does not depend on which end is named first.
LEMMA ConnKeySymmetric ==
  ASSUME NEW proto, NEW a \in Nat, NEW b \in Nat PROVE ConnKey(proto, a, b) = ConnKey(proto, b, a)
<1>1. a < b \/ b < a \/ a = b
  OBVIOUS
<1>2. CASE a < b
  <2>1. ~(b < a)
    BY <1>2
  <2> QED
    BY <1>2, <2>1 DEF ConnKey
<1>3. CASE b < a
  <2>1. ~(a < b)
    BY <1>3
  <2> QED
    BY <1>3, <2>1 DEF ConnKey
<1>4. CASE a = b
  BY <1>4
<1> QED
  BY <1>1, <1>2, <1>3, <1>4

\* The key of a view is the key of its connection.
LEMMA ViewKey ==
  ASSUME NEW f, NEW e, NEW from, NEW to,
         ViewOf(f, e.proto, V4or6(e, from), V4or6(e, to), from, to)
  PROVE  RouteKey(f) = ConnKey(e.proto, HostHash(e, from), HostHash(e, to))
<1>1. /\ f.ip_proto = e.proto /\ f.src_ip = V4or6(e, from) /\ f.dst_ip = V4or6(e, to)
      /\ f.src_port = 400 + from /\ f.dst_port = 400 + to
  BY DEF ViewOf
<1> DEFINE a == HostHash(e, from)
           b == HostHash(e, to)
<1>2. EndpointHash(f.src_ip, f.src_port) = a /\ EndpointHash(f.dst_ip, f.dst_port) = b
  BY <1>1, Zenon DEF HostHash
<1>3. RouteKey(f) = Mix(Mix(f.ip_proto, IF EndpointHash(f.src_ip, f.src_port) < EndpointHash(f.dst_ip, f.dst_port)
                                        THEN EndpointHash(f.src_ip, f.src_port)
                                        ELSE EndpointHash(f.dst_ip, f.dst_port)),
                        IF EndpointHash(f.src_ip, f.src_port) < EndpointHash(f.dst_ip, f.dst_port)
                        THEN EndpointHash(f.dst_ip, f.dst_port)
                        ELSE EndpointHash(f.src_ip, f.src_port))
  BY Zenon DEF RouteKey
<1> HIDE DEF a, b
<1>4. RouteKey(f) = Mix(Mix(e.proto, IF a < b THEN a ELSE b), IF a < b THEN b ELSE a)
  BY <1>1, <1>2, <1>3
<1>5. CASE a < b
  BY <1>4, <1>5 DEF ConnKey, a, b
<1>6. CASE ~(a < b)
  BY <1>4, <1>6 DEF ConnKey, a, b
<1> QED
  BY <1>5, <1>6

\* What Packet::flow_view() makes of the first k bytes of a packet: the connection's
\* key, whichever way the packet goes, and the place of the payload in it.
THEOREM FlowViewOfPacket ==
  ASSUME NEW c, Case(c), NEW e, EncapFits(c, e), NEW payload, NEW n, Str(Byte, payload, n),
         n <= Len(Wire(c)), NEW from \in Hosts, NEW to \in Hosts,
         NEW k \in 0..Len(PacketBytes(e, from, to, payload)), NEW j \in Byte
  PROVE  LET v == FlowViewOf(Buffer(SubSeq(PacketBytes(e, from, to, payload), 1, k), j))
             all == k >= UnpaddedLen(e, n)
         IN /\ v.ok \in BOOLEAN
            /\ all => (v.ok <=> Dissectable(e))
            /\ v.ok => /\ v.flow.key = ConnKey(e.proto, HostHash(e, from), HostHash(e, to))
                       /\ v.flow.ip_proto = e.proto
                       /\ v.flow.payload = Head4or6(e) + L4Head(e) /\ v.flow.payload_len \in Nat
                       /\ v.flow.payload + v.flow.payload_len <= k
                       /\ all => v.flow.payload_len = n
<1> DEFINE b == PacketBytes(e, from, to, payload)
           u == Unpadded(e, from, to, payload)
           p == Buffer(SubSeq(b, 1, k), j)
           q == Buffer(b, j)
           v == FlowViewOf(p)
           r == ParseFlow(p)
           f == r.flow
           all == k >= UnpaddedLen(e, n)
<1>1. /\ Str(Byte, u, UnpaddedLen(e, n)) /\ b \in Seq(Byte) /\ b = u \o e.pad
  BY PacketType
<1>2. e.pad \in Seq(Byte) /\ (~e.sized => e.pad = <<>>)
  BY EncapType
<1>3. Len(b) \in Nat /\ k \in Nat /\ k <= Len(b)
  BY <1>1, LenProperties
<1>4. Len(SubSeq(b, 1, k)) = k /\ SubSeq(b, 1, k) \in Seq(Byte) /\ Extends(p, q)
  <2> HIDE DEF b
  <2> QED
    BY <1>1, <1>3, PrefixExtends
<1>5. Size(p) = k
  BY <1>4, BufferFields
<1>6. At(q, 0, u)
  <2> HIDE DEF b, u
  <2>1. u \in Seq(Byte)
    BY <1>1 DEF Str
  <2> QED
    BY <1>1, <1>2, <2>1, AtStart
<1>7. ~e.sized => Size(q) = UnpaddedLen(e, n)
  <2> HIDE DEF b, u
  <2>1. Size(q) = Len(b) /\ u \in Seq(Byte) /\ Len(u) = UnpaddedLen(e, n)
    BY <1>1, BufferFields DEF Str
  <2>2. ASSUME NEW w \in Seq(Byte) PROVE w \o <<>> = w
    BY ConcatEmptySeq
  <2>3. ~e.sized => b = u
    BY <1>1, <1>2, <2>1, <2>2
  <2> QED
    BY <2>1, <2>3
<1> HIDE DEF p, q, r, f
<1>8. /\ r.ok \in BOOLEAN
      /\ Size(p) >= UnpaddedLen(e, n) => (r.ok <=> Dissectable(e))
      /\ r.ok => /\ ViewOf(f, e.proto, V4or6(e, from), V4or6(e, to), from, to)
                 /\ f.payload = Head4or6(e) + L4Head(e)
                 /\ f.payload + f.payload_len <= Size(p)
                 /\ Size(p) >= UnpaddedLen(e, n) => f.payload_len = n
  BY <1>4, <1>6, <1>7, ParseView DEF r, f
<1>9. v = IF r.ok THEN Dissected([f EXCEPT !.key = RouteKey(f)]) ELSE Undissected
  BY Zenon DEF FlowViewOf, r, f
<1> HIDE DEF v, all
<1>10. SUFFICES /\ v.ok \in BOOLEAN
                /\ all => (v.ok <=> Dissectable(e))
                /\ v.ok => /\ v.flow.key = ConnKey(e.proto, HostHash(e, from), HostHash(e, to))
                           /\ v.flow.ip_proto = e.proto
                           /\ v.flow.payload = Head4or6(e) + L4Head(e) /\ v.flow.payload_len \in Nat
                           /\ v.flow.payload + v.flow.payload_len <= k
                           /\ all => v.flow.payload_len = n
  BY DEF v, all, p
<1>11. all <=> Size(p) >= UnpaddedLen(e, n)
  BY <1>5 DEF all
<1>12. CASE ~r.ok
  <2>1. v.ok = FALSE
    BY <1>9, <1>12 DEF Undissected
  <2> QED
    BY <1>8, <1>11, <1>12, <2>1, Zenon
<1>13. CASE r.ok
  <2> DEFINE g == [f EXCEPT !.key = RouteKey(f)]
  <2>1. ViewOf(f, e.proto, V4or6(e, from), V4or6(e, to), from, to)
    BY <1>8, <1>13
  <2>2. /\ g.key = RouteKey(f) /\ g.ip_proto = f.ip_proto /\ g.payload = f.payload
        /\ g.payload_len = f.payload_len
    <3>1. DOMAIN f = DOMAIN NoFlow
      BY <2>1 DEF ViewOf
    <3>2. {"key", "ip_proto", "payload", "payload_len"} \subseteq DOMAIN f
      BY <3>1 DEF NoFlow
    <3> QED
      BY <3>2
  <2>3. v.ok = TRUE /\ v.flow = g
    BY <1>9, <1>13 DEF Dissected
  <2> HIDE DEF g
  <2>4. RouteKey(f) = ConnKey(e.proto, HostHash(e, from), HostHash(e, to))
    BY <2>1, ViewKey
  <2>5. f.ip_proto = e.proto /\ f.payload_len \in Nat
    BY <2>1 DEF ViewOf
  <2> QED
    BY <1>5, <1>8, <1>11, <1>13, <2>2, <2>3, <2>4, <2>5
<1> QED
  BY <1>12, <1>13

\* A part of a sequence.
LEMMA Part ==
  ASSUME NEW T, NEW s \in Seq(T), NEW k \in Nat, NEW l \in Nat, k + l <= Len(s)
  PROVE  /\ SubSeq(s, k + 1, k + l) \in Seq(T) /\ Len(SubSeq(s, k + 1, k + l)) = l
         /\ \A i \in 1..l : SubSeq(s, k + 1, k + l)[i] = s[k + i]
<1>1. PICK m \in Nat : m = Len(s)
  BY LenProperties
<1>2. PICK a \in Int, b \in Int : a = k + 1 /\ b = k + l
  OBVIOUS
<1>3. \A i \in a..b : s[i] \in T
  <2>1. \A i \in a..b : i \in 1..m
    BY <1>1, <1>2
  <2> QED
    BY <1>1, <2>1, ElementOfSeq
<1>4. PICK x : x = SubSeq(s, a, b)
  OBVIOUS
<1>5. /\ x \in Seq(T) /\ Len(x) = (IF a <= b THEN b - a + 1 ELSE 0)
      /\ \A i \in 1..(b - a + 1) : x[i] = s[a + i - 1]
  BY <1>3, <1>4, SubSeqProperties
<1>6. (IF a <= b THEN b - a + 1 ELSE 0) = l /\ b - a + 1 = l /\ \A i \in 1..l : a + i - 1 = k + i
  BY <1>2
<1> QED
  BY <1>2, <1>4, <1>5, <1>6

\* A beginning of a sequence, and what follows it.
LEMMA Joined ==
  ASSUME NEW s \in Seq(Byte), NEW k \in Nat, NEW n \in Nat, k <= n, n <= Len(s)
  PROVE  /\ SubSeq(s, 1, k) \o SubSeq(s, k + 1, n) = SubSeq(s, 1, n)
         /\ Str(Byte, SubSeq(s, k + 1, n), n - k) /\ Str(Byte, SubSeq(s, 1, n), n)
<1>1. PICK m \in Nat : m = Len(s) /\ n <= m
  BY LenProperties
<1>2. PICK l \in Nat : n = k + l /\ l = n - k
  <2>1. n - k \in Nat /\ n = k + (n - k)
    OBVIOUS
  <2> QED
    BY <2>1
<1>3. PICK a : a = SubSeq(s, 1, k)
  OBVIOUS
<1>4. PICK b : b = SubSeq(s, k + 1, n)
  OBVIOUS
<1>5. PICK d : d = SubSeq(s, 1, n)
  OBVIOUS
<1>6. PICK z \in Nat : z = 0
  OBVIOUS
<1>7. \A i \in Nat : z + i = i /\ z + 1 = 1
  BY <1>6
<1>8. a \in Seq(Byte) /\ Len(a) = k /\ \A i \in 1..k : a[i] = s[i]
  <2>1. z + k <= Len(s)
    BY <1>1, <1>6
  <2>2. /\ SubSeq(s, z + 1, z + k) \in Seq(Byte) /\ Len(SubSeq(s, z + 1, z + k)) = k
        /\ \A i \in 1..k : SubSeq(s, z + 1, z + k)[i] = s[z + i]
    BY <2>1, Part
  <2> QED
    BY <1>3, <1>7, <2>2
<1>9. b \in Seq(Byte) /\ Len(b) = l /\ \A i \in 1..l : b[i] = s[k + i]
  <2>1. k + l <= Len(s)
    BY <1>1, <1>2
  <2> QED
    BY <1>2, <1>4, <2>1, Part
<1>10. d \in Seq(Byte) /\ Len(d) = n /\ \A i \in 1..n : d[i] = s[i]
  <2>1. z + n <= Len(s)
    BY <1>1, <1>6
  <2>2. /\ SubSeq(s, z + 1, z + n) \in Seq(Byte) /\ Len(SubSeq(s, z + 1, z + n)) = n
        /\ \A i \in 1..n : SubSeq(s, z + 1, z + n)[i] = s[z + i]
    BY <2>1, Part
  <2> QED
    BY <1>5, <1>7, <2>2
<1>11. /\ a \o b \in Seq(Byte) /\ Len(a \o b) = k + l
       /\ \A i \in 1..(k + l) : (a \o b)[i] = IF i <= k THEN a[i] ELSE b[i - k]
  BY <1>8, <1>9, ConcatProperties
<1>12. ASSUME NEW i \in 1..n PROVE (a \o b)[i] = d[i]
  <2>1. i \in 1..(k + l)
    BY <1>2
  <2>2. CASE i <= k
    <3>1. i \in 1..k
      BY <2>2
    <3> QED
      BY <1>8, <1>10, <1>11, <2>1, <2>2, <3>1
  <2>3. CASE ~(i <= k)
    <3>1. i - k \in 1..l /\ k + (i - k) = i
      BY <1>2, <2>3
    <3> QED
      BY <1>9, <1>10, <1>11, <2>1, <2>3, <3>1
  <2> QED
    BY <2>2, <2>3
<1>13. a \o b = d
  BY <1>2, <1>10, <1>11, <1>12, SeqEqual
<1> QED
  BY <1>2, <1>3, <1>4, <1>5, <1>9, <1>10, <1>13 DEF Str

\* The payload is what a packet ends with, but for its padding.
LEMMA PayloadAt ==
  ASSUME NEW c, Case(c), NEW e, EncapFits(c, e), NEW payload, NEW n, Str(Byte, payload, n),
         n <= Len(Wire(c)), NEW from \in Hosts, NEW to \in Hosts,
         NEW q \in Buffers, At(q, 0, Unpadded(e, from, to, payload))
  PROVE  At(q, Head4or6(e) + L4Head(e), payload)
<1> DEFINE l4 == L4(e, from, to, payload)
           m == L4Head(e) + n
           h == Head4or6(e)
<1>1. /\ e.version \in {4, 6} /\ e.sized \in BOOLEAN /\ Chain(e) /\ e.proto \in Byte
      /\ e.version = 4 => Len(e.exts) \in 0..10
  BY EncapType
<1>2. n \in Nat
  BY DEF Str
<1>3. h \in Nat /\ L4Head(e) \in Nat /\ h >= 20 /\ L4Head(e) >= 8 /\ m \in Nat
  <2>1. h \in Nat /\ L4Head(e) \in Nat /\ h >= 20 /\ L4Head(e) >= 8
    BY <1>1, <1>2, HeadType
  <2> QED
    BY <1>2, <2>1
<1>4. e.sized => UnpaddedLen(e, n) < Word
  BY PacketType
<1>5. Word \in Nat /\ 0 < Word /\ UnpaddedLen(e, n) = h + m
  BY DEF Word, UnpaddedLen
<1>6. UdpSize(e, n) \in Nat /\ UdpSize(e, n) < Word
  BY <1>2, <1>3, <1>4, <1>5 DEF UdpSize
<1>7. Str(Byte, l4, m)
  <2>1. PICK T : T = Byte
    OBVIOUS
  <2>2. Str(T, payload, n) /\ Byte \subseteq T /\ Str(T, U16(UdpSize(e, n)), 2)
    BY <1>6, <2>1, StrU16
  <2>3. Str(T, L4(e, from, to, payload), L4Head(e) + n)
    BY <2>2, L4Type
  <2> QED
    BY <2>1, <2>3
<1> HIDE DEF l4, m
<1>8. At(q, h, l4)
  <2>1. CASE e.version = 4
    <3>1. At(q, 0, Ipv4(e, from, to, l4)) /\ h = V4Head(e) /\ Len(e.exts) \in 0..10
      BY <1>1, <2>1, Zenon DEF Unpadded, l4, Head4or6
    <3>2. V4Total(e, m) \in Nat /\ V4Total(e, m) < Word
      <4> HIDE DEF h
      <4> QED
        BY <1>3, <1>4, <1>5, <3>1 DEF V4Total
    <3>3. Str(Byte, U16(V4Total(e, m)), 2) /\ Str(Byte, U16(e.frag), 2)
      <4>1. e.frag \in Nat /\ e.frag < Word
        BY <1>1 DEF Chain, Frags, Word
      <4> QED
        BY <3>2, <4>1, StrU16
    <3>4. Str(Byte, V4Front(e, m, from, to), 20)
      <4>1. PICK T : T = Byte
        OBVIOUS
      <4>2. Byte \subseteq T /\ Str(T, U16(V4Total(e, m)), 2) /\ Str(T, U16(e.frag), 2)
        BY <3>3, <4>1
      <4>3. Str(T, V4Front(e, m, from, to), 20)
        BY <1>1, <3>1, <4>2, V4FrontType
      <4> QED
        BY <4>1, <4>3
    <3>5. Len(l4) = m
      BY <1>7 DEF Str
    <3> DEFINE a == V4Front(e, m, from, to)
               b == Zeros(4 * Len(e.exts))
               k == 20
               l == 4 * Len(e.exts)
               o == 0
    <3>6. Len(e.exts) \in Nat /\ l \in Nat
      BY <3>1
    <3>7. Ipv4(e, from, to, l4) = a \o b \o l4
      BY <3>5, <3>6, V4Parts
    <3>8. o \in Nat /\ Str(Byte, a, k) /\ Str(Byte, b, l) /\ At(q, o, a \o b \o l4)
      BY <3>1, <3>4, <3>6, <3>7, StrZeros
    <3>9. o + k + l = h
      BY <3>1, <3>6 DEF V4Head
    <3> HIDE DEF a, b, k, l, o, h
    <3>10. At(q, o + k + l, l4)
      BY <1>7, <3>8, AtStr3
    <3> QED
      BY <3>9, <3>10
  <2>2. CASE e.version # 4
    <3> DEFINE x == Len(V6Exts(e))
    <3>1. At(q, 0, Ipv6(e, from, to, l4)) /\ h = 40 + x
      BY <2>2, Zenon DEF Unpadded, l4, Head4or6
    <3>2. x \in Nat
      BY <1>1, V6ExtsType
    <3> HIDE DEF x, h
    <3>3. V6Len(e, x + m) < Word
      BY <1>3, <1>4, <1>5, <3>1, <3>2 DEF V6Len
    <3>4. PICK at : at[Len(e.exts) + 1] = 40 + x /\ At(q, at[Len(e.exts) + 1], l4)
      <4>1. V6Len(e, Len(V6Exts(e)) + m) < Word
        BY <3>3 DEF x
      <4>2. \E at : /\ Headed(q, e, at) /\ at[Len(e.exts) + 1] = 40 + Len(V6Exts(e))
                    /\ At(q, at[Len(e.exts) + 1], l4)
                    /\ \A i \in 1..Len(e.exts) : at[i + 1] <= 40 + Len(V6Exts(e))
        BY <1>1, <1>7, <3>1, <4>1, V6At
      <4> QED
        BY <4>2, Zenon DEF x
    <3> QED
      BY <3>1, <3>4
  <2> QED
    BY <2>1, <2>2
<1>9. Extends(q, q)
  <2>1. Size(q) \in Nat
    BY <1>2, ReadType
  <2> QED
    BY <2>1 DEF Extends
<1> HIDE DEF h
<1>10. At(q, h + L4Head(e), payload)
  BY <1>3, <1>6, <1>8, <1>9, L4Reads DEF l4
<1> QED
  BY <1>10 DEF h

\* Any beginning of the payload is at its place in the packet.
LEMMA PayloadBytes ==
  ASSUME NEW c, Case(c), NEW e, EncapFits(c, e), NEW payload, NEW n, Str(Byte, payload, n),
         n <= Len(Wire(c)), NEW from \in Hosts, NEW to \in Hosts,
         NEW l \in 0..n, NEW k, k = Head4or6(e) + L4Head(e)
  PROVE  SubSeq(Unpadded(e, from, to, payload), k + 1, k + l) = SubSeq(payload, 1, l)
<1> DEFINE u == Unpadded(e, from, to, payload)
           q == Buffer(u, 0)
           m == UnpaddedLen(e, n)
<1>1. Str(Byte, u, m)
  BY PacketType
<1>2. u \in Seq(Byte) /\ Len(u) = m /\ payload \in Seq(Byte) /\ Len(payload) = n /\ n \in Nat
  BY <1>1 DEF Str
<1>3. Chain(e)
  BY EncapType
<1>4. k \in Nat /\ m = k + n
  <2>1. Head4or6(e) \in Nat /\ L4Head(e) \in Nat
    BY <1>2, <1>3, HeadType
  <2> QED
    BY <1>2, <2>1 DEF UnpaddedLen
<1>5. 0 \in Byte
  BY DEF Byte
<1>6. At(q, k, payload)
  <2> HIDE DEF u
  <2>1. q \in Buffers /\ At(q, 0, u)
    BY <1>2, <1>5, BufferFields, AtStart
  <2> HIDE DEF q
  <2> QED
    BY <2>1, PayloadAt DEF u
<1> HIDE DEF u
<1>7. q.b = u /\ Size(q) = m
  BY <1>2, <1>5, BufferFields
<1> HIDE DEF q, m
<1>8. ASSUME NEW i \in 1..n PROVE u[k + i] = payload[i]
  <2>1. Rd(q, k + i - 1) = payload[i]
    BY <1>2, <1>6 DEF At
  <2>2. k + i - 1 < Size(q) /\ k + i - 1 + 1 = k + i
    BY <1>2, <1>4, <1>7
  <2>3. Rd(q, k + i - 1) = q.b[k + i - 1 + 1]
    BY <2>2 DEF Rd
  <2> QED
    BY <1>7, <2>1, <2>2, <2>3
<1>9. PICK x : x = SubSeq(u, k + 1, k + l)
  OBVIOUS
<1>10. PICK y : y = SubSeq(payload, 1, l)
  OBVIOUS
<1>11. x \in Seq(Byte) /\ Len(x) = l /\ \A i \in 1..l : x[i] = u[k + i]
  <2>1. l \in Nat /\ k + l <= m
    BY <1>2, <1>4
  <2>2. l \in Nat /\ k + l <= Len(u) /\ u \in Seq(Byte) /\ k \in Nat
    BY <1>2, <1>4, <2>1
  <2>3. /\ SubSeq(u, k + 1, k + l) \in Seq(Byte) /\ Len(SubSeq(u, k + 1, k + l)) = l
        /\ \A i \in 1..l : SubSeq(u, k + 1, k + l)[i] = u[k + i]
    <3>1. PICK T : T = Byte
      OBVIOUS
    <3>2. PICK v : v = u
      OBVIOUS
    <3>3. PICK d, f \in Nat : d = k /\ f = l
      BY <2>2
    <3>4. v \in Seq(T) /\ d + f <= Len(v)
      BY <2>2, <3>1, <3>2, <3>3
    <3>5. /\ SubSeq(v, d + 1, d + f) \in Seq(T) /\ Len(SubSeq(v, d + 1, d + f)) = f
          /\ \A i \in 1..f : SubSeq(v, d + 1, d + f)[i] = v[d + i]
      BY <3>4, Part, Zenon
    <3> QED
      BY <3>1, <3>2, <3>3, <3>5
  <2> QED
    BY <1>9, <2>3, Zenon
<1>12. y \in Seq(Byte) /\ Len(y) = l /\ \A i \in 1..l : y[i] = payload[i]
  <2>1. \A i \in 1..l : payload[i] \in Byte
    BY <1>2, ElementOfSeq
  <2> QED
    BY <1>2, <1>10, <2>1, SubSeqProperties
<1>13. \A i \in 1..l : x[i] = y[i]
  BY <1>2, <1>8, <1>11, <1>12
<1> QED
  BY <1>9, <1>10, <1>11, <1>12, <1>13, SeqEqual DEF u

-----------------------------------------------------------------------------
\* What the parser makes of a hello: it finds what the client put there.

\* Induction from the end of a list.
LEMMA Backwards ==
  ASSUME NEW S, NEW n \in Nat, n + 1 \in S, \A i \in 1..n : i + 1 \in S => i \in S
  PROVE  \A i \in 1..(n + 1) : i \in S
<1> DEFINE T == {o \in Nat : o \in 1..(n + 1) => o \in S}
<1>1. PICK end \in Nat : end = n + 1
  OBVIOUS
<1>2. ASSUME NEW o \in Nat, \A k \in Nat : k > o /\ k <= end => k \in T PROVE o \in T
  <2>1. CASE o \notin 1..(n + 1)
    BY <2>1
  <2>2. CASE o = n + 1
    BY <2>2
  <2>3. CASE o \in 1..n
    <3>1. o + 1 \in Nat /\ o + 1 > o /\ o + 1 <= end /\ o + 1 \in 1..(n + 1)
      BY <1>1, <2>3
    <3>2. o + 1 \in S
      BY <1>2, <3>1
    <3> QED
      BY <2>3, <3>2
  <2> QED
    BY <2>1, <2>2, <2>3
<1> HIDE DEF T
<1>3. \A o \in Nat : o \in T
  BY <1>2, TowardsEnd
<1> QED
  BY <1>3 DEF T

\* An entry of a server name list.
LEMMA NameAt ==
  ASSUME NEW hs \in Buffers, NEW o \in Nat, NEW end \in Nat, NEW n \in NameTypes,
         Len(n.name) < Word, At(hs, o, NameBytes(n)), o + 3 + Len(n.name) <= end
  PROVE  FirstHostName(hs, o, end) = IF n.type = 0 THEN Found(n.name)
                                     ELSE FirstHostName(hs, o + 3 + Len(n.name), end)
<1>1. PICK k \in Nat : k = Len(n.name)
  BY NameBytesType
<1>2. n.type \in Byte /\ n.name \in Seq(Byte) /\ Str(Byte, n.name, k)
  BY <1>1, NameBytesType DEF Str
<1>3. Str(Byte, <<n.type>>, 1) /\ Str(Byte, U16(k), 2)
  BY <1>1, <1>2, StrOne, StrU16
<1>4. NameBytes(n) = <<n.type>> \o (U16(k) \o n.name)
  BY <1>1, Zenon DEF NameBytes, Sized
<1>5. Str(Byte, U16(k) \o n.name, 2 + k)
  BY <1>2, <1>3, StrCat
<1>6. At(hs, o, <<n.type>>) /\ At(hs, o + 1, U16(k) \o n.name) /\ o + 1 \in Nat /\ o + 3 \in Nat
  <2> DEFINE a == <<n.type>>
             b == U16(k) \o n.name
             i == 1
  <2>1. Str(Byte, a, i) /\ Str(Byte, b, 2 + k) /\ At(hs, o, a \o b)
    BY <1>3, <1>4, <1>5
  <2> HIDE DEF a, b, i
  <2>2. At(hs, o, a) /\ At(hs, o + i, b)
    BY <2>1, AtStr
  <2> QED
    BY <2>2 DEF a, b, i
<1>7. At(hs, o + 1, U16(k)) /\ At(hs, o + 3, n.name)
  <2>1. PICK i \in Nat, two \in Nat : i = o + 1 /\ two = 2
    BY <1>6
  <2>2. At(hs, i, U16(k)) /\ At(hs, i + two, n.name)
    BY <1>2, <1>3, <1>6, <2>1, AtStr
  <2>3. i + two = o + 3
    BY <2>1
  <2> QED
    BY <2>1, <2>2, <2>3
<1>8. Rd(hs, o) = n.type /\ Be16(hs, o + 1) = k
  BY <1>6, <1>7, AtOne, AtU16
<1>9. Bytes(hs, o + 3, k) = n.name
  BY <1>1, <1>2, <1>6, <1>7, AtBytes
<1> DEFINE m == Be16(hs, o + 1)
<1>10. FirstHostName(hs, o, end) = IF o + 3 > end \/ o + 3 + m > end THEN NotFound
                                   ELSE IF Rd(hs, o) = 0 THEN Found(Bytes(hs, o + 3, m))
                                   ELSE FirstHostName(hs, o + 3 + m, end)
  BY FirstHostNameStep
<1>11. m = k
  BY <1>8
<1> HIDE DEF m
<1>12. ~(o + 3 > end) /\ ~(o + 3 + k > end)
  <2>1. o + 3 + k <= end
    BY <1>1
  <2> QED
    BY <2>1
<1> QED
  BY <1>1, <1>8, <1>9, <1>10, <1>11, <1>12

\* r is what the first host_name of a list, from the i-th entry on, says.
NameFrom(names, i, r) ==
  \/ r = NotFound /\ \A j \in i..Len(names) : names[j].type # 0
  \/ \E j \in i..Len(names) : /\ names[j].type = 0 /\ r = Found(names[j].name)
                              /\ \A l \in i..(j - 1) : names[l].type # 0

\* A server name list: the first host_name in it is found.
LEMMA NamesAt ==
  ASSUME NEW hs \in Buffers, NEW o \in Nat, NEW names \in Seq(NameTypes),
         Len(Names(names)) < Word, At(hs, o, Names(names))
  PROVE  NameFrom(names, 1, FirstHostName(hs, o, o + Len(Names(names))))
<1>1. PICK n \in Nat, k \in Nat : n = Len(names) /\ k = Len(Names(names))
  BY NamesType
<1>2. PICK ss \in Seq(Seq(Byte)) : ss = NameList(names)
  BY NamesType
<1>3. PICK s \in Seq(Byte) : s = Names(names) /\ s = FlattenSeq(ss)
  BY <1>2, NamesType DEF Names
<1>4. PICK at : Parts(ss, s, at)
  BY <1>3, FlattenParts
<1>5. /\ Len(ss) = n
      /\ \A i \in 1..n : /\ names[i] \in NameTypes /\ ss[i] = NameBytes(names[i])
                         /\ Len(names[i].name) < Word
  BY <1>1, <1>2, NamesType
<1>6. at[1] = 0 /\ at[n + 1] = k
  BY <1>1, <1>3, <1>4, <1>5 DEF Parts
<1>7. \A i \in 1..n : o + at[i] \in Nat /\ At(hs, o + at[i], ss[i])
  BY <1>3, <1>4, <1>5, AtParts
<1>8. \A i \in 1..n : /\ at[i] \in Nat /\ at[i + 1] \in Nat
                       /\ at[i + 1] = at[i] + Len(ss[i]) /\ at[i + 1] <= k
  BY <1>1, <1>3, <1>4, <1>5, PartsInside
<1> DEFINE end == o + k
           R(i) == FirstHostName(hs, o + at[i], end)
           S == {i \in 1..(n + 1) : NameFrom(names, i, R(i))}
<1>9. end \in Nat
  OBVIOUS
<1>10. R(n + 1) = NotFound
  <2>1. FirstHostName(hs, end, end) = NotFound
    <3>1. end + 3 > end
      BY <1>9
    <3> HIDE DEF end
    <3> QED
      BY <1>9, <3>1, FirstHostNameStep
  <2> QED
    BY <1>6, <2>1
<1>11. n + 1 \in S
  <2>1. \A j \in (n + 1)..Len(names) : FALSE
    BY <1>1
  <2> HIDE DEF R
  <2> QED
    BY <1>10, <2>1 DEF NameFrom
<1>12. ASSUME NEW i \in 1..n, i + 1 \in S PROVE i \in S
  <2>1. names[i] \in NameTypes /\ Len(names[i].name) < Word /\ ss[i] = NameBytes(names[i])
    BY <1>5
  <2>2. PICK l \in Nat : l = Len(names[i].name) /\ Len(ss[i]) = 3 + l
    BY <2>1, NameBytesType DEF Str
  <2>3. PICK a \in Nat : a = o + at[i] /\ At(hs, a, NameBytes(names[i]))
    BY <1>7, <2>1
  <2>4. o + at[i + 1] = a + 3 + l /\ a + 3 + l <= end
    <3>1. PICK x \in Nat, y \in Nat : x = at[i] /\ y = at[i + 1] /\ y = x + (3 + l) /\ y <= k
      BY <1>8, <2>2
    <3>2. a = o + x
      BY <2>3, <3>1
    <3>3. y = x + (3 + l) /\ y <= k
      BY <3>1
    <3>4. o + y = a + 3 + l /\ a + 3 + l <= o + k
      BY <3>2, <3>3
    <3> QED
      BY <3>1, <3>4
  <2>5. R(i) = IF names[i].type = 0 THEN Found(names[i].name) ELSE R(i + 1)
    <3> HIDE DEF end
    <3>1. FirstHostName(hs, a, end) = IF names[i].type = 0 THEN Found(names[i].name)
                                      ELSE FirstHostName(hs, a + 3 + l, end)
      <4>1. PICK x \in NameTypes : x = names[i]
        BY <2>1
      <4>2. Len(x.name) < Word /\ At(hs, a, NameBytes(x)) /\ a + 3 + Len(x.name) <= end
        BY <2>1, <2>2, <2>3, <2>4, <4>1
      <4>3. FirstHostName(hs, a, end) = IF x.type = 0 THEN Found(x.name)
                                        ELSE FirstHostName(hs, a + 3 + Len(x.name), end)
        BY <1>9, <4>2, NameAt
      <4> QED
        BY <2>2, <4>1, <4>3
    <3> QED
      BY <2>3, <2>4, <3>1
  <2>6. NameFrom(names, i + 1, R(i + 1))
    BY <1>12
  <2> HIDE DEF R
  <2>7. NameFrom(names, i, R(i))
    <3>1. CASE names[i].type = 0
      <4>1. R(i) = Found(names[i].name) /\ i \in i..Len(names) /\ \A q \in i..(i - 1) : names[q].type # 0
        BY <1>1, <2>5, <3>1
      <4> QED
        BY <3>1, <4>1 DEF NameFrom
    <3>2. CASE names[i].type # 0
      <4>1. R(i) = R(i + 1)
        BY <2>5, <3>2
      <4>2. \A q \in Nat : \A z \in i..q : z = i \/ z \in (i + 1)..q
        OBVIOUS
      <4>3. CASE R(i + 1) = NotFound /\ \A j \in (i + 1)..Len(names) : names[j].type # 0
        BY <1>1, <3>2, <4>1, <4>2, <4>3 DEF NameFrom
      <4>4. CASE \E j \in (i + 1)..Len(names) :
                   /\ names[j].type = 0 /\ R(i + 1) = Found(names[j].name)
                   /\ \A q \in (i + 1)..(j - 1) : names[q].type # 0
        <5>1. PICK j \in (i + 1)..n : /\ names[j].type = 0 /\ R(i + 1) = Found(names[j].name)
                                      /\ \A q \in (i + 1)..(j - 1) : names[q].type # 0
          BY <1>1, <4>4
        <5>2. j \in i..Len(names) /\ j - 1 \in Nat
          BY <1>1
        <5>3. \A q \in i..(j - 1) : names[q].type # 0
          BY <3>2, <4>2, <5>1, <5>2
        <5> QED
          BY <4>1, <5>1, <5>2, <5>3 DEF NameFrom
      <4> QED
        BY <2>6, <4>3, <4>4 DEF NameFrom
    <3> QED
      BY <3>1, <3>2
  <2> QED
    BY <2>7
<1> HIDE DEF S
<1>13. \A i \in 1..(n + 1) : i \in S
  BY <1>11, <1>12, Backwards
<1>14. NameFrom(names, 1, R(1)) /\ o + at[1] = o
  <2>1. 1 \in 1..(n + 1)
    OBVIOUS
  <2> HIDE DEF R
  <2> QED
    BY <1>6, <1>13, <2>1 DEF S
<1> QED
  BY <1>1, <1>14

\* An extension lies at o, and ends at after.
ExtHere(hs, o, e, k, after) ==
  /\ hs \in Buffers /\ o \in Nat /\ e \in ExtTypes /\ k \in Nat /\ k = Len(Names(e.names))
  /\ 2 + k < Word /\ At(hs, o, ExtBytes(e)) /\ after = o + 6 + k /\ after \in Nat

\* One that is not server_name is passed over.
LEMMA ExtAt ==
  ASSUME NEW hs, NEW o, NEW e, NEW k, NEW after, ExtHere(hs, o, e, k, after),
         NEW end \in Nat, after <= end
  PROVE  /\ e.type # 0 => FindServerName(hs, o, end) = FindServerName(hs, after, end)
         /\ e.type = 0 => NameFrom(e.names, 1, FindServerName(hs, o, end))
<1> DEFINE t == U16(e.type)
           u == U16(2 + k)
           v == U16(k)
           w == Names(e.names)
<1>0. /\ hs \in Buffers /\ o \in Nat /\ e \in ExtTypes /\ k \in Nat /\ k = Len(Names(e.names))
      /\ 2 + k < Word /\ At(hs, o, ExtBytes(e)) /\ after = o + 6 + k /\ after \in Nat
  BY DEF ExtHere
<1>1. e.type \in Nat /\ e.type < Word /\ e.names \in Seq(NameTypes) /\ ExtBytes(e) = t \o (u \o (v \o w))
  BY <1>0, ExtBytesType
<1>2. Word \in Nat /\ k < Word
  BY <1>0 DEF Word
<1>3. Str(Byte, t, 2) /\ Str(Byte, u, 2) /\ Str(Byte, v, 2) /\ Str(Byte, w, k)
  <2>1. 2 + k \in Nat /\ k \in Nat
    BY <1>0
  <2>2. Str(Byte, t, 2) /\ Str(Byte, u, 2) /\ Str(Byte, v, 2)
    BY <1>0, <1>1, <1>2, <2>1, StrU16
  <2>3. Names(e.names) \in Seq(Byte)
    BY <1>0, <1>1, <1>2, NamesType
  <2> QED
    BY <1>0, <2>2, <2>3 DEF Str
<1> HIDE DEF t, u, v, w
<1>4. PICK two \in Nat : two = 2
  OBVIOUS
<1>5. Str(Byte, v \o w, two + k) /\ Str(Byte, u \o (v \o w), two + (two + k))
  BY <1>0, <1>3, <1>4, StrCat
<1>6. At(hs, o, t) /\ At(hs, o + two, u \o (v \o w)) /\ o + two \in Nat
  BY <1>0, <1>1, <1>3, <1>4, <1>5, AtStr
<1>7. At(hs, o + two, u) /\ At(hs, o + two + two, v \o w) /\ o + two + two \in Nat
  BY <1>0, <1>3, <1>4, <1>5, <1>6, AtStr
<1>8. At(hs, o + two + two, v) /\ At(hs, o + two + two + two, w)
  BY <1>0, <1>3, <1>4, <1>7, AtStr
<1>9. o + two = o + 2 /\ o + two + two = o + 4 /\ o + two + two + two = o + 6 /\ o + 6 \in Nat
  BY <1>0, <1>4
<1>10. Be16(hs, o) = e.type
  BY <1>0, <1>1, <1>6, AtU16 DEF t
<1>11. Be16(hs, o + 2) = 2 + k
  <2>1. 2 + k \in Nat
    BY <1>0
  <2> QED
    BY <1>0, <1>6, <1>7, <1>9, <2>1, AtU16 DEF u
<1>12. Be16(hs, o + 4) = k
  BY <1>0, <1>7, <1>8, <1>9, AtU16 DEF v
<1> DEFINE elen  == Be16(hs, o + 2)
           next  == o + 4 + elen
           named == o + 6 + Be16(hs, o + 4)
<1>13. FindServerName(hs, o, end) =
         IF o + 4 > end \/ next > end THEN NotFound
         ELSE IF Be16(hs, o) # 0 THEN FindServerName(hs, next, end)
         ELSE IF elen < 2 THEN NotFound
         ELSE FirstHostName(hs, o + 6, IF named < next THEN named ELSE next)
  BY <1>0, FindServerNameStep
<1>14. elen = 2 + k /\ next = after /\ named = after
  BY <1>0, <1>11, <1>12
<1> HIDE DEF elen, next, named
<1>15. /\ ~(o + 4 > end) /\ ~(next > end) /\ ~(elen < 2)
       /\ (IF named < next THEN named ELSE next) = after
  BY <1>0, <1>14
<1>16. e.type # 0 => FindServerName(hs, o, end) = FindServerName(hs, after, end)
  BY <1>0, <1>10, <1>13, <1>14, <1>15
<1>17. ASSUME e.type = 0 PROVE NameFrom(e.names, 1, FindServerName(hs, o, end))
  <2>1. FindServerName(hs, o, end) = FirstHostName(hs, o + 6, after)
    BY <1>0, <1>10, <1>13, <1>15, <1>17
  <2>2. PICK a \in Nat : a = o + 6
    BY <1>0, <1>9
  <2>3. At(hs, a, Names(e.names)) /\ Len(Names(e.names)) < Word
    BY <1>0, <1>2, <1>8, <1>9, <2>2 DEF w
  <2>4. NameFrom(e.names, 1, FirstHostName(hs, a, a + k))
    BY <1>0, <1>1, <2>3, NamesAt
  <2> QED
    BY <1>0, <2>1, <2>2, <2>4
<1> QED
  BY <1>0, <1>16, <1>17

\* r is what the first server_name of the extensions, from the i-th on, says.
NameIn(exts, i, r) ==
  \/ r = NotFound /\ \A j \in i..Len(exts) : exts[j].type # 0
  \/ \E j \in i..Len(exts) : /\ exts[j].type = 0 /\ NameFrom(exts[j].names, 1, r)
                             /\ \A l \in i..(j - 1) : exts[l].type # 0

\* The extensions: the name is that of the first server_name extension.
LEMMA ExtsAt ==
  ASSUME NEW hs \in Buffers, NEW o \in Nat, NEW exts \in Seq(ExtTypes),
         Len(Exts(exts)) < Word, At(hs, o, Exts(exts))
  PROVE  NameIn(exts, 1, FindServerName(hs, o, o + Len(Exts(exts))))
<1>1. PICK n \in Nat, k \in Nat : n = Len(exts) /\ k = Len(Exts(exts))
  BY ExtsType
<1>2. PICK ss \in Seq(Seq(Byte)) : ss = ExtList(exts)
  BY ExtsType
<1>3. PICK s \in Seq(Byte) : s = Exts(exts) /\ s = FlattenSeq(ss)
  BY <1>2, ExtsType DEF Exts
<1>4. PICK at : Parts(ss, s, at)
  BY <1>3, FlattenParts
<1>5. /\ Len(ss) = n
      /\ \A i \in 1..n : /\ exts[i] \in ExtTypes /\ ss[i] = ExtBytes(exts[i])
                         /\ 2 + Len(Names(exts[i].names)) < Word
  BY <1>1, <1>2, ExtsType
<1>6. at[1] = 0 /\ at[n + 1] = k
  BY <1>1, <1>3, <1>4, <1>5 DEF Parts
<1>7. \A i \in 1..n : o + at[i] \in Nat /\ At(hs, o + at[i], ss[i])
  BY <1>3, <1>4, <1>5, AtParts
<1>8. \A i \in 1..n : /\ at[i] \in Nat /\ at[i + 1] \in Nat
                       /\ at[i + 1] = at[i] + Len(ss[i]) /\ at[i + 1] <= k
  BY <1>1, <1>3, <1>4, <1>5, PartsInside
<1> DEFINE end == o + k
           R(i) == FindServerName(hs, o + at[i], end)
           S == {i \in 1..(n + 1) : NameIn(exts, i, R(i))}
<1>9. end \in Nat
  OBVIOUS
<1>10. R(n + 1) = NotFound
  <2>1. FindServerName(hs, end, end) = NotFound
    <3>1. end + 4 > end
      BY <1>9
    <3> HIDE DEF end
    <3> QED
      BY <1>9, <3>1, FindServerNameStep
  <2> QED
    BY <1>6, <2>1
<1>11. n + 1 \in S
  <2>1. \A j \in (n + 1)..Len(exts) : FALSE
    BY <1>1
  <2> HIDE DEF R
  <2> QED
    BY <1>10, <2>1 DEF NameIn
<1>12. ASSUME NEW i \in 1..n, i + 1 \in S PROVE i \in S
  <2>1. PICK e \in ExtTypes : e = exts[i] /\ ss[i] = ExtBytes(e) /\ 2 + Len(Names(e.names)) < Word
    BY <1>5
  <2>2. PICK l \in Nat : l = Len(Names(e.names)) /\ 2 + l < Word /\ Len(ss[i]) = 6 + l
    BY <2>1, ExtBytesType DEF Str
  <2>3. PICK a \in Nat : a = o + at[i] /\ At(hs, a, ExtBytes(e))
    BY <1>7, <2>1
  <2>4. o + at[i + 1] = a + 6 + l /\ a + 6 + l <= end
    <3>1. PICK x \in Nat, y \in Nat : x = at[i] /\ y = at[i + 1] /\ y = x + (6 + l) /\ y <= k
      BY <1>8, <2>2
    <3>2. a = o + x
      BY <2>3, <3>1
    <3>3. y = x + (6 + l) /\ y <= k
      BY <3>1
    <3>4. o + y = a + 6 + l /\ a + 6 + l <= o + k
      BY <3>2, <3>3
    <3> QED
      BY <3>1, <3>4
  <2>5. /\ e.type # 0 => R(i) = R(i + 1)
        /\ e.type = 0 => NameFrom(e.names, 1, R(i))
    <3> HIDE DEF end
    <3>1. PICK b \in Nat : b = a + 6 + l /\ b <= end
      BY <2>4
    <3>2. /\ e.type # 0 => FindServerName(hs, a, end) = FindServerName(hs, b, end)
          /\ e.type = 0 => NameFrom(e.names, 1, FindServerName(hs, a, end))
      <4>1. ExtHere(hs, a, e, l, b)
        BY <2>2, <2>3, <3>1 DEF ExtHere
      <4> QED
        BY <1>9, <3>1, <4>1, ExtAt
    <3> QED
      BY <2>3, <2>4, <3>1, <3>2
  <2>6. NameIn(exts, i + 1, R(i + 1))
    BY <1>12
  <2> HIDE DEF R
  <2>7. NameIn(exts, i, R(i))
    <3>1. CASE e.type = 0
      <4>1. i \in i..Len(exts) /\ \A q \in i..(i - 1) : exts[q].type # 0
        BY <1>1
      <4> QED
        BY <2>1, <2>5, <3>1, <4>1 DEF NameIn
    <3>2. CASE e.type # 0
      <4>1. R(i) = R(i + 1) /\ exts[i].type # 0
        BY <2>1, <2>5, <3>2
      <4>2. \A q \in Nat : \A z \in i..q : z = i \/ z \in (i + 1)..q
        OBVIOUS
      <4>3. CASE R(i + 1) = NotFound /\ \A j \in (i + 1)..Len(exts) : exts[j].type # 0
        BY <1>1, <4>1, <4>2, <4>3 DEF NameIn
      <4>4. CASE \E j \in (i + 1)..Len(exts) :
                   /\ exts[j].type = 0 /\ NameFrom(exts[j].names, 1, R(i + 1))
                   /\ \A q \in (i + 1)..(j - 1) : exts[q].type # 0
        <5>1. PICK j \in (i + 1)..n : /\ exts[j].type = 0 /\ NameFrom(exts[j].names, 1, R(i + 1))
                                      /\ \A q \in (i + 1)..(j - 1) : exts[q].type # 0
          BY <1>1, <4>4
        <5>2. j \in i..Len(exts) /\ j - 1 \in Nat
          BY <1>1
        <5>3. \A q \in i..(j - 1) : exts[q].type # 0
          BY <4>1, <4>2, <5>1, <5>2
        <5> QED
          BY <4>1, <5>1, <5>2, <5>3 DEF NameIn
      <4> QED
        BY <2>6, <4>3, <4>4 DEF NameIn
    <3> QED
      BY <3>1, <3>2
  <2> QED
    BY <2>7
<1> HIDE DEF S
<1>13. \A i \in 1..(n + 1) : i \in S
  BY <1>11, <1>12, Backwards
<1>14. NameIn(exts, 1, R(1)) /\ o + at[1] = o
  <2>1. 1 \in 1..(n + 1)
    OBVIOUS
  <2> HIDE DEF R
  <2> QED
    BY <1>6, <1>13, <2>1 DEF S
<1> QED
  BY <1>1, <1>14

\* The first of a list is one, or there is none.
LEMMA FirstIs ==
  ASSUME NEW T, NEW s \in Seq(T)
  PROVE  /\ (\A j \in 1..Len(s) : s[j].type # 0) => FirstOf(s) = {}
         /\ \A j \in 1..Len(s) :
              s[j].type = 0 /\ (\A l \in 1..(j - 1) : s[l].type # 0) => FirstOf(s) = {s[j]}
<1>1. DOMAIN s = 1..Len(s) /\ Len(s) \in Nat
  BY LenProperties
<1> DEFINE K == {k \in 1..Len(s) : s[k].type = 0 /\ \A j \in 1..(k - 1) : s[j].type # 0}
<1>2. FirstOf(s) = {s[i] : i \in K}
  BY <1>1, Zenon DEF FirstOf
<1>3. (\A j \in 1..Len(s) : s[j].type # 0) => K = {}
  OBVIOUS
<1>4. ASSUME NEW j \in 1..Len(s), s[j].type = 0, \A l \in 1..(j - 1) : s[l].type # 0 PROVE K = {j}
  <2>1. ASSUME NEW k \in K PROVE k = j
    <3>1. /\ k \in Nat /\ j \in Nat /\ k \in 1..Len(s) /\ s[k].type = 0
          /\ \A l \in 1..(k - 1) : s[l].type # 0
      BY <1>1
    <3>2. k < j => k \in 1..(j - 1)
      BY <1>1, <3>1
    <3>3. j < k => j \in 1..(k - 1)
      BY <1>1, <3>1
    <3> QED
      BY <1>4, <3>1, <3>2, <3>3
  <2> QED
    BY <1>4, <2>1
<1> HIDE DEF K
<1>5. K = {} => {s[i] : i \in K} = {}
  OBVIOUS
<1>6. \A j : K = {j} => {s[i] : i \in K} = {s[j]}
  OBVIOUS
<1> QED
  BY <1>2, <1>3, <1>4, <1>5, <1>6

\* What the extensions say is what a server takes from the hello.
Says(h, r) == \/ r = NotFound /\ ServerName(h) = {}
              \/ \E b \in Seq(Byte) : r = Found(b) /\ ServerName(h) = {b}

\* That is the name a server takes from the hello.
LEMMA NameInSays ==
  ASSUME NEW h, h.type = 1, h.exts \in Seq(ExtTypes), NEW r, NameIn(h.exts, 1, r) PROVE Says(h, r)
<1> DEFINE N == UNION {FirstOf(e.names) : e \in FirstOf(h.exts)}
<1>1. ServerName(h) = {n.name : n \in N}
  BY Zenon DEF ServerName
<1>2. CASE r = NotFound /\ \A j \in 1..Len(h.exts) : h.exts[j].type # 0
  <2>1. FirstOf(h.exts) = {}
    BY <1>2, FirstIs
  <2> QED
    BY <1>1, <1>2, <2>1 DEF Says
<1>3. CASE \E j \in 1..Len(h.exts) : /\ h.exts[j].type = 0 /\ NameFrom(h.exts[j].names, 1, r)
                                     /\ \A l \in 1..(j - 1) : h.exts[l].type # 0
  <2>1. PICK j \in 1..Len(h.exts) : /\ h.exts[j].type = 0 /\ NameFrom(h.exts[j].names, 1, r)
                                    /\ \A l \in 1..(j - 1) : h.exts[l].type # 0
    BY <1>3
  <2>2. FirstOf(h.exts) = {h.exts[j]}
    BY <2>1, FirstIs
  <2>3. PICK s \in Seq(NameTypes) : s = h.exts[j].names
    BY ExtsType DEF ExtTypes
  <2>4. N = FirstOf(s)
    BY <2>2, <2>3
  <2> HIDE DEF N
  <2>5. NameFrom(s, 1, r)
    BY <2>1, <2>3
  <2>6. CASE r = NotFound /\ \A i \in 1..Len(s) : s[i].type # 0
    <3>1. FirstOf(s) = {}
      BY <2>6, FirstIs
    <3> QED
      BY <1>1, <2>4, <2>6, <3>1 DEF Says
  <2>7. CASE \E i \in 1..Len(s) : /\ s[i].type = 0 /\ r = Found(s[i].name)
                                  /\ \A l \in 1..(i - 1) : s[l].type # 0
    <3>1. PICK i \in 1..Len(s) : /\ s[i].type = 0 /\ r = Found(s[i].name)
                                 /\ \A l \in 1..(i - 1) : s[l].type # 0
      BY <2>7
    <3>2. FirstOf(s) = {s[i]}
      BY <3>1, FirstIs
    <3>3. s[i].name \in Seq(Byte)
      BY NamesType DEF NameTypes
    <3>4. ServerName(h) = {s[i].name}
      BY <1>1, <2>4, <3>2
    <3> QED
      BY <3>1, <3>3, <3>4 DEF Says
  <2> QED
    BY <2>5, <2>6, <2>7 DEF NameFrom
<1> QED
  BY <1>2, <1>3 DEF NameIn

\* The places of a message's parts.
SidAt == 4 + 2 + RandomLen
SuitesAt(h) == SidAt + 1 + Len(h.sid)
ExtsStart(h) == SuitesAt(h) + 4 + 2

\* What is read of a message header.
LEMMA MessageAt ==
  ASSUME NEW h, HelloFits(h), NEW q \in Buffers, NEW o \in Nat, At(q, o, Message(h))
  PROVE  /\ Rd(q, o) = h.type /\ Rd(q, o + 1) = 0 /\ Be16(q, o + 2) = BodyLen(h)
         /\ At(q, o + 4, Body(h))
<1> DEFINE a == <<h.type>>
           b == <<0>>
           n == BodyLen(h)
           d == U16(BodyLen(h))
           w == Body(h)
<1>1. /\ Str(Byte, w, n) /\ n \in Nat /\ n < Word /\ Message(h) = a \o (b \o d) \o w
  BY MessageType
<1>2. h.type \in Byte /\ 0 \in Byte
  BY DEF HelloFits, Byte
<1>3. Str(Byte, a, 1) /\ Str(Byte, b, 1) /\ Str(Byte, d, 2)
  BY <1>1, <1>2, StrOne, StrU16
<1> HIDE DEF a, b, d, w, n
<1>4. PICK one \in Nat, two \in Nat : one = 1 /\ two = 2
  OBVIOUS
<1>5. Str(Byte, b \o d, one + two)
  BY <1>3, <1>4, StrCat
<1>6. At(q, o, a) /\ At(q, o + one, b \o d) /\ At(q, o + one + (one + two), w)
  <2>1. PICK v, m : v = b \o d /\ m = one + two
    OBVIOUS
  <2>2. Str(Byte, a, one) /\ Str(Byte, v, m) /\ Str(Byte, w, n) /\ At(q, o, a \o v \o w)
    BY <1>1, <1>3, <1>4, <1>5, <2>1
  <2>3. At(q, o, a) /\ At(q, o + one, v) /\ At(q, o + one + m, w)
    BY <2>2, AtStr3
  <2> QED
    BY <2>1, <2>3
<1>7. o + one \in Nat /\ o + one + one \in Nat
  BY <1>4
<1>8. At(q, o + one, b) /\ At(q, o + one + one, d)
  BY <1>3, <1>4, <1>6, <1>7, AtStr
<1>9. o + one = o + 1 /\ o + one + one = o + 2 /\ o + one + (one + two) = o + 4
  BY <1>4
<1>10. Rd(q, o) = h.type /\ Rd(q, o + 1) = 0
  BY <1>6, <1>7, <1>8, <1>9, AtOne DEF a, b
<1>11. Be16(q, o + 2) = n
  BY <1>1, <1>7, <1>8, <1>9, AtU16 DEF d, n
<1> QED
  BY <1>6, <1>9, <1>10, <1>11 DEF w, n

\* What is read of the body up to the extensions.
LEMMA BodyParts ==
  ASSUME NEW h, HelloFits(h), NEW q \in Buffers, At(q, 4, Body(h))
  PROVE  /\ Rd(q, SidAt) = Len(h.sid) /\ Be16(q, SuitesAt(h)) = 2
         /\ Rd(q, SuitesAt(h) + 4) = 1 /\ At(q, ExtsStart(h), ExtPart(h))
<1>1. PICK T : T = Byte
  OBVIOUS
<1>2. PICK x \in Nat, s \in Nat : x = Len(ExtPart(h)) /\ s = Len(h.sid) /\ s <= 255
  <2>1. h.sid \in Seq(Byte) /\ Len(h.sid) <= 255 /\ Str(Byte, ExtPart(h), Len(ExtPart(h)))
    BY MessageType DEF HelloFits
  <2> QED
    BY <2>1, LenProperties DEF Str
<1> DEFINE a == <<3, 3>>
           b == Zeros(RandomLen)
           d == <<Len(h.sid)>>
           e == h.sid
           u == Opening(h)
           v == Suites
           w == <<1, 0>>
           y == ExtPart(h)
           n == 2 + RandomLen + 1 + s
<1>3. /\ Str(Byte, a, 2) /\ Str(Byte, b, RandomLen) /\ Str(Byte, d, 1) /\ Str(Byte, e, s)
      /\ Str(Byte, u, n) /\ Str(Byte, v, 4) /\ Str(Byte, w, 2) /\ Str(Byte, y, x)
  <2>1. Byte \subseteq T /\ h.sid \in Seq(Byte) /\ Len(h.sid) <= 255 /\ Str(T, ExtPart(h), x)
    BY <1>1, <1>2, MessageType DEF HelloFits
  <2>2. /\ Str(T, <<3, 3>>, 2) /\ Str(T, Zeros(RandomLen), RandomLen)
        /\ Str(T, <<Len(h.sid)>>, 1) /\ Str(T, h.sid, Len(h.sid))
        /\ Str(T, Opening(h), 2 + RandomLen + 1 + Len(h.sid))
        /\ Str(T, Suites, 4) /\ Str(T, <<1, 0>>, 2)
    BY <2>1, BodyType
  <2> QED
    BY <1>1, <1>2, <2>1, <2>2
<1>4. Body(h) = u \o v \o w \o y /\ u = a \o b \o d \o e
  BY Zenon DEF Body, Opening
<1> HIDE DEF a, b, d, e, u, v, w, y
<1>5. RandomLen \in Nat /\ n \in Nat
  BY HelloLimitsAssumption
<1>6. PICK four \in Nat, two \in Nat, one \in Nat : four = 4 /\ two = 2 /\ one = 1
  OBVIOUS
<1> HIDE DEF n
<1>7. /\ At(q, four, u) /\ At(q, four + n, v) /\ At(q, four + n + four, w)
      /\ At(q, four + n + four + two, y)
  BY <1>3, <1>4, <1>6, AtStr4
<1>8. At(q, four + two + RandomLen, d)
  <2>1. /\ Str(Byte, a, two) /\ Str(Byte, b, RandomLen) /\ Str(Byte, d, one) /\ Str(Byte, e, s)
        /\ At(q, four, a \o b \o d \o e)
    BY <1>3, <1>4, <1>6, <1>7
  <2> QED
    BY <2>1, AtStr4
<1>9. /\ four + two + RandomLen = SidAt /\ four + n = SuitesAt(h) /\ four + n + four = SuitesAt(h) + 4
      /\ four + n + four + two = ExtsStart(h)
      /\ SidAt \in Nat /\ SuitesAt(h) \in Nat /\ SuitesAt(h) + 4 \in Nat
  <2>1. SidAt = 4 + 2 + RandomLen /\ SidAt \in Nat
    BY <1>5 DEF SidAt
  <2>2. SuitesAt(h) = SidAt + 1 + s
    BY <1>2 DEF SuitesAt
  <2>3. ExtsStart(h) = SuitesAt(h) + 4 + 2
    BY DEF ExtsStart
  <2>4. n = 2 + RandomLen + 1 + s
    BY DEF n
  <2> QED
    BY <1>5, <1>6, <2>1, <2>2, <2>3, <2>4
<1>10. Rd(q, SidAt) = Len(h.sid)
  BY <1>8, <1>9, AtOne DEF d
<1>11. Be16(q, SuitesAt(h)) = 2
  <2>1. At(q, SuitesAt(h), U16(2) \o <<19, 1>>) /\ Str(Byte, <<19, 1>>, 2)
    BY <1>7, <1>9, SuitesType DEF v
  <2>2. Str(Byte, U16(two), 2) /\ two < Word
    BY <1>6, StrU16 DEF Word
  <2> DEFINE f == U16(two)
             g == <<19, 1>>
  <2>3. At(q, SuitesAt(h), f \o g) /\ Str(Byte, f, 2) /\ Str(Byte, g, 2)
    BY <1>6, <2>1, <2>2
  <2> HIDE DEF f, g
  <2>4. At(q, SuitesAt(h), f)
    BY <1>6, <1>9, <2>3, AtStr
  <2> QED
    BY <1>6, <1>9, <2>4, AtU16 DEF f
<1>12. Rd(q, SuitesAt(h) + 4) = 1
  <2>1. ASSUME NEW i \in Nat, At(q, i, <<1, 0>>) PROVE Rd(q, i) = 1
    BY <2>1, AtTwo
  <2> QED
    BY <1>7, <1>9, <2>1 DEF w
<1> QED
  BY <1>7, <1>9, <1>10, <1>11, <1>12 DEF y

\* parseClientHello() on a whole message finds the name a server would take from it.
THEOREM ParseFindsServerName ==
  ASSUME NEW h, HelloFits(h), h.type = 1, NEW j \in Byte
  PROVE  Says(h, ParseClientHello(Buffer(Message(h), j)))
<1> DEFINE q == Buffer(Message(h), j)
           r == ParseClientHello(q)
<1>1. /\ Str(Byte, Message(h), 4 + BodyLen(h)) /\ Len(Message(h)) = 4 + BodyLen(h)
      /\ Str(Byte, ExtPart(h), Len(ExtPart(h))) /\ BodyLen(h) \in Nat
  BY MessageType
<1>2. Message(h) \in Seq(Byte) /\ ExtPart(h) \in Seq(Byte)
  BY <1>1 DEF Str
<1>3. q \in Buffers /\ Size(q) = 4 + BodyLen(h) /\ At(q, 0, Message(h))
  <2>1. PICK s : s = Message(h)
    OBVIOUS
  <2>2. Buffer(s, j) \in Buffers /\ Size(Buffer(s, j)) = Len(s) /\ At(Buffer(s, j), 0, s)
    BY <1>2, <2>1, BufferFields, AtStart
  <2> QED
    BY <1>1, <2>1, <2>2
<1> HIDE DEF q
<1>4. Rd(q, 0) = 1 /\ At(q, 4, Body(h))
  <2>1. PICK o \in Nat : o = 0 /\ o + 4 = 4
    OBVIOUS
  <2> QED
    BY <1>3, <2>1, MessageAt
<1>5. PICK x \in Nat, s \in Nat : x = Len(ExtPart(h)) /\ s = Len(h.sid)
  <2>1. h.sid \in Seq(Byte)
    BY DEF HelloFits
  <2> QED
    BY <1>1, <2>1, LenProperties DEF Str
<1>6. RandomLen \in Nat
  BY HelloLimitsAssumption
<1>7. PICK sid \in Nat : sid = SidAt /\ sid = 4 + 2 + RandomLen /\ sid = MsgHeader + 2 + RandomLen
  BY <1>6 DEF SidAt, MsgHeader
<1>8. PICK suits \in Nat : suits = SuitesAt(h) /\ suits = sid + 1 + s
  <2>1. SuitesAt(h) = sid + 1 + s
    BY <1>5, <1>7 DEF SuitesAt
  <2> QED
    BY <2>1
<1>9. Size(q) = suits + 4 + 2 + x /\ Size(q) \in Nat
  <2>1. BodyLen(h) = 2 + RandomLen + 1 + s + 4 + 2 + x
    BY <1>5 DEF BodyLen
  <2>2. Size(q) = 4 + (2 + RandomLen + 1 + s + 4 + 2 + x)
    BY <1>3, <2>1
  <2>3. sid = 4 + 2 + RandomLen /\ suits = sid + 1 + s
    BY <1>7, <1>8
  <2> QED
    BY <1>6, <2>2, <2>3
<1>10. Rd(q, sid) = s /\ Be16(q, suits) = 2 /\ Rd(q, suits + 4) = 1 /\ At(q, suits + 4 + 2, ExtPart(h))
  <2>1. ExtsStart(h) = suits + 4 + 2
    BY <1>8 DEF ExtsStart
  <2> QED
    BY <1>3, <1>4, <1>5, <1>7, <1>8, <2>1, BodyParts
<1>11. r = LET SUITS == sid + 1 + Rd(q, sid)
               COMP  == SUITS + 2 + Be16(q, SUITS)
               EXTS  == COMP + 1 + Rd(q, COMP)
           IN IF Size(q) < MsgHeader \/ Rd(q, 0) # 1 \/ sid + 1 > Size(q) \/ SUITS + 2 > Size(q)
                 \/ COMP + 1 > Size(q) \/ EXTS + 2 > Size(q)
              THEN NotFound
              ELSE FindServerName(q, EXTS + 2, ExtensionsEnd(q, EXTS))
  BY <1>7, Zenon DEF ParseClientHello
<1>12. PICK comp \in Nat, exts \in Nat : comp = suits + 4 /\ exts = suits + 4 + 2
  OBVIOUS
<1>13. /\ sid + 1 + Rd(q, sid) = suits /\ suits + 2 + Be16(q, suits) = comp
       /\ comp + 1 + Rd(q, comp) = exts
  <2>1. Rd(q, sid) = s /\ Be16(q, suits) = 2 /\ Rd(q, comp) = 1
    BY <1>10, <1>12
  <2>2. sid + 1 + s = suits /\ suits + 2 + 2 = comp /\ comp + 1 + 1 = exts
    BY <1>12, <1>8
  <2> QED
    BY <2>1, <2>2
<1>14. r = IF Size(q) < MsgHeader \/ Rd(q, 0) # 1 \/ sid + 1 > Size(q) \/ suits + 2 > Size(q)
              \/ comp + 1 > Size(q) \/ exts + 2 > Size(q)
           THEN NotFound
           ELSE FindServerName(q, exts + 2, ExtensionsEnd(q, exts))
  BY <1>11, <1>13, Zenon
<1> HIDE DEF r
<1>15. Size(q) = exts + x
  BY <1>9, <1>12
<1>16. /\ ~(Size(q) < MsgHeader) /\ ~(Rd(q, 0) # 1) /\ ~(sid + 1 > Size(q)) /\ ~(suits + 2 > Size(q))
       /\ ~(comp + 1 > Size(q))
  <2>1. sid = 4 + 2 + RandomLen /\ suits = sid + 1 + s /\ Size(q) = suits + 4 + 2 + x
    BY <1>7, <1>9, <1>8
  <2> QED
    BY <1>4, <1>6, <1>12, <2>1 DEF MsgHeader
<1>17. h.exts \in Seq(ExtTypes)
  BY DEF HelloFits
<1>18. CASE h.exts = <<>>
  <2>1. x = 0 /\ Len(h.exts) = 0
    BY <1>5, <1>18, EmptySeq DEF ExtPart
  <2>2. r = NotFound
    BY <1>14, <1>15, <2>1
  <2>3. NameIn(h.exts, 1, r)
    BY <2>1, <2>2 DEF NameIn
  <2> QED
    BY <1>17, <2>3, NameInSays DEF r, q
<1>19. CASE h.exts # <<>>
  <2>1. PICK k \in Nat : k = Len(Exts(h.exts)) /\ x = 2 + k
    BY <1>5, <1>17, <1>19, ExtPartType
  <2>2. ExtPart(h) = U16(k) \o Exts(h.exts)
    BY <1>19, <2>1, Zenon DEF ExtPart, Sized
  <2>3. k < Word
    <3>1. BodyLen(h) < Word
      BY MessageType
    <3>2. Word \in Nat
      BY DEF Word
    <3>3. 4 + BodyLen(h) = exts + (2 + k)
      BY <1>3, <1>15, <2>1
    <3>4. exts = suits + 4 + 2 /\ suits = sid + 1 + s /\ sid = 4 + 2 + RandomLen
      BY <1>7, <1>12, <1>8
    <3>5. exts >= 4
      BY <1>6, <3>4
    <3> QED
      BY <1>1, <3>1, <3>2, <3>3, <3>5
  <2>4. Str(Byte, U16(k), 2) /\ Str(Byte, Exts(h.exts), k)
    BY <1>17, <2>1, <2>3, StrU16, ExtsType DEF Str
  <2>5. At(q, exts, U16(k)) /\ At(q, exts + 2, Exts(h.exts))
    <3>1. PICK two \in Nat : two = 2
      OBVIOUS
    <3>2. At(q, exts, U16(k) \o Exts(h.exts))
      BY <1>10, <1>12, <2>2
    <3>3. At(q, exts, U16(k)) /\ At(q, exts + two, Exts(h.exts))
      BY <1>3, <2>4, <3>1, <3>2, AtStr
    <3> QED
      BY <3>1, <3>3
  <2>6. Be16(q, exts) = k
    BY <1>3, <2>5, AtU16
  <2>7. exts + 2 + k = Size(q)
    BY <1>15, <2>1
  <2>8. ExtensionsEnd(q, exts) = exts + 2 + k
    BY <1>9, <2>6, <2>7 DEF ExtensionsEnd
  <2>9. r = FindServerName(q, exts + 2, exts + 2 + k)
    <3>1. ~(exts + 2 > Size(q))
      BY <2>7
    <3> QED
      BY <1>14, <1>16, <2>8, <3>1
  <2>10. PICK o \in Nat : o = exts + 2
    OBVIOUS
  <2>11. NameIn(h.exts, 1, FindServerName(q, o, o + Len(Exts(h.exts))))
    BY <1>3, <1>17, <2>1, <2>3, <2>5, <2>10, ExtsAt
  <2>12. NameIn(h.exts, 1, r)
    BY <2>1, <2>9, <2>10, <2>11
  <2> QED
    BY <1>17, <2>12, NameInSays DEF r, q
<1> QED
  BY <1>18, <1>19

-----------------------------------------------------------------------------
\* The records of a stream that was not damaged, and what collectHandshake() makes of
\* them: the i-th is at Pos(c, i), the next one after After(c, i) bytes.
Pos(c, i) == Start(c, i) + 5 * (i - 1)
After(c, i) == c.ends[i] + 5 * i

\* A record is where the one before it ends.
LEMMA PosType ==
  ASSUME NEW c, Case(c), NEW i \in 1..Len(c.ends)
  PROVE  /\ Pos(c, i) \in Nat /\ After(c, i) \in Nat
         /\ After(c, i) = Pos(c, i) + (5 + ChunkLen(c, i))
         /\ i = 1 => Pos(c, i) = 0
         /\ i + 1 \in 1..Len(c.ends) => Pos(c, i + 1) = After(c, i)
<1>1. PICK l \in Nat : l = Len(c.ends)
  BY EndsType
<1>2. PICK s, t \in Nat : s = Start(c, i) /\ t = c.ends[i]
  BY EndsType
<1>3. i \in 1..l
  BY <1>1
<1>4. Pos(c, i) = s + 5 * (i - 1) /\ After(c, i) = t + 5 * i /\ ChunkLen(c, i) = t - s
  BY <1>2 DEF Pos, After, ChunkLen
<1>5. i = 1 => s = 0
  BY <1>2 DEF Start
<1>6. ASSUME i + 1 \in 1..Len(c.ends) PROVE Pos(c, i + 1) = t + 5 * i
  <2>1. Start(c, i + 1) = t
    BY <1>2, <1>6, EndsType
  <2>2. (i + 1) - 1 = i
    BY <1>3
  <2> QED
    BY <2>1, <2>2 DEF Pos
<1>7. /\ s + 5 * (i - 1) \in Nat /\ t + 5 * i \in Nat
      /\ t + 5 * i = s + 5 * (i - 1) + (5 + (t - s))
      /\ i = 1 => s + 5 * (i - 1) = 0
  BY <1>3, <1>5
<1> QED
  BY <1>4, <1>6, <1>7

\* By induction over the records, from the first one on.
LEMMA Laid ==
  ASSUME NEW c, Case(c), NEW at, Parts(RecordList(c), Records(c), at)
  PROVE  (\A i \in 1..Len(c.ends) : at[i] = Pos(c, i)) /\ Len(Records(c)) = After(c, Len(c.ends))
<1>1. PICK l \in Nat : l = Len(c.ends) /\ l # 0
  BY EndsType
<1>2. /\ at[1] = 0 /\ at[l + 1] = Len(Records(c))
      /\ \A i \in 1..l : at[i + 1] = at[i] + Len(Record(c, i))
  <2>1. PICK ss : ss = RecordList(c) /\ Len(ss) = l /\ \A i \in 1..l : ss[i] = Record(c, i)
    BY <1>1, RecordsType
  <2>2. /\ at[1] = 0 /\ at[l + 1] = Len(Records(c))
        /\ \A i \in 1..l : at[i + 1] = at[i] + Len(ss[i])
    BY <2>1 DEF Parts
  <2> QED
    BY <2>1, <2>2
<1>3. ASSUME NEW i \in 1..l, at[i] = Pos(c, i) PROVE at[i + 1] = After(c, i)
  <2>1. Len(Record(c, i)) = 5 + ChunkLen(c, i)
    BY <1>1, RecordParts DEF Str
  <2> QED
    BY <1>1, <1>2, <1>3, <2>1, PosType
<1> DEFINE S == {k \in Nat : k + 1 \in 1..l => at[k + 1] = Pos(c, k + 1)}
<1>4. 0 \in S
  <2>1. 0 + 1 = 1 /\ 1 \in 1..l
    BY <1>1
  <2>2. Pos(c, 1) = 0
    BY <1>1, <2>1, PosType
  <2> QED
    BY <1>2, <2>1, <2>2
<1>5. ASSUME NEW k \in Nat, k \in S PROVE k + 1 \in S
  <2>1. SUFFICES ASSUME (k + 1) + 1 \in 1..l PROVE at[(k + 1) + 1] = Pos(c, (k + 1) + 1)
    OBVIOUS
  <2>2. PICK i \in 1..l : i = k + 1
    BY <2>1
  <2>3. at[i] = Pos(c, i)
    BY <1>5, <2>2
  <2>4. at[i + 1] = After(c, i)
    BY <1>3, <2>3
  <2> QED
    BY <1>1, <2>1, <2>2, <2>4, PosType
<1> HIDE DEF S
<1>6. \A k \in Nat : k \in S
  BY <1>4, <1>5, NatSet
<1>7. ASSUME NEW i \in 1..l PROVE at[i] = Pos(c, i)
  <2>1. PICK k \in Nat : k + 1 = i
    <3>1. i - 1 \in Nat /\ (i - 1) + 1 = i
      OBVIOUS
    <3> QED
      BY <3>1
  <2> QED
    BY <1>6, <2>1 DEF S
<1>8. at[l + 1] = After(c, l)
  <2>1. l \in 1..l
    BY <1>1
  <2> QED
    BY <1>3, <1>7, <2>1
<1> QED
  BY <1>1, <1>2, <1>7, <1>8

\* A buffer that has the records has each of them in its place.
LEMMA RecordAt ==
  ASSUME NEW c, Case(c), NEW q \in Buffers, At(q, 0, Records(c)), NEW i \in 1..Len(c.ends)
  PROVE  /\ Rd(q, Pos(c, i)) = Handshake /\ Rd(q, Pos(c, i) + 1) = 3
         /\ Be16(q, Pos(c, i) + 3) = ChunkLen(c, i) /\ At(q, Pos(c, i) + 5, Chunk(c, i))
         /\ After(c, i) <= Size(q)
<1>1. PICK ss \in Seq(Seq(Byte)) : ss = RecordList(c) /\ Len(ss) = Len(c.ends) /\ ss[i] = Record(c, i)
  BY RecordsType
<1>2. PICK s \in Seq(Byte) : s = Records(c) /\ s = FlattenSeq(ss)
  BY <1>1, RecordsType
<1>3. PICK at : Parts(ss, s, at)
  BY <1>2, FlattenParts
<1>4. At(q, 0 + at[i], Record(c, i))
  <2>1. At(q, 0, s) /\ 0 \in Nat
    BY <1>2
  <2> QED
    BY <1>1, <1>3, <2>1, AtParts
<1>5. PICK o \in Nat : o = Pos(c, i)
  BY PosType
<1>6. At(q, o, Record(c, i))
  <2>1. at[i] = o
    BY <1>1, <1>2, <1>3, <1>5, Laid
  <2>2. 0 + o = o
    OBVIOUS
  <2> QED
    BY <1>4, <2>1, <2>2
<1>7. PICK n \in Nat : n = ChunkLen(c, i) /\ Str(Byte, Chunk(c, i), n) /\ n < Word
  BY ChunkType
<1>8. PICK a, b, w : a = <<Handshake, 3, 1>> /\ b = U16(n) /\ w = Chunk(c, i)
  OBVIOUS
<1>9. /\ Record(c, i) = a \o (b \o w) /\ Str(Byte, a, 3) /\ Str(Byte, b, 2) /\ Str(Byte, w, n)
      /\ Str(Byte, Record(c, i), 5 + n)
  BY <1>7, <1>8, RecordParts
<1>10. PICK two, three \in Nat : two = 2 /\ three = 3
  OBVIOUS
<1>11. Str(Byte, a, three) /\ Str(Byte, b, two) /\ Str(Byte, b \o w, two + n)
  BY <1>9, <1>10, StrCat
<1>12. At(q, o, a) /\ At(q, o + three, b) /\ At(q, o + three + two, w)
  <2>1. PICK v, m : v = b \o w /\ m = two + n
    OBVIOUS
  <2>2. At(q, o, a \o v) /\ Str(Byte, v, m)
    BY <1>6, <1>9, <1>11, <2>1
  <2>3. At(q, o, a) /\ At(q, o + three, v)
    BY <1>11, <2>2, AtStr
  <2>4. o + three \in Nat
    BY <1>10
  <2>5. At(q, o + three, b) /\ At(q, o + three + two, w)
    BY <1>9, <1>11, <2>1, <2>3, <2>4, AtStr
  <2> QED
    BY <2>3, <2>5
<1>13. o + three = o + 3 /\ o + three + two = o + 5 /\ o + 3 \in Nat
  BY <1>10
<1>14. Rd(q, o) = Handshake /\ Rd(q, o + 1) = 3
  <2>1. \A k \in 1..3 : Rd(q, o + k - 1) = a[k]
    <3>1. Len(a) = 3
      BY <1>9 DEF Str
    <3> QED
      BY <1>12, <3>1 DEF At
  <2>2. o + 1 - 1 = o /\ o + 2 - 1 = o + 1 /\ 1 \in 1..3 /\ 2 \in 1..3
    OBVIOUS
  <2>3. a[1] = Handshake /\ a[2] = 3
    BY <1>8
  <2> QED
    BY <2>1, <2>2, <2>3
<1>15. Be16(q, o + 3) = n
  BY <1>8, <1>12, <1>13, AtU16
<1>16. o + (5 + n) <= Size(q)
  BY <1>6, <1>9 DEF At, Str
<1>17. After(c, i) = o + (5 + n)
  BY <1>5, <1>7, PosType
<1> QED
  BY <1>5, <1>7, <1>8, <1>12, <1>13, <1>14, <1>15, <1>16, <1>17

\* A record is taken when all of it is there, and waited for until then.
LEMMA TakeRecordAt ==
  ASSUME NEW c, Case(c), NEW q, At(q, 0, Records(c)), NEW p, Extends(p, q),
         NEW i \in 1..Len(c.ends)
  PROVE  TakeRecord(p, Pos(c, i)) = IF After(c, i) <= Size(p) THEN Found(Chunk(c, i)) ELSE NeedMore
<1>1. p \in Buffers /\ q \in Buffers
  BY DEF Extends
<1>2. PICK o \in Nat, n \in Nat : o = Pos(c, i) /\ n = ChunkLen(c, i) /\ Str(Byte, Chunk(c, i), n)
                                  /\ After(c, i) = o + (5 + n) /\ n \in 1..MaxRecord
  BY ChunkType, PosType
<1>3. /\ Rd(q, o) = Handshake /\ Rd(q, o + 1) = 3 /\ Be16(q, o + 3) = n
      /\ At(q, o + 5, Chunk(c, i))
  BY <1>1, <1>2, RecordAt
<1>4. PICK m \in Nat : m = Size(p)
  BY <1>1, ReadType
<1>5. CASE m - o < 5
  <2>1. ~(o + (5 + n) <= m)
    BY <1>5
  <2>2. TakeRecord(p, o) = NeedMore
    BY <1>4, <1>5 DEF TakeRecord, RecordHeader
  <2> QED
    BY <1>2, <1>4, <2>1, <2>2
<1>6. CASE ~(m - o < 5)
  <2>1. o < m /\ o + 1 < m /\ o + 3 + 2 <= m /\ o + 1 \in Nat /\ o + 3 \in Nat /\ o + 5 \in Nat
    BY <1>6
  <2>2. Rd(p, o) = Handshake /\ Rd(p, o + 1) = 3 /\ Be16(p, o + 3) = n
    BY <1>3, <1>4, <2>1, ExtendsReads
  <2>3. TakeRecord(p, o) = IF m - o - 5 < n THEN NeedMore ELSE Found(Bytes(p, o + 5, n))
    BY <1>2, <1>4, <1>6, <2>2 DEF TakeRecord, RecordHeader
  <2>4. CASE m - o - 5 < n
    <3>1. ~(o + (5 + n) <= m)
      BY <2>4
    <3> QED
      BY <1>2, <1>4, <2>3, <2>4, <3>1
  <2>5. CASE ~(m - o - 5 < n)
    <3>1. o + (5 + n) <= m /\ o + 5 + n <= m
      BY <2>5
    <3>2. Bytes(p, o + 5, n) = Bytes(q, o + 5, n)
      BY <1>4, <2>1, <3>1, ExtendsBytes
    <3>3. Bytes(q, o + 5, n) = Chunk(c, i)
      BY <1>1, <1>2, <1>3, <2>1, AtBytes DEF Str
    <3> QED
      BY <1>2, <1>4, <2>3, <2>5, <3>1, <3>2, <3>3
  <2> QED
    BY <2>4, <2>5
<1> QED
  BY <1>5, <1>6

\* The length a message announces is its length.
HelloWant(h) == IF h.type = 1 THEN Len(Message(h)) ELSE 0

\* It is read back from the header.
LEMMA HelloSizeAt ==
  ASSUME NEW h, HelloFits(h), NEW q \in Buffers, NEW o \in Nat, At(q, o, Message(h))
  PROVE  HelloSize(q, o) = HelloWant(h)
<1>1. PICK n \in Nat : n = BodyLen(h) /\ n \in MinMsg..MaxMsg /\ Len(Message(h)) = 4 + n
  BY MessageType
<1>2. Rd(q, o) = h.type /\ Rd(q, o + 1) = 0 /\ Be16(q, o + 2) = n
  BY <1>1, MessageAt
<1>3. o + 1 + 1 = o + 2
  OBVIOUS
<1>4. Be24(q, o + 1) = n
  <2>1. Be24(q, o + 1) = 0 * 65536 + n
    BY <1>2, <1>3 DEF Be24
  <2> QED
    BY <2>1
<1> QED
  BY <1>1, <1>2, <1>4 DEF HelloSize, HelloWant, MsgHeader

\* The same message header at another place.
LEMMA HelloSizeMoved ==
  ASSUME NEW p, NEW q, NEW o \in Nat, \A k \in 0..3 : Rd(p, o + k) = Rd(q, k)
  PROVE  HelloSize(p, o) = HelloSize(q, 0)
<1>1. /\ Rd(p, o + 0) = Rd(q, 0) /\ Rd(p, o + 1) = Rd(q, 1)
      /\ Rd(p, o + 2) = Rd(q, 2) /\ Rd(p, o + 3) = Rd(q, 3)
  OBVIOUS
<1>2. o + 0 = o /\ o + 1 + 1 = o + 2 /\ o + 1 + 1 + 1 = o + 3 /\ 0 + 1 = 1 /\ 1 + 1 = 2 /\ 2 + 1 = 3
  OBVIOUS
<1>3. Be16(p, o + 1 + 1) = Be16(q, 0 + 1 + 1)
  BY <1>1, <1>2 DEF Be16
<1>4. Be24(p, o + 1) = Be24(q, 0 + 1)
  BY <1>1, <1>2, <1>3 DEF Be24
<1> QED
  BY <1>1, <1>2, <1>4 DEF HelloSize

\* What was sent begins with the message.
LEMMA SentStart ==
  ASSUME NEW c, HelloFits(c.hello), NEW j \in Byte
  PROVE  /\ Buffer(Sent(c), j) \in Buffers /\ At(Buffer(Sent(c), j), 0, Message(c.hello))
         /\ \A k \in 1..Len(Message(c.hello)) : Sent(c)[k] = Message(c.hello)[k]
         /\ HelloSize(Buffer(Sent(c), j), 0) = HelloWant(c.hello)
<1>1. PICK s \in Seq(Byte) : s = Message(c.hello)
  BY MessageType DEF Str
<1>2. PICK t \in Seq(Byte) : t = c.hello.rest
  BY DEF HelloFits
<1>3. Sent(c) = s \o t
  BY <1>1, <1>2 DEF Sent
<1>4. s \o t \in Seq(Byte) /\ \A k \in 1..Len(s) : (s \o t)[k] = s[k]
  BY Cat
<1>5. At(Buffer(s \o t, j), 0, s)
  BY AtStart
<1>6. PICK q \in Buffers : q = Buffer(s \o t, j)
  BY <1>4, BufferFields
<1>7. HelloSize(q, 0) = HelloWant(c.hello)
  BY <1>1, <1>5, <1>6, HelloSizeAt
<1> QED
  BY <1>1, <1>3, <1>4, <1>5, <1>6, <1>7

\* Four bytes of what was sent are enough to know the length, ...
LEMMA PrefixSize ==
  ASSUME NEW c, HelloFits(c.hello), NEW m \in Nat, m <= Len(Sent(c)), m >= 4
  PROVE  HelloSize(Buffer(SubSeq(Sent(c), 1, m), 0), 0) = HelloWant(c.hello)
<1>1. PICK s \in Seq(Byte) : s = Sent(c)
  BY SentType
<1>2. 0 \in Byte
  BY DEF Byte
<1>3. /\ SubSeq(s, 1, m) \in Seq(Byte) /\ Len(SubSeq(s, 1, m)) = m
      /\ Extends(Buffer(SubSeq(s, 1, m), 0), Buffer(s, 0))
  BY <1>1, <1>2, PrefixExtends
<1>4. PICK p : p = Buffer(SubSeq(s, 1, m), 0) /\ Size(p) = m
  BY <1>2, <1>3, BufferFields
<1>5. 0 + MsgHeader <= Size(p)
  BY <1>4 DEF MsgHeader
<1>6. HelloSize(p, 0) = HelloSize(Buffer(s, 0), 0)
  BY <1>3, <1>4, <1>5, HelloSizeExtends
<1> QED
  BY <1>1, <1>2, <1>4, <1>6, SentStart

\* ... and the message is its beginning.
LEMMA PrefixMessage ==
  ASSUME NEW c, HelloFits(c.hello), NEW m \in Nat, m <= Len(Sent(c)), m >= Len(Message(c.hello))
  PROVE  SubSeq(SubSeq(Sent(c), 1, m), 1, Len(Message(c.hello))) = Message(c.hello)
<1>1. PICK s \in Seq(Byte) : s = Sent(c)
  BY SentType
<1>2. PICK t \in Seq(Byte) : t = Message(c.hello)
  BY MessageType DEF Str
<1>3. PICK n \in Nat : n = Len(t)
  BY LenProperties
<1>4. PICK z \in Nat : z = 0
  OBVIOUS
<1>5. z + 1 = 1 /\ \A i \in Nat : z + i = i
  BY <1>4
<1>6. PICK u : u = SubSeq(s, 1, m)
  OBVIOUS
<1>7. u \in Seq(Byte) /\ Len(u) = m /\ \A i \in 1..m : u[i] = s[i]
  <2>1. z + m <= Len(s)
    BY <1>1, <1>5
  <2>2. PICK T : T = Byte
    OBVIOUS
  <2>3. s \in Seq(T)
    BY <2>2
  <2>4. /\ SubSeq(s, z + 1, z + m) \in Seq(T) /\ Len(SubSeq(s, z + 1, z + m)) = m
        /\ \A i \in 1..m : SubSeq(s, z + 1, z + m)[i] = s[z + i]
    BY <2>1, <2>3, Part, Zenon
  <2> QED
    BY <1>5, <1>6, <2>2, <2>4
<1>8. PICK v : v = SubSeq(u, 1, n)
  OBVIOUS
<1>9. v \in Seq(Byte) /\ Len(v) = n /\ \A i \in 1..n : v[i] = u[i]
  <2>1. z + n <= Len(u)
    BY <1>2, <1>3, <1>5, <1>7
  <2>2. PICK T : T = Byte
    OBVIOUS
  <2>3. u \in Seq(T)
    BY <1>7, <2>2
  <2>4. /\ SubSeq(u, z + 1, z + n) \in Seq(T) /\ Len(SubSeq(u, z + 1, z + n)) = n
        /\ \A i \in 1..n : SubSeq(u, z + 1, z + n)[i] = u[z + i]
    BY <2>1, <2>3, Part, Zenon
  <2> QED
    BY <1>5, <1>8, <2>2, <2>4
<1>10. \A i \in 1..n : s[i] = t[i]
  <2>1. 0 \in Byte
    BY DEF Byte
  <2> QED
    BY <1>1, <1>2, <1>3, <2>1, SentStart
<1>11. \A i \in 1..n : v[i] = t[i]
  BY <1>2, <1>3, <1>7, <1>9, <1>10
<1>12. v = t
  BY <1>3, <1>9, <1>11, SeqEqual
<1> QED
  BY <1>1, <1>2, <1>3, <1>6, <1>8, <1>12

\* The bytes there must be before the message can be: those of the records that carry
\* its bytes, up to the message's end, and their headers.
Enough(c, n) == \E m \in 1..Len(c.ends) : /\ Len(Message(c.hello)) <= c.ends[m]
                                          /\ Len(Message(c.hello)) + 5 * m <= n

\* What the collection of the message out of n bytes may come to, all being whether these
\* are all the bytes there will be.
Collected(c, n, all, r) ==
  /\ r # NeedMore => IF c.hello.type = 1 THEN r = Found(Message(c.hello)) /\ Enough(c, n)
                     ELSE r = NotFound
  /\ all => r # NeedMore

\* The lengths of the message and of all that is sent.
LEMMA MessageLen ==
  ASSUME NEW c, HelloFits(c.hello)
  PROVE  \E n, w \in Nat : /\ n = Len(Message(c.hello)) /\ n >= 4 /\ w = Len(Sent(c)) /\ n <= w
                           /\ Sent(c) \in Seq(Byte)
<1>1. PICK b \in Nat : b = BodyLen(c.hello) /\ Len(Message(c.hello)) = 4 + b
  BY MessageType
<1>2. PICK r \in Nat : r = Len(c.hello.rest) /\ Len(Sent(c)) = Len(Message(c.hello)) + r
  BY SentType
<1>3. PICK n, w \in Nat : n = 4 + b /\ w = n + r
  OBVIOUS
<1>4. n = Len(Message(c.hello)) /\ w = Len(Sent(c)) /\ Sent(c) \in Seq(Byte)
  BY <1>1, <1>2, <1>3, SentType
<1>5. n >= 4 /\ n <= w
  BY <1>3
<1> QED
  BY <1>4, <1>5

\* The records are joined from the i-th on, the bytes before it being there.
LEMMA JoinAt ==
  ASSUME NEW c, Case(c), NEW q, At(q, 0, Records(c)), NEW p, Extends(p, q)
  PROVE  \A i \in 1..Len(c.ends) :
           Start(c, i) < Len(Message(c.hello)) =>
             Collected(c, Size(p), Size(p) = Size(q),
                       Join(p, Pos(c, i), SubSeq(Sent(c), 1, Start(c, i))))
<1> DEFINE J(i) == Join(p, Pos(c, i), SubSeq(Sent(c), 1, Start(c, i)))
           C(r) == Collected(c, Size(p), Size(p) = Size(q), r)
           S == {i \in Nat : i \in 1..Len(c.ends) /\ Start(c, i) < Len(Message(c.hello)) => C(J(i))}
<1>1. p \in Buffers /\ q \in Buffers /\ HelloFits(c.hello)
  BY DEF Extends, Case
<1>2. PICK l \in Nat : l = Len(c.ends)
  BY EndsType
<1>3. PICK n, w \in Nat : /\ n = Len(Message(c.hello)) /\ n >= 4 /\ w = Len(Sent(c)) /\ n <= w
                         /\ Sent(c) \in Seq(Byte)
  BY <1>1, MessageLen
<1>4. w = Len(Sent(c)) /\ n <= w /\ Sent(c) \in Seq(Byte)
  BY <1>3
<1>5. l + 1 \in S
  BY <1>2
<1>6. ASSUME NEW i \in 1..l, i + 1 \in S PROVE i \in S
  <2>1. PICK s, t \in Nat : /\ s = Start(c, i) /\ t = c.ends[i] /\ s < t /\ t <= w
                            /\ i + 1 \in 1..l => Start(c, i + 1) = t
    BY <1>2, <1>4, EndsType
  <2>2. SUFFICES ASSUME s < n PROVE C(J(i))
    BY <1>3, <2>1
  <2>3. PICK o, e \in Nat : /\ o = Pos(c, i) /\ e = After(c, i) /\ e = o + (5 + (t - s))
                            /\ e = t + 5 * i
                            /\ i + 1 \in 1..l => Pos(c, i + 1) = e
    BY <1>2, <2>1, PosType DEF ChunkLen, After
  <2>4. PICK m, y \in Nat : m = Size(p) /\ y = Size(q) /\ e <= y
    BY <1>1, <1>2, <2>3, RecordAt, ReadType
  <2>5. TakeRecord(p, o) = IF e <= m THEN Found(Chunk(c, i)) ELSE NeedMore
    BY <1>2, <2>3, <2>4, TakeRecordAt
  <2>6. /\ SubSeq(Sent(c), 1, s) \in Seq(Byte) /\ Chunk(c, i) \in Seq(Byte) /\ Len(Chunk(c, i)) = t - s
        /\ SubSeq(Sent(c), 1, s) \o Chunk(c, i) = SubSeq(Sent(c), 1, t)
        /\ Len(SubSeq(Sent(c), 1, t)) = t
    <3>1. Chunk(c, i) = SubSeq(Sent(c), s + 1, t)
      BY <2>1 DEF Chunk
    <3>2. s <= s /\ s <= t /\ s <= w /\ t <= w
      BY <2>1
    <3>3. Str(Byte, SubSeq(Sent(c), 1, s), s)
      BY <1>4, <3>2, Joined
    <3>4. /\ SubSeq(Sent(c), 1, s) \o SubSeq(Sent(c), s + 1, t) = SubSeq(Sent(c), 1, t)
          /\ Str(Byte, SubSeq(Sent(c), s + 1, t), t - s) /\ Str(Byte, SubSeq(Sent(c), 1, t), t)
      BY <1>4, <3>2, Joined
    <3> QED
      BY <3>1, <3>3, <3>4 DEF Str
  <2> DEFINE rec == TakeRecord(p, o)
             all == SubSeq(Sent(c), 1, s) \o rec.bytes
             want == HelloSize(Buffer(all, 0), 0)
  <2>7. J(i) = IF rec.res # "Found" THEN rec
               ELSE IF Len(all) >= MsgHeader /\ want = 0 THEN NotFound
               ELSE IF Len(all) >= MsgHeader /\ want <= Len(all) THEN Found(SubSeq(all, 1, want))
               ELSE Join(p, o + RecordHeader + Len(rec.bytes), all)
    <3>1. J(i) = Join(p, o, SubSeq(Sent(c), 1, s))
      BY <2>1, <2>3
    <3> HIDE DEF J
    <3> QED
      BY <1>1, <2>6, <3>1, JoinStep
  <2>8. CASE ~(e <= m)
    <3>1. rec = NeedMore /\ rec.res # "Found"
      BY <2>5, <2>8 DEF NeedMore
    <3>2. J(i) = NeedMore /\ m # y
      BY <2>4, <2>7, <2>8, <3>1
    <3> QED
      BY <2>4, <3>2 DEF Collected
  <2>9. CASE e <= m
    <3>1. rec.res = "Found" /\ rec.bytes = Chunk(c, i)
      BY <2>5, <2>9 DEF Found
    <3>2. all = SubSeq(Sent(c), 1, t) /\ Len(all) = t /\ Len(rec.bytes) = t - s
      BY <2>6, <3>1
    <3>3. J(i) = IF t >= MsgHeader /\ want = 0 THEN NotFound
                 ELSE IF t >= MsgHeader /\ want <= t THEN Found(SubSeq(all, 1, want))
                 ELSE Join(p, o + RecordHeader + (t - s), all)
      BY <2>7, <3>1, <3>2
    <3>4. t >= MsgHeader => want = HelloWant(c.hello)
      BY <1>1, <1>4, <2>1, <3>2, PrefixSize DEF MsgHeader
    <3> HIDE DEF J, C, want, all, rec
    <3>5. CASE t >= MsgHeader /\ c.hello.type # 1
      <4>1. want = 0
        BY <3>4, <3>5 DEF HelloWant
      <4>2. J(i) = NotFound
        BY <3>3, <3>5, <4>1
      <4>3. NotFound # NeedMore
        BY DEF NotFound, NeedMore
      <4> QED
        BY <3>5, <4>2, <4>3 DEF Collected, C
    <3>6. CASE t >= MsgHeader /\ c.hello.type = 1 /\ n <= t
      <4>1. want = n /\ want # 0
        BY <1>3, <3>4, <3>6 DEF HelloWant
      <4>2. J(i) = Found(SubSeq(all, 1, n))
        BY <3>3, <3>6, <4>1
      <4>3. SubSeq(all, 1, n) = Message(c.hello)
        BY <1>1, <1>3, <1>4, <2>1, <3>2, <3>6, PrefixMessage
      <4>4. Found(Message(c.hello)) # NeedMore
        BY DEF Found, NeedMore
      <4>5. Enough(c, m)
        <5>1. n + 5 * i <= m
          BY <2>3, <2>9, <3>6
        <5>2. n <= c.ends[i]
          BY <2>1, <3>6
        <5> QED
          BY <1>2, <1>3, <5>1, <5>2 DEF Enough
      <4> QED
        BY <2>4, <3>6, <4>2, <4>3, <4>4, <4>5 DEF Collected, C
    <3>7. CASE t < n /\ ~(t >= MsgHeader /\ c.hello.type # 1)
      <4>1. ~(t >= MsgHeader /\ want = 0) /\ ~(t >= MsgHeader /\ want <= t)
        <5>1. t >= MsgHeader => want = n
          BY <1>3, <3>4, <3>7 DEF HelloWant
        <5> QED
          BY <1>3, <3>7, <5>1
      <4>2. J(i) = Join(p, o + RecordHeader + (t - s), all)
        BY <3>3, <4>1
      <4>3. i # l
        <5>1. c.ends[l] = w
          BY <1>2, <1>4 DEF Case, RecordsFit
        <5> QED
          BY <1>4, <2>1, <3>7, <5>1
      <4>4. i + 1 \in 1..l
        BY <4>3
      <4>5. o + RecordHeader + (t - s) = e
        BY <2>1, <2>3 DEF RecordHeader
      <4>6. J(i) = J(i + 1)
        BY <2>1, <2>3, <3>2, <4>2, <4>4, <4>5 DEF J
      <4>7. C(J(i + 1))
        BY <1>2, <1>3, <1>6, <2>1, <3>7, <4>4
      <4> QED
        BY <4>6, <4>7
    <3>8. MsgHeader = 4
      BY DEF MsgHeader
    <3> QED
      BY <1>3, <2>1, <3>5, <3>6, <3>7, <3>8
  <2> QED
    BY <2>4, <2>8, <2>9
<1> HIDE DEF S
<1>7. \A i \in 1..(l + 1) : i \in S
  BY <1>5, <1>6, Backwards
<1>8. \A i \in 1..l : i \in S
  BY <1>7
<1> QED
  BY <1>2, <1>8 DEF S

\* collectHandshake(): the fast path for a message within the first record comes to the same.
LEMMA CollectAt ==
  ASSUME NEW c, Case(c), NEW q, At(q, 0, Records(c)), NEW p, Extends(p, q)
  PROVE  Collected(c, Size(p), Size(p) = Size(q), CollectHandshake(p))
<1> DEFINE r == CollectHandshake(p)
           C(x) == Collected(c, Size(p), Size(p) = Size(q), x)
<1>1. p \in Buffers /\ q \in Buffers /\ HelloFits(c.hello)
  BY DEF Extends, Case
<1>2. PICK l \in Nat : l = Len(c.ends) /\ 1 \in 1..l
  BY EndsType
<1>3. PICK n, w \in Nat : /\ n = Len(Message(c.hello)) /\ n >= 4 /\ w = Len(Sent(c)) /\ n <= w
                         /\ Sent(c) \in Seq(Byte)
  BY <1>1, MessageLen
<1>4. Start(c, 1) = 0
  BY DEF Start
<1>5. PICK t \in Nat : t = c.ends[1] /\ 0 < t /\ t <= w /\ t \in 1..MaxRecord /\ ChunkLen(c, 1) = t
  <2>1. c.ends[1] \in Nat /\ c.ends[1] - 0 \in 1..MaxRecord /\ 0 < c.ends[1] /\ c.ends[1] <= w
    BY <1>2, <1>3, <1>4, EndsType
  <2>2. c.ends[1] - 0 = c.ends[1]
    BY <2>1
  <2> QED
    BY <1>4, <2>1, <2>2 DEF ChunkLen
<1>6. Pos(c, 1) = 0 /\ After(c, 1) = 0 + (5 + t)
  BY <1>2, <1>5, PosType
<1>7. PICK m, y \in Nat : m = Size(p) /\ y = Size(q) /\ 5 + t <= y
  <2>1. After(c, 1) <= Size(q)
    BY <1>1, <1>2, RecordAt
  <2> QED
    BY <1>1, <1>6, <2>1, ReadType
<1>8. /\ Rd(q, 0) = Handshake /\ Rd(q, 1) = 3 /\ Be16(q, 3) = t /\ At(q, 5, Chunk(c, 1))
  <2>1. /\ Rd(q, 0) = Handshake /\ Rd(q, 0 + 1) = 3 /\ Be16(q, 0 + 3) = t
        /\ At(q, 0 + 5, Chunk(c, 1))
    BY <1>1, <1>2, <1>5, <1>6, RecordAt
  <2> QED
    BY <2>1
<1>9. CASE m < 5
  <2>1. m # 0 => Rd(p, 0) = Handshake
    BY <1>7, <1>8, ExtendsReads
  <2>2. m >= 2 => Rd(p, 1) = 3
    BY <1>7, <1>8, ExtendsReads
  <2>3. r = NeedMore
    BY <1>7, <1>9, <2>1, <2>2 DEF CollectHandshake, RecordHeader
  <2>4. m # y
    BY <1>7, <1>9
  <2> QED
    BY <1>7, <2>3, <2>4 DEF Collected
<1>10. CASE m >= 5
  <2>1. Rd(p, 0) = Handshake /\ Rd(p, 1) = 3 /\ Be16(p, 3) = t
    <3>1. 0 < m /\ 1 < m /\ 3 + 2 <= m
      BY <1>10
    <3> QED
      BY <1>7, <1>8, <3>1, ExtendsReads
  <2>2. FirstRecord(p)
    BY <1>5, <1>7, <1>10, <2>1 DEF FirstRecord, RecordHeader
  <2> DEFINE want == HelloSize(p, 5)
  <2>3. r = IF FastPath(p) /\ want = 0 THEN NotFound
            ELSE IF FastPath(p) /\ want <= t
              THEN IF m < 5 + want THEN NeedMore ELSE Found(Bytes(p, 5, want))
            ELSE Join(p, 0, <<>>)
    <3>1. r = IF FastPath(p) /\ HelloSize(p, RecordHeader) = 0 THEN NotFound
              ELSE IF FastPath(p) /\ HelloSize(p, RecordHeader) <= Be16(p, 3)
                THEN IF Size(p) < RecordHeader + HelloSize(p, RecordHeader) THEN NeedMore
                     ELSE Found(Bytes(p, RecordHeader, HelloSize(p, RecordHeader)))
              ELSE Join(p, 0, <<>>)
      BY <1>1, <2>2, CollectCases
    <3>2. RecordHeader = 5
      BY DEF RecordHeader
    <3> QED
      BY <1>7, <2>1, <3>1, <3>2
  <2>4. ASSUME NEW k \in 1..t PROVE Rd(q, 5 + k - 1) = Sent(c)[k]
    <3>1. Chunk(c, 1)[k] = Sent(c)[0 + k] /\ Len(Chunk(c, 1)) = t
      BY <1>2, <1>4, <1>5, ChunkType DEF Str
    <3>2. 0 + k = k
      OBVIOUS
    <3> QED
      BY <1>8, <3>1, <3>2 DEF At
  <2>5. ASSUME FastPath(p) PROVE want = HelloWant(c.hello) /\ t >= 4
    <3>1. t >= 4 /\ m >= 9
      BY <1>7, <2>1, <2>5 DEF FastPath, RecordHeader, MsgHeader
    <3>2. want = HelloSize(q, 5)
      <4>1. 5 + MsgHeader <= m
        BY <3>1 DEF MsgHeader
      <4> QED
        BY <1>7, <4>1, HelloSizeExtends
    <3>3. 0 \in Byte
      BY DEF Byte
    <3>4. PICK s \in Seq(Byte) : s = Sent(c) /\ Len(s) = w
      BY <1>3
    <3>5. PICK u : u = Buffer(s, 0) /\ u.b = s /\ Size(u) = w
      BY <3>3, <3>4, BufferFields
    <3>6. ASSUME NEW k \in 0..3 PROVE Rd(q, 5 + k) = Rd(u, k)
      <4>1. k + 1 \in 1..t /\ 5 + (k + 1) - 1 = 5 + k /\ k < w
        BY <1>5, <3>1
      <4>2. Rd(q, 5 + k) = s[k + 1]
        BY <2>4, <3>4, <4>1
      <4>3. Rd(u, k) = s[k + 1]
        BY <3>5, <4>1 DEF Rd
      <4> QED
        BY <4>2, <4>3
    <3>7. HelloSize(q, 5) = HelloSize(u, 0)
      BY <3>6, HelloSizeMoved
    <3>8. HelloSize(u, 0) = HelloWant(c.hello)
      BY <1>1, <3>3, <3>4, <3>5, SentStart
    <3> QED
      BY <3>1, <3>2, <3>7, <3>8
  <2>6. C(Join(p, 0, <<>>))
    <3>1. SubSeq(Sent(c), 1, 0) = <<>>
      BY SubSeqEmpty
    <3>2. Start(c, 1) < Len(Message(c.hello)) /\ 1 \in 1..Len(c.ends)
      BY <1>2, <1>3, <1>4
    <3>3. C(Join(p, Pos(c, 1), SubSeq(Sent(c), 1, Start(c, 1))))
      BY <3>2, JoinAt
    <3> HIDE DEF C
    <3> QED
      BY <1>4, <1>6, <3>1, <3>3
  <2> HIDE DEF r, C, want
  <2>7. CASE ~FastPath(p)
    BY <2>3, <2>6, <2>7 DEF C, r
  <2>8. CASE FastPath(p) /\ c.hello.type # 1
    <3>1. want = 0
      BY <2>5, <2>8 DEF HelloWant
    <3>2. r = NotFound
      BY <2>3, <2>8, <3>1
    <3>3. NotFound # NeedMore
      BY DEF NotFound, NeedMore
    <3> QED
      BY <2>8, <3>2, <3>3 DEF Collected, C, r
  <2>9. CASE FastPath(p) /\ c.hello.type = 1
    <3>1. want = n /\ want # 0
      BY <1>3, <2>5, <2>9 DEF HelloWant
    <3>2. CASE ~(n <= t)
      BY <2>3, <2>6, <3>1, <3>2 DEF C, r
    <3>3. CASE n <= t /\ m < 5 + n
      <4>1. r = NeedMore
        BY <2>3, <2>9, <3>1, <3>3
      <4>2. m # y
        BY <1>7, <3>3
      <4> QED
        BY <1>7, <4>1, <4>2 DEF Collected, C, r
    <3>4. CASE n <= t /\ ~(m < 5 + n)
      <4>1. r = Found(Bytes(p, 5, n))
        BY <2>3, <2>9, <3>1, <3>4
      <4>2. PICK s \in Seq(Byte) : s = Message(c.hello) /\ Len(s) = n
        BY <1>1, <1>3, MessageType DEF Str
      <4>3. At(q, 5, s)
        <5>1. 5 + n <= y
          BY <1>7, <3>4
        <5>2. ASSUME NEW k \in 1..n PROVE Rd(q, 5 + k - 1) = s[k]
          <6>1. k \in 1..t
            BY <3>4
          <6>2. 0 \in Byte
            BY DEF Byte
          <6>3. Sent(c)[k] = s[k]
            BY <1>1, <4>2, <6>2, SentStart
          <6> QED
            BY <2>4, <6>1, <6>3
        <5> QED
          BY <1>7, <4>2, <5>1, <5>2 DEF At
      <4>4. Bytes(q, 5, n) = s
        BY <1>1, <4>2, <4>3, AtBytes
      <4>5. Bytes(p, 5, n) = Bytes(q, 5, n)
        <5>1. 5 + n <= m
          BY <3>4
        <5> QED
          BY <1>7, <5>1, ExtendsBytes
      <4>6. Enough(c, m)
        <5>1. n + 5 * 1 <= m
          BY <3>4
        <5> QED
          BY <1>2, <1>3, <1>5, <3>4, <5>1 DEF Enough
      <4>7. Found(Message(c.hello)) # NeedMore
        BY DEF Found, NeedMore
      <4> QED
        BY <1>7, <2>9, <4>1, <4>2, <4>4, <4>5, <4>6, <4>7 DEF Collected, C, r
    <3> QED
      BY <3>2, <3>3, <3>4 DEF C, r
  <2> QED
    BY <2>7, <2>8, <2>9 DEF C, r
<1> QED
  BY <1>7, <1>9, <1>10

\* Records end one after the other.
LEMMA EndsGrow ==
  ASSUME NEW c, Case(c), NEW m \in 1..Len(c.ends)
  PROVE  \A k \in 1..Len(c.ends) : k > m => c.ends[m] <= Start(c, k)
<1>1. PICK l \in Nat : l = Len(c.ends)
  BY EndsType
<1> DEFINE S == {k \in Nat : k \in 1..l /\ k > m => c.ends[m] <= Start(c, k)}
<1>2. 0 \in S
  OBVIOUS
<1>3. ASSUME NEW k \in Nat, k \in S PROVE k + 1 \in S
  <2>1. SUFFICES ASSUME k + 1 \in 1..l, k + 1 > m PROVE c.ends[m] <= Start(c, k + 1)
    OBVIOUS
  <2>2. k \in 1..l /\ k >= m
    BY <1>1, <2>1
  <2>3. PICK a, b, d \in Nat : a = c.ends[m] /\ b = Start(c, k) /\ d = c.ends[k] /\ b < d
    BY <1>1, <2>2, EndsType
  <2>4. Start(c, k + 1) = d
    BY <1>1, <2>1, <2>2, <2>3, EndsType
  <2>5. k > m => a <= b
    BY <1>3, <2>2, <2>3
  <2>6. k = m => a = d
    BY <2>3
  <2> QED
    BY <1>1, <2>2, <2>3, <2>4, <2>5, <2>6
<1> HIDE DEF S
<1>4. \A k \in Nat : k \in S
  BY <1>2, <1>3, NatSet
<1> QED
  BY <1>1, <1>4 DEF S

\* What extractHostname() makes of a client's stream that was not damaged, after n bytes
\* of it: no answer while a byte of the ClientHello, or of a record header before it, is
\* missing; an answer when all is there; and the answer is the name that a server takes
\* from the hello.
THEOREM ExtractOfStream ==
  ASSUME NEW c, Case(c), c.flip.at = 0, NEW n \in Nat, n <= Len(Wire(c)), NEW j \in Byte
  PROVE  LET r == ExtractHostname(Buffer(SubSeq(Wire(c), 1, n), j))
         IN /\ r # NeedMore => Says(c.hello, r)
            /\ c.hello.type = 1 =>
                 \A k \in DOMAIN c.ends :
                   Start(c, k) < Len(Message(c.hello))
                     /\ n < Len(Message(c.hello)) + k * RecordHeader => r = NeedMore
            /\ n = Len(Wire(c)) => r # NeedMore
<1>1. PICK s \in Seq(Byte) : s = Wire(c) /\ s = Records(c) /\ Len(s) \in Nat
  BY WireType
<1>2. PICK p : p = Buffer(SubSeq(s, 1, n), j)
  OBVIOUS
<1>3. PICK q : q = Buffer(s, j)
  OBVIOUS
<1>4. Extends(p, q) /\ Size(p) = n /\ Size(q) = Len(s) /\ p.junk = j /\ p \in Buffers
  <2>1. /\ SubSeq(s, 1, n) \in Seq(Byte) /\ Len(SubSeq(s, 1, n)) = n
        /\ Extends(Buffer(SubSeq(s, 1, n), j), Buffer(s, j))
    BY <1>1, PrefixExtends
  <2> QED
    BY <1>2, <1>3, <2>1, BufferFields
<1>5. At(q, 0, Records(c))
  BY <1>1, <1>3, AtStart
<1> DEFINE hs == CollectHandshake(p)
           r == ExtractHostname(p)
<1>6. Collected(c, n, n = Len(s), hs)
  BY <1>4, <1>5, CollectAt
<1>7. r = IF hs.res = "Found" THEN ParseClientHello(Buffer(hs.bytes, j)) ELSE hs
  BY <1>4 DEF ExtractHostname
<1>8. HelloFits(c.hello)
  BY DEF Case
<1> HIDE DEF hs, r
<1>9. CASE hs = NeedMore
  <2>1. r = NeedMore /\ n # Len(s)
    <3>1. hs.res # "Found"
      BY <1>9 DEF NeedMore
    <3> QED
      BY <1>6, <1>7, <1>9, <3>1 DEF Collected
  <2> QED
    BY <1>1, <1>2, <2>1 DEF r
<1>10. CASE hs # NeedMore /\ c.hello.type # 1
  <2>1. hs = NotFound
    BY <1>6, <1>10 DEF Collected
  <2>2. NotFound # NeedMore /\ NotFound.res # "Found"
    BY DEF NotFound, NeedMore
  <2>3. r = NotFound
    BY <1>7, <2>1, <2>2
  <2>4. Says(c.hello, NotFound)
    BY <1>10 DEF Says, ServerName
  <2> QED
    BY <1>1, <1>2, <1>10, <2>2, <2>3, <2>4 DEF r
<1>11. CASE hs # NeedMore /\ c.hello.type = 1
  <2>1. hs = Found(Message(c.hello)) /\ Enough(c, n)
    BY <1>6, <1>11 DEF Collected
  <2>2. hs.res = "Found" /\ hs.bytes = Message(c.hello)
    BY <2>1 DEF Found
  <2>3. Says(c.hello, r)
    BY <1>7, <1>8, <1>11, <2>2, ParseFindsServerName
  <2>4. r # NeedMore
    BY <2>3 DEF Says, NeedMore, NotFound, Found
  <2>5. ASSUME NEW k \in DOMAIN c.ends, Start(c, k) < Len(Message(c.hello)),
               n < Len(Message(c.hello)) + k * RecordHeader
        PROVE  FALSE
    <3>1. PICK l \in Nat : l = Len(c.ends) /\ DOMAIN c.ends = 1..l
      BY LenProperties DEF Case, RecordsFit
    <3>2. PICK x \in Nat : x = Len(Message(c.hello))
      BY <1>8, MessageLen
    <3>3. PICK m \in 1..l : x <= c.ends[m] /\ x + 5 * m <= n
      BY <2>1, <3>1, <3>2 DEF Enough
    <3>4. k \in 1..l /\ n < x + k * 5 /\ Start(c, k) < x
      BY <2>5, <3>1, <3>2 DEF RecordHeader
    <3>5. k > m
      BY <3>3, <3>4
    <3>6. PICK a, b \in Nat : a = c.ends[m] /\ b = Start(c, k)
      BY <3>1, <3>4, EndsType
    <3>7. a <= b
      BY <3>1, <3>4, <3>5, <3>6, EndsGrow
    <3> QED
      BY <3>3, <3>4, <3>6, <3>7
  <2> QED
    BY <1>1, <1>2, <2>3, <2>4, <2>5 DEF r
<1> QED
  BY <1>9, <1>10, <1>11
=============================================================================
