--------------------------- MODULE RoomCodeProofs ---------------------------
(***************************************************************************)
(* Theorems about RoomCode for every dial address and every way of typing: *)
(* base32 spells the bits of any bytes and is undone by the decoder, and    *)
(* what a joiner types names the host's address, or none.                  *)
(***************************************************************************)
EXTENDS RoomCode, SequenceTheorems, WellFoundedInduction, TLAPS

-----------------------------------------------------------------------------
(* Loops over a sequence.                                                  *)

\* Induction over the naturals, for a set.
LEMMA SetInduction ==
    ASSUME NEW S, 0 \in S, \A n \in Nat : n \in S => n + 1 \in S
    PROVE  Nat \subseteq S
<1>1. IsWellFoundedOn(OpToRel(<, Nat), Nat)
  BY NatLessThanWellFounded
<1>2. \A x, y \in Nat : <<y, x>> \in OpToRel(<, Nat) <=> y < x
  BY DEF OpToRel
<1>3. \A T \in SUBSET Nat : T # {} => \E x \in T : \A y \in T : ~(y < x)
  BY <1>1, <1>2, WFMin
<1>. SUFFICES ASSUME Nat \ S # {} PROVE FALSE
  OBVIOUS
<1>4. PICK x \in Nat \ S : \A y \in Nat \ S : ~(y < x)
  BY <1>3
<1>5. x # 0 /\ x - 1 \in Nat /\ x - 1 < x /\ x = (x - 1) + 1
  BY <1>4
<1>6. x - 1 \in S
  BY <1>4, <1>5
<1>. QED
  BY <1>4, <1>5, <1>6

\* The entries of a sequence over a set are members of it.
LEMMA EntryOf ==
    ASSUME NEW R, NEW q \in Seq(R)
    PROVE  \A i \in 1..Len(q) : q[i] \in R
OBVIOUS

\* f has the values of a loop over s after each of its first n elements.
Follows(f, n, base, step, s) ==
    /\ f[0] = base
    /\ \A i \in 1..n : f[i] = step[f[i - 1], s[i]]

\* Every loop has such values, however long the sequence.
LEMMA LoopRuns ==
    ASSUME NEW T, NEW U, NEW base \in T, NEW step \in [T \X U -> T], NEW s \in Seq(U)
    PROVE  \E f \in [0..Len(s) -> T] : Follows(f, Len(s), base, step, s)
<1>. DEFINE S == {n \in Nat : n <= Len(s) =>
                      \E f \in [0..n -> T] : Follows(f, n, base, step, s)}
<1>1. 0 \in S
  <2>1. /\ [i \in 0..0 |-> base] \in [0..0 -> T]
        /\ Follows([i \in 0..0 |-> base], 0, base, step, s)
    BY DEF Follows
  <2>. QED
    BY <2>1
<1>2. ASSUME NEW n \in Nat, n \in S
      PROVE  n + 1 \in S
  <2>. SUFFICES ASSUME n + 1 <= Len(s)
                PROVE  \E f \in [0..(n + 1) -> T] : Follows(f, n + 1, base, step, s)
    OBVIOUS
  <2>1. PICK f \in [0..n -> T] : Follows(f, n, base, step, s)
    BY <1>2
  <2>. DEFINE last == step[f[n], s[n + 1]]
              g == [i \in 0..(n + 1) |-> IF i = n + 1 THEN last ELSE f[i]]
  <2>2. last \in T
    <3>1. f[n] \in T /\ s[n + 1] \in U
      BY <2>1
    <3>. QED
      BY <3>1
  <2>. HIDE DEF last
  <2>3. g \in [0..(n + 1) -> T]
    BY <2>1, <2>2
  <2>4. g[n + 1] = last /\ \A i \in 0..n : g[i] = f[i]
    OBVIOUS
  <2>. HIDE DEF g
  <2>5. Follows(g, n + 1, base, step, s)
    <3>1. g[0] = base
      <4>1. 0 \in 0..n
        OBVIOUS
      <4>. QED
        BY <2>1, <2>4, <4>1 DEF Follows
    <3>2. ASSUME NEW i \in 1..(n + 1)
          PROVE  g[i] = step[g[i - 1], s[i]]
      <4>1. i - 1 \in 0..n /\ g[i - 1] = f[i - 1]
        BY <2>4
      <4>2. CASE i = n + 1
        <5>1. i - 1 = n /\ g[i] = last
          BY <2>4, <4>2
        <5>. QED
          BY <4>1, <4>2, <5>1 DEF last
      <4>3. CASE i # n + 1
        <5>1. i \in 1..n /\ g[i] = f[i]
          BY <2>4, <4>3
        <5>. QED
          BY <2>1, <4>1, <5>1 DEF Follows
      <4>. QED
        BY <4>2, <4>3
    <3>. QED
      BY <3>1, <3>2 DEF Follows
  <2>. QED
    BY <2>3, <2>5
<1>. HIDE DEF S
<1>3. Nat \subseteq S
  BY <1>1, <1>2, SetInduction
<1>4. Len(s) \in Nat /\ Len(s) <= Len(s)
  OBVIOUS
<1>. QED
  BY <1>3, <1>4 DEF S

\* Whatever takes the steps of a loop has its values.
LEMMA LoopIsUnique ==
    ASSUME NEW T, NEW n \in Nat, NEW f \in [0..n -> T], NEW g,
           g[0] = f[0],
           \A i \in 1..n : g[i - 1] = f[i - 1] => g[i] = f[i]
    PROVE  g[n] = f[n]
<1>. DEFINE S == {i \in Nat : i <= n => g[i] = f[i]}
<1>1. 0 \in S
  OBVIOUS
<1>2. ASSUME NEW i \in Nat, i \in S
      PROVE  i + 1 \in S
  <2>. SUFFICES ASSUME i + 1 <= n
                PROVE  g[i + 1] = f[i + 1]
    OBVIOUS
  <2>1. g[i] = f[i] /\ i + 1 \in 1..n /\ (i + 1) - 1 = i
    BY <1>2
  <2>. QED
    BY <2>1
<1>. HIDE DEF S
<1>3. Nat \subseteq S
  BY <1>1, <1>2, SetInduction
<1>. QED
  BY <1>3 DEF S

-----------------------------------------------------------------------------
(* The encoder.                                                            *)

EncoderState == [out : Seq(Nat), acc : Nat, bits : 0..4]

\* The powers of two that the shifts are made by.
LEMMA Powers ==
    /\ 2^0 = 1 /\ 2^1 = 2 /\ 2^2 = 4 /\ 2^3 = 8
    /\ 2^4 = 16 /\ 2^5 = 32 /\ 2^6 = 64 /\ 2^7 = 128
    /\ \A k \in 0..7 : 2^k \in {1, 2, 4, 8, 16, 32, 64, 128}
<1>1. /\ 2^0 = 1 /\ 2^1 = 2 /\ 2^2 = 4 /\ 2^3 = 8
      /\ 2^4 = 16 /\ 2^5 = 32 /\ 2^6 = 64 /\ 2^7 = 128
  OBVIOUS
<1>2. ASSUME NEW k \in 0..7
      PROVE  2^k \in {1, 2, 4, 8, 16, 32, 64, 128}
  <2>1. k \in {0, 1, 2, 3, 4, 5, 6, 7}
    OBVIOUS
  <2>2. /\ k = 0 => 2^k = 1
        /\ k = 1 => 2^k = 2
        /\ k = 2 => 2^k = 4
        /\ k = 3 => 2^k = 8
        /\ k = 4 => 2^k = 16
        /\ k = 5 => 2^k = 32
        /\ k = 6 => 2^k = 64
        /\ k = 7 => 2^k = 128
    BY <1>1
  <2>. QED
    BY <2>1, <2>2
<1>. QED
  BY <1>1, <1>2

\* Fewer than five bits are left after each byte.
LEMMA TakeByteType ==
    ASSUME NEW st \in EncoderState, NEW b \in Byte
    PROVE  TakeByte(st, b) \in EncoderState
<1>. DEFINE X == [out : Seq(Nat), acc : Nat, bits : 0..12]
            st1 == [out |-> st.out, acc |-> st.acc * 256 + b, bits |-> st.bits + 8]
<1>1. st1 \in X /\ st1.bits \in 8..12
  <2>1. st.out \in Seq(Nat) /\ st.acc \in Nat /\ st.bits \in 0..4 /\ b \in 0..255
    BY DEF EncoderState, Byte
  <2>2. \A a \in Nat : a * 256 + b \in Nat
    BY <2>1
  <2>3. st.acc * 256 + b \in Nat
    BY <2>1, <2>2
  <2>4. st.bits + 8 \in 8..12
    BY <2>1
  <2>. QED
    BY <2>1, <2>3, <2>4
<1>2. ASSUME NEW x \in X
      PROVE  /\ PushChar(x) \in X
             /\ PushChar(x).bits = IF x.bits < 5 THEN x.bits ELSE x.bits - 5
  <2>. x.bits \in 0..12
    OBVIOUS
  <2>1. CASE x.bits < 5
    BY <2>1 DEF PushChar
  <2>2. CASE x.bits >= 5
    <3>. DEFINE left == x.bits - 5
    <3>1. left \in 0..7 /\ x.acc \in Nat /\ x.out \in Seq(Nat)
      BY <2>2
    <3>2. 2^left \in {1, 2, 4, 8, 16, 32, 64, 128}
      <4>. HIDE DEF left
      <4>. QED
        BY <3>1, Powers
    <3>3. x.acc \div 2^left \in Nat /\ x.acc % 2^left \in Nat
      <4>1. ASSUME NEW p \in {1, 2, 4, 8, 16, 32, 64, 128}, NEW a \in Nat
            PROVE  a \div p \in Nat /\ a % p \in Nat
        BY <4>1
      <4>. QED
        BY <3>1, <3>2, <4>1
    <3>4. PushChar(x) = [out |-> Append(x.out, x.acc \div 2^left),
                         acc |-> x.acc % 2^left, bits |-> left]
      BY <2>2 DEF PushChar
    <3>5. Append(x.out, x.acc \div 2^left) \in Seq(Nat)
      BY <3>1, <3>3
    <3>. QED
      BY <2>2, <3>1, <3>3, <3>4, <3>5
  <2>. QED
    BY <2>1, <2>2
<1>. HIDE DEF X, st1
<1>. DEFINE st2 == PushChar(st1)
            st3 == PushChar(st2)
<1>3. st2 \in X /\ st2.bits \in 3..7
  <2>1. st2 \in X /\ st2.bits = IF st1.bits < 5 THEN st1.bits ELSE st1.bits - 5
    BY <1>1, <1>2
  <2>. QED
    BY <1>1, <2>1
<1>. HIDE DEF st2
<1>4. st3 \in X /\ st3.bits \in 0..4
  <2>1. st3 \in X /\ st3.bits = IF st2.bits < 5 THEN st2.bits ELSE st2.bits - 5
    BY <1>2, <1>3
  <2>. QED
    BY <1>3, <2>1
<1>5. st3 \in EncoderState
  BY <1>4 DEF EncoderState, X
<1>. QED
  BY <1>5 DEF TakeByte, st1, st2

\* The encoder's loop takes a step for each byte.
LEMMA EncoderRuns ==
    ASSUME NEW data \in Seq(Byte)
    PROVE  \E f \in [0..Len(data) -> EncoderState] :
              /\ f[0] = Empty
              /\ \A i \in 1..Len(data) : f[i] = TakeByte(f[i - 1], data[i])
              /\ Encoded(data) = f[Len(data)]
<1>. DEFINE n == Len(data)
            step == [p \in EncoderState \X Byte |-> TakeByte(p[1], p[2])]
<1>1. step \in [EncoderState \X Byte -> EncoderState]
  BY TakeByteType
<1>2. Empty \in EncoderState
  BY DEF Empty, EncoderState
<1>3. \A x \in EncoderState, b \in Byte : step[x, b] = TakeByte(x, b)
  OBVIOUS
<1>. HIDE DEF step
<1>4. PICK f \in [0..n -> EncoderState] : Follows(f, n, Empty, step, data)
  BY <1>1, <1>2, LoopRuns
<1>5. /\ f[0] = Empty
      /\ \A i \in 1..n : f[i] = TakeByte(f[i - 1], data[i])
  <2>1. ASSUME NEW i \in 1..n
        PROVE  f[i] = TakeByte(f[i - 1], data[i])
    <3>1. i - 1 \in 0..n /\ f[i - 1] \in EncoderState /\ data[i] \in Byte
      BY <1>4
    <3>. QED
      BY <1>3, <1>4, <3>1 DEF Follows
  <2>. QED
    BY <1>4, <2>1 DEF Follows
<1>. DEFINE After(g) == [i \in 0..n |-> IF i = 0 THEN Empty ELSE TakeByte(g[i - 1], data[i])]
            K == CHOOSE g : g = After(g)
<1>6. f = After(f)
  BY <1>4, <1>5
<1>7. K = After(K)
  <2>. HIDE DEF After
  <2>. QED
    BY <1>6
<1>8. Encoded(data) = K[n]
  BY DEF Encoded
<1>9. /\ After(K)[0] = Empty
      /\ \A i \in 1..n : After(K)[i] = TakeByte(K[i - 1], data[i])
  OBVIOUS
<1>. HIDE DEF K, After
<1>10. K[0] = f[0] /\ \A i \in 1..n : K[i] = TakeByte(K[i - 1], data[i])
  BY <1>5, <1>7, <1>9
<1>11. \A i \in 1..n : K[i - 1] = f[i - 1] => K[i] = f[i]
  BY <1>5, <1>10
<1>12. n \in Nat
  OBVIOUS
<1>13. K[n] = f[n]
  <2>. HIDE DEF n
  <2>. QED
    BY <1>4, <1>10, <1>11, <1>12, LoopIsUnique
<1>. QED
  BY <1>5, <1>8, <1>13

\* The bytes, and zeroes after them.
At(data, j) == IF j \in 1..Len(data) THEN data[j] ELSE 0

\* The k-th five bits of data: a character in every eight begins with a byte.
Spells(data, k) ==
    LET t == (k - 1) \div 8
        d(j) == At(data, 5 * t + j)
    IN CASE k % 8 = 1 -> d(1) \div 8
         [] k % 8 = 2 -> (d(1) % 8) * 4 + d(2) \div 64
         [] k % 8 = 3 -> (d(2) \div 2) % 32
         [] k % 8 = 4 -> (d(2) % 2) * 16 + d(3) \div 16
         [] k % 8 = 5 -> (d(3) % 16) * 2 + d(4) \div 128
         [] k % 8 = 6 -> (d(4) \div 4) % 32
         [] k % 8 = 7 -> (d(4) % 4) * 8 + d(5) \div 32
         [] OTHER     -> d(5) % 32

\* The same, for each place in a group of eight.
LEMMA SpellsAt ==
    ASSUME NEW data, NEW t \in Nat
    PROVE  /\ Spells(data, 8 * t + 1) = At(data, 5 * t + 1) \div 8
           /\ Spells(data, 8 * t + 2) = (At(data, 5 * t + 1) % 8) * 4 + At(data, 5 * t + 2) \div 64
           /\ Spells(data, 8 * t + 3) = (At(data, 5 * t + 2) \div 2) % 32
           /\ Spells(data, 8 * t + 4) = (At(data, 5 * t + 2) % 2) * 16 + At(data, 5 * t + 3) \div 16
           /\ Spells(data, 8 * t + 5) = (At(data, 5 * t + 3) % 16) * 2 + At(data, 5 * t + 4) \div 128
           /\ Spells(data, 8 * t + 6) = (At(data, 5 * t + 4) \div 4) % 32
           /\ Spells(data, 8 * t + 7) = (At(data, 5 * t + 4) % 4) * 8 + At(data, 5 * t + 5) \div 32
           /\ Spells(data, 8 * t + 8) = At(data, 5 * t + 5) % 32
<1>1. ASSUME NEW m \in 1..8
      PROVE  ((8 * t + m) - 1) \div 8 = t /\ (8 * t + m) % 8 = m % 8
  OBVIOUS
<1>2. Spells(data, 8 * t + 1) = At(data, 5 * t + 1) \div 8
  <2>1. ((8 * t + 1) - 1) \div 8 = t /\ (8 * t + 1) % 8 = 1
    BY <1>1
  <2>. QED
    BY <2>1 DEF Spells
<1>3. Spells(data, 8 * t + 2) = (At(data, 5 * t + 1) % 8) * 4 + At(data, 5 * t + 2) \div 64
  <2>1. ((8 * t + 2) - 1) \div 8 = t /\ (8 * t + 2) % 8 = 2
    BY <1>1
  <2>. QED
    BY <2>1 DEF Spells
<1>4. Spells(data, 8 * t + 3) = (At(data, 5 * t + 2) \div 2) % 32
  <2>1. ((8 * t + 3) - 1) \div 8 = t /\ (8 * t + 3) % 8 = 3
    BY <1>1
  <2>. QED
    BY <2>1 DEF Spells
<1>5. Spells(data, 8 * t + 4) = (At(data, 5 * t + 2) % 2) * 16 + At(data, 5 * t + 3) \div 16
  <2>1. ((8 * t + 4) - 1) \div 8 = t /\ (8 * t + 4) % 8 = 4
    BY <1>1
  <2>. QED
    BY <2>1 DEF Spells
<1>6. Spells(data, 8 * t + 5) = (At(data, 5 * t + 3) % 16) * 2 + At(data, 5 * t + 4) \div 128
  <2>1. ((8 * t + 5) - 1) \div 8 = t /\ (8 * t + 5) % 8 = 5
    BY <1>1
  <2>. QED
    BY <2>1 DEF Spells
<1>7. Spells(data, 8 * t + 6) = (At(data, 5 * t + 4) \div 4) % 32
  <2>1. ((8 * t + 6) - 1) \div 8 = t /\ (8 * t + 6) % 8 = 6
    BY <1>1
  <2>. QED
    BY <2>1 DEF Spells
<1>8. Spells(data, 8 * t + 7) = (At(data, 5 * t + 4) % 4) * 8 + At(data, 5 * t + 5) \div 32
  <2>1. ((8 * t + 7) - 1) \div 8 = t /\ (8 * t + 7) % 8 = 7
    BY <1>1
  <2>. QED
    BY <2>1 DEF Spells
<1>9. Spells(data, 8 * t + 8) = At(data, 5 * t + 5) % 32
  <2>1. ((8 * t + 8) - 1) \div 8 = t /\ (8 * t + 8) % 8 = 0
    BY <1>1
  <2>. QED
    BY <2>1 DEF Spells
<1>. QED
  BY <1>2, <1>3, <1>4, <1>5, <1>6, <1>7, <1>8, <1>9

\* What a byte adds to the text and leaves in the accumulator, for each number
\* of bits it finds there.
LEMMA TakeByteAfter0 ==
    ASSUME NEW o, NEW c \in Byte
    PROVE  TakeByte([out |-> o, acc |-> 0, bits |-> 0], c)
             = [out |-> Append(o, c \div 8), acc |-> c % 8, bits |-> 3]
<1>0. c \in 0..255
  BY DEF Byte
<1>1. 0 * 256 + c = c /\ c \in Nat /\ c % 8 \in Nat
  BY <1>0
<1>2. PushChar([out |-> o, acc |-> c, bits |-> 8])
        = [out |-> Append(o, c \div 8), acc |-> c % 8, bits |-> 3]
  BY <1>1, Powers DEF PushChar
<1>3. PushChar([out |-> Append(o, c \div 8), acc |-> c % 8, bits |-> 3])
        = [out |-> Append(o, c \div 8), acc |-> c % 8, bits |-> 3]
  BY <1>1, Powers DEF PushChar
<1>. QED
  BY <1>1, <1>2, <1>3 DEF TakeByte

\* A byte after three bits: two characters and one bit left.
LEMMA TakeByteAfter3 ==
    ASSUME NEW o, NEW c \in Byte, NEW a \in Nat
    PROVE  TakeByte([out |-> o, acc |-> a, bits |-> 3], c)
             = [out |-> Append(Append(o, a * 4 + c \div 64), (c \div 2) % 32),
                acc |-> c % 2, bits |-> 1]
<1>0. c \in 0..255
  BY DEF Byte
<1>. DEFINE v == a * 256 + c
            p == Append(o, v \div 64)
<1>1. /\ v \in Nat /\ v % 64 \in Nat /\ v \div 64 = a * 4 + c \div 64
      /\ (v % 64) \div 2 = (c \div 2) % 32 /\ (v % 64) % 2 = c % 2
  BY <1>0
<1>. HIDE DEF v
<1>2. PushChar([out |-> o, acc |-> v, bits |-> 11])
        = [out |-> p, acc |-> v % 64, bits |-> 6]
  BY <1>1, Powers DEF PushChar
<1>. HIDE DEF p
<1>3. PushChar([out |-> p, acc |-> v % 64, bits |-> 6])
        = [out |-> Append(p, (v % 64) \div 2), acc |-> (v % 64) % 2, bits |-> 1]
  BY <1>1, Powers DEF PushChar
<1>4. TakeByte([out |-> o, acc |-> a, bits |-> 3], c)
        = PushChar(PushChar([out |-> o, acc |-> v, bits |-> 11]))
  BY DEF TakeByte, v
<1>. QED
  BY <1>1, <1>2, <1>3, <1>4 DEF p

\* A byte after one bit: one character and four bits left.
LEMMA TakeByteAfter1 ==
    ASSUME NEW o, NEW c \in Byte, NEW a \in Nat
    PROVE  TakeByte([out |-> o, acc |-> a, bits |-> 1], c)
             = [out |-> Append(o, a * 16 + c \div 16), acc |-> c % 16, bits |-> 4]
<1>0. c \in 0..255
  BY DEF Byte
<1>. DEFINE v == a * 256 + c
            p == Append(o, v \div 16)
<1>1. v \in Nat /\ v % 16 = c % 16 /\ c % 16 \in Nat /\ v \div 16 = a * 16 + c \div 16
  BY <1>0
<1>. HIDE DEF v
<1>2. PushChar([out |-> o, acc |-> v, bits |-> 9])
        = [out |-> p, acc |-> v % 16, bits |-> 4]
  BY <1>1, Powers DEF PushChar
<1>. HIDE DEF p
<1>3. PushChar([out |-> p, acc |-> v % 16, bits |-> 4])
        = [out |-> p, acc |-> v % 16, bits |-> 4]
  BY <1>1, Powers DEF PushChar
<1>4. TakeByte([out |-> o, acc |-> a, bits |-> 1], c)
        = PushChar(PushChar([out |-> o, acc |-> v, bits |-> 9]))
  BY DEF TakeByte, v
<1>. QED
  BY <1>1, <1>2, <1>3, <1>4 DEF p

\* A byte after four bits: two characters and two bits left.
LEMMA TakeByteAfter4 ==
    ASSUME NEW o, NEW c \in Byte, NEW a \in Nat
    PROVE  TakeByte([out |-> o, acc |-> a, bits |-> 4], c)
             = [out |-> Append(Append(o, a * 2 + c \div 128), (c \div 4) % 32),
                acc |-> c % 4, bits |-> 2]
<1>0. c \in 0..255
  BY DEF Byte
<1>. DEFINE v == a * 256 + c
            p == Append(o, v \div 128)
<1>1. /\ v \in Nat /\ v % 128 \in Nat /\ v \div 128 = a * 2 + c \div 128
      /\ (v % 128) \div 4 = (c \div 4) % 32 /\ (v % 128) % 4 = c % 4
  BY <1>0
<1>. HIDE DEF v
<1>2. PushChar([out |-> o, acc |-> v, bits |-> 12])
        = [out |-> p, acc |-> v % 128, bits |-> 7]
  BY <1>1, Powers DEF PushChar
<1>. HIDE DEF p
<1>3. PushChar([out |-> p, acc |-> v % 128, bits |-> 7])
        = [out |-> Append(p, (v % 128) \div 4), acc |-> (v % 128) % 4, bits |-> 2]
  BY <1>1, Powers DEF PushChar
<1>4. TakeByte([out |-> o, acc |-> a, bits |-> 4], c)
        = PushChar(PushChar([out |-> o, acc |-> v, bits |-> 12]))
  BY DEF TakeByte, v
<1>. QED
  BY <1>1, <1>2, <1>3, <1>4 DEF p

\* A byte after two bits: two characters and none left.
LEMMA TakeByteAfter2 ==
    ASSUME NEW o, NEW c \in Byte, NEW a \in Nat
    PROVE  TakeByte([out |-> o, acc |-> a, bits |-> 2], c)
             = [out |-> Append(Append(o, a * 8 + c \div 32), c % 32), acc |-> 0, bits |-> 0]
<1>0. c \in 0..255
  BY DEF Byte
<1>. DEFINE v == a * 256 + c
            p == Append(o, v \div 32)
<1>1. /\ v \in Nat /\ v % 32 = c % 32 /\ c % 32 \in Nat /\ v \div 32 = a * 8 + c \div 32
      /\ (c % 32) \div 1 = c % 32 /\ (c % 32) % 1 = 0
  BY <1>0
<1>. HIDE DEF v
<1>2. PushChar([out |-> o, acc |-> v, bits |-> 10])
        = [out |-> p, acc |-> v % 32, bits |-> 5]
  BY <1>1, Powers DEF PushChar
<1>. HIDE DEF p
<1>3. PushChar([out |-> p, acc |-> v % 32, bits |-> 5])
        = [out |-> Append(p, v % 32), acc |-> 0, bits |-> 0]
  BY <1>1, Powers, SMTT(40) DEF PushChar
<1>4. TakeByte([out |-> o, acc |-> a, bits |-> 2], c)
        = PushChar(PushChar([out |-> o, acc |-> v, bits |-> 10]))
  BY DEF TakeByte, v
<1>. QED
  BY <1>1, <1>2, <1>3, <1>4 DEF p

\* What of the i-th byte is in no character yet.
Rest(data, i) ==
    CASE i % 5 = 1 -> At(data, i) % 8
      [] i % 5 = 2 -> At(data, i) % 2
      [] i % 5 = 3 -> At(data, i) % 16
      [] i % 5 = 4 -> At(data, i) % 4
      [] OTHER     -> 0

\* After i bytes the text spells them and the accumulator holds the rest.
SpeltUpTo(st, data, i) ==
    /\ Len(st.out) = (8 * i) \div 5
    /\ st.bits = (8 * i) % 5
    /\ st.acc = Rest(data, i)
    /\ \A k \in 1..Len(st.out) : st.out[k] = Spells(data, k)

\* The state of the encoder, put together again.
LEMMA StateIsItsParts ==
    ASSUME NEW st \in EncoderState
    PROVE  /\ st = [out |-> st.out, acc |-> st.acc, bits |-> st.bits]
           /\ st.out \in Seq(Nat) /\ st.acc \in Nat /\ st.bits \in 0..4
<1>1. st.out \in Seq(Nat) /\ st.acc \in Nat /\ st.bits \in 0..4
  BY DEF EncoderState
<1>2. st = [out |-> st.out, acc |-> st.acc, bits |-> st.bits]
  BY ZenonT(30) DEF EncoderState
<1>. QED
  BY <1>1, <1>2

\* A text that grows by a character that data spells goes on spelling it.
LEMMA SpellsOn ==
    ASSUME NEW data, NEW o \in Seq(Nat), NEW q \in Nat, Len(o) = q,
           \A k \in 1..Len(o) : o[k] = Spells(data, k),
           NEW c \in Nat, c = Spells(data, q + 1)
    PROVE  /\ Append(o, c) \in Seq(Nat) /\ Len(Append(o, c)) = q + 1
           /\ \A k \in 1..Len(Append(o, c)) : Append(o, c)[k] = Spells(data, k)
<1>1. Append(o, c) \in Seq(Nat) /\ Len(Append(o, c)) = q + 1
  OBVIOUS
<1>2. Append(o, c)[q + 1] = c /\ \A k \in 1..q : Append(o, c)[k] = o[k]
  OBVIOUS
<1>3. ASSUME NEW k \in 1..(q + 1)
      PROVE  Append(o, c)[k] = Spells(data, k)
  <2>1. CASE k = q + 1
    BY <1>2, <2>1
  <2>2. CASE k # q + 1
    <3>1. k \in 1..q
      BY <2>2
    <3>. QED
      BY <1>2, <3>1
  <2>. QED
    BY <2>1, <2>2
<1>. QED
  BY <1>1, <1>3

\* The bits of a byte, taken apart.
LEMMA ByteParts ==
    ASSUME NEW c \in Byte
    PROVE  /\ c \in Nat
           /\ c \div 8 \in 0..31 /\ c % 8 \in 0..7
           /\ c \div 64 \in 0..3 /\ (c \div 2) % 32 \in 0..31 /\ c % 2 \in 0..1
           /\ c \div 16 \in 0..15 /\ c % 16 \in 0..15
           /\ c \div 128 \in 0..1 /\ (c \div 4) % 32 \in 0..31 /\ c % 4 \in 0..3
           /\ c \div 32 \in 0..7 /\ c % 32 \in 0..31
BY DEF Byte

\* What is left over, by the place of the byte in its group of five.
LEMMA RestAt ==
    ASSUME NEW data, NEW i \in Nat
    PROVE  /\ i % 5 = 0 => Rest(data, i) = 0
           /\ i % 5 = 1 => Rest(data, i) = At(data, i) % 8
           /\ i % 5 = 2 => Rest(data, i) = At(data, i) % 2
           /\ i % 5 = 3 => Rest(data, i) = At(data, i) % 16
           /\ i % 5 = 4 => Rest(data, i) = At(data, i) % 4
<1>. DEFINE u == i % 5
<1>1. Rest(data, i) = CASE u = 1 -> At(data, i) % 8
                        [] u = 2 -> At(data, i) % 2
                        [] u = 3 -> At(data, i) % 16
                        [] u = 4 -> At(data, i) % 4
                        [] OTHER -> 0
  BY DEF Rest
<1>. HIDE DEF u
<1>2. u = 0 => Rest(data, i) = 0
  BY <1>1
<1>3. u = 1 => Rest(data, i) = At(data, i) % 8
  BY <1>1
<1>4. u = 2 => Rest(data, i) = At(data, i) % 2
  BY <1>1
<1>5. u = 3 => Rest(data, i) = At(data, i) % 16
  BY <1>1
<1>6. u = 4 => Rest(data, i) = At(data, i) % 4
  BY <1>1
<1>. QED
  BY <1>2, <1>3, <1>4, <1>5, <1>6 DEF u

\* Each byte is spelt in its turn, whatever the bytes before it left over.
LEMMA SpeltByByte ==
    ASSUME NEW data \in Seq(Byte), NEW i \in Nat, i + 1 <= Len(data),
           NEW st \in EncoderState, SpeltUpTo(st, data, i)
    PROVE  SpeltUpTo(TakeByte(st, data[i + 1]), data, i + 1)
<1>. DEFINE c == data[i + 1]
            a == st.acc
            o == st.out
            t == i \div 5
            u == i % 5
            w == TakeByte(st, c)
<1>1. /\ c \in Byte /\ At(data, i + 1) = c
      /\ At(data, i) \in Byte
  <2>1. i + 1 \in 1..Len(data) /\ \A j \in 1..Len(data) : data[j] \in Byte
    OBVIOUS
  <2>. QED
    BY <2>1 DEF At, Byte
<1>2. t \in Nat /\ u \in 0..4 /\ i = 5 * t + u
  OBVIOUS
<1>3. st = [out |-> o, acc |-> a, bits |-> st.bits] /\ o \in Seq(Nat) /\ a \in Nat
  BY StateIsItsParts
<1>4. SUFFICES SpeltUpTo(w, data, i + 1)
  OBVIOUS
<1>5. Len(o) = (8 * i) \div 5 /\ st.bits = (8 * i) % 5 /\ a = Rest(data, i)
  BY DEF SpeltUpTo
<1>6. \A k \in 1..Len(o) : o[k] = Spells(data, k)
  BY DEF SpeltUpTo
<1>. HIDE DEF c, t, u, a, o
<1>7. CASE u = 0
  <2>. DEFINE x == c \div 8
              p == Append(o, x)
  <2>1. /\ (8 * i) \div 5 = 8 * t + 0 /\ (8 * i) % 5 = 0 /\ i % 5 = 0
        /\ (8 * (i + 1)) \div 5 = 8 * t + 1 /\ (8 * (i + 1)) % 5 = 3 /\ (i + 1) % 5 = 1
        /\ i = 5 * t + 0 /\ i + 1 = 5 * t + 1
    BY <1>2, <1>7
  <2>2. a = 0 /\ st.bits = 0 /\ Len(o) = 8 * t + 0
    BY <1>5, <2>1, RestAt
  <2>3. a = 0
    BY <1>1, <2>2
  <2>4. /\ At(data, 5 * t + 1) = c
        /\ At(data, 5 * t + 0) = At(data, i)
    BY <1>1, <2>1
  <2>5. w = [out |-> Append(o, c \div 8), acc |-> c % 8, bits |-> 3]
    <3>1. st = [out |-> o, acc |-> 0, bits |-> 0]
      BY <1>3, <2>2, <2>3
    <3>2. TakeByte([out |-> o, acc |-> 0, bits |-> 0], c) = [out |-> Append(o, c \div 8), acc |-> c % 8, bits |-> 3]
      BY <1>1, TakeByteAfter0
    <3>. QED
      BY <1>3, <2>3, <3>1, <3>2
  <2>. HIDE DEF w
  <2>6. x = Spells(data, (8 * t + 0) + 1) /\ x \in Nat
    <3>1. (8 * t + 0) + 1 = 8 * t + 1
      BY <1>2
    <3>2. x = Spells(data, 8 * t + 1)
      BY <1>2, <2>2, <2>4, SpellsAt
    <3>3. x \in Nat
      BY <1>1, <1>3, <2>3, ByteParts
    <3>. QED
      BY <3>1, <3>2, <3>3
  <2>. HIDE DEF x
  <2>7. /\ p \in Seq(Nat) /\ Len(p) = 8 * t + 1
        /\ \A k \in 1..Len(p) : p[k] = Spells(data, k)
    <3>1. 8 * t + 0 \in Nat /\ (8 * t + 0) + 1 = 8 * t + 1
      BY <1>2
    <3>. QED
      BY <1>3, <1>6, <2>2, <2>6, <3>1, SpellsOn
  <2>. HIDE DEF p
  <2>8. Rest(data, i + 1) = c % 8
    BY <1>1, <1>2, <2>1, RestAt
  <2>9. w.out = p /\ w.acc = c % 8 /\ w.bits = 3
    BY <2>5 DEF x, p
  <2>. QED
    BY <2>1, <2>7, <2>8, <2>9 DEF SpeltUpTo
<1>8. CASE u = 1
  <2>. DEFINE x == a * 4 + c \div 64
              p == Append(o, x)
  <2>1. /\ (8 * i) \div 5 = 8 * t + 1 /\ (8 * i) % 5 = 3 /\ i % 5 = 1
        /\ (8 * (i + 1)) \div 5 = 8 * t + 3 /\ (8 * (i + 1)) % 5 = 1 /\ (i + 1) % 5 = 2
        /\ i = 5 * t + 1 /\ i + 1 = 5 * t + 2
    BY <1>2, <1>8
  <2>2. a = At(data, i) % 8 /\ st.bits = 3 /\ Len(o) = 8 * t + 1
    BY <1>5, <2>1, RestAt
  <2>3. a \in 0..7
    BY <1>1, <2>2, ByteParts
  <2>4. /\ At(data, 5 * t + 2) = c
        /\ At(data, 5 * t + 1) = At(data, i)
    BY <1>1, <2>1
  <2>5. w = [out |-> Append(Append(o, a * 4 + c \div 64), (c \div 2) % 32), acc |-> c % 2, bits |-> 1]
    <3>1. st = [out |-> o, acc |-> a, bits |-> 3]
      BY <1>3, <2>2
    <3>2. \A v \in Nat :
            TakeByte([out |-> o, acc |-> v, bits |-> 3], c)
              = [out |-> Append(Append(o, v * 4 + c \div 64), (c \div 2) % 32), acc |-> c % 2, bits |-> 1]
      BY <1>1, TakeByteAfter3
    <3>. QED
      BY <1>3, <2>3, <3>1, <3>2
  <2>. HIDE DEF w
  <2>6. x = Spells(data, (8 * t + 1) + 1) /\ x \in Nat
    <3>1. (8 * t + 1) + 1 = 8 * t + 2
      BY <1>2
    <3>2. x = Spells(data, 8 * t + 2)
      BY <1>2, <2>2, <2>4, SpellsAt
    <3>3. x \in Nat
      BY <1>1, <1>3, <2>3, ByteParts
    <3>. QED
      BY <3>1, <3>2, <3>3
  <2>. DEFINE y == (c \div 2) % 32
              r == Append(p, y)
  <2>7. y = Spells(data, (8 * t + 2) + 1) /\ y \in Nat
    <3>1. (8 * t + 2) + 1 = 8 * t + 3
      BY <1>2
    <3>2. y = Spells(data, 8 * t + 3)
      BY <1>2, <2>4, SpellsAt
    <3>. QED
      BY <1>1, <3>1, <3>2, ByteParts
  <2>. HIDE DEF x, y
  <2>8. /\ p \in Seq(Nat) /\ Len(p) = 8 * t + 2
        /\ \A k \in 1..Len(p) : p[k] = Spells(data, k)
    <3>1. 8 * t + 1 \in Nat /\ (8 * t + 1) + 1 = 8 * t + 2
      BY <1>2
    <3>. QED
      BY <1>3, <1>6, <2>2, <2>6, <3>1, SpellsOn
  <2>. HIDE DEF p
  <2>9. /\ r \in Seq(Nat) /\ Len(r) = 8 * t + 3
        /\ \A k \in 1..Len(r) : r[k] = Spells(data, k)
    <3>1. 8 * t + 2 \in Nat /\ (8 * t + 2) + 1 = 8 * t + 3
      BY <1>2
    <3>. QED
      BY <2>7, <2>8, <3>1, SpellsOn
  <2>. HIDE DEF r
  <2>10. Rest(data, i + 1) = c % 2
    BY <1>1, <1>2, <2>1, RestAt
  <2>11. w.out = r /\ w.acc = c % 2 /\ w.bits = 1
    BY <2>5 DEF x, p, y, r
  <2>. QED
    BY <2>1, <2>9, <2>10, <2>11 DEF SpeltUpTo
<1>9. CASE u = 2
  <2>. DEFINE x == a * 16 + c \div 16
              p == Append(o, x)
  <2>1. /\ (8 * i) \div 5 = 8 * t + 3 /\ (8 * i) % 5 = 1 /\ i % 5 = 2
        /\ (8 * (i + 1)) \div 5 = 8 * t + 4 /\ (8 * (i + 1)) % 5 = 4 /\ (i + 1) % 5 = 3
        /\ i = 5 * t + 2 /\ i + 1 = 5 * t + 3
    BY <1>2, <1>9
  <2>2. a = At(data, i) % 2 /\ st.bits = 1 /\ Len(o) = 8 * t + 3
    BY <1>5, <2>1, RestAt
  <2>3. a \in 0..1
    BY <1>1, <2>2, ByteParts
  <2>4. /\ At(data, 5 * t + 3) = c
        /\ At(data, 5 * t + 2) = At(data, i)
    BY <1>1, <2>1
  <2>5. w = [out |-> Append(o, a * 16 + c \div 16), acc |-> c % 16, bits |-> 4]
    <3>1. st = [out |-> o, acc |-> a, bits |-> 1]
      BY <1>3, <2>2
    <3>2. \A v \in Nat :
            TakeByte([out |-> o, acc |-> v, bits |-> 1], c)
              = [out |-> Append(o, v * 16 + c \div 16), acc |-> c % 16, bits |-> 4]
      BY <1>1, TakeByteAfter1
    <3>. QED
      BY <1>3, <2>3, <3>1, <3>2
  <2>. HIDE DEF w
  <2>6. x = Spells(data, (8 * t + 3) + 1) /\ x \in Nat
    <3>1. (8 * t + 3) + 1 = 8 * t + 4
      BY <1>2
    <3>2. x = Spells(data, 8 * t + 4)
      BY <1>2, <2>2, <2>4, SpellsAt
    <3>3. x \in Nat
      BY <1>1, <1>3, <2>3, ByteParts
    <3>. QED
      BY <3>1, <3>2, <3>3
  <2>. HIDE DEF x
  <2>7. /\ p \in Seq(Nat) /\ Len(p) = 8 * t + 4
        /\ \A k \in 1..Len(p) : p[k] = Spells(data, k)
    <3>1. 8 * t + 3 \in Nat /\ (8 * t + 3) + 1 = 8 * t + 4
      BY <1>2
    <3>. QED
      BY <1>3, <1>6, <2>2, <2>6, <3>1, SpellsOn, SMTT(40)
  <2>. HIDE DEF p
  <2>8. Rest(data, i + 1) = c % 16
    BY <1>1, <1>2, <2>1, RestAt
  <2>9. w.out = p /\ w.acc = c % 16 /\ w.bits = 4
    BY <2>5 DEF x, p
  <2>. QED
    BY <2>1, <2>7, <2>8, <2>9 DEF SpeltUpTo
<1>10. CASE u = 3
  <2>. DEFINE x == a * 2 + c \div 128
              p == Append(o, x)
  <2>1. /\ (8 * i) \div 5 = 8 * t + 4 /\ (8 * i) % 5 = 4 /\ i % 5 = 3
        /\ (8 * (i + 1)) \div 5 = 8 * t + 6 /\ (8 * (i + 1)) % 5 = 2 /\ (i + 1) % 5 = 4
        /\ i = 5 * t + 3 /\ i + 1 = 5 * t + 4
    BY <1>2, <1>10
  <2>2. a = At(data, i) % 16 /\ st.bits = 4 /\ Len(o) = 8 * t + 4
    BY <1>5, <2>1, RestAt
  <2>3. a \in 0..15
    BY <1>1, <2>2, ByteParts
  <2>4. /\ At(data, 5 * t + 4) = c
        /\ At(data, 5 * t + 3) = At(data, i)
    BY <1>1, <2>1
  <2>5. w = [out |-> Append(Append(o, a * 2 + c \div 128), (c \div 4) % 32), acc |-> c % 4, bits |-> 2]
    <3>1. st = [out |-> o, acc |-> a, bits |-> 4]
      BY <1>3, <2>2
    <3>2. \A v \in Nat :
            TakeByte([out |-> o, acc |-> v, bits |-> 4], c)
              = [out |-> Append(Append(o, v * 2 + c \div 128), (c \div 4) % 32), acc |-> c % 4, bits |-> 2]
      BY <1>1, TakeByteAfter4
    <3>. QED
      BY <1>3, <2>3, <3>1, <3>2
  <2>. HIDE DEF w
  <2>6. x = Spells(data, (8 * t + 4) + 1) /\ x \in Nat
    <3>1. (8 * t + 4) + 1 = 8 * t + 5
      BY <1>2
    <3>2. x = Spells(data, 8 * t + 5)
      BY <1>2, <2>2, <2>4, SpellsAt
    <3>3. x \in Nat
      BY <1>1, <1>3, <2>3, ByteParts
    <3>. QED
      BY <3>1, <3>2, <3>3
  <2>. DEFINE y == (c \div 4) % 32
              r == Append(p, y)
  <2>7. y = Spells(data, (8 * t + 5) + 1) /\ y \in Nat
    <3>1. (8 * t + 5) + 1 = 8 * t + 6
      BY <1>2
    <3>2. y = Spells(data, 8 * t + 6)
      BY <1>2, <2>4, SpellsAt
    <3>. QED
      BY <1>1, <3>1, <3>2, ByteParts
  <2>. HIDE DEF x, y
  <2>8. /\ p \in Seq(Nat) /\ Len(p) = 8 * t + 5
        /\ \A k \in 1..Len(p) : p[k] = Spells(data, k)
    <3>1. 8 * t + 4 \in Nat /\ (8 * t + 4) + 1 = 8 * t + 5
      BY <1>2
    <3>. QED
      BY <1>3, <1>6, <2>2, <2>6, <3>1, SpellsOn, SMTT(40)
  <2>. HIDE DEF p
  <2>9. /\ r \in Seq(Nat) /\ Len(r) = 8 * t + 6
        /\ \A k \in 1..Len(r) : r[k] = Spells(data, k)
    <3>1. 8 * t + 5 \in Nat /\ (8 * t + 5) + 1 = 8 * t + 6
      BY <1>2
    <3>. QED
      BY <2>7, <2>8, <3>1, SpellsOn
  <2>. HIDE DEF r
  <2>10. Rest(data, i + 1) = c % 4
    BY <1>1, <1>2, <2>1, RestAt
  <2>11. w.out = r /\ w.acc = c % 4 /\ w.bits = 2
    BY <2>5 DEF x, p, y, r
  <2>. QED
    BY <2>1, <2>9, <2>10, <2>11 DEF SpeltUpTo
<1>11. CASE u = 4
  <2>. DEFINE x == a * 8 + c \div 32
              p == Append(o, x)
  <2>1. /\ (8 * i) \div 5 = 8 * t + 6 /\ (8 * i) % 5 = 2 /\ i % 5 = 4
        /\ (8 * (i + 1)) \div 5 = 8 * t + 8 /\ (8 * (i + 1)) % 5 = 0 /\ (i + 1) % 5 = 0
        /\ i = 5 * t + 4 /\ i + 1 = 5 * t + 5
    BY <1>2, <1>11
  <2>2. a = At(data, i) % 4 /\ st.bits = 2 /\ Len(o) = 8 * t + 6
    BY <1>5, <2>1, RestAt
  <2>3. a \in 0..3
    BY <1>1, <2>2, ByteParts
  <2>4. /\ At(data, 5 * t + 5) = c
        /\ At(data, 5 * t + 4) = At(data, i)
    BY <1>1, <2>1
  <2>5. w = [out |-> Append(Append(o, a * 8 + c \div 32), c % 32), acc |-> 0, bits |-> 0]
    <3>1. st = [out |-> o, acc |-> a, bits |-> 2]
      BY <1>3, <2>2
    <3>2. \A v \in Nat :
            TakeByte([out |-> o, acc |-> v, bits |-> 2], c)
              = [out |-> Append(Append(o, v * 8 + c \div 32), c % 32), acc |-> 0, bits |-> 0]
      BY <1>1, TakeByteAfter2
    <3>. QED
      BY <1>3, <2>3, <3>1, <3>2
  <2>. HIDE DEF w
  <2>6. x = Spells(data, (8 * t + 6) + 1) /\ x \in Nat
    <3>1. (8 * t + 6) + 1 = 8 * t + 7
      BY <1>2
    <3>2. x = Spells(data, 8 * t + 7)
      BY <1>2, <2>2, <2>4, SpellsAt
    <3>3. x \in Nat
      BY <1>1, <1>3, <2>3, ByteParts
    <3>. QED
      BY <3>1, <3>2, <3>3
  <2>. DEFINE y == c % 32
              r == Append(p, y)
  <2>7. y = Spells(data, (8 * t + 7) + 1) /\ y \in Nat
    <3>1. (8 * t + 7) + 1 = 8 * t + 8
      BY <1>2
    <3>2. y = Spells(data, 8 * t + 8)
      BY <1>2, <2>4, SpellsAt
    <3>. QED
      BY <1>1, <3>1, <3>2, ByteParts
  <2>. HIDE DEF x, y
  <2>8. /\ p \in Seq(Nat) /\ Len(p) = 8 * t + 7
        /\ \A k \in 1..Len(p) : p[k] = Spells(data, k)
    <3>1. 8 * t + 6 \in Nat /\ (8 * t + 6) + 1 = 8 * t + 7
      BY <1>2
    <3>. QED
      BY <1>3, <1>6, <2>2, <2>6, <3>1, SpellsOn, SMTT(40)
  <2>. HIDE DEF p
  <2>9. /\ r \in Seq(Nat) /\ Len(r) = 8 * t + 8
        /\ \A k \in 1..Len(r) : r[k] = Spells(data, k)
    <3>1. 8 * t + 7 \in Nat /\ (8 * t + 7) + 1 = 8 * t + 8
      BY <1>2
    <3>. QED
      BY <2>7, <2>8, <3>1, SpellsOn
  <2>. HIDE DEF r
  <2>10. Rest(data, i + 1) = 0
    BY <1>1, <1>2, <2>1, RestAt
  <2>11. w.out = r /\ w.acc = 0 /\ w.bits = 0
    BY <2>5 DEF x, p, y, r
  <2>. QED
    BY <2>1, <2>9, <2>10, <2>11 DEF SpeltUpTo
<1>12. u = 0 \/ u = 1 \/ u = 2 \/ u = 3 \/ u = 4
  BY <1>2
<1>. QED
  BY <1>7, <1>8, <1>9, <1>10, <1>11, <1>12

\* What is spelt is a character of the alphabet.
LEMMA SpellsType ==
    ASSUME NEW data \in Seq(Byte), NEW k \in Nat, k >= 1
    PROVE  Spells(data, k) \in 0..31
<1>. DEFINE t == (k - 1) \div 8
            m == (k - 1) % 8
<1>1. t \in Nat /\ m \in 0..7 /\ k = 8 * t + (m + 1)
  OBVIOUS
<1>2. ASSUME NEW j \in Nat
      PROVE  At(data, j) \in 0..255
  <2>1. CASE j \in 1..Len(data)
    <3>1. data[j] \in Byte
      BY <2>1
    <3>. QED
      BY <2>1, <3>1 DEF At, Byte
  <2>2. CASE j \notin 1..Len(data)
    BY <2>2 DEF At
  <2>. QED
    BY <2>1, <2>2
<1>. DEFINE a1 == At(data, 5 * t + 1)
            a2 == At(data, 5 * t + 2)
            a3 == At(data, 5 * t + 3)
            a4 == At(data, 5 * t + 4)
            a5 == At(data, 5 * t + 5)
<1>3. a1 \in 0..255 /\ a2 \in 0..255 /\ a3 \in 0..255 /\ a4 \in 0..255 /\ a5 \in 0..255
  BY <1>1, <1>2, SMTT(40)
<1>4. /\ Spells(data, 8 * t + 1) = a1 \div 8
      /\ Spells(data, 8 * t + 2) = (a1 % 8) * 4 + a2 \div 64
      /\ Spells(data, 8 * t + 3) = (a2 \div 2) % 32
      /\ Spells(data, 8 * t + 4) = (a2 % 2) * 16 + a3 \div 16
      /\ Spells(data, 8 * t + 5) = (a3 % 16) * 2 + a4 \div 128
      /\ Spells(data, 8 * t + 6) = (a4 \div 4) % 32
      /\ Spells(data, 8 * t + 7) = (a4 % 4) * 8 + a5 \div 32
      /\ Spells(data, 8 * t + 8) = a5 % 32
  BY <1>1, SpellsAt
<1>. HIDE DEF a1, a2, a3, a4, a5, t, m
<1>5. a1 \div 8 \in 0..31 /\ (a1 % 8) * 4 + a2 \div 64 \in 0..31
  BY <1>3
<1>6. (a2 \div 2) % 32 \in 0..31 /\ (a2 % 2) * 16 + a3 \div 16 \in 0..31
  BY <1>3
<1>7. (a3 % 16) * 2 + a4 \div 128 \in 0..31 /\ (a4 \div 4) % 32 \in 0..31
  BY <1>3
<1>8. (a4 % 4) * 8 + a5 \div 32 \in 0..31 /\ a5 % 32 \in 0..31
  BY <1>3
<1>9. /\ Spells(data, 8 * t + 1) \in 0..31 /\ Spells(data, 8 * t + 2) \in 0..31
      /\ Spells(data, 8 * t + 3) \in 0..31 /\ Spells(data, 8 * t + 4) \in 0..31
  BY <1>4, <1>5, <1>6
<1>10. /\ Spells(data, 8 * t + 5) \in 0..31 /\ Spells(data, 8 * t + 6) \in 0..31
       /\ Spells(data, 8 * t + 7) \in 0..31 /\ Spells(data, 8 * t + 8) \in 0..31
  BY <1>4, <1>7, <1>8
<1>11. \/ k = 8 * t + 1 \/ k = 8 * t + 2 \/ k = 8 * t + 3 \/ k = 8 * t + 4
       \/ k = 8 * t + 5 \/ k = 8 * t + 6 \/ k = 8 * t + 7 \/ k = 8 * t + 8
  BY <1>1
<1>. QED
  BY <1>9, <1>10, <1>11

\* The text of any bytes spells their bits, five to a character, and no more
\* characters than it takes.
LEMMA EncodeSpells ==
    ASSUME NEW data \in Seq(Byte)
    PROVE  /\ b32_encode(data) \in Seq(0..31)
           /\ Len(b32_encode(data)) = (8 * Len(data) + 4) \div 5
           /\ \A k \in 1..Len(b32_encode(data)) : b32_encode(data)[k] = Spells(data, k)
<1>. DEFINE n == Len(data)
            text == b32_encode(data)
<1>1. PICK f \in [0..n -> EncoderState] :
              /\ f[0] = Empty
              /\ \A i \in 1..n : f[i] = TakeByte(f[i - 1], data[i])
              /\ Encoded(data) = f[n]
  BY EncoderRuns
<1>2. n \in Nat
  OBVIOUS
<1>. DEFINE S == {i \in Nat : i <= n => SpeltUpTo(f[i], data, i)}
<1>3. 0 \in S
  <2>1. Rest(data, 0) = 0
    BY RestAt
  <2>2. Empty.out = <<>> /\ Empty.acc = 0 /\ Empty.bits = 0
    BY DEF Empty
  <2>3. Len(<<>>) = 0 /\ (8 * 0) \div 5 = 0 /\ (8 * 0) % 5 = 0
    OBVIOUS
  <2>. QED
    BY <1>1, <2>1, <2>2, <2>3 DEF SpeltUpTo
<1>4. ASSUME NEW i \in Nat, i \in S
      PROVE  i + 1 \in S
  <2>. SUFFICES ASSUME i + 1 <= n
                PROVE  SpeltUpTo(f[i + 1], data, i + 1)
    OBVIOUS
  <2>1. i \in 0..n /\ i + 1 \in 1..n /\ (i + 1) - 1 = i
    BY <1>2
  <2>2. f[i] \in EncoderState /\ f[i + 1] = TakeByte(f[i], data[i + 1])
    BY <1>1, <2>1
  <2>3. SpeltUpTo(f[i], data, i)
    BY <1>4, <2>1
  <2>. QED
    BY <2>2, <2>3, SpeltByByte
<1>. HIDE DEF S
<1>5. Nat \subseteq S
  BY <1>3, <1>4, SetInduction
<1>. DEFINE end == f[n]
            o == end.out
            t == n \div 5
            u == n % 5
<1>6. end \in EncoderState /\ SpeltUpTo(end, data, n)
  BY <1>1, <1>2, <1>5 DEF S
<1>7. /\ text = IF end.bits > 0 THEN Append(o, end.acc * 2^(5 - end.bits)) ELSE o
      /\ o \in Seq(Nat) /\ end.acc \in Nat /\ end.bits \in 0..4
  BY <1>1, <1>6, StateIsItsParts DEF b32_encode
<1>8. /\ Len(o) = (8 * n) \div 5 /\ end.bits = (8 * n) % 5 /\ end.acc = Rest(data, n)
      /\ \A k \in 1..Len(o) : o[k] = Spells(data, k)
  BY <1>6 DEF SpeltUpTo
<1>9. t \in Nat /\ u \in 0..4 /\ n = 5 * t + u
  BY <1>2
<1>10. At(data, n + 1) = 0
  BY <1>2 DEF At
<1>11. /\ text \in Seq(Nat) /\ Len(text) = (8 * n + 4) \div 5
       /\ \A k \in 1..Len(text) : text[k] = Spells(data, k)
  <2>. HIDE DEF n, text, o, t, u
  <2>. DEFINE b == end.bits
              a == end.acc
  <2>. HIDE DEF end
  <2>1. CASE u = 0
    <3>1. (8 * n) % 5 = 0 /\ (8 * n + 4) \div 5 = (8 * n) \div 5
      BY <1>9, <2>1
    <3>2. text = o
      BY <1>7, <1>8, <3>1
    <3>. QED
      BY <1>7, <1>8, <3>1, <3>2
  <2>2. CASE u = 1
    <3>1. /\ (8 * n) % 5 = 3 /\ (8 * n) \div 5 = 8 * t + 1
          /\ (8 * n + 4) \div 5 = 8 * t + 2 /\ n % 5 = 1
          /\ n + 1 = 5 * t + 2 /\ (8 * t + 1) + 1 = 8 * t + 2
      BY <1>9, <2>2
    <3>2. b = 3 /\ a = At(data, n) % 8 /\ Len(o) = 8 * t + 1
      BY <1>2, <1>8, <3>1, RestAt
    <3>3. text = Append(o, a * 4)
      BY <1>7, <3>2, Powers
    <3>4. Spells(data, 8 * t + 2) = (At(data, 5 * t + 1) % 8) * 4 + At(data, 5 * t + 2) \div 64
      BY <1>9, SpellsAt
    <3>5. a * 4 \in Nat /\ a * 4 = Spells(data, (8 * t + 1) + 1)
      <4>1. At(data, 5 * t + 1) = At(data, n) /\ At(data, 5 * t + 2) = 0
        BY <1>9, <1>10, <2>2, <3>1
      <4>2. a * 4 + 0 \div 64 = a * 4 /\ a * 4 \in Nat
        BY <1>7
      <4>. QED
        BY <3>1, <3>2, <3>4, <4>1, <4>2
    <3>. DEFINE x == a * 4
    <3>6. 8 * t + 1 \in Nat
      BY <1>9
    <3>. HIDE DEF x
    <3>7. /\ Append(o, x) \in Seq(Nat) /\ Len(Append(o, x)) = (8 * t + 1) + 1
          /\ \A k \in 1..Len(Append(o, x)) : Append(o, x)[k] = Spells(data, k)
      <4>1. x \in Nat /\ x = Spells(data, (8 * t + 1) + 1)
        BY <3>5 DEF x
      <4>. QED
        BY <1>7, <1>8, <3>2, <3>6, <4>1, SpellsOn, ZenonT(40)
    <3>8. text = Append(o, x)
      BY <3>3 DEF x
    <3>. QED
      BY <3>1, <3>7, <3>8
  <2>3. CASE u = 2
    <3>1. /\ (8 * n) % 5 = 1 /\ (8 * n) \div 5 = 8 * t + 3
          /\ (8 * n + 4) \div 5 = 8 * t + 4 /\ n % 5 = 2
          /\ n + 1 = 5 * t + 3 /\ (8 * t + 3) + 1 = 8 * t + 4
      BY <1>9, <2>3
    <3>2. b = 1 /\ a = At(data, n) % 2 /\ Len(o) = 8 * t + 3
      BY <1>2, <1>8, <3>1, RestAt
    <3>3. text = Append(o, a * 16)
      BY <1>7, <3>2, Powers
    <3>4. Spells(data, 8 * t + 4) = (At(data, 5 * t + 2) % 2) * 16 + At(data, 5 * t + 3) \div 16
      BY <1>9, SpellsAt
    <3>5. a * 16 \in Nat /\ a * 16 = Spells(data, (8 * t + 3) + 1)
      <4>1. At(data, 5 * t + 2) = At(data, n) /\ At(data, 5 * t + 3) = 0
        BY <1>9, <1>10, <2>3, <3>1
      <4>2. a * 16 + 0 \div 16 = a * 16 /\ a * 16 \in Nat
        BY <1>7
      <4>. QED
        BY <3>1, <3>2, <3>4, <4>1, <4>2
    <3>. DEFINE x == a * 16
    <3>6. 8 * t + 3 \in Nat
      BY <1>9
    <3>. HIDE DEF x
    <3>7. /\ Append(o, x) \in Seq(Nat) /\ Len(Append(o, x)) = (8 * t + 3) + 1
          /\ \A k \in 1..Len(Append(o, x)) : Append(o, x)[k] = Spells(data, k)
      <4>1. x \in Nat /\ x = Spells(data, (8 * t + 3) + 1)
        BY <3>5 DEF x
      <4>. QED
        BY <1>7, <1>8, <3>2, <3>6, <4>1, SpellsOn
    <3>8. text = Append(o, x)
      BY <3>3 DEF x
    <3>. QED
      BY <3>1, <3>7, <3>8
  <2>4. CASE u = 3
    <3>1. /\ (8 * n) % 5 = 4 /\ (8 * n) \div 5 = 8 * t + 4
          /\ (8 * n + 4) \div 5 = 8 * t + 5 /\ n % 5 = 3
          /\ n + 1 = 5 * t + 4 /\ (8 * t + 4) + 1 = 8 * t + 5
      BY <1>9, <2>4
    <3>2. b = 4 /\ a = At(data, n) % 16 /\ Len(o) = 8 * t + 4
      BY <1>2, <1>8, <3>1, RestAt
    <3>3. text = Append(o, a * 2)
      BY <1>7, <3>2, Powers
    <3>4. Spells(data, 8 * t + 5) = (At(data, 5 * t + 3) % 16) * 2 + At(data, 5 * t + 4) \div 128
      BY <1>9, SpellsAt
    <3>5. a * 2 \in Nat /\ a * 2 = Spells(data, (8 * t + 4) + 1)
      <4>1. At(data, 5 * t + 3) = At(data, n) /\ At(data, 5 * t + 4) = 0
        BY <1>9, <1>10, <2>4, <3>1
      <4>2. a * 2 + 0 \div 128 = a * 2 /\ a * 2 \in Nat
        BY <1>7
      <4>. QED
        BY <3>1, <3>2, <3>4, <4>1, <4>2
    <3>. DEFINE x == a * 2
    <3>6. 8 * t + 4 \in Nat
      BY <1>9
    <3>. HIDE DEF x
    <3>7. /\ Append(o, x) \in Seq(Nat) /\ Len(Append(o, x)) = (8 * t + 4) + 1
          /\ \A k \in 1..Len(Append(o, x)) : Append(o, x)[k] = Spells(data, k)
      <4>1. x \in Nat /\ x = Spells(data, (8 * t + 4) + 1)
        BY <3>5 DEF x
      <4>. QED
        BY <1>7, <1>8, <3>2, <3>6, <4>1, SpellsOn, SMTT(40)
    <3>8. text = Append(o, x)
      BY <3>3 DEF x
    <3>. QED
      BY <3>1, <3>7, <3>8
  <2>5. CASE u = 4
    <3>1. /\ (8 * n) % 5 = 2 /\ (8 * n) \div 5 = 8 * t + 6
          /\ (8 * n + 4) \div 5 = 8 * t + 7 /\ n % 5 = 4
          /\ n + 1 = 5 * t + 5 /\ (8 * t + 6) + 1 = 8 * t + 7
      BY <1>9, <2>5
    <3>2. b = 2 /\ a = At(data, n) % 4 /\ Len(o) = 8 * t + 6
      BY <1>2, <1>8, <3>1, RestAt
    <3>3. text = Append(o, a * 8)
      BY <1>7, <3>2, Powers
    <3>4. Spells(data, 8 * t + 7) = (At(data, 5 * t + 4) % 4) * 8 + At(data, 5 * t + 5) \div 32
      BY <1>9, SpellsAt
    <3>5. a * 8 \in Nat /\ a * 8 = Spells(data, (8 * t + 6) + 1)
      <4>1. At(data, 5 * t + 4) = At(data, n) /\ At(data, 5 * t + 5) = 0
        BY <1>9, <1>10, <2>5, <3>1
      <4>2. a * 8 + 0 \div 32 = a * 8 /\ a * 8 \in Nat
        BY <1>7
      <4>. QED
        BY <3>1, <3>2, <3>4, <4>1, <4>2
    <3>. DEFINE x == a * 8
    <3>6. 8 * t + 6 \in Nat
      BY <1>9
    <3>. HIDE DEF x
    <3>7. /\ Append(o, x) \in Seq(Nat) /\ Len(Append(o, x)) = (8 * t + 6) + 1
          /\ \A k \in 1..Len(Append(o, x)) : Append(o, x)[k] = Spells(data, k)
      <4>1. x \in Nat /\ x = Spells(data, (8 * t + 6) + 1)
        BY <3>5 DEF x
      <4>. QED
        BY <1>7, <1>8, <3>2, <3>6, <4>1, SpellsOn, ZenonT(40)
    <3>8. text = Append(o, x)
      BY <3>3 DEF x
    <3>. QED
      BY <3>1, <3>7, <3>8
  <2>6. u = 0 \/ u = 1 \/ u = 2 \/ u = 3 \/ u = 4
    BY <1>9
  <2>. QED
    BY <2>1, <2>2, <2>3, <2>4, <2>5, <2>6
<1>12. \A k \in 1..Len(text) : text[k] \in 0..31
  <2>1. ASSUME NEW k \in 1..Len(text)
        PROVE  text[k] \in 0..31
    <3>. HIDE DEF text
    <3>1. k \in Nat /\ k >= 1 /\ text[k] = Spells(data, k)
      BY <1>11
    <3>. QED
      BY <3>1, SpellsType
  <2>. QED
    BY <2>1
<1>13. text \in Seq(0..31)
  <2>. HIDE DEF text
  <2>. QED
    BY <1>11, <1>12
<1>. QED
  BY <1>11, <1>13

-----------------------------------------------------------------------------
(* The decoder.                                                            *)

DecoderState == [out : Seq(Nat), acc : Nat, bits : 0..7]

\* Fewer than eight bits are left after each character.
LEMMA TakeCharType ==
    ASSUME NEW st \in DecoderState, NEW v \in 0..31
    PROVE  TakeChar(st, v) \in DecoderState
<1>1. st.out \in Seq(Nat) /\ st.acc \in Nat /\ st.bits \in 0..7
  BY DEF DecoderState
<1>. DEFINE acc == st.acc * 32 + v
            left == st.bits - 3
<1>2. acc \in Nat
  <2>1. \A a \in Nat : a * 32 + v \in Nat
    OBVIOUS
  <2>. QED
    BY <1>1, <2>1
<1>3. left \in Int /\ left < 5 /\ st.bits = left + 3
  BY <1>1
<1>4. TakeChar(st, v) = IF left < 0
                        THEN [out |-> st.out, acc |-> acc, bits |-> st.bits + 5]
                        ELSE [out  |-> Append(st.out, acc \div 2^left),
                              acc  |-> acc % 2^left,
                              bits |-> left]
  BY DEF TakeChar
<1>. HIDE DEF acc, left
<1>5. CASE left < 0
  <2>1. st.bits + 5 \in 0..7
    BY <1>1, <1>3, <1>5
  <2>. QED
    BY <1>1, <1>2, <1>4, <1>5, <2>1 DEF DecoderState
<1>6. CASE left >= 0
  <2>1. left \in 0..7 /\ ~(left < 0)
    BY <1>3, <1>6
  <2>2. 2^left \in {1, 2, 4, 8, 16, 32, 64, 128}
    BY <2>1, Powers
  <2>3. ASSUME NEW p \in {1, 2, 4, 8, 16, 32, 64, 128}
        PROVE  acc \div p \in Nat /\ acc % p \in Nat
    BY <1>2, <2>3
  <2>4. acc \div 2^left \in Nat /\ acc % 2^left \in Nat
    BY <2>2, <2>3
  <2>5. Append(st.out, acc \div 2^left) \in Seq(Nat)
    BY <1>1, <2>4
  <2>. QED
    BY <1>4, <2>1, <2>4, <2>5 DEF DecoderState
<1>. QED
  BY <1>3, <1>5, <1>6

\* The decoder's loop takes a step for each character.
LEMMA DecoderRuns ==
    ASSUME NEW values \in Seq(0..31)
    PROVE  \E f \in [0..Len(values) -> DecoderState] :
              /\ f[0] = Empty
              /\ \A i \in 1..Len(values) : f[i] = TakeChar(f[i - 1], values[i])
              /\ Decoded(values) = f[Len(values)].out
<1>. DEFINE n == Len(values)
            step == [p \in DecoderState \X (0..31) |-> TakeChar(p[1], p[2])]
<1>1. step \in [DecoderState \X (0..31) -> DecoderState]
  BY TakeCharType
<1>2. Empty \in DecoderState
  BY DEF Empty, DecoderState
<1>3. \A x \in DecoderState, v \in 0..31 : step[x, v] = TakeChar(x, v)
  OBVIOUS
<1>. HIDE DEF step
<1>4. PICK f \in [0..n -> DecoderState] : Follows(f, n, Empty, step, values)
  BY <1>1, <1>2, LoopRuns
<1>5. /\ f[0] = Empty
      /\ \A i \in 1..n : f[i] = TakeChar(f[i - 1], values[i])
  <2>1. ASSUME NEW i \in 1..n
        PROVE  f[i] = TakeChar(f[i - 1], values[i])
    <3>1. i - 1 \in 0..n /\ f[i - 1] \in DecoderState
      BY <1>4
    <3>2. values[i] \in 0..31
      BY EntryOf
    <3>. QED
      BY <1>3, <1>4, <3>1, <3>2 DEF Follows
  <2>. QED
    BY <1>4, <2>1 DEF Follows
<1>. DEFINE After(g) == [i \in 0..n |-> IF i = 0 THEN Empty ELSE TakeChar(g[i - 1], values[i])]
            K == CHOOSE g : g = After(g)
<1>6. f = After(f)
  BY <1>4, <1>5
<1>7. K = After(K)
  <2>. HIDE DEF After
  <2>. QED
    BY <1>6
<1>8. Decoded(values) = K[n].out
  BY DEF Decoded
<1>9. /\ After(K)[0] = Empty
      /\ \A i \in 1..n : After(K)[i] = TakeChar(K[i - 1], values[i])
  OBVIOUS
<1>. HIDE DEF K, After
<1>10. K[0] = f[0] /\ \A i \in 1..n : K[i] = TakeChar(K[i - 1], values[i])
  BY <1>5, <1>7, <1>9
<1>11. \A i \in 1..n : K[i - 1] = f[i - 1] => K[i] = f[i]
  BY <1>5, <1>10
<1>12. n \in Nat
  OBVIOUS
<1>13. K[n] = f[n]
  <2>. HIDE DEF n
  <2>. QED
    BY <1>4, <1>10, <1>11, <1>12, LoopIsUnique
<1>. QED
  BY <1>5, <1>8, <1>13

\* The k-th eight bits of the characters c: a byte in every five begins with one.
Reads(c, k) ==
    LET t == (k - 1) \div 5
        d(j) == At(c, 8 * t + j)
    IN CASE k % 5 = 1 -> d(1) * 8 + d(2) \div 4
         [] k % 5 = 2 -> (d(2) % 4) * 64 + d(3) * 2 + d(4) \div 16
         [] k % 5 = 3 -> (d(4) % 16) * 16 + d(5) \div 2
         [] k % 5 = 4 -> (d(5) % 2) * 128 + d(6) * 4 + d(7) \div 8
         [] OTHER     -> (d(7) % 8) * 32 + d(8)

\* The same, for each place in a group of five.
LEMMA ReadsAt ==
    ASSUME NEW c, NEW t \in Nat
    PROVE  /\ Reads(c, 5 * t + 1) = At(c, 8 * t + 1) * 8 + At(c, 8 * t + 2) \div 4
           /\ Reads(c, 5 * t + 2) = (At(c, 8 * t + 2) % 4) * 64 + At(c, 8 * t + 3) * 2 + At(c, 8 * t + 4) \div 16
           /\ Reads(c, 5 * t + 3) = (At(c, 8 * t + 4) % 16) * 16 + At(c, 8 * t + 5) \div 2
           /\ Reads(c, 5 * t + 4) = (At(c, 8 * t + 5) % 2) * 128 + At(c, 8 * t + 6) * 4 + At(c, 8 * t + 7) \div 8
           /\ Reads(c, 5 * t + 5) = (At(c, 8 * t + 7) % 8) * 32 + At(c, 8 * t + 8)
<1>1. ASSUME NEW w \in 1..5
      PROVE  ((5 * t + w) - 1) \div 5 = t /\ (5 * t + w) % 5 = w % 5
  OBVIOUS
<1>2. Reads(c, 5 * t + 1) = At(c, 8 * t + 1) * 8 + At(c, 8 * t + 2) \div 4
  <2>1. ((5 * t + 1) - 1) \div 5 = t /\ (5 * t + 1) % 5 = 1
    BY <1>1
  <2>. QED
    BY <2>1 DEF Reads
<1>3. Reads(c, 5 * t + 2) = (At(c, 8 * t + 2) % 4) * 64 + At(c, 8 * t + 3) * 2 + At(c, 8 * t + 4) \div 16
  <2>1. ((5 * t + 2) - 1) \div 5 = t /\ (5 * t + 2) % 5 = 2
    BY <1>1
  <2>. QED
    BY <2>1 DEF Reads
<1>4. Reads(c, 5 * t + 3) = (At(c, 8 * t + 4) % 16) * 16 + At(c, 8 * t + 5) \div 2
  <2>1. ((5 * t + 3) - 1) \div 5 = t /\ (5 * t + 3) % 5 = 3
    BY <1>1
  <2>. QED
    BY <2>1 DEF Reads
<1>5. Reads(c, 5 * t + 4) = (At(c, 8 * t + 5) % 2) * 128 + At(c, 8 * t + 6) * 4 + At(c, 8 * t + 7) \div 8
  <2>1. ((5 * t + 4) - 1) \div 5 = t /\ (5 * t + 4) % 5 = 4
    BY <1>1
  <2>. QED
    BY <2>1 DEF Reads
<1>6. Reads(c, 5 * t + 5) = (At(c, 8 * t + 7) % 8) * 32 + At(c, 8 * t + 8)
  <2>1. ((5 * t + 5) - 1) \div 5 = t /\ (5 * t + 5) % 5 = 0
    BY <1>1
  <2>. QED
    BY <2>1 DEF Reads
<1>. QED
  BY <1>2, <1>3, <1>4, <1>5, <1>6

\* What of the first m characters is in no byte yet.
Pending(c, m) ==
    CASE m % 8 = 1 -> At(c, m)
      [] m % 8 = 2 -> At(c, m) % 4
      [] m % 8 = 3 -> (At(c, m - 1) % 4) * 32 + At(c, m)
      [] m % 8 = 4 -> At(c, m) % 16
      [] m % 8 = 5 -> At(c, m) % 2
      [] m % 8 = 6 -> (At(c, m - 1) % 2) * 32 + At(c, m)
      [] m % 8 = 7 -> At(c, m) % 8
      [] OTHER     -> 0

\* The same, by the place of the last character in its group of eight.
LEMMA PendingAt ==
    ASSUME NEW c, NEW m \in Nat
    PROVE  /\ m % 8 = 0 => Pending(c, m) = 0
           /\ m % 8 = 1 => Pending(c, m) = At(c, m)
           /\ m % 8 = 2 => Pending(c, m) = At(c, m) % 4
           /\ m % 8 = 3 => Pending(c, m) = (At(c, m - 1) % 4) * 32 + At(c, m)
           /\ m % 8 = 4 => Pending(c, m) = At(c, m) % 16
           /\ m % 8 = 5 => Pending(c, m) = At(c, m) % 2
           /\ m % 8 = 6 => Pending(c, m) = (At(c, m - 1) % 2) * 32 + At(c, m)
           /\ m % 8 = 7 => Pending(c, m) = At(c, m) % 8
<1>. DEFINE u == m % 8
<1>1. Pending(c, m) = CASE u = 1 -> At(c, m)
                        [] u = 2 -> At(c, m) % 4
                        [] u = 3 -> (At(c, m - 1) % 4) * 32 + At(c, m)
                        [] u = 4 -> At(c, m) % 16
                        [] u = 5 -> At(c, m) % 2
                        [] u = 6 -> (At(c, m - 1) % 2) * 32 + At(c, m)
                        [] u = 7 -> At(c, m) % 8
                        [] OTHER -> 0
  BY DEF Pending
<1>. HIDE DEF u
<1>2. u = 0 => Pending(c, m) = 0
  BY <1>1
<1>3. u = 1 => Pending(c, m) = At(c, m)
  BY <1>1
<1>4. u = 2 => Pending(c, m) = At(c, m) % 4
  BY <1>1
<1>5. u = 3 => Pending(c, m) = (At(c, m - 1) % 4) * 32 + At(c, m)
  BY <1>1
<1>6. u = 4 => Pending(c, m) = At(c, m) % 16
  BY <1>1
<1>7. u = 5 => Pending(c, m) = At(c, m) % 2
  BY <1>1
<1>8. u = 6 => Pending(c, m) = (At(c, m - 1) % 2) * 32 + At(c, m)
  BY <1>1
<1>9. u = 7 => Pending(c, m) = At(c, m) % 8
  BY <1>1
<1>. QED
  BY <1>2, <1>3, <1>4, <1>5, <1>6, <1>7, <1>8, <1>9 DEF u

\* What a character makes of 0 bits that are pending.
LEMMA TakeCharAfter0 ==
    ASSUME NEW o, NEW v \in 0..31
    PROVE  TakeChar([out |-> o, acc |-> 0, bits |-> 0], v)
             = [out |-> o, acc |-> v, bits |-> 5]
<1>1. 0 * 32 + v = v
  OBVIOUS
<1>. QED
  BY <1>1 DEF TakeChar

\* What a character makes of 5 bits that are pending.
LEMMA TakeCharAfter5 ==
    ASSUME NEW o, NEW v \in 0..31, NEW a \in Nat
    PROVE  TakeChar([out |-> o, acc |-> a, bits |-> 5], v)
             = [out |-> Append(o, a * 8 + v \div 4), acc |-> v % 4, bits |-> 2]
<1>. DEFINE x == a * 32 + v
<1>1. x \div 4 = a * 8 + v \div 4 /\ x % 4 = v % 4
  OBVIOUS
<1>2. TakeChar([out |-> o, acc |-> a, bits |-> 5], v)
        = [out |-> Append(o, x \div 2^2), acc |-> x % 2^2, bits |-> 2]
  BY DEF TakeChar
<1>. HIDE DEF x
<1>. QED
  BY <1>1, <1>2, Powers

\* What a character makes of 2 bits that are pending.
LEMMA TakeCharAfter2 ==
    ASSUME NEW o, NEW v \in 0..31, NEW a \in Nat
    PROVE  TakeChar([out |-> o, acc |-> a, bits |-> 2], v)
             = [out |-> o, acc |-> a * 32 + v, bits |-> 7]
BY DEF TakeChar

\* What a character makes of 7 bits that are pending.
LEMMA TakeCharAfter7 ==
    ASSUME NEW o, NEW v \in 0..31, NEW a \in Nat
    PROVE  TakeChar([out |-> o, acc |-> a, bits |-> 7], v)
             = [out |-> Append(o, a * 2 + v \div 16), acc |-> v % 16, bits |-> 4]
<1>. DEFINE x == a * 32 + v
<1>1. x \div 16 = a * 2 + v \div 16 /\ x % 16 = v % 16
  OBVIOUS
<1>2. TakeChar([out |-> o, acc |-> a, bits |-> 7], v)
        = [out |-> Append(o, x \div 2^4), acc |-> x % 2^4, bits |-> 4]
  BY DEF TakeChar
<1>. HIDE DEF x
<1>. QED
  BY <1>1, <1>2, Powers

\* What a character makes of 4 bits that are pending.
LEMMA TakeCharAfter4 ==
    ASSUME NEW o, NEW v \in 0..31, NEW a \in Nat
    PROVE  TakeChar([out |-> o, acc |-> a, bits |-> 4], v)
             = [out |-> Append(o, a * 16 + v \div 2), acc |-> v % 2, bits |-> 1]
<1>. DEFINE x == a * 32 + v
<1>1. x \div 2 = a * 16 + v \div 2 /\ x % 2 = v % 2
  OBVIOUS
<1>2. TakeChar([out |-> o, acc |-> a, bits |-> 4], v)
        = [out |-> Append(o, x \div 2^1), acc |-> x % 2^1, bits |-> 1]
  BY DEF TakeChar
<1>. HIDE DEF x
<1>. QED
  BY <1>1, <1>2, Powers

\* What a character makes of 1 bits that are pending.
LEMMA TakeCharAfter1 ==
    ASSUME NEW o, NEW v \in 0..31, NEW a \in Nat
    PROVE  TakeChar([out |-> o, acc |-> a, bits |-> 1], v)
             = [out |-> o, acc |-> a * 32 + v, bits |-> 6]
BY DEF TakeChar

\* What a character makes of 6 bits that are pending.
LEMMA TakeCharAfter6 ==
    ASSUME NEW o, NEW v \in 0..31, NEW a \in Nat
    PROVE  TakeChar([out |-> o, acc |-> a, bits |-> 6], v)
             = [out |-> Append(o, a * 4 + v \div 8), acc |-> v % 8, bits |-> 3]
<1>. DEFINE x == a * 32 + v
<1>1. x \div 8 = a * 4 + v \div 8 /\ x % 8 = v % 8
  OBVIOUS
<1>2. TakeChar([out |-> o, acc |-> a, bits |-> 6], v)
        = [out |-> Append(o, x \div 2^3), acc |-> x % 2^3, bits |-> 3]
  BY DEF TakeChar
<1>. HIDE DEF x
<1>. QED
  BY <1>1, <1>2, Powers

\* What a character makes of 3 bits that are pending.
LEMMA TakeCharAfter3 ==
    ASSUME NEW o, NEW v \in 0..31, NEW a \in Nat
    PROVE  TakeChar([out |-> o, acc |-> a, bits |-> 3], v)
             = [out |-> Append(o, a * 32 + v), acc |-> 0, bits |-> 0]
<1>. DEFINE x == a * 32 + v
<1>1. x \div 1 = a * 32 + v /\ x % 1 = 0
  OBVIOUS
<1>2. TakeChar([out |-> o, acc |-> a, bits |-> 3], v)
        = [out |-> Append(o, x \div 2^0), acc |-> x % 2^0, bits |-> 0]
  BY DEF TakeChar
<1>. HIDE DEF x
<1>. QED
  BY <1>1, <1>2, Powers

\* After m characters the bytes are those they hold, and the accumulator holds
\* the bits that are pending.
ReadUpTo(st, c, m) ==
    /\ Len(st.out) = (5 * m) \div 8
    /\ st.bits = (5 * m) % 8
    /\ st.acc = Pending(c, m)
    /\ \A k \in 1..Len(st.out) : st.out[k] = Reads(c, k)

\* The state of the decoder, put together again.
LEMMA DecoderStateParts ==
    ASSUME NEW st \in DecoderState
    PROVE  /\ st = [out |-> st.out, acc |-> st.acc, bits |-> st.bits]
           /\ st.out \in Seq(Nat) /\ st.acc \in Nat /\ st.bits \in 0..7
<1>1. st.out \in Seq(Nat) /\ st.acc \in Nat /\ st.bits \in 0..7
  BY DEF DecoderState
<1>2. st = [out |-> st.out, acc |-> st.acc, bits |-> st.bits]
  BY ZenonT(30) DEF DecoderState
<1>. QED
  BY <1>1, <1>2

\* Bytes that grow by one that the characters hold are still those they hold.
LEMMA ReadsOn ==
    ASSUME NEW c, NEW o \in Seq(Nat), NEW q \in Nat, Len(o) = q,
           \A k \in 1..Len(o) : o[k] = Reads(c, k),
           NEW b \in Nat, b = Reads(c, q + 1)
    PROVE  /\ Append(o, b) \in Seq(Nat) /\ Len(Append(o, b)) = q + 1
           /\ \A k \in 1..Len(Append(o, b)) : Append(o, b)[k] = Reads(c, k)
<1>1. Append(o, b) \in Seq(Nat) /\ Len(Append(o, b)) = q + 1
  OBVIOUS
<1>2. Append(o, b)[q + 1] = b /\ \A k \in 1..q : Append(o, b)[k] = o[k]
  OBVIOUS
<1>3. ASSUME NEW k \in 1..(q + 1)
      PROVE  Append(o, b)[k] = Reads(c, k)
  <2>1. CASE k = q + 1
    BY <1>2, <2>1
  <2>2. CASE k # q + 1
    <3>1. k \in 1..q
      BY <2>2
    <3>. QED
      BY <1>2, <3>1
  <2>. QED
    BY <2>1, <2>2
<1>. QED
  BY <1>1, <1>3

\* Each character is read in its turn, whatever the ones before it left over.
LEMMA ReadByCharacter ==
    ASSUME NEW c \in Seq(0..31), NEW m \in Nat, m + 1 <= Len(c),
           NEW st \in DecoderState, ReadUpTo(st, c, m)
    PROVE  ReadUpTo(TakeChar(st, c[m + 1]), c, m + 1)
<1>. DEFINE v == c[m + 1]
            a == st.acc
            o == st.out
            t == m \div 8
            u == m % 8
            w == TakeChar(st, v)
<1>1. /\ v \in 0..31 /\ At(c, m + 1) = v
      /\ At(c, m) \in 0..31 /\ At(c, m - 1) \in 0..31
  <2>1. m + 1 \in 1..Len(c) /\ \A j \in 1..Len(c) : c[j] \in 0..31
    BY EntryOf
  <2>. QED
    BY <2>1 DEF At
<1>2. t \in Nat /\ u \in 0..7 /\ m = 8 * t + u
  OBVIOUS
<1>3. st = [out |-> o, acc |-> a, bits |-> st.bits] /\ o \in Seq(Nat) /\ a \in Nat
  BY DecoderStateParts
<1>4. SUFFICES ReadUpTo(w, c, m + 1)
  OBVIOUS
<1>5. Len(o) = (5 * m) \div 8 /\ st.bits = (5 * m) % 8 /\ a = Pending(c, m)
  BY DEF ReadUpTo
<1>6. \A k \in 1..Len(o) : o[k] = Reads(c, k)
  BY DEF ReadUpTo
<1>16. a \in Nat
  BY <1>3
<1>17. \A x \in 0..31 : x \in Nat /\ x % 4 \in Nat /\ x % 2 \in Nat /\ x \div 16 \in Nat /\ x \div 8 \in Nat
  OBVIOUS
<1>. HIDE DEF v, t, u, a, o
<1>7. CASE u = 0
  <2>1. /\ (5 * m) \div 8 = 5 * t + 0 /\ (5 * m) % 8 = 0 /\ m % 8 = 0
        /\ (5 * (m + 1)) \div 8 = 5 * t + 0 /\ (5 * (m + 1)) % 8 = 5 /\ (m + 1) % 8 = 1
        /\ m = 8 * t + 0 /\ m + 1 = 8 * t + 1 /\ m - 1 = 8 * t + -1 /\ (m + 1) - 1 = m
    BY <1>2, <1>7
  <2>2. a = 0 /\ st.bits = 0 /\ Len(o) = 5 * t + 0
    BY <1>5, <2>1, PendingAt
  <2>3. Pending(c, m + 1) = At(c, m + 1)
    BY <1>1, <1>2, <2>1, PendingAt
  <2>4. w = [out |-> o, acc |-> v, bits |-> 5]
    <3>1. st = [out |-> o, acc |-> 0, bits |-> 0]
      BY <1>3, <2>2
    <3>. QED
      BY <1>1, <1>3, <3>1, TakeCharAfter0
  <2>. HIDE DEF w
  <2>5. Pending(c, m + 1) = v
    BY <1>1, <2>1, <2>2, <2>3
  <2>6. w.out = o /\ w.acc = Pending(c, m + 1) /\ w.bits = 5
    BY <2>4, <2>5
  <2>. QED
    BY <1>6, <2>1, <2>2, <2>6 DEF ReadUpTo
<1>8. CASE u = 1
  <2>1. /\ (5 * m) \div 8 = 5 * t + 0 /\ (5 * m) % 8 = 5 /\ m % 8 = 1
        /\ (5 * (m + 1)) \div 8 = 5 * t + 1 /\ (5 * (m + 1)) % 8 = 2 /\ (m + 1) % 8 = 2
        /\ m = 8 * t + 1 /\ m + 1 = 8 * t + 2 /\ m - 1 = 8 * t + 0 /\ (m + 1) - 1 = m
    BY <1>2, <1>8
  <2>2. a = At(c, m) /\ st.bits = 5 /\ Len(o) = 5 * t + 0
    BY <1>5, <2>1, PendingAt
  <2>3. Pending(c, m + 1) = At(c, m + 1) % 4
    BY <1>1, <1>2, <2>1, PendingAt
  <2>. DEFINE x == a * 8 + v \div 4
              p == Append(o, x)
  <2>4. w = [out |-> p, acc |-> v % 4, bits |-> 2]
    <3>1. st = [out |-> o, acc |-> a, bits |-> 5]
      BY <1>3, <2>2
    <3>. QED
      BY <1>1, <1>3, <3>1, TakeCharAfter5
  <2>. HIDE DEF w
  <2>5. x = Reads(c, (5 * t + 0) + 1) /\ x \in Nat
    <3>1. (5 * t + 0) + 1 = 5 * t + 1 /\ 5 * t + 0 \in Nat
      BY <1>2
    <3>2. At(c, 8 * t + 2) = v /\ At(c, 8 * t + 1) = At(c, m) /\ At(c, 8 * t + 0) = At(c, m - 1)
      BY <1>1, <2>1
    <3>3. Reads(c, 5 * t + 1) = At(c, 8 * t + 1) * 8 + At(c, 8 * t + 2) \div 4
      BY <1>2, ReadsAt
    <3>4. x = At(c, m) * 8 + v \div 4
      BY <1>1, <2>2
    <3>5. x \in Nat
      BY <1>1, <1>16
    <3>. QED
      BY <3>1, <3>2, <3>3, <3>4, <3>5
  <2>. HIDE DEF x
  <2>6. /\ p \in Seq(Nat) /\ Len(p) = 5 * t + 1
        /\ \A k \in 1..Len(p) : p[k] = Reads(c, k)
    <3>1. (5 * t + 0) + 1 = 5 * t + 1 /\ 5 * t + 0 \in Nat
      BY <1>2
    <3>. QED
      BY <1>3, <1>6, <2>2, <2>5, <3>1, ReadsOn
  <2>. HIDE DEF p
  <2>7. w.out = p /\ w.acc = Pending(c, m + 1) /\ w.bits = 2
    BY <1>1, <2>3, <2>4
  <2>. QED
    BY <2>1, <2>6, <2>7 DEF ReadUpTo
<1>9. CASE u = 2
  <2>1. /\ (5 * m) \div 8 = 5 * t + 1 /\ (5 * m) % 8 = 2 /\ m % 8 = 2
        /\ (5 * (m + 1)) \div 8 = 5 * t + 1 /\ (5 * (m + 1)) % 8 = 7 /\ (m + 1) % 8 = 3
        /\ m = 8 * t + 2 /\ m + 1 = 8 * t + 3 /\ m - 1 = 8 * t + 1 /\ (m + 1) - 1 = m
    BY <1>2, <1>9
  <2>2. a = At(c, m) % 4 /\ st.bits = 2 /\ Len(o) = 5 * t + 1
    BY <1>5, <2>1, PendingAt
  <2>3. Pending(c, m + 1) = (At(c, (m + 1) - 1) % 4) * 32 + At(c, m + 1)
    BY <1>1, <1>2, <2>1, PendingAt
  <2>4. w = [out |-> o, acc |-> a * 32 + v, bits |-> 7]
    <3>1. st = [out |-> o, acc |-> a, bits |-> 2]
      BY <1>3, <2>2
    <3>. QED
      BY <1>1, <1>3, <3>1, TakeCharAfter2
  <2>. HIDE DEF w
  <2>5. Pending(c, m + 1) = a * 32 + v
    BY <1>1, <2>1, <2>2, <2>3
  <2>6. w.out = o /\ w.acc = Pending(c, m + 1) /\ w.bits = 7
    BY <2>4, <2>5
  <2>. QED
    BY <1>6, <2>1, <2>2, <2>6 DEF ReadUpTo
<1>10. CASE u = 3
  <2>1. /\ (5 * m) \div 8 = 5 * t + 1 /\ (5 * m) % 8 = 7 /\ m % 8 = 3
        /\ (5 * (m + 1)) \div 8 = 5 * t + 2 /\ (5 * (m + 1)) % 8 = 4 /\ (m + 1) % 8 = 4
        /\ m = 8 * t + 3 /\ m + 1 = 8 * t + 4 /\ m - 1 = 8 * t + 2 /\ (m + 1) - 1 = m
    BY <1>2, <1>10
  <2>2. a = (At(c, m - 1) % 4) * 32 + At(c, m) /\ st.bits = 7 /\ Len(o) = 5 * t + 1
    BY <1>5, <2>1, PendingAt
  <2>3. Pending(c, m + 1) = At(c, m + 1) % 16
    BY <1>1, <1>2, <2>1, PendingAt
  <2>. DEFINE x == a * 2 + v \div 16
              p == Append(o, x)
  <2>4. w = [out |-> p, acc |-> v % 16, bits |-> 4]
    <3>1. st = [out |-> o, acc |-> a, bits |-> 7]
      BY <1>3, <2>2
    <3>. QED
      BY <1>1, <1>3, <3>1, TakeCharAfter7
  <2>. HIDE DEF w
  <2>5. x = Reads(c, (5 * t + 1) + 1) /\ x \in Nat
    <3>1. (5 * t + 1) + 1 = 5 * t + 2 /\ 5 * t + 1 \in Nat
      BY <1>2
    <3>2. At(c, 8 * t + 4) = v /\ At(c, 8 * t + 3) = At(c, m) /\ At(c, 8 * t + 2) = At(c, m - 1)
      BY <1>1, <2>1
    <3>3. Reads(c, 5 * t + 2) = (At(c, 8 * t + 2) % 4) * 64 + At(c, 8 * t + 3) * 2 + At(c, 8 * t + 4) \div 16
      BY <1>2, ReadsAt
    <3>4. x = (At(c, m - 1) % 4) * 64 + At(c, m) * 2 + v \div 16
      <4>. DEFINE y == At(c, m - 1) % 4
                  z == At(c, m)
                  s == v \div 16
      <4>1. y \in Nat /\ z \in Nat /\ s \in Nat
        BY <1>1, <1>17
      <4>2. a = y * 32 + z
        BY <2>2
      <4>. HIDE DEF y, z, s
      <4>3. a * 2 + s = y * 64 + z * 2 + s
        BY <4>1, <4>2
      <4>. QED
        BY <4>3 DEF y, z, s
    <3>5. x \in Nat
      BY <1>1, <1>16
    <3>. QED
      BY <3>1, <3>2, <3>3, <3>4, <3>5
  <2>. HIDE DEF x
  <2>6. /\ p \in Seq(Nat) /\ Len(p) = 5 * t + 2
        /\ \A k \in 1..Len(p) : p[k] = Reads(c, k)
    <3>1. (5 * t + 1) + 1 = 5 * t + 2 /\ 5 * t + 1 \in Nat
      BY <1>2
    <3>. QED
      BY <1>3, <1>6, <2>2, <2>5, <3>1, ReadsOn, SMTT(40)
  <2>. HIDE DEF p
  <2>7. w.out = p /\ w.acc = Pending(c, m + 1) /\ w.bits = 4
    BY <1>1, <2>3, <2>4
  <2>. QED
    BY <2>1, <2>6, <2>7 DEF ReadUpTo
<1>11. CASE u = 4
  <2>1. /\ (5 * m) \div 8 = 5 * t + 2 /\ (5 * m) % 8 = 4 /\ m % 8 = 4
        /\ (5 * (m + 1)) \div 8 = 5 * t + 3 /\ (5 * (m + 1)) % 8 = 1 /\ (m + 1) % 8 = 5
        /\ m = 8 * t + 4 /\ m + 1 = 8 * t + 5 /\ m - 1 = 8 * t + 3 /\ (m + 1) - 1 = m
    BY <1>2, <1>11
  <2>2. a = At(c, m) % 16 /\ st.bits = 4 /\ Len(o) = 5 * t + 2
    BY <1>5, <2>1, PendingAt
  <2>3. Pending(c, m + 1) = At(c, m + 1) % 2
    BY <1>1, <1>2, <2>1, PendingAt
  <2>. DEFINE x == a * 16 + v \div 2
              p == Append(o, x)
  <2>4. w = [out |-> p, acc |-> v % 2, bits |-> 1]
    <3>1. st = [out |-> o, acc |-> a, bits |-> 4]
      BY <1>3, <2>2
    <3>. QED
      BY <1>1, <1>3, <3>1, TakeCharAfter4
  <2>. HIDE DEF w
  <2>5. x = Reads(c, (5 * t + 2) + 1) /\ x \in Nat
    <3>1. (5 * t + 2) + 1 = 5 * t + 3 /\ 5 * t + 2 \in Nat
      BY <1>2
    <3>2. At(c, 8 * t + 5) = v /\ At(c, 8 * t + 4) = At(c, m) /\ At(c, 8 * t + 3) = At(c, m - 1)
      BY <1>1, <2>1
    <3>3. Reads(c, 5 * t + 3) = (At(c, 8 * t + 4) % 16) * 16 + At(c, 8 * t + 5) \div 2
      BY <1>2, ReadsAt
    <3>4. x = (At(c, m) % 16) * 16 + v \div 2
      BY <1>1, <2>2
    <3>5. x \in Nat
      BY <1>1, <1>16
    <3>. QED
      BY <3>1, <3>2, <3>3, <3>4, <3>5
  <2>. HIDE DEF x
  <2>6. /\ p \in Seq(Nat) /\ Len(p) = 5 * t + 3
        /\ \A k \in 1..Len(p) : p[k] = Reads(c, k)
    <3>1. (5 * t + 2) + 1 = 5 * t + 3 /\ 5 * t + 2 \in Nat
      BY <1>2
    <3>. QED
      BY <1>3, <1>6, <2>2, <2>5, <3>1, ReadsOn, SMTT(40)
  <2>. HIDE DEF p
  <2>7. w.out = p /\ w.acc = Pending(c, m + 1) /\ w.bits = 1
    BY <1>1, <2>3, <2>4
  <2>. QED
    BY <2>1, <2>6, <2>7 DEF ReadUpTo
<1>12. CASE u = 5
  <2>1. /\ (5 * m) \div 8 = 5 * t + 3 /\ (5 * m) % 8 = 1 /\ m % 8 = 5
        /\ (5 * (m + 1)) \div 8 = 5 * t + 3 /\ (5 * (m + 1)) % 8 = 6 /\ (m + 1) % 8 = 6
        /\ m = 8 * t + 5 /\ m + 1 = 8 * t + 6 /\ m - 1 = 8 * t + 4 /\ (m + 1) - 1 = m
    BY <1>2, <1>12
  <2>2. a = At(c, m) % 2 /\ st.bits = 1 /\ Len(o) = 5 * t + 3
    BY <1>5, <2>1, PendingAt
  <2>3. Pending(c, m + 1) = (At(c, (m + 1) - 1) % 2) * 32 + At(c, m + 1)
    BY <1>1, <1>2, <2>1, PendingAt
  <2>4. w = [out |-> o, acc |-> a * 32 + v, bits |-> 6]
    <3>1. st = [out |-> o, acc |-> a, bits |-> 1]
      BY <1>3, <2>2
    <3>. QED
      BY <1>1, <1>3, <3>1, TakeCharAfter1
  <2>. HIDE DEF w
  <2>5. Pending(c, m + 1) = a * 32 + v
    BY <1>1, <2>1, <2>2, <2>3
  <2>6. w.out = o /\ w.acc = Pending(c, m + 1) /\ w.bits = 6
    BY <2>4, <2>5
  <2>. QED
    BY <1>6, <2>1, <2>2, <2>6 DEF ReadUpTo
<1>13. CASE u = 6
  <2>1. /\ (5 * m) \div 8 = 5 * t + 3 /\ (5 * m) % 8 = 6 /\ m % 8 = 6
        /\ (5 * (m + 1)) \div 8 = 5 * t + 4 /\ (5 * (m + 1)) % 8 = 3 /\ (m + 1) % 8 = 7
        /\ m = 8 * t + 6 /\ m + 1 = 8 * t + 7 /\ m - 1 = 8 * t + 5 /\ (m + 1) - 1 = m
    BY <1>2, <1>13
  <2>2. a = (At(c, m - 1) % 2) * 32 + At(c, m) /\ st.bits = 6 /\ Len(o) = 5 * t + 3
    BY <1>5, <2>1, PendingAt
  <2>3. Pending(c, m + 1) = At(c, m + 1) % 8
    BY <1>1, <1>2, <2>1, PendingAt
  <2>. DEFINE x == a * 4 + v \div 8
              p == Append(o, x)
  <2>4. w = [out |-> p, acc |-> v % 8, bits |-> 3]
    <3>1. st = [out |-> o, acc |-> a, bits |-> 6]
      BY <1>3, <2>2
    <3>. QED
      BY <1>1, <1>3, <3>1, TakeCharAfter6
  <2>. HIDE DEF w
  <2>5. x = Reads(c, (5 * t + 3) + 1) /\ x \in Nat
    <3>1. (5 * t + 3) + 1 = 5 * t + 4 /\ 5 * t + 3 \in Nat
      BY <1>2
    <3>2. At(c, 8 * t + 7) = v /\ At(c, 8 * t + 6) = At(c, m) /\ At(c, 8 * t + 5) = At(c, m - 1)
      BY <1>1, <2>1
    <3>3. Reads(c, 5 * t + 4) = (At(c, 8 * t + 5) % 2) * 128 + At(c, 8 * t + 6) * 4 + At(c, 8 * t + 7) \div 8
      BY <1>2, ReadsAt
    <3>4. x = (At(c, m - 1) % 2) * 128 + At(c, m) * 4 + v \div 8
      <4>. DEFINE y == At(c, m - 1) % 2
                  z == At(c, m)
                  s == v \div 8
      <4>1. y \in Nat /\ z \in Nat /\ s \in Nat
        BY <1>1, <1>17
      <4>2. a = y * 32 + z
        BY <2>2
      <4>. HIDE DEF y, z, s
      <4>3. a * 4 + s = y * 128 + z * 4 + s
        BY <4>1, <4>2
      <4>. QED
        BY <4>3 DEF y, z, s
    <3>5. x \in Nat
      BY <1>1, <1>16
    <3>. QED
      BY <3>1, <3>2, <3>3, <3>4, <3>5
  <2>. HIDE DEF x
  <2>6. /\ p \in Seq(Nat) /\ Len(p) = 5 * t + 4
        /\ \A k \in 1..Len(p) : p[k] = Reads(c, k)
    <3>1. (5 * t + 3) + 1 = 5 * t + 4 /\ 5 * t + 3 \in Nat
      BY <1>2
    <3>. QED
      BY <1>3, <1>6, <2>2, <2>5, <3>1, ReadsOn, SMTT(40)
  <2>. HIDE DEF p
  <2>7. w.out = p /\ w.acc = Pending(c, m + 1) /\ w.bits = 3
    BY <1>1, <2>3, <2>4
  <2>. QED
    BY <2>1, <2>6, <2>7 DEF ReadUpTo
<1>14. CASE u = 7
  <2>1. /\ (5 * m) \div 8 = 5 * t + 4 /\ (5 * m) % 8 = 3 /\ m % 8 = 7
        /\ (5 * (m + 1)) \div 8 = 5 * t + 5 /\ (5 * (m + 1)) % 8 = 0 /\ (m + 1) % 8 = 0
        /\ m = 8 * t + 7 /\ m + 1 = 8 * t + 8 /\ m - 1 = 8 * t + 6 /\ (m + 1) - 1 = m
    BY <1>2, <1>14
  <2>2. a = At(c, m) % 8 /\ st.bits = 3 /\ Len(o) = 5 * t + 4
    BY <1>5, <2>1, PendingAt
  <2>3. Pending(c, m + 1) = 0
    BY <1>1, <1>2, <2>1, PendingAt
  <2>. DEFINE x == a * 32 + v
              p == Append(o, x)
  <2>4. w = [out |-> p, acc |-> 0, bits |-> 0]
    <3>1. st = [out |-> o, acc |-> a, bits |-> 3]
      BY <1>3, <2>2
    <3>. QED
      BY <1>1, <1>3, <3>1, TakeCharAfter3
  <2>. HIDE DEF w
  <2>5. x = Reads(c, (5 * t + 4) + 1) /\ x \in Nat
    <3>1. (5 * t + 4) + 1 = 5 * t + 5 /\ 5 * t + 4 \in Nat
      BY <1>2
    <3>2. At(c, 8 * t + 8) = v /\ At(c, 8 * t + 7) = At(c, m) /\ At(c, 8 * t + 6) = At(c, m - 1)
      BY <1>1, <2>1
    <3>3. Reads(c, 5 * t + 5) = (At(c, 8 * t + 7) % 8) * 32 + At(c, 8 * t + 8)
      BY <1>2, ReadsAt
    <3>4. x = (At(c, m) % 8) * 32 + v
      BY <1>1, <2>2
    <3>5. x \in Nat
      BY <1>1, <1>16
    <3>. QED
      BY <3>1, <3>2, <3>3, <3>4, <3>5
  <2>. HIDE DEF x
  <2>6. /\ p \in Seq(Nat) /\ Len(p) = 5 * t + 5
        /\ \A k \in 1..Len(p) : p[k] = Reads(c, k)
    <3>1. (5 * t + 4) + 1 = 5 * t + 5 /\ 5 * t + 4 \in Nat
      BY <1>2
    <3>. QED
      BY <1>3, <1>6, <2>2, <2>5, <3>1, ReadsOn, SMTT(40)
  <2>. HIDE DEF p
  <2>7. w.out = p /\ w.acc = Pending(c, m + 1) /\ w.bits = 0
    BY <1>1, <2>3, <2>4
  <2>. QED
    BY <2>1, <2>6, <2>7 DEF ReadUpTo
<1>15. u = 0 \/ u = 1 \/ u = 2 \/ u = 3 \/ u = 4 \/ u = 5 \/ u = 6 \/ u = 7
  BY <1>2
<1>. QED
  BY <1>7, <1>8, <1>9, <1>10, <1>11, <1>12, <1>13, <1>14, <1>15

\* Characters are read as the bytes they hold, and as many as they fill.
LEMMA DecodedReads ==
    ASSUME NEW c \in Seq(0..31)
    PROVE  /\ Decoded(c) \in Seq(Nat) /\ Len(Decoded(c)) = (5 * Len(c)) \div 8
           /\ \A k \in 1..Len(Decoded(c)) : Decoded(c)[k] = Reads(c, k)
<1>. DEFINE n == Len(c)
<1>1. PICK f \in [0..n -> DecoderState] :
              /\ f[0] = Empty
              /\ \A i \in 1..n : f[i] = TakeChar(f[i - 1], c[i])
              /\ Decoded(c) = f[n].out
  BY DecoderRuns
<1>2. n \in Nat
  OBVIOUS
<1>. DEFINE S == {i \in Nat : i <= n => ReadUpTo(f[i], c, i)}
<1>3. 0 \in S
  <2>1. Pending(c, 0) = 0
    BY PendingAt
  <2>2. Empty.out = <<>> /\ Empty.acc = 0 /\ Empty.bits = 0
    BY DEF Empty
  <2>3. Len(<<>>) = 0 /\ (5 * 0) \div 8 = 0 /\ (5 * 0) % 8 = 0
    OBVIOUS
  <2>. QED
    BY <1>1, <2>1, <2>2, <2>3 DEF ReadUpTo
<1>4. ASSUME NEW i \in Nat, i \in S
      PROVE  i + 1 \in S
  <2>. SUFFICES ASSUME i + 1 <= n
                PROVE  ReadUpTo(f[i + 1], c, i + 1)
    OBVIOUS
  <2>1. i \in 0..n /\ i + 1 \in 1..n /\ (i + 1) - 1 = i
    BY <1>2
  <2>2. f[i] \in DecoderState /\ f[i + 1] = TakeChar(f[i], c[i + 1])
    BY <1>1, <2>1
  <2>3. ReadUpTo(f[i], c, i)
    BY <1>4, <2>1
  <2>. QED
    BY <2>2, <2>3, ReadByCharacter
<1>. HIDE DEF S
<1>5. Nat \subseteq S
  BY <1>3, <1>4, SetInduction
<1>6. f[n] \in DecoderState /\ ReadUpTo(f[n], c, n)
  BY <1>1, <1>2, <1>5 DEF S
<1>7. f[n].out \in Seq(Nat)
  BY <1>6, DecoderStateParts
<1>. QED
  BY <1>1, <1>6, <1>7 DEF ReadUpTo

-----------------------------------------------------------------------------
(* The one undoes the other.                                               *)

\* Bytes stay bytes beyond the end of the data.
LEMMA AtType ==
    ASSUME NEW data \in Seq(Byte)
    PROVE  \A j \in Nat : At(data, j) \in 0..255
<1>1. ASSUME NEW j \in Nat
      PROVE  At(data, j) \in 0..255
  <2>1. CASE j \in 1..Len(data)
    <3>1. data[j] \in Byte
      BY <2>1
    <3>. QED
      BY <2>1, <3>1 DEF At, Byte
  <2>2. CASE j \notin 1..Len(data)
    BY <2>2 DEF At
  <2>. QED
    BY <2>1, <2>2
<1>. QED
  BY <1>1

\* What is read of the characters that spell some bytes is those bytes.
LEMMA ReadsWhatIsSpelt ==
    ASSUME NEW data \in Seq(Byte), NEW p \in Seq(0..31),
           Len(p) = (8 * Len(data) + 4) \div 5,
           \A k \in 1..Len(p) : p[k] = Spells(data, k),
           NEW k \in 1..Len(data)
    PROVE  Reads(p, k) = data[k]
<1>. DEFINE n == Len(data)
            t == (k - 1) \div 5
            m == (k - 1) % 5
<1>1. t \in Nat /\ m \in 0..4 /\ k = 5 * t + (m + 1) /\ k <= n /\ n \in Nat
  <2>1. n \in Nat /\ k \in Nat /\ k >= 1 /\ k <= n
    OBVIOUS
  <2>2. k - 1 \in Nat
    BY <2>1
  <2>3. \A q \in Nat : q \div 5 \in Nat /\ q % 5 \in 0..4 /\ q = 5 * (q \div 5) + (q % 5)
    OBVIOUS
  <2>4. t \in Nat /\ m \in 0..4 /\ k - 1 = 5 * t + m
    BY <2>2, <2>3
  <2>. HIDE DEF n, t, m
  <2>. QED
    BY <2>1, <2>4
<1>2. At(data, k) = data[k]
  BY DEF At
<1>3. \A j \in 1..Len(p) : At(p, j) = Spells(data, j)
  BY DEF At
<1>. DEFINE a1 == At(data, 5 * t + 1)
            a2 == At(data, 5 * t + 2)
            a3 == At(data, 5 * t + 3)
            a4 == At(data, 5 * t + 4)
            a5 == At(data, 5 * t + 5)
            c1 == At(p, 8 * t + 1)
            c2 == At(p, 8 * t + 2)
            c3 == At(p, 8 * t + 3)
            c4 == At(p, 8 * t + 4)
            c5 == At(p, 8 * t + 5)
            c6 == At(p, 8 * t + 6)
            c7 == At(p, 8 * t + 7)
            c8 == At(p, 8 * t + 8)
<1>4. a1 \in 0..255 /\ a2 \in 0..255 /\ a3 \in 0..255 /\ a4 \in 0..255 /\ a5 \in 0..255
  <2>1. \A j \in 1..5 : 5 * t + j \in Nat
    BY <1>1
  <2>2. \A j \in 1..5 : At(data, 5 * t + j) \in 0..255
    BY <2>1, AtType
  <2>. QED
    BY <2>2
<1>5. /\ Spells(data, 8 * t + 1) = a1 \div 8
      /\ Spells(data, 8 * t + 2) = (a1 % 8) * 4 + a2 \div 64
      /\ Spells(data, 8 * t + 3) = (a2 \div 2) % 32
      /\ Spells(data, 8 * t + 4) = (a2 % 2) * 16 + a3 \div 16
      /\ Spells(data, 8 * t + 5) = (a3 % 16) * 2 + a4 \div 128
      /\ Spells(data, 8 * t + 6) = (a4 \div 4) % 32
      /\ Spells(data, 8 * t + 7) = (a4 % 4) * 8 + a5 \div 32
      /\ Spells(data, 8 * t + 8) = a5 % 32
  BY <1>1, SpellsAt
<1>6. /\ Reads(p, 5 * t + 1) = c1 * 8 + c2 \div 4
      /\ Reads(p, 5 * t + 2) = (c2 % 4) * 64 + c3 * 2 + c4 \div 16
      /\ Reads(p, 5 * t + 3) = (c4 % 16) * 16 + c5 \div 2
      /\ Reads(p, 5 * t + 4) = (c5 % 2) * 128 + c6 * 4 + c7 \div 8
      /\ Reads(p, 5 * t + 5) = (c7 % 8) * 32 + c8
  BY <1>1, ReadsAt
<1>7. ASSUME NEW j \in Nat, j >= 1, 8 * t + j <= (8 * k + 4) \div 5
      PROVE  At(p, 8 * t + j) = Spells(data, 8 * t + j)
  <2>1. 8 * t + j \in 1..Len(p)
    BY <1>1, <1>7
  <2>. QED
    BY <1>3, <2>1
<1>8. CASE m = 0
  <2>1. k = 5 * t + 1 /\ (8 * k + 4) \div 5 = 8 * t + 2
    BY <1>1, <1>8
  <2>2. At(p, 8 * t + 1) = Spells(data, 8 * t + 1) /\ At(p, 8 * t + 2) = Spells(data, 8 * t + 2)
    BY <1>1, <1>7, <2>1
  <2>3. c1 = a1 \div 8 /\ c2 = (a1 % 8) * 4 + a2 \div 64
    BY <1>5, <2>2
  <2>4. Reads(p, k) = c1 * 8 + c2 \div 4 /\ data[k] = a1
    BY <1>2, <1>6, <2>1
  <2>. HIDE DEF a1, a2, a3, a4, a5, c1, c2, c3, c4, c5, c6, c7, c8
  <2>5. c1 * 8 + c2 \div 4 = a1
    BY <1>4, <2>3
  <2>. QED
    BY <2>4, <2>5
<1>9. CASE m = 1
  <2>1. k = 5 * t + 2 /\ (8 * k + 4) \div 5 = 8 * t + 4
    BY <1>1, <1>9
  <2>2. At(p, 8 * t + 2) = Spells(data, 8 * t + 2) /\ At(p, 8 * t + 3) = Spells(data, 8 * t + 3) /\ At(p, 8 * t + 4) = Spells(data, 8 * t + 4)
    BY <1>1, <1>7, <2>1
  <2>3. c2 = (a1 % 8) * 4 + a2 \div 64 /\ c3 = (a2 \div 2) % 32 /\ c4 = (a2 % 2) * 16 + a3 \div 16
    BY <1>5, <2>2
  <2>4. Reads(p, k) = (c2 % 4) * 64 + c3 * 2 + c4 \div 16 /\ data[k] = a2
    BY <1>2, <1>6, <2>1
  <2>. HIDE DEF a1, a2, a3, a4, a5, c1, c2, c3, c4, c5, c6, c7, c8
  <2>5. (c2 % 4) * 64 + c3 * 2 + c4 \div 16 = a2
    <3>1. c2 % 4 = a2 \div 64 /\ c4 \div 16 = a2 % 2
      BY <1>4, <2>3, SMTT(40)
    <3>2. (a2 \div 64) * 64 + ((a2 \div 2) % 32) * 2 + (a2 % 2) = a2
      BY <1>4
    <3>. QED
      BY <2>3, <3>1, <3>2
  <2>. QED
    BY <2>4, <2>5
<1>10. CASE m = 2
  <2>1. k = 5 * t + 3 /\ (8 * k + 4) \div 5 = 8 * t + 5
    BY <1>1, <1>10
  <2>2. At(p, 8 * t + 4) = Spells(data, 8 * t + 4) /\ At(p, 8 * t + 5) = Spells(data, 8 * t + 5)
    BY <1>1, <1>7, <2>1
  <2>3. c4 = (a2 % 2) * 16 + a3 \div 16 /\ c5 = (a3 % 16) * 2 + a4 \div 128
    BY <1>5, <2>2
  <2>4. Reads(p, k) = (c4 % 16) * 16 + c5 \div 2 /\ data[k] = a3
    BY <1>2, <1>6, <2>1
  <2>. HIDE DEF a1, a2, a3, a4, a5, c1, c2, c3, c4, c5, c6, c7, c8
  <2>5. (c4 % 16) * 16 + c5 \div 2 = a3
    <3>1. c4 % 16 = a3 \div 16 /\ c5 \div 2 = a3 % 16
      BY <1>4, <2>3, SMTT(40)
    <3>2. (a3 \div 16) * 16 + (a3 % 16) = a3
      BY <1>4
    <3>. QED
      BY <3>1, <3>2
  <2>. QED
    BY <2>4, <2>5
<1>11. CASE m = 3
  <2>1. k = 5 * t + 4 /\ (8 * k + 4) \div 5 = 8 * t + 7
    BY <1>1, <1>11
  <2>2. At(p, 8 * t + 5) = Spells(data, 8 * t + 5) /\ At(p, 8 * t + 6) = Spells(data, 8 * t + 6) /\ At(p, 8 * t + 7) = Spells(data, 8 * t + 7)
    BY <1>1, <1>7, <2>1
  <2>3. c5 = (a3 % 16) * 2 + a4 \div 128 /\ c6 = (a4 \div 4) % 32 /\ c7 = (a4 % 4) * 8 + a5 \div 32
    BY <1>5, <2>2
  <2>4. Reads(p, k) = (c5 % 2) * 128 + c6 * 4 + c7 \div 8 /\ data[k] = a4
    BY <1>2, <1>6, <2>1
  <2>. HIDE DEF a1, a2, a3, a4, a5, c1, c2, c3, c4, c5, c6, c7, c8
  <2>5. (c5 % 2) * 128 + c6 * 4 + c7 \div 8 = a4
    <3>1. c5 % 2 = a4 \div 128 /\ c7 \div 8 = a4 % 4
      BY <1>4, <2>3, SMTT(40)
    <3>2. (a4 \div 128) * 128 + ((a4 \div 4) % 32) * 4 + (a4 % 4) = a4
      BY <1>4
    <3>. QED
      BY <2>3, <3>1, <3>2
  <2>. QED
    BY <2>4, <2>5
<1>12. CASE m = 4
  <2>1. k = 5 * t + 5 /\ (8 * k + 4) \div 5 = 8 * t + 8
    BY <1>1, <1>12
  <2>2. At(p, 8 * t + 7) = Spells(data, 8 * t + 7) /\ At(p, 8 * t + 8) = Spells(data, 8 * t + 8)
    BY <1>1, <1>7, <2>1
  <2>3. c7 = (a4 % 4) * 8 + a5 \div 32 /\ c8 = a5 % 32
    BY <1>5, <2>2
  <2>4. Reads(p, k) = (c7 % 8) * 32 + c8 /\ data[k] = a5
    BY <1>2, <1>6, <2>1
  <2>. HIDE DEF a1, a2, a3, a4, a5, c1, c2, c3, c4, c5, c6, c7, c8
  <2>5. (c7 % 8) * 32 + c8 = a5
    <3>1. c7 % 8 = a5 \div 32
      BY <1>4, <2>3, SMTT(40)
    <3>2. (a5 \div 32) * 32 + (a5 % 32) = a5
      BY <1>4
    <3>. QED
      BY <2>3, <3>1, <3>2
  <2>. QED
    BY <2>4, <2>5
<1>13. m = 0 \/ m = 1 \/ m = 2 \/ m = 3 \/ m = 4
  BY <1>1
<1>. QED
  BY <1>8, <1>9, <1>10, <1>11, <1>12, <1>13

\* A character of the alphabet stands for its position.
LEMMA ValueOfPosition ==
    ASSUME NEW c \in 0..31
    PROVE  b32_value(c) = c /\ Upper(c) = c /\ IsAlphanumeric(c)
<1>1. c % 64 = c /\ c \notin {32, 33, 34, 36}
  OBVIOUS
<1>. QED
  BY <1>1 DEF b32_value, Upper, IsAlphanumeric, LowerCase, CharI, CharL, CharO, Dash

\* Whatever stands for the characters of the text decodes to the bytes.
LEMMA DecodeByValues ==
    ASSUME NEW data \in Seq(Byte), NEW s, Values(s) = b32_encode(data)
    PROVE  b32_decode(s, Len(data)) = data
<1>. DEFINE p == b32_encode(data)
            n == Len(data)
            out == Decoded(p)
<1>1. /\ p \in Seq(0..31) /\ Len(p) = (8 * n + 4) \div 5
      /\ \A k \in 1..Len(p) : p[k] = Spells(data, k)
  BY EncodeSpells
<1>. HIDE DEF p
<1>2. n \in Nat
  OBVIOUS
<1>3. /\ out \in Seq(Nat) /\ Len(out) = (5 * Len(p)) \div 8
      /\ \A k \in 1..Len(out) : out[k] = Reads(p, k)
  BY <1>1, DecodedReads
<1>4. Len(out) = n
  <2>. DEFINE t == n \div 5
              u == n % 5
  <2>1. t \in Nat /\ u \in 0..4 /\ n = 5 * t + u
    BY <1>2
  <2>. HIDE DEF n, t, u
  <2>2. Len(p) = 8 * t + (8 * u + 4) \div 5
    BY <1>1, <2>1
  <2>3. u = 0 \/ u = 1 \/ u = 2 \/ u = 3 \/ u = 4
    BY <2>1
  <2>4. (5 * Len(p)) \div 8 = n
    BY <2>1, <2>2, <2>3
  <2>. QED
    BY <1>3, <2>4
<1>5. \A k \in 1..n : out[k] = data[k]
  BY <1>1, <1>3, <1>4, ReadsWhatIsSpelt
<1>6. out = data
  <2>. HIDE DEF out
  <2>. QED
    BY <1>3, <1>4, <1>5
<1>7. -1 \notin Range(p)
  <2>1. DOMAIN p = 1..Len(p)
    BY <1>1
  <2>2. \A k \in 1..Len(p) : p[k] \in 0..31
    BY <1>1, EntryOf
  <2>3. \A v \in 0..31 : v # -1
    OBVIOUS
  <2>. QED
    BY <2>1, <2>2, <2>3 DEF Range
<1>8. SubSeq(data, 1, n) = data
  OBVIOUS
<1>9. ~(Len(data) < n)
  BY <1>2
<1>. QED
  BY <1>6, <1>7, <1>8, <1>9 DEF b32_decode, p

\* Base32 loses nothing, for any bytes: b32_decode undoes b32_encode whatever
\* remainder the last byte leaves in either accumulator.
THEOREM DecodeUndoesEncode ==
    \A data \in Seq(Byte) : b32_decode(b32_encode(data), Len(data)) = data
<1>1. ASSUME NEW data \in Seq(Byte)
      PROVE  b32_decode(b32_encode(data), Len(data)) = data
  <2>. DEFINE p == b32_encode(data)
  <2>1. p \in Seq(0..31)
    BY EncodeSpells
  <2>. HIDE DEF p
  <2>2. \A k \in DOMAIN p : b32_value(p[k]) = p[k]
    <3>1. DOMAIN p = 1..Len(p)
      BY <2>1
    <3>2. \A k \in 1..Len(p) : p[k] \in 0..31
      BY <2>1, EntryOf
    <3>. QED
      BY <3>1, <3>2, ValueOfPosition
  <2>3. Values(p) = p
    BY <2>1, <2>2 DEF Values
  <2>. QED
    BY <2>3, DecodeByValues DEF p
<1>. QED
  BY <1>1

-----------------------------------------------------------------------------
(* Normalized text.                                                        *)

\* The filter's loop takes a step for each character.
LEMMA AlphanumericsRuns ==
    ASSUME NEW code \in Seq(Nat)
    PROVE  \E f \in [0..Len(code) -> Seq(Nat)] :
              /\ f[0] = <<>>
              /\ \A i \in 1..Len(code) :
                    f[i] = IF IsAlphanumeric(code[i]) THEN Append(f[i - 1], code[i])
                                                      ELSE f[i - 1]
              /\ Alphanumerics(code) = f[Len(code)]
<1>. DEFINE n == Len(code)
            Keep(s, c) == IF IsAlphanumeric(c) THEN Append(s, c) ELSE s
            step == [p \in Seq(Nat) \X Nat |-> Keep(p[1], p[2])]
<1>1. step \in [Seq(Nat) \X Nat -> Seq(Nat)]
  <2>1. ASSUME NEW p \in Seq(Nat) \X Nat
        PROVE  Keep(p[1], p[2]) \in Seq(Nat)
    <3>1. p[1] \in Seq(Nat) /\ p[2] \in Nat
      OBVIOUS
    <3>. QED
      BY <3>1
  <2>. HIDE DEF Keep
  <2>. QED
    BY <2>1
<1>2. <<>> \in Seq(Nat)
  OBVIOUS
<1>3. \A x \in Seq(Nat), c \in Nat : step[x, c] = Keep(x, c)
  <2>. HIDE DEF Keep
  <2>. QED
    OBVIOUS
<1>. HIDE DEF step
<1>4. PICK f \in [0..n -> Seq(Nat)] : Follows(f, n, <<>>, step, code)
  BY <1>1, <1>2, LoopRuns
<1>. HIDE DEF Keep
<1>5. /\ f[0] = <<>>
      /\ \A i \in 1..n : f[i] = Keep(f[i - 1], code[i])
  <2>1. ASSUME NEW i \in 1..n
        PROVE  f[i] = Keep(f[i - 1], code[i])
    <3>1. i - 1 \in 0..n /\ code[i] \in Nat
      OBVIOUS
    <3>2. f[i - 1] \in Seq(Nat)
      BY <1>4, <3>1
    <3>. QED
      BY <1>3, <1>4, <3>1, <3>2 DEF Follows
  <2>. QED
    BY <1>4, <2>1 DEF Follows
<1>. DEFINE After(g) == [i \in 0..n |-> IF i = 0 THEN <<>>
                                        ELSE IF IsAlphanumeric(code[i]) THEN Append(g[i - 1], code[i])
                                        ELSE g[i - 1]]
            K == CHOOSE g : g = After(g)
<1>6. f = After(f)
  <2>1. \A i \in 0..n : f[i] = After(f)[i]
    <3>. SUFFICES ASSUME NEW i \in 0..n
                  PROVE  f[i] = After(f)[i]
      OBVIOUS
    <3>1. CASE i = 0
      BY <1>5, <3>1
    <3>2. CASE i # 0
      <4>1. i \in 1..n
        BY <3>2
      <4>. QED
        BY <1>5, <3>2, <4>1 DEF Keep
    <3>. QED
      BY <3>1, <3>2
  <2>2. f = [i \in 0..n |-> f[i]] /\ After(f) = [i \in 0..n |-> After(f)[i]]
    BY <1>4
  <2>. HIDE DEF After
  <2>. QED
    BY <2>1, <2>2
<1>7. K = After(K)
  <2>. HIDE DEF After
  <2>. QED
    BY <1>6
<1>8. Alphanumerics(code) = K[n]
  BY DEF Alphanumerics
<1>9. /\ After(K)[0] = <<>>
      /\ \A i \in 1..n : After(K)[i] = Keep(K[i - 1], code[i])
  BY DEF Keep
<1>. HIDE DEF K, After
<1>10. K[0] = f[0] /\ \A i \in 1..n : K[i] = Keep(K[i - 1], code[i])
  BY <1>5, <1>7, <1>9
<1>11. \A i \in 1..n : K[i - 1] = f[i - 1] => K[i] = f[i]
  BY <1>5, <1>10
<1>12. n \in Nat
  OBVIOUS
<1>13. K[n] = f[n]
  <2>. HIDE DEF n
  <2>. QED
    BY <1>4, <1>10, <1>11, <1>12, LoopIsUnique
<1>14. /\ f[0] = <<>>
       /\ \A i \in 1..n : f[i] = IF IsAlphanumeric(code[i]) THEN Append(f[i - 1], code[i])
                                                            ELSE f[i - 1]
  BY <1>5 DEF Keep
<1>. QED
  BY <1>8, <1>13, <1>14

\* One more character is kept, or it is not.
LEMMA AlphanumericsOn ==
    ASSUME NEW s \in Seq(Nat), NEW c \in Nat
    PROVE  Alphanumerics(Append(s, c)) =
             IF IsAlphanumeric(c) THEN Append(Alphanumerics(s), c) ELSE Alphanumerics(s)
<1>. DEFINE n == Len(s)
            t == Append(s, c)
<1>1. /\ t \in Seq(Nat) /\ Len(t) = n + 1 /\ n \in Nat /\ t[n + 1] = c
      /\ \A i \in 1..n : t[i] = s[i]
  OBVIOUS
<1>. HIDE DEF t
<1>2. PICK f \in [0..n -> Seq(Nat)] :
        /\ f[0] = <<>>
        /\ \A i \in 1..n : f[i] = IF IsAlphanumeric(s[i]) THEN Append(f[i - 1], s[i])
                                                          ELSE f[i - 1]
        /\ Alphanumerics(s) = f[n]
  BY AlphanumericsRuns
<1>3. PICK g \in [0..Len(t) -> Seq(Nat)] :
        /\ g[0] = <<>>
        /\ \A i \in 1..Len(t) : g[i] = IF IsAlphanumeric(t[i]) THEN Append(g[i - 1], t[i])
                                                               ELSE g[i - 1]
        /\ Alphanumerics(t) = g[Len(t)]
  BY <1>1, AlphanumericsRuns
<1>. HIDE DEF n
<1>4. g[n] = f[n]
  <2>1. ASSUME NEW i \in 1..n, g[i - 1] = f[i - 1]
        PROVE  g[i] = f[i]
    <3>1. i \in 1..Len(t) /\ t[i] = s[i]
      BY <1>1
    <3>2. f[i] = IF IsAlphanumeric(s[i]) THEN Append(f[i - 1], s[i]) ELSE f[i - 1]
      BY <1>2
    <3>3. g[i] = IF IsAlphanumeric(t[i]) THEN Append(g[i - 1], t[i]) ELSE g[i - 1]
      BY <1>3, <3>1
    <3>. QED
      BY <2>1, <3>1, <3>2, <3>3
  <2>2. g[0] = f[0]
    BY <1>2, <1>3
  <2>. QED
    BY <1>1, <1>2, <2>1, <2>2, LoopIsUnique
<1>5. g[n + 1] = IF IsAlphanumeric(c) THEN Append(g[n], c) ELSE g[n]
  <2>1. n + 1 \in 1..Len(t) /\ (n + 1) - 1 = n
    BY <1>1
  <2>. QED
    BY <1>1, <1>3, <2>1
<1>. QED
  BY <1>1, <1>2, <1>3, <1>4, <1>5 DEF t

\* What is kept of a text is text.
LEMMA AlphanumericsType ==
    ASSUME NEW s \in Seq(Nat)
    PROVE  Alphanumerics(s) \in Seq(Nat)
<1>1. PICK f \in [0..Len(s) -> Seq(Nat)] : Alphanumerics(s) = f[Len(s)]
  BY AlphanumericsRuns
<1>. QED
  BY <1>1

\* Nothing is normalized to nothing.
LEMMA NormalizeEmpty == normalize_code(<<>>) = <<>>
<1>1. <<>> \in Seq(Nat) /\ Len(<<>>) = 0
  OBVIOUS
<1>2. PICK f \in [0..0 -> Seq(Nat)] : f[0] = <<>> /\ Alphanumerics(<<>>) = f[0]
  BY <1>1, AlphanumericsRuns
<1>3. ToUpper(<<>>) = <<>>
  BY DEF ToUpper
<1>. QED
  BY <1>2, <1>3 DEF normalize_code

\* Normalized text is in capitals.
LEMMA NormalizeType ==
    ASSUME NEW s \in Seq(Nat)
    PROVE  normalize_code(s) \in Seq(Nat)
<1>. DEFINE a == Alphanumerics(s)
<1>1. a \in Seq(Nat)
  BY AlphanumericsType
<1>. HIDE DEF a
<1>2. DOMAIN a = 1..Len(a) /\ Len(a) \in Nat
  BY <1>1
<1>3. \A i \in 1..Len(a) : Upper(a[i]) \in Nat
  <2>1. \A i \in 1..Len(a) : a[i] \in Nat
    BY <1>1
  <2>. QED
    BY <2>1 DEF Upper, LowerCase
<1>4. ToUpper(a) = [i \in 1..Len(a) |-> Upper(a[i])]
  BY <1>2 DEF ToUpper
<1>5. ToUpper(a) \in [1..Len(a) -> Nat]
  BY <1>3, <1>4
<1>6. ToUpper(a) \in Seq(Nat)
  BY <1>2, <1>5
<1>. QED
  BY <1>6 DEF normalize_code, a

\* normalize_code takes the text a character at a time.
LEMMA NormalizeOn ==
    ASSUME NEW s \in Seq(Nat), NEW c \in Nat
    PROVE  normalize_code(Append(s, c)) =
             IF IsAlphanumeric(c) THEN Append(normalize_code(s), Upper(c))
                                  ELSE normalize_code(s)
<1>. DEFINE a == Alphanumerics(s)
<1>1. a \in Seq(Nat)
  BY AlphanumericsType
<1>2. Alphanumerics(Append(s, c)) = IF IsAlphanumeric(c) THEN Append(a, c) ELSE a
  BY AlphanumericsOn
<1>. HIDE DEF a
<1>3. ToUpper(Append(a, c)) = Append(ToUpper(a), Upper(c))
  BY <1>1 DEF ToUpper
<1>. QED
  BY <1>2, <1>3 DEF normalize_code, a

\* The case of a text is lost on normalize_code.
LEMMA NormalizeUpper ==
    ASSUME NEW s \in Seq(Nat)
    PROVE  ToUpper(s) \in Seq(Nat) /\ normalize_code(ToUpper(s)) = normalize_code(s)
<1>. DEFINE n == Len(s)
            u == ToUpper(s)
            Same(j) == normalize_code(SubSeq(u, 1, j)) = normalize_code(SubSeq(s, 1, j))
            S == {j \in Nat : j <= n => Same(j)}
<1>1. n \in Nat /\ DOMAIN s = 1..n /\ \A i \in 1..n : s[i] \in Nat
  OBVIOUS
<1>2. u = [i \in 1..n |-> Upper(s[i])]
  BY <1>1 DEF ToUpper
<1>3. \A c \in Nat : Upper(c) \in Nat /\ Upper(Upper(c)) = Upper(c)
  BY DEF Upper, LowerCase
<1>4. u \in Seq(Nat) /\ Len(u) = n /\ \A i \in 1..n : u[i] = Upper(s[i])
  <2>1. u \in [1..n -> Nat]
    BY <1>1, <1>2, <1>3
  <2>. HIDE DEF u
  <2>. QED
    BY <1>1, <1>2, <2>1
<1>. HIDE DEF u, n
<1>5. 0 \in S
  <2>1. SubSeq(u, 1, 0) = <<>> /\ SubSeq(s, 1, 0) = <<>>
    BY <1>4
  <2>. QED
    BY <2>1
<1>6. ASSUME NEW j \in Nat, j \in S
      PROVE  j + 1 \in S
  <2>. SUFFICES ASSUME j + 1 <= n
                PROVE  Same(j + 1)
    OBVIOUS
  <2>1. Same(j)
    BY <1>1, <1>6
  <2>. DEFINE x == SubSeq(s, 1, j)
              y == SubSeq(u, 1, j)
  <2>2. x \in Seq(Nat) /\ SubSeq(s, 1, j + 1) = Append(x, s[j + 1])
    BY <1>1 DEF n
  <2>3. y \in Seq(Nat) /\ SubSeq(u, 1, j + 1) = Append(y, u[j + 1])
    BY <1>1, <1>4
  <2>. HIDE DEF x, y
  <2>4. s[j + 1] \in Nat /\ u[j + 1] = Upper(s[j + 1]) /\ u[j + 1] \in Nat
    BY <1>1, <1>3, <1>4
  <2>5. IsAlphanumeric(u[j + 1]) <=> IsAlphanumeric(s[j + 1])
    BY <1>3, <2>4 DEF IsAlphanumeric
  <2>6. Upper(u[j + 1]) = Upper(s[j + 1])
    BY <1>3, <2>4
  <2>7. normalize_code(y) = normalize_code(x)
    BY <2>1 DEF x, y
  <2>. QED
    BY <2>2, <2>3, <2>4, <2>5, <2>6, <2>7, NormalizeOn, ZenonT(40)
<1>7. n \in S
  <2>. HIDE DEF S
  <2>. QED
    BY <1>1, <1>5, <1>6, SetInduction
<1>8. SubSeq(u, 1, n) = u /\ SubSeq(s, 1, n) = s
  BY <1>1, <1>4 DEF n
<1>9. Same(n)
  BY <1>1, <1>7
<1>10. normalize_code(u) = normalize_code(s)
  BY <1>8, <1>9
<1>. QED
  BY <1>4, <1>10 DEF u

-----------------------------------------------------------------------------
(* Codes.                                                                  *)

\* The characters of a code, and what is left when its dashes are dropped: of
\* its first j characters, the tag and the payload's first ones.
LEMMA PrettySpells ==
    ASSUME NEW payload \in Seq(0..31), NEW tag \in {TagL, TagB}
    PROVE  /\ pretty(tag, payload) \in Seq(Nat)
           /\ Len(pretty(tag, payload)) = 1 + Len(payload) + (Len(payload) + 4) \div 5
           /\ \A i \in 1..Len(pretty(tag, payload)) :
                pretty(tag, payload)[i] \in (0..31) \cup {tag, Dash}
           /\ normalize_code(pretty(tag, payload)) = <<tag>> \o payload
<1>. DEFINE n == Len(payload)
            l == 1 + n + (n + 4) \div 5
            r == pretty(tag, payload)
            w == <<tag>> \o payload
            p(j) == j - (j + 4) \div 6
            Spelt(j) == normalize_code(SubSeq(r, 1, j)) = SubSeq(w, 1, p(j))
            S == {j \in Nat : j <= l => Spelt(j)}
<1>1. n \in Nat /\ \A i \in 1..n : payload[i] \in 0..31
  BY EntryOf
<1>2. l \in Nat
  <2>. HIDE DEF n
  <2>. QED
    BY <1>1
<1>3. tag \in Nat /\ tag \in 0..35 /\ Dash = 36
  BY DEF TagL, TagB, CharL, Dash
<1>4. w \in Seq(Nat) /\ Len(w) = n + 1 /\ w[1] = tag /\ \A i \in 2..(n + 1) : w[i] = payload[i - 1]
  <2>1. payload \in Seq(Nat)
    <3>1. \A i \in 1..n : payload[i] \in Nat
      <4>1. \A c \in 0..31 : c \in Nat
        OBVIOUS
      <4>. HIDE DEF n
      <4>. QED
        BY <1>1, <4>1
    <3>2. payload = [i \in 1..n |-> payload[i]]
      OBVIOUS
    <3>3. payload \in [1..n -> Nat]
      BY <3>1, <3>2
    <3>. QED
      BY <1>1, <3>3
  <2>. QED
    BY <1>3, <2>1
<1>5. r = [i \in 1..l |-> IF i = 1 THEN tag
                          ELSE IF i % 6 = 2 THEN Dash
                          ELSE payload[i - 1 - (i + 4) \div 6]]
  BY DEF pretty
<1>. HIDE DEF w, r
<1>6. \A i \in 1..l : i # 1 /\ i % 6 # 2 => i - 1 - (i + 4) \div 6 \in 1..n
  <2>. HIDE DEF n
  <2>. QED
    BY <1>1
<1>7. /\ r[1] = tag
      /\ \A i \in 2..l : r[i] = IF i % 6 = 2 THEN Dash ELSE payload[i - 1 - (i + 4) \div 6]
  <2>1. 1 \in 1..l
    <3>. HIDE DEF n
    <3>. QED
      BY <1>1
  <2>. HIDE DEF l
  <2>. QED
    BY <1>2, <1>5, <2>1
<1>. HIDE DEF n, l
<1>8. \A i \in 1..l : r[i] \in (0..31) \cup {tag, Dash}
  <2>. SUFFICES ASSUME NEW i \in 1..l
                PROVE  r[i] \in (0..31) \cup {tag, Dash}
    OBVIOUS
  <2>1. CASE i = 1 \/ i % 6 = 2
    BY <1>2, <1>7, <2>1
  <2>2. CASE i # 1 /\ i % 6 # 2
    <3>1. i \in 2..l /\ i - 1 - (i + 4) \div 6 \in 1..n
      BY <1>2, <1>6, <2>2
    <3>2. r[i] = payload[i - 1 - (i + 4) \div 6]
      BY <1>7, <2>2, <3>1
    <3>3. payload[i - 1 - (i + 4) \div 6] \in 0..31
      BY <1>1, <3>1
    <3>. QED
      BY <3>2, <3>3
  <2>. QED
    BY <2>1, <2>2
<1>9. r \in Seq(Nat) /\ Len(r) = l
  <2>1. \A i \in 1..l : r[i] \in Nat
    <3>1. \A c \in (0..31) \cup {tag, Dash} : c \in Nat
      BY <1>3
    <3>. QED
      BY <1>8, <3>1
  <2>2. r \in [1..l -> Nat]
    BY <1>5, <2>1
  <2>. QED
    BY <1>2, <2>2
<1>10. 0 \in S
  <2>1. SubSeq(r, 1, 0) = <<>> /\ SubSeq(w, 1, p(0)) = <<>>
    BY <1>4, <1>9
  <2>. QED
    BY <2>1, NormalizeEmpty
<1>11. ASSUME NEW j \in Nat, j \in S
       PROVE  j + 1 \in S
  <2>. SUFFICES ASSUME j + 1 <= l
                PROVE  Spelt(j + 1)
    OBVIOUS
  <2>1. Spelt(j)
    BY <1>2, <1>11
  <2>. DEFINE x == SubSeq(r, 1, j)
  <2>2. x \in Seq(Nat) /\ SubSeq(r, 1, j + 1) = Append(x, r[j + 1])
    BY <1>2, <1>9
  <2>3. normalize_code(x) = SubSeq(w, 1, p(j))
    BY <2>1
  <2>. HIDE DEF x
  <2>4. j + 1 \in 1..l
    BY <1>2
  <2>5. r[j + 1] \in Nat
    BY <1>9, <2>4
  <2>6. normalize_code(SubSeq(r, 1, j + 1)) =
          IF IsAlphanumeric(r[j + 1]) THEN Append(SubSeq(w, 1, p(j)), Upper(r[j + 1]))
                                      ELSE SubSeq(w, 1, p(j))
    BY <2>2, <2>3, <2>5, NormalizeOn
  <2>7. CASE (j + 1) % 6 = 2
    <3>1. r[j + 1] = Dash /\ p(j + 1) = p(j)
      BY <1>7, <2>4, <2>7
    <3>2. ~IsAlphanumeric(Dash)
      BY DEF IsAlphanumeric, Upper, Dash, LowerCase
    <3>. QED
      BY <2>6, <3>1, <3>2
  <2>8. CASE (j + 1) % 6 # 2
    <3>1. p(j) \in Nat /\ p(j + 1) = p(j) + 1
      BY <2>8
    <3>2. p(j) + 1 \in 1..(n + 1) /\ r[j + 1] = w[p(j) + 1]
      <4>1. CASE j = 0
        BY <1>1, <1>4, <1>7, <4>1
      <4>2. CASE j # 0
        <5>. DEFINE i == j + 1
        <5>1. i \in 2..l /\ i \in 1..l /\ i # 1 /\ i % 6 # 2
          BY <2>4, <2>8, <4>2
        <5>2. r[i] = payload[i - 1 - (i + 4) \div 6] /\ i - 1 - (i + 4) \div 6 \in 1..n
          BY <1>6, <1>7, <5>1
        <5>3. p(j) = i - 1 - (i + 4) \div 6
          BY <3>1
        <5>. HIDE DEF p, i
        <5>4. p(j) \in 1..n /\ p(j) + 1 \in 2..(n + 1) /\ (p(j) + 1) - 1 = p(j)
          BY <1>1, <3>1, <5>2, <5>3
        <5>5. w[p(j) + 1] = payload[p(j)]
          BY <1>4, <5>4
        <5>. QED
          BY <1>1, <5>2, <5>3, <5>4, <5>5 DEF i
      <4>. QED
        BY <4>1, <4>2
    <3>. HIDE DEF p
    <3>3. IsAlphanumeric(r[j + 1]) /\ Upper(r[j + 1]) = r[j + 1]
      <4>1. w[p(j) + 1] \in 0..35
        <5>1. CASE p(j) = 0
          <6>1. p(j) + 1 = 1
            BY <5>1
          <6>. QED
            BY <1>3, <1>4, <6>1
        <5>2. CASE p(j) # 0
          <6>1. p(j) + 1 \in 2..(n + 1) /\ (p(j) + 1) - 1 = p(j) /\ p(j) \in 1..n
            BY <1>1, <3>1, <3>2, <5>2
          <6>2. payload[p(j)] \in 0..31
            BY <1>1, <6>1
          <6>3. w[p(j) + 1] = payload[p(j)]
            BY <1>4, <6>1
          <6>4. \A c \in 0..31 : c \in 0..35
            OBVIOUS
          <6>. QED
            BY <6>2, <6>3, <6>4
        <5>. QED
          BY <5>1, <5>2
      <4>2. \A c \in 0..35 : IsAlphanumeric(c) /\ Upper(c) = c
        BY DEF IsAlphanumeric, Upper, Dash, LowerCase
      <4>. QED
        BY <3>2, <4>1, <4>2
    <3>4. SubSeq(w, 1, p(j) + 1) = Append(SubSeq(w, 1, p(j)), w[p(j) + 1])
      BY <1>1, <1>4, <3>1, <3>2, SMTT(40)
    <3>. QED
      BY <2>6, <3>1, <3>2, <3>3, <3>4
  <2>. QED
    BY <2>7, <2>8
<1>12. l \in S
  <2>. HIDE DEF S
  <2>. QED
    BY <1>2, <1>10, <1>11, SetInduction
<1>13. p(l) = n + 1
  BY <1>1 DEF l
<1>14. SubSeq(r, 1, l) = r /\ SubSeq(w, 1, n + 1) = w
  BY <1>2, <1>4, <1>9
<1>15. normalize_code(r) = w
  <2>1. Spelt(l)
    BY <1>2, <1>12
  <2>. HIDE DEF p
  <2>. QED
    BY <1>13, <1>14, <2>1
<1>. QED
  BY <1>8, <1>9, <1>15 DEF r, w, l, n

\* A function on the first numbers is a sequence.
LEMMA SeqOf ==
    ASSUME NEW R, NEW n \in Nat, NEW s \in [1..n -> R]
    PROVE  s \in Seq(R) /\ Len(s) = n
BY SMT

\* Two sequences joined, and the first of them taken off again.
LEMMA Joined ==
    ASSUME NEW R, NEW s \in Seq(R), NEW t \in Seq(R)
    PROVE  /\ s \o t \in Seq(R)
           /\ Len(s \o t) = Len(s) + Len(t)
           /\ SubSeq(s \o t, 1, Len(s)) = s
           /\ \A i \in 1..Len(t) : (s \o t)[Len(s) + i] = t[i]
<1>1. s \o t \in Seq(R) /\ Len(s \o t) = Len(s) + Len(t)
  BY SMT
<1>2. \A i \in 1..Len(s) : (s \o t)[i] = s[i]
  BY SMT
<1>3. \A i \in 1..Len(t) : (s \o t)[Len(s) + i] = t[i]
  BY SMT
<1>4. SubSeq(s \o t, 1, Len(s)) = s
  <2>. DEFINE u == s \o t
  <2>1. u \in Seq(R) /\ Len(s) \in Nat /\ Len(s) <= Len(u) /\ \A i \in 1..Len(s) : u[i] = s[i]
    BY <1>1, <1>2, SMT
  <2>. HIDE DEF u
  <2>2. SubSeq(u, 1, Len(s)) \in Seq(R) /\ Len(SubSeq(u, 1, Len(s))) = Len(s)
    BY <2>1, SMT
  <2>3. \A i \in 1..Len(s) : SubSeq(u, 1, Len(s))[i] = s[i]
    BY <2>1, SMT
  <2>4. SubSeq(u, 1, Len(s)) = s
    BY <2>2, <2>3, SeqEqual
  <2>. QED
    BY <2>4 DEF u
<1>. QED
  BY <1>1, <1>3, <1>4

\* The parts of a dial address, by its kind.
LEMMA PartsOfAddress ==
    ASSUME NEW a \in DialAddress
    PROVE  /\ a.kind = "lan" =>
                /\ a.ip \in [1..4 -> Byte] /\ a.port \in Nat /\ 1 <= a.port /\ a.port <= MaxPort
                /\ a = [kind |-> "lan", ip |-> a.ip, port |-> a.port]
           /\ a.kind # "lan" =>
                /\ a.kind = "bluetooth" /\ a.addr \in [1..12 -> 0..15] /\ a.channel \in 1..30
                /\ a = [kind |-> "bluetooth", addr |-> a.addr, channel |-> a.channel]
<1>1. \/ a \in [kind : {"lan"}, ip : [1..4 -> Byte], port : 1..MaxPort]
      \/ a \in [kind : {"bluetooth"}, addr : [1..12 -> 0..15], channel : 1..30]
  BY Zenon DEF DialAddress
<1>2. ASSUME a \in [kind : {"lan"}, ip : [1..4 -> Byte], port : 1..MaxPort]
      PROVE  /\ a.kind = "lan" /\ a.ip \in [1..4 -> Byte]
             /\ a.port \in Nat /\ 1 <= a.port /\ a.port <= MaxPort
             /\ a = [kind |-> "lan", ip |-> a.ip, port |-> a.port]
  <2>1. a.kind = "lan" /\ a.ip \in [1..4 -> Byte] /\ a.port \in 1..MaxPort
    BY <1>2, SMT
  <2>2. a.port \in Nat /\ 1 <= a.port /\ a.port <= MaxPort
    BY <2>1, SMT
  <2>3. a = [kind |-> a.kind, ip |-> a.ip, port |-> a.port]
    BY <1>2, ZenonT(30)
  <2>. QED
    BY <2>1, <2>2, <2>3, Zenon
<1>3. ASSUME a \in [kind : {"bluetooth"}, addr : [1..12 -> 0..15], channel : 1..30]
      PROVE  /\ a.kind = "bluetooth" /\ a.addr \in [1..12 -> 0..15] /\ a.channel \in 1..30
             /\ a = [kind |-> "bluetooth", addr |-> a.addr, channel |-> a.channel]
  <2>1. a.kind = "bluetooth" /\ a.addr \in [1..12 -> 0..15] /\ a.channel \in 1..30
    BY <1>3, Zenon
  <2>2. a = [kind |-> a.kind, addr |-> a.addr, channel |-> a.channel]
    BY <1>3, ZenonT(30)
  <2>. QED
    BY <2>1, <2>2, Zenon
<1>4. "lan" # "bluetooth"
  OBVIOUS
<1>. QED
  BY <1>1, <1>2, <1>3, <1>4, Zenon

\* A port as its two bytes.
LEMMA PortBytes ==
    ASSUME NEW p \in Nat, 1 <= p, p <= MaxPort
    PROVE  /\ p \div 256 \in Byte /\ p % 256 \in Byte
           /\ (p \div 256) * 256 + (p % 256) = p
           /\ (p \div 256) + (p % 256) # 0
<1>1. /\ p \div 256 \in Nat /\ p \div 256 <= 255 /\ p % 256 \in Nat /\ p % 256 <= 255
      /\ (p \div 256) * 256 + (p % 256) = p
  BY SMT DEF MaxPort
<1>2. p \div 256 \in 0..255 /\ p % 256 \in 0..255
  BY <1>1, SMT
<1>3. (p \div 256) + (p % 256) # 0
  BY <1>1, SMT
<1>. QED
  BY <1>1, <1>2, <1>3, Zenon DEF Byte

TagOf(a) == IF a.kind = "lan" THEN TagL ELSE TagB

\* Twelve hex digits are parsed to six bytes, a byte from every two.
LEMMA ParsedBytes ==
    ASSUME NEW h \in [1..12 -> 0..15]
    PROVE  /\ parse_addr(h) \in Seq(Byte) /\ Len(parse_addr(h)) = 6
           /\ \A i \in 1..6 : parse_addr(h)[i] = h[2 * i - 1] * 16 + h[2 * i]
<1>. DEFINE q == parse_addr(h)
<1>1. Len(h) = 12
  <2>. DEFINE D == 0..15
              n == 12
  <2>1. n \in Nat
    BY SMT
  <2>2. h \in [1..n -> D]
    OBVIOUS
  <2>. HIDE DEF D, n
  <2>3. Len(h) = n
    BY <2>1, <2>2, SeqOf, Zenon
  <2>. QED
    BY <2>3 DEF n
<1>2. q = [i \in 1..6 |-> h[2 * i - 1] * 16 + h[2 * i]]
  BY <1>1 DEF parse_addr
<1>. HIDE DEF q
<1>3. ASSUME NEW i \in 1..6
      PROVE  h[2 * i - 1] * 16 + h[2 * i] \in Byte
  <2>1. 2 * i - 1 \in 1..12 /\ 2 * i \in 1..12
    OBVIOUS
  <2>2. h[2 * i - 1] \in 0..15 /\ h[2 * i] \in 0..15
    BY <2>1, Zenon
  <2>. QED
    BY <2>2, SMT DEF Byte
<1>4. q \in [1..6 -> Byte]
  BY <1>2, <1>3, Zenon
<1>5. 6 \in Nat
  BY SMT
<1>6. q \in Seq(Byte) /\ Len(q) = 6
  BY <1>4, <1>5, SeqOf, Zenon
<1>7. \A i \in 1..6 : q[i] = h[2 * i - 1] * 16 + h[2 * i]
  BY <1>2, Zenon
<1>. QED
  BY <1>6, <1>7, Zenon DEF q

\* The bytes of a dial address, its parts at the positions decode takes them
\* from.
LEMMA AddressBytesType ==
    ASSUME NEW a \in DialAddress
    PROVE  /\ AddressBytes(a) \in Seq(Byte)
           /\ a.kind = "lan" =>
                 /\ Len(AddressBytes(a)) = 6
                 /\ SubSeq(AddressBytes(a), 1, 4) = a.ip
                 /\ AddressBytes(a)[5] = a.port \div 256
                 /\ AddressBytes(a)[6] = a.port % 256
           /\ a.kind # "lan" =>
                 /\ Len(AddressBytes(a)) = 7
                 /\ parse_addr(a.addr) # NoBytes
                 /\ SubSeq(AddressBytes(a), 1, 6) = parse_addr(a.addr)
                 /\ AddressBytes(a)[7] = a.channel
<1>1. CASE a.kind = "lan"
  <2>. DEFINE ip == a.ip
              p == a.port
              q == <<p \div 256, p % 256>>
  <2>1. ip \in [1..4 -> Byte] /\ p \in Nat /\ 1 <= p /\ p <= MaxPort
    BY <1>1, PartsOfAddress
  <2>2. AddressBytes(a) = ip \o q
    BY <1>1 DEF AddressBytes
  <2>. HIDE DEF ip, p
  <2>3. p \div 256 \in Byte /\ p % 256 \in Byte
    BY <2>1, PortBytes
  <2>4. q \in Seq(Byte) /\ Len(q) = 2 /\ q[1] = p \div 256 /\ q[2] = p % 256
    BY <2>3, SMT
  <2>5. 4 \in Nat
    BY SMT
  <2>6. ip \in Seq(Byte) /\ Len(ip) = 4
    BY <2>1, <2>5, SeqOf, Zenon
  <2>. HIDE DEF q
  <2>. DEFINE b == ip \o q
  <2>7. /\ b \in Seq(Byte) /\ Len(b) = Len(ip) + Len(q) /\ SubSeq(b, 1, Len(ip)) = ip
        /\ \A i \in 1..Len(q) : b[Len(ip) + i] = q[i]
    <3>1. ip \in Seq(Byte) /\ q \in Seq(Byte)
      BY <2>4, <2>6
    <3>. QED
      BY <3>1, Joined, Zenon
  <2>. HIDE DEF b
  <2>8. Len(b) = 6 /\ SubSeq(b, 1, 4) = ip
    BY <2>4, <2>6, <2>7, SMT
  <2>9. b[5] = q[1] /\ b[6] = q[2]
    <3>1. b[4 + 1] = q[1] /\ b[4 + 2] = q[2]
      BY <2>4, <2>6, <2>7, SMT
    <3>. QED
      BY <3>1, SMT
  <2>. QED
    BY <1>1, <2>2, <2>4, <2>7, <2>8, <2>9, Zenon DEF ip, p, b
<1>2. CASE a.kind # "lan"
  <2>. DEFINE h == a.addr
              c == a.channel
              q == parse_addr(h)
              t == <<c>>
  <2>1. h \in [1..12 -> 0..15] /\ c \in 1..30
    BY <1>2, PartsOfAddress, Zenon
  <2>2. AddressBytes(a) = Append(q, c)
    BY <1>2 DEF AddressBytes
  <2>. HIDE DEF h, c
  <2>3. q \in Seq(Byte) /\ Len(q) = 6
    BY <2>1, ParsedBytes
  <2>4. c \in Byte
    BY <2>1 DEF Byte
  <2>. HIDE DEF q
  <2>5. t \in Seq(Byte) /\ Len(t) = 1 /\ t[1] = c
    BY <2>4, SMT
  <2>6. Append(q, c) = q \o t
    BY <2>3, <2>4, AppendIsConcat
  <2>. HIDE DEF t
  <2>. DEFINE b == q \o t
  <2>7. /\ b \in Seq(Byte) /\ Len(b) = Len(q) + Len(t) /\ SubSeq(b, 1, Len(q)) = q
        /\ \A i \in 1..Len(t) : b[Len(q) + i] = t[i]
    <3>1. q \in Seq(Byte) /\ t \in Seq(Byte)
      BY <2>3, <2>5
    <3>. QED
      BY <3>1, Joined, Zenon
  <2>. HIDE DEF b
  <2>8. Len(b) = 7 /\ SubSeq(b, 1, 6) = q
    BY <2>3, <2>5, <2>7, SMT
  <2>9. b[7] = c
    <3>1. b[6 + 1] = c
      BY <2>3, <2>5, <2>7, SMT
    <3>. QED
      BY <3>1, SMT
  <2>10. q # NoBytes
    BY <2>3, SMT DEF NoBytes
  <2>. QED
    BY <1>2, <2>2, <2>6, <2>7, <2>8, <2>9, <2>10, Zenon DEF h, c, q, b
<1>. QED
  BY <1>1, <1>2

\* What a host shows: its tag and the spelling of its address, in groups.
LEMMA CodeOfAddress ==
    ASSUME NEW a \in DialAddress
    PROVE  /\ encode(a) = pretty(TagOf(a), b32_encode(AddressBytes(a)))
           /\ encode(a) \in Seq(Nat)
           /\ \A i \in 1..Len(encode(a)) : encode(a)[i] \in (0..31) \cup {TagOf(a), Dash}
           /\ normalize_code(encode(a)) = <<TagOf(a)>> \o b32_encode(AddressBytes(a))
<1>1. encode(a) = pretty(TagOf(a), b32_encode(AddressBytes(a)))
  <2>1. CASE a.kind = "lan"
    BY <2>1 DEF encode, TagOf, AddressBytes
  <2>2. CASE a.kind # "lan"
    <3>1. parse_addr(a.addr) # NoBytes /\ a.channel \in 1..30
      BY <2>2, AddressBytesType, PartsOfAddress, Zenon
    <3>. QED
      BY <2>2, <3>1, Zenon DEF encode, TagOf, AddressBytes
  <2>. QED
    BY <2>1, <2>2
<1>2. b32_encode(AddressBytes(a)) \in Seq(0..31)
  BY AddressBytesType, EncodeSpells
<1>3. TagOf(a) \in {TagL, TagB}
  BY DEF TagOf
<1>. QED
  BY <1>1, <1>2, <1>3, PrettySpells

\* Twelve hex digits are the ones of the six bytes they are parsed to.
LEMMA HexRoundTrip ==
    ASSUME NEW h \in [1..12 -> 0..15]
    PROVE  format_addr(parse_addr(h)) = h
<1>. DEFINE q == parse_addr(h)
            g == format_addr(q)
<1>1. h = [i \in 1..12 |-> h[i]]
  OBVIOUS
<1>3. Len(q) = 6 /\ \A i \in 1..6 : q[i] = h[2 * i - 1] * 16 + h[2 * i]
  BY ParsedBytes
<1>. HIDE DEF q
<1>4. g = [i \in 1..12 |-> IF i % 2 = 1 THEN q[(i + 1) \div 2] \div 16 ELSE q[(i + 1) \div 2] % 16]
  BY <1>3 DEF format_addr
<1>5. \A i \in 1..12 :
        h[i] = IF i % 2 = 1 THEN q[(i + 1) \div 2] \div 16 ELSE q[(i + 1) \div 2] % 16
  <2>. SUFFICES ASSUME NEW i \in 1..12
                PROVE  h[i] = IF i % 2 = 1 THEN q[(i + 1) \div 2] \div 16
                                           ELSE q[(i + 1) \div 2] % 16
    OBVIOUS
  <2>. DEFINE j == (i + 1) \div 2
  <2>1. j \in 1..6 /\ 2 * j - 1 \in 1..12 /\ 2 * j \in 1..12
    OBVIOUS
  <2>2. i = IF i % 2 = 1 THEN 2 * j - 1 ELSE 2 * j
    OBVIOUS
  <2>. HIDE DEF j
  <2>3. q[j] = h[2 * j - 1] * 16 + h[2 * j]
    BY <1>3, <2>1
  <2>4. h[2 * j - 1] \in 0..15 /\ h[2 * j] \in 0..15
    BY <2>1
  <2>5. \A x, y \in 0..15 : (x * 16 + y) \div 16 = x /\ (x * 16 + y) % 16 = y
    OBVIOUS
  <2>6. q[j] \div 16 = h[2 * j - 1] /\ q[j] % 16 = h[2 * j]
    BY <2>3, <2>4, <2>5
  <2>7. h[i] = IF i % 2 = 1 THEN q[j] \div 16 ELSE q[j] % 16
    BY <2>2, <2>6
  <2>. QED
    BY <2>7 DEF j
<1>. QED
  BY <1>1, <1>4, <1>5 DEF q

-----------------------------------------------------------------------------
(* What a text names.                                                      *)

\* Text whose letters stand for the code of an address names that address.
LEMMA DecodeNames ==
    ASSUME NEW a \in DialAddress, NEW s, NEW w \in Seq(Nat), w # <<>>,
           normalize_code(s) = w,
           Head(w) = TagOf(a),
           Values(Tail(w)) = b32_encode(AddressBytes(a))
    PROVE  decode(s) = a
<1>. DEFINE b == AddressBytes(a)
            lan == b32_decode(Tail(w), 6)
            bt  == b32_decode(Tail(w), 7)
<1>1. TagL # TagB
  BY DEF TagL, TagB, CharL
<1>2. b \in Seq(Byte) /\ b32_decode(Tail(w), Len(b)) = b
  BY AddressBytesType, DecodeByValues
<1>3. CASE a.kind = "lan"
  <2>1. Head(w) = TagL
    BY <1>3, Zenon DEF TagOf
  <2>2. Len(b) = 6 /\ SubSeq(b, 1, 4) = a.ip /\ b[5] = a.port \div 256 /\ b[6] = a.port % 256
    BY <1>3, AddressBytesType, ZenonT(40)
  <2>3. lan = b
    BY <1>2, <2>2, Zenon
  <2>. HIDE DEF b, lan
  <2>4. lan # NoBytes
    <3>1. Len(lan) = 6
      BY <2>2, <2>3, Zenon
    <3>2. Len(<<>>) # 6
      BY SMT
    <3>. QED
      BY <3>1, <3>2, Zenon DEF NoBytes
  <2>. DEFINE p == a.port
  <2>5. a.port \in Nat /\ 1 <= a.port /\ a.port <= MaxPort
        /\ a = [kind |-> "lan", ip |-> a.ip, port |-> a.port]
    BY <1>3, PartsOfAddress, Zenon
  <2>6. (p \div 256) * 256 + (p % 256) = p /\ (p \div 256) + (p % 256) # 0
    <3>1. p \in Nat /\ 1 <= p /\ p <= MaxPort
      BY <2>5
    <3>. HIDE DEF p
    <3>. QED
      BY <3>1, PortBytes, ZenonT(40)
  <2>7. lan[5] + lan[6] # 0 /\ lan[5] * 256 + lan[6] = a.port /\ SubSeq(lan, 1, 4) = a.ip
    BY <2>2, <2>3, <2>6, Zenon
  <2>8. decode(s) = IF lan = NoBytes \/ lan[5] + lan[6] = 0 THEN NoAddress
                    ELSE [kind |-> "lan", ip |-> SubSeq(lan, 1, 4),
                          port |-> lan[5] * 256 + lan[6]]
    BY <1>1, <2>1 DEF decode, lan
  <2>. QED
    BY <2>4, <2>5, <2>7, <2>8, Zenon
<1>4. CASE a.kind # "lan"
  <2>1. Head(w) = TagB
    BY <1>4, Zenon DEF TagOf
  <2>2. Len(b) = 7 /\ SubSeq(b, 1, 6) = parse_addr(a.addr) /\ b[7] = a.channel
    BY <1>4, AddressBytesType, ZenonT(40)
  <2>3. bt = b
    BY <1>2, <2>2, Zenon
  <2>. HIDE DEF b, bt
  <2>4. bt # NoBytes
    <3>1. Len(bt) = 7
      BY <2>2, <2>3, Zenon
    <3>2. Len(<<>>) # 7
      BY SMT
    <3>. QED
      BY <3>1, <3>2, Zenon DEF NoBytes
  <2>5. a.addr \in [1..12 -> 0..15] /\ a.channel \in 1..30
        /\ a = [kind |-> "bluetooth", addr |-> a.addr, channel |-> a.channel]
    BY <1>4, PartsOfAddress, Zenon
  <2>6. format_addr(SubSeq(bt, 1, 6)) = a.addr /\ bt[7] = a.channel
    BY <2>2, <2>3, <2>5, HexRoundTrip, Zenon
  <2>7. decode(s) = IF bt = NoBytes \/ bt[7] \notin 1..30 THEN NoAddress
                    ELSE [kind |-> "bluetooth",
                          addr |-> format_addr(SubSeq(bt, 1, 6)),
                          channel |-> bt[7]]
    BY <1>1, <2>1 DEF decode, bt
  <2>8. bt[7] \in 1..30
    BY <2>5, <2>6, Zenon
  <2>. QED
    BY <2>4, <2>5, <2>6, <2>7, <2>8, Zenon
<1>. QED
  BY <1>3, <1>4

\* Characters too few for the bytes expected decode to none.
LEMMA ShortDecode ==
    ASSUME NEW s \in Seq(Nat), NEW e \in Nat, 5 * Len(s) < 8 * e
    PROVE  b32_decode(s, e) = NoBytes
<1>. DEFINE v == Values(s)
<1>1. Len(s) \in Nat /\ v = [i \in 1..Len(s) |-> b32_value(s[i])]
  BY DEF Values
<1>2. CASE -1 \in Range(v)
  BY <1>2 DEF b32_decode
<1>3. CASE -1 \notin Range(v)
  <2>1. \A i \in 1..Len(s) : b32_value(s[i]) \in 0..31
    <3>. SUFFICES ASSUME NEW i \in 1..Len(s)
                  PROVE  b32_value(s[i]) \in 0..31
      OBVIOUS
    <3>1. DOMAIN v = 1..Len(s) /\ v[i] = b32_value(s[i])
      BY <1>1
    <3>2. b32_value(s[i]) # -1
      BY <1>3, <3>1, Zenon DEF Range
    <3>3. 0 \in 0..31 /\ 1 \in 0..31
      BY SMT
    <3>. QED
      BY <3>2, <3>3, Zenon DEF b32_value
  <2>. DEFINE D == 0..31
  <2>2. v \in [1..Len(s) -> D]
    BY <1>1, <2>1, Zenon
  <2>. HIDE DEF v, D
  <2>3. v \in Seq(D) /\ Len(v) = Len(s)
    BY <1>1, <2>2, SeqOf, ZenonT(40)
  <2>4. Len(Decoded(v)) = (5 * Len(v)) \div 8
    BY <2>3, DecodedReads, Zenon DEF D
  <2>5. Len(Decoded(v)) < e
    BY <1>1, <2>3, <2>4
  <2>. QED
    BY <2>5 DEF b32_decode, v
<1>. QED
  BY <1>2, <1>3

\* Letters of the code of an address that are too few name nothing, whichever
\* of them come to stand where the tag should.
LEMMA ShortNames ==
    ASSUME NEW a \in DialAddress, NEW s, NEW w \in Seq(Nat),
           normalize_code(s) = w,
           \A i \in 1..Len(w) : w[i] \in (0..31) \cup {TagOf(a)},
           Len(w) < 1 + Len(b32_encode(AddressBytes(a)))
    PROVE  decode(s) = NoAddress
<1>. DEFINE n == Len(AddressBytes(a))
<1>1. Len(b32_encode(AddressBytes(a))) = (8 * n + 4) \div 5
  BY AddressBytesType, EncodeSpells
<1>2. n = IF a.kind = "lan" THEN 6 ELSE 7
  BY AddressBytesType, Zenon
<1>. HIDE DEF n
<1>3. Len(w) <= IF a.kind = "lan" THEN 10 ELSE 12
  <2>1. a.kind = "lan" => Len(w) < 11
    BY <1>1, <1>2
  <2>2. a.kind # "lan" => Len(w) < 13
    BY <1>1, <1>2
  <2>. QED
    BY <2>1, <2>2
<1>4. CASE w = <<>>
  BY <1>4 DEF decode
<1>5. CASE w # <<>>
  <2>1. Tail(w) \in Seq(Nat) /\ Len(Tail(w)) = Len(w) - 1 /\ Head(w) = w[1] /\ 1 \in 1..Len(w)
    BY <1>5
  <2>2. Head(w) \in (0..31) \cup {TagOf(a)}
    BY <2>1
  <2>3. b32_decode(Tail(w), 7) = NoBytes
    <3>1. 5 * Len(Tail(w)) < 8 * 7 /\ 7 \in Nat
      BY <1>3, <2>1
    <3>. QED
      BY <2>1, <3>1, ShortDecode
  <2>4. Head(w) = TagL => b32_decode(Tail(w), 6) = NoBytes
    <3>. SUFFICES ASSUME Head(w) = TagL
                  PROVE  b32_decode(Tail(w), 6) = NoBytes
      OBVIOUS
    <3>1. a.kind = "lan"
      <4>1. TagL \notin 0..31 /\ TagL # TagB
        BY DEF TagL, TagB, CharL
      <4>. QED
        BY <2>2, <4>1 DEF TagOf
    <3>2. 5 * Len(Tail(w)) < 8 * 6 /\ 6 \in Nat
      BY <1>3, <2>1, <3>1
    <3>. QED
      BY <2>1, <3>2, ShortDecode
  <2>5. TagL # TagB
    BY DEF TagL, TagB, CharL
  <2>. QED
    BY <1>5, <2>3, <2>4, <2>5, Zenon DEF decode
<1>. QED
  BY <1>4, <1>5

-----------------------------------------------------------------------------
(* What a joiner types.                                                    *)

SlipKinds == {"look-alike", "missed", "extra"}

\* The letters typed, and those of the part of the code that has been read.
Cleaned == normalize_code(typed)
InRoom == normalize_code(SubSeq(room, 1, read))

\* Every variable of the typing has its type, the code shown is the listener's.
TypeOK ==
    /\ dial \in Addresses
    /\ room = encode(dial)
    /\ style \in [lower : BOOLEAN, dashes : BOOLEAN]
    /\ read \in 0..Len(room)
    /\ typed \in Seq(Nat)
    /\ slips \in Seq(SlipKinds)

\* Without a slip the letters typed are the letters read.
CopiedSoFar == slips = <<>> => Cleaned = InRoom

\* With look-alikes only, each letter is the one read or looks like it.
AlikeSoFar ==
    Range(slips) \subseteq {"look-alike"} =>
        /\ Len(Cleaned) = Len(InRoom)
        /\ \A i \in 1..Len(Cleaned) :
              Cleaned[i] = InRoom[i] \/ Cleaned[i] \in LookAlikes(InRoom[i])

\* With characters missed only, a letter is missing for each.
MissedSoFar ==
    Range(slips) \subseteq {"missed"} =>
        /\ Len(Cleaned) + Len(slips) = Len(InRoom)
        /\ \A i \in 1..Len(Cleaned) : Cleaned[i] \in (0..31) \cup {TagOf(dial)}

\* Each answer has its reason.
Answered ==
    /\ phase # "typing" => read = Len(room)
    /\ phase \in {"dialling", "hello", "no answer", "rejected"} =>
          target = decode(typed) /\ my_room = ToUpper(typed)
    /\ phase = "bad code" => decode(typed) = NoAddress
    /\ phase = "no answer" => target # dial
    /\ phase = "rejected" => normalize_code(my_room) # normalize_code(room)

IInv == TypeOK /\ CopiedSoFar /\ AlikeSoFar /\ MissedSoFar /\ Answered

\* A character typed in the reader's style is kept or dropped with the one it
\* stands for, whatever the case.
LEMMA StyleIsDropped ==
    ASSUME NEW s \in Seq(Nat), NEW c \in 0..36, style \in [lower : BOOLEAN, dashes : BOOLEAN]
    PROVE  /\ s \o InStyle(c) \in Seq(Nat)
           /\ normalize_code(s \o InStyle(c)) =
                IF c = Dash THEN normalize_code(s) ELSE Append(normalize_code(s), c)
<1>1. /\ \A x \in 0..36 : Upper(x) = x /\ Upper(x + LowerCase) = x
      /\ Dash = 36
  BY DEF Upper, LowerCase, Dash
<1>2. ASSUME NEW x \in Nat
      PROVE  s \o <<x>> = Append(s, x) /\ Append(s, x) \in Seq(Nat)
  OBVIOUS
<1>3. s \o <<>> = s
  OBVIOUS
<1>4. CASE c = Dash
  <2>1. ~IsAlphanumeric(Dash) /\ Dash \in Nat
    BY <1>1 DEF IsAlphanumeric
  <2>2. InStyle(c) = <<Dash>> \/ InStyle(c) = <<>>
    BY <1>4 DEF InStyle
  <2>3. CASE InStyle(c) = <<Dash>>
    <3>1. s \o InStyle(c) = Append(s, Dash) /\ Append(s, Dash) \in Seq(Nat)
      BY <1>2, <2>1, <2>3
    <3>2. normalize_code(Append(s, Dash)) = normalize_code(s)
      BY <2>1, NormalizeOn
    <3>. QED
      BY <1>4, <3>1, <3>2
  <2>4. CASE InStyle(c) = <<>>
    BY <1>3, <1>4, <2>4
  <2>. QED
    BY <2>2, <2>3, <2>4
<1>5. CASE c # Dash
  <2>1. PICK x \in {c, c + LowerCase} : InStyle(c) = <<x>>
    BY <1>5 DEF InStyle
  <2>2. x \in Nat /\ Upper(x) = c
    <3>1. c \in Nat /\ c + LowerCase \in Nat
      BY DEF LowerCase
    <3>2. Upper(c) = c /\ Upper(c + LowerCase) = c
      BY <1>1, Zenon
    <3>. QED
      BY <2>1, <3>1, <3>2, Zenon
  <2>3. IsAlphanumeric(x)
    BY <1>5, <2>2 DEF IsAlphanumeric
  <2>4. s \o InStyle(c) = Append(s, x) /\ Append(s, x) \in Seq(Nat)
    BY <1>2, <2>1, <2>2
  <2>5. normalize_code(Append(s, x)) = Append(normalize_code(s), c)
    BY <2>2, <2>3, NormalizeOn
  <2>. QED
    BY <1>5, <2>4, <2>5
<1>. QED
  BY <1>4, <1>5

\* The next character read adds its letter to those read so far, or is a dash.
LEMMA NextRead ==
    ASSUME TypeOK, read < Len(room)
    PROVE  /\ read + 1 \in 1..Len(room)
           /\ room[read + 1] \in (0..31) \cup {TagOf(dial), Dash}
           /\ InRoom \in Seq(Nat)
           /\ normalize_code(SubSeq(room, 1, read + 1)) =
                IF room[read + 1] = Dash THEN InRoom ELSE Append(InRoom, room[read + 1])
<1>1. dial \in DialAddress /\ room = encode(dial)
  BY RoomCodeAssumption DEF TypeOK
<1>2. room \in Seq(Nat) /\ \A i \in 1..Len(room) : room[i] \in (0..31) \cup {TagOf(dial), Dash}
  BY <1>1, CodeOfAddress
<1>3. read \in Nat /\ Len(room) \in Nat /\ read <= Len(room)
  BY <1>2 DEF TypeOK
<1>4. read + 1 \in 1..Len(room)
  BY <1>3
<1>. DEFINE c == room[read + 1]
            x == SubSeq(room, 1, read)
<1>5. c \in (0..31) \cup {TagOf(dial), Dash} /\ c \in Nat
  <2>1. c \in Nat
    BY <1>2, <1>4
  <2>. QED
    BY <1>2, <1>4, <2>1, Zenon
<1>6. x \in Seq(Nat) /\ SubSeq(room, 1, read + 1) = Append(x, c)
  BY <1>2, <1>3, <1>4
<1>. HIDE DEF x
<1>7. normalize_code(x) \in Seq(Nat)
  BY <1>6, NormalizeType
<1>8. normalize_code(Append(x, c)) = IF IsAlphanumeric(c) THEN Append(normalize_code(x), Upper(c))
                                                          ELSE normalize_code(x)
  BY <1>5, <1>6, NormalizeOn
<1>9. Upper(c) = c
  <2>1. TagOf(dial) <= 36 /\ Dash <= 36
    BY DEF TagOf, TagL, TagB, CharL, Dash
  <2>2. c <= 36
    <3>1. \A y \in 0..31 : y <= 36
      BY SMT
    <3>2. \A y \in {TagOf(dial), Dash} : y <= 36
      BY <2>1, Zenon
    <3>. QED
      BY <1>5, <3>1, <3>2, Zenon
  <2>. HIDE DEF c
  <2>. QED
    BY <1>5, <2>2 DEF Upper, LowerCase
<1>. QED
  BY <1>4, <1>5, <1>6, <1>7, <1>8, <1>9 DEF InRoom, x, IsAlphanumeric

\* Another slip is the one more that has been made.
LEMMA SlipsOn ==
    ASSUME slips \in Seq(SlipKinds), NEW kind \in SlipKinds, Slip(kind)
    PROVE  /\ slips' \in Seq(SlipKinds) /\ slips' # <<>>
           /\ Len(slips') = Len(slips) + 1
           /\ Range(slips') = Range(slips) \cup {kind}
<1>1. slips' = Append(slips, kind)
  BY DEF Slip
<1>. DEFINE n == Len(slips)
            t == Append(slips, kind)
<1>2. /\ t \in Seq(SlipKinds) /\ t # <<>> /\ Len(t) = n + 1
      /\ \A i \in 1..n : t[i] = slips[i]
      /\ t[n + 1] = kind
  BY AppendProperties
<1>. HIDE DEF t
<1>3. n \in Nat /\ DOMAIN slips = 1..n /\ DOMAIN t = 1..(n + 1)
  BY <1>2
<1>. HIDE DEF n
<1>4. 1..(n + 1) = (1..n) \cup {n + 1}
  BY <1>3
<1>5. Range(t) = Range(slips) \cup {kind}
  <2>1. Range(t) = {t[i] : i \in (1..n) \cup {n + 1}}
    BY <1>3, <1>4, Zenon DEF Range
  <2>2. Range(slips) = {slips[i] : i \in 1..n}
    BY <1>3, Zenon DEF Range
  <2>. QED
    BY <1>2, <2>1, <2>2, Zenon
<1>. QED
  BY <1>1, <1>2, <1>5 DEF t, n

\* At the start nothing has been read or typed.
LEMMA InitInv == Init => IInv
<1>. SUFFICES ASSUME Init
              PROVE  IInv
  OBVIOUS
<1>1. dial \in DialAddress /\ room = encode(dial)
  BY RoomCodeAssumption DEF Init
<1>2. room \in Seq(Nat)
  BY <1>1, CodeOfAddress
<1>3. TypeOK
  BY <1>2 DEF Init, TypeOK
<1>4. Cleaned = <<>> /\ InRoom = <<>>
  <2>1. SubSeq(room, 1, read) = <<>>
    BY <1>2 DEF Init
  <2>. QED
    BY <2>1, NormalizeEmpty DEF Init, Cleaned, InRoom
<1>5. CopiedSoFar /\ AlikeSoFar /\ MissedSoFar
  BY <1>4 DEF Init, CopiedSoFar, AlikeSoFar, MissedSoFar
<1>6. Answered
  BY DEF Init, Answered
<1>. QED
  BY <1>3, <1>5, <1>6 DEF IInv

\* What of the typing stays as it is while a text is typed.
LEMMA TypeFrame ==
    ASSUME TypeOK, Type
    PROVE  /\ Answered' /\ (TagOf(dial))' = TagOf(dial)
           /\ read' \in 0..Len(room) /\ typed' \in Seq(Nat) /\ slips' \in Seq(SlipKinds)
              => TypeOK'
           /\ Cleaned' = normalize_code(typed')
           /\ InRoom' = normalize_code(SubSeq(room, 1, read'))
BY DEF TypeOK, Type, Answered, TagOf, Cleaned, InRoom

\* A character copied.
LEMMA CopyInv ==
    ASSUME IInv, Type, read < Len(room), read' = read + 1,
           typed' = typed \o InStyle(room[read + 1]), slips' = slips
    PROVE  IInv'
<1>. DEFINE c == room[read + 1]
            x == Cleaned
            y == InRoom
<1>1. TypeOK
  BY DEF IInv
<1>2. c \in (0..31) \cup {TagOf(dial), Dash} /\ c \in 0..36
  <2>1. c \in (0..31) \cup {TagOf(dial), Dash}
    BY <1>1, NextRead
  <2>2. TagOf(dial) \in 0..36 /\ Dash \in 0..36
    BY DEF TagOf, TagL, TagB, CharL, Dash
  <2>3. \A z \in 0..31 : z \in 0..36
    BY SMT
  <2>. QED
    BY <2>1, <2>2, <2>3, Zenon
<1>3. typed' \in Seq(Nat) /\ Cleaned' = IF c = Dash THEN x ELSE Append(x, c)
  BY <1>1, <1>2, StyleIsDropped, TypeFrame DEF TypeOK, Cleaned
<1>4. InRoom' = IF c = Dash THEN y ELSE Append(y, c)
  BY <1>1, NextRead, TypeFrame
<1>5. x \in Seq(Nat) /\ y \in Seq(Nat)
  BY <1>1, NextRead, NormalizeType DEF Cleaned, TypeOK
<1>6. read' \in 0..Len(room)
  BY <1>1 DEF TypeOK
<1>7. TypeOK'
  BY <1>1, <1>3, <1>6, TypeFrame DEF TypeOK
<1>8. Answered' /\ (TagOf(dial))' = TagOf(dial)
  BY <1>1, TypeFrame
<1>9. /\ slips = <<>> => x = y
      /\ Range(slips) \subseteq {"look-alike"} =>
            Len(x) = Len(y) /\ \A i \in 1..Len(x) : x[i] = y[i] \/ x[i] \in LookAlikes(y[i])
      /\ Range(slips) \subseteq {"missed"} =>
            /\ Len(x) + Len(slips) = Len(y)
            /\ \A i \in 1..Len(x) : x[i] \in (0..31) \cup {TagOf(dial)}
  BY DEF IInv, CopiedSoFar, AlikeSoFar, MissedSoFar
<1>. HIDE DEF c, x, y
<1>10. CASE c = Dash
  <2>1. Cleaned' = x /\ InRoom' = y
    BY <1>3, <1>4, <1>10
  <2>2. CopiedSoFar' /\ AlikeSoFar' /\ MissedSoFar'
    BY <1>8, <1>9, <2>1 DEF CopiedSoFar, AlikeSoFar, MissedSoFar
  <2>. QED
    BY <1>7, <1>8, <2>2 DEF IInv
<1>11. CASE c # Dash
  <2>. DEFINE u == Append(x, c)
              v == Append(y, c)
  <2>1. Cleaned' = u /\ InRoom' = v
    BY <1>3, <1>4, <1>11
  <2>2. c \in Nat
    BY <1>2
  <2>3. /\ Len(u) = Len(x) + 1 /\ u[Len(x) + 1] = c /\ \A i \in 1..Len(x) : u[i] = x[i]
        /\ Len(v) = Len(y) + 1 /\ v[Len(y) + 1] = c /\ \A i \in 1..Len(y) : v[i] = y[i]
    BY <1>5, <2>2, AppendProperties
  <2>. HIDE DEF u, v
  <2>4. Len(x) \in Nat /\ Len(y) \in Nat /\ Len(slips) \in Nat
    BY <1>1, <1>5 DEF TypeOK
  <2>5. slips = <<>> => u = v
    BY <1>9 DEF u, v
  <2>6. Range(slips) \subseteq {"look-alike"} =>
            Len(u) = Len(v) /\ \A i \in 1..Len(u) : u[i] = v[i] \/ u[i] \in LookAlikes(v[i])
    <3>. SUFFICES ASSUME Range(slips) \subseteq {"look-alike"}
                  PROVE  Len(u) = Len(v) /\ \A i \in 1..Len(u) : u[i] = v[i] \/ u[i] \in LookAlikes(v[i])
      OBVIOUS
    <3>1. Len(x) = Len(y) /\ \A i \in 1..Len(x) : x[i] = y[i] \/ x[i] \in LookAlikes(y[i])
      BY <1>9
    <3>2. ASSUME NEW i \in 1..Len(u)
          PROVE  u[i] = v[i] \/ u[i] \in LookAlikes(v[i])
      <4>1. CASE i = Len(x) + 1
        BY <2>3, <3>1, <4>1, Zenon
      <4>2. CASE i # Len(x) + 1
        <5>1. i \in 1..Len(x)
          BY <2>3, <2>4, <4>2
        <5>. QED
          BY <2>3, <3>1, <5>1, Zenon
      <4>. QED
        BY <4>1, <4>2
    <3>. QED
      BY <2>3, <3>1, <3>2
  <2>7. Range(slips) \subseteq {"missed"} =>
            /\ Len(u) + Len(slips) = Len(v)
            /\ \A i \in 1..Len(u) : u[i] \in (0..31) \cup {TagOf(dial)}
    <3>. SUFFICES ASSUME Range(slips) \subseteq {"missed"}
                  PROVE  /\ Len(u) + Len(slips) = Len(v)
                         /\ \A i \in 1..Len(u) : u[i] \in (0..31) \cup {TagOf(dial)}
      OBVIOUS
    <3>1. /\ Len(x) + Len(slips) = Len(y)
          /\ \A i \in 1..Len(x) : x[i] \in (0..31) \cup {TagOf(dial)}
      BY <1>9
    <3>2. ASSUME NEW i \in 1..Len(u)
          PROVE  u[i] \in (0..31) \cup {TagOf(dial)}
      <4>1. CASE i = Len(x) + 1
        BY <1>2, <1>11, <2>3, <4>1, Zenon
      <4>2. CASE i # Len(x) + 1
        <5>1. i \in 1..Len(x)
          BY <2>3, <2>4, <4>2
        <5>. QED
          BY <2>3, <3>1, <5>1, Zenon
      <4>. QED
        BY <4>1, <4>2
    <3>3. Len(u) + Len(slips) = Len(v)
      <4>1. Len(u) = Len(x) + 1 /\ Len(v) = Len(y) + 1 /\ Len(x) + Len(slips) = Len(y)
        BY <2>3, <3>1, Zenon
      <4>. QED
        BY <2>4, <4>1, SMTT(40)
    <3>. QED
      BY <3>2, <3>3
  <2>8. CopiedSoFar' /\ AlikeSoFar' /\ MissedSoFar'
    BY <1>8, <2>1, <2>5, <2>6, <2>7 DEF CopiedSoFar, AlikeSoFar, MissedSoFar
  <2>. QED
    BY <1>7, <1>8, <2>8 DEF IInv
<1>. QED
  BY <1>10, <1>11

\* A look-alike typed for a character.
LEMMA LookAlikeInv ==
    ASSUME IInv, Type, read < Len(room), read' = read + 1, Slip("look-alike"),
           NEW d \in LookAlikes(room[read + 1]), typed' = typed \o InStyle(d)
    PROVE  IInv'
<1>. DEFINE c == room[read + 1]
            x == Cleaned
            y == InRoom
            u == Append(x, d)
            v == Append(y, c)
<1>1. TypeOK
  BY DEF IInv
<1>2. c \in {0, 1} /\ d \in {CharO, CharI, CharL}
  BY DEF LookAlikes
<1>3. c # Dash /\ d # Dash /\ d \in 0..36 /\ c \in Nat /\ d \in Nat
  BY <1>2 DEF Dash, CharO, CharI, CharL
<1>4. typed' \in Seq(Nat) /\ Cleaned' = u
  BY <1>1, <1>3, StyleIsDropped, TypeFrame DEF TypeOK, Cleaned
<1>5. InRoom' = v
  BY <1>1, <1>3, NextRead, TypeFrame
<1>6. x \in Seq(Nat) /\ y \in Seq(Nat)
  BY <1>1, NextRead, NormalizeType DEF Cleaned, TypeOK
<1>7. /\ slips' \in Seq(SlipKinds) /\ slips' # <<>>
      /\ Range(slips') = Range(slips) \cup {"look-alike"}
  BY <1>1, SlipsOn DEF TypeOK, SlipKinds
<1>8. read' \in 0..Len(room)
  BY <1>1 DEF TypeOK
<1>9. TypeOK' /\ Answered'
  BY <1>1, <1>4, <1>7, <1>8, TypeFrame
<1>10. Range(slips') \subseteq {"look-alike"} => Range(slips) \subseteq {"look-alike"}
  BY <1>7
<1>11. Range(slips) \subseteq {"look-alike"} =>
         Len(x) = Len(y) /\ \A i \in 1..Len(x) : x[i] = y[i] \/ x[i] \in LookAlikes(y[i])
  BY DEF IInv, AlikeSoFar
<1>12. d \in LookAlikes(c)
  OBVIOUS
<1>. HIDE DEF c, x, y
<1>13. /\ Len(u) = Len(x) + 1 /\ u[Len(x) + 1] = d /\ \A i \in 1..Len(x) : u[i] = x[i]
       /\ Len(v) = Len(y) + 1 /\ v[Len(y) + 1] = c /\ \A i \in 1..Len(y) : v[i] = y[i]
  BY <1>3, <1>6, AppendProperties
<1>. HIDE DEF u, v
<1>14. Len(x) \in Nat /\ Len(y) \in Nat
  BY <1>6
<1>15. AlikeSoFar'
  <2>. SUFFICES ASSUME Range(slips) \subseteq {"look-alike"}
                PROVE  Len(u) = Len(v) /\ \A i \in 1..Len(u) : u[i] = v[i] \/ u[i] \in LookAlikes(v[i])
    BY <1>4, <1>5, <1>10 DEF AlikeSoFar
  <2>1. Len(x) = Len(y) /\ \A i \in 1..Len(x) : x[i] = y[i] \/ x[i] \in LookAlikes(y[i])
    BY <1>11
  <2>2. ASSUME NEW i \in 1..Len(u)
        PROVE  u[i] = v[i] \/ u[i] \in LookAlikes(v[i])
    <3>1. CASE i = Len(x) + 1
      BY <1>12, <1>13, <2>1, <3>1, Zenon
    <3>2. CASE i # Len(x) + 1
      <4>1. i \in 1..Len(x)
        BY <1>13, <1>14, <3>2
      <4>. QED
        BY <1>13, <2>1, <4>1, Zenon
    <3>. QED
      BY <3>1, <3>2
  <2>. QED
    BY <1>13, <2>1, <2>2, Zenon
<1>16. CopiedSoFar' /\ MissedSoFar'
  <2>1. "look-alike" \in Range(slips') /\ "look-alike" # "missed"
    BY <1>7
  <2>. QED
    BY <1>7, <2>1, Zenon DEF CopiedSoFar, MissedSoFar
<1>. QED
  BY <1>9, <1>15, <1>16 DEF IInv

\* A character missed.
LEMMA MissedInv ==
    ASSUME IInv, Type, read < Len(room), read' = read + 1, Slip("missed"),
           room[read + 1] # Dash, typed' = typed
    PROVE  IInv'
<1>. DEFINE c == room[read + 1]
            x == Cleaned
            y == InRoom
            v == Append(y, c)
<1>1. TypeOK
  BY DEF IInv
<1>2. typed' \in Seq(Nat) /\ Cleaned' = x
  BY <1>1, TypeFrame DEF TypeOK, Cleaned
<1>3. InRoom' = v
  BY <1>1, NextRead, TypeFrame
<1>4. y \in Seq(Nat) /\ x \in Seq(Nat)
  BY <1>1, NextRead, NormalizeType DEF Cleaned, TypeOK
<1>5. /\ slips' \in Seq(SlipKinds) /\ slips' # <<>>
      /\ Len(slips') = Len(slips) + 1
      /\ Range(slips') = Range(slips) \cup {"missed"}
  BY <1>1, SlipsOn DEF TypeOK, SlipKinds
<1>6. read' \in 0..Len(room)
  BY <1>1 DEF TypeOK
<1>7. TypeOK' /\ Answered' /\ (TagOf(dial))' = TagOf(dial)
  BY <1>1, <1>2, <1>5, <1>6, TypeFrame
<1>8. Range(slips') \subseteq {"missed"} => Range(slips) \subseteq {"missed"}
  BY <1>5
<1>9. Range(slips) \subseteq {"missed"} =>
            /\ Len(x) + Len(slips) = Len(y)
            /\ \A i \in 1..Len(x) : x[i] \in (0..31) \cup {TagOf(dial)}
  BY DEF IInv, MissedSoFar
<1>. HIDE DEF c, x, y
<1>10. Len(v) = Len(y) + 1
  BY <1>4
<1>. HIDE DEF v
<1>11. Len(x) \in Nat /\ Len(y) \in Nat /\ Len(slips) \in Nat
  BY <1>1, <1>4 DEF TypeOK
<1>12. MissedSoFar'
  <2>. SUFFICES ASSUME Range(slips) \subseteq {"missed"}
                PROVE  /\ Len(x) + Len(slips') = Len(v)
                       /\ \A i \in 1..Len(x) : x[i] \in (0..31) \cup {TagOf(dial)}
    BY <1>2, <1>3, <1>7, <1>8 DEF MissedSoFar
  <2>1. Len(x) + Len(slips) = Len(y)
    BY <1>9
  <2>2. Len(x) + Len(slips') = Len(v)
    BY <1>5, <1>10, <1>11, <2>1
  <2>. QED
    BY <1>9, <2>2
<1>13. CopiedSoFar' /\ AlikeSoFar'
  <2>1. "missed" \in Range(slips') /\ "look-alike" # "missed"
    BY <1>5
  <2>. QED
    BY <1>5, <2>1, Zenon DEF CopiedSoFar, AlikeSoFar
<1>. QED
  BY <1>7, <1>12, <1>13 DEF IInv

\* A character typed that is not there.
LEMMA ExtraInv ==
    ASSUME IInv, Type, Slip("extra"), NEW c \in Strays, typed' = Append(typed, c), read' = read
    PROVE  IInv'
<1>1. TypeOK
  BY DEF IInv
<1>2. typed' \in Seq(Nat)
  BY <1>1, RoomCodeAssumption DEF TypeOK
<1>3. /\ slips' \in Seq(SlipKinds) /\ slips' # <<>>
      /\ Range(slips') = Range(slips) \cup {"extra"}
  BY <1>1, SlipsOn DEF TypeOK, SlipKinds
<1>4. read' \in 0..Len(room)
  BY <1>1 DEF TypeOK
<1>5. TypeOK' /\ Answered'
  BY <1>1, <1>2, <1>3, <1>4, TypeFrame
<1>6. "extra" \in Range(slips') /\ "extra" # "missed" /\ "extra" # "look-alike"
  BY <1>3
<1>7. CopiedSoFar' /\ AlikeSoFar' /\ MissedSoFar'
  BY <1>3, <1>6, Zenon DEF CopiedSoFar, AlikeSoFar, MissedSoFar
<1>. QED
  BY <1>5, <1>7 DEF IInv

\* Typing keeps the invariant.
LEMMA TypeInv == IInv /\ Type => IInv'
<1>. SUFFICES ASSUME IInv, Type
              PROVE  IInv'
  OBVIOUS
<1>1. CASE /\ read < Len(room)
           /\ read' = read + 1
           /\ typed' = typed \o InStyle(room[read + 1])
           /\ UNCHANGED slips
  BY <1>1, CopyInv
<1>2. CASE /\ read < Len(room)
           /\ read' = read + 1
           /\ Slip("look-alike")
           /\ \E c \in LookAlikes(room[read + 1]) : typed' = typed \o InStyle(c)
  BY <1>2, LookAlikeInv
<1>3. CASE /\ read < Len(room)
           /\ read' = read + 1
           /\ room[read + 1] # Dash
           /\ Slip("missed")
           /\ UNCHANGED typed
  BY <1>3, MissedInv
<1>4. CASE /\ Slip("extra")
           /\ \E c \in Strays : typed' = Append(typed, c)
           /\ UNCHANGED read
  BY <1>4, ExtraInv
<1>. QED
  BY <1>1, <1>2, <1>3, <1>4 DEF Type

\* What is not about the phase is kept by every other step.
LEMMA TextFrame ==
    ASSUME IInv, UNCHANGED <<dial, room, style, read, typed, slips>>
    PROVE  TypeOK' /\ CopiedSoFar' /\ AlikeSoFar' /\ MissedSoFar'
<1>1. Cleaned' = Cleaned /\ InRoom' = InRoom /\ (TagOf(dial))' = TagOf(dial)
  BY DEF Cleaned, InRoom, TagOf
<1>. QED
  BY <1>1 DEF IInv, TypeOK, CopiedSoFar, AlikeSoFar, MissedSoFar

\* So do the attempt to join and its answers.
LEMMA JoinInv ==
    ASSUME IInv, NEW mode \in {"lan", "bluetooth"}, join(mode)
    PROVE  IInv'
<1>1. UNCHANGED <<dial, room, style, read, typed, slips>> /\ read = Len(room)
  BY DEF join
<1>2. \/ phase' = "bad code" /\ decode(typed) = NoAddress
      \/ phase' = "other mode"
      \/ phase' = "dialling" /\ target' = decode(typed) /\ my_room' = ToUpper(typed)
  BY DEF join
<1>3. Answered'
  BY <1>1, <1>2 DEF Answered
<1>. QED
  BY <1>1, <1>3, TextFrame DEF IInv

\* Induction.
LEMMA NextInv == IInv /\ [Next]_vars => IInv'
<1>. SUFFICES ASSUME IInv, [Next]_vars
              PROVE  IInv'
  OBVIOUS
<1>1. CASE Type
  BY <1>1, TypeInv
<1>2. ASSUME NEW mode \in {"lan", "bluetooth"}, join(mode)
      PROVE  IInv'
  BY <1>2, JoinInv
<1>3. CASE try_dial
  <2>1. UNCHANGED <<dial, room, style, read, typed, slips>>
    BY <1>3 DEF try_dial
  <2>2. Answered'
    BY <1>3 DEF try_dial, IInv, Answered
  <2>. QED
    BY <2>1, <2>2, TextFrame DEF IInv
<1>4. CASE on_hello
  <2>1. UNCHANGED <<dial, room, style, read, typed, slips>>
    BY <1>4 DEF on_hello
  <2>2. Answered'
    BY <1>4 DEF on_hello, IInv, Answered
  <2>. QED
    BY <2>1, <2>2, TextFrame DEF IInv
<1>5. CASE UNCHANGED vars
  <2>1. UNCHANGED <<dial, room, style, read, typed, slips>> /\ UNCHANGED <<phase, target, my_room>>
    BY <1>5 DEF vars
  <2>2. Answered'
    BY <2>1 DEF IInv, Answered
  <2>. QED
    BY <2>1, <2>2, TextFrame DEF IInv
<1>. QED
  BY <1>1, <1>2, <1>3, <1>4, <1>5 DEF Next

\* The invariant holds of every attempt to join.
LEMMA Invariance == Spec => []IInv
<1>. QED
  BY InitInv, NextInv, PTL DEF Spec

-----------------------------------------------------------------------------
(* What the joiner's text comes to.                                        *)

\* Once the whole code has been read, what has been read is its tag and the
\* spelling of the host's address.
LEMMA WholeCode ==
    ASSUME TypeOK, read = Len(room)
    PROVE  /\ dial \in DialAddress
           /\ InRoom = normalize_code(room)
           /\ normalize_code(room) = <<TagOf(dial)>> \o b32_encode(AddressBytes(dial))
           /\ b32_encode(AddressBytes(dial)) \in Seq(0..31)
           /\ Len(InRoom) = 1 + Len(b32_encode(AddressBytes(dial)))
           /\ InRoom[1] = TagOf(dial)
           /\ \A i \in 1..Len(b32_encode(AddressBytes(dial))) :
                 InRoom[i + 1] = b32_encode(AddressBytes(dial))[i]
<1>. DEFINE p == b32_encode(AddressBytes(dial))
            t == <<TagOf(dial)>>
<1>1. dial \in DialAddress /\ room = encode(dial)
  BY RoomCodeAssumption DEF TypeOK
<1>2. room \in Seq(Nat) /\ normalize_code(room) = t \o p
  BY <1>1, CodeOfAddress
<1>3. SubSeq(room, 1, read) = room
  BY <1>2
<1>4. InRoom = normalize_code(room)
  BY <1>3 DEF InRoom
<1>5. p \in Seq(0..31)
  BY <1>1, AddressBytesType, EncodeSpells
<1>6. p \in Seq(Nat)
  <2>. DEFINE D == 0..31
  <2>1. D \subseteq Nat
    OBVIOUS
  <2>. HIDE DEF D, p
  <2>. QED
    BY <1>5, <2>1, SeqMonotonic DEF D
<1>7. t \in Seq(Nat) /\ Len(t) = 1 /\ t[1] = TagOf(dial)
  BY DEF TagOf, TagL, TagB, CharL
<1>. HIDE DEF p, t
<1>8. /\ Len(t \o p) = 1 + Len(p) /\ (t \o p)[1] = t[1]
      /\ \A i \in 1..Len(p) : (t \o p)[i + 1] = p[i]
  <2>1. /\ Len(t \o p) = Len(t) + Len(p)
        /\ \A i \in 1..Len(t) + Len(p) : (t \o p)[i] = IF i <= Len(t) THEN t[i] ELSE p[i - Len(t)]
    BY <1>6, <1>7, ConcatProperties, Zenon
  <2>2. Len(p) \in Nat
    BY <1>6
  <2>. QED
    BY <1>7, <2>1, <2>2
<1>. QED
  BY <1>1, <1>2, <1>4, <1>5, <1>7, <1>8, Zenon DEF p, t

\* A look-alike of a character of the alphabet stands for the same value.
LEMMA ValueOfLookAlike ==
    ASSUME NEW c \in 0..31, NEW d, d = c \/ d \in LookAlikes(c)
    PROVE  b32_value(d) = c
<1>1. CASE d = c
  BY <1>1, ValueOfPosition
<1>2. CASE d \in LookAlikes(c)
  <2>1. \/ c = 0 /\ d = CharO
        \/ c = 1 /\ d \in {CharI, CharL}
    BY <1>2 DEF LookAlikes
  <2>2. CASE c = 0 /\ d = CharO
    BY <2>2 DEF b32_value, Upper, LowerCase, CharO, CharI, CharL
  <2>3. CASE c = 1 /\ d \in {CharI, CharL}
    BY <2>3 DEF b32_value, Upper, LowerCase, CharO, CharI, CharL
  <2>. QED
    BY <2>1, <2>2, <2>3
<1>. QED
  BY <1>1, <1>2

\* The text typed with look-alikes only decodes to the host's address.
LEMMA AlikeNames ==
    ASSUME IInv, read = Len(room), Range(slips) \subseteq {"look-alike"}
    PROVE  decode(typed) = dial
<1>. DEFINE p == b32_encode(AddressBytes(dial))
            w == Cleaned
            y == InRoom
<1>1. TypeOK
  BY DEF IInv
<1>2. /\ dial \in DialAddress /\ p \in Seq(0..31)
      /\ Len(y) = 1 + Len(p) /\ y[1] = TagOf(dial) /\ \A i \in 1..Len(p) : y[i + 1] = p[i]
  BY <1>1, WholeCode
<1>3. Len(w) = Len(y) /\ \A i \in 1..Len(w) : w[i] = y[i] \/ w[i] \in LookAlikes(y[i])
  BY DEF IInv, AlikeSoFar
<1>4. w \in Seq(Nat) /\ normalize_code(typed) = w
  BY <1>1, NormalizeType DEF TypeOK, Cleaned
<1>. HIDE DEF p, w, y
<1>5. Len(p) \in Nat
  BY <1>2
<1>6. w # <<>> /\ Head(w) = w[1] /\ 1 \in 1..Len(w)
  BY <1>2, <1>3, <1>4, <1>5
<1>7. w[1] = TagOf(dial)
  <2>1. TagOf(dial) # 0 /\ TagOf(dial) # 1
    BY DEF TagOf, TagL, TagB, CharL
  <2>2. LookAlikes(TagOf(dial)) = {}
    BY <2>1 DEF LookAlikes
  <2>. QED
    BY <1>2, <1>3, <1>6, <2>2, Zenon
<1>8. Len(Tail(w)) = Len(p) /\ Tail(w) \in Seq(Nat) /\ \A i \in 1..Len(p) : Tail(w)[i] = w[i + 1]
  BY <1>2, <1>3, <1>4, <1>5, <1>6, HeadTailProperties
<1>9. Values(Tail(w)) = p
  <2>1. ASSUME NEW i \in 1..Len(p)
        PROVE  b32_value(Tail(w)[i]) = p[i]
    <3>1. i + 1 \in 1..Len(w)
      BY <1>2, <1>3, <1>5
    <3>2. Tail(w)[i] = p[i] \/ Tail(w)[i] \in LookAlikes(p[i])
      BY <1>2, <1>3, <1>8, <3>1, Zenon
    <3>3. p[i] \in 0..31
      BY <1>2, EntryOf
    <3>. QED
      BY <3>2, <3>3, ValueOfLookAlike
  <2>2. DOMAIN Tail(w) = 1..Len(p)
    BY <1>8
  <2>3. Values(Tail(w)) = [i \in 1..Len(p) |-> p[i]]
    BY <2>1, <2>2, Zenon DEF Values
  <2>4. p = [i \in 1..Len(p) |-> p[i]]
    BY <1>2
  <2>. QED
    BY <2>3, <2>4
<1>. QED
  BY <1>2, <1>4, <1>6, <1>7, <1>9, DecodeNames DEF p

\* With every character of the code read, look-alikes, case and grouping lead
\* to no other address than the host's: b32_value folds what b32_decode reads.
THEOREM LookAlikesNameTheHostAlways == Spec => []LookAlikesNameTheHost
<1>1. IInv => LookAlikesNameTheHost
  <2>. SUFFICES ASSUME IInv, Typed, Range(slips) \subseteq {"look-alike"}
                PROVE  decode(typed) = dial
    BY DEF LookAlikesNameTheHost
  <2>1. read = Len(room)
    BY DEF IInv, Answered, Typed
  <2>. QED
    BY <2>1, AlikeNames
<1>. QED
  BY <1>1, Invariance, PTL

\* Characters missed leave decode too few bytes whichever they are, the tag
\* included: it never names an address by mistake.
THEOREM ShortCodesNameNobodyAlways == Spec => []ShortCodesNameNobody
<1>1. IInv => ShortCodesNameNobody
  <2>. SUFFICES ASSUME IInv, Typed, slips # <<>>, Range(slips) = {"missed"}
                PROVE  decode(typed) = NoAddress
    BY DEF ShortCodesNameNobody
  <2>1. read = Len(room) /\ TypeOK
    BY DEF IInv, Answered, Typed
  <2>2. /\ Len(Cleaned) + Len(slips) = Len(InRoom)
        /\ \A i \in 1..Len(Cleaned) : Cleaned[i] \in (0..31) \cup {TagOf(dial)}
    BY DEF IInv, MissedSoFar
  <2>3. Cleaned \in Seq(Nat) /\ normalize_code(typed) = Cleaned
    BY <2>1, NormalizeType DEF TypeOK, Cleaned
  <2>4. Len(slips) \in Nat /\ Len(slips) # 0
    BY <2>1 DEF TypeOK
  <2>5. dial \in DialAddress /\ Len(InRoom) = 1 + Len(b32_encode(AddressBytes(dial)))
    BY <2>1, WholeCode
  <2>6. b32_encode(AddressBytes(dial)) \in Seq(0..31)
    BY <2>1, WholeCode
  <2>7. Len(Cleaned) < 1 + Len(b32_encode(AddressBytes(dial)))
    <3>1. Len(Cleaned) \in Nat /\ Len(b32_encode(AddressBytes(dial))) \in Nat
      BY <2>3, <2>6
    <3>. QED
      BY <2>2, <2>4, <2>5, <3>1
  <2>. QED
    BY <2>2, <2>3, <2>5, <2>7, ShortNames
<1>. QED
  BY <1>1, Invariance, PTL

\* No slip is of any kind.
LEMMA NoSlips ==
    ASSUME slips = <<>>
    PROVE  Range(slips) = {}
<1>1. DOMAIN slips = {}
  OBVIOUS
<1>. QED
  BY <1>1, Zenon DEF Range

\* A code copied character for character is refused neither by the parser nor
\* at the address it names nor by the host's comparison of the two codes.
THEOREM CopiedCodesAreHeardAlways == Spec => []CopiedCodesAreHeard
<1>1. IInv => CopiedCodesAreHeard
  <2>. SUFFICES ASSUME IInv, slips = <<>>, phase \in {"bad code", "no answer", "rejected"}
                PROVE  FALSE
    BY DEF CopiedCodesAreHeard
  <2>1. read = Len(room) /\ TypeOK
    BY DEF IInv, Answered
  <2>2. decode(typed) = dial
    <3>1. Range(slips) = {}
      BY NoSlips
    <3>. QED
      BY <2>1, <3>1, AlikeNames
  <2>3. dial # NoAddress
    <3>1. dial.kind \in {"lan", "bluetooth"}
      BY <2>1, WholeCode, PartsOfAddress, Zenon
    <3>2. NoAddress.kind = "none"
      BY DEF NoAddress
    <3>. QED
      BY <3>1, <3>2
  <2>4. CASE phase = "bad code"
    BY <2>2, <2>3, <2>4 DEF IInv, Answered
  <2>5. CASE phase = "no answer"
    BY <2>2, <2>5 DEF IInv, Answered
  <2>6. CASE phase = "rejected"
    <3>1. my_room = ToUpper(typed) /\ normalize_code(my_room) # normalize_code(room)
      BY <2>6 DEF IInv, Answered
    <3>2. normalize_code(my_room) = Cleaned
      BY <2>1, <3>1, NormalizeUpper DEF TypeOK, Cleaned
    <3>3. Cleaned = InRoom /\ InRoom = normalize_code(room)
      BY <2>1, WholeCode DEF IInv, CopiedSoFar
    <3>. QED
      BY <3>1, <3>2, <3>3
  <2>. QED
    BY <2>4, <2>5, <2>6
<1>. QED
  BY <1>1, Invariance, PTL

-----------------------------------------------------------------------------
(* The bits of a code.                                                     *)

\* The i-th bit of a sequence of numbers of width w, and zeroes after them.
BitAt(s, w, i) == (At(s, (i + w - 1) \div w) \div 2^(w - 1 - ((i - 1) % w))) % 2

\* The bit of weight 2^e of a number.
Bit(x, e) == (x \div 2^e) % 2

\* i is the place of that bit of the k-th character, and of the k-th byte.
InCharacter(i, k, e) == k \in Nat \ {0} /\ e \in 0..4 /\ i = 5 * k - e
InByte(i, k, e)      == k \in Nat \ {0} /\ e \in 0..7 /\ i = 8 * k - e

\* The bit at a place of some characters.
LEMMA BitOfCharacter ==
    ASSUME NEW s, NEW i, NEW k, NEW e, InCharacter(i, k, e)
    PROVE  BitAt(s, 5, i) = Bit(At(s, k), e)
<1>1. (i + 5 - 1) \div 5 = k /\ 5 - 1 - ((i - 1) % 5) = e
  <2>1. k \in Int /\ e \in Int /\ 0 <= e /\ e <= 4 /\ i = 5 * k - e
    BY DEF InCharacter
  <2>2. i + 5 - 1 = 5 * k + (4 - e) /\ i - 1 = 5 * (k - 1) + (4 - e)
    BY <2>1
  <2>3. \A q, r \in Int : 0 <= r /\ r <= 4 => (5 * q + r) \div 5 = q /\ (5 * q + r) % 5 = r
    OBVIOUS
  <2>. QED
    BY <2>1, <2>2, <2>3
<1>. QED
  BY <1>1, Zenon DEF BitAt, Bit

\* The bit at a place of some bytes.
LEMMA BitOfByte ==
    ASSUME NEW s, NEW i, NEW k, NEW e, InByte(i, k, e)
    PROVE  BitAt(s, 8, i) = Bit(At(s, k), e)
<1>1. (i + 8 - 1) \div 8 = k /\ 8 - 1 - ((i - 1) % 8) = e
  <2>1. k \in Int /\ e \in Int /\ 0 <= e /\ e <= 7 /\ i = 8 * k - e
    BY DEF InByte
  <2>2. i + 8 - 1 = 8 * k + (7 - e) /\ i - 1 = 8 * (k - 1) + (7 - e)
    BY <2>1
  <2>3. \A q, r \in Int : 0 <= r /\ r <= 7 => (8 * q + r) \div 8 = q /\ (8 * q + r) % 8 = r
    OBVIOUS
  <2>. QED
    BY <2>1, <2>2, <2>3
<1>. QED
  BY <1>1, Zenon DEF BitAt, Bit

\* A character's bits are the bytes' bits in their order.
LEMMA SpelledBits ==
    ASSUME NEW data \in Seq(Byte), NEW i, NEW k, NEW e, InCharacter(i, k, e)
    PROVE  Bit(Spells(data, k), e) = BitAt(data, 8, i)
<1>. DEFINE t == (k - 1) \div 8
            j == ((k - 1) % 8) + 1
<1>0. t \in Nat /\ j \in 1..8 /\ k = 8 * t + j /\ e \in 0..4 /\ i = 40 * t + 5 * j - e
  <2>1. k - 1 \in Nat /\ k = (k - 1) + 1 /\ e \in 0..4 /\ i = 5 * k - e
    BY DEF InCharacter
  <2>2. \A q \in Nat : q \div 8 \in Nat /\ q % 8 \in 0..7 /\ q = 8 * (q \div 8) + (q % 8)
    OBVIOUS
  <2>3. t \in Nat /\ (k - 1) % 8 \in 0..7 /\ k - 1 = 8 * t + ((k - 1) % 8)
    BY <2>1, <2>2
  <2>4. j \in 1..8 /\ k = 8 * t + j
    <3>1. k \in Int
      BY <2>1
    <3>. DEFINE r == (k - 1) % 8
    <3>2. j = r + 1
      OBVIOUS
    <3>3. t \in Nat /\ r \in 0..7 /\ k - 1 = 8 * t + r
      BY <2>3
    <3>. HIDE DEF t, j, r
    <3>. QED
      BY <3>1, <3>2, <3>3
  <2>. HIDE DEF t, j
  <2>. QED
    BY <2>1, <2>3, <2>4
<1>. HIDE DEF t, j
<1>. DEFINE d1 == At(data, 5 * t + 1)
            d2 == At(data, 5 * t + 2)
            d3 == At(data, 5 * t + 3)
            d4 == At(data, 5 * t + 4)
            d5 == At(data, 5 * t + 5)
            s == Spells(data, k)
<1>1. d1 \in 0..255 /\ d2 \in 0..255 /\ d3 \in 0..255 /\ d4 \in 0..255 /\ d5 \in 0..255
  <2>1. \A z \in 1..5 : 5 * t + z \in Nat
    BY <1>0
  <2>2. \A z \in 1..5 : At(data, 5 * t + z) \in 0..255
    BY <2>1, AtType
  <2>. QED
    BY <2>2
<1>2. 2^0 = 1 /\ 2^1 = 2 /\ 2^2 = 4 /\ 2^3 = 8 /\ 2^4 = 16 /\ 2^5 = 32 /\ 2^6 = 64 /\ 2^7 = 128
  BY Powers
<1>3. e = 0 \/ e = 1 \/ e = 2 \/ e = 3 \/ e = 4
  BY <1>0
<1>4. CASE j = 1
  <2>1. s = d1 \div 8
    BY <1>0, <1>4, SpellsAt
  <2>2. /\ ((d1 \div 8) \div 1) % 2 = (d1 \div 8) % 2
        /\ ((d1 \div 8) \div 2) % 2 = (d1 \div 16) % 2
        /\ ((d1 \div 8) \div 4) % 2 = (d1 \div 32) % 2
        /\ ((d1 \div 8) \div 8) % 2 = (d1 \div 64) % 2
        /\ ((d1 \div 8) \div 16) % 2 = (d1 \div 128) % 2
    <3>. HIDE DEF d1, d2, d3, d4, d5
    <3>. QED
      BY <1>1
  <2>3. CASE e = 0
    <3>1. InByte(i, 5 * t + 1, 3)
      BY <1>0, <1>4, <2>3 DEF InByte
    <3>2. BitAt(data, 8, i) = Bit(d1, 3)
      BY <3>1, BitOfByte
    <3>. QED
      BY <1>2, <2>1, <2>2, <2>3, <3>2, Zenon DEF Bit
  <2>4. CASE e = 1
    <3>1. InByte(i, 5 * t + 1, 4)
      BY <1>0, <1>4, <2>4 DEF InByte
    <3>2. BitAt(data, 8, i) = Bit(d1, 4)
      BY <3>1, BitOfByte
    <3>. QED
      BY <1>2, <2>1, <2>2, <2>4, <3>2, Zenon DEF Bit
  <2>5. CASE e = 2
    <3>1. InByte(i, 5 * t + 1, 5)
      BY <1>0, <1>4, <2>5 DEF InByte
    <3>2. BitAt(data, 8, i) = Bit(d1, 5)
      BY <3>1, BitOfByte
    <3>. QED
      BY <1>2, <2>1, <2>2, <2>5, <3>2, Zenon DEF Bit
  <2>6. CASE e = 3
    <3>1. InByte(i, 5 * t + 1, 6)
      BY <1>0, <1>4, <2>6 DEF InByte
    <3>2. BitAt(data, 8, i) = Bit(d1, 6)
      BY <3>1, BitOfByte
    <3>. QED
      BY <1>2, <2>1, <2>2, <2>6, <3>2, Zenon DEF Bit
  <2>7. CASE e = 4
    <3>1. InByte(i, 5 * t + 1, 7)
      BY <1>0, <1>4, <2>7 DEF InByte
    <3>2. BitAt(data, 8, i) = Bit(d1, 7)
      BY <3>1, BitOfByte
    <3>. QED
      BY <1>2, <2>1, <2>2, <2>7, <3>2, Zenon DEF Bit
  <2>. QED
    BY <1>3, <2>3, <2>4, <2>5, <2>6, <2>7
<1>5. CASE j = 2
  <2>1. s = (d1 % 8) * 4 + d2 \div 64
    BY <1>0, <1>5, SpellsAt
  <2>2. /\ (((d1 % 8) * 4 + d2 \div 64) \div 1) % 2 = (d2 \div 64) % 2
        /\ (((d1 % 8) * 4 + d2 \div 64) \div 2) % 2 = (d2 \div 128) % 2
        /\ (((d1 % 8) * 4 + d2 \div 64) \div 4) % 2 = (d1 \div 1) % 2
        /\ (((d1 % 8) * 4 + d2 \div 64) \div 8) % 2 = (d1 \div 2) % 2
        /\ (((d1 % 8) * 4 + d2 \div 64) \div 16) % 2 = (d1 \div 4) % 2
    <3>. DEFINE x == d1 % 8
                y == d2 \div 64
    <3>. HIDE DEF d1, d2, d3, d4, d5
    <3>1. x \in 0..7 /\ y \in 0..3
      BY <1>1
    <3>2. /\ (y \div 1) % 2 = (d2 \div 64) % 2
          /\ (y \div 2) % 2 = (d2 \div 128) % 2
          /\ (x \div 1) % 2 = (d1 \div 1) % 2
          /\ (x \div 2) % 2 = (d1 \div 2) % 2
          /\ (x \div 4) % 2 = (d1 \div 4) % 2
      BY <1>1
    <3>. HIDE DEF x, y
    <3>3. /\ ((x * 4 + y) \div 1) % 2 = (y \div 1) % 2
          /\ ((x * 4 + y) \div 2) % 2 = (y \div 2) % 2
          /\ ((x * 4 + y) \div 4) % 2 = (x \div 1) % 2
          /\ ((x * 4 + y) \div 8) % 2 = (x \div 2) % 2
          /\ ((x * 4 + y) \div 16) % 2 = (x \div 4) % 2
      BY <3>1
    <3>. QED
      BY <3>2, <3>3 DEF x, y
  <2>3. CASE e = 0
    <3>1. InByte(i, 5 * t + 2, 6)
      BY <1>0, <1>5, <2>3 DEF InByte
    <3>2. BitAt(data, 8, i) = Bit(d2, 6)
      BY <3>1, BitOfByte
    <3>. QED
      BY <1>2, <2>1, <2>2, <2>3, <3>2, Zenon DEF Bit
  <2>4. CASE e = 1
    <3>1. InByte(i, 5 * t + 2, 7)
      BY <1>0, <1>5, <2>4 DEF InByte
    <3>2. BitAt(data, 8, i) = Bit(d2, 7)
      BY <3>1, BitOfByte
    <3>. QED
      BY <1>2, <2>1, <2>2, <2>4, <3>2, Zenon DEF Bit
  <2>5. CASE e = 2
    <3>1. InByte(i, 5 * t + 1, 0)
      BY <1>0, <1>5, <2>5 DEF InByte
    <3>2. BitAt(data, 8, i) = Bit(d1, 0)
      BY <3>1, BitOfByte
    <3>. QED
      BY <1>2, <2>1, <2>2, <2>5, <3>2, Zenon DEF Bit
  <2>6. CASE e = 3
    <3>1. InByte(i, 5 * t + 1, 1)
      BY <1>0, <1>5, <2>6 DEF InByte
    <3>2. BitAt(data, 8, i) = Bit(d1, 1)
      BY <3>1, BitOfByte
    <3>. QED
      BY <1>2, <2>1, <2>2, <2>6, <3>2, Zenon DEF Bit
  <2>7. CASE e = 4
    <3>1. InByte(i, 5 * t + 1, 2)
      BY <1>0, <1>5, <2>7 DEF InByte
    <3>2. BitAt(data, 8, i) = Bit(d1, 2)
      BY <3>1, BitOfByte
    <3>. QED
      BY <1>2, <2>1, <2>2, <2>7, <3>2, Zenon DEF Bit
  <2>. QED
    BY <1>3, <2>3, <2>4, <2>5, <2>6, <2>7
<1>6. CASE j = 3
  <2>1. s = (d2 \div 2) % 32
    BY <1>0, <1>6, SpellsAt
  <2>2. /\ (((d2 \div 2) % 32) \div 1) % 2 = (d2 \div 2) % 2
        /\ (((d2 \div 2) % 32) \div 2) % 2 = (d2 \div 4) % 2
        /\ (((d2 \div 2) % 32) \div 4) % 2 = (d2 \div 8) % 2
        /\ (((d2 \div 2) % 32) \div 8) % 2 = (d2 \div 16) % 2
        /\ (((d2 \div 2) % 32) \div 16) % 2 = (d2 \div 32) % 2
    <3>. HIDE DEF d1, d2, d3, d4, d5
    <3>. QED
      BY <1>1, SMTT(40)
  <2>3. CASE e = 0
    <3>1. InByte(i, 5 * t + 2, 1)
      BY <1>0, <1>6, <2>3 DEF InByte
    <3>2. BitAt(data, 8, i) = Bit(d2, 1)
      BY <3>1, BitOfByte
    <3>. QED
      BY <1>2, <2>1, <2>2, <2>3, <3>2, Zenon DEF Bit
  <2>4. CASE e = 1
    <3>1. InByte(i, 5 * t + 2, 2)
      BY <1>0, <1>6, <2>4 DEF InByte
    <3>2. BitAt(data, 8, i) = Bit(d2, 2)
      BY <3>1, BitOfByte
    <3>. QED
      BY <1>2, <2>1, <2>2, <2>4, <3>2, Zenon DEF Bit
  <2>5. CASE e = 2
    <3>1. InByte(i, 5 * t + 2, 3)
      BY <1>0, <1>6, <2>5 DEF InByte
    <3>2. BitAt(data, 8, i) = Bit(d2, 3)
      BY <3>1, BitOfByte
    <3>. QED
      BY <1>2, <2>1, <2>2, <2>5, <3>2, Zenon DEF Bit
  <2>6. CASE e = 3
    <3>1. InByte(i, 5 * t + 2, 4)
      BY <1>0, <1>6, <2>6 DEF InByte
    <3>2. BitAt(data, 8, i) = Bit(d2, 4)
      BY <3>1, BitOfByte
    <3>. QED
      BY <1>2, <2>1, <2>2, <2>6, <3>2, Zenon DEF Bit
  <2>7. CASE e = 4
    <3>1. InByte(i, 5 * t + 2, 5)
      BY <1>0, <1>6, <2>7 DEF InByte
    <3>2. BitAt(data, 8, i) = Bit(d2, 5)
      BY <3>1, BitOfByte
    <3>. QED
      BY <1>2, <2>1, <2>2, <2>7, <3>2, Zenon DEF Bit
  <2>. QED
    BY <1>3, <2>3, <2>4, <2>5, <2>6, <2>7
<1>7. CASE j = 4
  <2>1. s = (d2 % 2) * 16 + d3 \div 16
    BY <1>0, <1>7, SpellsAt
  <2>2. /\ (((d2 % 2) * 16 + d3 \div 16) \div 1) % 2 = (d3 \div 16) % 2
        /\ (((d2 % 2) * 16 + d3 \div 16) \div 2) % 2 = (d3 \div 32) % 2
        /\ (((d2 % 2) * 16 + d3 \div 16) \div 4) % 2 = (d3 \div 64) % 2
        /\ (((d2 % 2) * 16 + d3 \div 16) \div 8) % 2 = (d3 \div 128) % 2
        /\ (((d2 % 2) * 16 + d3 \div 16) \div 16) % 2 = (d2 \div 1) % 2
    <3>. DEFINE x == d2 % 2
                y == d3 \div 16
    <3>. HIDE DEF d1, d2, d3, d4, d5
    <3>1. x \in 0..1 /\ y \in 0..15
      BY <1>1
    <3>2. /\ (y \div 1) % 2 = (d3 \div 16) % 2
          /\ (y \div 2) % 2 = (d3 \div 32) % 2
          /\ (y \div 4) % 2 = (d3 \div 64) % 2
          /\ (y \div 8) % 2 = (d3 \div 128) % 2
          /\ (x \div 1) % 2 = (d2 \div 1) % 2
      BY <1>1
    <3>. HIDE DEF x, y
    <3>3. /\ ((x * 16 + y) \div 1) % 2 = (y \div 1) % 2
          /\ ((x * 16 + y) \div 2) % 2 = (y \div 2) % 2
          /\ ((x * 16 + y) \div 4) % 2 = (y \div 4) % 2
          /\ ((x * 16 + y) \div 8) % 2 = (y \div 8) % 2
          /\ ((x * 16 + y) \div 16) % 2 = (x \div 1) % 2
      BY <3>1
    <3>. QED
      BY <3>2, <3>3 DEF x, y
  <2>3. CASE e = 0
    <3>1. InByte(i, 5 * t + 3, 4)
      BY <1>0, <1>7, <2>3 DEF InByte
    <3>2. BitAt(data, 8, i) = Bit(d3, 4)
      BY <3>1, BitOfByte
    <3>. QED
      BY <1>2, <2>1, <2>2, <2>3, <3>2, Zenon DEF Bit
  <2>4. CASE e = 1
    <3>1. InByte(i, 5 * t + 3, 5)
      BY <1>0, <1>7, <2>4 DEF InByte
    <3>2. BitAt(data, 8, i) = Bit(d3, 5)
      BY <3>1, BitOfByte
    <3>. QED
      BY <1>2, <2>1, <2>2, <2>4, <3>2, Zenon DEF Bit
  <2>5. CASE e = 2
    <3>1. InByte(i, 5 * t + 3, 6)
      BY <1>0, <1>7, <2>5 DEF InByte
    <3>2. BitAt(data, 8, i) = Bit(d3, 6)
      BY <3>1, BitOfByte
    <3>. QED
      BY <1>2, <2>1, <2>2, <2>5, <3>2, Zenon DEF Bit
  <2>6. CASE e = 3
    <3>1. InByte(i, 5 * t + 3, 7)
      BY <1>0, <1>7, <2>6 DEF InByte
    <3>2. BitAt(data, 8, i) = Bit(d3, 7)
      BY <3>1, BitOfByte
    <3>. QED
      BY <1>2, <2>1, <2>2, <2>6, <3>2, Zenon DEF Bit
  <2>7. CASE e = 4
    <3>1. InByte(i, 5 * t + 2, 0)
      BY <1>0, <1>7, <2>7 DEF InByte
    <3>2. BitAt(data, 8, i) = Bit(d2, 0)
      BY <3>1, BitOfByte
    <3>. QED
      BY <1>2, <2>1, <2>2, <2>7, <3>2, Zenon DEF Bit
  <2>. QED
    BY <1>3, <2>3, <2>4, <2>5, <2>6, <2>7
<1>8. CASE j = 5
  <2>1. s = (d3 % 16) * 2 + d4 \div 128
    BY <1>0, <1>8, SpellsAt
  <2>2. /\ (((d3 % 16) * 2 + d4 \div 128) \div 1) % 2 = (d4 \div 128) % 2
        /\ (((d3 % 16) * 2 + d4 \div 128) \div 2) % 2 = (d3 \div 1) % 2
        /\ (((d3 % 16) * 2 + d4 \div 128) \div 4) % 2 = (d3 \div 2) % 2
        /\ (((d3 % 16) * 2 + d4 \div 128) \div 8) % 2 = (d3 \div 4) % 2
        /\ (((d3 % 16) * 2 + d4 \div 128) \div 16) % 2 = (d3 \div 8) % 2
    <3>. DEFINE x == d3 % 16
                y == d4 \div 128
    <3>. HIDE DEF d1, d2, d3, d4, d5
    <3>1. x \in 0..15 /\ y \in 0..1
      BY <1>1
    <3>2. /\ (y \div 1) % 2 = (d4 \div 128) % 2
          /\ (x \div 1) % 2 = (d3 \div 1) % 2
          /\ (x \div 2) % 2 = (d3 \div 2) % 2
          /\ (x \div 4) % 2 = (d3 \div 4) % 2
          /\ (x \div 8) % 2 = (d3 \div 8) % 2
      BY <1>1
    <3>. HIDE DEF x, y
    <3>3. /\ ((x * 2 + y) \div 1) % 2 = (y \div 1) % 2
          /\ ((x * 2 + y) \div 2) % 2 = (x \div 1) % 2
          /\ ((x * 2 + y) \div 4) % 2 = (x \div 2) % 2
          /\ ((x * 2 + y) \div 8) % 2 = (x \div 4) % 2
          /\ ((x * 2 + y) \div 16) % 2 = (x \div 8) % 2
      BY <3>1
    <3>. QED
      BY <3>2, <3>3 DEF x, y
  <2>3. CASE e = 0
    <3>1. InByte(i, 5 * t + 4, 7)
      BY <1>0, <1>8, <2>3 DEF InByte
    <3>2. BitAt(data, 8, i) = Bit(d4, 7)
      BY <3>1, BitOfByte
    <3>. QED
      BY <1>2, <2>1, <2>2, <2>3, <3>2, Zenon DEF Bit
  <2>4. CASE e = 1
    <3>1. InByte(i, 5 * t + 3, 0)
      BY <1>0, <1>8, <2>4 DEF InByte
    <3>2. BitAt(data, 8, i) = Bit(d3, 0)
      BY <3>1, BitOfByte
    <3>. QED
      BY <1>2, <2>1, <2>2, <2>4, <3>2, Zenon DEF Bit
  <2>5. CASE e = 2
    <3>1. InByte(i, 5 * t + 3, 1)
      BY <1>0, <1>8, <2>5 DEF InByte
    <3>2. BitAt(data, 8, i) = Bit(d3, 1)
      BY <3>1, BitOfByte
    <3>. QED
      BY <1>2, <2>1, <2>2, <2>5, <3>2, Zenon DEF Bit
  <2>6. CASE e = 3
    <3>1. InByte(i, 5 * t + 3, 2)
      BY <1>0, <1>8, <2>6 DEF InByte
    <3>2. BitAt(data, 8, i) = Bit(d3, 2)
      BY <3>1, BitOfByte
    <3>. QED
      BY <1>2, <2>1, <2>2, <2>6, <3>2, Zenon DEF Bit
  <2>7. CASE e = 4
    <3>1. InByte(i, 5 * t + 3, 3)
      BY <1>0, <1>8, <2>7 DEF InByte
    <3>2. BitAt(data, 8, i) = Bit(d3, 3)
      BY <3>1, BitOfByte
    <3>. QED
      BY <1>2, <2>1, <2>2, <2>7, <3>2, Zenon DEF Bit
  <2>. QED
    BY <1>3, <2>3, <2>4, <2>5, <2>6, <2>7
<1>9. CASE j = 6
  <2>1. s = (d4 \div 4) % 32
    BY <1>0, <1>9, SpellsAt
  <2>2. /\ (((d4 \div 4) % 32) \div 1) % 2 = (d4 \div 4) % 2
        /\ (((d4 \div 4) % 32) \div 2) % 2 = (d4 \div 8) % 2
        /\ (((d4 \div 4) % 32) \div 4) % 2 = (d4 \div 16) % 2
        /\ (((d4 \div 4) % 32) \div 8) % 2 = (d4 \div 32) % 2
        /\ (((d4 \div 4) % 32) \div 16) % 2 = (d4 \div 64) % 2
    <3>. HIDE DEF d1, d2, d3, d4, d5
    <3>. QED
      BY <1>1, SMTT(40)
  <2>3. CASE e = 0
    <3>1. InByte(i, 5 * t + 4, 2)
      BY <1>0, <1>9, <2>3 DEF InByte
    <3>2. BitAt(data, 8, i) = Bit(d4, 2)
      BY <3>1, BitOfByte
    <3>. QED
      BY <1>2, <2>1, <2>2, <2>3, <3>2, Zenon DEF Bit
  <2>4. CASE e = 1
    <3>1. InByte(i, 5 * t + 4, 3)
      BY <1>0, <1>9, <2>4 DEF InByte
    <3>2. BitAt(data, 8, i) = Bit(d4, 3)
      BY <3>1, BitOfByte
    <3>. QED
      BY <1>2, <2>1, <2>2, <2>4, <3>2, Zenon DEF Bit
  <2>5. CASE e = 2
    <3>1. InByte(i, 5 * t + 4, 4)
      BY <1>0, <1>9, <2>5 DEF InByte
    <3>2. BitAt(data, 8, i) = Bit(d4, 4)
      BY <3>1, BitOfByte
    <3>. QED
      BY <1>2, <2>1, <2>2, <2>5, <3>2, Zenon DEF Bit
  <2>6. CASE e = 3
    <3>1. InByte(i, 5 * t + 4, 5)
      BY <1>0, <1>9, <2>6 DEF InByte
    <3>2. BitAt(data, 8, i) = Bit(d4, 5)
      BY <3>1, BitOfByte
    <3>. QED
      BY <1>2, <2>1, <2>2, <2>6, <3>2, Zenon DEF Bit
  <2>7. CASE e = 4
    <3>1. InByte(i, 5 * t + 4, 6)
      BY <1>0, <1>9, <2>7 DEF InByte
    <3>2. BitAt(data, 8, i) = Bit(d4, 6)
      BY <3>1, BitOfByte
    <3>. QED
      BY <1>2, <2>1, <2>2, <2>7, <3>2, Zenon DEF Bit
  <2>. QED
    BY <1>3, <2>3, <2>4, <2>5, <2>6, <2>7
<1>10. CASE j = 7
  <2>1. s = (d4 % 4) * 8 + d5 \div 32
    BY <1>0, <1>10, SpellsAt
  <2>2. /\ (((d4 % 4) * 8 + d5 \div 32) \div 1) % 2 = (d5 \div 32) % 2
        /\ (((d4 % 4) * 8 + d5 \div 32) \div 2) % 2 = (d5 \div 64) % 2
        /\ (((d4 % 4) * 8 + d5 \div 32) \div 4) % 2 = (d5 \div 128) % 2
        /\ (((d4 % 4) * 8 + d5 \div 32) \div 8) % 2 = (d4 \div 1) % 2
        /\ (((d4 % 4) * 8 + d5 \div 32) \div 16) % 2 = (d4 \div 2) % 2
    <3>. DEFINE x == d4 % 4
                y == d5 \div 32
    <3>. HIDE DEF d1, d2, d3, d4, d5
    <3>1. x \in 0..3 /\ y \in 0..7
      BY <1>1
    <3>2. /\ (y \div 1) % 2 = (d5 \div 32) % 2
          /\ (y \div 2) % 2 = (d5 \div 64) % 2
          /\ (y \div 4) % 2 = (d5 \div 128) % 2
          /\ (x \div 1) % 2 = (d4 \div 1) % 2
          /\ (x \div 2) % 2 = (d4 \div 2) % 2
      BY <1>1
    <3>. HIDE DEF x, y
    <3>3. /\ ((x * 8 + y) \div 1) % 2 = (y \div 1) % 2
          /\ ((x * 8 + y) \div 2) % 2 = (y \div 2) % 2
          /\ ((x * 8 + y) \div 4) % 2 = (y \div 4) % 2
          /\ ((x * 8 + y) \div 8) % 2 = (x \div 1) % 2
          /\ ((x * 8 + y) \div 16) % 2 = (x \div 2) % 2
      BY <3>1
    <3>. QED
      BY <3>2, <3>3 DEF x, y
  <2>3. CASE e = 0
    <3>1. InByte(i, 5 * t + 5, 5)
      BY <1>0, <1>10, <2>3 DEF InByte
    <3>2. BitAt(data, 8, i) = Bit(d5, 5)
      BY <3>1, BitOfByte
    <3>. QED
      BY <1>2, <2>1, <2>2, <2>3, <3>2, Zenon DEF Bit
  <2>4. CASE e = 1
    <3>1. InByte(i, 5 * t + 5, 6)
      BY <1>0, <1>10, <2>4 DEF InByte
    <3>2. BitAt(data, 8, i) = Bit(d5, 6)
      BY <3>1, BitOfByte
    <3>. QED
      BY <1>2, <2>1, <2>2, <2>4, <3>2, Zenon DEF Bit
  <2>5. CASE e = 2
    <3>1. InByte(i, 5 * t + 5, 7)
      BY <1>0, <1>10, <2>5 DEF InByte
    <3>2. BitAt(data, 8, i) = Bit(d5, 7)
      BY <3>1, BitOfByte
    <3>. QED
      BY <1>2, <2>1, <2>2, <2>5, <3>2, Zenon DEF Bit
  <2>6. CASE e = 3
    <3>1. InByte(i, 5 * t + 4, 0)
      BY <1>0, <1>10, <2>6 DEF InByte
    <3>2. BitAt(data, 8, i) = Bit(d4, 0)
      BY <3>1, BitOfByte
    <3>. QED
      BY <1>2, <2>1, <2>2, <2>6, <3>2, Zenon DEF Bit
  <2>7. CASE e = 4
    <3>1. InByte(i, 5 * t + 4, 1)
      BY <1>0, <1>10, <2>7 DEF InByte
    <3>2. BitAt(data, 8, i) = Bit(d4, 1)
      BY <3>1, BitOfByte
    <3>. QED
      BY <1>2, <2>1, <2>2, <2>7, <3>2, Zenon DEF Bit
  <2>. QED
    BY <1>3, <2>3, <2>4, <2>5, <2>6, <2>7
<1>11. CASE j = 8
  <2>1. s = d5 % 32
    BY <1>0, <1>11, SpellsAt
  <2>2. /\ ((d5 % 32) \div 1) % 2 = (d5 \div 1) % 2
        /\ ((d5 % 32) \div 2) % 2 = (d5 \div 2) % 2
        /\ ((d5 % 32) \div 4) % 2 = (d5 \div 4) % 2
        /\ ((d5 % 32) \div 8) % 2 = (d5 \div 8) % 2
        /\ ((d5 % 32) \div 16) % 2 = (d5 \div 16) % 2
    <3>. HIDE DEF d1, d2, d3, d4, d5
    <3>. QED
      BY <1>1
  <2>3. CASE e = 0
    <3>1. InByte(i, 5 * t + 5, 0)
      BY <1>0, <1>11, <2>3 DEF InByte
    <3>2. BitAt(data, 8, i) = Bit(d5, 0)
      BY <3>1, BitOfByte
    <3>. QED
      BY <1>2, <2>1, <2>2, <2>3, <3>2, Zenon DEF Bit
  <2>4. CASE e = 1
    <3>1. InByte(i, 5 * t + 5, 1)
      BY <1>0, <1>11, <2>4 DEF InByte
    <3>2. BitAt(data, 8, i) = Bit(d5, 1)
      BY <3>1, BitOfByte
    <3>. QED
      BY <1>2, <2>1, <2>2, <2>4, <3>2, Zenon DEF Bit
  <2>5. CASE e = 2
    <3>1. InByte(i, 5 * t + 5, 2)
      BY <1>0, <1>11, <2>5 DEF InByte
    <3>2. BitAt(data, 8, i) = Bit(d5, 2)
      BY <3>1, BitOfByte
    <3>. QED
      BY <1>2, <2>1, <2>2, <2>5, <3>2, Zenon DEF Bit
  <2>6. CASE e = 3
    <3>1. InByte(i, 5 * t + 5, 3)
      BY <1>0, <1>11, <2>6 DEF InByte
    <3>2. BitAt(data, 8, i) = Bit(d5, 3)
      BY <3>1, BitOfByte
    <3>. QED
      BY <1>2, <2>1, <2>2, <2>6, <3>2, Zenon DEF Bit
  <2>7. CASE e = 4
    <3>1. InByte(i, 5 * t + 5, 4)
      BY <1>0, <1>11, <2>7 DEF InByte
    <3>2. BitAt(data, 8, i) = Bit(d5, 4)
      BY <3>1, BitOfByte
    <3>. QED
      BY <1>2, <2>1, <2>2, <2>7, <3>2, Zenon DEF Bit
  <2>. QED
    BY <1>3, <2>3, <2>4, <2>5, <2>6, <2>7
<1>12. j = 1 \/ j = 2 \/ j = 3 \/ j = 4 \/ j = 5 \/ j = 6 \/ j = 7 \/ j = 8
  BY <1>0
<1>. QED
  BY <1>4, <1>5, <1>6, <1>7, <1>8, <1>9, <1>10, <1>11, <1>12

\* What BitsOf gives.
LEMMA BitsOfIs ==
    ASSUME NEW s, NEW w \in {5, 8}, Len(s) \in Nat
    PROVE  /\ Len(BitsOf(s, w)) = w * Len(s) /\ DOMAIN BitsOf(s, w) = 1..w * Len(s)
           /\ \A i \in 1..w * Len(s) : BitsOf(s, w)[i] = BitAt(s, w, i)
<1>. DEFINE n == w * Len(s)
            f == BitsOf(s, w)
            e(i) == (s[(i + w - 1) \div w] \div 2^(w - 1 - ((i - 1) % w))) % 2
<1>1. f = [i \in 1..n |-> e(i)]
  BY DEF BitsOf
<1>2. n \in Nat
  OBVIOUS
<1>3. DOMAIN f = 1..n /\ \A i \in 1..n : f[i] = e(i)
  <2>. HIDE DEF n, e
  <2>. QED
    BY <1>1, Zenon
<1>4. Len(f) = n
  <2>. HIDE DEF n, e, f
  <2>. QED
    BY <1>1, <1>2
<1>5. ASSUME NEW i \in 1..n
      PROVE  e(i) = BitAt(s, w, i)
  <2>1. (i + w - 1) \div w \in 1..Len(s)
    <3>1. CASE w = 5
      BY <3>1
    <3>2. CASE w = 8
      BY <3>2
    <3>. QED
      BY <3>1, <3>2
  <2>. QED
    BY <2>1, Zenon DEF BitAt, At
<1>. QED
  BY <1>3, <1>4, <1>5 DEF n, f

\* The spelling of some bytes holds their bits, and fewer than five zeroes.
HoldsTheBits(p, data) ==
    LET spelt == BitsOf(p, 5)
        bits  == BitsOf(data, 8)
    IN /\ Len(spelt) - Len(bits) \in 0..4
       /\ \A i \in DOMAIN spelt :
            spelt[i] = IF i <= Len(bits) THEN bits[i] ELSE 0

\* b32_encode spells the bits of its bytes, whatever remainder the last leaves.
LEMMA SpellingHoldsTheBits ==
    ASSUME NEW data \in Seq(Byte)
    PROVE  HoldsTheBits(b32_encode(data), data)
<1>. DEFINE p == b32_encode(data)
            n == Len(data)
            l == Len(p)
            spelt == BitsOf(p, 5)
            bits  == BitsOf(data, 8)
<1>1. /\ p \in Seq(0..31) /\ l = (8 * n + 4) \div 5
      /\ \A k \in 1..l : p[k] = Spells(data, k)
  BY EncodeSpells
<1>2. n \in Nat
  OBVIOUS
<1>. HIDE DEF p
<1>3. l \in Nat
  BY <1>1
<1>4. /\ Len(spelt) = 5 * l /\ DOMAIN spelt = 1..5 * l
      /\ \A i \in 1..5 * l : spelt[i] = BitAt(p, 5, i)
  BY <1>3, BitsOfIs
<1>5. /\ Len(bits) = 8 * n
      /\ \A i \in 1..8 * n : bits[i] = BitAt(data, 8, i)
  BY <1>2, BitsOfIs
<1>. HIDE DEF spelt, bits, l, n
<1>6. Len(spelt) - Len(bits) \in 0..4
  <2>1. 5 * l - 8 * n >= 0 /\ 5 * l - 8 * n <= 4
    BY <1>1, <1>2, <1>3
  <2>. QED
    BY <1>2, <1>3, <1>4, <1>5, <2>1
<1>7. ASSUME NEW i \in 1..5 * l
      PROVE  spelt[i] = IF i <= 8 * n THEN bits[i] ELSE 0
  <2>1. \E k, e : InCharacter(i, k, e)
    <3>1. i - 1 \in Nat /\ i \in Int
      BY <1>3
    <3>2. \A x \in Nat : /\ x \div 5 + 1 \in Nat \ {0} /\ 4 - (x % 5) \in 0..4
                         /\ x + 1 = 5 * (x \div 5 + 1) - (4 - (x % 5))
      OBVIOUS
    <3>. DEFINE x == i - 1
    <3>3. /\ x \div 5 + 1 \in Nat \ {0} /\ 4 - (x % 5) \in 0..4
          /\ x + 1 = 5 * (x \div 5 + 1) - (4 - (x % 5))
      <4>. HIDE DEF x
      <4>1. x \in Nat
        BY <3>1 DEF x
      <4>. QED
        BY <3>2, <4>1, Zenon
    <3>4. i = x + 1
      BY <3>1
    <3>. HIDE DEF x
    <3>. QED
      BY <3>3, <3>4, Zenon DEF InCharacter
  <2>2. PICK k, e : InCharacter(i, k, e)
    BY <2>1
  <2>3. k \in 1..l
    BY <1>3, <2>2 DEF InCharacter
  <2>4. BitAt(p, 5, i) = Bit(p[k], e)
    <3>1. BitAt(p, 5, i) = Bit(At(p, k), e)
      BY <2>2, BitOfCharacter
    <3>. QED
      BY <2>3, <3>1, Zenon DEF At, l
  <2>5. spelt[i] = BitAt(data, 8, i)
    <3>1. Bit(Spells(data, k), e) = BitAt(data, 8, i)
      BY <2>2, SpelledBits
    <3>2. p[k] = Spells(data, k)
      BY <1>1, <2>3, Zenon
    <3>. QED
      BY <1>4, <2>4, <3>1, <3>2, Zenon
  <2>6. CASE i <= 8 * n
    <3>1. i \in 1..8 * n
      BY <1>2, <1>3, <2>6
    <3>. QED
      BY <1>5, <2>5, <2>6, <3>1
  <2>7. CASE ~(i <= 8 * n)
    <3>1. (i + 8 - 1) \div 8 \notin 1..n
      BY <1>2, <1>3, <2>7
    <3>2. At(data, (i + 8 - 1) \div 8) = 0
      BY <3>1 DEF At, n
    <3>3. 8 - 1 - ((i - 1) % 8) \in 0..7
      BY <1>3
    <3>4. \A x \in 0..7 : (0 \div 2^x) % 2 = 0
      <4>1. \A z \in {1, 2, 4, 8, 16, 32, 64, 128} : (0 \div z) % 2 = 0
        BY SMT
      <4>. QED
        BY <4>1, Powers, Zenon
    <3>5. BitAt(data, 8, i) = 0
      BY <3>2, <3>3, <3>4, Zenon DEF BitAt
    <3>. QED
      BY <2>5, <2>7, <3>5
  <2>. QED
    BY <2>6, <2>7
<1>. QED
  BY <1>4, <1>5, <1>6, <1>7 DEF HoldsTheBits, spelt, bits, p

\* The code a host shows spells the bits of its address, five to a character,
\* whatever the address: b32_encode's shifting loses and adds none.
THEOREM CodeSpellsTheAddressAlways == Spec => []CodeSpellsTheAddress
<1>1. IInv => CodeSpellsTheAddress
  <2>. SUFFICES ASSUME IInv
                PROVE  CodeSpellsTheAddress
    OBVIOUS
  <2>. DEFINE p == b32_encode(AddressBytes(dial))
  <2>1. dial \in DialAddress /\ room = encode(dial)
    BY RoomCodeAssumption DEF IInv, TypeOK
  <2>2. normalize_code(room) = <<TagOf(dial)>> \o p
    BY <2>1, CodeOfAddress
  <2>3. AddressBytes(dial) \in Seq(Byte) /\ p \in Seq(0..31)
    BY <2>1, AddressBytesType, EncodeSpells
  <2>4. Tail(<<TagOf(dial)>> \o p) = p
    <3>. HIDE DEF p
    <3>1. TagOf(dial) \in Nat
      BY DEF TagOf, TagL, TagB, CharL
    <3>. QED
      BY <2>3, <3>1
  <2>. QED
    <3>1. Tail(normalize_code(room)) = b32_encode(AddressBytes(dial))
      BY <2>2, <2>4
    <3>2. CodeSpellsTheAddress <=> HoldsTheBits(Tail(normalize_code(room)), AddressBytes(dial))
      BY DEF CodeSpellsTheAddress, HoldsTheBits
    <3>. QED
      BY <2>3, <3>1, <3>2, SpellingHoldsTheBits, Zenon
<1>. QED
  BY <1>1, Invariance, PTL
=============================================================================
