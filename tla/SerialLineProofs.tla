-------------------------- MODULE SerialLineProofs --------------------------
(* SerialLine for every configuration, fault, reading and total whose fields *)
(* have their widths, every damage and any number of frames: what the        *)
(* encoders write is what the decoders and the parser read.                  *)
EXTENDS SerialLine, SequenceTheorems, WellFoundedInduction, TLAPS

-----------------------------------------------------------------------------
(* Bytes bit by bit.                                                         *)

\* The bits of the sum are those in which the bytes differ.
Differs(a, b, w) == ((a \div w) + (b \div w)) % 2

\* A byte is the sum of its bits.
LEMMA Bits ==
    ASSUME NEW a \in Byte
    PROVE  a = (a % 2) + 2 * ((a \div 2) % 2) + 4 * ((a \div 4) % 2) + 8 * ((a \div 8) % 2)
               + 16 * ((a \div 16) % 2) + 32 * ((a \div 32) % 2)
               + 64 * ((a \div 64) % 2) + 128 * ((a \div 128) % 2)
  BY DEF Byte

\* Eight bits make a byte, odd if the lowest is set.
LEMMA BitsMakeByte ==
    ASSUME NEW a1 \in 0..1, NEW a2 \in 0..1, NEW a3 \in 0..1, NEW a4 \in 0..1,
           NEW a5 \in 0..1, NEW a6 \in 0..1, NEW a7 \in 0..1, NEW a8 \in 0..1
    PROVE  LET a == a1 + 2 * a2 + 4 * a3 + 8 * a4 + 16 * a5 + 32 * a6 + 64 * a7 + 128 * a8
           IN  a \in 0..255 /\ a % 2 = a1
  OBVIOUS

\* Terms that make the same sum with a third one even are even together.
LEMMA Parity ==
    ASSUME NEW a \in Nat, NEW b \in Nat, NEW c \in Nat, (a + c) % 2 = (b + c) % 2
    PROVE  a % 2 = b % 2
  OBVIOUS

\* The exclusive or is the sum of the bits that differ.
LEMMA XorBits ==
    ASSUME NEW a \in Byte, NEW b \in Byte
    PROVE  /\ Xor(a, b) = Differs(a, b, 1) + 2 * Differs(a, b, 2) + 4 * Differs(a, b, 4)
                          + 8 * Differs(a, b, 8) + 16 * Differs(a, b, 16)
                          + 32 * Differs(a, b, 32) + 64 * Differs(a, b, 64)
                          + 128 * Differs(a, b, 128)
           /\ Differs(a, b, 1) \in 0..1 /\ Differs(a, b, 2) \in 0..1
           /\ Differs(a, b, 4) \in 0..1 /\ Differs(a, b, 8) \in 0..1
           /\ Differs(a, b, 16) \in 0..1 /\ Differs(a, b, 32) \in 0..1
           /\ Differs(a, b, 64) \in 0..1 /\ Differs(a, b, 128) \in 0..1
  BY DEF Byte, Xor, Differs

\* The sum of two bytes is a byte, odd if one of the two is.
LEMMA XorIsByte ==
    ASSUME NEW a \in Byte, NEW b \in Byte
    PROVE  Xor(a, b) \in Byte /\ Xor(a, b) % 2 = (a + b) % 2
  <1>1. /\ Differs(a, b, 1) \in 0..1 /\ Differs(a, b, 2) \in 0..1
        /\ Differs(a, b, 4) \in 0..1 /\ Differs(a, b, 8) \in 0..1
        /\ Differs(a, b, 16) \in 0..1 /\ Differs(a, b, 32) \in 0..1
        /\ Differs(a, b, 64) \in 0..1 /\ Differs(a, b, 128) \in 0..1
    BY XorBits
  <1>2. Xor(a, b) \in 0..255 /\ Xor(a, b) % 2 = Differs(a, b, 1)
    BY <1>1, XorBits, BitsMakeByte
  <1>3. Differs(a, b, 1) = (a + b) % 2
    BY DEF Differs, Byte
  <1> QED BY <1>2, <1>3 DEF Byte

\* A byte is told by its exclusive or with another.
LEMMA XorCancels ==
    ASSUME NEW a \in Byte, NEW b \in Byte, NEW c \in Byte, Xor(a, c) = Xor(b, c)
    PROVE  a = b
  <1>1. /\ Differs(a, c, 1) = Differs(b, c, 1) /\ Differs(a, c, 2) = Differs(b, c, 2)
        /\ Differs(a, c, 4) = Differs(b, c, 4) /\ Differs(a, c, 8) = Differs(b, c, 8)
        /\ Differs(a, c, 16) = Differs(b, c, 16) /\ Differs(a, c, 32) = Differs(b, c, 32)
        /\ Differs(a, c, 64) = Differs(b, c, 64) /\ Differs(a, c, 128) = Differs(b, c, 128)
    BY XorBits, SMTT(30)
  <1>3. /\ (a \div 1) % 2 = (b \div 1) % 2 /\ (a \div 2) % 2 = (b \div 2) % 2
        /\ (a \div 4) % 2 = (b \div 4) % 2 /\ (a \div 8) % 2 = (b \div 8) % 2
        /\ (a \div 16) % 2 = (b \div 16) % 2 /\ (a \div 32) % 2 = (b \div 32) % 2
        /\ (a \div 64) % 2 = (b \div 64) % 2 /\ (a \div 128) % 2 = (b \div 128) % 2
    <2>1. ASSUME NEW w \in Nat \ {0}, Differs(a, c, w) = Differs(b, c, w)
          PROVE  (a \div w) % 2 = (b \div w) % 2
      <3>1. a \div w \in Nat /\ b \div w \in Nat /\ c \div w \in Nat
        BY DEF Byte
      <3> QED BY <2>1, <3>1, Parity DEF Differs
    <2> QED BY <1>1, <2>1
  <1>4. a \div 1 = a /\ b \div 1 = b
    BY DEF Byte
  <1> QED BY <1>3, <1>4, Bits

-----------------------------------------------------------------------------
(* Induction over the naturals, as a fact about sets of them.                *)

\* A set of naturals has a least element.
LEMMA Least ==
    ASSUME NEW T \in SUBSET Nat, T # {}
    PROVE  \E m \in T : \A k \in T : m <= k
  <1> DEFINE R == {p \in Nat \X Nat : p[1] < p[2]}
  <1>1. IsWellFoundedOn(R, Nat)
    BY NatLessThanWellFounded DEF OpToRel
  <1>2. PICK m \in T : \A k \in T : <<k, m>> \notin R
    <2> HIDE DEF R
    <2> QED BY <1>1, WFMin
  <1>3. ASSUME NEW k \in T, k < m PROVE FALSE
    <2>1. <<k, m>> \in Nat \X Nat /\ <<k, m>>[1] = k /\ <<k, m>>[2] = m
      OBVIOUS
    <2>2. <<k, m>> \in R
      BY <2>1, <1>3
    <2> QED BY <2>2, <1>2
  <1>4. \A k \in T : m <= k
    BY <1>3
  <1> QED BY <1>4

\* Induction over the naturals, as a fact about a set.
LEMMA SetInduction ==
    ASSUME NEW S \in SUBSET Nat, 0 \in S, \A n \in S : n + 1 \in S
    PROVE  S = Nat
  <1> SUFFICES ASSUME Nat \ S # {} PROVE FALSE
    OBVIOUS
  <1>1. PICK m \in Nat \ S : \A k \in Nat \ S : m <= k
    BY Least
  <1>2. m # 0 /\ m - 1 \in Nat /\ m - 1 \in S
    BY <1>1
  <1> QED BY <1>2

\* f begins with x0 and goes on by the steps up to N.
Follows(f, X, x0, step, N) ==
    f \in [0..N -> X] /\ f[0] = x0 /\ \A n \in 1..N : f[n] = step[n][f[n - 1]]

\* Recursion defines a function.
LEMMA Recursion ==
    ASSUME NEW X, NEW x0 \in X, NEW step \in [Nat -> [X -> X]], NEW N \in Nat
    PROVE  \E f : Follows(f, X, x0, step, N)
  <1> DEFINE Has(M) == \E f \in [0..M -> X] :
                          f[0] = x0 /\ \A n \in 1..M : f[n] = step[n][f[n - 1]]
             S == {M \in Nat : Has(M)}
  <1>1. 0 \in S
    <2> DEFINE f == [n \in 0..0 |-> x0]
    <2>1. f \in [0..0 -> X] /\ f[0] = x0 /\ \A n \in 1..0 : f[n] = step[n][f[n - 1]]
      OBVIOUS
    <2> HIDE DEF f
    <2> QED BY <2>1
  <1>2. ASSUME NEW M \in S PROVE M + 1 \in S
    <2>1. PICK f \in [0..M -> X] : f[0] = x0 /\ \A n \in 1..M : f[n] = step[n][f[n - 1]]
      OBVIOUS
    <2> DEFINE g == [n \in 0..(M + 1) |-> IF n <= M THEN f[n] ELSE step[M + 1][f[M]]]
    <2>2. M \in Nat /\ f[M] \in X /\ step[M + 1][f[M]] \in X
      OBVIOUS
    <2>3. g \in [0..(M + 1) -> X] /\ g[0] = x0
      BY <2>1, <2>2
    <2>4. ASSUME NEW n \in 1..(M + 1) PROVE g[n] = step[n][g[n - 1]]
      <3>1. CASE n <= M
        <4>1. n \in 1..M /\ n - 1 \in 0..(M + 1) /\ n - 1 <= M
          BY <2>2, <3>1
        <4> QED BY <2>1, <4>1, <3>1
      <3>2. CASE ~(n <= M)
        <4>1. n = M + 1 /\ n - 1 = M
          BY <2>2, <3>2
        <4> QED BY <2>1, <2>2, <4>1
      <3> QED BY <3>1, <3>2
    <2>5. Has(M + 1)
      <3> HIDE DEF g
      <3> QED BY <2>3, <2>4
    <2> HIDE DEF g, Has
    <2> QED BY <2>2, <2>5
  <1>3. S = Nat
    <2> HIDE DEF Has
    <2>1. S \in SUBSET Nat
      OBVIOUS
    <2> HIDE DEF S
    <2> QED BY <1>1, <1>2, <2>1, SetInduction
  <1>4. Has(N)
    BY <1>3
  <1> QED BY <1>4 DEF Follows

-----------------------------------------------------------------------------
(* The check sum.                                                            *)

\* The sum does not depend on the order.
LEMMA XorCommutes ==
    ASSUME NEW a \in Byte, NEW b \in Byte
    PROVE  Xor(a, b) = Xor(b, a)
  <1>1. \A w \in Nat \ {0} : Differs(a, b, w) = Differs(b, a, w)
    BY DEF Differs, Byte
  <1> QED BY <1>1, XorBits

\* One bit of the division can be taken back: the bit shifted out is the lowest.
LEMMA ShiftIsOneToOne ==
    /\ \A c \in Byte : ShiftCrc(c) \in Byte
    /\ \A c, d \in Byte : ShiftCrc(c) = ShiftCrc(d) => c = d
  <1>1. ASSUME NEW c \in Byte
        PROVE  /\ ShiftCrc(c) \in Byte /\ ShiftCrc(c) % 2 = IF c >= 128 THEN 1 ELSE 0
               /\ (2 * c) % 256 \in Byte
               /\ c >= 128 => (2 * c) % 256 = 2 * c - 256
    <2>1. (2 * c) % 256 \in Byte /\ 7 \in Byte /\ (((2 * c) % 256) + 7) % 2 = 1
      BY DEF Byte
    <2>2. Xor((2 * c) % 256, 7) \in Byte /\ Xor((2 * c) % 256, 7) % 2 = 1
      BY <2>1, XorIsByte
    <2>3. c < 128 => 2 * c \in Byte /\ (2 * c) % 2 = 0
      BY DEF Byte
    <2>4. c >= 128 => (2 * c) % 256 = 2 * c - 256
      BY DEF Byte
    <2> QED BY <2>1, <2>2, <2>3, <2>4 DEF ShiftCrc, Byte
  <1>2. ASSUME NEW c \in Byte, NEW d \in Byte, ShiftCrc(c) = ShiftCrc(d) PROVE c = d
    <2>1. c >= 128 <=> d >= 128
      BY <1>1, <1>2
    <2>2. CASE c >= 128
      <3>1. Xor((2 * c) % 256, 7) = Xor((2 * d) % 256, 7) /\ 7 \in Byte
        BY <1>2, <2>1, <2>2 DEF ShiftCrc, Byte
      <3>2. (2 * c) % 256 = (2 * d) % 256
        BY <1>1, <3>1, XorCancels
      <3>3. 2 * c - 256 = 2 * d - 256
        BY <1>1, <2>1, <2>2, <3>2
      <3> QED BY <3>3 DEF Byte
    <2>3. CASE ~(c >= 128)
      BY <1>2, <2>1, <2>3 DEF ShiftCrc, Byte
    <2> QED BY <2>2, <2>3
  <1> QED BY <1>1, <1>2

\* So can the eight bits of a byte.
LEMMA CrcOfByteIsOneToOne ==
    /\ CrcOfByte \in [Byte -> Byte]
    /\ \A c, d \in Byte : CrcOfByte[c] = CrcOfByte[d] => c = d
  <1> DEFINE two(c)  == ShiftCrc(ShiftCrc(c))
             four(c) == two(two(c))
  <1>1. /\ \A c \in Byte : two(c) \in Byte
        /\ \A c, d \in Byte : two(c) = two(d) => c = d
    BY ShiftIsOneToOne
  <1>2. /\ \A c \in Byte : four(c) \in Byte
        /\ \A c, d \in Byte : four(c) = four(d) => c = d
    <2> HIDE DEF two
    <2> QED BY <1>1
  <1>3. CrcOfByte = [b \in Byte |-> four(four(b))]
    BY DEF CrcOfByte, Byte
  <1> HIDE DEF four
  <1> QED BY <1>2, <1>3

\* f is the check sum of every beginning of s.
Sums(f, s) ==
    f = [n \in 0..Len(s) |-> IF n = 0 THEN 0 ELSE CrcOfByte[Xor(f[n - 1], s[n])]]

\* crc8 is the last of the sums, which are bytes.
LEMMA CrcExists ==
    ASSUME NEW s \in Seq(Byte)
    PROVE  \E f \in [0..Len(s) -> Byte] : Sums(f, s) /\ crc8(s) = f[Len(s)]
  <1> DEFINE Step(n) == [c \in Byte |-> IF n \in 1..Len(s) THEN CrcOfByte[Xor(c, s[n])] ELSE c]
             step == [n \in Nat |-> Step(n)]
  <1>1. Len(s) \in Nat /\ 0 \in Byte /\ \A n \in 1..Len(s) : s[n] \in Byte
    <2>1. 0 \in Byte
      BY DEF Byte
    <2> QED BY <2>1
  <1>2. \A c \in Byte : \A n \in 1..Len(s) : CrcOfByte[Xor(c, s[n])] \in Byte
    BY <1>1, XorIsByte, CrcOfByteIsOneToOne
  <1>3. step \in [Nat -> [Byte -> Byte]]
    BY <1>2
  <1>4. PICK f : Follows(f, Byte, 0, step, Len(s))
    <2> HIDE DEF step
    <2> QED BY <1>1, <1>3, Recursion
  <1>5. Sums(f, s)
    <2>1. f \in [0..Len(s) -> Byte] /\ f[0] = 0
      BY <1>4 DEF Follows
    <2>2. ASSUME NEW n \in 1..Len(s) PROVE f[n] = CrcOfByte[Xor(f[n - 1], s[n])]
      <3>1. n \in Nat /\ n - 1 \in 0..Len(s) /\ f[n - 1] \in Byte
        <4> HIDE DEF step
        <4> QED BY <1>1, <2>1
      <3>4. step[n] = Step(n)
        BY <3>1
      <3>2. f[n] = step[n][f[n - 1]]
        BY <1>4 DEF Follows
      <3>3. Step(n)[f[n - 1]] = CrcOfByte[Xor(f[n - 1], s[n])]
        BY <3>1
      <3> HIDE DEF step, Step
      <3> QED BY <3>2, <3>3, <3>4
    <2>3. ASSUME NEW n \in 0..Len(s)
          PROVE  f[n] = IF n = 0 THEN 0 ELSE CrcOfByte[Xor(f[n - 1], s[n])]
      <3>1. n = 0 \/ n \in 1..Len(s)
        BY <1>1
      <3> QED BY <2>1, <2>2, <3>1
    <2>4. f = [n \in 0..Len(s) |-> f[n]]
      BY <2>1
    <2> QED BY <2>3, <2>4 DEF Sums
  <1> DEFINE g == CHOOSE h : Sums(h, s)
  <1>6. Sums(g, s)
    BY <1>5
  <1>7. crc8(s) = g[Len(s)]
    BY DEF crc8, Sums
  <1> HIDE DEF g
  <1>8. g = [n \in 0..Len(s) |-> g[n]]
    BY <1>6 DEF Sums
  <1>9. \A n \in 0..Len(s) : g[n] \in Byte
    <2> DEFINE S == {n \in Nat : n <= Len(s) => g[n] \in Byte}
    <2>1. 0 \in S
      BY <1>1, <1>6 DEF Sums
    <2>2. ASSUME NEW n \in S PROVE n + 1 \in S
      <3>1. SUFFICES ASSUME n + 1 <= Len(s) PROVE g[n + 1] \in Byte
        OBVIOUS
      <3>2. n + 1 \in 1..Len(s) /\ (n + 1) - 1 = n /\ g[n] \in Byte
        BY <1>1, <3>1
      <3>3. g[n + 1] = CrcOfByte[Xor(g[n], s[n + 1])]
        BY <1>1, <1>6, <3>2 DEF Sums
      <3> QED BY <1>2, <3>2, <3>3
    <2>3. S = Nat
      <3>1. S \in SUBSET Nat
        OBVIOUS
      <3> HIDE DEF S
      <3> QED BY <2>1, <2>2, <3>1, SetInduction
    <2> QED BY <1>1, <2>3
  <1> QED BY <1>6, <1>7, <1>8, <1>9

\* Sequences that differ in one byte differ in their check sums.
LEMMA CrcTells ==
    ASSUME NEW s \in Seq(Byte), NEW t \in Seq(Byte), Len(s) = Len(t),
           NEW i \in 1..Len(s), s[i] # t[i], \A j \in 1..Len(s) \ {i} : s[j] = t[j]
    PROVE  crc8(s) # crc8(t)
  <1>1. PICK f \in [0..Len(s) -> Byte] : Sums(f, s) /\ crc8(s) = f[Len(s)]
    BY CrcExists
  <1>2. PICK g \in [0..Len(s) -> Byte] : Sums(g, t) /\ crc8(t) = g[Len(s)]
    BY CrcExists
  <1> DEFINE S == {n \in Nat : n <= Len(s) => (f[n] = g[n] <=> n < i)}
  <1>3. Len(s) \in Nat /\ i \in Nat /\ i <= Len(s) /\ i > 0
    OBVIOUS
  <1>4. 0 \in S
    BY <1>1, <1>2, <1>3 DEF Sums
  <1>5. ASSUME NEW n \in S PROVE n + 1 \in S
    <2>1. SUFFICES ASSUME n + 1 <= Len(s) PROVE f[n + 1] = g[n + 1] <=> n + 1 < i
      OBVIOUS
    <2>2. /\ n + 1 \in 1..Len(s) /\ (n + 1) - 1 = n /\ n \in 0..Len(s)
          /\ (f[n] = g[n] <=> n < i) /\ n \in Nat
      BY <1>3, <2>1
    <2>3. /\ f[n + 1] = CrcOfByte[Xor(f[n], s[n + 1])]
          /\ g[n + 1] = CrcOfByte[Xor(g[n], t[n + 1])]
      BY <1>1, <1>2, <1>3, <2>2 DEF Sums
    <2>4. /\ f[n] \in Byte /\ g[n] \in Byte /\ s[n + 1] \in Byte /\ t[n + 1] \in Byte
      BY <2>2
    <2>5. f[n + 1] = g[n + 1] <=> Xor(f[n], s[n + 1]) = Xor(g[n], t[n + 1])
      BY <2>3, <2>4, XorIsByte, CrcOfByteIsOneToOne
    <2>6. CASE n + 1 = i
      <3>1. f[n] = g[n] /\ s[n + 1] # t[n + 1]
        BY <2>2, <2>6
      <3>2. Xor(s[n + 1], f[n]) # Xor(t[n + 1], f[n])
        BY <2>4, <3>1, XorCancels
      <3> QED BY <2>4, <2>5, <2>6, <3>1, <3>2, XorCommutes
    <2>7. CASE n + 1 # i
      <3>1. s[n + 1] = t[n + 1] /\ (n < i <=> n + 1 < i)
        BY <1>3, <2>2, <2>7
      <3>2. Xor(f[n], s[n + 1]) = Xor(g[n], s[n + 1]) <=> f[n] = g[n]
        BY <2>4, XorCancels
      <3> QED BY <2>2, <2>5, <3>1, <3>2
    <2> QED BY <2>6, <2>7
  <1>6. S = Nat
    <2>1. S \in SUBSET Nat
      OBVIOUS
    <2> HIDE DEF S
    <2> QED BY <1>4, <1>5, <2>1, SetInduction
  <1> QED BY <1>1, <1>2, <1>3, <1>6

-----------------------------------------------------------------------------
(* Frames and their fields.                                                  *)

\* The bytes of a frame, where they are.
LEMMA EncodeIs ==
    ASSUME NEW kind \in Byte, NEW p \in Seq(Byte), Len(p) <= MAX_PAYLOAD
    PROVE  LET w == encode(kind, p)
           IN  /\ w \in Seq(Byte) /\ Len(w) = Len(p) + 4
               /\ w[1] = SYNC /\ w[2] = Len(p) /\ w[3] = kind
               /\ SubSeq(w, 4, Len(w) - 1) = p
               /\ w[Len(w)] = crc8(SubSeq(w, 2, Len(w) - 1))
  <1> DEFINE head == <<Len(p), kind>>
             body == head \o p
             front == <<SYNC>> \o body
             w == front \o <<crc8(body)>>
             n == Len(p)
  <1>1. n \in Nat /\ n \in Byte /\ SYNC \in Byte /\ n <= 16
    <2>1. n \in Nat
      OBVIOUS
    <2>2. n <= 16
      BY DEF MAX_PAYLOAD
    <2>3. SYNC \in Byte
      BY DEF SYNC, Byte
    <2> HIDE DEF n
    <2>4. n \in Byte
      BY <2>1, <2>2 DEF Byte
    <2> QED BY <2>1, <2>2, <2>3, <2>4
  <1>2. head \in Seq(Byte) /\ Len(head) = 2 /\ head[1] = n /\ head[2] = kind
    BY <1>1
  <1>3. /\ body \in Seq(Byte) /\ Len(body) = n + 2
        /\ \A i \in 1..(n + 2) : body[i] = IF i <= 2 THEN head[i] ELSE p[i - 2]
    <2> HIDE DEF head
    <2>1. /\ body \in Seq(Byte) /\ Len(body) = Len(head) + Len(p)
          /\ \A i \in 1..(Len(head) + Len(p)) :
                body[i] = IF i <= Len(head) THEN head[i] ELSE p[i - Len(head)]
      BY <1>2, ConcatProperties
    <2>2. Len(head) + Len(p) = n + 2
      BY <1>1, <1>2
    <2> HIDE DEF body, n
    <2> QED BY <1>2, <2>1, <2>2
  <1>4. crc8(body) \in Byte
    <2>1. PICK f \in [0..Len(body) -> Byte] : crc8(body) = f[Len(body)]
      <3> HIDE DEF body
      <3> QED BY <1>3, CrcExists
    <2> HIDE DEF body
    <2> QED BY <1>1, <1>3, <2>1
  <1>5. /\ front \in Seq(Byte) /\ Len(front) = n + 3 /\ front[1] = SYNC
        /\ \A i \in 2..(n + 3) : front[i] = body[i - 1]
    <2>1. <<SYNC>> \in Seq(Byte) /\ Len(<<SYNC>>) = 1 /\ <<SYNC>>[1] = SYNC
      BY <1>1
    <2> HIDE DEF body
    <2> QED BY <1>1, <1>3, <2>1, ConcatProperties
  <1>6. /\ w \in Seq(Byte) /\ Len(w) = n + 4 /\ w[n + 4] = crc8(body)
        /\ \A i \in 1..(n + 3) : w[i] = front[i]
    <2> DEFINE c == crc8(body)
    <2> HIDE DEF front, c
    <2>1. <<c>> \in Seq(Byte) /\ Len(<<c>>) = 1 /\ <<c>>[1] = c
      BY <1>4 DEF c
    <2>2. /\ w \in Seq(Byte) /\ Len(w) = n + 4 /\ w[n + 4] = c
          /\ \A i \in 1..(n + 3) : w[i] = front[i]
      BY <1>1, <1>5, <2>1, ConcatProperties DEF c
    <2> QED BY <2>2 DEF c
  <1>7. w[1] = SYNC /\ w[2] = n /\ w[3] = kind /\ \A i \in 1..n : w[3 + i] = p[i]
    <2>1. /\ w[1] = front[1] /\ w[2] = front[2] /\ w[3] = front[3]
          /\ front[2] = body[1] /\ front[3] = body[2]
          /\ body[1] = head[1] /\ body[2] = head[2]
      <3> HIDE DEF w, front, body, head
      <3> QED BY <1>1, <1>3, <1>5, <1>6
    <2>2. ASSUME NEW i \in 1..n PROVE w[3 + i] = p[i]
      <3>1. /\ 3 + i \in 1..(n + 3) /\ 3 + i \in 2..(n + 3) /\ (3 + i) - 1 = i + 2
            /\ i + 2 \in 1..(n + 2) /\ ~(i + 2 <= 2) /\ (i + 2) - 2 = i
        BY <1>1
      <3>2. w[3 + i] = front[3 + i] /\ front[3 + i] = body[i + 2]
        <4> HIDE DEF w, front, body, n
        <4> QED BY <1>5, <1>6, <3>1
      <3>3. body[i + 2] = p[i]
        <4> HIDE DEF w, front, body, n
        <4> QED BY <1>3, <3>1
      <3> QED BY <3>2, <3>3
    <2> HIDE DEF w, front, body
    <2> QED BY <1>2, <1>5, <2>1, <2>2
  <1>8. SubSeq(w, 4, Len(w) - 1) = p
    <2> DEFINE x == SubSeq(w, 4, n + 3)
    <2>1. \A i \in 4..(n + 3) : w[i] \in Byte
      <3> HIDE DEF w
      <3> QED BY <1>1, <1>6
    <2>2. /\ x \in Seq(Byte) /\ Len(x) = IF 4 <= n + 3 THEN (n + 3) - 4 + 1 ELSE 0
          /\ \A i \in 1..((n + 3) - 4 + 1) : x[i] = w[4 + i - 1]
      <3> HIDE DEF w
      <3> QED BY <1>1, <2>1, SubSeqProperties
    <2>3. Len(x) = n
      <3> HIDE DEF x
      <3> QED BY <1>1, <2>2
    <2>4. ASSUME NEW i \in 1..n PROVE x[i] = p[i]
      <3>1. i \in 1..((n + 3) - 4 + 1) /\ 4 + i - 1 = 3 + i
        BY <1>1
      <3> HIDE DEF x, w
      <3> QED BY <1>7, <2>2, <3>1
    <2>5. Len(w) - 1 = n + 3
      <3> HIDE DEF w
      <3> QED BY <1>1, <1>6
    <2>6. x = p
      <3> HIDE DEF x
      <3> QED BY <2>2, <2>3, <2>4, SeqEqual
    <2> QED BY <2>5, <2>6
  <1>9. SubSeq(w, 2, Len(w) - 1) = body
    <2> DEFINE x == SubSeq(w, 2, n + 3)
    <2>1. \A i \in 2..(n + 3) : w[i] \in Byte
      <3> HIDE DEF w
      <3> QED BY <1>1, <1>6
    <2>2. /\ x \in Seq(Byte) /\ Len(x) = IF 2 <= n + 3 THEN (n + 3) - 2 + 1 ELSE 0
          /\ \A i \in 1..((n + 3) - 2 + 1) : x[i] = w[2 + i - 1]
      <3> HIDE DEF w
      <3> QED BY <1>1, <2>1, SubSeqProperties
    <2>3. Len(x) = n + 2
      <3> HIDE DEF x
      <3> QED BY <1>1, <2>2
    <2>4. ASSUME NEW i \in 1..(n + 2) PROVE x[i] = body[i]
      <3>1. /\ i \in 1..((n + 3) - 2 + 1) /\ 2 + i - 1 = i + 1 /\ (i + 1) - 1 = i
            /\ i + 1 \in 1..(n + 3) /\ i + 1 \in 2..(n + 3)
        BY <1>1
      <3> HIDE DEF x, w, front, body
      <3> QED BY <1>5, <1>6, <2>2, <3>1
    <2>5. Len(w) - 1 = n + 3
      <3> HIDE DEF w
      <3> QED BY <1>1, <1>6
    <2>6. x = body
      <3> HIDE DEF x, body
      <3> QED BY <1>3, <2>2, <2>3, <2>4, SeqEqual
    <2> QED BY <2>5, <2>6
  <1>10. encode(kind, p) = w
    BY DEF encode
  <1>11. w[Len(w)] = crc8(SubSeq(w, 2, Len(w) - 1))
    <2> HIDE DEF w, body
    <2> QED BY <1>6, <1>9
  <1> HIDE DEF w
  <1> QED BY <1>6, <1>7, <1>8, <1>10, <1>11

\* A byte of a word is a byte.
LEMMA ByteIs ==
    ASSUME NEW v \in Nat, NEW w \in Nat \ {0}
    PROVE  ByteAt(v, w) \in Byte
  <1>1. v \div w \in Nat
    OBVIOUS
  <1>2. ASSUME NEW q \in Nat PROVE q % 256 \in 0..255
    OBVIOUS
  <1> QED BY <1>1, <1>2 DEF ByteAt, Byte

\* What is put as four bytes, or two, is what is got.
LEMMA Word32 ==
    ASSUME NEW v \in Nat, v \div 65536 \in U16
    PROVE  put_u32(v) \in Seq(Byte) /\ Len(put_u32(v)) = 4 /\ get_u32(put_u32(v), 0) = v
  <1> DEFINE a == ByteAt(v, 1)
             b == ByteAt(v, 256)
             c == ByteAt(v, 65536)
             d == ByteAt(v, 16777216)
  <1>1. a \in Byte /\ b \in Byte /\ c \in Byte /\ d \in Byte
    BY ByteIs
  <1>2. put_u32(v) = <<a, b, c, d>>
    BY DEF put_u32
  <1>3. a + 256 * b + 65536 * c + 16777216 * d = v
    <2>1. v \div 65536 = (v \div 256) \div 256
      OBVIOUS
    <2>2. v \div 16777216 = (v \div 65536) \div 256
      OBVIOUS
    <2>3. v = 256 * (v \div 256) + (v % 256)
      OBVIOUS
    <2>4. v \div 256 = 256 * (v \div 65536) + ((v \div 256) % 256)
      BY <2>1
    <2>5. v \div 65536 = 256 * (v \div 16777216) + ((v \div 65536) % 256)
      BY <2>2
    <2>6. (v \div 16777216) % 256 = v \div 16777216
      BY <2>2, SMTT(30) DEF U16
    <2>7. v = (v % 256) + 256 * ((v \div 256) % 256)
            + 65536 * ((v \div 65536) % 256) + 16777216 * ((v \div 16777216) % 256)
      BY <2>3, <2>4, <2>5, <2>6
    <2>8. v \div 1 = v
      OBVIOUS
    <2> QED BY <2>7, <2>8, SMTT(30) DEF ByteAt
  <1> HIDE DEF a, b, c, d
  <1>4. get_u32(<<a, b, c, d>>, 0) = a + 256 * b + 65536 * c + 16777216 * d
    BY <1>1, SMTT(30) DEF get_u32, Byte
  <1>5. <<a, b, c, d>> \in Seq(Byte) /\ Len(<<a, b, c, d>>) = 4
    BY <1>1
  <1>6. get_u32(<<a, b, c, d>>, 0) = v
    BY <1>3, <1>4, SMTT(30)
  <1> QED BY <1>2, <1>5, <1>6

\* A word of 16 bits takes two bytes, and get_u16 reads it back from them.
LEMMA Word16 ==
    ASSUME NEW v \in U16
    PROVE  put_u16(v) \in Seq(Byte) /\ Len(put_u16(v)) = 2 /\ get_u16(put_u16(v), 0) = v
  <1> DEFINE a == ByteAt(v, 1)
             b == ByteAt(v, 256)
  <1>1. a \in Byte /\ b \in Byte
    <2>1. v \in Nat
      BY SMTT(30) DEF U16
    <2> QED BY <2>1, ByteIs
  <1>2. put_u16(v) = <<a, b>>
    BY DEF put_u16
  <1>3. a + 256 * b = v
    <2>1. v \div 256 >= 0
      BY SMTT(30) DEF U16
    <2>2. v \div 256 <= 255
      BY SMTT(30) DEF U16
    <2>3. (v \div 256) % 256 = v \div 256
      BY <2>1, <2>2, SMTT(30) DEF U16
    <2>4. v = 256 * (v \div 256) + (v % 256)
      BY SMTT(30) DEF U16
    <2>5. v \div 1 = v
      BY SMTT(30) DEF U16
    <2> QED BY <2>3, <2>4, <2>5, SMTT(30) DEF ByteAt, U16
  <1> HIDE DEF a, b
  <1>4. get_u16(<<a, b>>, 0) = a + 256 * b
    BY <1>1, SMTT(30) DEF get_u16, Byte
  <1>5. <<a, b>> \in Seq(Byte) /\ Len(<<a, b>>) = 2
    BY <1>1
  <1>6. get_u16(<<a, b>>, 0) = v
    BY <1>3, <1>4, SMTT(30)
  <1> QED BY <1>2, <1>5, <1>6

\* Two parts of a payload, where they are in the whole.
Joins(x, a, b) ==
    /\ x \in Seq(Byte) /\ Len(x) = Len(a) + Len(b)
    /\ \A i \in 1..Len(a) : x[i] = a[i]
    /\ \A i \in 1..Len(b) : x[Len(a) + i] = b[i]

\* The bytes of a concatenation are those of its parts.
LEMMA Parts ==
    ASSUME NEW a \in Seq(Byte), NEW b \in Seq(Byte)
    PROVE  Joins(a \o b, a, b)
  <1>1. /\ a \o b \in Seq(Byte) /\ Len(a \o b) = Len(a) + Len(b)
        /\ \A i \in 1..(Len(a) + Len(b)) :
              (a \o b)[i] = IF i <= Len(a) THEN a[i] ELSE b[i - Len(a)]
    BY ConcatProperties
  <1>2. Len(a) \in Nat /\ Len(b) \in Nat
    OBVIOUS
  <1>3. ASSUME NEW i \in 1..Len(a) PROVE (a \o b)[i] = a[i]
    BY <1>1, <1>2
  <1>4. ASSUME NEW i \in 1..Len(b) PROVE (a \o b)[Len(a) + i] = b[i]
    <2>1. /\ Len(a) + i \in 1..(Len(a) + Len(b)) /\ ~(Len(a) + i <= Len(a))
          /\ (Len(a) + i) - Len(a) = i
      BY <1>2
    <2> QED BY <1>1, <2>1
  <1> QED BY <1>1, <1>3, <1>4 DEF Joins

\* A word is read from its bytes, wherever they are.
LEMMA GetU32 ==
    ASSUME NEW p, NEW o \in Nat, NEW v \in U32,
           \A i \in 1..4 : p[o + i] = put_u32(v)[i]
    PROVE  get_u32(p, o) = v
  <1>1. get_u32(put_u32(v), 0) = v
    <2>1. v \in Nat /\ v \div 65536 \in U16
      BY DEF U32
    <2> QED BY <2>1, Word32
  <1> DEFINE q == put_u32(v)
  <1>2. p[o + 1] = q[1] /\ p[o + 2] = q[2] /\ p[o + 3] = q[3] /\ p[o + 4] = q[4]
    <2> HIDE DEF q
    <2>1. 1 \in 1..4 /\ 2 \in 1..4 /\ 3 \in 1..4 /\ 4 \in 1..4
      OBVIOUS
    <2> QED BY <2>1 DEF q
  <1> HIDE DEF q
  <1>3. 0 + 1 = 1 /\ 0 + 2 = 2 /\ 0 + 3 = 3 /\ 0 + 4 = 4
    OBVIOUS
  <1>4. get_u32(p, o) = get_u32(q, 0)
    BY <1>2, <1>3, SMTT(30) DEF get_u32
  <1> QED BY <1>1, <1>4 DEF q

\* get_u16 finds a word wherever its bytes are.
LEMMA GetU16 ==
    ASSUME NEW p, NEW o \in Nat, NEW v \in U16,
           \A i \in 1..2 : p[o + i] = put_u16(v)[i]
    PROVE  get_u16(p, o) = v
  <1>1. get_u16(put_u16(v), 0) = v
    BY Word16
  <1> DEFINE q == put_u16(v)
  <1>2. p[o + 1] = q[1] /\ p[o + 2] = q[2]
    <2> HIDE DEF q
    <2>1. 1 \in 1..2 /\ 2 \in 1..2
      OBVIOUS
    <2> QED BY <2>1 DEF q
  <1> HIDE DEF q
  <1>3. 0 + 1 = 1 /\ 0 + 2 = 2
    OBVIOUS
  <1>4. get_u16(p, o) = get_u16(q, 0)
    BY <1>2, <1>3, SMTT(30) DEF get_u16
  <1> QED BY <1>1, <1>4 DEF q

\* A word of 32 bits takes four bytes.
LEMMA Word32Put ==
    ASSUME NEW v \in U32
    PROVE  put_u32(v) \in Seq(Byte) /\ Len(put_u32(v)) = 4
  <1>1. v \in Nat /\ v \div 65536 \in U16
    BY DEF U32
  <1> QED BY <1>1, Word32

\* A message is one frame of the format, whose fields are read back as sent.
WellFormed(m) ==
    /\ m.kind \in Byte
    /\ m.payload \in Seq(Byte) /\ Len(m.payload) <= MAX_PAYLOAD
    /\ m.wire = encode(m.kind, m.payload)
    /\ m.reread = m.fields

\* What encode makes of a kind and a payload has both where the receiver
\* looks for them, and a check byte that agrees.
LEMMA MessageIs ==
    ASSUME NEW kind \in Byte, NEW p \in Seq(Byte), Len(p) <= MAX_PAYLOAD,
           NEW fields, NEW reread
    PROVE  LET wire == encode(kind, p)
               m == Message(fields, wire, reread)
           IN  /\ PayloadOf(wire) = p
               /\ reread = fields => WellFormed(m)
  <1> DEFINE wire == encode(kind, p)
             m == Message(fields, wire, reread)
  <1>1. PayloadOf(wire) = p /\ wire[3] = kind
    BY EncodeIs DEF PayloadOf
  <1> HIDE DEF wire
  <1>2. /\ m.kind = kind /\ m.payload = p /\ m.wire = wire /\ m.reread = reread
        /\ m.fields = fields
    BY <1>1 DEF Message
  <1> HIDE DEF m
  <1>3. reread = fields => WellFormed(m)
    BY <1>2 DEF WellFormed, wire
  <1> QED BY <1>1, <1>3 DEF wire, m

\* Each of the encoders and its reader agree.
LEMMA BareWellFormed ==
    /\ WellFormed(Bare(encode_ping)) /\ WellFormed(Bare(encode_abort))
    /\ WellFormed(Bare(encode_pong))
  <1>1. /\ K_PING \in Byte /\ K_ABORT \in Byte /\ K_PONG \in Byte
        /\ <<>> \in Seq(Byte) /\ Len(<<>>) <= MAX_PAYLOAD
    BY DEF K_PING, K_ABORT, K_PONG, Byte, MAX_PAYLOAD
  <1>2. WellFormed(Message(None, encode(K_PING, <<>>), None))
    BY <1>1, MessageIs
  <1>3. WellFormed(Message(None, encode(K_ABORT, <<>>), None))
    BY <1>1, MessageIs
  <1>4. WellFormed(Message(None, encode(K_PONG, <<>>), None))
    BY <1>1, MessageIs
  <1> QED BY <1>2, <1>3, <1>4 DEF Bare, encode_ping, encode_abort, encode_pong

\* END frames are well formed.
LEMMA EndWellFormed ==
    ASSUME NEW t \in Totals
    PROVE  WellFormed(Bare(encode_end(t.packets, t.faults)))
  <1>1. t.packets \in U16 /\ t.faults \in U32
    BY LineAssumption
  <1> DEFINE a == put_u16(t.packets)
             b == put_u32(t.faults)
             p == a \o b
  <1>2. a \in Seq(Byte) /\ Len(a) = 2 /\ b \in Seq(Byte) /\ Len(b) = 4
    BY <1>1, Word16, Word32Put
  <1> HIDE DEF a, b
  <1>6. Joins(p, a, b)
    BY <1>2, Parts
  <1>3. p \in Seq(Byte) /\ Len(p) = 6
    BY <1>2, <1>6 DEF Joins
  <1> HIDE DEF p
  <1>4. K_END \in Byte /\ Len(p) <= MAX_PAYLOAD
    BY <1>3 DEF K_END, Byte, MAX_PAYLOAD
  <1>5. WellFormed(Message(None, encode(K_END, p), None))
    BY <1>3, <1>4, MessageIs
  <1> QED BY <1>5 DEF Bare, encode_end, p, a, b

\* SENSOR frames are, and their sequence number is read back.
LEMMA SensorWellFormed ==
    ASSUME NEW r \in Readings
    PROVE  WellFormed(Sensor(r))
  <1>1. r.seq \in U16 /\ r.value \in U32 /\ r.fault_id \in U32
    BY LineAssumption
  <1> DEFINE a == put_u16(r.seq)
             b == put_u32(r.value)
             c == put_u32(r.fault_id)
             ab == a \o b
             p == ab \o c
  <1>2. /\ a \in Seq(Byte) /\ Len(a) = 2 /\ b \in Seq(Byte) /\ Len(b) = 4
        /\ c \in Seq(Byte) /\ Len(c) = 4
    BY <1>1, Word16, Word32Put
  <1> HIDE DEF a, b, c
  <1>3. ab \in Seq(Byte) /\ Len(ab) = 6 /\ \A i \in 1..2 : ab[i] = a[i]
    <2>1. Joins(ab, a, b)
      BY <1>2, Parts
    <2> HIDE DEF ab
    <2> QED BY <1>2, <2>1 DEF Joins
  <1> HIDE DEF ab
  <1>4. p \in Seq(Byte) /\ Len(p) = 10 /\ \A i \in 1..6 : p[i] = ab[i]
    <2>1. Joins(p, ab, c)
      BY <1>2, <1>3, Parts
    <2> HIDE DEF p
    <2> QED BY <1>2, <1>3, <2>1 DEF Joins
  <1> HIDE DEF p
  <1>5. get_u16(p, 0) = r.seq
    <2>1. \A i \in 1..2 : p[0 + i] = put_u16(r.seq)[i]
      BY <1>3, <1>4 DEF a
    <2> QED BY <1>1, <2>1, GetU16
  <1>6. K_SENSOR \in Byte /\ Len(p) <= MAX_PAYLOAD
    BY <1>4 DEF K_SENSOR, Byte, MAX_PAYLOAD
  <1> DEFINE wire == encode(K_SENSOR, p)
  <1>7. PayloadOf(wire) = p
    BY <1>4, <1>6, MessageIs
  <1>8. WellFormed(Message([seq |-> r.seq], wire, [seq |-> get_u16(PayloadOf(wire), 0)]))
    BY <1>4, <1>5, <1>6, <1>7, MessageIs
  <1> QED BY <1>8 DEF Sensor, encode_sensor, wire, p, ab, a, b, c

\* Fault events are, and from_payload reads back their fields.
LEMMA FaultWellFormed ==
    ASSUME NEW f \in Faults
    PROVE  WellFormed(Fault(f))
  <1>1. /\ f \in [fault_id : U32, kind : Byte, at_seq : U16]
        /\ f.fault_id \in U32 /\ f.kind \in Byte /\ f.at_seq \in U16
    BY LineAssumption
  <1> DEFINE a == put_u32(f.fault_id)
             b == <<f.kind>>
             c == put_u16(f.at_seq)
             ab == a \o b
             p == ab \o c
  <1>2. /\ a \in Seq(Byte) /\ Len(a) = 4 /\ c \in Seq(Byte) /\ Len(c) = 2
        /\ b \in Seq(Byte) /\ Len(b) = 1 /\ b[1] = f.kind
    BY <1>1, Word16, Word32Put
  <1> HIDE DEF a, b, c
  <1>3. /\ ab \in Seq(Byte) /\ Len(ab) = 5
        /\ \A i \in 1..4 : ab[i] = a[i]
        /\ ab[5] = f.kind
    <2>1. Joins(ab, a, b)
      BY <1>2, Parts
    <2> HIDE DEF ab
    <2>2. 1 \in 1..Len(b) /\ 4 + 1 = 5
      BY <1>2
    <2> QED BY <1>2, <2>1, <2>2 DEF Joins
  <1> HIDE DEF ab
  <1>4. /\ p \in Seq(Byte) /\ Len(p) = 7 /\ \A i \in 1..5 : p[i] = ab[i]
        /\ \A i \in 1..2 : p[5 + i] = c[i]
    <2>1. Joins(p, ab, c)
      BY <1>2, <1>3, Parts
    <2> HIDE DEF p
    <2> QED BY <1>2, <1>3, <2>1 DEF Joins
  <1> HIDE DEF p
  <1>5. get_u32(p, 0) = f.fault_id
    <2>1. \A i \in 1..4 : p[0 + i] = put_u32(f.fault_id)[i]
      BY <1>3, <1>4 DEF a
    <2> QED BY <1>1, <2>1, GetU32
  <1>6. p[5] = f.kind
    BY <1>3, <1>4
  <1>7. get_u16(p, 5) = f.at_seq
    BY <1>1, <1>4, GetU16 DEF c
  <1>8. from_payload(p) = f
    <2>1. from_payload(p) = [fault_id |-> get_u32(p, 0), kind |-> p[5],
                             at_seq |-> get_u16(p, 5)]
      BY <1>4 DEF from_payload, FAULT_PAYLOAD_LEN
    <2>2. f = [fault_id |-> f.fault_id, kind |-> f.kind, at_seq |-> f.at_seq]
      BY <1>1
    <2> QED BY <1>5, <1>6, <1>7, <2>1, <2>2
  <1>9. K_FAULT \in Byte /\ Len(p) <= MAX_PAYLOAD
    BY <1>4 DEF K_FAULT, Byte, MAX_PAYLOAD
  <1> DEFINE wire == encode(K_FAULT, p)
  <1>10. PayloadOf(wire) = p
    BY <1>4, <1>9, MessageIs
  <1>11. WellFormed(Message(f, wire, from_payload(PayloadOf(wire))))
    BY <1>4, <1>8, <1>9, <1>10, MessageIs
  <1>12. wire = encode_fault_event(f.fault_id, f.kind, f.at_seq)
    BY DEF encode_fault_event, p, ab, a, b, c
  <1> QED BY <1>11, <1>12 DEF Fault

\* START frames are, and decode_start reads back the configuration.
LEMMA StartWellFormed ==
    ASSUME NEW cfg \in Configs
    PROVE  WellFormed(Start(cfg))
  <1>1. /\ cfg \in [seed : U32, packets : U16, cadence_ms : U16,
                    weights : [1..N_FAULT_KINDS -> Byte]]
        /\ cfg.seed \in U32 /\ cfg.packets \in U16 /\ cfg.cadence_ms \in U16
        /\ cfg.weights \in [1..7 -> Byte]
    BY LineAssumption DEF N_FAULT_KINDS
  <1> DEFINE a == put_u32(cfg.seed)
             b == put_u16(cfg.packets)
             c == put_u16(cfg.cadence_ms)
             d == cfg.weights
             ab == a \o b
             abc == ab \o c
             p == abc \o d
  <1>2. /\ a \in Seq(Byte) /\ Len(a) = 4 /\ b \in Seq(Byte) /\ Len(b) = 2
        /\ c \in Seq(Byte) /\ Len(c) = 2 /\ d \in Seq(Byte) /\ Len(d) = 7
    <2>1. a \in Seq(Byte) /\ Len(a) = 4
      BY <1>1, Word32Put
    <2>2. b \in Seq(Byte) /\ Len(b) = 2 /\ c \in Seq(Byte) /\ Len(c) = 2
      BY <1>1, Word16
    <2>3. d \in Seq(Byte) /\ Len(d) = 7
      <3> HIDE DEF d
      <3>1. d \in [1..7 -> Byte] /\ 7 \in Nat
        BY <1>1 DEF d
      <3>2. ASSUME NEW n \in Nat, NEW e \in [1..n -> Byte]
            PROVE  e \in Seq(Byte) /\ Len(e) = n
        <4>1. e \in Seq(Byte)
          OBVIOUS
        <4>2. DOMAIN e = 1..Len(e) /\ Len(e) \in Nat /\ DOMAIN e = 1..n
          BY <4>1, LenProperties
        <4> QED BY <4>1, <4>2
      <3> QED BY <3>1, <3>2
    <2> QED BY <2>1, <2>2, <2>3
  <1> HIDE DEF a, b, c, d
  <1>3. /\ ab \in Seq(Byte) /\ Len(ab) = 6
        /\ \A i \in 1..4 : ab[i] = a[i]
        /\ \A i \in 1..2 : ab[4 + i] = b[i]
    <2>1. Joins(ab, a, b)
      BY <1>2, Parts
    <2> HIDE DEF ab
    <2> QED BY <1>2, <2>1 DEF Joins
  <1> HIDE DEF ab
  <1>4. /\ abc \in Seq(Byte) /\ Len(abc) = 8
        /\ \A i \in 1..6 : abc[i] = ab[i]
        /\ \A i \in 1..2 : abc[6 + i] = c[i]
    <2>1. Joins(abc, ab, c)
      BY <1>2, <1>3, Parts
    <2> HIDE DEF abc
    <2> QED BY <1>2, <1>3, <2>1 DEF Joins
  <1> HIDE DEF abc
  <1>5. /\ p \in Seq(Byte) /\ Len(p) = 15
        /\ \A i \in 1..8 : p[i] = abc[i]
        /\ \A i \in 1..7 : p[8 + i] = d[i]
    <2>1. Joins(p, abc, d)
      BY <1>2, <1>4, Parts
    <2> HIDE DEF p
    <2> QED BY <1>2, <1>4, <2>1 DEF Joins
  <1> HIDE DEF p
  <1>6. get_u32(p, 0) = cfg.seed
    <2>1. \A i \in 1..4 : p[0 + i] = put_u32(cfg.seed)[i]
      BY <1>3, <1>4, <1>5 DEF a
    <2> QED BY <1>1, <2>1, GetU32
  <1>7. get_u16(p, 4) = cfg.packets
    <2>1. \A i \in 1..2 : p[4 + i] = put_u16(cfg.packets)[i]
      BY <1>3, <1>4, <1>5 DEF b
    <2> QED BY <1>1, <2>1, GetU16
  <1>8. get_u16(p, 6) = cfg.cadence_ms
    <2>1. \A i \in 1..2 : p[6 + i] = put_u16(cfg.cadence_ms)[i]
      BY <1>4, <1>5 DEF c
    <2> QED BY <1>1, <2>1, GetU16
  <1>9. SubSeq(p, 9, 15) = cfg.weights
    <2> DEFINE x == SubSeq(p, 9, 15)
    <2>1. /\ x \in Seq(Byte) /\ Len(x) = 7
          /\ \A i \in 1..7 : x[i] = p[8 + i]
      <3>1. ASSUME NEW i \in 9..15 PROVE p[i] \in Byte
        <4>1. i \in 1..Len(p)
          BY <1>5
        <4>2. p \in [1..Len(p) -> Byte]
          BY <1>5, LenProperties
        <4> QED BY <4>1, <4>2
      <3>2. /\ x \in Seq(Byte) /\ Len(x) = IF 9 <= 15 THEN 15 - 9 + 1 ELSE 0
            /\ \A i \in 1..(15 - 9 + 1) : x[i] = p[9 + i - 1]
        BY <3>1, SubSeqProperties
      <3>3. 15 - 9 + 1 = 7 /\ 9 <= 15 /\ \A i \in 1..7 : 9 + i - 1 = 8 + i
        OBVIOUS
      <3> HIDE DEF x
      <3> QED BY <3>2, <3>3
    <2> HIDE DEF x
    <2>2. \A i \in 1..Len(x) : x[i] = d[i]
      BY <1>5, <2>1
    <2>3. x = d
      BY <1>2, <2>1, <2>2, SeqEqual
    <2> QED BY <2>3 DEF x, d
  <1>10. decode_start(p) = cfg
    <2>1. decode_start(p) = [seed |-> get_u32(p, 0), packets |-> get_u16(p, 4),
                             cadence_ms |-> get_u16(p, 6), weights |-> SubSeq(p, 9, 15)]
      <3>1. 8 + N_FAULT_KINDS = 15 /\ ~(Len(p) < START_PAYLOAD_LEN)
        BY <1>5 DEF N_FAULT_KINDS, START_PAYLOAD_LEN
      <3> QED BY <3>1 DEF decode_start
    <2>2. cfg = [seed |-> cfg.seed, packets |-> cfg.packets,
                 cadence_ms |-> cfg.cadence_ms, weights |-> cfg.weights]
      BY <1>1
    <2> QED BY <1>6, <1>7, <1>8, <1>9, <2>1, <2>2
  <1>11. K_START \in Byte /\ Len(p) <= MAX_PAYLOAD
    BY <1>5 DEF K_START, Byte, MAX_PAYLOAD
  <1> DEFINE wire == encode(K_START, p)
  <1>12. PayloadOf(wire) = p
    BY <1>5, <1>11, MessageIs
  <1>13. WellFormed(Message(cfg, wire, decode_start(PayloadOf(wire))))
    BY <1>5, <1>10, <1>11, <1>12, MessageIs
  <1>14. wire = encode_start(cfg)
    BY DEF encode_start, p, abc, ab, a, b, c, d
  <1> QED BY <1>13, <1>14 DEF Start

\* So every message is well formed.
LEMMA MessagesWellFormed ==
    \A m \in Messages : WellFormed(m)
  BY BareWellFormed, EndWellFormed, SensorWellFormed, FaultWellFormed, StartWellFormed
     DEF Messages

-----------------------------------------------------------------------------
(* The receiver.                                                             *)

\* What may be reported of a frame.
Verdicts(m) == {BadCrc(m.kind), Frame(m.kind, m.payload)}

\* How far a frame has arrived: its bytes so far, of which the parser takes
\* all but the last for the frame.
Arrived == Len(current.wire) - Len(line)

\* What is on the line is the rest of the frame, or the frame with one byte
\* changed.
OnLine ==
    /\ line \in Seq(Byte) /\ Len(line) <= Len(current.wire)
    /\ frames = 0 => line = <<>>
    /\ frames > 0 /\ ~damaged =>
         \A j \in 1..Len(line) : line[j] = current.wire[Arrived + j]
    /\ damaged /\ Len(line) = Len(current.wire) =>
         \E i \in 1..Len(line), mask \in 1..255 :
             line = [current.wire EXCEPT ![i] = Xor(@, mask)]

\* What the parser holds and has reported of an undamaged frame that began
\* when it was empty.
InParser ==
    frames > 0 /\ ~damaged /\ wasEmpty =>
        /\ Arrived < Len(current.wire) - 1 =>
             buf = SubSeq(current.wire, 1, Arrived) /\ got = <<>>
        /\ Arrived = Len(current.wire) - 1 =>
             buf = <<>> /\ \E v \in Verdicts(current) : got = <<v>>
        /\ Arrived = Len(current.wire) =>
             \E v \in Verdicts(current) :
                 \/ buf = <<>> /\ got = <<v, Garbage>>
                 \/ /\ buf = <<SYNC>> /\ got = <<v>>
                    /\ current.wire[Len(current.wire)] = SYNC

TypeOK ==
    /\ current \in Messages
    /\ wasEmpty \in BOOLEAN /\ damaged \in BOOLEAN
    /\ frames \in Nat

Inv == TypeOK /\ OnLine /\ InParser

\* The bytes of a message's frame.
LEMMA WireIs ==
    ASSUME NEW m, WellFormed(m)
    PROVE  /\ m.wire \in Seq(Byte) /\ Len(m.wire) = Len(m.payload) + 4
           /\ Len(m.wire) \in Nat /\ Len(m.payload) \in Nat /\ Len(m.payload) <= 16
           /\ m.wire[1] = SYNC /\ m.wire[2] = Len(m.payload) /\ m.wire[3] = m.kind
           /\ SubSeq(m.wire, 4, Len(m.wire) - 1) = m.payload
           /\ m.wire[Len(m.wire)] = crc8(SubSeq(m.wire, 2, Len(m.wire) - 1))
  <1>1. /\ m.kind \in Byte /\ m.payload \in Seq(Byte) /\ Len(m.payload) <= MAX_PAYLOAD
        /\ m.wire = encode(m.kind, m.payload)
    BY DEF WellFormed
  <1>2. Len(m.payload) \in Nat /\ Len(m.payload) <= 16
    BY <1>1 DEF MAX_PAYLOAD
  <1>3. /\ m.wire \in Seq(Byte) /\ Len(m.wire) = Len(m.payload) + 4
        /\ m.wire[1] = SYNC /\ m.wire[2] = Len(m.payload) /\ m.wire[3] = m.kind
        /\ SubSeq(m.wire, 4, Len(m.wire) - 1) = m.payload
        /\ m.wire[Len(m.wire)] = crc8(SubSeq(m.wire, 2, Len(m.wire) - 1))
    <2> DEFINE kind == m.kind
               p == m.payload
               w == encode(kind, p)
    <2>1. kind \in Byte /\ p \in Seq(Byte) /\ Len(p) <= MAX_PAYLOAD /\ m.wire = w
      BY <1>1
    <2> HIDE DEF kind, p
    <2>2. /\ w \in Seq(Byte) /\ Len(w) = Len(p) + 4
          /\ w[1] = SYNC /\ w[2] = Len(p) /\ w[3] = kind
          /\ SubSeq(w, 4, Len(w) - 1) = p
          /\ w[Len(w)] = crc8(SubSeq(w, 2, Len(w) - 1))
      BY <2>1, EncodeIs
    <2> HIDE DEF w
    <2> QED BY <2>1, <2>2 DEF kind, p
  <1>4. Len(m.wire) \in Nat
    BY <1>3
  <1> QED BY <1>2, <1>3, <1>4

\* A beginning of a sequence, and the byte behind it.
LEMMA Beginning ==
    ASSUME NEW s \in Seq(Byte), NEW n \in Nat, n < Len(s)
    PROVE  /\ SubSeq(s, 1, n) \in Seq(Byte) /\ Len(SubSeq(s, 1, n)) = n
           /\ \A i \in 1..n : SubSeq(s, 1, n)[i] = s[i]
           /\ Append(SubSeq(s, 1, n), s[n + 1]) = SubSeq(s, 1, n + 1)
  <1>0. Len(s) \in Nat /\ \A i \in 1..Len(s) : s[i] \in Byte
    OBVIOUS
  <1> DEFINE Is(x, k) == /\ x \in Seq(Byte) /\ Len(x) = k
                         /\ \A i \in 1..k : x[i] = s[i]
  <1>1. ASSUME NEW k \in Nat, k <= Len(s)
        PROVE  Is(SubSeq(s, 1, k), k)
    <2> DEFINE x == SubSeq(s, 1, k)
    <2>1. \A i \in 1..k : s[i] \in Byte
      BY <1>0, <1>1
    <2>2. /\ x \in Seq(Byte) /\ Len(x) = IF 1 <= k THEN k - 1 + 1 ELSE 0
          /\ \A i \in 1..(k - 1 + 1) : x[i] = s[1 + i - 1]
      BY <2>1, SubSeqProperties
    <2>3. k - 1 + 1 = k /\ \A i \in 1..k : 1 + i - 1 = i
      OBVIOUS
    <2>4. Len(x) = k
      <3> HIDE DEF x
      <3> QED BY <2>2
    <2> HIDE DEF x
    <2>5. Is(x, k)
      BY <2>2, <2>3, <2>4
    <2> QED BY <2>5 DEF x
  <1>2. Is(SubSeq(s, 1, n), n) /\ Is(SubSeq(s, 1, n + 1), n + 1)
    <2>1. n <= Len(s) /\ n + 1 <= Len(s) /\ n + 1 \in Nat
      BY <1>0
    <2> HIDE DEF Is
    <2> QED BY <1>1, <2>1
  <1> DEFINE x == SubSeq(s, 1, n)
             y == SubSeq(s, 1, n + 1)
             z == Append(x, s[n + 1])
  <1>3. s[n + 1] \in Byte
    BY <1>0
  <1>4. Is(x, n) /\ Is(y, n + 1)
    BY <1>2
  <1> HIDE DEF x, y
  <1>5. z \in Seq(Byte) /\ Len(z) = n + 1 /\ z[n + 1] = s[n + 1] /\ \A i \in 1..n : z[i] = x[i]
    BY <1>3, <1>4, AppendProperties
  <1>6. \A i \in 1..Len(z) : z[i] = y[i]
    <2> SUFFICES ASSUME NEW i \in 1..(n + 1) PROVE z[i] = y[i]
      BY <1>5
    <2> HIDE DEF z
    <2>1. i \in 1..n \/ i = n + 1
      OBVIOUS
    <2>2. n + 1 \in 1..(n + 1)
      OBVIOUS
    <2> QED BY <1>4, <1>5, <2>1, <2>2
  <1>7. z = y
    <2> HIDE DEF z
    <2> QED BY <1>4, <1>5, <1>6, SeqEqual
  <1> QED BY <1>4, <1>7 DEF x, y

\* What extract makes of the beginning of a frame.
LEMMA ExtractBeginning ==
    ASSUME NEW m, WellFormed(m), NEW n \in 1..(Len(m.wire) - 1)
    PROVE  LET s == SubSeq(m.wire, 1, n)
           IN  /\ n < Len(m.wire) - 1 => extract(s) = [buf |-> s, out |-> Nothing]
               /\ n = Len(m.wire) - 1 =>
                    \E v \in Verdicts(m) : extract(s) = [buf |-> <<>>, out |-> v]
  <1> DEFINE w == m.wire
             k == Len(m.payload)
             s == SubSeq(w, 1, n)
  <1>1. /\ w \in Seq(Byte) /\ Len(w) = k + 4 /\ k \in Nat /\ k <= 16
        /\ w[1] = SYNC /\ w[2] = k /\ w[3] = m.kind
        /\ SubSeq(w, 4, Len(w) - 1) = m.payload
    BY WireIs
  <1> HIDE DEF w, k
  <1>2. n \in Nat /\ n >= 1 /\ n <= k + 3
    BY <1>1 DEF w
  <1>3. s \in Seq(Byte) /\ Len(s) = n /\ \A i \in 1..n : s[i] = w[i]
    BY <1>1, <1>2, Beginning
  <1> HIDE DEF s
  <1>4. extract(s) = FromSync(s)
    <2>1. s[1] = SYNC /\ 1 \in SyncsIn(s)
      BY <1>1, <1>2, <1>3 DEF SyncsIn
    <2> QED BY <2>1 DEF extract
  <1>5. n >= 2 => s[2] = k
    BY <1>1, <1>2, <1>3
  <1>6. ASSUME n < k + 3 PROVE extract(s) = [buf |-> s, out |-> Nothing]
    BY <1>1, <1>2, <1>3, <1>4, <1>5, <1>6 DEF FromSync, Keeps, Absurd, Need, MAX_PAYLOAD
  <1>7. ASSUME n = k + 3
        PROVE  \E v \in Verdicts(m) : extract(s) = [buf |-> <<>>, out |-> v]
    <2>1. SubSeq(s, 1, n) = s /\ SubSeq(s, n + 1, n) = <<>>
      <3>1. SubSeq(s, 1, Len(s)) = s
        BY <1>3, SubSeqFull
      <3>2. SubSeq(s, n + 1, n) = <<>>
        BY <1>2, <1>3
      <3> QED BY <1>3, <3>1, <3>2
    <2>2. extract(s) = [buf |-> <<>>, out |-> Verdict(s)]
      <3>1. extract(s) = Keeps(SubSeq(s, n + 1, n), Verdict(SubSeq(s, 1, n)))
        BY <1>1, <1>2, <1>3, <1>4, <1>5, <1>7
           DEF FromSync, Absurd, Need, MAX_PAYLOAD, Rest
      <3> QED BY <2>1, <3>1 DEF Keeps
    <2>3. s[3] = m.kind
      BY <1>1, <1>2, <1>3, <1>7
    <2>4. SubSeq(s, 4, n) = m.payload
      <3> DEFINE x == SubSeq(s, 4, n)
                 y == SubSeq(w, 4, n)
      <3>1. /\ \A i \in 4..n : s[i] \in Byte
            /\ \A i \in 4..n : w[i] \in Byte
            /\ \A i \in 4..n : s[i] = w[i]
        BY <1>1, <1>2, <1>3, <1>7
      <3>2. /\ x \in Seq(Byte) /\ Len(x) = IF 4 <= n THEN n - 4 + 1 ELSE 0
            /\ \A i \in 1..(n - 4 + 1) : x[i] = s[4 + i - 1]
        BY <1>2, <3>1, SubSeqProperties
      <3>3. /\ y \in Seq(Byte) /\ Len(y) = IF 4 <= n THEN n - 4 + 1 ELSE 0
            /\ \A i \in 1..(n - 4 + 1) : y[i] = w[4 + i - 1]
        BY <1>2, <3>1, SubSeqProperties
      <3> HIDE DEF x, y
      <3>4. \A i \in 1..Len(x) : x[i] = y[i]
        <4> SUFFICES ASSUME NEW i \in 1..Len(x) PROVE x[i] = y[i]
          OBVIOUS
        <4>1. i \in 1..(n - 4 + 1) /\ 4 + i - 1 \in 4..n
          BY <1>2, <3>2
        <4> QED BY <3>1, <3>2, <3>3, <4>1
      <3>5. x = y
        BY <3>2, <3>3, <3>4, SeqEqual
      <3>6. Len(w) - 1 = n
        BY <1>1, <1>7
      <3> QED BY <1>1, <3>5, <3>6 DEF x, y
    <2>5. Verdict(s) \in Verdicts(m)
      BY <1>3, <2>3, <2>4 DEF Verdict, Verdicts
    <2> QED BY <2>2, <2>5
  <1>8. Len(m.wire) - 1 = k + 3
    BY <1>1 DEF w
  <1> QED BY <1>6, <1>7, <1>8 DEF s, w

\* What a push does to the beginning of a frame: one byte more, and a verdict
\* with the last byte but one.
LEMMA PushFrame ==
    ASSUME NEW m, WellFormed(m), NEW n \in 0..(Len(m.wire) - 2)
    PROVE  LET r == push(SubSeq(m.wire, 1, n), m.wire[n + 1])
           IN  /\ n < Len(m.wire) - 2 =>
                    r = [buf |-> SubSeq(m.wire, 1, n + 1), out |-> Nothing]
               /\ n = Len(m.wire) - 2 =>
                    \E v \in Verdicts(m) : r = [buf |-> <<>>, out |-> v]
  <1> DEFINE w == m.wire
             s == SubSeq(w, 1, n)
  <1>1. w \in Seq(Byte) /\ Len(w) \in Nat /\ Len(w) <= 20
    BY WireIs
  <1>2. n \in Nat /\ n < Len(w) /\ n < 20
    BY <1>1
  <1>3. Len(s) = n /\ Append(s, w[n + 1]) = SubSeq(w, 1, n + 1)
    <2> HIDE DEF w
    <2> QED BY <1>1, <1>2, Beginning
  <1>4. push(s, w[n + 1]) = extract(SubSeq(w, 1, n + 1))
    <2>1. Len(s) < MAX_FRAME
      BY <1>2, <1>3 DEF MAX_FRAME, MAX_PAYLOAD
    <2> HIDE DEF s, w
    <2> QED BY <1>3, <2>1 DEF push
  <1>5. n + 1 \in 1..(Len(w) - 1)
    BY <1>1, <1>2
  <1>6. /\ n + 1 < Len(w) - 1 =>
             extract(SubSeq(w, 1, n + 1)) = [buf |-> SubSeq(w, 1, n + 1), out |-> Nothing]
        /\ n + 1 = Len(w) - 1 =>
             \E v \in Verdicts(m) : extract(SubSeq(w, 1, n + 1)) = [buf |-> <<>>, out |-> v]
    BY <1>5, ExtractBeginning
  <1> HIDE DEF w
  <1>7. (n < Len(w) - 2 <=> n + 1 < Len(w) - 1) /\ (n = Len(w) - 2 <=> n + 1 = Len(w) - 1)
    BY <1>1, <1>2
  <1> QED BY <1>4, <1>6, <1>7 DEF w, s

\* The check byte finds the parser empty: it is junk, or starts a frame.
LEMMA PushCheckByte ==
    ASSUME NEW b \in Byte
    PROVE  push(<<>>, b) = IF b = SYNC THEN [buf |-> <<SYNC>>, out |-> Nothing]
                                       ELSE [buf |-> <<>>, out |-> Garbage]
  <1>1. push(<<>>, b) = extract(<<b>>)
    <2>1. Len(<<>>) < MAX_FRAME /\ Append(<<>>, b) = <<b>>
      BY DEF MAX_FRAME, MAX_PAYLOAD
    <2> QED BY <2>1 DEF push
  <1>2. CASE b = SYNC
    <2>1. 1 \in SyncsIn(<<b>>) /\ <<b>>[1] = SYNC /\ Len(<<b>>) = 1
      BY <1>2 DEF SyncsIn
    <2>2. extract(<<b>>) = FromSync(<<b>>)
      BY <2>1 DEF extract
    <2>3. FromSync(<<b>>) = Keeps(<<b>>, Nothing)
      BY <2>1 DEF FromSync
    <2> QED BY <1>1, <1>2, <2>2, <2>3 DEF Keeps
  <1>3. CASE b # SYNC
    <2>1. SyncsIn(<<b>>) = {} /\ <<b>> # <<>>
      BY <1>3 DEF SyncsIn
    <2> QED BY <1>1, <1>3, <2>1 DEF extract, Keeps
  <1> QED BY <1>2, <1>3

\* A second report.
LEMMA AppendTwo ==
    ASSUME NEW x, NEW y
    PROVE  Append(<<x>>, y) = <<x, y>>
  <1> DEFINE s == <<x>>
             t == <<x, y>>
             z == Append(s, y)
  <1>1. /\ s \in Seq({x, y}) /\ Len(s) = 1 /\ s[1] = x
        /\ t \in Seq({x, y}) /\ Len(t) = 2 /\ t[1] = x /\ t[2] = y
    OBVIOUS
  <1> HIDE DEF s, t
  <1>2. z \in Seq({x, y}) /\ Len(z) = 2 /\ z[1] = x /\ z[2] = y
    <2> DEFINE S == {x, y}
    <2>1. s \in Seq(S) /\ y \in S
      BY <1>1
    <2> HIDE DEF S
    <2>2. /\ z \in Seq(S) /\ Len(z) = Len(s) + 1
          /\ \A i \in 1..Len(s) : z[i] = s[i]
          /\ z[Len(s) + 1] = y
      BY <2>1, AppendProperties
    <2>3. 1 \in 1..1
      OBVIOUS
    <2> QED BY <1>1, <2>2, <2>3 DEF S
  <1> HIDE DEF z
  <1>3. \A i \in 1..Len(z) : z[i] = t[i]
    <2>1. \A i \in 1..2 : i = 1 \/ i = 2
      OBVIOUS
    <2> QED BY <1>1, <1>2, <2>1
  <1>4. z = t
    BY <1>1, <1>2, <1>3, SeqEqual
  <1> QED BY <1>4 DEF s, t, z

\* Verdicts are something to report.
LEMMA VerdictIs ==
    ASSUME NEW m, NEW v \in Verdicts(m)
    PROVE  v # Nothing /\ v # Garbage
  BY DEF Verdicts, BadCrc, Frame, Nothing, Garbage

-----------------------------------------------------------------------------
(* The invariant.                                                            *)

\* The invariant holds at first, with nothing on the line.
LEMMA InitInv ==
    Init => Inv
  <1> SUFFICES ASSUME Init PROVE Inv
    OBVIOUS
  <1>1. current \in Messages
    BY DEF Init, Messages
  <1>2. WellFormed(current)
    BY <1>1, MessagesWellFormed
  <1>3. Len(current.wire) \in Nat
    BY <1>2, WireIs
  <1>4. /\ line = <<>> /\ wasEmpty = FALSE /\ damaged = FALSE /\ frames = 0
    BY DEF Init
  <1>5. TypeOK
    BY <1>1, <1>4 DEF TypeOK
  <1>6. OnLine
    <2>1. line \in Seq(Byte) /\ Len(line) <= Len(current.wire)
      BY <1>3, <1>4
    <2> QED BY <1>4, <2>1 DEF OnLine
  <1>7. InParser
    BY <1>4 DEF InParser
  <1> QED BY <1>5, <1>6, <1>7 DEF Inv

\* It holds when a frame is put on the line,
LEMMA TransmitInv ==
    ASSUME Inv, NEW m \in Messages, Transmit(m)
    PROVE  Inv'
  <1>1. WellFormed(m)
    BY MessagesWellFormed
  <1>2. /\ m.wire \in Seq(Byte) /\ Len(m.wire) \in Nat /\ Len(m.wire) >= 4
    BY <1>1, WireIs
  <1>3. /\ line' = m.wire /\ current' = m /\ damaged' = FALSE
        /\ got' = <<>> /\ frames' = frames + 1 /\ buf' = buf
    BY DEF Transmit
  <1>8. wasEmpty' = (buf = <<>>)
    BY DEF Transmit
  <1>4. TypeOK'
    <2>1. current' \in Messages /\ damaged' \in BOOLEAN /\ frames' \in Nat
      <3>1. frames \in Nat
        BY DEF Inv, TypeOK
      <3>2. FALSE \in BOOLEAN
        OBVIOUS
      <3>3. frames' \in Nat
        BY <1>3, <3>1
      <3>4. current' \in Messages
        BY <1>3
      <3>5. damaged' \in BOOLEAN
        BY <1>3, <3>2
      <3> QED BY <3>3, <3>4, <3>5
    <2>2. wasEmpty' \in BOOLEAN
      <3>1. (buf = <<>>) \in BOOLEAN
        OBVIOUS
      <3> QED BY <1>8, <3>1, Zenon
    <2> QED BY <2>1, <2>2 DEF TypeOK
  <1>5. Arrived' = 0
    BY <1>2, <1>3 DEF Arrived
  <1>6. OnLine'
    <2>1. frames' # 0
      BY <1>3 DEF Inv, TypeOK
    <2>2. \A j \in 1..Len(m.wire) : m.wire[j] = m.wire[0 + j]
      <3>1. \A j \in 1..Len(m.wire) : 0 + j = j
        BY <1>2
      <3> QED BY <3>1
    <2>3. line' \in Seq(Byte) /\ Len(line') <= Len(current'.wire)
      BY <1>2, <1>3
    <2>4. \A j \in 1..Len(line') : line'[j] = current'.wire[Arrived' + j]
      BY <1>3, <1>5, <2>2
    <2> QED BY <1>3, <2>1, <2>3, <2>4 DEF OnLine
  <1>7. InParser'
    <2>1. wasEmpty' => buf' = <<>>
      BY <1>3, <1>8, Zenon
    <2>2. SubSeq(m.wire, 1, 0) = <<>>
      BY <1>2
    <2>3. Arrived' # Len(current'.wire) - 1 /\ Arrived' # Len(current'.wire)
      <3>1. current'.wire = m.wire
        BY <1>3
      <3>2. \A k \in Nat : k >= 4 => 0 # k - 1 /\ 0 # k
        OBVIOUS
      <3>3. 0 # Len(m.wire) - 1 /\ 0 # Len(m.wire)
        BY <1>2, <3>2
      <3> QED BY <1>5, <3>1, <3>3
    <2>4. wasEmpty' => buf' = SubSeq(current'.wire, 1, Arrived') /\ got' = <<>>
      BY <1>3, <1>5, <2>1, <2>2
    <2> QED BY <2>3, <2>4 DEF InParser
  <1> QED BY <1>4, <1>6, <1>7 DEF Inv

\* when noise changes a byte of it,
LEMMA DamageInv ==
    ASSUME Inv, NEW i \in 1..Len(line), NEW mask \in Masks, Damage(i, mask)
    PROVE  Inv'
  <1>1. WellFormed(current)
    BY MessagesWellFormed DEF Inv, TypeOK
  <1>2. current.wire \in Seq(Byte) /\ Len(current.wire) \in Nat
    BY <1>1, WireIs
  <1>3. /\ line = current.wire /\ damaged' = TRUE
        /\ line' = [current.wire EXCEPT ![i] = Xor(@, mask)]
        /\ buf' = buf /\ current' = current /\ wasEmpty' = wasEmpty /\ got' = got
        /\ frames' = frames /\ frames > 0
    BY DEF Damage
  <1>4. mask \in 1..255 /\ mask \in Byte
    BY LineAssumption DEF Byte
  <1>5. line' \in Seq(Byte) /\ Len(line') = Len(current.wire)
    <2>1. i \in 1..Len(current.wire) /\ current.wire[i] \in Byte
      BY <1>2, <1>3
    <2>2. Xor(current.wire[i], mask) \in Byte
      BY <1>4, <2>1, XorIsByte
    <2> QED BY <1>2, <1>3, <2>1, <2>2, ExceptSeq
  <1>6. OnLine'
    <2>1. i \in 1..Len(line')
      BY <1>3, <1>5
    <2>2. frames' # 0
      BY <1>3 DEF Inv, TypeOK
    <2>3. \E j \in 1..Len(line'), k \in 1..255 :
             line' = [current'.wire EXCEPT ![j] = Xor(@, k)]
      BY <1>3, <1>4, <2>1
    <2>4. Len(line') <= Len(current'.wire)
      BY <1>2, <1>3, <1>5
    <2> QED BY <1>3, <1>5, <2>2, <2>3, <2>4 DEF OnLine
  <1>7. TypeOK' /\ InParser'
    BY <1>3 DEF Inv, TypeOK, InParser
  <1> QED BY <1>6, <1>7 DEF Inv

\* and when a byte is received.
LEMMA ReceiveInv ==
    ASSUME Inv, Receive
    PROVE  Inv'
  <1>1. WellFormed(current)
    BY MessagesWellFormed DEF Inv, TypeOK
  <1> DEFINE w == current.wire
             n == Arrived
             r == push(buf, Head(line))
  <1>2. /\ w \in Seq(Byte) /\ Len(w) \in Nat /\ Len(w) >= 4
    BY <1>1, WireIs
  <1>3. /\ line # <<>> /\ line' = Tail(line) /\ current' = current
        /\ wasEmpty' = wasEmpty /\ damaged' = damaged /\ frames' = frames
    BY DEF Receive
  <1>4. /\ buf' = r.buf
        /\ got' = IF r.out = Nothing THEN got ELSE Append(got, r.out)
    BY DEF Receive
  <1>5. line \in Seq(Byte) /\ Len(line) <= Len(w) /\ Len(line) \in Nat /\ Len(line) >= 1
    BY <1>3 DEF Inv, OnLine
  <1>6. /\ line' \in Seq(Byte) /\ Len(line') = Len(line) - 1
        /\ \A j \in 1..(Len(line) - 1) : line'[j] = line[j + 1]
        /\ Head(line) = line[1]
    BY <1>3, <1>5, HeadTailProperties
  <1>7. n \in Nat /\ n < Len(w) /\ Arrived' = n + 1
    BY <1>2, <1>3, <1>5, <1>6 DEF Arrived
  <1>8. frames \in Nat /\ frames > 0
    BY <1>3 DEF Inv, TypeOK, OnLine
  <1>9. TypeOK'
    BY <1>3 DEF Inv, TypeOK
  <1> HIDE DEF w, n, r
  <1>10. OnLine'
    <2>1. Len(line') < Len(w)
      BY <1>2, <1>5, <1>6
    <2>2. ASSUME ~damaged, NEW j \in 1..Len(line')
          PROVE  line'[j] = w[(n + 1) + j]
      <3>1. j \in 1..(Len(line) - 1) /\ j + 1 \in 1..Len(line) /\ n + (j + 1) = (n + 1) + j
        BY <1>5, <1>6, <1>7
      <3>2. line[j + 1] = w[n + (j + 1)]
        BY <1>8, <2>2, <3>1 DEF Inv, OnLine, n, w
      <3> QED BY <1>6, <3>1, <3>2
    <2>3. line' \in Seq(Byte) /\ Len(line') <= Len(current'.wire) /\ Len(line') # Len(current'.wire)
      <3>1. current'.wire = w
        BY <1>3 DEF w
      <3>2. \A i, j \in Nat : i < j => i <= j /\ i # j
        OBVIOUS
      <3>3. Len(line') \in Nat
        BY <1>6
      <3>4. Len(line') <= Len(w) /\ Len(line') # Len(w)
        BY <1>2, <2>1, <3>2, <3>3
      <3> QED BY <1>6, <3>1, <3>4
    <2>4. ~damaged' => \A j \in 1..Len(line') : line'[j] = current'.wire[Arrived' + j]
      BY <1>3, <1>7, <2>2 DEF w
    <2>5. frames' # 0
      BY <1>3, <1>8
    <2> QED BY <2>3, <2>4, <2>5 DEF OnLine
  <1>11. InParser'
    <2> SUFFICES ASSUME ~damaged, wasEmpty
                 PROVE  /\ n + 1 < Len(w) - 1 =>
                             buf' = SubSeq(w, 1, n + 1) /\ got' = <<>>
                        /\ n + 1 = Len(w) - 1 =>
                             buf' = <<>> /\ \E v \in Verdicts(current) : got' = <<v>>
                        /\ n + 1 = Len(w) =>
                             \E v \in Verdicts(current) :
                                 \/ buf' = <<>> /\ got' = <<v, Garbage>>
                                 \/ buf' = <<SYNC>> /\ got' = <<v>> /\ w[Len(w)] = SYNC
      <3>1. /\ current'.wire = w /\ Verdicts(current') = Verdicts(current)
            /\ (damaged' <=> damaged) /\ (wasEmpty' <=> wasEmpty)
        BY <1>3 DEF w
      <3> QED BY <1>7, <3>1 DEF InParser
    <2>1. Head(line) = w[n + 1] /\ w[n + 1] \in Byte
      <3>1. 1 \in 1..Len(line)
        BY <1>5
      <3>2. line[1] = w[n + 1]
        BY <1>8, <3>1 DEF Inv, OnLine, n, w
      <3>3. n + 1 \in 1..Len(w)
        BY <1>2, <1>7
      <3> QED BY <1>2, <1>6, <3>2, <3>3
    <2>2. CASE n < Len(w) - 1
      <3>1. buf = SubSeq(w, 1, n) /\ got = <<>>
        BY <1>8, <2>2 DEF Inv, InParser, n, w
      <3>2. n \in 0..(Len(w) - 2)
        BY <1>2, <1>7, <2>2
      <3>3. r = push(SubSeq(w, 1, n), w[n + 1])
        BY <2>1, <3>1 DEF r
      <3>4. /\ n < Len(w) - 2 => r = [buf |-> SubSeq(w, 1, n + 1), out |-> Nothing]
            /\ n = Len(w) - 2 => \E v \in Verdicts(current) : r = [buf |-> <<>>, out |-> v]
        BY <1>1, <3>2, <3>3, PushFrame DEF w
      <3>5. CASE n < Len(w) - 2
        <4>1. r.buf = SubSeq(w, 1, n + 1) /\ r.out = Nothing
          BY <3>4, <3>5
        <4>2. n + 1 # Len(w) - 1 /\ n + 1 # Len(w)
          BY <1>2, <1>7, <3>5
        <4> QED BY <1>4, <3>1, <4>1, <4>2
      <3>6. CASE n = Len(w) - 2
        <4>1. PICK v \in Verdicts(current) : r = [buf |-> <<>>, out |-> v]
          BY <3>4, <3>6
        <4>2. r.buf = <<>> /\ r.out = v /\ v # Nothing
          BY <4>1, VerdictIs
        <4>3. got' = <<v>>
          BY <1>4, <3>1, <4>2
        <4>4. ~(n + 1 < Len(w) - 1) /\ n + 1 # Len(w)
          BY <1>2, <1>7, <3>6
        <4> QED BY <1>4, <4>2, <4>3, <4>4
      <3> QED BY <1>2, <1>7, <2>2, <3>5, <3>6
    <2>3. CASE n = Len(w) - 1
      <3>1. buf = <<>> /\ \E v \in Verdicts(current) : got = <<v>>
        BY <1>8, <2>3 DEF Inv, InParser, n, w
      <3>2. PICK v \in Verdicts(current) : got = <<v>>
        BY <3>1
      <3>3. n + 1 = Len(w) /\ ~(n + 1 < Len(w) - 1) /\ n + 1 # Len(w) - 1
        BY <1>2, <1>7, <2>3
      <3>4. r = IF w[n + 1] = SYNC THEN [buf |-> <<SYNC>>, out |-> Nothing]
                                   ELSE [buf |-> <<>>, out |-> Garbage]
        BY <2>1, <3>1, PushCheckByte DEF r
      <3>5. CASE w[n + 1] = SYNC
        <4>1. r.buf = <<SYNC>> /\ r.out = Nothing
          BY <3>4, <3>5
        <4> QED BY <1>4, <3>2, <3>3, <3>5, <4>1
      <3>6. CASE w[n + 1] # SYNC
        <4>1. r.buf = <<>> /\ r.out = Garbage /\ Garbage # Nothing
          BY <3>4, <3>6 DEF Garbage, Nothing
        <4>2. got' = <<v, Garbage>>
          <5>1. got' = Append(<<v>>, Garbage)
            BY <1>4, <3>2, <4>1
          <5> QED BY <5>1, AppendTwo
        <4> QED BY <1>4, <3>3, <4>1, <4>2
      <3> QED BY <3>5, <3>6
    <2> QED BY <1>2, <1>7, <2>2, <2>3
  <1> QED BY <1>9, <1>10, <1>11 DEF Inv

\* So every step keeps it.
LEMMA NextInv ==
    Inv /\ [Next]_vars => Inv'
  <1> SUFFICES ASSUME Inv, [Next]_vars PROVE Inv'
    OBVIOUS
  <1>1. ASSUME NEW m \in Messages, Transmit(m) PROVE Inv'
    BY <1>1, TransmitInv
  <1>2. ASSUME NEW i \in 1..Len(line), NEW mask \in Masks, Damage(i, mask) PROVE Inv'
    BY <1>2, DamageInv
  <1>3. CASE Receive
    BY <1>3, ReceiveInv
  <1>4. CASE UNCHANGED vars
    <2>1. /\ line' = line /\ buf' = buf /\ current' = current /\ wasEmpty' = wasEmpty
          /\ damaged' = damaged /\ got' = got /\ frames' = frames
      BY <1>4 DEF vars
    <2>2. Arrived' = Arrived
      BY <2>1 DEF Arrived
    <2>3. TypeOK'
      BY <2>1 DEF Inv, TypeOK
    <2>4. OnLine'
      BY <2>1, <2>2 DEF Inv, OnLine
    <2>5. InParser'
      BY <2>1, <2>2 DEF Inv, InParser
    <2> QED BY <2>3, <2>4, <2>5 DEF Inv
  <1> QED BY <1>1, <1>2, <1>3, <1>4 DEF Next

\* What is being received is one of the messages; flags and counters have their
\* types.
THEOREM TypeCorrect == Spec => []TypeOK
  <1>1. Inv => TypeOK
    BY DEF Inv
  <1> QED BY <1>1, InitInv, NextInv, PTL DEF Spec

-----------------------------------------------------------------------------
(* What the invariant says of the frames.                                    *)

\* A byte changed by noise is another byte.
LEMMA XorChanges ==
    ASSUME NEW a \in Byte, NEW mask \in 1..255
    PROVE  Xor(a, mask) \in Byte /\ Xor(a, mask) # a
  <1>1. mask \in Byte /\ 0 \in Byte
    BY DEF Byte
  <1>2. Xor(a, 0) = a
    <2>1. \A w \in Nat \ {0} : Differs(a, 0, w) = (a \div w) % 2
      BY DEF Differs, Byte
    <2>2. a \div 1 = a
      BY DEF Byte
    <2>3. /\ Differs(a, 0, 1) = a % 2 /\ Differs(a, 0, 2) = (a \div 2) % 2
          /\ Differs(a, 0, 4) = (a \div 4) % 2 /\ Differs(a, 0, 8) = (a \div 8) % 2
          /\ Differs(a, 0, 16) = (a \div 16) % 2 /\ Differs(a, 0, 32) = (a \div 32) % 2
          /\ Differs(a, 0, 64) = (a \div 64) % 2 /\ Differs(a, 0, 128) = (a \div 128) % 2
      BY <2>1, <2>2
    <2> QED BY <1>1, <2>3, Bits, XorBits
  <1>3. ASSUME Xor(a, mask) = a PROVE FALSE
    <2>1. Xor(mask, a) = Xor(0, a)
      BY <1>1, <1>2, <1>3, XorCommutes
    <2>2. mask = 0
      BY <1>1, <2>1, XorCancels
    <2> QED BY <2>2
  <1> QED BY <1>1, <1>3, XorIsByte

\* The stretch of a frame that the check byte covers.
LEMMA Covered ==
    ASSUME NEW s \in Seq(Byte), Len(s) >= 4
    PROVE  LET c == SubSeq(s, 2, Len(s) - 1)
           IN  c \in Seq(Byte) /\ Len(c) = Len(s) - 2 /\ \A j \in 1..Len(c) : c[j] = s[j + 1]
  <1> DEFINE k == Len(s)
             c == SubSeq(s, 2, k - 1)
  <1>1. k \in Nat /\ \A i \in 2..(k - 1) : s[i] \in Byte
    OBVIOUS
  <1>2. /\ c \in Seq(Byte) /\ Len(c) = IF 2 <= k - 1 THEN (k - 1) - 2 + 1 ELSE 0
        /\ \A i \in 1..((k - 1) - 2 + 1) : c[i] = s[2 + i - 1]
    <2> HIDE DEF k
    <2> QED BY <1>1, SubSeqProperties
  <1> HIDE DEF c
  <1>3. Len(c) = k - 2
    BY <1>1, <1>2
  <1>4. ASSUME NEW j \in 1..Len(c) PROVE c[j] = s[j + 1]
    <2>1. j \in 1..((k - 1) - 2 + 1) /\ 2 + j - 1 = j + 1
      BY <1>1, <1>3
    <2> QED BY <1>2, <2>1
  <1> QED BY <1>2, <1>3, <1>4 DEF c

\* One byte that differs from the frame sent is either the check byte or
\* changes the sum.
LEMMA InvShows ==
    Inv => DamageShowsInCrc
  <1> SUFFICES ASSUME Inv, damaged, Len(line) = Len(current.wire), line[1] = SYNC
               PROVE  line[Len(line)] # crc8(SubSeq(line, 2, Len(line) - 1))
    BY DEF DamageShowsInCrc
  <1>1. WellFormed(current)
    BY MessagesWellFormed DEF Inv, TypeOK
  <1> DEFINE w == current.wire
             k == Len(line)
             s == SubSeq(line, 2, k - 1)
             t == SubSeq(w, 2, k - 1)
  <1>2. /\ w \in Seq(Byte) /\ Len(w) = k /\ k \in Nat /\ k >= 4 /\ w[1] = SYNC
        /\ w[k] = crc8(t)
    BY <1>1, WireIs
  <1>3. PICK i \in 1..k, mask \in 1..255 : line = [w EXCEPT ![i] = Xor(@, mask)]
    BY DEF Inv, OnLine
  <1>4. line \in Seq(Byte)
    BY DEF Inv, OnLine
  <1>5. /\ line[i] # w[i]
        /\ \A j \in 1..k \ {i} : line[j] = w[j]
    <2> HIDE DEF w, k
    <2>1. w[i] \in Byte /\ i \in 1..Len(w)
      BY <1>2
    <2>2. Xor(w[i], mask) # w[i]
      BY <2>1, XorChanges
    <2>3. DOMAIN w = 1..k
      BY <1>2
    <2> QED BY <1>3, <2>2, <2>3
  <1> HIDE DEF w
  <1>6. /\ s \in Seq(Byte) /\ Len(s) = k - 2 /\ \A j \in 1..Len(s) : s[j] = line[j + 1]
    BY <1>2, <1>4, Covered
  <1>7. /\ t \in Seq(Byte) /\ Len(t) = k - 2 /\ \A j \in 1..Len(t) : t[j] = w[j + 1]
    BY <1>2, Covered
  <1> HIDE DEF k, s, t
  <1>8. i # 1
    BY <1>2, <1>5
  <1>9. CASE i = k
    <2>1. \A j \in 1..Len(s) : s[j] = t[j]
      <3> SUFFICES ASSUME NEW j \in 1..Len(s) PROVE s[j] = t[j]
        OBVIOUS
      <3>1. j + 1 \in 1..k \ {i} /\ j \in 1..Len(t)
        BY <1>2, <1>6, <1>7, <1>9
      <3> QED BY <1>5, <1>6, <1>7, <3>1
    <2>2. s = t
      BY <1>6, <1>7, <2>1, SeqEqual
    <2>3. line[k] # w[k]
      BY <1>5, <1>9
    <2> QED BY <1>2, <2>2, <2>3 DEF k, s
  <1>10. CASE i # k
    <2>1. i - 1 \in 1..Len(s) /\ (i - 1) + 1 = i
      BY <1>2, <1>6, <1>8, <1>10
    <2>2. s[i - 1] # t[i - 1]
      BY <1>5, <1>6, <1>7, <2>1
    <2>3. ASSUME NEW j \in 1..Len(s) \ {i - 1} PROVE s[j] = t[j]
      <3>1. j + 1 \in 1..k \ {i} /\ j \in 1..Len(t)
        BY <1>2, <1>6, <1>7, <2>1
      <3> QED BY <1>5, <1>6, <1>7, <3>1
    <2>4. crc8(s) # crc8(t)
      BY <1>6, <1>7, <2>1, <2>2, <2>3, CrcTells
    <2>5. line[k] = w[k]
      <3>1. k \in 1..k \ {i}
        BY <1>2, <1>10
      <3> QED BY <1>5, <3>1
    <2> QED BY <1>2, <2>4, <2>5 DEF k, s
  <1> QED BY <1>9, <1>10

\* Damage to any one byte behind the sync byte makes the check byte disagree,
\* for every frame of the protocol.
THEOREM DamageShows == Spec => []DamageShowsInCrc
  BY InvShows, InitInv, NextInv, PTL DEF Spec

\* Every field comes back from its frame, whatever its value.
THEOREM Survives == Spec => []FieldsSurvive
  <1>1. Inv => FieldsSurvive
    BY MessagesWellFormed DEF Inv, TypeOK, WellFormed, FieldsSurvive
  <1> QED BY <1>1, InitInv, NextInv, PTL DEF Spec

\* A frame received in step has left one verdict on it, and then nothing, or
\* the check byte as junk or as the start of a frame.
LEMMA CleanIs ==
    ASSUME Inv, CleanlyReceived
    PROVE  \E v \in Verdicts(current) :
               \/ buf = <<>> /\ got = <<v, Garbage>>
               \/ /\ buf = <<SYNC>> /\ got = <<v>>
                  /\ current.wire[Len(current.wire)] = SYNC
  <1>1. WellFormed(current)
    BY MessagesWellFormed DEF Inv, TypeOK
  <1>2. Len(current.wire) \in Nat
    BY <1>1, WireIs
  <1>3. Arrived = Len(current.wire)
    BY <1>2 DEF CleanlyReceived, Arrived
  <1> QED BY <1>3 DEF CleanlyReceived, Inv, InParser

\* The receiver is told once of every frame that it gets in step, and of its
\* kind.
THEOREM KindIsRead == Spec => []ReadsKind
  <1>1. ASSUME Inv PROVE ReadsKind
    <2> SUFFICES ASSUME CleanlyReceived
                 PROVE  \E r \in DOMAIN got :
                            /\ got[r] \in Verdicts(current)
                            /\ \A i \in DOMAIN got \ {r} : got[i] = Garbage
      BY DEF ReadsKind, Verdicts
    <2>1. PICK v \in Verdicts(current) : got = <<v, Garbage>> \/ got = <<v>>
      BY <1>1, CleanIs
    <2>2. CASE got = <<v, Garbage>>
      <3>1. 1 \in DOMAIN got /\ got[1] = v /\ \A i \in DOMAIN got \ {1} : got[i] = Garbage
        BY <2>2
      <3> QED BY <3>1
    <2>3. CASE got = <<v>>
      <3>1. 1 \in DOMAIN got /\ got[1] = v /\ DOMAIN got \ {1} = {}
        BY <2>3
      <3> QED BY <3>1
    <2> QED BY <2>1, <2>2, <2>3
  <1> QED BY <1>1, InitInv, NextInv, PTL DEF Spec

\* The parser is in step again after it, but for a check byte that is the sync
\* byte.
THEOREM StaysInStep == Spec => []InStep
  <1>1. Inv => InStep
    BY CleanIs DEF InStep
  <1> QED BY <1>1, InitInv, NextInv, PTL DEF Spec
=============================================================================
