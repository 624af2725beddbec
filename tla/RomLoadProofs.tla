---------------------------- MODULE RomLoadProofs ----------------------------
(***************************************************************************)
(* Proofs about RomLoad.  The ROM reads from the packet of every image     *)
(* what the host put into it: by induction over the image, from facts on   *)
(* single bytes and rows of the tables (Tables).  What fills up its last   *)
(* long changes the sum, unless the call frame covers it.  For images of   *)
(* any number and length, whatever the times and the faults, a success is  *)
(* one that the ROM has verified, a load without a fault succeeds if the   *)
(* last long is whole or covered, and the single-stage loader is an        *)
(* attempt like another.                                                   *)
(***************************************************************************)
EXTENDS RomLoad, Induction

-----------------------------------------------------------------------------
(***************************************************************************)
(* The packet.  First the ROM's reading of bytes as bits, then bits and    *)
(* windows of numbers, the encoder, and the packet as a whole.             *)
(***************************************************************************)

Octet == 0..255
Symbols == {0, 1, 2}

\* The length and the entries of one sequence behind another.
LEMMA Concatenation ==
  ASSUME NEW S, NEW a \in Seq(S), NEW b \in Seq(S)
  PROVE  /\ a \o b \in Seq(S) /\ Len(a \o b) = Len(a) + Len(b)
         /\ Len(a) \in Nat /\ Len(b) \in Nat
         /\ \A k \in 1..Len(a) : (a \o b)[k] = a[k]
         /\ \A k \in 1..Len(b) : (a \o b)[Len(a) + k] = b[k]
OBVIOUS

\* Three parts, whichever two are joined first.
LEMMA Associative ==
  ASSUME NEW a \in Seq(Symbols), NEW b \in Seq(Symbols), NEW c \in Seq(Symbols)
  PROVE  (a \o b) \o c = a \o (b \o c)
OBVIOUS

\* What Read adds at each byte.
Reading(bytes) == [k \in 1..Len(bytes) |-> [s \in Seq(Symbols) |-> s \o BitsOf[bytes[k]]]]

\* Every byte is read as bits, or pulses of no meaning.
LEMMA OctetIsRead == \A b \in Octet : BitsOf[b] \in Seq(Symbols)
BY Tables DEF Octets, Octet, Symbols

\* Read is a function defined by recursion, and one exists: the bits read are
\* those of a run over the bytes.
LEMMA ReadIsARun ==
  ASSUME NEW bytes \in Seq(Octet)
  PROVE  \E g \in [0..Len(bytes) -> Seq(Symbols)] :
           IsRun(g, Len(bytes), <<>>, Reading(bytes)) /\ Read(bytes) = g[Len(bytes)]
<1> DEFINE n == Len(bytes)
           F(f) == [k \in 0..n |-> IF k = 0 THEN <<>> ELSE f[k - 1] \o BitsOf[bytes[k]]]
           u == CHOOSE f : f = F(f)
<1>1. n \in Nat /\ <<>> \in Seq(Symbols)
  OBVIOUS
<1>2. \A k \in 1..n : bytes[k] \in Octet
  OBVIOUS
<1>3. Reading(bytes) \in [1..n -> [Seq(Symbols) -> Seq(Symbols)]]
  BY <1>2, OctetIsRead DEF Reading
<1>4. PICK g \in [0..n -> Seq(Symbols)] : IsRun(g, n, <<>>, Reading(bytes))
  BY <1>1, <1>3, RunExists
<1>5. ASSUME NEW f \in [0..n -> Seq(Symbols)]
      PROVE  IsRun(f, n, <<>>, Reading(bytes)) <=> f = F(f)
  <2>1. \A k \in 1..n : k \in 0..n /\ k - 1 \in 0..n /\ f[k - 1] \in Seq(Symbols)
    <3> HIDE DEF n
    <3>1. \A k \in 1..n : k - 1 \in 0..n
      BY <1>1
    <3> QED BY <3>1
  <2>2. \A k \in 1..n : Reading(bytes)[k][f[k - 1]] = f[k - 1] \o BitsOf[bytes[k]]
    BY <2>1 DEF Reading
  <2> QED BY <2>2 DEF IsRun
<1>6. g = F(g)
  BY <1>4, <1>5
<1>7. Read(bytes) = u[n]
  BY DEF Read
<1>8. u = F(u)
  <2> HIDE DEF F
  <2> QED BY <1>6, Zenon
<1>9. u = g
  <2> DEFINE T == {k \in 0..n : u[k] = g[k]}
  <2>1. 0 \in T
    <3> HIDE DEF u
    <3>1. F(u)[0] = <<>> /\ F(g)[0] = <<>> /\ 0 \in 0..n
      BY <1>1
    <3> HIDE DEF F
    <3> QED BY <3>1, <1>6, <1>8
  <2>2. \A k \in 0..n - 1 : k \in T => k + 1 \in T
    <3> SUFFICES ASSUME NEW k \in 0..n - 1, k \in T PROVE k + 1 \in T
      OBVIOUS
    <3>1. k + 1 \in 0..n /\ k + 1 # 0 /\ (k + 1) - 1 = k
      BY <1>1
    <3>2. u[k + 1] = u[k] \o BitsOf[bytes[k + 1]] /\ g[k + 1] = g[k] \o BitsOf[bytes[k + 1]]
      <4> HIDE DEF u
      <4>1. F(u)[k + 1] = u[k] \o BitsOf[bytes[k + 1]] /\ F(g)[k + 1] = g[k] \o BitsOf[bytes[k + 1]]
        BY <3>1
      <4> HIDE DEF F
      <4> QED BY <4>1, <1>6, <1>8
    <3> QED BY <3>1, <3>2
  <2> HIDE DEF T
  <2>3. 0..n \subseteq T
    BY <1>1, <2>1, <2>2, InductUpTo
  <2>4. \A k \in 0..n : u[k] = g[k]
    BY <2>3 DEF T
  <2>5. u = [k \in 0..n |-> u[k]]
    <3> HIDE DEF u
    <3> QED BY <1>8
  <2> QED BY <2>4, <2>5
<1> QED BY <1>4, <1>7, <1>9

\* The steps of that run, one by one.
LEMMA ReadSteps ==
  ASSUME NEW bytes \in Seq(Octet)
  PROVE  \E g \in [0..Len(bytes) -> Seq(Symbols)] :
           /\ g[0] = <<>> /\ Read(bytes) = g[Len(bytes)]
           /\ \A k \in 1..Len(bytes) : g[k] = g[k - 1] \o BitsOf[bytes[k]]
<1>1. PICK g \in [0..Len(bytes) -> Seq(Symbols)] :
        IsRun(g, Len(bytes), <<>>, Reading(bytes)) /\ Read(bytes) = g[Len(bytes)]
  BY ReadIsARun
<1>2. Len(bytes) \in Nat
  OBVIOUS
<1>3. \A k \in 1..Len(bytes) : k \in 0..Len(bytes) /\ k - 1 \in 0..Len(bytes) /\ k # 0
  BY <1>2
<1>4. /\ g[0] = <<>>
      /\ \A k \in 1..Len(bytes) : g[k] = Reading(bytes)[k][g[k - 1]] /\ g[k - 1] \in Seq(Symbols)
  BY <1>1, <1>2, <1>3 DEF IsRun
<1>5. \A k \in 1..Len(bytes) : g[k] = g[k - 1] \o BitsOf[bytes[k]]
  BY <1>4 DEF Reading
<1> QED BY <1>1, <1>4, <1>5

\* A single byte.
LEMMA ReadOne ==
  ASSUME NEW c \in Octet
  PROVE  Read(<<c>>) = BitsOf[c] /\ <<c>> \in Seq(Octet)
<1>1. <<c>> \in Seq(Octet) /\ Len(<<c>>) = 1 /\ <<c>>[1] = c
  OBVIOUS
<1>2. PICK g \in [0..1 -> Seq(Symbols)] :
        g[0] = <<>> /\ Read(<<c>>) = g[1] /\ g[1] = g[0] \o BitsOf[c]
  <2>1. \E g \in [0..Len(<<c>>) -> Seq(Symbols)] :
          /\ g[0] = <<>> /\ Read(<<c>>) = g[Len(<<c>>)]
          /\ \A k \in 1..Len(<<c>>) : g[k] = g[k - 1] \o BitsOf[<<c>>[k]]
    BY <1>1, ReadSteps
  <2> DEFINE s == <<c>>
  <2>2. Len(s) = 1 /\ s[1] = c /\ 1 \in 1..1 /\ 1 - 1 = 0
    OBVIOUS
  <2>3. \E g \in [0..Len(s) -> Seq(Symbols)] :
          /\ g[0] = <<>> /\ Read(s) = g[Len(s)]
          /\ \A k \in 1..Len(s) : g[k] = g[k - 1] \o BitsOf[s[k]]
    BY <2>1
  <2> HIDE DEF s
  <2>4. \E g \in [0..1 -> Seq(Symbols)] :
          g[0] = <<>> /\ Read(s) = g[1] /\ g[1] = g[0] \o BitsOf[c]
    BY <2>2, <2>3
  <2> QED BY <2>4 DEF s
<1>3. BitsOf[c] \in Seq(Symbols)
  BY OctetIsRead
<1> QED BY <1>1, <1>2, <1>3

\* What is sent in two parts is read in two parts.
LEMMA ReadParts ==
  ASSUME NEW a \in Seq(Octet), NEW b \in Seq(Octet)
  PROVE  /\ Read(a \o b) = Read(a) \o Read(b)
         /\ a \o b \in Seq(Octet) /\ Read(a) \in Seq(Symbols) /\ Read(b) \in Seq(Symbols)
<1> DEFINE m == Len(a)
           n == Len(b)
           c == a \o b
<1>1. /\ m \in Nat /\ n \in Nat /\ c \in Seq(Octet) /\ Len(c) = m + n
      /\ \A k \in 1..m : c[k] = a[k]
      /\ \A k \in 1..n : c[m + k] = b[k]
  BY Concatenation
<1> HIDE DEF c
<1>2. PICK f \in [0..m -> Seq(Symbols)] :
        /\ f[0] = <<>> /\ Read(a) = f[m]
        /\ \A k \in 1..m : f[k] = f[k - 1] \o BitsOf[a[k]]
  BY ReadSteps
<1>3. PICK g \in [0..n -> Seq(Symbols)] :
        /\ g[0] = <<>> /\ Read(b) = g[n]
        /\ \A k \in 1..n : g[k] = g[k - 1] \o BitsOf[b[k]]
  BY ReadSteps
<1>4. PICK h \in [0..m + n -> Seq(Symbols)] :
        /\ h[0] = <<>> /\ Read(c) = h[m + n]
        /\ \A k \in 1..m + n : h[k] = h[k - 1] \o BitsOf[c[k]]
  <2>1. \E h \in [0..Len(c) -> Seq(Symbols)] :
          /\ h[0] = <<>> /\ Read(c) = h[Len(c)]
          /\ \A k \in 1..Len(c) : h[k] = h[k - 1] \o BitsOf[c[k]]
    BY <1>1, ReadSteps
  <2> HIDE DEF m, n
  <2> QED BY <1>1, <2>1
<1> HIDE DEF m, n
<1>5. h[m] = f[m]
  <2> DEFINE T == {k \in 0..m : h[k] = f[k]}
  <2>1. 0 \in T
    BY <1>1, <1>2, <1>4
  <2>2. \A k \in 0..m - 1 : k \in T => k + 1 \in T
    <3> SUFFICES ASSUME NEW k \in 0..m - 1, k \in T PROVE k + 1 \in T
      OBVIOUS
    <3>1. k + 1 \in 1..m /\ k + 1 \in 1..m + n /\ (k + 1) - 1 = k
      <4>1. m \in Nat /\ n \in Nat
        BY <1>1
      <4> QED BY <4>1
    <3>2. h[k + 1] = h[k] \o BitsOf[c[k + 1]] /\ f[k + 1] = f[k] \o BitsOf[a[k + 1]]
      BY <3>1, <1>2, <1>4
    <3>3. c[k + 1] = a[k + 1] /\ h[k] = f[k]
      BY <3>1, <1>1
    <3>4. h[k + 1] = f[k + 1] /\ k + 1 \in 0..m
      BY <3>1, <3>2, <3>3
    <3> QED BY <3>4
  <2> HIDE DEF T
  <2>3. 0..m \subseteq T
    BY <1>1, <2>1, <2>2, InductUpTo
  <2> QED BY <1>1, <2>3 DEF T
<1>6. h[m + n] = f[m] \o g[n]
  <2> DEFINE T == {k \in 0..n : h[m + k] = f[m] \o g[k]}
  <2>1. 0 \in T
    <3>1. f[m] \in Seq(Symbols) /\ m + 0 = m /\ 0 \in 0..n
      BY <1>1
    <3>2. f[m] \o <<>> = f[m]
      BY <3>1
    <3> QED BY <3>1, <3>2, <1>3, <1>5
  <2>2. \A k \in 0..n - 1 : k \in T => k + 1 \in T
    <3> SUFFICES ASSUME NEW k \in 0..n - 1, k \in T PROVE k + 1 \in T
      OBVIOUS
    <3>1. /\ k \in 0..n /\ k + 1 \in 1..n /\ (k + 1) - 1 = k
          /\ m + (k + 1) \in 1..m + n /\ (m + (k + 1)) - 1 = m + k
      BY <1>1
    <3>2. h[m + (k + 1)] = h[m + k] \o BitsOf[c[m + (k + 1)]] /\ g[k + 1] = g[k] \o BitsOf[b[k + 1]]
      BY <3>1, <1>3, <1>4
    <3>3. c[m + (k + 1)] = b[k + 1] /\ b[k + 1] \in Octet
      BY <3>1, <1>1 DEF n
    <3>4. f[m] \in Seq(Symbols) /\ g[k] \in Seq(Symbols) /\ BitsOf[b[k + 1]] \in Seq(Symbols)
      <4>1. m \in 0..m
        BY <1>1
      <4> QED BY <4>1, <3>1, <3>3, OctetIsRead
    <3>5. (f[m] \o g[k]) \o BitsOf[b[k + 1]] = f[m] \o (g[k] \o BitsOf[b[k + 1]])
      BY <3>4, Associative
    <3>6. h[m + k] = f[m] \o g[k]
      OBVIOUS
    <3>7. h[m + (k + 1)] = f[m] \o g[k + 1]
      BY <3>2, <3>3, <3>5, <3>6
    <3>8. k + 1 \in 0..n
      BY <3>1
    <3> QED BY <3>7, <3>8
  <2> HIDE DEF T
  <2>3. 0..n \subseteq T
    BY <1>1, <2>1, <2>2, InductUpTo
  <2> QED BY <1>1, <2>3 DEF T
<1>7. f[m] \in Seq(Symbols) /\ g[n] \in Seq(Symbols)
  BY <1>1
<1> QED BY <1>1, <1>2, <1>3, <1>4, <1>6, <1>7 DEF c

-----------------------------------------------------------------------------
\* Bits and windows.

ImageBits(img) == [k \in 1..8 * Len(img) |-> Bit(img[(k - 1) \div 8 + 1], (k - 1) % 8)]

\* Arithmetic of quotients and remainders: a quotient is divided again;
LEMMA DivideTwice ==
  ASSUME NEW x \in Nat, NEW a \in Nat \ {0}, NEW b \in Nat \ {0}
  PROVE  (x \div a) \div b = x \div (a * b)
OBVIOUS

\* a multiple of the divisor comes out of the quotient;
LEMMA DivideSum ==
  ASSUME NEW x \in Nat, NEW y \in Nat, NEW a \in Nat \ {0}
  PROVE  (x + a * y) \div a = (x \div a) + y
OBVIOUS

\* an even number does not change the parity;
LEMMA ParityOfSum ==
  ASSUME NEW x \in Nat, NEW y \in Nat
  PROVE  (x + 2 * y) % 2 = x % 2
OBVIOUS

\* nor does it matter for the parity of a quotient that a multiple of twice
\* the divisor was taken away before.
LEMMA DivideRemainder ==
  ASSUME NEW x \in Nat, NEW a \in Nat \ {0}, NEW b \in Nat \ {0}
  PROVE  ((x % (a * (2 * b))) \div a) % 2 = (x \div a) % 2
<1> DEFINE m == a * (2 * b)
           q == x \div m
           r == x % m
<1>1. m \in Nat \ {0}
  OBVIOUS
<1>2. x = m * q + r /\ q \in Nat /\ r \in Nat
  <2> HIDE DEF m
  <2> QED BY <1>1
<1> DEFINE z == 2 * (b * q)
           y == b * q
<1>3. m * q = a * z /\ y \in Nat /\ z \in Nat /\ z = 2 * y
  <2> HIDE DEF q, r
  <2> QED BY <1>2
<1> HIDE DEF m, q, r, z, y
<1>4. x \div a = (r \div a) + z
  <2>1. x = r + a * z
    <3> DEFINE u == m * q
               v == a * z
    <3>1. u = v /\ x = u + r /\ v \in Nat /\ r \in Nat
      BY <1>2, <1>3
    <3> HIDE DEF u, v
    <3>2. x = r + v
      BY <3>1
    <3> QED BY <3>2 DEF v
  <2>2. (r + a * z) \div a = (r \div a) + z
    BY <1>2, <1>3, DivideSum
  <2> QED BY <2>1, <2>2
<1>5. r \div a \in Nat
  BY <1>2
<1>6. (r \div a) % 2 = (x \div a) % 2
  BY <1>3, <1>4, <1>5, ParityOfSum
<1> QED BY <1>6 DEF r, m

\* The powers of two that the encoder divides by.
LEMMA ProductOfPowers ==
  \A k \in 0..11 : \A j \in 0..11 - k : 2 ^ k * 2 ^ j = 2 ^ (k + j)
BY Tables DEF Powers

\* Their values, and each by the one before.
LEMMA PowersOfTwo ==
  /\ \A k \in 0..11 : 2 ^ k \in Nat \ {0}
  /\ 2 ^ 0 = 1 /\ 2 ^ 1 = 2 /\ 2 ^ 8 = 256
  /\ \A k \in 0..10 : 2 ^ (k + 1) = 2 ^ k * 2
<1>1. /\ 2 ^ 0 = 1 /\ 2 ^ 8 = 256 /\ 2 ^ 1 = 2 /\ \A k \in 0..11 : 2 ^ k \in 1..2048
  BY Tables DEF Powers
<1>2. ASSUME NEW k \in 0..10 PROVE 2 ^ (k + 1) = 2 ^ k * 2
  <2>1. k \in 0..11 /\ 1 \in 0..11 - k
    OBVIOUS
  <2>2. 2 ^ k * 2 ^ 1 = 2 ^ (k + 1)
    BY <2>1, ProductOfPowers
  <2> QED BY <2>2, <1>1
<1> QED BY <1>1, <1>2

\* The remainder of a power of two keeps the bits below it.
LEMMA BitOfRemainder ==
  ASSUME NEW x \in Nat, NEW w \in 1..5, NEW k \in 0..w - 1
  PROVE  Bit(x % 2 ^ w, k) = Bit(x, k)
<1> DEFINE a == 2 ^ k
           j == w - k - 1
           b == 2 ^ j
<1>1. k \in 0..11 /\ j \in 0..10 /\ j + 1 \in 0..11 - k /\ k + (j + 1) = w /\ j \in 0..11
  OBVIOUS
<1>2. a \in Nat \ {0} /\ b \in Nat \ {0}
  BY <1>1, PowersOfTwo
<1>3. 2 ^ w = a * 2 ^ (j + 1) /\ 2 ^ (j + 1) = b * 2
  <2>1. 2 ^ k * 2 ^ (j + 1) = 2 ^ (k + (j + 1))
    BY <1>1, ProductOfPowers
  <2> QED BY <2>1, <1>1, PowersOfTwo
<1>4. 2 ^ w = a * (2 * b)
  <2> HIDE DEF a, b
  <2> QED BY <1>2, <1>3
<1>5. ((x % (a * (2 * b))) \div a) % 2 = (x \div a) % 2
  <2> HIDE DEF a, b
  <2> QED BY <1>2, DivideRemainder
<1> QED BY <1>4, <1>5 DEF Bit

\* A number divided by a power of two is its bits from there.
LEMMA BitOfQuotient ==
  ASSUME NEW x \in Nat, NEW s \in 0..7, NEW k \in 0..4
  PROVE  Bit(x \div 2 ^ s, k) = Bit(x, s + k)
<1>1. s \in 0..11 /\ k \in 0..11 - s /\ k \in 0..11
  OBVIOUS
<1>2. 2 ^ s \in Nat \ {0} /\ 2 ^ k \in Nat \ {0} /\ 2 ^ s * 2 ^ k = 2 ^ (s + k)
  BY <1>1, PowersOfTwo, ProductOfPowers
<1>3. (x \div 2 ^ s) \div 2 ^ k = x \div (2 ^ s * 2 ^ k)
  BY <1>2, DivideTwice
<1> QED BY <1>2, <1>3 DEF Bit

\* Two bytes side by side.
LEMMA BitOfPair ==
  ASSUME NEW x \in Octet, NEW y \in Octet, NEW k \in 0..11
  PROVE  Bit(x + 256 * y, k) = IF k < 8 THEN Bit(x, k) ELSE Bit(y, k - 8)
<1> DEFINE a == 2 ^ k
<1>1. x \in Nat /\ y \in Nat /\ x < 256
  BY DEF Octet
<1>2. CASE k < 8
  <2> DEFINE j == 8 - k - 1
             b == 2 ^ j
             z == b * y
  <2>1. j \in 0..11 /\ j \in 0..10 /\ j + 1 \in 0..11 - k /\ k + (j + 1) = 8
    BY <1>2
  <2>2. a \in Nat \ {0} /\ b \in Nat \ {0}
    BY <2>1, PowersOfTwo
  <2>3. 2 ^ (j + 1) = b * 2
    BY <2>1, PowersOfTwo
  <2>9. 256 = a * 2 ^ (j + 1)
    <3>1. 2 ^ k * 2 ^ (j + 1) = 2 ^ (k + (j + 1))
      BY <2>1, ProductOfPowers
    <3> QED BY <3>1, <2>1, PowersOfTwo
  <2>4. 256 * y = a * (2 * z) /\ z \in Nat
    <3> HIDE DEF a, b
    <3> QED BY <2>2, <2>3, <2>9, <1>1
  <2> HIDE DEF a, b, z
  <2>5. (x + a * (2 * z)) \div a = (x \div a) + 2 * z
    <3> DEFINE u == 2 * z
    <3>1. u \in Nat
      BY <2>4
    <3> HIDE DEF u
    <3>2. (x + a * u) \div a = (x \div a) + u
      BY <3>1, <1>1, <2>2, DivideSum
    <3> QED BY <3>2 DEF u
  <2>6. x \div a \in Nat
    BY <1>1, <2>2
  <2>7. ((x \div a) + 2 * z) % 2 = (x \div a) % 2
    BY <2>4, <2>6, ParityOfSum
  <2>8. ((x + 256 * y) \div a) % 2 = (x \div a) % 2
    BY <2>4, <2>5, <2>7
  <2> QED BY <2>8, <1>2 DEF Bit, a
<1>3. CASE ~(k < 8)
  <2>1. 8 \in 0..11 /\ k - 8 \in 0..11 - 8 /\ 8 + (k - 8) = k /\ k - 8 \in 0..11
    BY <1>3
  <2>2. 2 ^ k = 256 * 2 ^ (k - 8) /\ 2 ^ (k - 8) \in Nat \ {0}
    <3>1. 2 ^ 8 * 2 ^ (k - 8) = 2 ^ (8 + (k - 8))
      BY <2>1, ProductOfPowers
    <3> QED BY <3>1, <2>1, PowersOfTwo
  <2>3. (x + 256 * y) \div 256 = y
    BY <1>1
  <2>4. x + 256 * y \in Nat
    BY <1>1
  <2>5. ((x + 256 * y) \div 256) \div 2 ^ (k - 8) = (x + 256 * y) \div (256 * 2 ^ (k - 8))
    BY <2>2, <2>4, DivideTwice
  <2> QED BY <2>2, <2>3, <2>5, <1>3 DEF Bit
<1> QED BY <1>2, <1>3

\* The bits of a window are those of the image, as long as they are of it.
LEMMA BitOfWindow ==
  ASSUME NEW img \in Seq(Octet), NEW beyond \in Octet, NEW i \in Nat, NEW w \in 1..5,
         NEW k \in 0..w - 1, i + k < 8 * Len(img)
  PROVE  Bit(Window(img, i, w, beyond), k) = ImageBits(img)[i + k + 1]
<1> DEFINE byte(j) == IF j < Len(img) THEN img[j + 1] ELSE beyond
           q == i \div 8
           s == i % 8
           x == byte(q)
           y == byte(q + 1)
           N == x + 256 * y
<1>0. Len(img) \in Nat
  OBVIOUS
<1>1. i = 8 * q + s /\ q \in Nat /\ s \in 0..7 /\ k \in 0..4 /\ s + k \in 0..11
  OBVIOUS
<1>2. \A j \in Nat : byte(j) \in Octet
  <2> SUFFICES ASSUME NEW j \in Nat PROVE byte(j) \in Octet
    OBVIOUS
  <2>1. CASE j < Len(img)
    <3>1. j + 1 \in 1..Len(img)
      BY <2>1, <1>0
    <3> QED BY <3>1, <2>1
  <2> QED BY <2>1
<1>3. x \in Octet /\ y \in Octet
  <2> HIDE DEF byte
  <2>1. q + 1 \in Nat
    BY <1>1
  <2> QED BY <1>1, <1>2, <2>1
<1>4. Window(img, i, w, beyond) = (N \div 2 ^ s) % 2 ^ w
  BY DEF Window
<1> HIDE DEF q, s
<1>5. N \in Nat /\ N \div 2 ^ s \in Nat
  <2>1. N \in Nat
    <3> HIDE DEF x, y
    <3> QED BY <1>3 DEF Octet
  <2> HIDE DEF N
  <2>2. 2 ^ s \in Nat \ {0}
    <3>1. s \in 0..11
      BY <1>1
    <3> QED BY <3>1, PowersOfTwo
  <2> QED BY <2>1, <2>2
<1>6. Bit(Window(img, i, w, beyond), k) = Bit(N, s + k)
  <2> HIDE DEF N
  <2>1. Bit((N \div 2 ^ s) % 2 ^ w, k) = Bit(N \div 2 ^ s, k)
    <3> DEFINE v == N \div 2 ^ s
    <3>1. v \in Nat
      BY <1>5
    <3> HIDE DEF v
    <3>2. Bit(v % 2 ^ w, k) = Bit(v, k)
      BY <3>1, BitOfRemainder
    <3> QED BY <3>2 DEF v
  <2>2. Bit(N \div 2 ^ s, k) = Bit(N, s + k)
    BY <1>1, <1>5, BitOfQuotient
  <2> QED BY <1>4, <2>1, <2>2
<1>7. Bit(N, s + k) = IF s + k < 8 THEN Bit(x, s + k) ELSE Bit(y, s + k - 8)
  <2> HIDE DEF x, y
  <2> QED BY <1>1, <1>3, BitOfPair
<1>8. ImageBits(img)[i + k + 1] = Bit(img[(i + k) \div 8 + 1], (i + k) % 8)
  <2>1. i + k + 1 \in 1..8 * Len(img) /\ (i + k + 1) - 1 = i + k
    BY <1>0
  <2> QED BY <2>1 DEF ImageBits
<1>9. CASE s + k < 8
  <2>1. (i + k) \div 8 = q /\ (i + k) % 8 = s + k /\ q < Len(img)
    BY <1>0, <1>1, <1>9
  <2> QED BY <2>1, <1>6, <1>7, <1>8, <1>9
<1>10. CASE ~(s + k < 8)
  <2>1. (i + k) \div 8 = q + 1 /\ (i + k) % 8 = s + k - 8 /\ q + 1 < Len(img)
    BY <1>0, <1>1, <1>10
  <2> QED BY <2>1, <1>6, <1>7, <1>8, <1>10
<1> QED BY <1>9, <1>10

-----------------------------------------------------------------------------
\* The encoder.

\* Sequences with the same length and entries are equal.
LEMMA SameSequence ==
  ASSUME NEW S, NEW s \in Seq(S), NEW t \in Seq(S), Len(s) = Len(t),
         \A k \in 1..Len(s) : s[k] = t[k]
  PROVE  s = t
<1>1. s = [k \in 1..Len(s) |-> s[k]] /\ t = [k \in 1..Len(t) |-> t[k]]
  OBVIOUS
<1> QED BY <1>1

\* A sequence that begins with a and goes on with b to its end is a \o b.
LEMMA Joined ==
  ASSUME NEW a \in Seq(Symbols), NEW b \in Seq(Symbols), NEW s \in Seq(Symbols),
         Len(s) = Len(a) + Len(b),
         \A k \in 1..Len(a) : s[k] = a[k],
         \A k \in 1..Len(b) : s[Len(a) + k] = b[k]
  PROVE  a \o b = s
<1> DEFINE t == a \o b
<1>1. /\ t \in Seq(Symbols) /\ Len(t) = Len(a) + Len(b)
      /\ Len(a) \in Nat /\ Len(b) \in Nat
      /\ \A k \in 1..Len(a) : t[k] = a[k]
      /\ \A k \in 1..Len(b) : t[Len(a) + k] = b[k]
  BY Concatenation
<1> HIDE DEF t
<1>2. ASSUME NEW k \in 1..Len(s) PROVE t[k] = s[k]
  <2>1. CASE k <= Len(a)
    <3>1. k \in 1..Len(a)
      BY <1>1, <2>1
    <3> QED BY <1>1, <3>1
  <2>2. CASE ~(k <= Len(a))
    <3>1. k - Len(a) \in 1..Len(b) /\ Len(a) + (k - Len(a)) = k
      BY <1>1, <2>2
    <3>2. t[Len(a) + (k - Len(a))] = s[Len(a) + (k - Len(a))]
      BY <1>1, <3>1
    <3> QED BY <3>1, <3>2
  <2> QED BY <2>1, <2>2
<1>3. t = s
  BY <1>1, <1>2, SameSequence
<1> QED BY <1>3 DEF t

\* What the loop of EncodeBytes does at bit i: so many bits, and their row.
WidthAt(img, i) == IF 8 * Len(img) - i > 5 THEN 5 ELSE 8 * Len(img) - i
RowAt(img, beyond, i) ==
  PDSTx(Window(img, i, WidthAt(img, i), beyond), WidthAt(img, i))

\* The bits of the image behind the first i.
Rest(img, i) == [k \in 1..8 * Len(img) - i |-> ImageBits(img)[i + k]]

\* The bits of an image, and those behind any place, are a sequence of bits.
LEMMA RestIsSymbols ==
  ASSUME NEW img \in Seq(Octet), NEW i \in 0..8 * Len(img)
  PROVE  /\ ImageBits(img) \in [1..8 * Len(img) -> Symbols]
         /\ Rest(img, i) \in Seq(Symbols) /\ Len(Rest(img, i)) = 8 * Len(img) - i
<1>2. Len(img) \in Nat
  OBVIOUS
<1>3. ASSUME NEW k \in 1..8 * Len(img)
      PROVE  Bit(img[(k - 1) \div 8 + 1], (k - 1) % 8) \in Symbols
  <2> DEFINE b == img[(k - 1) \div 8 + 1]
             p == 2 ^ ((k - 1) % 8)
  <2>1. (k - 1) \div 8 + 1 \in 1..Len(img) /\ k - 1 \in Nat
    BY <1>2
  <2>2. b \in Nat /\ p \in Nat \ {0}
    <3>1. b \in Octet
      BY <2>1
    <3>2. p \in Nat \ {0}
      <4>1. (k - 1) % 8 \in 0..11
        BY <2>1
      <4> QED BY <4>1, PowersOfTwo
    <3>3. \A o \in Octet : o \in Nat
      BY DEF Octet
    <3> HIDE DEF b, p
    <3> QED BY <3>1, <3>2, <3>3
  <2> HIDE DEF b, p
  <2>3. (b \div p) % 2 \in {0, 1}
    BY <2>2
  <2> QED BY <2>3 DEF Bit, Symbols, b, p
<1>4. ImageBits(img) \in [1..8 * Len(img) -> Symbols]
  BY <1>3 DEF ImageBits
<1> DEFINE n == 8 * Len(img)
<1>5. n - i \in Nat /\ \A k \in 1..n - i : i + k \in 1..n
  BY <1>2
<1>6. Rest(img, i) \in [1..n - i -> Symbols]
  BY <1>4, <1>5 DEF Rest
<1> HIDE DEF n
<1> QED BY <1>4, <1>5, <1>6 DEF n

\* A row stands for the next bits of the image, whatever lies behind it.
LEMMA RowIsRight ==
  ASSUME NEW img \in Seq(Octet), NEW beyond \in Octet, NEW i \in 0..8 * Len(img) - 1
  PROVE  LET row == RowAt(img, beyond, i)
         IN  /\ row[1] \in Octet /\ row[2] \in 1..8 * Len(img) - i
             /\ BitsOf[row[1]] = [k \in 1..row[2] |-> ImageBits(img)[i + k]]
<1> DEFINE w == WidthAt(img, i)
           v == Window(img, i, w, beyond)
           row == PDSTx(v, w)
<1>1. w \in 1..5 /\ i + w <= 8 * Len(img) /\ Len(img) \in Nat /\ i \in Nat
  BY DEF WidthAt
<1> HIDE DEF w
<1>2. v \in 0..2 ^ w - 1
  <2> DEFINE byte(j) == IF j < Len(img) THEN img[j + 1] ELSE beyond
             N == byte(i \div 8) + 256 * byte(i \div 8 + 1)
             p == 2 ^ (i % 8)
             q == 2 ^ w
             u == N \div p
  <2>1. ASSUME NEW j \in Nat PROVE byte(j) \in Nat
    <3>1. CASE j < Len(img)
      <4>1. j + 1 \in 1..Len(img)
        BY <1>1, <3>1
      <4>2. img[j + 1] \in Octet
        BY <4>1
      <4>3. byte(j) = img[j + 1]
        BY <3>1
      <4>4. \A o \in Octet : o \in Nat
        BY DEF Octet
      <4> HIDE DEF byte
      <4> QED BY <4>2, <4>3, <4>4
    <3> QED BY <3>1 DEF Octet
  <2>2. N \in Nat
    <3> HIDE DEF byte
    <3>1. i \div 8 \in Nat /\ i \div 8 + 1 \in Nat
      BY <1>1
    <3>2. byte(i \div 8) \in Nat /\ byte(i \div 8 + 1) \in Nat
      BY <2>1, <3>1
    <3> QED BY <3>2
  <2>3. p \in Nat \ {0} /\ q \in Nat \ {0}
    <3>1. i % 8 \in 0..11 /\ w \in 0..11
      BY <1>1
    <3> QED BY <3>1, PowersOfTwo
  <2>4. v = u % q
    BY DEF Window
  <2>5. u \in Nat
    <3> HIDE DEF N, p
    <3> QED BY <2>2, <2>3
  <2>6. u % q \in 0..q - 1
    <3> HIDE DEF u, q
    <3> QED BY <2>3, <2>5
  <2> QED BY <2>4, <2>6
<1>3. RowIsRead(v, w)
  <2> HIDE DEF v
  <2> QED BY <1>1, <1>2, Tables DEF Rows
<1>4. /\ row[1] \in Octet /\ row[2] \in 1..w
      /\ BitsOf[row[1]] = [k \in 1..row[2] |-> Bit(v, k - 1)]
  <2> HIDE DEF v
  <2> QED BY <1>3 DEF RowIsRead, Octet
<1>5. row = RowAt(img, beyond, i)
  BY DEF RowAt, w
<1>6. \A k \in 1..w : Bit(v, k - 1) = ImageBits(img)[i + k]
  <2> SUFFICES ASSUME NEW k \in 1..w PROVE Bit(v, k - 1) = ImageBits(img)[i + k]
    OBVIOUS
  <2>1. k - 1 \in 0..w - 1 /\ i + (k - 1) < 8 * Len(img) /\ i + (k - 1) + 1 = i + k
    BY <1>1
  <2>2. Bit(v, k - 1) = ImageBits(img)[i + (k - 1) + 1]
    BY <1>1, <2>1, BitOfWindow
  <2> QED BY <2>1, <2>2
<1> HIDE DEF v, row
<1>7. \A k \in 1..row[2] : k \in 1..w
  BY <1>1, <1>4
<1>8. row[2] \in 1..8 * Len(img) - i
  BY <1>1, <1>4
<1>9. BitsOf[row[1]] = [k \in 1..row[2] |-> ImageBits(img)[i + k]]
  BY <1>4, <1>6, <1>7
<1> QED BY <1>4, <1>5, <1>8, <1>9

\* EncodeBytes makes one step after another: the function it is defined by
\* exists, for a row stands for at least one bit and never goes past the end.
LEMMA EncodingSteps ==
  ASSUME NEW img \in Seq(Octet), NEW beyond \in Octet
  PROVE  \E g \in [0..8 * Len(img) -> Seq(Octet)] :
           /\ EncodeBytes(img, beyond) = g[0] /\ g[8 * Len(img)] = <<>>
           /\ \A i \in 0..8 * Len(img) - 1 :
                LET row == RowAt(img, beyond, i) IN g[i] = <<row[1]>> \o g[i + row[2]]
<1> DEFINE n == 8 * Len(img)
           F(f) == [i \in 0..n |->
                      IF i = n THEN <<>>
                      ELSE LET w    == IF n - i > 5 THEN 5 ELSE n - i
                               code == PDSTx(Window(img, i, w, beyond), w)
                           IN  <<code[1]>> \o f[i + code[2]]]
           G(f) == [i \in 0..n |->
                      IF i = n THEN <<>>
                      ELSE <<RowAt(img, beyond, i)[1]>> \o f[i + RowAt(img, beyond, i)[2]]]
           u == CHOOSE f : f = F(f)
           next == [i \in 0..n - 1 |-> i + RowAt(img, beyond, i)[2]]
           step == [i \in 0..n - 1 |->
                      [s \in Seq(Octet) |-> <<RowAt(img, beyond, i)[1]>> \o s]]
<1>1. n \in Nat
  OBVIOUS
<1>2. \A f : F(f) = G(f)
  BY DEF RowAt, WidthAt
<1>3. EncodeBytes(img, beyond) = u[0]
  BY DEF EncodeBytes
<1>4. \A i \in 0..n - 1 : /\ RowAt(img, beyond, i)[1] \in Octet
                          /\ RowAt(img, beyond, i)[2] \in 1..n - i
  BY RowIsRight
<1> HIDE DEF n
<1>5. next \in [0..n - 1 -> 0..n] /\ \A i \in 0..n - 1 : next[i] > i
  BY <1>1, <1>4
<1>6. step \in [0..n - 1 -> [Seq(Octet) -> Seq(Octet)]]
  <2>1. \A c \in Octet, s \in Seq(Octet) : <<c>> \o s \in Seq(Octet)
    OBVIOUS
  <2> QED BY <2>1, <1>4
<1>7. \E g \in [0..n -> Seq(Octet)] : IsDescent(g, n, <<>>, next, step)
  <2> HIDE DEF next, step
  <2>1. <<>> \in Seq(Octet)
    OBVIOUS
  <2> QED BY <2>1, <1>1, <1>5, <1>6, DescentExists
<1>8. PICK g \in [0..n -> Seq(Octet)] : IsDescent(g, n, <<>>, next, step)
  BY <1>7
<1>9. g = G(g)
  <2>1. \A i \in 0..n - 1 : g[next[i]] \in Seq(Octet)
    <3> HIDE DEF next
    <3> QED BY <1>5
  <2>2. \A i \in 0..n - 1 : step[i][g[next[i]]] = <<RowAt(img, beyond, i)[1]>> \o g[next[i]]
    <3> HIDE DEF next
    <3> QED BY <2>1
  <2>3. \A i \in 0..n : g[i] = G(g)[i]
    <3>1. \A i \in 0..n : i = n \/ i \in 0..n - 1
      BY <1>1
    <3>2. \A i \in 0..n : g[i] = IF i = n THEN <<>> ELSE step[i][g[next[i]]]
      <4> HIDE DEF next, step
      <4> QED BY <1>8 DEF IsDescent
    <3>3. \A i \in 0..n - 1 : next[i] = i + RowAt(img, beyond, i)[2]
      OBVIOUS
    <3> HIDE DEF next, step
    <3> QED BY <3>1, <3>2, <3>3, <2>2
  <2>4. g = [i \in 0..n |-> g[i]]
    OBVIOUS
  <2> QED BY <2>3, <2>4
<1>10. u = G(u)
  <2>1. g = F(g)
    <3> HIDE DEF F, G
    <3> QED BY <1>2, <1>9, Zenon
  <2>2. u = F(u)
    <3> HIDE DEF F
    <3> QED BY <2>1, Zenon
  <2> HIDE DEF F, G, u
  <2> QED BY <1>2, <2>2, Zenon
<1> HIDE DEF u
<1>11. /\ u[n] = <<>>
       /\ \A i \in 0..n - 1 : u[i] = <<RowAt(img, beyond, i)[1]>> \o u[i + RowAt(img, beyond, i)[2]]
  <2>1. n \in 0..n /\ \A i \in 0..n - 1 : i \in 0..n /\ i # n
    BY <1>1
  <2>2. \A i \in 0..n : u[i] = G(u)[i]
    <3> HIDE DEF G
    <3> QED BY <1>10, Zenon
  <2> QED BY <2>1, <2>2
<1>12. u \in [0..n -> Seq(Octet)]
  <2> DEFINE T == {m \in 0..n : \A i \in n - m..n : u[i] \in Seq(Octet)}
  <2>1. 0 \in T
    <3>1. \A i \in n - 0..n : i = n
      BY <1>1
    <3>2. <<>> \in Seq(Octet) /\ 0 \in 0..n
      BY <1>1
    <3> QED BY <3>1, <3>2, <1>11
  <2>2. \A m \in 0..n - 1 : m \in T => m + 1 \in T
    <3> SUFFICES ASSUME NEW m \in 0..n - 1, m \in T, NEW i \in n - (m + 1)..n
                 PROVE  u[i] \in Seq(Octet)
      <4>1. \A m \in 0..n - 1 : m + 1 \in 0..n
        BY <1>1
      <4> QED BY <4>1
    <3>1. CASE i \in n - m..n
      BY <3>1
    <3>2. CASE i \notin n - m..n
      <4>1. i \in 0..n - 1 /\ i = n - (m + 1)
        BY <1>1, <3>2
      <4>2. i + RowAt(img, beyond, i)[2] \in n - m..n
        BY <1>1, <1>4, <4>1
      <4>3. u[i + RowAt(img, beyond, i)[2]] \in Seq(Octet)
        BY <4>2
      <4>4. RowAt(img, beyond, i)[1] \in Octet
        BY <4>1, <1>4
      <4>5. \A c \in Octet, s \in Seq(Octet) : <<c>> \o s \in Seq(Octet)
        OBVIOUS
      <4>6. u[i] = <<RowAt(img, beyond, i)[1]>> \o u[i + RowAt(img, beyond, i)[2]]
        BY <4>1, <1>11
      <4> QED BY <4>3, <4>4, <4>5, <4>6
    <3> QED BY <3>1, <3>2
  <2> HIDE DEF T
  <2>3. 0..n \subseteq T
    BY <1>1, <2>1, <2>2, InductUpTo
  <2>4. \A i \in 0..n : u[i] \in Seq(Octet)
    <3>1. n \in T
      BY <1>1, <2>3
    <3> QED BY <1>1, <3>1 DEF T
  <2>5. u = [i \in 0..n |-> u[i]]
    BY <1>10
  <2> QED BY <2>4, <2>5
<1> QED BY <1>3, <1>11, <1>12 DEF n

\* The ROM reads the bits of the image, all of them and no others; and the
\* buffer that EncodeBytes writes to, a byte for every bit, is large enough.
THEOREM EncodingIsRead ==
  ASSUME NEW img \in Seq(Octet), NEW beyond \in Octet
  PROVE  /\ EncodeBytes(img, beyond) \in Seq(Octet)
         /\ Read(EncodeBytes(img, beyond)) = ImageBits(img)
         /\ Len(EncodeBytes(img, beyond)) <= 8 * Len(img)
<1> DEFINE n == 8 * Len(img)
           row(i) == RowAt(img, beyond, i)
           rest(i) == Rest(img, i)
<1>1. n \in Nat
  OBVIOUS
<1>2. PICK g \in [0..n -> Seq(Octet)] :
        /\ EncodeBytes(img, beyond) = g[0] /\ g[n] = <<>>
        /\ \A i \in 0..n - 1 : g[i] = <<row(i)[1]>> \o g[i + row(i)[2]]
  BY EncodingSteps
<1>3. \A i \in 0..n - 1 : /\ row(i)[1] \in Octet /\ row(i)[2] \in 1..n - i
                          /\ BitsOf[row(i)[1]] = [k \in 1..row(i)[2] |-> ImageBits(img)[i + k]]
  BY RowIsRight
<1>4. \A i \in 0..n : rest(i) \in Seq(Symbols) /\ Len(rest(i)) = n - i
  BY RestIsSymbols
<1>5. \A i \in 0..n : \A k \in 1..n - i : rest(i)[k] = ImageBits(img)[i + k]
  BY DEF Rest
<1> HIDE DEF n, row, rest
<1> DEFINE Good(i) == Read(g[i]) = rest(i) /\ Len(g[i]) <= n - i
           T == {m \in 0..n : \A i \in n - m..n : Good(i)}
<1>6. Good(n)
  <2>1. Read(<<>>) = <<>>
    <3>1. <<>> \in Seq(Octet) /\ Len(<<>>) = 0
      OBVIOUS
    <3>2. \E f \in [0..Len(<<>>) -> Seq(Symbols)] : f[0] = <<>> /\ Read(<<>>) = f[Len(<<>>)]
      BY <3>1, ReadSteps
    <3> QED BY <3>1, <3>2
  <2>2. n \in 0..n /\ n - n = 0
    BY <1>1
  <2>3. rest(n) \in Seq(Symbols) /\ Len(rest(n)) = 0
    BY <1>4, <2>2
  <2>4. rest(n) = <<>>
    BY <2>3
  <2> QED BY <1>2, <2>1, <2>2, <2>4
<1>7. ASSUME NEW i \in 0..n - 1, Good(i + row(i)[2])
      PROVE  Good(i)
  <2> DEFINE c == row(i)[1]
             l == row(i)[2]
             j == i + l
  <2>1. /\ c \in Octet /\ l \in 1..n - i /\ j \in 0..n /\ i \in 0..n /\ l \in Nat
        /\ BitsOf[c] = [k \in 1..l |-> ImageBits(img)[i + k]]
        /\ g[i] = <<c>> \o g[j]
    <3>1. c \in Octet /\ l \in 1..n - i /\ BitsOf[c] = [k \in 1..l |-> ImageBits(img)[i + k]]
      BY <1>3
    <3>2. g[i] = <<c>> \o g[j]
      BY <1>2
    <3> HIDE DEF c, l
    <3>3. j \in 0..n /\ i \in 0..n /\ l \in Nat
      BY <1>1, <3>1
    <3> QED BY <3>1, <3>2, <3>3
  <2> HIDE DEF c, l
  <2>2. g[j] \in Seq(Octet) /\ <<c>> \in Seq(Octet) /\ Len(<<c>>) = 1
    BY <2>1
  <2>3. Read(g[i]) = BitsOf[c] \o rest(j)
    <3>1. Read(<<c>> \o g[j]) = Read(<<c>>) \o Read(g[j])
      <4> HIDE DEF j
      <4> QED BY <2>2, ReadParts
    <3>2. Read(<<c>>) = BitsOf[c]
      BY <2>1, ReadOne
    <3>3. Read(g[j]) = rest(j)
      BY <1>7 DEF l
    <3> QED BY <2>1, <3>1, <3>2, <3>3
  <2>4. BitsOf[c] \in Seq(Symbols) /\ Len(BitsOf[c]) = l
    <3>1. BitsOf[c] \in Seq(Symbols)
      BY <2>1, OctetIsRead
    <3>2. DOMAIN BitsOf[c] = 1..l
      BY <2>1
    <3> QED BY <3>1, <3>2, <2>1
  <2>5. /\ rest(i) \in Seq(Symbols) /\ Len(rest(i)) = n - i
        /\ rest(j) \in Seq(Symbols) /\ Len(rest(j)) = n - j
    BY <1>4, <2>1
  <2>6. ASSUME NEW k \in 1..l PROVE rest(i)[k] = BitsOf[c][k]
    <3>1. k \in 1..n - i
      BY <1>1, <2>1
    <3>2. rest(i)[k] = ImageBits(img)[i + k]
      BY <3>1, <2>1, <1>5
    <3>3. BitsOf[c][k] = ImageBits(img)[i + k]
      BY <2>1
    <3> QED BY <3>2, <3>3
  <2>7. ASSUME NEW k \in 1..n - j PROVE rest(i)[l + k] = rest(j)[k]
    <3>1. l + k \in 1..n - i /\ i + (l + k) = j + k
      BY <1>1, <2>1
    <3>2. rest(i)[l + k] = ImageBits(img)[i + (l + k)]
      BY <3>1, <2>1, <1>5
    <3>3. rest(j)[k] = ImageBits(img)[j + k]
      <4> HIDE DEF j
      <4> QED BY <2>1, <1>5
    <3> QED BY <3>1, <3>2, <3>3
  <2>8. l + (n - j) = n - i
    BY <1>1, <2>1
  <2>9. BitsOf[c] \o rest(j) = rest(i)
    <3> DEFINE a == BitsOf[c]
               b == rest(j)
               s == rest(i)
    <3>1. a \in Seq(Symbols) /\ b \in Seq(Symbols) /\ s \in Seq(Symbols)
      BY <2>4, <2>5
    <3>2. Len(a) = l /\ Len(b) = n - j /\ Len(s) = n - i
      BY <2>4, <2>5
    <3>3. (\A k \in 1..l : s[k] = a[k]) /\ (\A k \in 1..n - j : s[l + k] = b[k])
      BY <2>6, <2>7
    <3> HIDE DEF a, b, s, j
    <3>4. a \o b = s
      <4>1. Len(s) = Len(a) + Len(b)
        BY <3>2, <2>8
      <4>2. (\A k \in 1..Len(a) : s[k] = a[k]) /\ (\A k \in 1..Len(b) : s[Len(a) + k] = b[k])
        BY <3>2, <3>3
      <4> QED BY <3>1, <4>1, <4>2, Joined
    <3> QED BY <3>4 DEF a, b, s
  <2>10. Len(g[i]) <= n - i
    <3>1. Len(g[j]) <= n - j /\ Len(g[j]) \in Nat
      BY <1>7, <2>2 DEF l
    <3>2. Len(<<c>> \o g[j]) = 1 + Len(g[j])
      BY <2>2
    <3> QED BY <1>1, <2>1, <3>1, <3>2
  <2> QED BY <2>3, <2>9, <2>10
<1> HIDE DEF Good
<1>8. 0 \in T
  <2>1. \A i \in n - 0..n : i = n
    BY <1>1
  <2>2. 0 \in 0..n
    BY <1>1
  <2> QED BY <1>6, <2>1, <2>2
<1>9. ASSUME NEW m \in 0..n - 1, m \in T PROVE m + 1 \in T
  <2>1. m + 1 \in 0..n /\ \A i \in n - (m + 1)..n : i \in n - m..n \/ (i \in 0..n - 1 /\ i = n - (m + 1))
    BY <1>1
  <2>2. ASSUME NEW i \in 0..n - 1, i = n - (m + 1) PROVE Good(i)
    <3>1. i + row(i)[2] \in n - m..n
      <4>1. row(i)[2] \in 1..n - i
        BY <1>3
      <4> DEFINE l == row(i)[2]
      <4> HIDE DEF l
      <4>2. i + l \in n - m..n
        BY <1>1, <2>2, <4>1 DEF l
      <4> QED BY <4>2 DEF l
    <3>2. Good(i + row(i)[2])
      BY <1>9, <3>1
    <3> QED BY <3>2, <1>7
  <2>3. \A i \in n - m..n : Good(i)
    BY <1>9
  <2> QED BY <2>1, <2>2, <2>3
<1> HIDE DEF T
<1>10. 0..n \subseteq T
  BY <1>1, <1>8, <1>9, InductUpTo
<1>11. Good(0)
  <2>1. n \in T /\ 0 \in n - n..n
    BY <1>1, <1>10
  <2> QED BY <2>1 DEF T
<1>12. rest(0) = ImageBits(img)
  <2>1. rest(0) = [k \in 1..n - 0 |-> ImageBits(img)[0 + k]]
    BY DEF rest, Rest, n
  <2>2. n - 0 = n /\ \A k \in 1..n : 0 + k = k
    BY <1>1
  <2>3. rest(0) = [k \in 1..n |-> ImageBits(img)[k]]
    BY <2>1, <2>2
  <2>4. ImageBits(img) = [k \in 1..n |-> ImageBits(img)[k]]
    BY DEF ImageBits, n
  <2> QED BY <2>3, <2>4
<1>13. n - 0 = n /\ 0 \in 0..n
  BY <1>1
<1> QED BY <1>2, <1>11, <1>12, <1>13 DEF Good, n

-----------------------------------------------------------------------------
\* The packet.

\* A part whose length and entries are those of t is t.
LEMMA PartOf ==
  ASSUME NEW s \in Seq(Symbols), NEW t \in Seq(Symbols), NEW m \in Nat, NEW n \in Nat,
         n = m + Len(t), n <= Len(s), \A k \in 1..Len(t) : s[m + k] = t[k]
  PROVE  SubSeq(s, m + 1, n) = t
<1>1. Len(s) \in Nat /\ Len(t) \in Nat
  OBVIOUS
<1> DEFINE u == SubSeq(s, m + 1, n)
<1>2. /\ u \in Seq(Symbols) /\ Len(u) = Len(t)
      /\ \A k \in 1..Len(t) : u[k] = s[m + k]
  <2>1. \A k \in m + 1..n : k \in 1..Len(s)
    BY <1>1
  <2>2. u = [k \in 1..Len(t) |-> s[m + k]]
    <3>1. u = [k \in 1..n - (m + 1) + 1 |-> s[k + (m + 1) - 1]]
      OBVIOUS
    <3>2. n - (m + 1) + 1 = Len(t) /\ \A k \in 1..Len(t) : k + (m + 1) - 1 = m + k
      BY <1>1
    <3> HIDE DEF u
    <3> QED BY <3>1, <3>2
  <2>3. \A k \in 1..Len(t) : m + k \in 1..Len(s) /\ s[m + k] \in Symbols
    BY <1>1
  <2> QED BY <2>2, <2>3, <1>1
<1> HIDE DEF u
<1>3. u = t
  BY <1>1, <1>2, SameSequence
<1> QED BY <1>3 DEF u

\* Eight bits of an image make its byte.
LEMMA BytesOfImage ==
  ASSUME NEW img \in Seq(Octet)
  PROVE  Bytes(ImageBits(img)) = img
<1> DEFINE E == ImageBits(img)
           n == Len(img)
           octet(k) == [j \in 1..8 |-> Bit(img[k], j - 1)]
<1>1. n \in Nat /\ E \in Seq(Symbols) /\ Len(E) = 8 * n /\ Len(E) \div 8 = n
  <2>1. E \in [1..8 * n -> Symbols] /\ n \in Nat
    <3>1. 0 \in 0..8 * Len(img)
      OBVIOUS
    <3> QED BY <3>1, RestIsSymbols
  <2> HIDE DEF E, n
  <2>2. E \in Seq(Symbols) /\ Len(E) = 8 * n
    BY <2>1
  <2> QED BY <2>1, <2>2
<1>2. ASSUME NEW k \in 1..n PROVE Number(SubSeq(E, 8 * k - 7, 8 * k)) = img[k]
  <2>1. img[k] \in Octet
    OBVIOUS
  <2>2. ASSUME NEW j \in 1..8 PROVE E[8 * (k - 1) + j] = octet(k)[j]
    <3>1. 8 * (k - 1) + j \in 1..8 * n
      BY <1>1
    <3>2. E[8 * (k - 1) + j] = Bit(img[((8 * (k - 1) + j) - 1) \div 8 + 1], ((8 * (k - 1) + j) - 1) % 8)
      <4> DEFINE q == 8 * (k - 1) + j
      <4> HIDE DEF q
      <4>1. E[q] = Bit(img[(q - 1) \div 8 + 1], (q - 1) % 8)
        BY <3>1 DEF ImageBits, q
      <4> QED BY <4>1 DEF q
    <3>3. ((8 * (k - 1) + j) - 1) \div 8 + 1 = k /\ ((8 * (k - 1) + j) - 1) % 8 = j - 1
      BY <1>1
    <3> QED BY <3>2, <3>3
  <2>3. octet(k) \in Seq(Symbols) /\ Len(octet(k)) = 8
    <3> DEFINE o == octet(k)
    <3>1. ASSUME NEW j \in 1..8 PROVE o[j] \in Symbols
      <4>1. 8 * (k - 1) + j \in 1..8 * n
        BY <1>1
      <4>2. E[8 * (k - 1) + j] \in Symbols
        <5> HIDE DEF E, n
        <5> QED BY <1>1, <4>1
      <4> QED BY <4>2, <2>2
    <3>2. o = [j \in 1..8 |-> o[j]]
      OBVIOUS
    <3> HIDE DEF o
    <3>3. o \in Seq(Symbols) /\ Len(o) = 8
      BY <3>1, <3>2
    <3> QED BY <3>3 DEF o
  <2>4. SubSeq(E, 8 * k - 7, 8 * k) = octet(k)
    <3>1. /\ 8 * (k - 1) \in Nat /\ 8 * k \in Nat /\ 8 * k = 8 * (k - 1) + 8
          /\ 8 * k <= 8 * n /\ 8 * k - 7 = 8 * (k - 1) + 1
      BY <1>1
    <3> DEFINE o == octet(k)
               m == 8 * (k - 1)
               h == 8 * k
    <3>2. Len(o) = 8 /\ o \in Seq(Symbols) /\ \A j \in 1..8 : E[m + j] = o[j]
      BY <2>2, <2>3
    <3>3. m \in Nat /\ h \in Nat /\ h = m + 8 /\ h <= Len(E) /\ 8 * k - 7 = m + 1
      BY <3>1, <1>1
    <3> HIDE DEF o, m, h, E
    <3>4. SubSeq(E, m + 1, h) = o
      <4>1. h = m + Len(o) /\ \A j \in 1..Len(o) : E[m + j] = o[j]
        BY <3>2, <3>3
      <4> QED BY <4>1, <3>2, <3>3, <1>1, PartOf
    <3> QED BY <3>3, <3>4 DEF o, h
  <2>5. Number(octet(k)) = img[k]
    BY <2>1, Tables DEF Octets, Octet
  <2> QED BY <2>4, <2>5
<1>3. Bytes(E) = [k \in 1..n |-> Number(SubSeq(E, 8 * k - 7, 8 * k))]
  <2> HIDE DEF E, n
  <2> QED BY <1>1 DEF Bytes
<1>4. Bytes(E) = [k \in 1..n |-> img[k]]
  <2> HIDE DEF E, n
  <2> QED BY <1>2, <1>3
<1>5. img = [k \in 1..n |-> img[k]]
  OBVIOUS
<1> QED BY <1>4, <1>5

\* A part of a sequence that ends where another one does is a part of that.
LEMMA PartOfStart ==
  ASSUME NEW g \in Seq(Symbols), NEW s \in Seq(Symbols), Len(s) >= Len(g),
         \A k \in 1..Len(g) : s[k] = g[k],
         NEW i \in Nat \ {0}, NEW n \in Nat, i <= n, n <= Len(g)
  PROVE  SubSeq(s, i, n) = SubSeq(g, i, n)
<1> DEFINE m == i - 1
           l == n - m
           t == SubSeq(g, m + 1, n)
<1>0. m \in Nat /\ i = m + 1 /\ l \in Nat /\ n = m + l
  OBVIOUS
<1>1. Len(s) \in Nat /\ Len(g) \in Nat
  OBVIOUS
<1>2. t = [k \in 1..l |-> g[m + k]]
  <2>1. t = [k \in 1..n - (m + 1) + 1 |-> g[k + (m + 1) - 1]]
    OBVIOUS
  <2> HIDE DEF t, m, l
  <2>2. n - (m + 1) + 1 = l /\ \A k \in 1..l : k + (m + 1) - 1 = m + k
    BY <1>0
  <2> QED BY <2>1, <2>2
<1> HIDE DEF t, m, l
<1>3. ASSUME NEW k \in 1..l PROVE m + k \in 1..Len(g) /\ g[m + k] \in Symbols
  <2>1. m + k \in 1..Len(g)
    BY <1>0, <1>1
  <2> QED BY <2>1
<1>4. t \in Seq(Symbols) /\ Len(t) = l
  BY <1>0, <1>2, <1>3
<1>5. ASSUME NEW k \in 1..Len(t) PROVE s[m + k] = t[k]
  BY <1>2, <1>3, <1>4
<1>6. n = m + Len(t) /\ n <= Len(s)
  BY <1>0, <1>1, <1>4
<1>7. SubSeq(s, m + 1, n) = t
  BY <1>0, <1>4, <1>5, <1>6, PartOf
<1> QED BY <1>0, <1>7 DEF t

\* The ROM's reading of the greeting does not depend on what follows it.
LEMMA GreetingStands ==
  ASSUME NEW s \in Seq(Symbols), Len(s) >= Len(Read(txHandshake)),
         \A k \in 1..Len(Read(txHandshake)) : s[k] = Read(txHandshake)[k]
  PROVE  Handshake(s) /\ Continues(s, rxHandshake)
<1> DEFINE g == Read(txHandshake)
<1>1. Len(g) = 768 /\ Handshake(g) /\ Continues(g, rxHandshake)
  BY Tables DEF GreetingIsRead
<1>2. g \in Seq(Symbols)
  <2>1. txHandshake \in Seq(Octet)
    BY Tables DEF GreetingIsRead, Octet
  <2>2. <<>> \in Seq(Octet)
    OBVIOUS
  <2> QED BY <2>1, <2>2, ReadParts
<1> HIDE DEF g
<1>4. Len(s) >= Len(g) /\ \A k \in 1..Len(g) : s[k] = g[k]
  BY DEF g
<1>5. SubSeq(s, 1, 2) = SubSeq(g, 1, 2) /\ SubSeq(s, 3, 252) = SubSeq(g, 3, 252)
  <2>1. \A i \in Nat \ {0}, n \in Nat : i <= n /\ n <= Len(g) => SubSeq(s, i, n) = SubSeq(g, i, n)
    BY <1>2, <1>4, PartOfStart
  <2>2. 2 <= Len(g) /\ 252 <= Len(g) /\ 1 \in Nat \ {0} /\ 3 \in Nat \ {0} /\ 2 \in Nat /\ 252 \in Nat
    BY <1>1
  <2>3. 1 <= 2 /\ 3 <= 252
    OBVIOUS
  <2> QED BY <2>1, <2>2, <2>3, Zenon
<1>6. \A k \in 1..516 : s[252 + k] = g[252 + k]
  <2> SUFFICES ASSUME NEW k \in 1..516 PROVE s[252 + k] = g[252 + k]
    OBVIOUS
  <2>1. 252 + k \in 1..Len(g)
    BY <1>1
  <2> QED BY <2>1, <1>4
<1>7. Handshake(s)
  <2>1. /\ SubSeq(g, 1, 2) = <<1, 0>> /\ IterateLFSR(SubSeq(g, 3, 252))
        /\ \A k \in 1..516 : g[252 + k] = k % 2
    BY <1>1 DEF Handshake
  <2>2. \A k \in 1..516 : s[252 + k] = k % 2
    BY <2>1, <1>6
  <2> QED BY <2>1, <2>2, <1>5, Zenon DEF Handshake
<1>8. Continues(s, rxHandshake)
  BY <1>1, <1>5 DEF Continues
<1> QED BY <1>7, <1>8

\* Two parts, one after the other.
LEMMA TwoParts ==
  ASSUME NEW a \in Seq(Symbols), NEW b \in Seq(Symbols), NEW s, s = a \o b
  PROVE  /\ s \in Seq(Symbols) /\ Len(s) = Len(a) + Len(b)
         /\ Len(a) \in Nat /\ Len(b) \in Nat
         /\ \A k \in 1..Len(a) : s[k] = a[k]
         /\ \A k \in 1..Len(b) : s[Len(a) + k] = b[k]
BY Concatenation

\* A part of the first of two sequences,
LEMMA FirstPart ==
  ASSUME NEW a \in Seq(Symbols), NEW b \in Seq(Symbols), NEW s, s = a \o b,
         NEW i \in Nat \ {0}, NEW n \in Nat, i <= n, n <= Len(a)
  PROVE  SubSeq(s, i, n) = SubSeq(a, i, n)
<1>1. /\ s \in Seq(Symbols) /\ Len(s) = Len(a) + Len(b)
      /\ Len(a) \in Nat /\ Len(b) \in Nat
      /\ \A k \in 1..Len(a) : s[k] = a[k]
  BY TwoParts
<1>2. Len(s) >= Len(a)
  BY <1>1
<1> QED BY <1>1, <1>2, PartOfStart

\* and the second one as a whole.
LEMMA SecondPart ==
  ASSUME NEW a \in Seq(Symbols), NEW b \in Seq(Symbols), NEW s, s = a \o b,
         NEW i \in Nat, NEW n \in Nat, i = Len(a) + 1, n = Len(a) + Len(b)
  PROVE  SubSeq(s, i, n) = b
<1>1. /\ s \in Seq(Symbols) /\ Len(s) = Len(a) + Len(b)
      /\ Len(a) \in Nat /\ Len(b) \in Nat
      /\ \A k \in 1..Len(b) : s[Len(a) + k] = b[k]
  BY TwoParts
<1>2. n <= Len(s)
  BY <1>1
<1>3. SubSeq(s, Len(a) + 1, n) = b
  BY <1>1, <1>2, PartOf
<1> QED BY <1>3

\* Four parts, by the lengths of the first three.
LEMMA FourParts ==
  ASSUME NEW g \in Seq(Symbols), NEW c \in Seq(Symbols), NEW l \in Seq(Symbols),
         NEW e \in Seq(Symbols), NEW s, s = ((g \o c) \o l) \o e,
         NEW i \in Nat, NEW j \in Nat, NEW m \in Nat,
         i = Len(g), j = i + Len(c), m = j + Len(l), i < j, j < m
  PROVE  /\ s \in Seq(Symbols) /\ Len(s) = m + Len(e)
         /\ \A k \in 1..Len(g) : s[k] = g[k]
         /\ SubSeq(s, i + 1, j) = c /\ SubSeq(s, j + 1, m) = l
         /\ \A k \in 1..Len(e) : s[m + k] = e[k]
<1> DEFINE p == g \o c
           q == p \o l
<1>0. s = q \o e
  OBVIOUS
<1>1. p \in Seq(Symbols) /\ Len(p) = j /\ \A k \in 1..Len(g) : p[k] = g[k]
  BY TwoParts
<1> HIDE DEF p
<1>2. q \in Seq(Symbols) /\ Len(q) = m /\ \A k \in 1..Len(p) : q[k] = p[k]
  <2>1. p \in Seq(Symbols)
    BY <1>1
  <2>2. q \in Seq(Symbols) /\ Len(q) = Len(p) + Len(l) /\ \A k \in 1..Len(p) : q[k] = p[k]
    BY <2>1, TwoParts
  <2>3. Len(q) = m
    BY <1>1, <2>2
  <2> QED BY <2>2, <2>3
<1> HIDE DEF q
<1>3. /\ s \in Seq(Symbols) /\ Len(s) = m + Len(e) /\ Len(e) \in Nat
      /\ \A k \in 1..Len(q) : s[k] = q[k]
      /\ \A k \in 1..Len(e) : s[m + k] = e[k]
  <2>1. q \in Seq(Symbols)
    BY <1>2
  <2>2. /\ s \in Seq(Symbols) /\ Len(s) = Len(q) + Len(e) /\ Len(e) \in Nat
        /\ \A k \in 1..Len(q) : s[k] = q[k]
        /\ \A k \in 1..Len(e) : s[Len(q) + k] = e[k]
    BY <1>0, <2>1, TwoParts
  <2>3. Len(s) = m + Len(e) /\ \A k \in 1..Len(e) : s[m + k] = e[k]
    BY <1>2, <2>2
  <2> QED BY <2>2, <2>3
<1>5. ASSUME NEW k \in 1..Len(g) PROVE s[k] = g[k]
  <2>1. k \in 1..Len(p) /\ k \in 1..Len(q)
    BY <1>1, <1>2
  <2> QED BY <2>1, <1>1, <1>2, <1>3
<1>6. SubSeq(s, i + 1, j) = c
  <2>0. i + 1 \in Nat \ {0} /\ i + 1 <= j
    OBVIOUS
  <2>1. SubSeq(p, i + 1, j) = c
    BY SecondPart DEF p
  <2>2. SubSeq(q, i + 1, j) = SubSeq(p, i + 1, j)
    BY <2>0, <1>1, FirstPart DEF q
  <2>3. SubSeq(s, i + 1, j) = SubSeq(q, i + 1, j)
    BY <2>0, <1>0, <1>2, FirstPart
  <2> QED BY <2>1, <2>2, <2>3
<1>7. SubSeq(s, j + 1, m) = l
  <2>0. j + 1 \in Nat \ {0} /\ j + 1 <= m
    OBVIOUS
  <2>1. SubSeq(q, j + 1, m) = l
    BY <1>1, SecondPart DEF q
  <2>2. SubSeq(s, j + 1, m) = SubSeq(q, j + 1, m)
    BY <2>0, <1>0, <1>2, FirstPart
  <2> QED BY <2>1, <2>2
<1> QED BY <1>3, <1>5, <1>6, <1>7

\* All that the ROM reads around a packet.
Line(bytes) == Read(txHandshake) \o Read(bytes) \o Read(Templates)

\* What the ROM makes of bits that are laid out like this.
LEMMA LaidOut ==
  ASSUME NEW bytes, NEW s \in Seq(Symbols),
         s = Line(bytes), ~(Len(s) < 832),
         Len(s) >= Len(Read(txHandshake)),
         \A k \in 1..Len(Read(txHandshake)) : s[k] = Read(txHandshake)[k],
         NEW n, Number(SubSeq(s, 769, 800)) = n,
         NEW longs, Number(SubSeq(s, 801, 832)) = longs,
         NEW img, Bytes(SubSeq(s, 833, 832 + 32 * longs)) = img
  PROVE  Understood(bytes) = [heard |-> TRUE, command |-> n, image |-> img]
<1>1. Handshake(s) /\ Continues(s, rxHandshake)
  BY GreetingStands
<1>2. Understood(bytes)
        = [heard   |-> Continues(s, rxHandshake),
           command |-> Number(SubSeq(s, 769, 800)),
           image   |-> Bytes(SubSeq(s, 833, 832 + 32 * Number(SubSeq(s, 801, 832))))]
  BY <1>1 DEF Understood, Line
<1>3. Continues(s, rxHandshake) = TRUE
  <2>1. Continues(s, rxHandshake) \in BOOLEAN
    BY DEF Continues, IterateLFSR
  <2> QED BY <2>1, <1>1
<1>4. Bytes(SubSeq(s, 833, 832 + 32 * Number(SubSeq(s, 801, 832)))) = img
  OBVIOUS
<1>5. Number(SubSeq(s, 769, 800)) = n
  OBVIOUS
<1> DEFINE h == Continues(s, rxHandshake)
           x == Number(SubSeq(s, 769, 800))
           y == Bytes(SubSeq(s, 833, 832 + 32 * Number(SubSeq(s, 801, 832))))
<1>6. Understood(bytes) = [heard |-> h, command |-> x, image |-> y] /\ h = TRUE /\ x = n /\ y = img
  BY <1>2, <1>3, <1>4, <1>5
<1> HIDE DEF h, x, y
<1> QED BY <1>6

\* The fields before the image.
LEMMA FieldsAreSent ==
  /\ txHandshake \in Seq(Octet) /\ Len(Read(txHandshake)) = 768
  /\ \A l \in Nat : l <= MaxImage => FieldIsRead(LengthField((l + 3) \div 4), (l + 3) \div 4)
<1>1. txHandshake \in Seq(Octet) /\ Len(Read(txHandshake)) = 768
  BY Tables DEF GreetingIsRead, Octet
<1>2. ASSUME NEW l \in Nat, l <= MaxImage
      PROVE  FieldIsRead(LengthField((l + 3) \div 4), (l + 3) \div 4)
  <2>1. (l + 3) \div 4 \in 0..MaxImage \div 4
    BY <1>2 DEF MaxImage
  <2> QED BY <2>1, Tables DEF Fields
<1> QED BY <1>1, <1>2

\* The image with its last long filled up.
LEMMA LastLong ==
  ASSUME NEW img \in Seq(Octet), NEW longs \in Nat, longs = (Len(img) + 3) \div 4
  PROVE  /\ Len(img) \in Nat /\ longs \in Nat /\ 4 * longs \in Len(img)..Len(img) + 3
         /\ Completed(img) \in Seq(Octet) /\ Len(Completed(img)) = 4 * longs
         /\ \A k \in 1..Len(img) : Completed(img)[k] = img[k]
         /\ \A k \in Len(img) + 1..4 * longs : Completed(img)[k] = \h55
<1> DEFINE n == Len(img)
           d == (4 - (n % 4)) % 4
           pad == [k \in 1..d |-> \h55]
           done == img \o pad
<1>1. n \in Nat /\ longs \in Nat /\ d \in Nat /\ n + d = 4 * longs /\ d \in 0..3
  <2>1. n \in Nat
    OBVIOUS
  <2> HIDE DEF n
  <2>2. longs = (n + 3) \div 4
    BY DEF n
  <2> QED BY <2>1, <2>2
<1>2. pad \in Seq(Octet) /\ Len(pad) = d /\ \A k \in 1..d : pad[k] = \h55
  <2>1. \h55 \in Octet
    BY DEF Octet
  <2> HIDE DEF d
  <2> QED BY <1>1, <2>1
<1> HIDE DEF pad, d
<1>3. /\ done \in Seq(Octet) /\ Len(done) = n + d
      /\ \A k \in 1..n : done[k] = img[k]
      /\ \A k \in 1..d : done[n + k] = pad[k]
  <2>1. pad \in Seq(Octet)
    BY <1>2
  <2>2. /\ done \in Seq(Octet) /\ Len(done) = Len(img) + Len(pad)
        /\ \A k \in 1..Len(img) : done[k] = img[k]
        /\ \A k \in 1..Len(pad) : done[Len(img) + k] = pad[k]
    BY <2>1, Concatenation
  <2> HIDE DEF done
  <2> QED BY <1>2, <2>2
<1>4. Completed(img) = done
  BY DEF Completed, pad, d
<1> HIDE DEF done
<1>5. ASSUME NEW k \in n + 1..4 * longs PROVE done[k] = \h55
  <2> HIDE DEF n
  <2>1. k - n \in 1..d /\ n + (k - n) = k
    BY <1>1
  <2>2. done[n + (k - n)] = \h55
    BY <2>1, <1>2, <1>3
  <2> QED BY <2>1, <2>2
<1> QED BY <1>1, <1>3, <1>4, <1>5

\* A function on the first numbers is a sequence,
LEMMA FunctionIsSequence ==
  ASSUME NEW S, NEW m \in Nat, NEW u \in [1..m -> S]
  PROVE  u \in Seq(S) /\ Len(u) = m
OBVIOUS

\* and a bit counted from 1 has the parity of one counted in its byte.
LEMMA ParityInByte ==
  ASSUME NEW k \in Nat, k > 0
  PROVE  (k - 1) % 8 \in 0..7 /\ (((k - 1) % 8) + 1) % 2 = k % 2
<1> DEFINE r == (k - 1) % 8
           q == (k - 1) \div 8
<1>1. q \in Nat /\ r \in 0..7 /\ k - 1 = 8 * q + r
  OBVIOUS
<1> HIDE DEF r, q
<1>2. k = (r + 1) + 2 * (4 * q) /\ r + 1 \in Nat /\ 4 * q \in Nat
  BY <1>1
<1>3. ((r + 1) + 2 * (4 * q)) % 2 = (r + 1) % 2
  BY <1>2, ParityOfSum
<1> QED BY <1>1, <1>2, <1>3 DEF r

\* The bits of the image, and then those of templates, are the bits of the image
\* with its last long filled up.
LEMMA TemplatesComplete ==
  ASSUME NEW img \in Seq(Octet), NEW f, f = ImageBits(img) \o Read(Templates),
         NEW E, E = ImageBits(Completed(img)),
         NEW longs \in Nat, longs = (Len(img) + 3) \div 4
  PROVE  /\ ImageBits(img) \in Seq(Symbols) /\ Read(Templates) \in Seq(Symbols)
         /\ f \in Seq(Symbols) /\ E \in Seq(Symbols) /\ Bytes(E) = Completed(img)
         /\ Len(E) = 32 * longs /\ Len(E) <= Len(f) /\ \A k \in 1..Len(E) : f[k] = E[k]
<1> DEFINE done == Completed(img)
           e == ImageBits(img)
           t == Read(Templates)
           n == Len(img)
<1>1. /\ n \in Nat /\ longs \in Nat /\ 4 * longs \in n..n + 3
      /\ done \in Seq(Octet) /\ Len(done) = 4 * longs
      /\ \A k \in 1..n : done[k] = img[k]
      /\ \A k \in n + 1..4 * longs : done[k] = \h55
  <2>1. /\ Len(img) \in Nat /\ longs \in Nat /\ 4 * longs \in Len(img)..Len(img) + 3
        /\ Completed(img) \in Seq(Octet) /\ Len(Completed(img)) = 4 * longs
        /\ \A k \in 1..Len(img) : Completed(img)[k] = img[k]
        /\ \A k \in Len(img) + 1..4 * longs : Completed(img)[k] = \h55
    BY LastLong
  <2> QED BY <2>1
<1>2. e \in Seq(Symbols) /\ Len(e) = 8 * n
  <2>1. 0 \in 0..8 * Len(img)
    BY <1>1
  <2>2. e \in [1..8 * n -> Symbols] /\ 8 * n \in Nat
    BY <2>1, <1>1, RestIsSymbols
  <2> HIDE DEF e, n
  <2> QED BY <2>2
<1>3. Bytes(E) = done /\ E \in Seq(Symbols) /\ Len(E) = 32 * longs
  <2>1. done \in Seq(Octet)
    BY <1>1
  <2>2. E = ImageBits(done)
    OBVIOUS
  <2> HIDE DEF done
  <2>3. 0 \in 0..8 * Len(done)
    BY <1>1
  <2>4. E \in [1..8 * Len(done) -> Symbols] /\ Bytes(E) = done
    BY <2>1, <2>2, <2>3, RestIsSymbols, BytesOfImage
  <2>5. 8 * Len(done) = 32 * longs /\ 32 * longs \in Nat
    BY <1>1
  <2>6. E \in [1..32 * longs -> Symbols]
    BY <2>4, <2>5
  <2>7. E \in Seq(Symbols) /\ Len(E) = 32 * longs
    BY <2>5, <2>6, FunctionIsSequence
  <2> QED BY <2>4, <2>7
<1>4. t \in Seq(Symbols) /\ Len(t) = 258 /\ \A k \in 1..258 : t[k] = k % 2
  <2>1. t = [k \in 1..258 |-> k % 2]
    BY Tables DEF TemplatesAreRead
  <2>2. \A k \in 1..258 : k % 2 \in Symbols
    BY DEF Symbols
  <2> HIDE DEF t
  <2> QED BY <2>1, <2>2
<1> HIDE DEF e, t
<1>5. /\ f \in Seq(Symbols) /\ Len(f) = 8 * n + 258
      /\ \A k \in 1..8 * n : f[k] = e[k]
      /\ \A k \in 1..258 : f[8 * n + k] = k % 2
  <2>1. f = e \o t /\ e \in Seq(Symbols) /\ t \in Seq(Symbols)
    BY <1>2, <1>4 DEF e, t
  <2>2. /\ f \in Seq(Symbols) /\ Len(f) = Len(e) + Len(t)
        /\ \A k \in 1..Len(e) : f[k] = e[k]
        /\ \A k \in 1..Len(t) : f[Len(e) + k] = t[k]
    BY <2>1, TwoParts
  <2>3. Len(e) = 8 * n /\ Len(t) = 258
    BY <1>2, <1>4
  <2>4. ASSUME NEW k \in 1..258 PROVE f[8 * n + k] = k % 2
    <3>1. f[Len(e) + k] = t[k]
      BY <2>2, <2>3
    <3> QED BY <3>1, <2>3, <1>4
  <2>5. Len(f) = 8 * n + 258 /\ \A k \in 1..8 * n : f[k] = e[k]
    BY <2>2, <2>3
  <2> QED BY <2>2, <2>4, <2>5
<1>6. ASSUME NEW k \in 1..32 * longs
      PROVE  E[k] = Bit(done[(k - 1) \div 8 + 1], (k - 1) % 8)
  <2>1. k \in 1..8 * Len(done)
    BY <1>1
  <2> HIDE DEF done
  <2>2. E = ImageBits(done)
    BY DEF done
  <2> QED BY <2>1, <2>2 DEF ImageBits
<1>7. ASSUME NEW k \in 1..32 * longs, k <= 8 * n PROVE f[k] = E[k]
  <2>1. k \in 1..8 * n /\ (k - 1) \div 8 + 1 \in 1..n
    BY <1>1, <1>7
  <2>2. e[k] = Bit(img[(k - 1) \div 8 + 1], (k - 1) % 8)
    BY <2>1 DEF e, ImageBits
  <2>3. done[(k - 1) \div 8 + 1] = img[(k - 1) \div 8 + 1]
    BY <2>1, <1>1
  <2>4. E[k] = Bit(done[(k - 1) \div 8 + 1], (k - 1) % 8) /\ f[k] = e[k]
    BY <1>5, <1>6, <2>1
  <2> HIDE DEF done
  <2> QED BY <2>2, <2>3, <2>4
<1>8. ASSUME NEW k \in 1..32 * longs, k > 8 * n PROVE f[k] = E[k]
  <2> HIDE DEF n, done
  <2>1. /\ k - 8 * n \in 1..258 /\ 8 * n + (k - 8 * n) = k
        /\ (k - 1) \div 8 + 1 \in n + 1..4 * longs
    BY <1>1, <1>8
  <2>2. (k - 8 * n) % 2 = k % 2
    BY <1>1
  <2>3. f[k] = k % 2
    <3>1. f[8 * n + (k - 8 * n)] = (k - 8 * n) % 2
      BY <2>1, <1>5
    <3> QED BY <3>1, <2>1, <2>2
  <2>4. (k - 1) % 8 \in 0..7 /\ (((k - 1) % 8) + 1) % 2 = k % 2
    <3>1. k \in Nat /\ k > 0
      BY <1>1
    <3> QED BY <3>1, ParityInByte
  <2>5. Bit(\h55, (k - 1) % 8) = (((k - 1) % 8) + 1) % 2
    BY <2>4, Tables DEF TemplatesAreRead
  <2>6. done[(k - 1) \div 8 + 1] = \h55
    BY <2>1, <1>1
  <2>7. E[k] = Bit(\h55, (k - 1) % 8)
    BY <2>6, <1>6
  <2> QED BY <2>3, <2>4, <2>5, <2>7
<1>9. Len(E) <= Len(f) /\ \A k \in 1..Len(E) : f[k] = E[k]
  <2>1. Len(E) <= Len(f)
    <3> HIDE DEF n
    <3> QED BY <1>1, <1>3, <1>5
  <2>2. ASSUME NEW k \in 1..Len(E) PROVE f[k] = E[k]
    <3> HIDE DEF n
    <3>1. k \in 1..32 * longs /\ (k <= 8 * n \/ k > 8 * n)
      BY <1>1, <1>3
    <3> QED BY <3>1, <1>7, <1>8 DEF n
  <2> QED BY <2>1, <2>2
<1> QED BY <1>2, <1>3, <1>4, <1>5, <1>9 DEF e, t

\* The bits the ROM reads are those of the packet's parts and of the templates.
LEMMA PacketIsRead ==
  ASSUME NEW img \in Seq(Octet), NEW beyond \in Octet, NEW cmd \in Seq(Octet),
         NEW field \in Seq(Octet), field = LengthField((Len(img) + 3) \div 4)
  PROVE  /\ Read(txHandshake) \o Read(LoaderPacket(cmd, img, beyond)) \o Read(Templates)
              = ((Read(txHandshake) \o Read(cmd)) \o Read(field)) \o (ImageBits(img) \o Read(Templates))
         /\ Read(txHandshake) \in Seq(Symbols) /\ Read(cmd) \in Seq(Symbols)
         /\ Read(field) \in Seq(Symbols)
<1> DEFINE code == EncodeBytes(img, beyond)
           sent == LoaderPacket(cmd, img, beyond)
           p == cmd \o field
           g == Read(txHandshake)
           c == Read(cmd)
           l == Read(field)
           e == ImageBits(img)
           t == Read(Templates)
<1>1. code \in Seq(Octet) /\ Read(code) = e
  BY EncodingIsRead
<1>2. sent = p \o code
  BY DEF LoaderPacket
<1>3. t \in Seq(Symbols) /\ e \in Seq(Symbols)
  <2>1. (Len(img) + 3) \div 4 \in Nat
    OBVIOUS
  <2> QED BY <2>1, TemplatesComplete
<1>4. g \in Seq(Symbols)
  <2>1. txHandshake \in Seq(Octet) /\ <<>> \in Seq(Octet)
    BY FieldsAreSent
  <2> QED BY <2>1, ReadParts
<1> HIDE DEF code, sent, g, e, t
<1>5. p \in Seq(Octet) /\ Read(p) = c \o l /\ c \in Seq(Symbols) /\ l \in Seq(Symbols)
  BY ReadParts
<1> HIDE DEF p, c, l
<1>6. Read(sent) = (c \o l) \o e
  <2>1. Read(p \o code) = Read(p) \o Read(code)
    BY <1>1, <1>5, ReadParts
  <2> QED BY <2>1, <1>1, <1>2, <1>5
<1>7. c \o l \in Seq(Symbols) /\ g \o c \in Seq(Symbols)
  BY <1>4, <1>5, Concatenation
<1>8. g \o ((c \o l) \o e) = ((g \o c) \o l) \o e
  <2>1. (g \o (c \o l)) \o e = g \o ((c \o l) \o e)
    <3> DEFINE m == c \o l
    <3>1. m \in Seq(Symbols)
      BY <1>7
    <3> HIDE DEF m
    <3>2. (g \o m) \o e = g \o (m \o e)
      BY <3>1, <1>3, <1>4, Associative
    <3> QED BY <3>2 DEF m
  <2>2. (g \o c) \o l = g \o (c \o l)
    BY <1>4, <1>5, Associative
  <2> QED BY <2>1, <2>2
<1> DEFINE q == (g \o c) \o l
<1>9. q \in Seq(Symbols)
  <2> DEFINE m == g \o c
  <2>1. m \in Seq(Symbols)
    BY <1>7
  <2> HIDE DEF m
  <2>2. m \o l \in Seq(Symbols)
    BY <2>1, <1>5, Concatenation
  <2> QED BY <2>2 DEF m
<1> HIDE DEF q
<1>10. (q \o e) \o t = q \o (e \o t)
  BY <1>3, <1>9, Associative
<1>11. g \o Read(sent) \o t = q \o (e \o t)
  BY <1>6, <1>8, <1>10 DEF q
<1> QED BY <1>4, <1>5, <1>11 DEF g, c, l, e, t, q, sent

\* The ROM makes of a packet what the host put into it, whatever the image is
\* and whatever lies behind it in the host's memory; the templates that are sent
\* behind the packet fill up the last long, if the image does not.
THEOREM PacketIsUnderstood ==
  ASSUME NEW img \in Seq(Octet), Len(img) <= MaxImage,
         NEW beyond \in Octet, NEW cmd, NEW n, FieldIsRead(cmd, n)
  PROVE  Understood(LoaderPacket(cmd, img, beyond))
           = [heard |-> TRUE, command |-> n, image |-> Completed(img)]
<1> DEFINE sent == LoaderPacket(cmd, img, beyond)
           longs == (Len(img) + 3) \div 4
           field == LengthField(longs)
           g == Read(txHandshake)
           c == Read(cmd)
           l == Read(field)
           e == ImageBits(img) \o Read(Templates)
           E == ImageBits(Completed(img))
           s == Read(txHandshake) \o Read(sent) \o Read(Templates)
<1>1. FieldIsRead(field, longs) /\ Len(img) \in Nat /\ Len(g) = 768 /\ longs \in Nat
  <2>1. Len(img) \in Nat
    OBVIOUS
  <2>2. Len(g) = 768 /\ FieldIsRead(field, longs)
    BY <2>1, FieldsAreSent
  <2>3. longs \in Nat
    BY <2>1
  <2> QED BY <2>1, <2>2, <2>3
<1>2. /\ cmd \in Seq(Octet) /\ field \in Seq(Octet)
      /\ Len(c) = 32 /\ Len(l) = 32 /\ Number(c) = n /\ Number(l) = longs
  <2> HIDE DEF field, longs
  <2> QED BY <1>1 DEF FieldIsRead, Octet
<1>3. /\ s = ((g \o c) \o l) \o e
      /\ g \in Seq(Symbols) /\ c \in Seq(Symbols) /\ l \in Seq(Symbols)
  BY <1>2, PacketIsRead
<1>4. /\ e \in Seq(Symbols) /\ E \in Seq(Symbols) /\ Bytes(E) = Completed(img)
      /\ Len(E) = 32 * longs /\ Len(E) <= Len(e) /\ \A k \in 1..Len(E) : e[k] = E[k]
  <2>1. longs \in Nat /\ longs = (Len(img) + 3) \div 4
    BY <1>1
  <2> HIDE DEF longs
  <2> QED BY <2>1, TemplatesComplete
<1> HIDE DEF sent, field, longs, g, c, l, e, s, E
<1>14. e \in Seq(Symbols)
  BY <1>4
<1>5. /\ s \in Seq(Symbols) /\ Len(s) = 832 + Len(e) /\ \A k \in 1..Len(g) : s[k] = g[k]
      /\ SubSeq(s, 768 + 1, 800) = c /\ SubSeq(s, 800 + 1, 832) = l
      /\ \A k \in 1..Len(e) : s[832 + k] = e[k]
  <2>1. /\ 768 \in Nat /\ 800 \in Nat /\ 832 \in Nat
        /\ 768 = Len(g) /\ 800 = 768 + Len(c) /\ 832 = 800 + Len(l) /\ 768 < 800 /\ 800 < 832
    BY <1>1, <1>2
  <2> DEFINE P(i, j, m) ==
               /\ s \in Seq(Symbols) /\ Len(s) = m + Len(e) /\ \A k \in 1..Len(g) : s[k] = g[k]
               /\ SubSeq(s, i + 1, j) = c /\ SubSeq(s, j + 1, m) = l
               /\ \A k \in 1..Len(e) : s[m + k] = e[k]
  <2>2. ASSUME NEW i \in Nat, NEW j \in Nat, NEW m \in Nat,
               i = Len(g), j = i + Len(c), m = j + Len(l), i < j, j < m
        PROVE  P(i, j, m)
    BY <2>2, <1>3, <1>14, FourParts
  <2> HIDE DEF P
  <2>3. ASSUME NEW i, NEW j, NEW m, i = 768, j = 800, m = 832 PROVE P(i, j, m)
    <3>1. /\ i \in Nat /\ j \in Nat /\ m \in Nat
          /\ i = Len(g) /\ j = i + Len(c) /\ m = j + Len(l) /\ i < j /\ j < m
      BY <2>1, <2>3
    <3> QED BY <3>1, <2>2
  <2>4. P(768, 800, 832)
    BY <2>3, Zenon
  <2> QED BY <2>4 DEF P
<1>6. 768 + 1 = 769 /\ 800 + 1 = 801 /\ 832 + 1 = 833
  OBVIOUS
<1>7. ~(Len(s) < 832) /\ Len(s) >= Len(g)
  <2>1. Len(e) \in Nat /\ Len(s) = 832 + Len(e)
    BY <1>4, <1>5
  <2> QED BY <2>1, <1>1
<1>8. /\ SubSeq(s, 769, 800) = c /\ SubSeq(s, 801, 832) = l
      /\ SubSeq(s, 833, 832 + 32 * longs) = E
  <2>1. SubSeq(s, 769, 800) = c
    BY <1>5, <1>6
  <2>2. SubSeq(s, 801, 832) = l
    BY <1>5, <1>6
  <2>3. ASSUME NEW m \in Nat, m = 832, NEW o \in Nat, o = m + Len(E)
        PROVE  SubSeq(s, m + 1, o) = E
    <3>1. Len(e) \in Nat /\ Len(E) \in Nat /\ Len(E) <= Len(e) /\ E \in Seq(Symbols)
      <4>1. e \in Seq(Symbols) /\ E \in Seq(Symbols) /\ Len(E) <= Len(e)
        BY <1>4
      <4> QED BY <4>1
    <3>2. s \in Seq(Symbols) /\ Len(s) = m + Len(e)
      BY <1>5, <2>3
    <3>3. o <= Len(s)
      BY <2>3, <3>1, <3>2
    <3>4. ASSUME NEW k \in 1..Len(E) PROVE s[m + k] = E[k]
      <4>1. k \in 1..Len(e)
        BY <3>1
      <4>2. s[832 + k] = e[k] /\ e[k] = E[k]
        BY <4>1, <1>4, <1>5
      <4> QED BY <4>2, <2>3
    <3>5. o = m + Len(E)
      BY <2>3
    <3> QED BY <3>1, <3>2, <3>3, <3>4, <3>5, PartOf
  <2>4. ASSUME NEW m, NEW o, m = 832, o = 832 + 32 * longs PROVE SubSeq(s, m + 1, o) = E
    <3>1. m \in Nat /\ o \in Nat /\ o = m + Len(E)
      BY <1>1, <1>4, <2>4
    <3> QED BY <3>1, <2>3, <2>4
  <2>5. SubSeq(s, 832 + 1, 832 + 32 * longs) = E
    <3> DEFINE m == 832
               o == 832 + 32 * longs
    <3>1. m = 832 /\ o = 832 + 32 * longs
      OBVIOUS
    <3> HIDE DEF m, o
    <3>2. SubSeq(s, m + 1, o) = E
      BY <2>4, <3>1
    <3> QED BY <3>2 DEF m, o
  <2>6. SubSeq(s, 833, 832 + 32 * longs) = E
    BY <2>5, <1>6
  <2> QED BY <2>1, <2>2, <2>6
<1>9. /\ Number(SubSeq(s, 769, 800)) = n /\ Number(SubSeq(s, 801, 832)) = longs
      /\ Bytes(SubSeq(s, 833, 832 + 32 * longs)) = Completed(img)
  <2>1. Number(SubSeq(s, 769, 800)) = n
    BY <1>2, <1>8
  <2>2. Number(SubSeq(s, 801, 832)) = longs
    BY <1>2, <1>8
  <2>3. Bytes(SubSeq(s, 833, 832 + 32 * longs)) = Completed(img)
    <3> DEFINE t == SubSeq(s, 833, 832 + 32 * longs)
               done == Completed(img)
    <3>1. t = E
      BY <1>8
    <3>2. Bytes(E) = done
      BY <1>4
    <3> HIDE DEF t, done
    <3>3. Bytes(t) = done
      BY <3>1, <3>2, Zenon
    <3> QED BY <3>3 DEF t, done
  <2> QED BY <2>1, <2>2, <2>3
<1>10. \A k \in 1..Len(Read(txHandshake)) : s[k] = Read(txHandshake)[k]
  BY <1>5 DEF g
<1>11. Len(s) >= Len(Read(txHandshake))
  BY <1>7 DEF g
<1>12. s = Line(sent) /\ s \in Seq(Symbols)
  BY <1>5 DEF s, Line
<1>13. Understood(sent) = [heard |-> TRUE, command |-> n, image |-> Completed(img)]
  <2> DEFINE done == Completed(img)
  <2>1. Bytes(SubSeq(s, 833, 832 + 32 * longs)) = done
    BY <1>9
  <2>2. /\ ~(Len(s) < 832) /\ Number(SubSeq(s, 769, 800)) = n
        /\ Number(SubSeq(s, 801, 832)) = longs
    BY <1>7, <1>9
  <2> HIDE DEF done
  <2>3. Understood(sent) = [heard |-> TRUE, command |-> n, image |-> done]
    BY <2>1, <2>2, <1>10, <1>11, <1>12, LaidOut
  <2> QED BY <2>3 DEF done
<1> QED BY <1>13 DEF sent

\* Every image that main lets pass, whole longs or not, for every task: the ROM
\* hears the packet and takes from it the command and the image, and behind the
\* image nothing but the rest of its last long, filled with the bits of templates.
THEOREM EveryImageIsUnderstood == Faithful /\ Heard
<1>1. ASSUME NEW t \in Tasks PROVE FieldIsRead(Command(t), CommandNumber(t))
  <2>1. t \in {"run", "program", "programRun", "response"}
    BY Parameters
  <2>2. /\ FieldIsRead(Commands.run, 1) /\ FieldIsRead(Commands.program, 2)
        /\ FieldIsRead(Commands.programRun, 3)
    BY Tables DEF Fields
  <2> QED  BY <2>1, <2>2 DEF Command, CommandNumber
<1>2. ASSUME NEW t \in Tasks, NEW i \in Images, NEW beyond \in {0, 255}
      PROVE  Understood(LoaderPacket(Command(t), i, beyond))
               = [heard |-> TRUE, command |-> CommandNumber(t), image |-> Completed(i)]
  <2>1. i \in Seq(Octet) /\ Len(i) <= MaxImage
    BY Parameters DEF Octet, Valid
  <2>2. beyond \in Octet
    BY DEF Octet
  <2> QED  BY <1>1, <2>1, <2>2, PacketIsUnderstood
<1>3. ASSUME NEW t \in Tasks, NEW i \in Images, NEW beyond \in {0, 255}
      PROVE  LET p == Understood(LoaderPacket(Command(t), i, beyond))
             IN  p.heard /\ p.image = Completed(i) /\ p.command = CommandNumber(t)
  BY <1>2
<1>4. VersionField(VersionBytes(1)) = 1
  BY Tables
<1> QED  BY <1>3, <1>4 DEF Faithful, Heard

-----------------------------------------------------------------------------
(***************************************************************************)
(* The sum.  What fills up the last long adds to it unless the call frame  *)
(* lies over it.                                                           *)
(***************************************************************************)

\* What a byte adds to the sum.
Weight(bytes, k) == IF Format!InFrame(bytes, k - 1) THEN 0 ELSE bytes[k]

\* Sum, too, is defined by recursion: the sums of the first bytes, one by one.
LEMMA SumSteps ==
  ASSUME NEW bytes \in Seq(Octet)
  PROVE  \E g \in [0..Len(bytes) -> Octet] :
           /\ g[0] = Format!FrameChecksum /\ Sum(bytes) = g[Len(bytes)]
           /\ \A k \in 1..Len(bytes) : g[k] = (g[k - 1] + Weight(bytes, k)) % 256
<1> DEFINE n == Len(bytes)
           frame == Format!FrameChecksum
           step == [k \in 1..n |-> [x \in Octet |-> (x + Weight(bytes, k)) % 256]]
           F(f) == [k \in 0..n |-> IF k = 0 THEN frame
                                   ELSE (f[k - 1] + IF Format!InFrame(bytes, k - 1) THEN 0 ELSE bytes[k]) % 256]
           u == CHOOSE f : f = F(f)
<1>1. n \in Nat /\ frame \in Octet
  BY DEF Format!FrameChecksum, Octet
<1>2. \A k \in 1..n : Weight(bytes, k) \in Octet
  <2>1. \A k \in 1..n : bytes[k] \in Octet
    OBVIOUS
  <2> HIDE DEF n
  <2> QED BY <2>1 DEF Weight, Octet
<1> HIDE DEF n, frame
<1>3. ASSUME NEW k \in 1..n, NEW x \in Octet PROVE (x + Weight(bytes, k)) % 256 \in Octet
  <2> DEFINE w == Weight(bytes, k)
  <2>1. w \in Octet
    BY <1>2
  <2> HIDE DEF w
  <2>2. (x + w) % 256 \in Octet
    BY <2>1 DEF Octet
  <2> QED BY <2>2 DEF w
<1>4. step \in [1..n -> [Octet -> Octet]]
  BY <1>3
<1>5. PICK g \in [0..n -> Octet] : IsRun(g, n, frame, step)
  <2> HIDE DEF step
  <2> QED BY <1>1, <1>4, RunExists
<1>6. /\ g[0] = frame
      /\ \A k \in 1..n : g[k] = (g[k - 1] + Weight(bytes, k)) % 256
  <2>1. \A k \in 1..n : k \in 0..n /\ k # 0 /\ k - 1 \in 0..n
    BY <1>1
  <2>2. g[0] = frame /\ \A k \in 1..n : g[k] = step[k][g[k - 1]]
    <3> HIDE DEF step
    <3> QED BY <1>1, <1>5, <2>1 DEF IsRun
  <2>3. \A k \in 1..n : g[k - 1] \in Octet
    BY <2>1
  <2> QED BY <2>2, <2>3
<1>7. g = F(g)
  <2>1. g = [k \in 0..n |-> g[k]]
    OBVIOUS
  <2>2. ASSUME NEW k \in 0..n PROVE g[k] = F(g)[k]
    <3>1. CASE k = 0
      BY <1>6, <3>1
    <3>2. CASE k # 0
      <4>1. k \in 1..n
        BY <1>1, <3>2
      <4>2. F(g)[k] = (g[k - 1] + Weight(bytes, k)) % 256
        BY <3>2 DEF Weight
      <4> HIDE DEF F
      <4> QED BY <4>1, <4>2, <1>6
    <3> QED BY <3>1, <3>2
  <2> QED BY <2>1, <2>2
<1>8. Sum(bytes) = u[n]
  BY DEF Sum, n, frame
<1>9. u = F(u)
  <2> HIDE DEF F
  <2> QED BY <1>7, Zenon
<1>10. u = g
  <2> DEFINE T == {k \in 0..n : u[k] = g[k]}
  <2>1. 0 \in T
    <3> HIDE DEF u
    <3>1. F(u)[0] = frame /\ 0 \in 0..n
      BY <1>1
    <3> HIDE DEF F
    <3> QED BY <3>1, <1>6, <1>9
  <2>2. \A k \in 0..n - 1 : k \in T => k + 1 \in T
    <3> SUFFICES ASSUME NEW k \in 0..n - 1, k \in T PROVE k + 1 \in T
      OBVIOUS
    <3>1. k + 1 \in 0..n /\ k + 1 \in 1..n /\ k + 1 # 0 /\ (k + 1) - 1 = k
      BY <1>1
    <3>2. u[k + 1] = (u[k] + Weight(bytes, k + 1)) % 256
      <4> HIDE DEF u
      <4>1. F(u)[k + 1] = (u[k] + Weight(bytes, k + 1)) % 256
        BY <3>1 DEF Weight
      <4> HIDE DEF F
      <4> QED BY <4>1, <1>9
    <3>3. g[k + 1] = (g[k] + Weight(bytes, k + 1)) % 256 /\ u[k] = g[k]
      BY <3>1, <1>6
    <3> HIDE DEF u
    <3> QED BY <3>1, <3>2, <3>3
  <2> HIDE DEF T
  <2>3. 0..n \subseteq T
    BY <1>1, <2>1, <2>2, InductUpTo
  <2>4. \A k \in 0..n : u[k] = g[k]
    BY <2>3 DEF T
  <2>5. u = [k \in 0..n |-> u[k]]
    <3> HIDE DEF u
    <3> QED BY <1>9
  <2> HIDE DEF u
  <2> QED BY <2>4, <2>5
<1> HIDE DEF u
<1>11. Sum(bytes) = g[n]
  BY <1>8, <1>10
<1> QED BY <1>6, <1>11 DEF n, frame

\* The ROM accepts a valid image, with its last long filled up, if and only if
\* the call frame covers what fills it up; an image of whole longs always.
THEOREM CoveredIsAccepted ==
  \A i \in Images : /\ Sum(Completed(i)) = 0 <=> Covered(i)
                    /\ Len(i) % 4 = 0 => Covered(i)
<1> SUFFICES ASSUME NEW i \in Images
             PROVE  (Sum(Completed(i)) = 0 <=> Covered(i)) /\ (Len(i) % 4 = 0 => Covered(i))
  OBVIOUS
<1> DEFINE n == Len(i)
           done == Completed(i)
           m == Len(done)
<1>1. i \in Seq(Octet) /\ n > 16 /\ Sum(i) = 0
  BY Parameters DEF Valid, Octet, Format!HeaderSize
<1>2. /\ n \in Nat /\ m \in n..n + 3 /\ (n % 4 = 0 => m = n)
      /\ done \in Seq(Octet)
      /\ \A k \in 1..n : done[k] = i[k]
      /\ \A k \in n + 1..m : done[k] = 85
  <2> DEFINE longs == (n + 3) \div 4
  <2>1. n \in Nat /\ longs \in Nat /\ longs = (n + 3) \div 4 /\ (n % 4 = 0 => 4 * longs = n)
    <3>1. n \in Nat
      BY <1>1
    <3> HIDE DEF n
    <3> QED BY <3>1
  <2> HIDE DEF longs
  <2>2. /\ 4 * longs \in n..n + 3 /\ done \in Seq(Octet) /\ m = 4 * longs
        /\ \A k \in 1..n : done[k] = i[k]
        /\ \A k \in n + 1..4 * longs : done[k] = \h55
    BY <1>1, <2>1, LastLong
  <2> HIDE DEF n, m, done
  <2> QED BY <2>1, <2>2
<1>3. \A k \in Int : Format!InFrame(done, k) <=> Format!InFrame(i, k)
  <2>1. 11 \in 1..n /\ 12 \in 1..n
    BY <1>1, <1>2
  <2>2. done[11] = i[11] /\ done[12] = i[12]
    BY <1>2, <2>1
  <2> HIDE DEF done
  <2>3. 10 + 1 = 11 /\ 10 + 2 = 12
    OBVIOUS
  <2>4. Format!Dbase(done) = Format!Dbase(i)
    BY <2>2, <2>3 DEF Format!Dbase, Format!Word
  <2> QED BY <2>4 DEF Format!InFrame
<1>4. PICK g \in [0..n -> Octet] :
        /\ g[0] = Format!FrameChecksum /\ Sum(i) = g[n]
        /\ \A k \in 1..n : g[k] = (g[k - 1] + Weight(i, k)) % 256
  BY <1>1, SumSteps
<1>5. PICK h \in [0..m -> Octet] :
        /\ h[0] = Format!FrameChecksum /\ Sum(done) = h[m]
        /\ \A k \in 1..m : h[k] = (h[k - 1] + Weight(done, k)) % 256
  <2>1. done \in Seq(Octet)
    BY <1>2
  <2> HIDE DEF done
  <2> QED BY <2>1, SumSteps
<1>6. Covered(i) <=> \A k \in n + 1..m : Format!InFrame(i, k - 1)
  BY DEF Covered
<1> HIDE DEF n, m, done
<1>7. h[n] = 0
  <2> DEFINE T == {k \in 0..n : h[k] = g[k]}
  <2>1. 0 \in T
    BY <1>2, <1>4, <1>5
  <2>2. \A k \in 0..n - 1 : k \in T => k + 1 \in T
    <3> SUFFICES ASSUME NEW k \in 0..n - 1, k \in T PROVE k + 1 \in T
      OBVIOUS
    <3>1. k + 1 \in 0..n /\ k + 1 \in 1..n /\ k + 1 \in 1..m /\ (k + 1) - 1 = k /\ k \in Int
      BY <1>2
    <3>2. h[k + 1] = (h[k] + Weight(done, k + 1)) % 256 /\ g[k + 1] = (g[k] + Weight(i, k + 1)) % 256
      BY <3>1, <1>4, <1>5
    <3>3. Weight(done, k + 1) = Weight(i, k + 1)
      BY <3>1, <1>2, <1>3 DEF Weight
    <3> QED BY <3>1, <3>2, <3>3
  <2> HIDE DEF T
  <2>3. 0..n \subseteq T
    BY <1>2, <2>1, <2>2, InductUpTo
  <2>4. n \in T
    BY <1>2, <2>3
  <2> QED BY <1>1, <1>4, <2>4 DEF T
<1> DEFINE In(k) == Format!InFrame(i, k - 1)
           add(k) == IF In(k) THEN 0 ELSE 85
<1>8. ASSUME NEW k \in n + 1..m PROVE h[k] = (h[k - 1] + add(k)) % 256
  <2>1. k \in 1..m /\ k - 1 \in Int
    BY <1>2
  <2>2. Weight(done, k) = add(k)
    BY <2>1, <1>2, <1>3 DEF Weight
  <2> HIDE DEF add
  <2> QED BY <2>1, <2>2, <1>5
<1> HIDE DEF In
<1>9. h[m] = 0 <=> \A k \in n + 1..m : In(k)
  <2>1. n \in Nat /\ (m = n \/ m = n + 1 \/ m = n + 2 \/ m = n + 3)
    BY <1>2
  <2>2. \A k : add(k) \in {0, 85} /\ (add(k) = 0 <=> In(k))
    OBVIOUS
  <2> HIDE DEF add
  <2>3. /\ m >= n + 1 => h[n + 1] = (h[n] + add(n + 1)) % 256
        /\ m >= n + 2 => h[n + 2] = (h[n + 1] + add(n + 2)) % 256
        /\ m >= n + 3 => h[n + 3] = (h[n + 2] + add(n + 3)) % 256
    <3>1. \A k \in n + 1..m : h[k] = (h[k - 1] + add(k)) % 256
      BY <1>8
    <3>2. (n + 1) - 1 = n /\ (n + 2) - 1 = n + 1 /\ (n + 3) - 1 = n + 2
      BY <2>1
    <3>3. /\ m >= n + 1 => n + 1 \in n + 1..m
          /\ m >= n + 2 => n + 2 \in n + 1..m
          /\ m >= n + 3 => n + 3 \in n + 1..m
      BY <2>1
    <3> QED BY <3>1, <3>2, <3>3
  <2>4. (\A k \in n + 1..m : In(k))
          <=> /\ m >= n + 1 => In(n + 1)
              /\ m >= n + 2 => In(n + 2)
              /\ m >= n + 3 => In(n + 3)
    <3>1. \A k \in n + 1..m : \/ k = n + 1 /\ m >= n + 1
                              \/ k = n + 2 /\ m >= n + 2
                              \/ k = n + 3 /\ m >= n + 3
      BY <2>1
    <3>2. /\ m >= n + 1 => n + 1 \in n + 1..m
          /\ m >= n + 2 => n + 2 \in n + 1..m
          /\ m >= n + 3 => n + 3 \in n + 1..m
      BY <2>1
    <3> QED BY <3>1, <3>2, Zenon
  <2> DEFINE a == add(n + 1)
             b == add(n + 2)
             c == add(n + 3)
             x == h[n + 1]
             y == h[n + 2]
             z == h[n + 3]
  <2>5. /\ a \in {0, 85} /\ b \in {0, 85} /\ c \in {0, 85}
        /\ a = 0 <=> In(n + 1)
        /\ b = 0 <=> In(n + 2)
        /\ c = 0 <=> In(n + 3)
    BY <2>2
  <2>6. /\ m >= n + 1 => x = (0 + a) % 256
        /\ m >= n + 2 => y = (x + b) % 256
        /\ m >= n + 3 => z = (y + c) % 256
    BY <2>3, <1>7
  <2> HIDE DEF a, b, c, x, y, z
  <2>7. /\ m >= n + 1 => x = a
        /\ m >= n + 2 => y = a + b
        /\ m >= n + 3 => z = a + b + c
    <3>1. /\ m >= n + 1 => x = a
          /\ m >= n + 2 => m >= n + 1
          /\ m >= n + 3 => m >= n + 2
      BY <2>1, <2>5, <2>6
    <3>2. m >= n + 2 => y = a + b
      BY <3>1, <2>5, <2>6
    <3>3. m >= n + 3 => z = a + b + c
      BY <3>1, <3>2, <2>5, <2>6
    <3> QED BY <3>1, <3>2, <3>3
  <2>8. CASE m = n
    BY <2>1, <2>4, <2>8, <1>7
  <2>9. CASE m = n + 1
    <3>1. h[m] = a
      BY <2>1, <2>7, <2>9 DEF x
    <3> QED BY <3>1, <2>1, <2>4, <2>5, <2>9
  <2>10. CASE m = n + 2
    <3>1. h[m] = a + b
      BY <2>1, <2>7, <2>10 DEF y
    <3>2. h[m] = 0 <=> a = 0 /\ b = 0
      BY <3>1, <2>5
    <3> QED BY <3>2, <2>1, <2>4, <2>5, <2>10
  <2>11. CASE m = n + 3
    <3>1. h[m] = a + b + c
      BY <2>1, <2>7, <2>11 DEF z
    <3>2. h[m] = 0 <=> a = 0 /\ b = 0 /\ c = 0
      BY <3>1, <2>5
    <3> QED BY <3>2, <2>1, <2>4, <2>5, <2>11
  <2> QED BY <2>1, <2>8, <2>9, <2>10, <2>11
<1>10. Sum(done) = 0 <=> Covered(i)
  BY <1>5, <1>6, <1>9 DEF In
<1>11. n % 4 = 0 => Covered(i)
  <2>1. n % 4 = 0 => n + 1..m = {}
    BY <1>2
  <2> QED BY <2>1, <1>6
<1> QED BY <1>10, <1>11 DEF n, done

-----------------------------------------------------------------------------
(***************************************************************************)
(* The load.                                                               *)
(***************************************************************************)

Before == {"old", "held", "listen"}

LEMMA Constants ==
  /\ \A s \in Stages : Polls[s] \in Nat /\ Slowest[s] \in Nat \ {0}
  /\ Tasks \subseteq {"run", "program", "programRun", "response"}
  /\ Sum(Damaged) # 0
BY Parameters, DamageShows

\* Buffers of at most one byte.
LEMMA Short ==
  /\ <<>> \in Seq(Signs) /\ Len(<<>>) = 0
  /\ \A b \in Signs : /\ <<b>> \in Seq(Signs) /\ Len(<<b>>) = 1
                       /\ Append(<<>>, b) = <<b>> /\ <<>> \o <<b>> = <<b>>
  /\ <<>> \o <<>> = <<>>
  /\ \A s \in Seq(Signs) : Len(s) \in Nat
OBVIOUS

\* A byte that arrives: the buffer grows by it, or by one that is no
\* acknowledgement, or not at all.
LEMMA Arriving ==
  ASSUME NEW b \in Signs, Arrive(b), toHost \in Seq(Signs)
  PROVE  /\ toHost' \in Seq(Signs)
         /\ \/ toHost' = toHost
            \/ /\ Len(toHost') = Len(toHost) + 1
               /\ \A k \in 1 .. Len(toHost) : toHost'[k] = toHost[k]
               /\ toHost'[Len(toHost) + 1] = "ack" => b = "ack"
<1>1. toHost' = toHost \/ \E c \in Signs : toHost' = Append(toHost, c) /\ (c = "ack" => b = "ack")
  <2>1. "other" \in Signs
    BY DEF Signs
  <2> QED  BY <2>1 DEF Arrive
<1>2. ASSUME NEW c \in Signs, toHost' = Append(toHost, c)
      PROVE  /\ toHost' \in Seq(Signs) /\ Len(toHost') = Len(toHost) + 1
             /\ \A k \in 1 .. Len(toHost) : toHost'[k] = toHost[k]
             /\ toHost'[Len(toHost) + 1] = c
  BY <1>2
<1> QED  BY <1>1, <1>2

LEMMA Initially == Init => IInv
<1> SUFFICES ASSUME Init PROVE IInv
  OBVIOUS
<1> USE DEF Init
<1>1. packet.heard => packet.image = Completed(image) /\ packet.command = CommandNumber(task)
  BY EveryImageIsUnderstood DEF Faithful
<1>2. TypeOK
  <2>1. <<>> \in Seq(Signs) /\ <<"other">> \in Seq(Signs)
    BY Short DEF Signs
  <2> QED  BY <2>1 DEF TypeOK, Launched
<1>3. Told
  BY <1>1 DEF Told, Launched
<1>4. Believed
  BY DEF Believed, Launched
<1> QED  BY <1>2, <1>3, <1>4 DEF IInv, Counted, Stages

\* Bounds of what the ROM has done.
LEMMA PassedIsNat == Passed \in Nat /\ Total \in {1, 3} /\ Taken \in Nat /\ Dropped \in {0, 1}
BY DEF Passed, Total, Taken, Dropped, Launched

\* Before the packet has been sent.
LEMMA Resetting ==
  ASSUME IInv, AssertReset \/ DeassertReset \/ FlushInput
  PROVE  IInv'
<1> USE DEF AssertReset, DeassertReset, FlushInput, board, chip, Launched, Stages
<1>1. TypeOK'
  <2>1. toHost' = toHost \/ toHost' = <<>>
    OBVIOUS
  <2>2. toHost' \in Seq(Signs)
    BY <2>1, Short DEF IInv, TypeOK
  <2> QED  BY <2>2 DEF IInv, TypeOK
<1>0. Told'
  BY DEF IInv, TypeOK, Told, Believed, Programs
<1>2. Believed'
  BY DEF IInv, TypeOK, Believed, Programs
<1> QED  BY <1>0, <1>1, <1>2 DEF IInv, Counted

\* Acknowledgements at the head of a buffer, from the d-th on, that are no more
\* than p: a stage more is done for each one that arrives.
Within(s, t, d, p) ==
  /\ t <= p
  /\ \A k \in 1 .. Len(s) : (\A j \in d + 1 .. k : s[j] = "ack") => t + k <= p + d

LEMMA Longer ==
  ASSUME NEW s \in Seq(Signs), NEW r \in Seq(Signs), NEW p \in Nat, NEW q \in Nat, q >= p,
         NEW t \in Nat, NEW d \in {0, 1}, Within(s, t, d, p),
         \/ r = s
         \/ /\ Len(r) = Len(s) + 1
            /\ \A k \in 1 .. Len(s) : r[k] = s[k]
            /\ r[Len(s) + 1] = "ack" => q = p + 1
  PROVE  Within(r, t, d, q)
<1>1. Len(s) \in Nat /\ Len(r) \in Nat
  BY Short
<1>2. ASSUME NEW k \in 1 .. Len(r), \A j \in d + 1 .. k : r[j] = "ack"
      PROVE  t + k <= q + d
  <2>0. k \in Nat
    BY <1>1
  <2>1. CASE r = s
    <3>1. t + k <= p + d
      BY <2>1, <1>2 DEF Within
    <3> QED  BY <3>1, <2>0
  <2>2. CASE k <= Len(s) /\ r # s
    <3>1. k \in 1 .. Len(s)
      BY <2>2, <1>1
    <3>2. ASSUME NEW j \in d + 1 .. k PROVE s[j] = "ack"
      <4>1. j \in 1 .. Len(s)
        BY <3>1, <1>1
      <4> QED  BY <4>1, <2>2, <1>2
    <3>3. t + k <= p + d
      BY <3>1, <3>2 DEF Within
    <3> QED  BY <3>3, <2>0
  <2>3. CASE k = Len(s) + 1 /\ r # s
    <3>1. CASE k > d
      <4>1. k \in d + 1 .. k
        BY <3>1, <2>0
      <4>2. q = p + 1
        BY <4>1, <2>3, <1>2
      <4>3. CASE Len(s) = 0
        <5>1. t <= p
          BY DEF Within
        <5> QED  BY <5>1, <4>2, <4>3, <2>3
      <4>4. CASE Len(s) > 0
        <5>1. Len(s) \in 1 .. Len(s)
          BY <4>4, <1>1
        <5>2. ASSUME NEW j \in d + 1 .. Len(s) PROVE s[j] = "ack"
          <6>1. j \in 1 .. Len(s) /\ j \in d + 1 .. k
            BY <2>3, <1>1
          <6> QED  BY <6>1, <2>3, <1>2
        <5>3. t + Len(s) <= p + d
          BY <5>1, <5>2 DEF Within
        <5> QED  BY <5>3, <4>2, <2>3, <1>1
      <4> QED  BY <4>3, <4>4, <1>1
    <3>2. CASE k <= d
      <4>1. t <= p /\ k = d
        BY <3>2, <2>0, <2>3, <1>1 DEF Within
      <4> QED  BY <4>1, <2>0
    <3> QED  BY <3>1, <3>2, <2>0
  <2> QED  BY <2>1, <2>2, <2>3, <1>1
<1>3. t <= q
  BY DEF Within
<1> QED  BY <1>2, <1>3 DEF Within

\* When the first one is taken there is one less to come.
LEMMA Shorter ==
  ASSUME NEW s \in Seq(Signs), s # <<>>, NEW p \in Nat, NEW t \in Nat, NEW d \in {0, 1},
         Within(s, t, d, p), d = 1 \/ Head(s) = "ack"
  PROVE  /\ Tail(s) \in Seq(Signs)
         /\ Within(Tail(s), IF d = 1 THEN t ELSE t + 1, 0, p)
<1>1. /\ Len(s) \in Nat /\ Len(s) > 0 /\ Tail(s) \in Seq(Signs) /\ Len(Tail(s)) = Len(s) - 1
      /\ \A k \in 1 .. Len(s) - 1 : Tail(s)[k] = s[k + 1]
      /\ Head(s) = s[1]
  OBVIOUS
<1> DEFINE u == IF d = 1 THEN t ELSE t + 1
<1>2. u \in Nat /\ u + d = t + 1
  OBVIOUS
<1>3. ASSUME NEW k \in 1 .. Len(s) - 1, \A j \in 1 .. k : Tail(s)[j] = "ack"
      PROVE  u + k <= p
  <2>1. k \in Nat /\ k + 1 \in 1 .. Len(s)
    BY <1>1
  <2>2. ASSUME NEW j \in d + 1 .. k + 1 PROVE s[j] = "ack"
    <3>1. CASE j = 1
      BY <3>1, <1>1
    <3>2. CASE j > 1
      <4>1. j - 1 \in 1 .. k /\ j - 1 \in 1 .. Len(s) - 1 /\ (j - 1) + 1 = j
        BY <3>2, <2>1, <1>1
      <4> QED  BY <4>1, <1>1, <1>3
    <3> QED  BY <3>1, <3>2
  <2>3. t + (k + 1) <= p + d
    BY <2>1, <2>2 DEF Within
  <2> QED  BY <2>1, <2>3, <1>2
<1>4. u <= p
  <2>1. CASE d = 1
    BY <2>1 DEF Within
  <2>2. CASE d = 0
    <3>1. \A j \in d + 1 .. 1 : s[j] = "ack"
      BY <2>2, <1>1
    <3>2. 1 \in 1 .. Len(s)
      BY <1>1
    <3>3. t + 1 <= p + d
      BY <3>1, <3>2 DEF Within
    <3> QED  BY <3>3, <2>2
  <2> QED  BY <2>1, <2>2
<1> QED  BY <1>1, <1>3, <1>4 DEF Within

LEMMA Sending ==
  ASSUME IInv, SendPacket
  PROVE  IInv'
<1> USE DEF board, chip, Launched, Stages
<1>1. /\ pc = "packet" /\ pc' = "handshake" /\ toHost = <<>> /\ rom \in Before
      /\ UNCHANGED <<board, packet, asked, retries, result, eeprom>>
      /\ TypeOK /\ Told /\ result = "pending" /\ eeprom = "old"
  BY DEF SendPacket, IInv, Believed, Before, TypeOK, Told
<1>2. /\ toHost' \in Seq(Signs) /\ Len(toHost') <= 1
      /\ \/ UNCHANGED chip
         \/ /\ packet.heard /\ Enter("ram") /\ command' = packet.command
            /\ ram' \in {packet.image, Damaged}
  <2>1. CASE version # 0 /\ packet.heard /\ Enter("ram") /\ command' = packet.command
             /\ NoFault /\ ram' = packet.image
             /\ toHost' = Append(toHost, IF VersionField(VersionBytes(version)) = 1
                                           THEN "handshake" ELSE "wrongVersion")
    <3>1. \E b \in Signs : toHost' = Append(<<>>, b)
      BY <2>1, <1>1 DEF Signs
    <3>2. toHost' \in Seq(Signs) /\ Len(toHost') <= 1
      BY <3>1, Short
    <3> QED  BY <2>1, <3>2
  <2>2. CASE version # 0 /\ packet.heard /\ Enter("ram") /\ command' = packet.command
             /\ Fault /\ ram' \in {packet.image, Damaged}
             /\ toHost' \in {toHost \o t : t \in {<<>>, <<"other">>, <<"handshake">>}}
    <3>1. "other" \in Signs /\ "handshake" \in Signs
      BY DEF Signs
    <3>2. toHost' = <<>> \/ toHost' = <<"other">> \/ toHost' = <<"handshake">>
      BY <2>2, <1>1, <3>1, Short
    <3>3. toHost' \in Seq(Signs) /\ Len(toHost') <= 1
      <4>1. \A b \in Signs : toHost' = <<b>> => toHost' \in Seq(Signs) /\ Len(toHost') <= 1
        BY Short
      <4>2. toHost' = <<>> => toHost' \in Seq(Signs) /\ Len(toHost') <= 1
        BY Short
      <4> QED  BY <3>1, <3>2, <4>1, <4>2
    <3> QED  BY <2>2, <3>3
  <2>3. CASE UNCHANGED <<toHost, chip>>
    BY <2>3, <1>1
  <2> QED  BY <2>1, <2>2, <2>3 DEF SendPacket
<1>3. TypeOK'
  BY <1>1, <1>2, Constants DEF TypeOK, Enter
<1>4. Told'
  BY <1>1, <1>2 DEF Told, Enter, Before, Programs
<1>5. Believed'
  BY <1>1, <1>2 DEF Believed, Before
<1>6. Counted'
  <2>1. Taken' = 0 /\ Dropped' = 1
    BY <1>1 DEF Taken, Dropped
  <2>2. Passed' \in Nat
    BY DEF Passed, Total
  <2>3. ASSUME NEW s \in Seq(Signs), Len(s) <= 1, NEW p \in Nat PROVE Within(s, 0, 1, p)
    <3>1. Len(s) \in Nat
      BY Short
    <3> QED  BY <2>3, <3>1 DEF Within
  <2>4. Within(toHost', 0, 1, Passed')
    BY <2>2, <2>3, <1>2
  <2> QED  BY <2>1, <2>4 DEF Counted, Within
<1> QED  BY <1>3, <1>4, <1>5, <1>6 DEF IInv

\* A stage is over: the ROM says whether it went well.
LEMMA Answering ==
  ASSUME IInv, Answer, rom \in Stages, busy = 0, pc \in Stages \cup {"handshake"},
         UNCHANGED <<board, packet, pc, result, command, ram, eeprom>>
  PROVE  IInv'
<1> USE DEF board, Stages, Launched
<1>1. /\ TypeOK /\ Told /\ Believed /\ Counted /\ result = "pending"
      /\ command = CommandNumber(task) /\ toHost \in Seq(Signs)
  BY DEF IInv, TypeOK, Told
<1>2. /\ command \in {2, 3} <=> Programs
      /\ Total = IF Programs THEN 3 ELSE 1
  BY <1>1, Constants DEF Total, CommandNumber, Programs, TypeOK
<1>3. \/ Verified /\ rom = "ram" /\ Programs /\ rom' = "program" /\ busy' \in 1 .. Slowest["program"]
      \/ Verified /\ rom = "ram" /\ ~Programs /\ rom' = "launch" /\ busy' = busy
      \/ Verified /\ rom = "program" /\ rom' = "verify" /\ busy' \in 1 .. Slowest["verify"]
      \/ Verified /\ rom = "verify" /\ rom' = "launch" /\ busy' = busy
      \/ ~Verified /\ rom' = "dead" /\ busy' = busy
  BY <1>2 DEF Answer, Advance, Enter
<1>4. Programs' = Programs /\ Total' = Total /\ CommandNumber(task)' = CommandNumber(task)
  BY DEF Programs, Total, CommandNumber
<1>5. /\ Passed \in Nat /\ Passed' \in Nat /\ Passed' >= Passed
      /\ Verified => Passed' = Passed + 1
  BY <1>1, <1>2, <1>3, <1>4 DEF Passed, Told
<1>6. /\ toHost' \in Seq(Signs)
      /\ \/ toHost' = toHost
         \/ /\ Len(toHost') = Len(toHost) + 1
            /\ \A k \in 1 .. Len(toHost) : toHost'[k] = toHost[k]
            /\ toHost'[Len(toHost) + 1] = "ack" => Passed' = Passed + 1
  <2>1. CASE Verified
    BY <2>1, <1>1, <1>5, Arriving DEF Answer, Signs
  <2>2. CASE ~Verified
    <3>1. Arrive("nak") /\ "nak" \in Signs
      BY <2>2 DEF Answer, Signs
    <3> QED  BY <3>1, <1>1, Arriving
  <2> QED  BY <2>1, <2>2
<1>7. Counted'
  <2>1. Within(toHost, Taken, Dropped, Passed)
    BY <1>1 DEF Counted, Within
  <2>2. Within(toHost', Taken, Dropped, Passed')
    BY <2>1, <1>1, <1>5, <1>6, PassedIsNat, Longer
  <2>3. Taken' = Taken /\ Dropped' = Dropped
    BY DEF Taken, Dropped
  <2> QED  BY <2>2, <2>3 DEF Counted, Within
<1>8. TypeOK'
  BY <1>1, <1>3, <1>6, Constants DEF TypeOK
<1>9. Told'
  <2>1. Verified /\ rom = "ram" => ram = Completed(image) /\ Sum(ram) = 0
    BY <1>1, Constants DEF Verified, Told
  <2>2. rom = "verify" /\ Verified => eeprom = "programmed"
    BY DEF Verified
  <2> QED  BY <1>1, <1>2, <1>3, <1>4, <2>1, <2>2, Constants DEF Told
<1>10. Believed'
  BY <1>1, <1>3, <1>4 DEF Believed
<1> QED  BY <1>7, <1>8, <1>9, <1>10 DEF IInv

\* The two steps at which the host takes a byte that it believes to be about
\* the stage it waits for.

LEMMA Handshaking ==
  ASSUME IInv, ReceiveHandshake
  PROVE  IInv'
<1> USE DEF board, chip, Launched, Stages
<1>1. /\ pc = "handshake" /\ UNCHANGED <<board, packet, chip, faults>>
      /\ TypeOK /\ Told /\ Believed /\ Counted /\ result = "pending" /\ toHost \in Seq(Signs)
  BY DEF ReceiveHandshake, IInv, TypeOK
<1>2. Told'
  BY <1>1 DEF Told, Programs, CommandNumber
<1>3. CASE pc' = "done" /\ result' = "fatal" /\ UNCHANGED toHost
  <2>1. TypeOK' /\ Believed'
    BY <1>1, <1>3 DEF TypeOK, Believed
  <2>2. Counted'
    BY <1>3 DEF Counted
  <2> QED  BY <1>2, <2>1, <2>2 DEF IInv
<1>4. CASE pc' = "ram" /\ result' = result /\ toHost # <<>> /\ toHost' = Tail(toHost)
  <2>1. Taken = 0 /\ Taken' = 0 /\ Dropped = 1 /\ Dropped' = 0 /\ Passed' = Passed
    BY <1>1, <1>4 DEF Taken, Dropped, Passed, Total
  <2>2. Within(toHost, 0, 1, Passed)
    BY <1>1, <2>1 DEF Counted, Within
  <2>3. toHost' \in Seq(Signs) /\ Within(toHost', 0, 0, Passed)
    BY <1>1, <1>4, <2>2, Shorter, PassedIsNat
  <2>4. Counted'
    BY <2>1, <2>3 DEF Counted, Within
  <2>5. TypeOK' /\ Believed'
    BY <1>1, <1>4, <2>3 DEF TypeOK, Believed
  <2> QED  BY <1>2, <2>4, <2>5 DEF IInv
<1> QED  BY <1>3, <1>4 DEF ReceiveHandshake, Await, Return

LEMMA Acknowledged ==
  ASSUME IInv, ReceiveAck
  PROVE  IInv'
<1> USE DEF board, chip, Launched, Stages
<1>1. /\ pc \in Stages /\ UNCHANGED <<board, packet, chip, faults>>
      /\ toHost # <<>> /\ toHost' = Tail(toHost)
      /\ TypeOK /\ Told /\ Believed /\ Counted /\ result = "pending" /\ toHost \in Seq(Signs)
  BY DEF ReceiveAck, IInv, TypeOK
<1>2. Told'
  BY <1>1 DEF Told, Programs, CommandNumber
<1>3. /\ Dropped = 0 /\ Within(toHost, Taken, 0, Passed) /\ Passed' = Passed
      /\ toHost' \in Seq(Signs)
  <2>1. Dropped = 0 /\ Passed' = Passed
    BY <1>1 DEF Dropped, Passed, Total
  <2>2. toHost' \in Seq(Signs)
    BY <1>1
  <2> QED  BY <1>1, <2>1, <2>2 DEF Counted, Within
<1>4. CASE pc' = "done" /\ result' = "fatal"
  <2>1. TypeOK' /\ Believed'
    BY <1>1, <1>3, <1>4 DEF TypeOK, Believed
  <2> QED  BY <1>2, <1>4, <2>1 DEF IInv, Counted
<1>5. CASE Head(toHost) = "ack"
  <2>1. Within(toHost', Taken + 1, 0, Passed)
    BY <1>1, <1>3, <1>5, Shorter, PassedIsNat
  <2>2. Taken + 1 <= Passed
    BY <2>1 DEF Within
  <2>3. CASE NextStage(pc) # "done" /\ Await(NextStage(pc))
    <3>1. \/ Programs /\ pc = "ram" /\ pc' = "program"
          \/ Programs /\ pc = "program" /\ pc' = "verify"
      BY <1>1, <2>3 DEF NextStage, Await
    <3>2. Taken' = Taken + 1 /\ Dropped' = 0 /\ result' = result /\ Programs' = Programs
      BY <1>1, <2>3, <3>1 DEF Taken, Dropped, Await, Programs
    <3>3. Counted'
      BY <1>3, <2>1, <3>2 DEF Counted, Within
    <3>4. TypeOK' /\ Believed'
      BY <1>1, <1>3, <3>1, <3>2 DEF TypeOK, Believed
    <3> QED  BY <1>2, <3>3, <3>4 DEF IInv
  <2>4. CASE NextStage(pc) = "done" /\ pc' \in {"response", "done"}
             /\ result' \in {"pending", "ok"}
             /\ (pc' = "response" => result' = "pending" /\ task = "response")
    <3>1. rom \notin Before
      BY <1>1, <2>2 DEF Before, Passed, Taken
    <3>2. Total = IF Programs THEN 3 ELSE 1
      BY <1>1, <3>1, Constants DEF Total, Told, Before, Programs, CommandNumber, TypeOK
    <3>3. rom \in Launched
      BY <1>1, <2>2, <2>4, <3>1, <3>2 DEF Passed, Taken, NextStage, Told, Before, TypeOK, Believed
    <3>4. TypeOK' /\ Believed'
      BY <1>1, <1>3, <2>4, <3>3 DEF TypeOK, Believed
    <3> QED  BY <1>2, <2>4, <3>4 DEF IInv, Counted
  <2> QED  BY <1>1, <1>5, <2>3, <2>4 DEF ReceiveAck, Accept, Return
<1> QED  BY <1>4, <1>5 DEF ReceiveAck, Accept, Return

\* The host's other steps.
LEMMA Waiting ==
  ASSUME IInv, Timeout \/ ReceiveResponse
  PROVE  IInv'
<1> USE DEF board, chip, Launched, Stages
<1>1. /\ UNCHANGED <<board, packet, chip>> /\ TypeOK /\ Told /\ Believed /\ Counted
      /\ toHost \in Seq(Signs)
  BY DEF Timeout, ReceiveResponse, IInv, TypeOK
<1>2. Told'
  BY <1>1 DEF Told, Programs, CommandNumber
<1>3. CASE Timeout
  <2>1. /\ pc \in Stages /\ UNCHANGED toHost
        /\ \/ UNCHANGED <<pc, result>>
           \/ pc' = "done" /\ result' = "fatal"
    BY <1>3 DEF Timeout
  <2>2. TypeOK' /\ Believed'
    BY <1>1, <2>1 DEF TypeOK, Believed, Programs
  <2>3. Counted'
    BY <1>1, <2>1 DEF Counted, Passed, Taken, Dropped, Total
  <2> QED  BY <1>2, <2>2, <2>3 DEF IInv
<1>4. CASE ReceiveResponse
  <2>1. pc = "response" /\ pc' = "done" /\ result' \in {"ok", "stepDown"}
    BY <1>4 DEF ReceiveResponse, Return
  <2>2. toHost' \in Seq(Signs)
    BY <1>1, <1>4 DEF ReceiveResponse
  <2>3. TypeOK' /\ Believed'
    BY <1>1, <2>1, <2>2 DEF TypeOK, Believed
  <2> QED  BY <1>2, <2>1, <2>3 DEF IInv, Counted
<1> QED  BY <1>3, <1>4

\* What IInv does not speak of.
LEMMA Unmoved ==
  ASSUME IInv, UNCHANGED <<board, packet, pc, result, toHost, rom, busy, command, ram, eeprom>>
  PROVE  IInv'
<1> USE DEF board, IInv
<1>1. TypeOK'
  BY DEF TypeOK
<1>2. Told'
  BY DEF Told, Programs, CommandNumber
<1>3. Believed'
  BY DEF Believed, Programs
<1>4. Passed' = Passed /\ Taken' = Taken /\ Dropped' = Dropped
  BY DEF Passed, Taken, Dropped, Total
<1>5. Counted'
  BY <1>4 DEF Counted
<1> QED  BY <1>1, <1>2, <1>3, <1>5

LEMMA Polling ==
  ASSUME IInv, SendTemplate \/ ClockOut
  PROVE  IInv'
<1> USE DEF board, host, Stages
<1>1. CASE Answer /\ rom \in Stages /\ busy = 0
  <2>1. /\ pc \in Stages \cup {"handshake"}
        /\ UNCHANGED <<board, packet, pc, result, command, ram, eeprom>>
    BY DEF SendTemplate, ClockOut
  <2> QED  BY <1>1, <2>1, Answering
<1>2. CASE UNCHANGED <<board, packet, pc, result, toHost, rom, busy, command, ram, eeprom>>
  <2> QED  BY <1>2, Unmoved
<1> QED  BY <1>1, <1>2 DEF SendTemplate, ClockOut

\* The ROM by itself.

LEMMA Working ==
  ASSUME IInv, Work \/ GiveUp
  PROVE  IInv'
<1> USE DEF board, host, Launched, Stages
<1>1. /\ UNCHANGED <<board, packet, host, toHost, command, ram>> /\ rom \in Stages
      /\ TypeOK /\ Told /\ Believed /\ Counted
  BY DEF Work, GiveUp, IInv
<1>2. CASE Work
  <2>1. /\ rom' = rom /\ busy > 0 /\ busy' = busy - 1 /\ busy \in Nat
        /\ \/ eeprom' = eeprom
           \/ rom = "program" /\ busy' = 0 /\ eeprom' \in {"torn", "programmed"}
    BY <1>1, <1>2 DEF Work, TypeOK
  <2>2. TypeOK' /\ Told' /\ Believed'
    <3>1. Programs' = Programs /\ CommandNumber(task)' = CommandNumber(task)
      BY <1>1 DEF Programs, CommandNumber
    <3>2. TypeOK'
      BY <1>1, <2>1 DEF TypeOK
    <3>3. Told'
      BY <1>1, <2>1, <3>1 DEF Told
    <3>4. Believed'
      BY <1>1, <2>1, <3>1 DEF Believed
    <3> QED  BY <3>2, <3>3, <3>4
  <2>3. Counted'
    BY <1>1, <2>1 DEF Counted, Passed, Taken, Dropped, Total
  <2> QED  BY <2>2, <2>3 DEF IInv
<1>3. CASE GiveUp
  <2>1. pc' = "done" /\ rom' = "dead" /\ UNCHANGED <<busy, eeprom>>
    BY <1>3 DEF GiveUp
  <2>2. TypeOK' /\ Told' /\ Believed'
    BY <1>1, <2>1 DEF TypeOK, Told, Believed, Programs, CommandNumber
  <2> QED  BY <2>1, <2>2 DEF IInv, Counted
<1> QED  BY <1>2, <1>3

LEMMA Launching ==
  ASSUME IInv, Launch
  PROVE  IInv'
<1> USE DEF board, host, Launched, Stages
<1>1. /\ UNCHANGED <<board, packet, host, busy, command, ram, eeprom>>
      /\ rom = "launch" /\ rom' \in {"off", "run"}
      /\ TypeOK /\ Told /\ Believed /\ Counted /\ toHost \in Seq(Signs)
  BY DEF Launch, IInv, TypeOK
<1>2. /\ toHost' \in Seq(Signs)
      /\ \/ toHost' = toHost
         \/ /\ Len(toHost') = Len(toHost) + 1
            /\ \A k \in 1 .. Len(toHost) : toHost'[k] = toHost[k]
            /\ toHost'[Len(toHost) + 1] # "ack"
  <2>1. CASE UNCHANGED toHost
    BY <2>1, <1>1
  <2>2. CASE Arrive("response")
    <3>1. "response" \in Signs
      BY DEF Signs
    <3> QED  BY <3>1, <2>2, <1>1, Arriving
  <2> QED  BY <2>1, <2>2 DEF Launch
<1>3. Counted'
  <2>1. Passed' = Passed /\ Taken' = Taken /\ Dropped' = Dropped /\ pc' = pc
    BY <1>1 DEF Passed, Total, Taken, Dropped
  <2>2. CASE pc \in Stages \cup {"handshake"}
    <3>1. Within(toHost, Taken, Dropped, Passed)
      BY <1>1, <2>2 DEF Counted, Within
    <3>2. Within(toHost', Taken, Dropped, Passed)
      BY <3>1, <1>1, <1>2, PassedIsNat, Longer
    <3> QED  BY <2>1, <3>2 DEF Counted, Within
  <2> QED  BY <2>1, <2>2 DEF Counted
<1>4. TypeOK' /\ Told' /\ Believed'
  BY <1>1, <1>2 DEF TypeOK, Told, Believed, Programs, CommandNumber
<1> QED  BY <1>3, <1>4 DEF IInv

LEMMA Inductive == IInv /\ [Next]_vars => IInv'
<1> SUFFICES ASSUME IInv, [Next]_vars PROVE IInv'
  OBVIOUS
<1>1. CASE Next
  BY <1>1, Resetting, Sending, Handshaking, Acknowledged, Waiting, Polling, Working, Launching
     DEF Next, Host, ROM
<1>2. CASE UNCHANGED vars
  BY <1>2, Unmoved DEF vars, board, host, chip
<1> QED  BY <1>1, <1>2

\* What the ROM holds begins with the image.
LEMMA BeginsWithImage == \A i \in Images : SubSeq(Completed(i), 1, Len(i)) = i
<1> SUFFICES ASSUME NEW i \in Images PROVE SubSeq(Completed(i), 1, Len(i)) = i
  OBVIOUS
<1> DEFINE n == Len(i)
           done == Completed(i)
           t == SubSeq(done, 1, n)
<1>1. i \in Seq(Octet) /\ n \in Nat
  BY Parameters DEF Valid, Octet
<1>2. /\ done \in Seq(Octet) /\ Len(done) \in Nat /\ n <= Len(done)
      /\ \A k \in 1..n : done[k] = i[k]
  <2> DEFINE longs == (n + 3) \div 4
  <2>1. longs \in Nat /\ longs = (n + 3) \div 4
    <3> HIDE DEF n
    <3> QED BY <1>1
  <2> HIDE DEF longs
  <2>2. /\ 4 * longs \in n..n + 3 /\ done \in Seq(Octet) /\ Len(done) = 4 * longs
        /\ \A k \in 1..n : done[k] = i[k]
    BY <1>1, <2>1, LastLong
  <2> HIDE DEF n, done
  <2> QED BY <1>1, <2>1, <2>2
<1> HIDE DEF n, done
<1>3. t = [k \in 1..n |-> i[k]]
  <2>1. t = [k \in 1..n - 1 + 1 |-> done[k + 1 - 1]]
    BY <1>1, <1>2
  <2> HIDE DEF t
  <2>2. n - 1 + 1 = n /\ \A k \in 1..n : k + 1 - 1 = k
    BY <1>1
  <2> QED BY <2>1, <2>2, <1>2
<1>4. i = [k \in 1..n |-> i[k]]
  BY <1>1 DEF n
<1> QED BY <1>3, <1>4 DEF n, done, t

\* What the host has counted is always true of the ROM.
THEOREM Invariance == Spec => []IInv
<1>1. Init => IInv
  BY Initially
<1> QED  BY <1>1, Inductive, PTL DEF Spec

\* loadImage returns 0 only if the ROM has the image in its RAM, bit by bit and
\* with nothing behind it that the call frame does not overwrite, launches it or
\* has verified its EEPROM, and was told the right thing.
THEOREM SuccessIsTrue == Spec => []SuccessIsReal
<1>1. ASSUME IInv, result = "ok" PROVE SuccessIsReal
  <2>1. /\ image \in Images /\ rom \in Launched /\ command = CommandNumber(task)
        /\ ram = Completed(image) /\ Sum(ram) = 0
        /\ Programs => eeprom = "programmed"
    BY <1>1 DEF IInv, TypeOK, Told, Believed, Launched
  <2>2. Covered(image)
    BY <2>1, CoveredIsAccepted
  <2>3. \A k \in Len(image) + 1 .. Len(ram) : Format!InFrame(image, k - 1)
    BY <2>1, <2>2 DEF Covered
  <2>4. SubSeq(ram, 1, Len(image)) = image
    BY <2>1, BeginsWithImage
  <2> QED  BY <2>1, <2>3, <2>4 DEF SuccessIsReal
<1>2. IInv => SuccessIsReal
  BY <1>1 DEF SuccessIsReal
<1> QED  BY <1>2, Invariance, PTL

-----------------------------------------------------------------------------
(***************************************************************************)
(* The single-stage loader is an attempt like another.                     *)
(***************************************************************************)

\* A step that neither returns nor moves the ROM past its verifications is none
\* of the attempt's.
LEMMA Unseen ==
  ASSUME UNCHANGED <<task, result, eeprom>>,
         rom' = rom \/ {rom, rom'} \subseteq {"old", "held", "listen", "ram", "program", "verify"}
  PROVE  UNCHANGED Attempt!attempt
BY DEF Attempt!attempt

\* The host returns at the end of the attempt only.
LEMMA ReturnSteps ==
  ASSUME IInv, IInv', ReceiveHandshake \/ ReceiveAck \/ Timeout \/ ReceiveResponse
  PROVE  [Attempt!Next]_(Attempt!attempt)
<1> USE DEF board, chip
<1>1. UNCHANGED <<task, rom, eeprom>> /\ result = "pending"
  BY DEF ReceiveHandshake, ReceiveAck, Timeout, ReceiveResponse, IInv, TypeOK, Stages
<1>2. CASE result' = "pending" \/ task = "response"
  BY <1>1, <1>2 DEF Attempt!attempt
<1>3. CASE result' \in {"ok", "fatal"} /\ task # "response"
  <2>1. result' = "ok" => rom \in {"launch", "run", "off"}
    BY <1>1 DEF IInv, Believed, Launched
  <2> QED  BY <1>1, <1>3, <2>1 DEF Attempt!Next, Attempt!Return
<1>4. result' = "stepDown" => task = "response"
  <2>1. ASSUME result' = "stepDown" PROVE pc = "response"
    <3>1. ~ReceiveHandshake /\ ~Timeout
      BY <1>1, <2>1 DEF ReceiveHandshake, Timeout, Await, Return
    <3>2. ~ReceiveAck
      BY <1>1, <2>1 DEF ReceiveAck, Await, Return
    <3> QED  BY <3>1, <3>2 DEF ReceiveResponse
  <2> QED  BY <2>1 DEF IInv, Believed
<1>5. result' \in {"pending", "ok", "fatal", "stepDown"}
  BY DEF IInv, TypeOK
<1> QED  BY <1>2, <1>3, <1>4, <1>5

\* The ROM decides what becomes of the image.
LEMMA AnswerSteps ==
  ASSUME IInv, IInv', SendTemplate \/ ClockOut
  PROVE  [Attempt!Next]_(Attempt!attempt)
<1> USE DEF board, host, Stages
<1>1. UNCHANGED <<task, result, eeprom, command>> /\ result = "pending"
  BY DEF SendTemplate, ClockOut, IInv, TypeOK
<1>2. CASE rom' = rom
  BY <1>1, <1>2, Unseen
<1>3. CASE Answer /\ rom \in Stages
  <2>1. rom' \in {"dead", "program", "verify", "launch"}
    BY <1>3 DEF Answer, Advance, Enter
  <2>2. CASE rom' \in {"program", "verify"}
    BY <1>1, <1>3, <2>2, Unseen
  <2>3. CASE rom' = "dead"
    BY <1>1, <1>3, <2>3 DEF Attempt!Next, Attempt!Leave
  <2>4. CASE rom' = "launch"
    <3>1. Programs => eeprom = "programmed"
      <4>1. Told' /\ Programs' = Programs
        BY <1>1 DEF IInv, Programs
      <4> QED  BY <4>1, <1>1, <2>4 DEF Told, Launched
    <3> QED  BY <1>1, <1>3, <2>4, <3>1, Constants
             DEF Attempt!Next, Attempt!Commit, Attempt!Running, Programs, IInv, TypeOK
  <2> QED  BY <2>1, <2>2, <2>3, <2>4
<1> QED  BY <1>2, <1>3 DEF SendTemplate, ClockOut

\* The ROM by itself.
LEMMA ROMSteps ==
  ASSUME IInv, IInv', Work \/ Launch \/ GiveUp
  PROVE  [Attempt!Next]_(Attempt!attempt)
<1> USE DEF board, host, Stages
<1>1. UNCHANGED <<task, result>>
  BY DEF Work, Launch, GiveUp
<1>2. CASE Work
  <2>1. CASE UNCHANGED eeprom
    BY <1>1, <1>2, <2>1, Unseen DEF Work
  <2>2. CASE eeprom' # eeprom
    <3>1. rom = "program" /\ rom' = rom /\ busy > 0 /\ eeprom' \in {"torn", "programmed"}
      BY <1>2, <2>2 DEF Work
    <3>2. Programs /\ eeprom = "old" /\ result \in {"pending", "fatal"}
      BY <3>1 DEF IInv, Told, TypeOK, Believed, Launched
    <3> QED  BY <1>1, <3>1, <3>2, Constants
             DEF Attempt!Next, Attempt!ProgramEEPROM, Attempt!Running, Programs
  <2> QED  BY <2>1, <2>2
<1>3. CASE Launch
  BY <1>1, <1>3 DEF Launch, Attempt!Next, Attempt!Leave
<1>4. CASE GiveUp
  BY <1>1, <1>4 DEF GiveUp, Attempt!Next, Attempt!Leave
<1> QED  BY <1>2, <1>3, <1>4

\* The single-stage loader implements LoadAttempt, which a load session is
\* written against.
THEOREM AttemptIsImplemented == Spec => AttemptSpec
<1>1. Init => Attempt!Init
  BY DEF Init, Attempt!Init
<1>2. IInv /\ IInv' /\ [Next]_vars => [Attempt!Next]_(Attempt!attempt)
  <2> SUFFICES ASSUME IInv, IInv', [Next]_vars PROVE [Attempt!Next]_(Attempt!attempt)
    OBVIOUS
  <2>1. CASE AssertReset \/ DeassertReset \/ FlushInput \/ SendPacket
    <3>1. UNCHANGED <<task, result, eeprom>>
      BY <2>1 DEF AssertReset, DeassertReset, FlushInput, SendPacket, board, chip
    <3>2. rom' = rom \/ {rom, rom'} \subseteq {"old", "held", "listen", "ram"}
      BY <2>1 DEF AssertReset, DeassertReset, FlushInput, SendPacket, chip, Enter, IInv, Believed
    <3> QED  BY <3>1, <3>2, Unseen
  <2>2. CASE UNCHANGED vars
    BY <2>2, Unseen DEF vars, board, host, chip
  <2> QED  BY <2>1, <2>2, ReturnSteps, AnswerSteps, ROMSteps DEF Next, Host, ROM
<1> QED  BY <1>1, <1>2, Invariance, PTL DEF Spec, AttemptSpec, Attempt!Spec
-----------------------------------------------------------------------------
(***************************************************************************)
(* With nothing lost, damaged or late the host does not fail.              *)
(***************************************************************************)

\* The buffer, by what the host still has to take.
Buffer(s, owed, dropped, named) ==
  /\ Len(s) = owed + named
  /\ \A k \in 1 .. owed : s[k] = IF k <= dropped THEN "handshake" ELSE "ack"

\* What is still to come of the handshake and the acknowledgements is one less
\* when the first one is taken.
LEMMA Taking ==
  ASSUME NEW s \in Seq(Signs), NEW n \in Nat, n > 0, NEW d \in {0, 1}, NEW m \in {0, 1},
         Buffer(s, n, d, m)
  PROVE  /\ s # <<>> /\ Head(s) = IF d = 1 THEN "handshake" ELSE "ack"
         /\ Tail(s) \in Seq(Signs) /\ Buffer(Tail(s), n - 1, 0, m)
<1>1. Len(s) = n + m /\ s # <<>>
  BY DEF Buffer
<1>2. /\ Head(s) = s[1] /\ Tail(s) \in Seq(Signs) /\ Len(Tail(s)) = Len(s) - 1
      /\ \A k \in 1 .. Len(s) - 1 : Tail(s)[k] = s[k + 1]
  BY <1>1
<1>3. s[1] = IF d = 1 THEN "handshake" ELSE "ack"
  <2>1. 1 \in 1 .. n
    OBVIOUS
  <2> QED  BY <2>1 DEF Buffer
<1>4. ASSUME NEW k \in 1 .. n - 1 PROVE Tail(s)[k] = "ack"
  <2>1. k + 1 \in 1 .. n /\ k \in 1 .. Len(s) - 1 /\ ~(k + 1 <= d)
    BY <1>1
  <2>2. s[k + 1] = "ack"
    BY <2>1 DEF Buffer
  <2> QED  BY <1>2, <2>1, <2>2
<1>5. Buffer(Tail(s), n - 1, 0, m)
  BY <1>1, <1>2, <1>4 DEF Buffer
<1> QED  BY <1>1, <1>2, <1>3, <1>5

\* It is one more when the ROM says that a stage went well.
LEMMA Adding ==
  ASSUME NEW s \in Seq(Signs), NEW n \in Nat, NEW d \in {0, 1}, d <= n, Buffer(s, n, d, 0)
  PROVE  Buffer(Append(s, "ack"), n + 1, d, 0) /\ Buffer(Append(s, "response"), n, d, 1)
<1>1. Len(s) = n
  BY DEF Buffer
<1>2. "ack" \in Signs /\ "response" \in Signs
  BY DEF Signs
<1>3. ASSUME NEW b \in Signs
      PROVE  /\ Len(Append(s, b)) = n + 1 /\ Append(s, b)[n + 1] = b
             /\ \A k \in 1 .. n : Append(s, b)[k] = s[k]
  BY <1>1
<1>4. Buffer(Append(s, "ack"), n + 1, d, 0)
  <2>1. ASSUME NEW k \in 1 .. n + 1
        PROVE  Append(s, "ack")[k] = IF k <= d THEN "handshake" ELSE "ack"
    <3>1. CASE k \in 1 .. n
      BY <3>1, <1>2, <1>3 DEF Buffer
    <3>2. CASE k = n + 1
      <4>1. ~(k <= d) /\ Append(s, "ack")[n + 1] = "ack"
        BY <3>2, <1>2, <1>3
      <4> QED  BY <3>2, <4>1
    <3>3. k \in 1 .. n \/ k = n + 1
      OBVIOUS
    <3> QED  BY <3>1, <3>2, <3>3
  <2> QED  BY <2>1, <1>2, <1>3 DEF Buffer
<1>5. Buffer(Append(s, "response"), n, d, 1)
  BY <1>2, <1>3 DEF Buffer
<1> QED  BY <1>4, <1>5

\* The part of Smooth about the buffer.
Answered ==
  pc \in Stages \cup {"handshake", "response"} =>
    rom \notin Before /\ ram = Completed(image) /\ Buffer(toHost, Owed, Dropped, Named)

\* Smooth in parts.
LEMMA PartsAfter ==
  Smooth' <=> /\ (faults \in Nat /\ retries \in Int /\ packet.heard)'
              /\ rom' \in Stages => busy' <= Slowest[rom']
              /\ Fit' => /\ result' \in {"pending", "ok"}
                         /\ pc' # "done" => rom' # "dead"
                         /\ rom' = "verify" \/ (rom' = "program" /\ busy' = 0) => eeprom' = "programmed"
                         /\ Answered'
                         /\ pc' \in Stages /\ toHost' = <<>> => Patient'
BY DEF Smooth, Answered, Buffer, Before

LEMMA Parts ==
  Smooth <=> /\ faults \in Nat /\ retries \in Int /\ packet.heard
             /\ rom \in Stages => busy <= Slowest[rom]
             /\ Fit => /\ result \in {"pending", "ok"}
                       /\ pc # "done" => rom # "dead"
                       /\ rom = "verify" \/ (rom = "program" /\ busy = 0) => eeprom = "programmed"
                       /\ Answered
                       /\ pc \in Stages /\ toHost = <<>> => Patient
BY DEF Smooth, Answered, Buffer, Before

\* A step in which nothing goes wrong came after none in which something did.
LEMMA FitBefore ==
  ASSUME faults \in Nat, UNCHANGED board, NoFault \/ Fault
  PROVE  faults' \in Nat /\ (Fit' => Fit /\ NoFault)
BY DEF Fault, NoFault, Fit, board, Programs

\* How much is owed, and what the host waits for when nothing has come.
LEMMA Debts ==
  ASSUME IInv, Answered, rom # "dead", pc \in Stages \cup {"handshake", "response"}
  PROVE  /\ Owed \in Nat /\ Dropped \in {0, 1} /\ Dropped <= Owed /\ Named \in {0, 1}
         /\ Total = (IF Programs THEN 3 ELSE 1)
         /\ toHost = <<>> <=> Owed + Named = 0
         /\ pc \in Stages /\ Owed = 0 /\ Named = 0 => rom = pc
         /\ pc \in Stages /\ toHost # <<>> => Owed > 0
         /\ Named = 1 => task = "response" /\ rom \in Launched /\ ~Programs
<1> USE DEF Stages, Launched
<1>1. /\ rom \notin Before /\ Buffer(toHost, Owed, Dropped, Named)
      /\ TypeOK /\ Told /\ Believed /\ Counted /\ command = CommandNumber(task)
      /\ toHost \in Seq(Signs)
  BY DEF Answered, IInv, TypeOK, Told, Before
<1>2. Total = IF Programs THEN 3 ELSE 1
  BY <1>1, Constants DEF Total, Programs, CommandNumber, TypeOK
<1>3. Named \in {0, 1} /\ (Named = 1 => task = "response" /\ rom \in Launched /\ ~Programs)
  BY DEF Named, Programs
<1>4. rom \in Stages \cup Launched
  BY <1>1 DEF TypeOK, Before
<1>5. /\ Dropped = IF pc = "handshake" THEN 1 ELSE 0
      /\ Owed = Passed + Dropped - IF pc = "response" THEN 1 ELSE Taken
      /\ Taken <= Passed \/ pc = "response"
      /\ Passed \in Nat /\ Taken \in Nat
  <2>1. pc # "response" => Taken <= Passed
    BY <1>1 DEF Counted
  <2> QED  BY <2>1, PassedIsNat DEF Dropped, Owed
<1>6. pc = "response" => Passed = Total /\ Total \in {1, 3}
  BY <1>1, <1>2 DEF Believed, Passed
<1>7. Owed \in Nat /\ Dropped <= Owed
  <2>1. CASE pc = "response"
    BY <2>1, <1>5, <1>6
  <2>2. CASE pc # "response"
    BY <2>2, <1>5
  <2> QED  BY <2>1, <2>2
<1>8. Len(toHost) = Owed + Named
  BY <1>1 DEF Buffer
<1>9. toHost = <<>> <=> Owed + Named = 0
  BY <1>1, <1>8
<1>10. ASSUME pc \in Stages, Owed = 0 PROVE rom = pc
  <2>1. Passed = Taken /\ (pc \in {"program", "verify"} => Programs)
    BY <1>1, <1>5, <1>10 DEF Believed
  <2>2. pc = "ram" => Passed = 0
    BY <2>1, <1>10 DEF Taken
  <2>3. pc = "program" => Passed = 1 /\ Total = 3
    BY <2>1, <1>1, <1>2, <1>10 DEF Taken, Believed
  <2>4. pc = "verify" => Passed = 2 /\ Total = 3
    BY <2>1, <1>1, <1>2, <1>10 DEF Taken, Believed
  <2> QED  BY <1>2, <1>4, <1>10, <2>2, <2>3, <2>4 DEF Passed
<1>11. ASSUME pc \in Stages, toHost # <<>> PROVE Owed > 0
  <2>1. CASE Owed = 0
    <3>1. rom = pc
      BY <1>10, <1>11, <2>1
    <3>2. Named = 0
      BY <1>11, <3>1 DEF Named
    <3> QED  BY <1>9, <1>11, <2>1, <3>2
  <2> QED  BY <2>1, <1>7
<1> QED  BY <1>2, <1>3, <1>5, <1>7, <1>9, <1>10, <1>11
LEMMA SmoothInitially == Init => Smooth
<1> SUFFICES ASSUME Init PROVE Smooth
  OBVIOUS
<1>1. packet.heard
  BY EveryImageIsUnderstood DEF Init, Heard
<1>2. faults = 0 /\ retries = 0 /\ result = "pending" /\ pc = "reset" /\ rom = "old"
  BY DEF Init
<1> QED  BY <1>1, <1>2, Parts DEF Stages, Answered

\* Until the packet is sent nothing is owed.
LEMMA SmoothResetting ==
  ASSUME IInv, Smooth, AssertReset \/ DeassertReset \/ FlushInput
  PROVE  Smooth'
<1> USE DEF Stages
<1>1. /\ UNCHANGED <<board, packet, retries, result, busy, eeprom, faults>>
      /\ pc \in {"reset", "held", "flush"} /\ pc' \in {"held", "flush", "packet"}
      /\ rom' \in Before
  BY DEF AssertReset, DeassertReset, FlushInput, chip, IInv, Believed, Before
<1>2. result = "pending"
  BY <1>1 DEF IInv, TypeOK
<1>3. faults \in Nat /\ retries \in Int /\ packet.heard
  BY Parts
<1>4. (faults \in Nat /\ retries \in Int /\ packet.heard)'
  BY <1>1, <1>3
<1>5. Answered'
  BY <1>1 DEF Answered
<1> QED  BY <1>1, <1>2, <1>4, <1>5, PartsAfter DEF Before

LEMMA SmoothSending ==
  ASSUME IInv, Smooth, SendPacket
  PROVE  Smooth'
<1> USE DEF Stages
<1>0. faults \in Nat /\ retries \in Int /\ packet.heard /\ (rom \in Stages => busy <= Slowest[rom])
  BY Parts
<1>1. /\ pc = "packet" /\ pc' = "handshake" /\ UNCHANGED <<board, packet, retries, result, eeprom>>
      /\ toHost = <<>> /\ rom \in Before /\ result = "pending"
      /\ (NoFault \/ Fault)
  BY DEF SendPacket, IInv, Believed, Before, TypeOK
<1>2. faults' \in Nat /\ (Fit' => Fit /\ NoFault)
  BY <1>0, <1>1, FitBefore
<1>3. rom' \in Stages => busy' <= Slowest[rom']
  <2>1. CASE Enter("ram")
    BY <2>1, Constants DEF Enter
  <2>2. CASE UNCHANGED chip
    BY <2>2, <1>0 DEF chip
  <2> QED  BY <2>1, <2>2 DEF SendPacket
<1>4. ASSUME Fit'
      PROVE  rom' = "ram" /\ ram' = Completed(image) /\ toHost' = Append(<<>>, "handshake")
  <2>1. version = 1 /\ version # 0 /\ ~Fault
    BY <1>0, <1>2, <1>4 DEF Fit, NoFault, Fault
  <2>2. VersionField(VersionBytes(version)) = 1
    BY <2>1, Tables
  <2>3. rom' = "ram" /\ ram' = packet.image /\ toHost' = Append(toHost, "handshake")
    BY <1>0, <2>1, <2>2 DEF SendPacket, Enter
  <2>4. packet.image = Completed(image)
    BY <1>0 DEF IInv, Told
  <2> QED  BY <2>3, <2>4, <1>1
<1>5. Fit' => Answered'
  <2> SUFFICES ASSUME Fit' PROVE Answered'
    OBVIOUS
  <2>1. rom' = "ram" /\ ram' = Completed(image') /\ toHost' = Append(<<>>, "handshake")
    BY <1>1, <1>4 DEF board
  <2>2. Dropped' = 1 /\ Owed' = 1 /\ Named' = 0
    BY <1>1, <2>1 DEF Dropped, Owed, Named, Taken, Passed, Launched
  <2>3. Buffer(Append(<<>>, "handshake"), 1, 1, 0)
    <3>1. Append(<<>>, "handshake") = <<"handshake">>
      OBVIOUS
    <3> QED  BY <3>1 DEF Buffer
  <2> QED  BY <2>1, <2>2, <2>3 DEF Answered, Before
<1>6. (faults \in Nat /\ retries \in Int /\ packet.heard)'
  BY <1>0, <1>1, <1>2
<1>7. Fit' => rom' = "ram"
  BY <1>4
<1> QED  BY <1>1, <1>3, <1>5, <1>6, <1>7, PartsAfter

\* The host takes the handshake.
LEMMA SmoothHandshaking ==
  ASSUME IInv, Smooth, ReceiveHandshake
  PROVE  Smooth'
<1> USE DEF Stages
<1>0. faults \in Nat /\ retries \in Int /\ packet.heard /\ (rom \in Stages => busy <= Slowest[rom])
  BY Parts
<1>1. /\ pc = "handshake" /\ UNCHANGED <<board, packet, chip, faults>>
      /\ result = "pending" /\ toHost \in Seq(Signs)
  BY DEF ReceiveHandshake, IInv, TypeOK
<1>2. UNCHANGED <<image, task, rom, busy, worked, command, ram, eeprom>> /\ Fit' = Fit
  BY <1>1 DEF board, chip, Fit, Programs
<1>3. retries' \in Int
  BY <1>0, Constants DEF ReceiveHandshake, Await, Return
<1>4. ASSUME Fit
      PROVE  /\ pc' = "ram" /\ asked' = FALSE /\ retries' = Polls["ram"] /\ result' = "pending"
             /\ Answered' /\ (toHost' = <<>> => Patient')
  <2>1. Answered /\ rom # "dead"
    BY <1>1, <1>4, Parts
  <2>2. /\ Owed \in Nat /\ Dropped = 1 /\ Owed > 0 /\ Named \in {0, 1}
        /\ Buffer(toHost, Owed, Dropped, Named) /\ rom \notin Before /\ ram = Completed(image)
    BY <1>1, <2>1, Debts DEF Answered, Dropped
  <2>3. /\ toHost # <<>> /\ Head(toHost) = "handshake"
        /\ Buffer(Tail(toHost), Owed - 1, 0, Named) /\ Tail(toHost) \in Seq(Signs)
    BY <1>1, <2>2, Taking
  <2>4. /\ pc' = "ram" /\ asked' = FALSE /\ retries' = Polls["ram"] /\ result' = "pending"
        /\ toHost' = Tail(toHost)
    BY <1>1, <2>3 DEF ReceiveHandshake, Await
  <2>5. Dropped' = 0 /\ Owed' = Owed - 1 /\ Named' = Named
    BY <1>1, <1>2, <2>4, PassedIsNat DEF Dropped, Owed, Named, Taken, Passed, Total
  <2>6. Answered'
    BY <1>2, <2>2, <2>3, <2>4, <2>5 DEF Answered
  <2>7. ASSUME toHost' = <<>> PROVE Patient'
    <3>1. Len(toHost') = 0
      BY <2>7
    <3>2. Owed' = 0 /\ Owed' = Passed
      BY <1>1, <2>2, <2>3, <2>4, <2>5, <3>1, PassedIsNat DEF Buffer, Owed, Dropped, Taken
    <3>3. rom = "ram"
      BY <1>2, <2>1, <2>2, <3>2, PassedIsNat DEF Passed, IInv, TypeOK, Before, Launched
    <3>4. busy <= Slowest["ram"] /\ Slowest["ram"] < Polls["ram"] /\ busy \in Nat
      BY <1>0, <3>3, Parameters DEF IInv, TypeOK
    <3> QED  BY <1>2, <2>4, <3>4, Constants DEF Patient
  <2> QED  BY <2>4, <2>6, <2>7
<1>5. (faults \in Nat /\ retries \in Int /\ packet.heard)'
  BY <1>0, <1>1, <1>3
<1>6. Fit => rom # "dead" /\ (rom = "verify" \/ (rom = "program" /\ busy = 0) => eeprom = "programmed")
  BY <1>1, Parts
<1> QED  BY <1>0, <1>2, <1>4, <1>5, <1>6, PartsAfter

\* The ROM has finished a stage, and says so.
LEMMA SmoothAnswering ==
  ASSUME IInv, Smooth, Answer, rom \in Stages, busy = 0, pc \in Stages \cup {"handshake"},
         UNCHANGED <<board, packet, pc, result, retries, command, ram, eeprom>>
  PROVE  Smooth'
<1> USE DEF Stages
<1>0. faults \in Nat /\ retries \in Int /\ packet.heard
  BY Parts
<1>1. /\ result = "pending" /\ toHost \in Seq(Signs) /\ TypeOK /\ Told /\ Believed
      /\ command = CommandNumber(task) /\ (NoFault \/ Fault) /\ Programs' = Programs
  BY DEF IInv, TypeOK, Told, Answer, Arrive, board, Programs
<1>2. faults' \in Nat /\ (Fit' => Fit /\ NoFault)
  BY <1>0, <1>1, FitBefore
<1>3. rom' \in Stages => busy' <= Slowest[rom']
  BY Constants DEF Answer, Advance, Enter
<1>4. ASSUME Fit'
      PROVE  /\ rom' \in {"program", "verify", "launch"}
             /\ rom' = "program" => busy' > 0
             /\ rom' = "verify" => eeprom = "programmed"
             /\ Answered' /\ toHost' # <<>>
  <2>1. Answered /\ rom # "dead" /\ Fit /\ ~Fault
    BY <1>0, <1>2, <1>4, Parts DEF NoFault, Fault
  <2>2. /\ Owed \in Nat /\ Dropped \in {0, 1} /\ Dropped <= Owed /\ Named = 0
        /\ Buffer(toHost, Owed, Dropped, Named) /\ rom \notin Before /\ ram = Completed(image)
        /\ Total = IF Programs THEN 3 ELSE 1
    BY <2>1, Debts DEF Answered, Launched
  <2>3. /\ rom = "ram" => Sum(ram) = 0
        /\ rom = "program" => hasEEPROM /\ eeprom = "programmed" /\ Programs
        /\ rom = "verify" => eeprom = "programmed" /\ Programs
    BY <1>1, <2>1, <2>2, CoveredIsAccepted, Parts DEF TypeOK, Told, Fit
  <2>4. Verified
    BY <2>3 DEF Verified
  <2>5. toHost' = Append(toHost, "ack")
    BY <2>1, <2>4 DEF Answer, Arrive
  <2>6. command \in {2, 3} <=> Programs
    BY <1>1, Constants DEF CommandNumber, Programs, TypeOK
  <2>7. \/ rom = "ram" /\ Programs /\ rom' = "program" /\ busy' > 0
        \/ rom = "ram" /\ ~Programs /\ rom' = "launch"
        \/ rom = "program" /\ rom' = "verify"
        \/ rom = "verify" /\ rom' = "launch"
    BY <2>4, <2>6, Constants DEF Answer, Advance, Enter
  <2>8. Dropped' = Dropped /\ Taken' = Taken /\ Named' = 0 /\ Total' = Total
    BY <2>7 DEF Dropped, Taken, Named, Total
  <2>9. Passed' = Passed + 1
    BY <2>2, <2>3, <2>7, <2>8 DEF Passed, Launched
  <2>10. Owed' = Owed + 1
    BY <2>8, <2>9, PassedIsNat DEF Owed
  <2>11. Buffer(toHost', Owed', Dropped', Named')
    BY <1>1, <2>2, <2>5, <2>8, <2>10, Adding
  <2>12. Answered'
    BY <2>2, <2>7, <2>11 DEF Answered, Before, board
  <2>13. toHost' # <<>>
    BY <1>1, <2>5 DEF Signs
  <2> QED  BY <2>3, <2>7, <2>12, <2>13
<1>5. (faults \in Nat /\ retries \in Int /\ packet.heard)'
  BY <1>0, <1>2
<1>6. Fit' => (rom' = "verify" \/ (rom' = "program" /\ busy' = 0) => eeprom' = "programmed")
  BY <1>4
<1> QED  BY <1>1, <1>3, <1>4, <1>5, <1>6, PartsAfter

\* The host takes an acknowledgement.
LEMMA SmoothAcknowledged ==
  ASSUME IInv, Smooth, ReceiveAck
  PROVE  Smooth'
<1> USE DEF Stages
<1>0. faults \in Nat /\ retries \in Int /\ packet.heard /\ (rom \in Stages => busy <= Slowest[rom])
  BY Parts
<1>1. /\ pc \in Stages /\ UNCHANGED <<board, packet, chip, faults>>
      /\ toHost # <<>> /\ toHost' = Tail(toHost)
      /\ result = "pending" /\ toHost \in Seq(Signs)
  BY DEF ReceiveAck, IInv, TypeOK
<1>2. UNCHANGED <<image, task, rom, busy, worked, command, ram, eeprom>> /\ Fit' = Fit /\ Programs' = Programs
  BY <1>1 DEF board, chip, Fit, Programs
<1>3. retries' \in Int
  <2>1. retries' = retries \/ \E stage \in Stages : retries' = Polls[stage]
    BY <1>1 DEF ReceiveAck, Await, Return, NextStage
  <2> QED  BY <1>0, <2>1, Constants
<1>4. ASSUME Fit
      PROVE  /\ result' \in {"pending", "ok"} /\ Answered'
             /\ (pc' \in Stages /\ toHost' = <<>> => Patient')
  <2>1. Answered /\ rom # "dead"
    BY <1>1, <1>4, Parts
  <2>2. /\ Owed \in Nat /\ Dropped = 0 /\ Owed > 0 /\ Named \in {0, 1}
        /\ Buffer(toHost, Owed, Dropped, Named) /\ rom \notin Before /\ ram = Completed(image)
        /\ Total = IF Programs THEN 3 ELSE 1
    BY <1>1, <2>1, Debts DEF Answered, Dropped
  <2>3. /\ Head(toHost) = "ack"
        /\ Buffer(Tail(toHost), Owed - 1, 0, Named) /\ Tail(toHost) \in Seq(Signs)
    BY <1>1, <2>2, Taking
  <2>4. \/ pc' = "done" /\ result' = "ok"
        \/ pc' = "response" /\ result' = "pending" /\ pc = "ram"
        \/ /\ Programs /\ pc = "ram" /\ pc' = "program" /\ asked' = FALSE
           /\ retries' = Polls["program"] /\ result' = "pending"
        \/ /\ Programs /\ pc = "program" /\ pc' = "verify" /\ asked' = FALSE
           /\ retries' = Polls["verify"] /\ result' = "pending"
    BY <1>1, <2>3 DEF ReceiveAck, Accept, NextStage, Await, Return, Programs, IInv, Believed
  <2>5. CASE pc' = "done" /\ result' = "ok"
    BY <2>5 DEF Answered
  <2>6. CASE pc' # "done"
    <3>1. Dropped' = 0 /\ Owed' = Owed - 1 /\ Named' = Named /\ Passed' = Passed
      BY <1>1, <1>2, <2>4, <2>6, PassedIsNat DEF Dropped, Owed, Named, Taken, Passed, Total
    <3>2. Answered'
      BY <1>1, <1>2, <2>2, <2>3, <3>1 DEF Answered
    <3>3. ASSUME pc' \in Stages, toHost' = <<>> PROVE Patient'
      <4>1. Len(toHost') = 0
        BY <3>3
      <4>2. Owed' = 0
        BY <1>1, <2>2, <2>3, <3>1, <4>1 DEF Buffer
      <4>3. Passed = IF pc' = "program" THEN 1 ELSE 2
        BY <2>4, <3>1, <3>3, <4>2, PassedIsNat DEF Owed, Taken
      <4>4. rom = pc'
        BY <1>1, <2>1, <2>2, <2>4, <3>3, <4>3 DEF Passed, IInv, TypeOK, Before, Launched
      <4>5. busy <= Slowest[pc'] /\ Slowest[pc'] < Polls[pc'] /\ busy \in Nat
        BY <1>0, <3>3, <4>4, Parameters DEF IInv, TypeOK
      <4>6. asked' = FALSE /\ retries' = Polls[pc']
        BY <2>4, <3>3
      <4> QED  BY <1>2, <3>3, <4>5, <4>6, Constants DEF Patient
    <3> QED  BY <2>4, <3>2, <3>3
  <2> QED  BY <2>4, <2>5, <2>6
<1>5. (faults \in Nat /\ retries \in Int /\ packet.heard)'
  BY <1>0, <1>1, <1>3
<1>6. Fit => rom # "dead" /\ (rom = "verify" \/ (rom = "program" /\ busy = 0) => eeprom = "programmed")
  BY <1>1, Parts
<1> QED  BY <1>0, <1>2, <1>4, <1>5, <1>6, PartsAfter
\* A template: the stage is over, or goes on.
LEMMA SmoothPolling ==
  ASSUME IInv, Smooth, SendTemplate \/ ClockOut
  PROVE  Smooth'
<1> USE DEF Stages
<1>1. CASE Answer /\ rom \in Stages /\ busy = 0
  <2>1. /\ pc \in Stages \cup {"handshake"}
        /\ UNCHANGED <<board, packet, pc, result, retries, command, ram, eeprom>>
    BY DEF SendTemplate, ClockOut, host
  <2> QED  BY <1>1, <2>1, SmoothAnswering
<1>2. CASE ~(rom \in Stages /\ busy = 0)
  <2>0. faults \in Nat /\ retries \in Int /\ packet.heard /\ (rom \in Stages => busy <= Slowest[rom])
    BY Parts
  <2>1. /\ pc \in Stages /\ ~asked /\ asked' = TRUE /\ worked' = (busy = 0)
        /\ UNCHANGED <<board, packet, pc, result, retries, toHost, rom, busy, command, ram, eeprom, faults>>
    BY <1>2 DEF SendTemplate, ClockOut
  <2>2. /\ Fit' = Fit /\ Owed' = Owed /\ Dropped' = Dropped /\ Named' = Named /\ image' = image
    BY <2>1 DEF board, Fit, Programs, Owed, Dropped, Named, Passed, Total, Taken
  <2>3. Answered' <=> Answered
    BY <2>1, <2>2 DEF Answered
  <2>4. ASSUME Fit, toHost = <<>> PROVE Patient'
    <3>1. Answered /\ rom # "dead" /\ Patient
      BY <2>1, <2>4, Parts
    <3>2. rom = pc
      BY <2>1, <2>4, <3>1, Debts
    <3>3. busy # 0
      BY <1>2, <2>1, <3>2
    <3>4. busy \in Nat
      BY DEF IInv, TypeOK
    <3>5. retries > busy
      BY <2>0, <2>1, <3>1, <3>4 DEF Patient
    <3>6. ~worked'
      BY <2>1, <3>3, Zenon
    <3> QED  BY <2>0, <2>1, <3>4, <3>5, <3>6 DEF Patient
  <2>5. (faults \in Nat /\ retries \in Int /\ packet.heard)'
    BY <2>0, <2>1
  <2> QED  BY <2>0, <2>1, <2>2, <2>3, <2>4, <2>5, Parts, PartsAfter
<1> QED  BY <1>1, <1>2 DEF SendTemplate, ClockOut

\* A timeout leaves a template for every interval that the stage still takes.
LEMMA SmoothTimeout ==
  ASSUME IInv, Smooth, Timeout
  PROVE  Smooth'
<1> USE DEF Stages
<1>0. faults \in Nat /\ retries \in Int /\ packet.heard /\ (rom \in Stages => busy <= Slowest[rom])
  BY Parts
<1>1. /\ pc \in Stages /\ asked /\ worked /\ retries' = retries - 1 /\ asked' = FALSE
      /\ UNCHANGED <<board, packet, toHost, rom, busy, worked, command, ram, eeprom>>
      /\ result = "pending" /\ (NoFault \/ Fault) /\ busy \in Nat
  BY DEF Timeout, chip, IInv, TypeOK
<1>2. faults' \in Nat /\ (Fit' => Fit /\ NoFault)
  BY <1>0, <1>1, FitBefore
<1>3. ASSUME Fit'
      PROVE  UNCHANGED <<pc, result>> /\ Answered' /\ (toHost' = <<>> => Patient') /\ Fit
  <2>1. Fit /\ toHost = <<>>
    BY <1>0, <1>2, <1>3 DEF Timeout, NoFault, Fault
  <2>2. Answered /\ rom # "dead" /\ Patient
    BY <1>1, <2>1, Parts
  <2>3. retries - 1 > busy
    BY <1>0, <1>1, <2>2 DEF Patient
  <2>4. UNCHANGED <<pc, result>>
    BY <1>0, <1>1, <2>3 DEF Timeout
  <2>5. Owed' = Owed /\ Dropped' = Dropped /\ Named' = Named /\ image' = image
    BY <1>1, <2>4 DEF board, Owed, Dropped, Named, Passed, Total, Taken
  <2>6. Answered'
    BY <1>1, <2>2, <2>4, <2>5 DEF Answered
  <2>7. Patient'
    BY <1>0, <1>1, <2>3 DEF Patient
  <2> QED  BY <2>1, <2>4, <2>6, <2>7
<1>4. (faults \in Nat /\ retries \in Int /\ packet.heard)'
  BY <1>0, <1>1, <1>2
<1> QED  BY <1>0, <1>1, <1>3, <1>4, Parts, PartsAfter

\* The program that was launched names itself.
LEMMA SmoothResponse ==
  ASSUME IInv, Smooth, ReceiveResponse
  PROVE  Smooth'
<1> USE DEF Stages
<1>0. faults \in Nat /\ retries \in Int /\ packet.heard /\ (rom \in Stages => busy <= Slowest[rom])
  BY Parts
<1>1. /\ pc = "response" /\ pc' = "done" /\ faults' = faults
      /\ UNCHANGED <<board, packet, rom, busy, eeprom, retries>>
  BY DEF ReceiveResponse, Return, chip, NoFault
<1>2. Fit' = Fit
  BY <1>1 DEF Fit, board, Programs
<1>3. ASSUME Fit PROVE result' = "ok"
  <2>1. Answered /\ rom # "dead"
    BY <1>1, <1>3, Parts
  <2>2. task = "response" /\ rom \in Launched
    BY <1>1 DEF IInv, Believed
  <2>3. rom # "launch" => Named = 1
    BY <2>2 DEF Named, Launched
  <2>4. toHost = <<>> => rom = "launch"
    BY <1>1, <2>1, <2>3, Debts
  <2> QED  BY <2>4 DEF ReceiveResponse, Return
<1>4. (faults \in Nat /\ retries \in Int /\ packet.heard)'
  BY <1>0, <1>1
<1>5. Answered'
  BY <1>1 DEF Answered
<1> QED  BY <1>0, <1>1, <1>2, <1>3, <1>4, <1>5, Parts, PartsAfter

\* The ROM works on its stage.
LEMMA SmoothWorking ==
  ASSUME IInv, Smooth, Work \/ GiveUp
  PROVE  Smooth'
<1> USE DEF Stages
<1>0. faults \in Nat /\ retries \in Int /\ packet.heard /\ (rom \in Stages => busy <= Slowest[rom])
  BY Parts
<1>1. /\ UNCHANGED <<board, packet, pc, asked, retries, result, toHost, command, ram>>
      /\ rom \in Stages /\ busy \in Nat /\ (NoFault \/ Fault)
  BY DEF Work, GiveUp, host, IInv, TypeOK, NoFault
<1>2. faults' \in Nat /\ (Fit' => Fit /\ NoFault)
  BY <1>0, <1>1, FitBefore
<1>3. (faults \in Nat /\ retries \in Int /\ packet.heard)'
  BY <1>0, <1>1, <1>2
<1>4. CASE GiveUp
  <2>1. pc = "done" /\ rom' = "dead" /\ UNCHANGED <<busy, eeprom>>
    BY <1>4 DEF GiveUp
  <2>2. Answered'
    BY <1>1, <2>1 DEF Answered
  <2> QED  BY <1>1, <1>2, <1>3, <2>1, <2>2, Parts, PartsAfter
<1>5. CASE Work
  <2>1. rom' = rom /\ busy > 0 /\ busy' = busy - 1 /\ worked' = TRUE
    BY <1>5 DEF Work
  <2>2. rom' \in Stages => busy' <= Slowest[rom']
    BY <1>0, <1>1, <2>1, Constants
  <2>3. ASSUME Fit'
        PROVE  /\ Fit /\ Answered' /\ (pc' \in Stages /\ toHost' = <<>> => Patient')
               /\ rom' = "verify" \/ (rom' = "program" /\ busy' = 0) => eeprom' = "programmed"
    <3>1. Fit /\ ~Fault /\ hasEEPROM = hasEEPROM'
      BY <1>0, <1>1, <1>2, <2>3 DEF NoFault, Fault, board
    <3>2. Answered
      BY <3>1, Parts
    <3>3. Owed' = Owed /\ Dropped' = Dropped /\ Named' = Named /\ image' = image
      BY <1>1, <2>1 DEF board, Owed, Dropped, Named, Passed, Total, Taken
    <3>4. Answered'
      BY <1>1, <2>1, <3>2, <3>3 DEF Answered
    <3>5. ASSUME pc \in Stages, toHost = <<>> PROVE Patient'
      <4>1. retries > busy
        BY <1>0, <1>1, <3>1, <3>5, Parts DEF Patient
      <4> QED  BY <1>0, <1>1, <2>1, <4>1 DEF Patient
    <3>6. rom = "verify" => eeprom' = "programmed"
      BY <1>5, <3>1, Parts DEF Work
    <3>7. rom = "program" /\ busy' = 0 => eeprom' = "programmed"
      <4>1. rom = "program" => hasEEPROM
        BY <3>1 DEF IInv, Told, Fit
      <4> QED  BY <1>5, <3>1, <4>1 DEF Work
    <3> QED  BY <1>1, <2>1, <3>1, <3>4, <3>5, <3>6, <3>7
  <2>4. rom' # "dead"
    BY <1>1, <2>1
  <2> QED  BY <1>1, <1>3, <2>2, <2>3, <2>4, Parts, PartsAfter
<1> QED  BY <1>4, <1>5

\* The ROM launches the program, which names itself if that was its task.
LEMMA SmoothLaunching ==
  ASSUME IInv, Smooth, Launch
  PROVE  Smooth'
<1> USE DEF Stages
<1>0. faults \in Nat /\ retries \in Int /\ packet.heard
  BY Parts
<1>1. /\ UNCHANGED <<board, packet, pc, asked, retries, result, busy, worked, command, ram, eeprom>>
      /\ rom = "launch" /\ rom' = (IF command = 2 THEN "off" ELSE "run")
      /\ toHost \in Seq(Signs) /\ (NoFault \/ Fault)
  BY DEF Launch, host, IInv, TypeOK, NoFault, Fault, Arrive
<1>2. faults' \in Nat /\ (Fit' => Fit /\ NoFault)
  BY <1>0, <1>1, FitBefore
<1>3. (faults \in Nat /\ retries \in Int /\ packet.heard)'
  BY <1>0, <1>1, <1>2
<1>4. ASSUME Fit'
      PROVE  Fit /\ Answered' /\ (pc' \in Stages /\ toHost' = <<>> => Patient')
  <2>1. Fit /\ ~Fault
    BY <1>0, <1>2, <1>4 DEF NoFault, Fault
  <2>2. ASSUME pc \in Stages \cup {"handshake", "response"}
        PROVE  (Answered' /\ toHost' # <<>>) \/ (pc \notin Stages /\ Answered')
    <3>1. Answered /\ rom # "dead" /\ image' = image
      BY <1>1, <2>1, Parts DEF board
    <3>2. /\ Owed \in Nat /\ Dropped \in {0, 1} /\ Dropped <= Owed /\ Named = 0
          /\ Buffer(toHost, Owed, Dropped, 0) /\ rom \notin Before /\ ram = Completed(image)
          /\ toHost = <<>> <=> Owed = 0
      <4>1. Named = 0
        BY <1>1 DEF Named
      <4> QED  BY <2>2, <3>1, <4>1, Debts DEF Answered
    <3>3. Dropped' = Dropped /\ Owed' = Owed
      BY <1>1 DEF Dropped, Owed, Passed, Total, Taken, Launched
    <3>4. Named' = IF task = "response" THEN 1 ELSE 0
      BY <1>1 DEF Named, board
    <3>5. toHost' = IF task = "response" THEN Append(toHost, "response") ELSE toHost
      BY <2>1 DEF Launch, Arrive
    <3>6. Buffer(toHost', Owed', Dropped', Named')
      <4>1. CASE task = "response"
        BY <1>1, <3>2, <3>3, <3>4, <3>5, <4>1, Adding
      <4>2. CASE task # "response"
        BY <3>2, <3>3, <3>4, <3>5, <4>2
      <4> QED  BY <4>1, <4>2
    <3>7. Answered'
      BY <1>1, <3>1, <3>2, <3>6 DEF Answered, Before
    <3>8. pc \in Stages => Owed > 0
      <4>1. pc \in Stages /\ Owed = 0 => rom = pc
        BY <2>2, <3>1, <3>2, Debts
      <4> QED  BY <1>1, <3>2, <4>1
    <3>9. pc \in Stages => toHost' # <<>>
      <4>1. Len(<<>>) = 0
        OBVIOUS
      <4>2. pc \in Stages => Len(toHost') > 0
        BY <3>2, <3>3, <3>4, <3>6, <3>8 DEF Buffer
      <4> QED  BY <4>1, <4>2
    <3> QED  BY <3>7, <3>9
  <2>3. CASE pc \notin Stages \cup {"handshake", "response"}
    BY <1>1, <2>1, <2>3 DEF Answered
  <2> QED  BY <1>1, <2>1, <2>2, <2>3
<1>5. rom' \notin Stages /\ rom' # "dead"
  BY <1>1
<1> QED  BY <1>1, <1>3, <1>4, <1>5, Parts, PartsAfter

LEMMA SmoothInductive == IInv /\ Smooth /\ [Next]_vars => Smooth'
<1> SUFFICES ASSUME IInv, Smooth, [Next]_vars PROVE Smooth'
  OBVIOUS
<1>1. CASE Next
  BY <1>1, SmoothResetting, SmoothSending, SmoothHandshaking, SmoothAcknowledged, SmoothPolling,
     SmoothTimeout, SmoothResponse, SmoothWorking, SmoothLaunching DEF Next, Host, ROM
<1>2. CASE UNCHANGED vars
  BY <1>2 DEF Smooth, Fit, Owed, Named, Patient, Passed, Total, Dropped, Taken, Programs,
              vars, board, host, chip
<1> QED  BY <1>1, <1>2

\* With nothing lost, damaged or late, a Propeller that can do what it is asked
\* to takes every image of whole longs, and every other one whose call frame
\* covers the rest of its last long (Covered), however slow its stages are: the
\* number of templates that the host sends for each stage is enough, and no
\* answer is left over.  Nothing is claimed of the images that are left: main lets
\* them pass, and the ROM finds their sum wrong.
THEOREM FailureIsTrue == Spec => []FailureIsReal
<1>1. Init => Smooth
  BY SmoothInitially
<1>2. IInv /\ Smooth => FailureIsReal
  BY DEF Smooth, Fit, FailureIsReal
<1> QED  BY <1>1, <1>2, SmoothInductive, Invariance, PTL DEF Spec
=============================================================================
