----------------------------- MODULE RomEncoding -----------------------------
(***************************************************************************)
(* The bytes of serialloader.cpp that the Propeller's ROM reads as pulses. *)
(* On the line a byte is a start bit 0, its bits from the lowest, and a    *)
(* stop bit 1; the ROM takes a low pulse one bit long for a 1, two bits    *)
(* long for a 0.  EncodeBytes packs an image, least significant bit first, *)
(* three to five bits to a byte.  Read is the ROM's side.                  *)
(***************************************************************************)
EXTENDS Integers, SequencesExt

\* The row of PDSTx for a window of w bits with value v: the byte to send and
\* the number of bits it stands for.
Column4 == << <<\h92, 3>>, <<\hC9, 3>>, <<\hCA, 3>>, <<\h25, 4>>,
              <<\hD2, 3>>, <<\h29, 4>>, <<\h2A, 4>>, <<\h95, 4>>,
              <<\h92, 3>>, <<\h49, 4>>, <<\h4A, 4>>, <<\hA5, 4>>,
              <<\h52, 4>>, <<\hA9, 4>>, <<\hAA, 4>>, <<\hD5, 4>> >>
Column3 == <<\h92, \hC9, \hCA, \hE5, \hD2, \hE9, \hEA, \hF5>>
Column2 == <<\hF2, \hF9, \hFA, \hFD>>
Column1 == <<\hFE, \hFF>>

PDSTx(v, w) ==
  CASE w = 5 -> IF v = 31 THEN <<\h55, 5>> ELSE Column4[(v % 16) + 1]
    [] w = 4 -> Column4[v + 1]
    [] w = 3 -> <<Column3[v + 1], 3>>
    [] w = 2 -> <<Column2[v + 1], 2>>
    [] w = 1 -> <<Column1[v + 1], 1>>

\* The next window of bits at bit i.  The code reads one byte past the last and
\* masks what it finds there: beyond is that byte.
Window(bytes, i, w, beyond) ==
  LET byte(k) == IF k < Len(bytes) THEN bytes[k + 1] ELSE beyond
  IN  ((byte(i \div 8) + 256 * byte(i \div 8 + 1)) \div 2 ^ (i % 8)) % 2 ^ w

EncodeBytes(bytes, beyond) ==
  LET bitCount == 8 * Len(bytes)
      from[i \in 0..bitCount] ==
        IF i = bitCount THEN <<>>
        ELSE LET w    == IF bitCount - i > 5 THEN 5 ELSE bitCount - i
                 code == PDSTx(Window(bytes, i, w, beyond), w)
             IN  <<code[1]>> \o from[i + code[2]]
  IN  from[0]

Commands ==
  [shutdown   |-> <<\h92, \h92, \h92, \h92, \h92, \h92, \h92, \h92, \h92, \h92, \hF2>>,
   run        |-> <<\hC9, \h92, \h92, \h92, \h92, \h92, \h92, \h92, \h92, \h92, \hF2>>,
   program    |-> <<\hCA, \h92, \h92, \h92, \h92, \h92, \h92, \h92, \h92, \h92, \hF2>>,
   programRun |-> <<\h25, \h92, \h92, \h92, \h92, \h92, \h92, \h92, \h92, \h92, \hFE>>]

\* Eleven bytes of three bits, the last one of two.
LengthField(longs) ==
  [k \in 1..11 |->
     LET t == longs \div 8 ^ (k - 1)
     IN  \h92 + (IF k = 11 THEN \h60 ELSE 0)
              + (t % 2) + 8 * ((t \div 2) % 2)
              + (IF k = 11 THEN 0 ELSE 64 * ((t \div 4) % 2))]

\* The 250 bits of the handshake, packed by hand with the timing bits before it.
Greeting == <<
  \h49,
  \hAA,\h52,\hA5,\hAA,\h25,\hAA,\hD2,\hCA,\h52,\h25,\hD2,\hD2,\hD2,\hAA,\h49,\h92,
  \hC9,\h2A,\hA5,\h25,\h4A,\h49,\h49,\h2A,\h25,\h49,\hA5,\h4A,\hAA,\h2A,\hA9,\hCA,
  \hAA,\h55,\h52,\hAA,\hA9,\h29,\h92,\h92,\h29,\h25,\h2A,\hAA,\h92,\h92,\h55,\hCA,
  \h4A,\hCA,\hCA,\h92,\hCA,\h92,\h95,\h55,\hA9,\h92,\h2A,\hD2,\h52,\h92,\h52,\hCA,
  \hD2,\hCA,\h2A,\hFF >>

\* Two timing templates to a byte, for 250 bits of answer and 8 of version.
txHandshake == Greeting \o [k \in 1..129 |-> \h29]

\* The answer that is expected, two bits to a byte: bits 0 and 5.
rxHandshake == <<
  \hEE,\hCE,\hCE,\hCF,\hEF,\hCF,\hEE,\hEF,\hCF,\hCF,\hEF,\hEF,\hCF,\hCE,\hEF,\hCF,
  \hEE,\hEE,\hCE,\hEE,\hEF,\hCF,\hCE,\hEE,\hCE,\hCF,\hEE,\hEE,\hEF,\hCF,\hEE,\hCE,
  \hEE,\hCE,\hEE,\hCF,\hEF,\hEE,\hEF,\hCE,\hEE,\hEE,\hCF,\hEE,\hCF,\hEE,\hEE,\hCF,
  \hEF,\hCE,\hCF,\hEE,\hEF,\hEE,\hEE,\hEE,\hEE,\hEF,\hEE,\hCF,\hCF,\hEF,\hEE,\hCE,
  \hEF,\hEF,\hEF,\hEF,\hCE,\hEF,\hEE,\hEF,\hCF,\hEF,\hCF,\hCF,\hCE,\hCE,\hCE,\hCF,
  \hCF,\hEF,\hCE,\hEE,\hCF,\hEE,\hEF,\hCE,\hCE,\hCE,\hEF,\hEF,\hCF,\hCF,\hEE,\hEE,
  \hEE,\hCE,\hCF,\hCE,\hCE,\hCF,\hCE,\hEE,\hEF,\hEE,\hEF,\hEF,\hCF,\hEF,\hCE,\hCE,
  \hEF,\hCE,\hEE,\hCE,\hEF,\hCE,\hCE,\hEE,\hCF,\hCF,\hCE,\hCF,\hCF >>

\* What generateLoaderPacket puts behind txHandshake.
LoaderPacket(command, image, beyond) ==
  command \o LengthField((Len(image) + 3) \div 4) \o EncodeBytes(image, beyond)

\* What is sent behind every packet to clock out the answer: two bits to a byte.
Templates == [k \in 1..Len(rxHandshake) + 4 |-> \hF9]

\* The version in the last four bytes of an answer, two bits to a byte.
VersionField(bytes) ==
  FoldLeft(LAMBDA v, b : ((v \div 4) % 64) + 64 * (b % 2) + 128 * ((b \div 32) % 2), 0, bytes)

-----------------------------------------------------------------------------
\* The ROM of the Propeller.

Bit(x, k) == (x \div 2 ^ k) % 2

\* The lengths of the low pulses of a byte, in bits.
Pulses(byte) ==
  LET line == <<0>> \o [k \in 1..8 |-> Bit(byte, k - 1)] \o <<1>>
      starts == {p \in 1..9 : line[p] = 0 /\ (p = 1 \/ line[p - 1] = 1)}
      high(p) == CHOOSE q \in p..10 : line[q] = 1 /\ \A r \in p..q - 1 : line[r] = 0
  IN  [k \in 1..Cardinality(starts) |->
         LET p == CHOOSE q \in starts : Cardinality({r \in starts : r < q}) = k - 1
         IN  high(p) - p]

\* The bits that a byte is read as; 2 is a pulse of no meaning.
BitsOf ==
  [byte \in 0..255 |->
     LET l == Pulses(byte)
     IN  [k \in DOMAIN l |-> CASE l[k] = 1 -> 1 [] l[k] = 2 -> 0 [] OTHER -> 2]]

\* The bits that a sequence of bytes is read as.
Read(bytes) ==
  LET upto[n \in 0..Len(bytes)] ==
        IF n = 0 THEN <<>> ELSE upto[n - 1] \o BitsOf[bytes[n]]
  IN  upto[Len(bytes)]

\* EncodeBytes encodes the bytes there are, but LengthField counts the last long
\* in full: for what is missing of it the ROM takes the bits of templates.
Completed(bytes) == bytes \o [k \in 1..(4 - (Len(bytes) % 4)) % 4 |-> \h55]

\* The number, and the bytes, that bits from the lowest make.
Number(bits) == FoldRight(LAMBDA b, n : b + 2 * n, bits, 0)
Bytes(bits) == [k \in 1..Len(bits) \div 8 |-> Number(SubSeq(bits, 8 * k - 7, 8 * k))]

\* Bits of the shift register that both sides start with "P": the new bit is
\* the sum of bits 7, 5, 4 and 1 of the register, which are earlier bits.
IterateLFSR(bits) ==
  LET s == <<0, 1, 0, 1, 0, 0, 0>> \o bits
  IN  /\ bits[1] = 0
      /\ \A k \in 1..Len(s) - 8 : s[k + 8] = (s[k] + s[k + 2] + s[k + 3] + s[k + 6]) % 2

\* The handshake that the ROM reads before its answer, the answer clocked out
\* by 258 templates: the register's next 250 bits and a version.
Handshake(bits) ==
  /\ SubSeq(bits, 1, 2) = <<1, 0>> /\ IterateLFSR(SubSeq(bits, 3, 252))
  /\ \A k \in 1..516 : bits[252 + k] = k % 2
TwoBits(bytes) ==
  [k \in 1..2 * Len(bytes) |-> Bit(bytes[(k + 1) \div 2], IF k % 2 = 1 THEN 0 ELSE 5)]
Continues(bits, answer) == IterateLFSR(SubSeq(bits, 3, 252) \o TwoBits(answer))
VersionBytes(version) ==
  [k \in 1..4 |-> \hCE + Bit(version, 2 * k - 2) + 32 * Bit(version, 2 * k - 1)]

\* What the ROM makes of txHandshake, a packet and the templates sent behind it:
\* nothing, or a command and an image.
Understood(bytes) ==
  LET bits == Read(txHandshake) \o Read(bytes) \o Read(Templates)
      from == 768
      longs == Number(SubSeq(bits, from + 33, from + 64))
  IN  IF Len(bits) < from + 64 \/ ~Handshake(bits)
      THEN [heard |-> FALSE]
      ELSE [heard |-> Continues(bits, rxHandshake), command |-> Number(SubSeq(bits, from + 1, from + 32)),
            image |-> Bytes(SubSeq(bits, from + 65, from + 64 + 32 * longs))]

-----------------------------------------------------------------------------
\* What holds of the tables above, entry by entry and without a parameter: TLC
\* evaluates all of it, and what is proved of every image rests on it.

\* Row v of PDSTx is a byte that the ROM reads as the lowest bits of v.
RowIsRead(v, w) ==
  LET row == PDSTx(v, w)
  IN  /\ row[1] \in 0..255 /\ row[2] \in 1..w
      /\ BitsOf[row[1]] = [k \in 1..row[2] |-> Bit(v, k - 1)]
Rows == \A w \in 1..5 : \A v \in 0..2 ^ w - 1 : RowIsRead(v, w)

Octets == \A b \in 0..255 :
  BitsOf[b] \in Seq({0, 1, 2}) /\ Number([k \in 1..8 |-> Bit(b, k - 1)]) = b

Powers ==
  /\ 2 ^ 0 = 1 /\ 2 ^ 1 = 2 /\ 2 ^ 8 = 256 /\ \A k \in 0..11 : 2 ^ k \in 1..2048
  /\ \A k \in 0..11 : \A j \in 0..11 - k : 2 ^ k * 2 ^ j = 2 ^ (k + j)

\* A field that the ROM reads as 32 bits with the value n.
FieldIsRead(field, n) ==
  field \in Seq(0..255) /\ Len(Read(field)) = 32 /\ Number(Read(field)) = n

\* MAX_IMAGE_SIZE: Validate of propimage.cpp lets no larger image pass.
MaxImage == 32768

Fields ==
  /\ FieldIsRead(Commands.run, 1) /\ FieldIsRead(Commands.program, 2)
  /\ FieldIsRead(Commands.programRun, 3)
  /\ \A n \in 0..MaxImage \div 4 : FieldIsRead(LengthField(n), n)

GreetingIsRead ==
  /\ txHandshake \in Seq(0..255)
  /\ LET bits == Read(txHandshake)
     IN  Len(bits) = 768 /\ Handshake(bits) /\ Continues(bits, rxHandshake)

\* Templates are read as the bits of \h55.
TemplatesAreRead ==
  /\ Templates \in Seq(0..255) /\ Read(Templates) = [k \in 1..258 |-> k % 2]
  /\ \A j \in 0..7 : Bit(\h55, j) = (j + 1) % 2

ASSUME Tables ==
  /\ Rows /\ Octets /\ Powers /\ Fields /\ GreetingIsRead /\ TemplatesAreRead
  /\ VersionField(VersionBytes(1)) = 1
=============================================================================
