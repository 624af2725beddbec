---------------------------- MODULE TerminalProofs ----------------------------
(***************************************************************************)
(* What the terminal shows is the stream, however it is cut into pieces.   *)
(* Text and Left read the stream from its end, the program from its        *)
(* beginning.  The link is what one more byte does to them: it adds to the *)
(* text of every suffix of the stream what Byte adds to the buffer.        *)
(***************************************************************************)
EXTENDS Terminal, Induction, SequenceTheorems

Shows == Symbols \cup {"LF"}
States == [saw : Saws, out : Seq(Shows), code : Symbols \cup {"none"}]

Plain(b) == ~check \/ b # "FF"

\* g[i] and m[i]: the text of bytes i to n of w, and where they leave the reader.
Placed(w, n, g, m, i) ==
  /\ Plain(w[i]) => g[i] = Shown(w[i]) \o g[i + 1] /\ m[i] = m[i + 1]
  /\ ~Plain(w[i]) /\ i = n => g[i] = <<>> /\ m[i] = "char"
  /\ ~Plain(w[i]) /\ i < n /\ w[i + 1] = "00" => g[i] = <<>> /\ m[i] = "valid"
  /\ ~Plain(w[i]) /\ i < n /\ w[i + 1] # "00" =>
       g[i] = <<"FF", w[i + 1]>> \o g[i + 2] /\ m[i] = m[i + 2]

Follows(w, n, g, m) ==
  /\ g[n + 1] = <<>> /\ m[n + 1] = "nothing"
  /\ \A i \in 1 .. n : Placed(w, n, g, m, i)

Reads(w, n, g, m) ==
  /\ g \in [1 .. n + 1 -> Seq(Shows)] /\ m \in [1 .. n + 1 -> Saws]
  /\ Follows(w, n, g, m)

\* What one more byte adds, and where it leads.
Added(s, b) ==
  CASE s = "valid"   -> <<>>
    [] s = "char"    -> IF b = "00" THEN <<>> ELSE <<"FF", b>>
    [] s = "nothing" -> IF Plain(b) THEN Shown(b) ELSE <<>>

After(s, b) ==
  CASE s = "valid"   -> "valid"
    [] s = "char"    -> IF b = "00" THEN "valid" ELSE "nothing"
    [] s = "nothing" -> IF Plain(b) THEN "nothing" ELSE "char"

-----------------------------------------------------------------------------
\* The sequences that are shown.

\* A pair is a sequence of length two.
LEMMA Pair ==
  ASSUME NEW S, NEW a \in S, NEW b \in S
  PROVE  <<a, b>> \in Seq(S) /\ Len(<<a, b>>) = 2
OBVIOUS

\* Grouping does not matter.
LEMMA Regroup ==
  \A x, y, z \in Seq(Shows) : (x \o y) \o z = x \o (y \o z)
BY ConcatAssociative

\* One or two symbols are shown for a byte.
LEMMA ShownIsShort ==
  ASSUME NEW b \in Symbols
  PROVE  Shown(b) \in Seq(Shows) /\ Len(Shown(b)) <= 2
<1>1. <<b>> \in Seq(Shows) /\ Len(<<b>>) = 1
  BY DEF Shows
<1>2. <<b, "LF">> \in Seq(Shows) /\ Len(<<b, "LF">>) = 2
  BY Pair DEF Shows
<1> QED BY <1>1, <1>2 DEF Shown

\* At most two are added by a byte, wherever the reader is.
LEMMA AddedIsShort ==
  ASSUME NEW b \in Symbols, NEW s \in Saws
  PROVE  Added(s, b) \in Seq(Shows) /\ Len(Added(s, b)) <= 2
<1>1. "FF" \in Shows /\ b \in Shows
  BY Parameters DEF Shows
<1>2. <<"FF", b>> \in Seq(Shows) /\ Len(<<"FF", b>>) = 2
  BY <1>1, Pair
<1>3. <<>> \in Seq(Shows) /\ Len(<<>>) = 0
  BY EmptySeq
<1>4. Shown(b) \in Seq(Shows) /\ Len(Shown(b)) <= 2
  BY ShownIsShort
<1>5. CASE s = "valid"
  BY <1>3, <1>5 DEF Added
<1>6. CASE s = "char"
  BY <1>2, <1>3, <1>6 DEF Added
<1>7. CASE s = "nothing"
  <2>1. Added(s, b) = IF Plain(b) THEN Shown(b) ELSE <<>>
    BY <1>7 DEF Added
  <2> QED BY <2>1, <1>3, <1>4
<1> QED BY <1>5, <1>6, <1>7 DEF Saws

\* By where the reader is.
LEMMA AddedCases ==
  ASSUME NEW b
  PROVE  /\ Added("valid", b) = <<>> /\ After("valid", b) = "valid"
         /\ b = "00" => Added("char", b) = <<>> /\ After("char", b) = "valid"
         /\ b # "00" => Added("char", b) = <<"FF", b>> /\ After("char", b) = "nothing"
         /\ Plain(b) => Added("nothing", b) = Shown(b) /\ After("nothing", b) = "nothing"
         /\ ~Plain(b) => Added("nothing", b) = <<>> /\ After("nothing", b) = "char"
BY DEF Added, After

\* The reader is always somewhere.
LEMMA AfterIsSaw ==
  ASSUME NEW b, NEW s \in Saws
  PROVE  After(s, b) \in Saws
BY AddedCases DEF Saws

-----------------------------------------------------------------------------
\* One more byte.
Onward(w, n, g, m) ==
  \E h, l : /\ Reads(w, n + 1, h, l)
            /\ h[1] = g[1] \o Added(m[1], w[n + 1])
            /\ l[1] = After(m[1], w[n + 1])

\* Each suffix of a stream gains what the byte adds to it.
LEMMA OneMore ==
  ASSUME NEW w \in Seq(Symbols), NEW n \in 0 .. Len(w) - 1, NEW g, NEW m, Reads(w, n, g, m)
  PROVE  Onward(w, n, g, m)
<1> DEFINE b == w[n + 1]
           h == [i \in 1 .. n + 2 |-> IF i = n + 2 THEN <<>> ELSE g[i] \o Added(m[i], b)]
           l == [i \in 1 .. n + 2 |-> IF i = n + 2 THEN "nothing" ELSE After(m[i], b)]
<1>1. /\ n \in Nat /\ n + 1 \in 1 .. Len(w)
      /\ b \in Symbols /\ \A i \in 1 .. n : w[i] \in Symbols
  OBVIOUS
<1>2. /\ \A i \in 1 .. n + 1 : g[i] \in Seq(Shows) /\ m[i] \in Saws
      /\ g[n + 1] = <<>> /\ m[n + 1] = "nothing"
  BY <1>1 DEF Reads, Follows
<1>3. /\ \A i \in 1 .. n + 1 : h[i] = g[i] \o Added(m[i], b) /\ l[i] = After(m[i], b)
      /\ h[n + 2] = <<>> /\ l[n + 2] = "nothing"
  <2>1. /\ \A i \in 1 .. n + 1 : i \in 1 .. n + 2 /\ i # n + 2
        /\ n + 2 \in 1 .. n + 2
    BY <1>1
  <2> QED BY <2>1
<1>4. \A i \in 1 .. n + 1 : Added(m[i], b) \in Seq(Shows) /\ After(m[i], b) \in Saws
  BY <1>1, <1>2, AddedIsShort, AfterIsSaw
<1>5. <<>> \in Seq(Shows)
  BY EmptySeq
<1>6. \A i \in 1 .. n + 1 : h[i] \in Seq(Shows) /\ l[i] \in Saws
  BY <1>2, <1>3, <1>4, ConcatProperties
<1>7. DOMAIN h = 1 .. n + 2 /\ DOMAIN l = 1 .. n + 2
  OBVIOUS
<1>8. h \in [1 .. n + 2 -> Seq(Shows)] /\ l \in [1 .. n + 2 -> Saws]
  <2>1. \A i \in 1 .. n + 2 : i \in 1 .. n + 1 \/ i = n + 2
    BY <1>1
  <2>2. "nothing" \in Saws
    BY DEF Saws
  <2>3. \A i \in 1 .. n + 2 : h[i] \in Seq(Shows) /\ l[i] \in Saws
    BY <1>3, <1>5, <1>6, <2>1, <2>2
  <2>4. /\ h = [i \in 1 .. n + 2 |-> h[i]]
        /\ l = [i \in 1 .. n + 2 |-> l[i]]
    OBVIOUS
  <2> HIDE DEF h, l
  <2> QED BY <2>3, <2>4
<1> HIDE DEF h, l, b
\* The byte by itself.
<1>9. h[n + 1] = Added("nothing", b) /\ l[n + 1] = After("nothing", b)
  <2>1. n + 1 \in 1 .. n + 1
    BY <1>1
  <2>2. Added("nothing", b) \in Seq(Shows)
    BY <2>1, <1>2, <1>4
  <2>3. h[n + 1] = <<>> \o Added("nothing", b) /\ l[n + 1] = After("nothing", b)
    BY <2>1, <1>2, <1>3
  <2> QED BY <2>2, <2>3, ConcatEmptySeq
<1>10. ASSUME NEW i \in 1 .. n + 1, Plain(w[i])
       PROVE  h[i] = Shown(w[i]) \o h[i + 1] /\ l[i] = l[i + 1]
  <2>1. CASE i = n + 1
    <3>1. b = w[i] /\ i + 1 = n + 2
      BY <2>1, <1>1 DEF b
    <3>2. h[i] = Shown(b) /\ l[i] = "nothing"
      BY <1>9, <1>10, <2>1, <3>1, AddedCases
    <3>3. Shown(b) \o <<>> = Shown(b)
      BY <1>1, ShownIsShort, ConcatEmptySeq
    <3> QED BY <1>3, <3>1, <3>2, <3>3
  <2>2. CASE i # n + 1
    <3>1. i \in 1 .. n /\ i + 1 \in 1 .. n + 1
      BY <2>2, <1>1
    <3>2. g[i] = Shown(w[i]) \o g[i + 1] /\ m[i] = m[i + 1]
      BY <3>1, <1>10 DEF Reads, Follows, Placed
    <3>3. /\ Shown(w[i]) \in Seq(Shows) /\ g[i + 1] \in Seq(Shows)
          /\ Added(m[i], b) \in Seq(Shows)
      BY <3>1, <1>1, <1>2, <1>4, ShownIsShort
    <3>4. h[i] = (Shown(w[i]) \o g[i + 1]) \o Added(m[i], b)
      BY <1>3, <3>2
    <3>5. h[i] = Shown(w[i]) \o (g[i + 1] \o Added(m[i], b))
      BY <3>3, <3>4, Regroup
    <3>6. h[i + 1] = g[i + 1] \o Added(m[i], b)
      BY <1>3, <3>1, <3>2
    <3> QED BY <1>3, <3>1, <3>2, <3>5, <3>6
  <2> QED BY <2>1, <2>2
<1>11. ~Plain(w[n + 1]) => h[n + 1] = <<>> /\ l[n + 1] = "char"
  BY <1>9, AddedCases DEF b
<1>12. ASSUME NEW i \in 1 .. n, ~Plain(w[i]), w[i + 1] = "00"
       PROVE  h[i] = <<>> /\ l[i] = "valid"
  <2>1. <<>> \o <<>> = <<>>
    BY <1>5, ConcatEmptySeq
  <2>2. CASE i = n
    <3>3. Placed(w, n, g, m, i)
      BY DEF Reads, Follows
    <3>4. g[i] = <<>> /\ m[i] = "char"
      BY <1>12, <2>2, <3>3 DEF Placed
    <3>1. i \in 1 .. n + 1 /\ g[i] = <<>> /\ m[i] = "char" /\ b = "00"
      BY <1>12, <2>2, <1>1, <3>4 DEF b
    <3>2. h[i] = <<>> \o Added("char", b) /\ l[i] = After("char", b)
      BY <1>3, <3>1
    <3> QED BY <2>1, <3>1, <3>2, AddedCases
  <2>3. CASE i # n
    <3>1. i \in 1 .. n - 1
      BY <2>3, <1>1
    <3>4. Placed(w, n, g, m, i) /\ i < n
      BY <1>1, <3>1 DEF Reads, Follows
    <3>2. i \in 1 .. n + 1 /\ g[i] = <<>> /\ m[i] = "valid"
      BY <1>1, <1>12, <3>4 DEF Placed
    <3>3. h[i] = <<>> \o Added("valid", b) /\ l[i] = After("valid", b)
      BY <1>3, <3>2
    <3> QED BY <2>1, <3>3, AddedCases
  <2> QED BY <2>2, <2>3
<1>13. ASSUME NEW i \in 1 .. n, ~Plain(w[i]), w[i + 1] # "00"
       PROVE  h[i] = <<"FF", w[i + 1]>> \o h[i + 2] /\ l[i] = l[i + 2]
  <2> DEFINE p == <<"FF", w[i + 1]>>
  <2>1. p \in Seq(Shows)
    <3>1. w[i + 1] \in Symbols
      BY <1>1
    <3>2. w[i + 1] \in Shows /\ "FF" \in Shows
      BY <3>1, Parameters DEF Shows
    <3> QED BY <3>2, Pair
  <2> HIDE DEF p
  <2>2. CASE i = n
    <3>1. g[i] = <<>> /\ m[i] = "char" /\ w[i + 1] = b /\ b # "00"
      BY <1>13, <2>2, <1>1 DEF Reads, Follows, Placed, b
    <3>4. i \in 1 .. n + 1
      BY <1>1
    <3>5. h[i] = <<>> \o Added("char", b) /\ l[i] = After("char", b)
      BY <1>3, <3>1, <3>4
    <3>2. h[i] = <<>> \o p /\ l[i] = "nothing"
      BY <3>1, <3>5, AddedCases DEF p
    <3>3. <<>> \o p = p /\ p \o <<>> = p
      BY <2>1, ConcatEmptySeq
    <3> QED BY <1>3, <2>2, <3>2, <3>3 DEF p
  <2>3. CASE i # n
    <3>1. i \in 1 .. n - 1 /\ i + 2 \in 1 .. n + 1
      BY <2>3, <1>1
    <3>10. Placed(w, n, g, m, i) /\ i < n
      BY <1>1, <3>1 DEF Reads, Follows
    <3>2. g[i] = p \o g[i + 2] /\ m[i] = m[i + 2]
      BY <1>13, <3>10 DEF Placed, p
    <3>3. g[i + 2] \in Seq(Shows) /\ Added(m[i], b) \in Seq(Shows)
      BY <3>1, <1>1, <1>2, <1>4
    <3>7. i \in 1 .. n + 1
      BY <1>1
    <3>4. h[i] = (p \o g[i + 2]) \o Added(m[i], b)
      BY <1>3, <3>2, <3>7
    <3>5. h[i] = p \o (g[i + 2] \o Added(m[i], b))
      BY <2>1, <3>3, <3>4, Regroup
    <3>6. h[i + 2] = g[i + 2] \o Added(m[i], b) /\ l[i + 2] = After(m[i], b)
      BY <1>3, <3>1, <3>2
    <3>8. l[i] = After(m[i], b)
      BY <1>3, <3>7
    <3>9. h[i] = p \o h[i + 2]
      BY <3>5, <3>6
    <3> QED BY <3>6, <3>8, <3>9 DEF p
  <2> QED BY <2>2, <2>3
<1>14. (n + 1) + 1 = n + 2 /\ (n + 1) - 1 = n
  BY <1>1
<1>15. Reads(w, n + 1, h, l)
  <2>1. /\ h \in [1 .. n + 1 + 1 -> Seq(Shows)] /\ l \in [1 .. n + 1 + 1 -> Saws]
        /\ h[n + 1 + 1] = <<>> /\ l[n + 1 + 1] = "nothing"
    BY <1>3, <1>8, <1>14
  <2>2. ASSUME NEW i \in 1 .. n + 1
        PROVE  Placed(w, n + 1, h, l, i)
    <3>1. i < n + 1 => i \in 1 .. n
      BY <1>1
    <3>2. Plain(w[i]) => h[i] = Shown(w[i]) \o h[i + 1] /\ l[i] = l[i + 1]
      BY <1>10
    <3>3. ~Plain(w[i]) /\ i = n + 1 => h[i] = <<>> /\ l[i] = "char"
      BY <1>11
    <3>4. ~Plain(w[i]) /\ i < n + 1 /\ w[i + 1] = "00" => h[i] = <<>> /\ l[i] = "valid"
      BY <1>12, <3>1
    <3>5. ~Plain(w[i]) /\ i < n + 1 /\ w[i + 1] # "00" =>
            h[i] = <<"FF", w[i + 1]>> \o h[i + 2] /\ l[i] = l[i + 2]
      BY <1>13, <3>1
    <3> QED BY <3>2, <3>3, <3>4, <3>5, Zenon DEF Placed
  <2> QED BY <2>1, <2>2, Zenon DEF Reads, Follows
<1>16. h[1] = g[1] \o Added(m[1], b) /\ l[1] = After(m[1], b)
  <2>1. 1 \in 1 .. n + 1
    BY <1>1
  <2> QED BY <1>3, <2>1
<1> QED BY <1>15, <1>16, Zenon DEF b, Onward

-----------------------------------------------------------------------------
\* Every stream can be read, and in one way.

\* Nothing of a stream can be read.
LEMMA NoneRead ==
  ASSUME NEW w
  PROVE  \E g, m : Reads(w, 0, g, m) /\ g[1] = <<>> /\ m[1] = "nothing"
<1> DEFINE g == [i \in 1 .. 1 |-> <<>>]
           m == [i \in 1 .. 1 |-> "nothing"]
<1>1. g[1] = <<>> /\ m[1] = "nothing"
  OBVIOUS
<1>2. <<>> \in Seq(Shows) /\ "nothing" \in Saws
  BY EmptySeq DEF Saws
<1>3. Reads(w, 0, g, m)
  BY <1>1, <1>2 DEF Reads, Follows
<1> QED BY <1>1, <1>3

\* One byte more at a time, all of it can.
LEMMA AllRead ==
  ASSUME NEW w \in Seq(Symbols)
  PROVE  \E g, m : Reads(w, Len(w), g, m)
<1> DEFINE T == {n \in 0 .. Len(w) : \E g, m : Reads(w, n, g, m)}
<1>1. 0 \in T
  <2>1. \E g, m : Reads(w, 0, g, m)
    BY NoneRead
  <2> QED BY <2>1
<1>2. ASSUME NEW n \in 0 .. Len(w) - 1, n \in T
      PROVE  n + 1 \in T
  <2>1. PICK g, m : Reads(w, n, g, m)
    BY <1>2
  <2>2. \E h, l : Reads(w, n + 1, h, l)
    BY <2>1, OneMore DEF Onward
  <2> QED BY <2>2
<1>3. Len(w) \in Nat
  OBVIOUS
<1> HIDE DEF T
<1>4. 0 .. Len(w) \subseteq T
  BY <1>1, <1>2, <1>3, InductUpTo
<1>5. Len(w) \in T
  BY <1>3, <1>4
<1> USE DEF T
<1> QED BY <1>5

\* What two readings say of byte i follows from what they say of those after it.
LEMMA ReadOnce ==
  ASSUME NEW w, NEW n \in Nat, NEW g, NEW m, NEW h, NEW l, Follows(w, n, g, m), Follows(w, n, h, l)
  PROVE  g[1] = h[1] /\ m[1] = l[1]
<1> DEFINE T == {k \in 0 .. n : g[n + 1 - k] # h[n + 1 - k] \/ m[n + 1 - k] # l[n + 1 - k]}
<1>1. T = {}
  <2> SUFFICES ASSUME T # {} PROVE FALSE
    OBVIOUS
  <2>1. PICK k \in T : \A j \in T : k <= j
    <3>1. T \subseteq Nat
      OBVIOUS
    <3> HIDE DEF T
    <3> QED BY <3>1, Least
  <2>2. k \in 0 .. n /\ (g[n + 1 - k] # h[n + 1 - k] \/ m[n + 1 - k] # l[n + 1 - k])
    OBVIOUS
  <2>3. \A j \in 0 .. n : j < k => g[n + 1 - j] = h[n + 1 - j] /\ m[n + 1 - j] = l[n + 1 - j]
    BY <2>1
  <2> HIDE DEF T
  <2>4. k # 0
    <3>1. g[n + 1] = h[n + 1] /\ m[n + 1] = l[n + 1]
      BY DEF Follows
    <3> QED BY <2>2, <3>1
  <2> DEFINE i == n + 1 - k
  <2>5. /\ i \in 1 .. n /\ n + 1 - k = i
        /\ n + 1 - (k - 1) = i + 1 /\ k - 1 \in 0 .. n /\ k - 1 < k
        /\ i < n => n + 1 - (k - 2) = i + 2 /\ k - 2 \in 0 .. n /\ k - 2 < k
    BY <2>2, <2>4
  <2> HIDE DEF i
  <2>6. g[i + 1] = h[i + 1] /\ m[i + 1] = l[i + 1]
    BY <2>3, <2>5
  <2>7. i < n => g[i + 2] = h[i + 2] /\ m[i + 2] = l[i + 2]
    BY <2>3, <2>5
  <2>8. Placed(w, n, g, m, i) /\ Placed(w, n, h, l, i)
    BY <2>5 DEF Follows
  <2>9. g[i] = h[i] /\ m[i] = l[i]
    <3>1. CASE Plain(w[i])
      BY <2>6, <2>8, <3>1 DEF Placed
    <3>2. CASE ~Plain(w[i]) /\ i = n
      BY <2>8, <3>2 DEF Placed
    <3>3. CASE ~Plain(w[i]) /\ i < n /\ w[i + 1] = "00"
      BY <2>8, <3>3 DEF Placed
    <3>4. CASE ~Plain(w[i]) /\ i < n /\ w[i + 1] # "00"
      BY <2>7, <2>8, <3>4 DEF Placed
    <3> QED BY <2>5, <3>1, <3>2, <3>3, <3>4
  <2> QED BY <2>2, <2>5, <2>9
<1>2. n \notin T
  BY <1>1
<1> QED BY <1>2

\* Text and Left are what a reading says of the first byte.
LEMMA TextIsRead ==
  ASSUME NEW w \in Seq(Symbols), NEW g, NEW m, Reads(w, Len(w), g, m)
  PROVE  Text(w) = g[1] /\ Left(w) = m[1]
<1> DEFINE n == Len(w)
           F(f) == [i \in 1 .. n + 1 |->
                      IF i > n THEN <<>>
                      ELSE IF ~check \/ w[i] # "FF" THEN Shown(w[i]) \o f[i + 1]
                      ELSE IF i = n \/ w[i + 1] = "00" THEN <<>>
                      ELSE <<"FF", w[i + 1]>> \o f[i + 2]]
           L(f) == [i \in 1 .. n + 1 |->
                      IF i > n THEN "nothing"
                      ELSE IF ~check \/ w[i] # "FF" THEN f[i + 1]
                      ELSE IF i = n THEN "char"
                      ELSE IF w[i + 1] = "00" THEN "valid"
                      ELSE f[i + 2]]
           t == CHOOSE f : f = F(f)
           k == CHOOSE f : f = L(f)
<1>1. Text(w) = t[1] /\ Left(w) = k[1]
  BY DEF Text, Left
<1>2. n \in Nat
  OBVIOUS
<1>3. g = F(g)
  <2>1. \A i \in 1 .. n + 1 : g[i] = F(g)[i]
    <3> SUFFICES ASSUME NEW i \in 1 .. n + 1 PROVE g[i] = F(g)[i]
      OBVIOUS
    <3>1. CASE i = n + 1
      BY <3>1, <1>2 DEF Reads, Follows
    <3>2. CASE i # n + 1
      <4>1. i \in 1 .. n /\ ~(i > n)
        BY <3>2, <1>2
      <4>2. Placed(w, n, g, m, i)
        BY <4>1 DEF Reads, Follows
      <4>3. CASE Plain(w[i])
        BY <4>1, <4>2, <4>3 DEF Placed, Plain
      <4>4. CASE ~Plain(w[i]) /\ i = n
        BY <4>1, <4>2, <4>4 DEF Placed, Plain
      <4>5. CASE ~Plain(w[i]) /\ i < n /\ w[i + 1] = "00"
        BY <4>1, <4>2, <4>5 DEF Placed, Plain
      <4>6. CASE ~Plain(w[i]) /\ i < n /\ w[i + 1] # "00"
        BY <4>1, <4>2, <4>6 DEF Placed, Plain
      <4> QED BY <4>1, <4>3, <4>4, <4>5, <4>6
    <3> QED BY <3>1, <3>2
  <2>2. g = [i \in 1 .. n + 1 |-> g[i]]
    BY DEF Reads, Follows
  <2> QED BY <2>1, <2>2
<1>4. m = L(m)
  <2>1. \A i \in 1 .. n + 1 : m[i] = L(m)[i]
    <3> SUFFICES ASSUME NEW i \in 1 .. n + 1 PROVE m[i] = L(m)[i]
      OBVIOUS
    <3>1. CASE i = n + 1
      BY <3>1, <1>2 DEF Reads, Follows
    <3>2. CASE i # n + 1
      <4>1. i \in 1 .. n /\ ~(i > n)
        BY <3>2, <1>2
      <4>2. Placed(w, n, g, m, i)
        BY <4>1 DEF Reads, Follows
      <4>3. CASE Plain(w[i])
        BY <4>1, <4>2, <4>3 DEF Placed, Plain
      <4>4. CASE ~Plain(w[i]) /\ i = n
        BY <4>1, <4>2, <4>4 DEF Placed, Plain
      <4>5. CASE ~Plain(w[i]) /\ i < n /\ w[i + 1] = "00"
        BY <4>1, <4>2, <4>5 DEF Placed, Plain
      <4>6. CASE ~Plain(w[i]) /\ i < n /\ w[i + 1] # "00"
        BY <4>1, <4>2, <4>6 DEF Placed, Plain
      <4> QED BY <4>1, <4>3, <4>4, <4>5, <4>6
    <3> QED BY <3>1, <3>2
  <2>2. m = [i \in 1 .. n + 1 |-> m[i]]
    BY DEF Reads, Follows
  <2> QED BY <2>1, <2>2
<1>5. t = F(t)
  <2> HIDE DEF F
  <2> QED BY <1>3, Zenon
<1>6. k = L(k)
  <2> HIDE DEF L
  <2> QED BY <1>4, Zenon
<1> HIDE DEF t, k
<1>7. Follows(w, n, t, k)
  <2>1. \A i \in 1 .. n + 1 : t[i] = F(t)[i] /\ k[i] = L(k)[i]
    BY <1>5, <1>6
  <2>2. t[n + 1] = <<>> /\ k[n + 1] = "nothing"
    <3>1. n + 1 \in 1 .. n + 1 /\ n + 1 > n
      BY <1>2
    <3> QED BY <2>1, <3>1
  <2>3. ASSUME NEW i \in 1 .. n
        PROVE  Placed(w, n, t, k, i)
    <3>1. i \in 1 .. n + 1 /\ ~(i > n)
      BY <1>2
    <3>2. /\ t[i] = IF ~check \/ w[i] # "FF" THEN Shown(w[i]) \o t[i + 1]
                    ELSE IF i = n \/ w[i + 1] = "00" THEN <<>>
                    ELSE <<"FF", w[i + 1]>> \o t[i + 2]
          /\ k[i] = IF ~check \/ w[i] # "FF" THEN k[i + 1]
                    ELSE IF i = n THEN "char"
                    ELSE IF w[i + 1] = "00" THEN "valid"
                    ELSE k[i + 2]
      BY <2>1, <3>1
    <3> QED BY <3>1, <3>2 DEF Placed, Plain
  <2> QED BY <2>2, <2>3 DEF Follows
<1>8. t[1] = g[1] /\ k[1] = m[1]
  BY <1>2, <1>7, ReadOnce DEF Reads
<1> QED BY <1>1, <1>8

\* A reading does not look beyond its bytes.
LEMMA SamePrefix ==
  ASSUME NEW w \in Seq(Symbols), NEW p \in Seq(Symbols), NEW g, NEW m, Reads(w, Len(w), g, m)
  PROVE  Reads(w \o p, Len(w), g, m)
<1>1. \A i \in 1 .. Len(w) : (w \o p)[i] = w[i]
  BY ConcatProperties
<1>2. ASSUME NEW i \in 1 .. Len(w)
      PROVE  Placed(w \o p, Len(w), g, m, i)
  <2>1. Placed(w, Len(w), g, m, i)
    BY DEF Reads, Follows
  <2>2. (w \o p)[i] = w[i]
    BY <1>1
  <2>3. i < Len(w) => (w \o p)[i + 1] = w[i + 1]
    BY <1>1
  <2> HIDE <1>1
  <2> QED BY <2>1, <2>2, <2>3 DEF Placed
<1> QED BY <1>2, Zenon DEF Reads, Follows

-----------------------------------------------------------------------------
\* One byte, in the program.
LEMMA ByteInStates ==
  ASSUME NEW s \in States, NEW b \in Symbols
  PROVE  /\ Byte(s, b) \in States
         /\ Len(Byte(s, b).out) <= Len(s.out) + 2
<1>1. s.saw \in Saws /\ s.out \in Seq(Shows) /\ s.code \in Symbols \cup {"none"}
  BY DEF States
<1>2. Shown(b) \in Seq(Shows) /\ Len(Shown(b)) <= 2 /\ Len(Shown(b)) \in Nat
  BY ShownIsShort
<1>3. <<"FF", b>> \in Seq(Shows) /\ Len(<<"FF", b>>) = 2
  <2>1. b \in Shows /\ "FF" \in Shows
    BY Parameters DEF Shows
  <2> QED BY <2>1, Pair
<1>4. /\ s.out \o Shown(b) \in Seq(Shows)
      /\ Len(s.out \o Shown(b)) = Len(s.out) + Len(Shown(b))
  BY <1>1, <1>2, ConcatProperties
<1>5. /\ s.out \o <<"FF", b>> \in Seq(Shows)
      /\ Len(s.out \o <<"FF", b>>) = Len(s.out) + 2
  BY <1>1, <1>3, ConcatProperties
<1>6. Len(s.out) \in Nat
  BY <1>1
<1>7. CASE s.saw = "valid"
  <2>1. Byte(s, b) = [s EXCEPT !.code = b]
    BY <1>7 DEF Byte
  <2> QED BY <1>1, <1>6, <2>1 DEF States
<1>8. CASE s.saw = "char"
  <2>1. CASE b = "00"
    <3>1. Byte(s, b) = [s EXCEPT !.saw = "valid"]
      BY <1>8, <2>1 DEF Byte
    <3> QED BY <1>1, <1>6, <3>1 DEF States, Saws
  <2>2. CASE b # "00"
    <3> DEFINE x == IF windows THEN "char" ELSE "nothing"
               o == s.out \o <<"FF", b>>
    <3>1. Byte(s, b) = [s EXCEPT !.saw = x, !.out = o]
      BY <1>8, <2>2 DEF Byte
    <3>2. x \in Saws
      BY DEF Saws
    <3> HIDE DEF x
    <3>3. o \in Seq(Shows) /\ Len(o) <= Len(s.out) + 2
      BY <1>5, <1>6
    <3> HIDE DEF o
    <3> QED BY <1>1, <3>1, <3>2, <3>3 DEF States
  <2> QED BY <2>1, <2>2
<1>9. CASE s.saw = "nothing"
  <2>1. CASE check /\ b = "FF"
    <3>1. Byte(s, b) = [s EXCEPT !.saw = "char"]
      BY <1>9, <2>1 DEF Byte
    <3> QED BY <1>1, <1>6, <3>1 DEF States, Saws
  <2>2. CASE ~(check /\ b = "FF")
    <3> DEFINE o == s.out \o Shown(b)
    <3>1. Byte(s, b) = [s EXCEPT !.out = o]
      BY <1>9, <2>2 DEF Byte
    <3>3. o \in Seq(Shows) /\ Len(o) <= Len(s.out) + 2
      BY <1>2, <1>4, <1>6
    <3> HIDE DEF o
    <3> QED BY <1>1, <3>1, <3>3 DEF States
  <2> QED BY <2>1, <2>2
<1> QED BY <1>1, <1>7, <1>8, <1>9 DEF Saws

\* Its meaning for the stream, but for the function for Windows that checks.
LEMMA ByteIsAdded ==
  ASSUME NEW s \in States, NEW b \in Symbols, ~(windows /\ check), ~check => s.saw = "nothing"
  PROVE  /\ Byte(s, b).out = s.out \o Added(s.saw, b)
         /\ Byte(s, b).saw = After(s.saw, b)
         /\ ~check => Byte(s, b).saw = "nothing"
<1>1. s.saw \in Saws /\ s.out \in Seq(Shows)
  BY DEF States
<1>2. s.out \o <<>> = s.out
  BY <1>1, ConcatEmptySeq
<1>3. CASE s.saw = "valid"
  <2>1. Byte(s, b) = [s EXCEPT !.code = b]
    BY <1>3 DEF Byte
  <2>2. Byte(s, b).out = s.out /\ Byte(s, b).saw = s.saw
    BY <2>1 DEF States
  <2>9. Added(s.saw, b) = <<>> /\ After(s.saw, b) = "valid"
    BY <1>3, AddedCases
  <2> QED BY <1>2, <1>3, <2>2, <2>9
<1>4. CASE s.saw = "char" /\ b = "00"
  <2>1. Byte(s, b) = [s EXCEPT !.saw = "valid"]
    BY <1>4 DEF Byte
  <2>2. Byte(s, b).out = s.out /\ Byte(s, b).saw = "valid"
    BY <2>1 DEF States
  <2>9. Added(s.saw, b) = <<>> /\ After(s.saw, b) = "valid"
    BY <1>4, AddedCases
  <2> QED BY <1>2, <1>4, <2>2, <2>9
<1>5. CASE s.saw = "char" /\ b # "00"
  <2>1. ~windows
    BY <1>5
  <2>2. Byte(s, b) = [s EXCEPT !.saw = "nothing", !.out = s.out \o <<"FF", b>>]
    BY <1>5, <2>1 DEF Byte
  <2>3. Byte(s, b).out = s.out \o <<"FF", b>> /\ Byte(s, b).saw = "nothing"
    BY <2>2 DEF States
  <2>9. Added(s.saw, b) = <<"FF", b>> /\ After(s.saw, b) = "nothing"
    BY <1>5, AddedCases
  <2> QED BY <1>5, <2>3, <2>9
<1>6. CASE s.saw = "nothing" /\ check /\ b = "FF"
  <2>1. Byte(s, b) = [s EXCEPT !.saw = "char"]
    BY <1>6 DEF Byte
  <2>2. Byte(s, b).out = s.out /\ Byte(s, b).saw = "char"
    BY <2>1 DEF States
  <2>3. ~Plain(b)
    BY <1>6 DEF Plain
  <2>9. Added(s.saw, b) = <<>> /\ After(s.saw, b) = "char"
    BY <1>6, <2>3, AddedCases
  <2> QED BY <1>2, <1>6, <2>2, <2>9
<1>7. CASE s.saw = "nothing" /\ ~(check /\ b = "FF")
  <2>1. Byte(s, b) = [s EXCEPT !.out = s.out \o Shown(b)]
    BY <1>7 DEF Byte
  <2>2. Byte(s, b).out = s.out \o Shown(b) /\ Byte(s, b).saw = "nothing"
    BY <1>7, <2>1 DEF States
  <2>3. Plain(b)
    BY <1>7 DEF Plain
  <2>9. Added(s.saw, b) = Shown(b) /\ After(s.saw, b) = "nothing"
    BY <1>7, <2>3, AddedCases
  <2> QED BY <1>7, <2>2, <2>9
<1> QED BY <1>1, <1>3, <1>4, <1>5, <1>6, <1>7 DEF Saws

-----------------------------------------------------------------------------
\* One piece.

\* The loop over a piece is the run of a recursion.
LEMMA PieceIsRun ==
  ASSUME NEW piece \in Seq(Symbols), [state EXCEPT !.out = <<>>] \in States
  PROVE  \E f \in [0 .. Len(piece) -> States] :
            /\ f[0] = [state EXCEPT !.out = <<>>]
            /\ \A k \in 1 .. Len(piece) : f[k] = Byte(f[k - 1], piece[k])
            /\ Handled(piece) = f[Len(piece)]
<1> DEFINE n == Len(piece)
           a == [state EXCEPT !.out = <<>>]
           step == [k \in 1 .. n |-> [s \in States |-> Byte(s, piece[k])]]
           F(f) == [k \in 0 .. n |-> IF k = 0 THEN a ELSE Byte(f[k - 1], piece[k])]
           c == CHOOSE f : f = F(f)
<1>1. n \in Nat /\ \A k \in 1 .. n : piece[k] \in Symbols
  OBVIOUS
<1>2. step \in [1 .. n -> [States -> States]]
  <2>1. \A k \in 1 .. n : \A s \in States : Byte(s, piece[k]) \in States
    BY <1>1, ByteInStates
  <2> QED BY <2>1
<1>3. \A k \in 1 .. n : \A s \in States : step[k][s] = Byte(s, piece[k])
  OBVIOUS
<1>4. Handled(piece) = c[n]
  BY DEF Handled
<1> HIDE DEF a, step
<1>5. a \in States
  BY DEF a
<1>6. PICK f \in [0 .. n -> States] : IsRun(f, n, a, step)
  BY <1>1, <1>2, <1>5, RunExists
<1>7. \A k \in 0 .. n : f[k] = IF k = 0 THEN a ELSE step[k][f[k - 1]]
  BY <1>6 DEF IsRun
<1>8. \A k \in 1 .. n : f[k] = Byte(f[k - 1], piece[k])
  BY <1>1, <1>3, <1>6, <1>7
<1>9. f = F(f)
  <2>1. \A k \in 0 .. n : f[k] = F(f)[k]
    BY <1>7, <1>8
  <2>2. f = [k \in 0 .. n |-> f[k]]
    BY <1>6
  <2> QED BY <2>1, <2>2
<1>10. c = F(c)
  <2> HIDE DEF F
  <2> QED BY <1>9, Zenon
<1> HIDE DEF c
<1>11. \A k \in 0 .. n : c[k] = f[k]
  <2> DEFINE T == {k \in 0 .. n : c[k] = f[k]}
  <2>1. \A k \in 0 .. n : c[k] = IF k = 0 THEN a ELSE Byte(c[k - 1], piece[k])
    BY <1>10
  <2>2. \A k \in 0 .. n : f[k] = IF k = 0 THEN a ELSE Byte(f[k - 1], piece[k])
    BY <1>7, <1>8
  <2>3. 0 \in T
    BY <1>1, <2>1, <2>2
  <2>4. ASSUME NEW k \in 0 .. n - 1, k \in T
        PROVE  k + 1 \in T
    <3>1. k + 1 \in 0 .. n /\ k + 1 # 0 /\ (k + 1) - 1 = k /\ c[k] = f[k]
      BY <1>1, <2>4
    <3>2. /\ c[k + 1] = Byte(c[k], piece[k + 1])
          /\ f[k + 1] = Byte(f[k], piece[k + 1])
      BY <2>1, <2>2, <3>1
    <3> QED BY <3>1, <3>2
  <2> HIDE DEF T
  <2>5. 0 .. n \subseteq T
    BY <1>1, <2>3, <2>4, InductUpTo
  <2> QED BY <2>5 DEF T
<1>12. f[0] = a /\ c[n] = f[n]
  BY <1>1, <1>7, <1>11
<1> QED BY <1>4, <1>6, <1>8, <1>12 DEF a

\* A piece does not overrun realbuf, which has twice its size.
LEMMA PieceIsShort ==
  ASSUME TypeOK, NEW piece \in Seq(Symbols), Len(piece) <= Piece
  PROVE  Handled(piece) \in States /\ Len(Handled(piece).out) <= 2 * Piece
<1> DEFINE n == Len(piece)
<1>1. [state EXCEPT !.out = <<>>] \in States
  <2>1. <<>> \in Seq(Shows)
    BY EmptySeq
  <2> QED BY <2>1 DEF TypeOK, States, Shows
<1>2. PICK f \in [0 .. n -> States] :
        /\ f[0] = [state EXCEPT !.out = <<>>]
        /\ \A k \in 1 .. n : f[k] = Byte(f[k - 1], piece[k])
        /\ Handled(piece) = f[n]
  BY <1>1, PieceIsRun
<1>3. n \in Nat /\ \A k \in 1 .. n : piece[k] \in Symbols
  OBVIOUS
<1> HIDE DEF n
<1> DEFINE T == {k \in 0 .. n : Len(f[k].out) <= 2 * k}
<1>4. 0 \in T
  <2>1. f[0].out = <<>>
    BY <1>2 DEF TypeOK
  <2> QED BY <1>3, <2>1
<1>5. ASSUME NEW k \in 0 .. n - 1, k \in T
      PROVE  k + 1 \in T
  <2>1. k + 1 \in 1 .. n /\ k \in 0 .. n /\ (k + 1) - 1 = k /\ k + 1 \in 0 .. n
    BY <1>3
  <2>2. f[k] \in States /\ piece[k + 1] \in Symbols /\ f[k + 1] = Byte(f[k], piece[k + 1])
    BY <1>2, <1>3, <2>1
  <2>3. Len(f[k + 1].out) <= Len(f[k].out) + 2
    BY <2>2, ByteInStates
  <2>4. Len(f[k].out) \in Nat /\ Len(f[k + 1].out) \in Nat
    <3>1. f[k + 1] \in States
      BY <1>2, <2>1
    <3> QED BY <2>2, <3>1 DEF States
  <2> QED BY <1>5, <2>1, <2>3, <2>4
<1> HIDE DEF T
<1>6. 0 .. n \subseteq T
  BY <1>3, <1>4, <1>5, InductUpTo
<1>7. n \in T /\ f[n] \in States
  BY <1>2, <1>3, <1>6
<1>8. Len(f[n].out) <= 2 * n /\ Len(f[n].out) \in Nat
  BY <1>7 DEF T, States
<1>9. n <= Piece /\ Piece \in Nat
  BY Parameters DEF n, Piece
<1>10. Len(f[n].out) <= 2 * Piece
  BY <1>3, <1>8, <1>9
<1> QED BY <1>2, <1>7, <1>10

\* A piece carries the text and the reader's place on by as many bytes.
LEMMA PieceIsText ==
  ASSUME TypeOK, ~(windows /\ check), written = Text(received), InStep,
         NEW piece \in Seq(Symbols)
  PROVE  /\ written \o Handled(piece).out = Text(received \o piece)
         /\ Handled(piece).saw = Left(received \o piece)
<1> DEFINE n == Len(piece)
           N == Len(received)
           w == received \o piece
<1>1. /\ n \in Nat /\ \A k \in 1 .. n : piece[k] \in Symbols
      /\ N \in Nat /\ received \in Seq(Symbols)
  BY DEF TypeOK
<1>2. /\ w \in Seq(Symbols) /\ Len(w) = N + n
      /\ \A k \in 1 .. n : w[N + k] = piece[k]
  <2>1. /\ w \in Seq(Symbols) /\ Len(w) = N + n
        /\ \A i \in 1 .. N + n : w[i] = IF i <= N THEN received[i] ELSE piece[i - N]
    BY <1>1, ConcatProperties
  <2>2. \A k \in 1 .. n : N + k \in 1 .. N + n /\ ~(N + k <= N) /\ (N + k) - N = k
    BY <1>1
  <2> QED BY <2>1, <2>2
<1>3. [state EXCEPT !.out = <<>>] \in States
  <2>1. <<>> \in Seq(Shows)
    BY EmptySeq
  <2> QED BY <2>1 DEF TypeOK, States, Shows
<1>4. PICK f \in [0 .. n -> States] :
        /\ f[0] = [state EXCEPT !.out = <<>>]
        /\ \A k \in 1 .. n : f[k] = Byte(f[k - 1], piece[k])
        /\ Handled(piece) = f[n]
  BY <1>3, PieceIsRun
\* Before the piece.
<1>5. PICK g0, m0 : Reads(received, N, g0, m0)
  BY <1>1, AllRead
<1>6. g0[1] = written /\ m0[1] = state.saw
  <2>1. Text(received) = g0[1] /\ Left(received) = m0[1]
    BY <1>1, <1>5, TextIsRead
  <2> QED BY <2>1 DEF InStep
<1>7. Reads(w, N, g0, m0)
  BY <1>1, <1>5, SamePrefix
<1>8. written \in Seq(Shows)
  BY DEF TypeOK, Shows
<1>9. ~check => state.saw = "nothing"
  <2> SUFFICES ASSUME ~check PROVE m0[1] = "nothing"
    BY <1>6
  <2> DEFINE Q == {k \in 0 .. N : m0[N + 1 - k] = "nothing"}
  <2>1. 0 \in Q
    BY <1>1, <1>5 DEF Reads, Follows
  <2>2. ASSUME NEW k \in 0 .. N - 1, k \in Q
        PROVE  k + 1 \in Q
    <3>1. /\ N - k \in 1 .. N /\ N + 1 - (k + 1) = N - k /\ N + 1 - k = (N - k) + 1
          /\ k + 1 \in 0 .. N
      BY <1>1
    <3>2. m0[N - k] = m0[(N - k) + 1]
      BY <1>5, <3>1 DEF Reads, Follows, Placed, Plain
    <3> QED BY <2>2, <3>1, <3>2
  <2> HIDE DEF Q
  <2>3. 0 .. N \subseteq Q
    BY <1>1, <2>1, <2>2, InductUpTo
  <2>4. N \in Q
    BY <1>1, <2>3
  <2> QED BY <1>1, <2>4 DEF Q
<1> HIDE DEF w, n, N
\* Within it.
<1> DEFINE T == {k \in 0 .. n :
             /\ \E g, m : /\ Reads(w, N + k, g, m)
                          /\ g[1] = written \o f[k].out
                          /\ m[1] = f[k].saw
             /\ ~check => f[k].saw = "nothing"}
<1>10. 0 \in T
  <2>1. f[0].out = <<>> /\ f[0].saw = state.saw
    BY <1>4 DEF TypeOK
  <2>2. written \o <<>> = written
    BY <1>8, ConcatEmptySeq
  <2>3. g0[1] = written \o f[0].out /\ m0[1] = f[0].saw
    BY <1>6, <2>1, <2>2
  <2>4. Reads(w, N + 0, g0, m0)
    <3>1. N + 0 = N
      BY <1>1
    <3> QED BY <1>7, <3>1
  <2>5. 0 \in 0 .. n /\ (~check => f[0].saw = "nothing")
    BY <1>1, <1>9, <2>1
  <2> QED BY <2>3, <2>4, <2>5
<1>11. ASSUME NEW k \in 0 .. n - 1, k \in T
       PROVE  k + 1 \in T
  <2>1. k + 1 \in 1 .. n /\ k \in 0 .. n /\ (k + 1) - 1 = k /\ k + 1 \in 0 .. n
    BY <1>1
  <2> DEFINE b == piece[k + 1]
  <2>2. f[k] \in States /\ b \in Symbols /\ f[k + 1] = Byte(f[k], b)
    BY <1>1, <1>4, <2>1
  <2>3. PICK g, m : /\ Reads(w, N + k, g, m)
                    /\ g[1] = written \o f[k].out
                    /\ m[1] = f[k].saw
    BY <1>11
  <2>4. ~check => f[k].saw = "nothing"
    BY <1>11
  <2> HIDE DEF T
  <2>5. w[(N + k) + 1] = b
    <3>1. (N + k) + 1 = N + (k + 1)
      BY <1>1
    <3> QED BY <1>2, <2>1, <3>1
  <2> HIDE DEF b
  <2>6. N + k \in 0 .. Len(w) - 1
    BY <1>1, <1>2
  <2>7. PICK h, l : /\ Reads(w, (N + k) + 1, h, l)
                    /\ h[1] = g[1] \o Added(m[1], w[(N + k) + 1])
                    /\ l[1] = After(m[1], w[(N + k) + 1])
    <3> DEFINE j == N + k
    <3>1. w \in Seq(Symbols) /\ j \in 0 .. Len(w) - 1 /\ Reads(w, j, g, m)
      BY <1>2, <2>3, <2>6
    <3> HIDE DEF j
    <3>2. Onward(w, j, g, m)
      BY <3>1, OneMore
    <3> QED BY <3>2 DEF j, Onward
  <2>8. /\ f[k + 1].out = f[k].out \o Added(f[k].saw, b)
        /\ f[k + 1].saw = After(f[k].saw, b)
        /\ ~check => f[k + 1].saw = "nothing"
    BY <2>2, <2>4, ByteIsAdded
  <2>9. f[k].out \in Seq(Shows) /\ f[k].saw \in Saws
    BY <2>2 DEF States
  <2>10. Added(f[k].saw, b) \in Seq(Shows)
    BY <2>2, <2>9, AddedIsShort
  <2>11. h[1] = written \o f[k + 1].out
    <3> DEFINE t == Added(f[k].saw, b)
    <3>1. h[1] = (written \o f[k].out) \o t
      BY <2>3, <2>5, <2>7
    <3>2. f[k + 1].out = f[k].out \o t
      BY <2>8
    <3>3. t \in Seq(Shows)
      BY <2>10
    <3> HIDE DEF t
    <3> DEFINE x == f[k].out
    <3>4. x \in Seq(Shows) /\ h[1] = (written \o x) \o t /\ f[k + 1].out = x \o t
      BY <2>9, <3>1, <3>2
    <3> HIDE DEF x
    <3>5. (written \o x) \o t = written \o (x \o t)
      BY <1>8, <3>3, <3>4, Regroup
    <3> QED BY <3>4, <3>5
  <2>12. l[1] = f[k + 1].saw
    BY <2>3, <2>5, <2>7, <2>8
  <2>13. Reads(w, N + (k + 1), h, l)
    <3>1. (N + k) + 1 = N + (k + 1)
      BY <1>1
    <3> QED BY <2>7, <3>1
  <2>14. \E hh, ll : /\ Reads(w, N + (k + 1), hh, ll)
                     /\ hh[1] = written \o f[k + 1].out
                     /\ ll[1] = f[k + 1].saw
    BY <2>11, <2>12, <2>13
  <2> QED BY <2>1, <2>8, <2>14 DEF T
<1> HIDE DEF T
<1>12. 0 .. n \subseteq T
  BY <1>1, <1>10, <1>11, InductUpTo
<1>13. n \in T
  BY <1>1, <1>12
<1>14. PICK g, m : /\ Reads(w, N + n, g, m)
                   /\ g[1] = written \o f[n].out
                   /\ m[1] = f[n].saw
  BY <1>13 DEF T
<1>15. Text(w) = g[1] /\ Left(w) = m[1]
  BY <1>2, <1>14, TextIsRead
<1> QED BY <1>4, <1>14, <1>15 DEF w

-----------------------------------------------------------------------------
\* The invariant.

\* Nothing is read yet.
LEMMA InitInv == Init => IInv
<1> SUFFICES ASSUME Init PROVE IInv
  OBVIOUS
<1>1. received = <<>> /\ written = <<>> /\ state.out = <<>> /\ state.saw = "nothing"
  BY DEF Init
<1>2. <<>> \in Seq(Symbols) /\ <<>> \in Seq(Symbols \cup {"LF"}) /\ <<>> \in Seq({"keys"})
      /\ Len(<<>>) = 0
  OBVIOUS
<1>3. TypeOK
  BY <1>2 DEF Init, TypeOK, Saws
<1>4. Text(<<>>) = <<>> /\ Left(<<>>) = "nothing"
  <2>1. PICK g, m : Reads(<<>>, 0, g, m) /\ g[1] = <<>> /\ m[1] = "nothing"
    BY NoneRead
  <2> QED BY <1>2, <2>1, TextIsRead
<1>5. Piece \in Nat
  BY Parameters DEF Piece
<1>6. ScreenIsStream
  BY <1>1, <1>2, <1>4, <1>5 DEF ScreenIsStream
<1>7. InStep
  BY <1>1, <1>4 DEF InStep
<1> QED BY <1>3, <1>6, <1>7 DEF IInv

\* A piece is read.
LEMMA ReadPortInv == IInv /\ ReadPort => IInv'
<1> SUFFICES ASSUME IInv, ReadPort PROVE IInv'
  OBVIOUS
<1>1. TypeOK /\ ScreenIsStream /\ InStep
  BY DEF IInv
<1>2. PICK piece \in BoundedSeq(Symbols, Piece) :
        received' = received \o piece /\ state' = Handled(piece)
  BY DEF ReadPort
<1>3. /\ written' = written \o state'.out
      /\ Finish
      /\ UNCHANGED <<pst, check, windows, sent>>
  BY DEF ReadPort
<1>4. Piece \in Nat
  BY Parameters DEF Piece
<1>5. piece \in Seq(Symbols) /\ Len(piece) <= Piece
  <2>1. PICK k \in 0 .. Piece : piece \in [1 .. k -> Symbols]
    BY <1>2 DEF BoundedSeq, SeqOf
  <2> QED BY <1>4, <2>1
<1>6. Handled(piece) \in States /\ Len(Handled(piece).out) <= 2 * Piece
  BY <1>1, <1>5, PieceIsShort
<1>7. TypeOK'
  <2>1. received' \in Seq(Symbols)
    BY <1>1, <1>2, <1>5, ConcatProperties DEF TypeOK
  <2>2. written' \in Seq(Symbols \cup {"LF"})
    <3>1. written \in Seq(Shows) /\ state'.out \in Seq(Shows)
      BY <1>1, <1>2, <1>6 DEF TypeOK, States, Shows
    <3> QED BY <1>3, <3>1, ConcatProperties DEF Shows
  <2>3. pc' \in {"select", "done"} /\ raw' \in BOOLEAN
    BY <1>1, <1>3 DEF TypeOK, Finish
  <2>4. state' \in [saw : Saws, out : Seq(Symbols \cup {"LF"}), code : Symbols \cup {"none"}]
    BY <1>2, <1>6 DEF States, Shows
  <2> QED BY <1>1, <1>3, <2>1, <2>2, <2>3, <2>4 DEF TypeOK
<1>8. ASSUME ~(windows /\ check)
      PROVE  /\ written' = Text(received)'
             /\ state'.saw = Left(received)'
  <2>1. written = Text(received)
    BY <1>1, <1>8 DEF ScreenIsStream
  <2>2. /\ written \o Handled(piece).out = Text(received \o piece)
        /\ Handled(piece).saw = Left(received \o piece)
    BY <1>1, <1>5, <1>8, <2>1, PieceIsText
  <2>3. Text(received \o piece) = Text(received)' /\ Left(received \o piece) = Left(received)'
    BY <1>2, <1>3 DEF Text, Left, Shown
  <2> QED BY <1>2, <1>3, <2>2, <2>3
<1>9. ScreenIsStream'
  <2>1. Len(state'.out) <= 2 * Piece /\ Piece' = Piece
    BY <1>2, <1>3, <1>6 DEF Piece
  <2> QED BY <1>3, <1>8, <2>1 DEF ScreenIsStream
<1>10. InStep'
  BY <1>3, <1>8 DEF InStep
<1> QED BY <1>7, <1>9, <1>10 DEF IInv

\* The keyboard changes nothing that the invariant relates.
LEMMA ElsewhereInv ==
  ASSUME IInv, UNCHANGED <<pst, check, windows, state, received, written>>,
         pc' \in {"select", "done"}, raw' \in BOOLEAN, sent' \in Seq({"keys"})
  PROVE  IInv'
<1>1. TypeOK'
  BY DEF IInv, TypeOK
<1>2. ScreenIsStream'
  BY DEF IInv, ScreenIsStream, Text, Shown, Piece
<1>3. InStep'
  BY DEF IInv, InStep, Left
<1> QED BY <1>1, <1>2, <1>3 DEF IInv

\* Every step keeps the invariant.
LEMMA NextInv == IInv /\ [Next]_vars => IInv'
<1> SUFFICES ASSUME IInv, [Next]_vars PROVE IInv'
  OBVIOUS
<1>1. CASE ReadPort
  BY <1>1, ReadPortInv
<1>2. CASE ReadKeys
  <2>1. UNCHANGED <<pst, check, windows, state, received, written>>
    BY <1>2 DEF ReadKeys
  <2>2. pc' \in {"select", "done"} /\ raw' \in BOOLEAN
    BY <1>2 DEF ReadKeys, IInv, TypeOK
  <2>3. sent' \in Seq({"keys"})
    <3>1. sent \in Seq({"keys"})
      BY DEF IInv, TypeOK
    <3>2. sent' = sent \/ sent' = Append(sent, "keys")
      BY <1>2 DEF ReadKeys
    <3> QED BY <3>1, <3>2
  <2> QED BY <2>1, <2>2, <2>3, ElsewhereInv
<1>3. CASE UNCHANGED vars
  <2>1. /\ UNCHANGED <<pst, check, windows, state, received, written>>
        /\ pc' = pc /\ raw' = raw /\ sent' = sent
    BY <1>3 DEF vars
  <2>2. pc' \in {"select", "done"} /\ raw' \in BOOLEAN /\ sent' \in Seq({"keys"})
    BY <2>1 DEF IInv, TypeOK
  <2> QED BY <2>1, <2>2, ElsewhereInv
<1> QED BY <1>1, <1>2, <1>3 DEF Next

\* Between two pieces the terminal is where a reader of the whole stream is:
\* sawexit_char of SerialTerminal and SocketTerminal outlives the read.
THEOREM Invariance == Spec => []IInv
<1>1. Init => IInv
  BY InitInv
<1>2. IInv /\ [Next]_vars => IInv'
  BY NextInv
<1> QED BY <1>1, <1>2, PTL DEF Spec

\* For every alphabet, buffer size and stream: the screen shows the stream up
\* to an exit sequence, however read cuts it (SerialTerminal and SocketTerminal,
\* but for the functions for Windows with the check), and no piece overruns
\* realbuf.
THEOREM ScreenShowsStream == Spec => []ScreenIsStream
<1>1. IInv => ScreenIsStream
  BY DEF IInv
<1> QED BY <1>1, Invariance, PTL
=============================================================================
