------------------------------- MODULE MCBoard -------------------------------
\* Commands for TLC: images of every kind with two boards, and one image with
\* all short expressions and with boards of up to four lines.
EXTENDS Board

MCNumerals == "0" :> 0 @@ "1" :> 1 @@ "2" :> 2 @@ "3" :> 3 @@ "8" :> 8 @@ "80" :> 80
MCTags == {"clkfreq", "clkmode", "fast-loader-clkfreq", "base", "pin-do"}
MCBuiltIn == "XTAL1" :> 42 @@ "PLL16X" :> 69

\* Images: header, code, and what the files add to them.
Header(vb, db) ==
  <<0, 180, 196, 4, 111, 0, 16, 0>> \o WordBytes(vb) \o WordBytes(db) \o <<24, 0>> \o WordBytes(db + 4)
Code(n) == [k \in 1..n |-> (37 * k) % 256]
Zeros(n) == [k \in 1..n |-> 0]
Sealed(bytes) == SetBytes(bytes, 5, <<(20 - ByteSum(bytes)) % 256>>)
BinaryFile(vb, db) == Sealed(Header(vb, db) \o Code(vb - HeaderSize))
Spin(bytes) == [kind |-> "spin", bytes |-> bytes]
Eeprom(vb, db) == SubSeq(BinaryFile(vb, db) \o Zeros(db - 8 - vb) \o Frame \o Zeros(MaxImageSize), 1, MaxImageSize)
Segment(at, bytes) == [at |-> at, bytes |-> bytes, cog |-> FALSE, readable |-> TRUE]
Elf(segments) == [kind |-> "elf", strings |-> TRUE, segments |-> segments]

Images ==
  { [kind |-> "absent"], Spin(<<>>), Spin(Code(16)),
    Spin(BinaryFile(20, 32)), Spin(BinaryFile(24, 40)), Spin(BinaryFile(20, 41)), Spin(BinaryFile(20, 28)),
    Spin(BinaryFile(20, 36) \o Zeros(8)), Spin(BinaryFile(20, 36) \o Zeros(20)), Spin(BinaryFile(20, 36) \o Zeros(40)),
    Spin(BinaryFile(20, 36) \o <<0, 7>>), Spin(Eeprom(20, 36)), Spin(Eeprom(24, 32)),
    Spin(SubSeq(BinaryFile(24, 40), 1, 20)), Spin(SetBytes(BinaryFile(20, 36), 5, <<1>>)),
    Spin(SetBytes(BinaryFile(20, 36), 6, <<17>>)), Spin(SetClkFreq(BinaryFile(20, 36), 7)),
    Elf(<<Segment(0, Header(0, 0)), Segment(16, Code(5))>>),
    Elf(<<Segment(18, Code(6)), Segment(0, Header(9, 9))>>),
    Elf(<<Segment(0, Header(0, 0)), Segment(16, Code(17))>>),
    Elf(<<Segment(0, Header(0, 0) \o Code(4)), Segment(12, Code(8))>>),
    Elf(<<Segment(0, Header(0, 0)), [Segment(16, Code(5)) EXCEPT !.cog = TRUE]>>),
    Elf(<<[Segment(0, Header(0, 0)) EXCEPT !.readable = FALSE]>>),
    [Elf(<<Segment(0, Header(0, 0))>>) EXCEPT !.strings = FALSE] }

Line(kind, tag, text) == [kind |-> kind, tag |-> tag, text |-> text]
Set(tag, text) == Line("field", tag, text)
Command(file, text, subtype, settings) ==
  [file |-> file, path |-> << <<>>, <<text>>, << <<>> >> >>, board |-> "board", subtype |-> subtype, settings |-> settings]
MHz == <<"80", "MHZ">>
Pll == <<"XTAL1", "+", "PLL16X">>
Good == Spin(BinaryFile(20, 32))

\* Texts of four or five symbols, and some longer ones.
Short1 == [1..4 -> {"2", "base", "-", "<", "&", "/"}]
Short2 == [1..5 -> {"1", "?", ":", "(", ")"}]
Long ==
  { <<"1", "?", "2", ":", "0", "?", "3", ":", "8">>, <<"2", "*", "(", "3", "+", "8", ")", "%", "3">>,
    <<"1", "|", "2", "^", "3", "&", "8", "=", "=", "8">>, <<"8", "-", "3", "-", "2", "-", "~", "1">>,
    <<"{", " ", "pin-do", " ", "}", "<", "<", "2", ">", "=", "3">>, <<"!", "2", "|", "|", "0", "&", "&", "0">>,
    <<"80", " ", "MHZ">>, <<"2", "K", "/", "-", "3">>, <<"-", "8", "%", "3">>, <<"-", "8", ">", ">", "1">>,
    <<"pin-do">>, <<"{", "base">>, <<"{", "2", "}">>, <<"3", " ", "XTAL1">>, <<"3", " ", "nothing">>,
    <<"1", "|", "|", "0", "&", "&", "0">>, <<"0", "!", "=", "1", "<", "2">>, <<"1", "<", " ", "=", "2">>,
    <<"-", "-", "1">>, <<"1", "!", "2">>, <<"(", "1", "?", "(", "0", "?", "2", ":", "3", ")", ":", "8", ")", "*", "2">> }

Lines ==
  { Set("clkfreq", MHz), Set("clkfreq", <<"base", "*", "2">>), Set("base", <<"3">>),
    Set("base", <<"clkfreq">>), Set("clkmode", Pll), Line("section", "ram", <<>>),
    Line("section", "default", <<>>), Line("blank", "", <<>>), Line("bad", "", <<>>) }
Fields == {Set("clkfreq", MHz), Set("clkfreq", <<"base", "*", "2">>), Set("base", <<"3">>),
           Set("base", <<"clkfreq">>), Line("section", "ram", <<>>)}
Some == { <<>>, <<Set("clkfreq", <<"80">>)>>, <<Set("base", <<"2">>), Set("fast-loader-clkfreq", <<"base">>), Set("base", <<"8">>)>>,
          <<Set("loader", <<"rom">>)>> }

WithText(t) ==
  Command(Good, <<Set("base", <<"8">>), Set("pin-do", <<"22">>), Set("clkfreq", t)>>, "default", <<>>)

MCCases ==
  << {Command(f, l, "default", <<>>) :
        f \in Images, l \in {<<>>, <<Set("clkfreq", MHz)>>, <<Set("clkmode", Pll), Set("clkfreq", <<"-", "1">>)>>}},
     {WithText(t) : t \in Short1}, {WithText(t) : t \in Short2}, {WithText(t) : t \in Long},
     {Command(Good, l, sub, d) : l \in [1..4 -> Fields], sub \in {"default", "ram"}, d \in {<<>>}},
     {Command(Good, l, sub, d) : l \in [1..3 -> Lines], sub \in {"default", "ram"}, d \in {<<Set("base", <<"2">>)>>}},
     {Command(Good, l, sub, d) : l \in [1..2 -> Lines], sub \in {"default", "ram"}, d \in Some},
     {[Command(Good, <<>>, "default", d) EXCEPT !.board = "default"] : d \in Some},
     {[Command(Good, <<>>, "default", <<>>) EXCEPT !.path = << <<>> >>]} >>
=============================================================================
