------------------------------ MODULE PropImage ------------------------------
(***************************************************************************)
(* Program images: a sequence of bytes with the Spin header in the first   *)
(* sixteen (src/src/propimage.cpp), read from a Spin binary or an ELF file *)
(* (src/src/loader.cpp, src/src/loadelf.c).                                *)
(***************************************************************************)
EXTENDS Integers, SequencesExt, FiniteSetsExt

CONSTANT MaxImageSize     \* MAX_IMAGE_SIZE, 32768: the memory of the Propeller

ASSUME MemoryHoldsHeader == MaxImageSize \in Nat /\ MaxImageSize > 24

HeaderSize == 16
Frame == <<255, 255, 249, 255, 255, 255, 249, 255>>     \* initialCallFrame
FrameChecksum == 236                                    \* SPIN_STACK_FRAME_CHECKSUM

\* The header's fields, at their offsets.
Word(image, at) == image[at + 1] + 256 * image[at + 2]
SetBytes(image, at, bytes) ==
  [k \in DOMAIN image |-> IF k - at \in DOMAIN bytes THEN bytes[k - at] ELSE image[k]]
WordBytes(v) == <<v % 256, (v \div 256) % 256>>
LongBytes(v) == WordBytes(v) \o WordBytes(v \div 65536)
Pbase(image) == Word(image, 6)
Vbase(image) == Word(image, 8)
Dbase(image) == Word(image, 10)
ClkFreqBytes(image) == SubSeq(image, 1, 4)
ClkMode(image) == image[5]

SetClkFreq(image, v) == SetBytes(image, 0, LongBytes(v))
ByteOf(v) == v % 256
SetClkMode(image, v) == SetBytes(image, 4, <<ByteOf(v)>>)

ByteSum(bytes) == FoldLeft(LAMBDA a, b : (a + b) % 256, 0, bytes)

\* A slip: the call frame is left out of the sum.
ChecksumOfImage(image) ==
  LET cleared == SetBytes(image, 5, <<0>>)
  IN  SetBytes(image, 5, <<(-ByteSum(cleared)) % 256>>)

UpdateChecksum(image) ==
  LET cleared == SetBytes(image, 5, <<0>>)
  IN  SetBytes(image, 5, <<(-(FrameChecksum + ByteSum(cleared))) % 256>>)

\* The memory of the Propeller with the image and the call frame in place.
InFrame(image, i) == i >= Dbase(image) - 8 /\ i < Dbase(image)
FullImage(image) ==
  [k \in 1..MaxImageSize |->
     IF InFrame(image, k - 1) THEN Frame[k - (Dbase(image) - 8)]
     ELSE IF k <= Len(image) THEN image[k] ELSE 0]

Validate(image) ==
  CASE Len(image) <= HeaderSize -> "truncated"
    [] Len(image) > HeaderSize /\ Len(image) < Vbase(image) -> "truncated"
    [] OTHER ->
         IF Len(image) > MaxImageSize THEN "too large"
         ELSE IF Pbase(image) # HeaderSize THEN "corrupted"
         ELSE IF Dbase(image) > MaxImageSize THEN "too large"
         ELSE IF ByteSum(FullImage(image)) # 0 THEN "corrupted"
         ELSE IF \E i \in Vbase(image) .. Len(image) - 1 :
                   FullImage(image)[i + 1] # 0 /\ ~InFrame(image, i)
         THEN "corrupted" ELSE "ok"

-----------------------------------------------------------------------------
\* Files.  [kind |-> "absent"], [kind |-> "spin", bytes |-> ...] or
\* [kind |-> "elf", strings, segments]: the section table can be read, and the
\* program's segments [at, bytes, cog, readable] in the order of their table.

None == <<>>       \* no image: readFile has returned NULL

ReadSpinBinaryFile(f) == f.bytes

Hub(f) == SelectSeq(f.segments, LAMBDA s : ~s.cog)
Start(f) == Min({s.at : s \in Range(Hub(f))})
End(f) == Max({s.at + Len(s.bytes) : s \in Range(Hub(f))})

\* The segments in order over zeros, and the header made to fit what they fill.
ReadElfFile(f) ==
  IF ~f.strings \/ \E s \in Range(f.segments) : ~s.readable \/ (s.cog /\ s.bytes # <<>>) THEN None
  ELSE LET size  == End(f) - Start(f)
           laid  == FoldLeft(LAMBDA image, s : SetBytes(image, s.at - Start(f), s.bytes),
                             [k \in 1..size |-> 0], Hub(f))
       IN  UpdateChecksum(SetBytes(SetBytes(laid, 8, WordBytes(size) \o WordBytes(size + 8)),
                                   14, WordBytes(size + 12)))

ReadFile(f) ==
  CASE f.kind = "absent" -> None
    [] f.kind = "elf"    -> ReadElfFile(f)
    [] f.kind = "spin"   -> ReadSpinBinaryFile(f)
=============================================================================
