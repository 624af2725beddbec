------------------------------ MODULE MCRomLoad ------------------------------
(***************************************************************************)
(* The constants of the run: images that Validate lets pass, with bytes    *)
(* that put every window of the encoder at every place, of whole longs and *)
(* not, with the call frame right behind the image or further away, or in  *)
(* the image.                                                              *)
(***************************************************************************)
EXTENDS RomLoad

Memory == INSTANCE PropImage WITH MaxImageSize <- 56

\* Header and code up to vbase; byte 5 makes the sum right.
Header(vbase, dbase) ==
  <<0, 180, 196, 4, 111, 0, 16, 0, vbase, 0, dbase, 0, 24, 0, dbase + 4, 0>>
Built(code, dbase) ==
  Memory!UpdateChecksum(Header(16 + Len(code), dbase) \o code)
Codes(n, seeds) == {[j \in 1..n |-> (37 * k + 91 * j + k * j * j) % 256] : k \in seeds}

MCImages ==
  {Built(c, 36) : c \in Codes(4, 0..9) \cup Codes(8, 0..3) \cup {<<255, 255, 255, 255>>}}
    \cup {Built(c, 24 + Len(c)) : c \in Codes(1, {2}) \cup Codes(2, {3}) \cup Codes(3, {5})}
    \cup {Built(c, 25 + Len(c)) : c \in Codes(1, {2}) \cup Codes(3, {7})}
    \cup {Built(c, 40) : c \in Codes(5, {4}) \cup Codes(6, {1}) \cup Codes(7, {6})}
    \cup {Built(<<>>, 24) \o Memory!Frame}
ASSUME \A i \in MCImages : Memory!Validate(i) = "ok"

MCDamaged == Header(20, 36) \o <<1, 2, 3, 4>>
MCPolls   == [ram |-> 3, program |-> 2, verify |-> 2]
MCSlowest == [ram |-> 2, program |-> 1, verify |-> 1]
=============================================================================
