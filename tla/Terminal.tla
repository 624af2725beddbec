------------------------------- MODULE Terminal -------------------------------
(***************************************************************************)
(* Terminal mode: SerialTerminal and SocketTerminal, which copy what the   *)
(* program on the Propeller sends to the screen, piece by piece as read    *)
(* happens to return it, and keys to the Propeller until ESC.  In PST mode *)
(* a carriage return also feeds the line; if the caller checks for an      *)
(* exit, FF 00 nn ends the terminal and the program with nn.  main never   *)
(* asks for that check.                                                    *)
(***************************************************************************)
EXTENDS Naturals, SequencesExt

CONSTANTS
  Symbols,     \* bytes: "FF", "00", "CR" and any others
  BufferSize,  \* of buf; realbuf has twice that
  MaxBytes     \* read in all

ASSUME Parameters ==
  {"FF", "00", "CR"} \subseteq Symbols /\ BufferSize \in Nat \ {0} /\ MaxBytes \in Nat

VARIABLES
  pst, check,  \* the arguments
  windows,     \* the functions for Windows, which read byte by byte
  pc,          \* "select", then "done"
  state,       \* [saw |-> "nothing", "char" or "valid", out |-> realbuf, code |-> exitcode]
  received, written, sent,
  raw          \* the user's terminal is in raw mode

vars == <<pst, check, windows, pc, state, received, written, sent, raw>>

Init ==
  /\ pst \in BOOLEAN /\ check \in BOOLEAN /\ windows \in BOOLEAN
  /\ pc = "select" /\ state = [saw |-> "nothing", out |-> <<>>, code |-> "none"]
  /\ received = <<>> /\ written = <<>> /\ sent = <<>> /\ raw = TRUE

Shown(b) == IF pst /\ b = "CR" THEN <<b, "LF">> ELSE <<b>>

\* A slip: the byte after a withheld FF is taken for an ordinary one.
ByteDropsFF(s, b) ==
  CASE s.saw = "valid" -> [s EXCEPT !.code = b]
    [] s.saw = "char"  -> IF b = "00" THEN [s EXCEPT !.saw = "valid"]
                          ELSE [s EXCEPT !.saw = "nothing", !.out = @ \o Shown(b)]
    [] s.saw = "nothing" -> IF check /\ b = "FF" THEN [s EXCEPT !.saw = "char"]
                            ELSE [s EXCEPT !.out = @ \o Shown(b)]

\* One byte.  The function for Windows forgets to forget the FF.
Byte(s, b) ==
  CASE s.saw = "valid" -> [s EXCEPT !.code = b]
    [] s.saw = "char"  -> IF b = "00" THEN [s EXCEPT !.saw = "valid"]
                          ELSE [s EXCEPT !.saw = IF windows THEN "char" ELSE "nothing",
                                         !.out = @ \o <<"FF", b>>]
    [] s.saw = "nothing" -> IF check /\ b = "FF" THEN [s EXCEPT !.saw = "char"]
                            ELSE [s EXCEPT !.out = @ \o Shown(b)]

Piece == IF windows THEN 1 ELSE BufferSize

\* After an exit sequence the rest of the piece is still gone through.
Finish == IF state'.code # "none" THEN pc' = "done" /\ raw' = FALSE ELSE UNCHANGED <<pc, raw>>

\* The bytes of a piece one after the other, into an empty realbuf.
Handled(piece) ==
  LET after[k \in 0..Len(piece)] ==
        IF k = 0 THEN [state EXCEPT !.out = <<>>] ELSE Byte(after[k - 1], piece[k])
  IN  after[Len(piece)]

ReadPort ==
  /\ pc = "select"
  /\ \E piece \in BoundedSeq(Symbols, Piece) :
       /\ piece # <<>> /\ Len(received) + Len(piece) <= MaxBytes
       /\ received' = received \o piece
       /\ state' = Handled(piece)
  /\ written' = written \o state'.out
  /\ Finish
  /\ UNCHANGED <<pst, check, windows, sent>>

\* A piece with an ESC in it is not sent, whatever was typed before the ESC.
ReadKeys ==
  /\ pc = "select" /\ Len(sent) < 1
  /\ \/ sent' = Append(sent, "keys") /\ UNCHANGED <<pc, raw>>
     \/ pc' = "done" /\ raw' = FALSE /\ UNCHANGED sent
  /\ UNCHANGED <<pst, check, windows, state, received, written>>

Next == ReadPort \/ ReadKeys

Spec == Init /\ [][Next]_vars

-----------------------------------------------------------------------------
\* Properties.

\* The stream read as a whole: an FF is known for what it is by the next byte.
Text(stream) ==
  LET from[i \in 1..Len(stream) + 1] ==
        IF i > Len(stream) THEN <<>>
        ELSE IF ~check \/ stream[i] # "FF" THEN Shown(stream[i]) \o from[i + 1]
        ELSE IF i = Len(stream) \/ stream[i + 1] = "00" THEN <<>>
        ELSE <<"FF", stream[i + 1]>> \o from[i + 2]
  IN  from[1]

\* However the stream is cut into pieces, a sequence across two of them
\* included, the screen shows all of it and nothing twice up to an exit
\* sequence, and no piece overruns the buffer of twice its size.
ScreenIsStream ==
  /\ Len(state.out) <= 2 * Piece
  /\ ~(windows /\ check) => written = Text(received)

-----------------------------------------------------------------------------
\* What the proof of ScreenIsStream adds to it.

Saws == {"nothing", "char", "valid"}

TypeOK ==
  /\ pst \in BOOLEAN /\ check \in BOOLEAN /\ windows \in BOOLEAN
  /\ pc \in {"select", "done"} /\ raw \in BOOLEAN
  /\ state \in [saw : Saws, out : Seq(Symbols \cup {"LF"}), code : Symbols \cup {"none"}]
  /\ received \in Seq(Symbols) /\ written \in Seq(Symbols \cup {"LF"}) /\ sent \in Seq({"keys"})

\* Where the stream as a whole leaves its reader: inside a sequence or not.
Left(stream) ==
  LET from[i \in 1..Len(stream) + 1] ==
        IF i > Len(stream) THEN "nothing"
        ELSE IF ~check \/ stream[i] # "FF" THEN from[i + 1]
        ELSE IF i = Len(stream) THEN "char"
        ELSE IF stream[i + 1] = "00" THEN "valid"
        ELSE from[i + 2]
  IN  from[1]

\* Between two pieces the terminal is where the reader of the stream is.
InStep == ~(windows /\ check) => state.saw = Left(received)

IInv == TypeOK /\ ScreenIsStream /\ InStep
=============================================================================
