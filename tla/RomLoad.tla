------------------------------- MODULE RomLoad -------------------------------
(***************************************************************************)
(* The single-stage loader over a serial port: loadImage of                *)
(* serialloader.cpp against the loader in the Propeller's ROM, and the     *)
(* delivery of a micro-loader by the loadImage that waits for a response.  *)
(* The ROM understands the host's packet bit by bit (RomEncoding), says    *)
(* after each of its stages, when a timing template asks for it, whether   *)
(* the stage went well, and goes on without the host.  The host counts the *)
(* answers and cannot tell which stage one is about.                       *)
(***************************************************************************)
EXTENDS RomEncoding

CONSTANTS
  Images,     \* the images that were validated
  Damaged,    \* what is left of an image that was damaged on its way
  Tasks,      \* of "run", "program", "programRun", "response": as "run", whose
              \* program then names itself
  Polls,      \* the templates sent for an answer, by stage
  Slowest,    \* the time a stage takes at most, in intervals between templates
  MaxFaults

Stages == {"ram", "program", "verify"}

\* The sum of the memory, the initial call frame laid over what was loaded.
Format == INSTANCE PropImage WITH MaxImageSize <- MaxImage
Sum(bytes) ==
  LET upto[n \in 0..Len(bytes)] ==
        IF n = 0 THEN Format!FrameChecksum
        ELSE (upto[n - 1] + IF Format!InFrame(bytes, n - 1) THEN 0 ELSE bytes[n]) % 256
  IN  upto[Len(bytes)]

\* What the load needs of a valid image.  Validate does not ask for whole longs.
\* That the call frame does not begin before the image is taken for granted by
\* Validate, which writes it to an array.
Valid(i) ==
  /\ i \in Seq(0..255) /\ Format!HeaderSize < Len(i) /\ Len(i) <= MaxImage
  /\ Format!Dbase(i) \in Len(Format!Frame) .. MaxImage /\ Sum(i) = 0

ASSUME Parameters ==
  /\ \A i \in Images : Valid(i)
  /\ Tasks \subseteq {"run", "program", "programRun", "response"}
  /\ Polls \in [Stages -> Nat \ {0}] /\ Slowest \in [Stages -> Nat \ {0}]
  /\ \A s \in Stages : Slowest[s] < Polls[s]
  /\ MaxFaults \in Nat

\* An assumption about the line: damage that keeps the sum is caught by nothing.
ASSUME DamageShows == Sum(Damaged) # 0

VARIABLES
  image, task,  \* what is to be loaded, and why
  version,      \* of the chip; 1 is a Propeller, 0 stands for no chip at all
  hasEEPROM,
  packet,       \* what is sent, as the ROM reads it
  pc,           \* "reset", "held", "flush", "packet", "handshake", then the
                \* stage the host believes to hear of, "response" or "done"
  asked,        \* a template was sent whose answer is awaited
  retries, result,
  toHost,       \* the operating system's buffer of received bytes
  rom,          \* "old" program, "held", "listen", a stage, "launch", "run",
                \* "off" after programming only, "dead" after a failure
  busy,         \* how much longer the stage takes
  worked,       \* the stage advanced since the last template
  command, ram, eeprom,
  faults

board == <<image, task, version, hasEEPROM>>
host  == <<pc, asked, retries, result>>
chip  == <<rom, busy, worked, command, ram, eeprom>>
vars  == <<board, packet, host, toHost, chip, faults>>

Command(t) == CASE t \in {"run", "response"} -> Commands.run
                [] t = "program" -> Commands.program
                [] t = "programRun" -> Commands.programRun

\* The packet is made before anything is sent, from an image behind which
\* anything may lie.
Init ==
  /\ image \in Images /\ task \in Tasks
  /\ packet \in {Understood(LoaderPacket(Command(task), image, beyond)) : beyond \in {0, 255}}
  /\ version \in 0..2 /\ hasEEPROM \in BOOLEAN
  /\ pc = "reset" /\ asked = FALSE /\ retries = 0 /\ result = "pending"
  /\ toHost \in {<<>>, <<"other">>} /\ rom = "old" /\ busy = 0 /\ worked = TRUE
  /\ command = 0 /\ ram = <<>> /\ eeprom = "old" /\ faults = 0

Fault == faults < MaxFaults /\ faults' = faults + 1
NoFault == UNCHANGED faults

\* The operating system keeps what arrives; a byte may be lost or damaged on
\* the way, but is taken not to turn into an acknowledgement, though a "nak" is
\* one bit from it.
Arrive(byte) ==
  \/ toHost' = Append(toHost, byte) /\ NoFault
  \/ toHost' \in {toHost, Append(toHost, "other")} /\ Fault

-----------------------------------------------------------------------------
\* generateResetSignal: the line is pulled and, 10 ms later, let go; after
\* 100 ms what the program before had sent is thrown away.

AssertReset ==
  /\ pc = "reset" /\ pc' = "held" /\ rom' = "held"
  /\ UNCHANGED <<board, packet, asked, retries, result, toHost, busy, worked, command, ram, eeprom, faults>>

DeassertReset ==
  /\ pc = "held" /\ pc' = "flush" /\ rom' = "listen"
  /\ UNCHANGED <<board, packet, asked, retries, result, toHost, busy, worked, command, ram, eeprom, faults>>

\* A slip: nothing is thrown away.
FlushInputNever ==
  /\ pc = "flush" /\ pc' = "packet"
  /\ UNCHANGED <<board, packet, asked, retries, result, toHost, chip, faults>>
FlushInput ==
  /\ pc = "flush" /\ pc' = "packet" /\ toHost' = <<>>
  /\ UNCHANGED <<board, packet, asked, retries, result, chip, faults>>

-----------------------------------------------------------------------------
\* The packet and the handshake.

\* A stage takes its time.
Enter(stage) ==
  /\ rom' = stage /\ worked' = TRUE
  /\ busy' \in 1..Slowest[stage]

\* The whole packet, and the templates that clock out the answer, are sent
\* before the answer is looked at.  Damage to the image shows in the sum.  Damage
\* before it is taken to be silence, though the commands and the lengths are one
\* bit from others, and nothing protects them.
SendPacket ==
  /\ pc = "packet" /\ pc' = "handshake"
  /\ \/ /\ version # 0 /\ packet.heard
        /\ Enter("ram") /\ command' = packet.command
        /\ \/ /\ NoFault /\ ram' = packet.image
              /\ toHost' = Append(toHost, IF VersionField(VersionBytes(version)) = 1
                                      THEN "handshake" ELSE "wrongVersion")
           \/ /\ Fault /\ ram' \in {packet.image, Damaged}
              /\ toHost' \in {toHost \o t : t \in {<<>>, <<"other">>, <<"handshake">>}}
     \/ /\ IF version = 0 \/ ~packet.heard THEN NoFault ELSE Fault
        /\ UNCHANGED <<toHost, chip>>
  /\ UNCHANGED <<board, packet, asked, retries, result, eeprom>>

Return(sts) == pc' = "done" /\ result' = sts /\ UNCHANGED <<asked, retries>>

Await(stage) ==
  /\ pc' = stage /\ asked' = FALSE /\ retries' = Polls[stage] /\ UNCHANGED result

ReceiveHandshake ==
  /\ pc = "handshake"
  /\ IF toHost # <<>> /\ Head(toHost) = "handshake"
     THEN Await("ram") /\ toHost' = Tail(toHost)
     ELSE Return("fatal") /\ UNCHANGED toHost
  /\ UNCHANGED <<board, packet, chip, faults>>

-----------------------------------------------------------------------------
\* The three acknowledgements.

Programs == task \in {"program", "programRun"}

\* What the ROM says of its stage when a template asks, and what it does next.
Verified == CASE rom = "ram"     -> Sum(ram) = 0
              [] rom = "program" -> hasEEPROM
              [] rom = "verify"  -> eeprom = "programmed"

Advance ==
  IF ~Verified THEN rom' = "dead" /\ UNCHANGED <<busy, worked>>
  ELSE CASE rom = "ram" /\ command \in {2, 3} -> Enter("program")
         [] rom = "program" -> Enter("verify")
         [] OTHER -> rom' = "launch" /\ UNCHANGED <<busy, worked>>

\* At a template.
Answer == Arrive(IF Verified THEN "ack" ELSE "nak") /\ Advance

\* The templates that clock out the end of the handshake may also find the
\* first stage done.
ClockOut ==
  /\ pc = "handshake" /\ rom = "ram" /\ busy = 0 /\ Answer
  /\ UNCHANGED <<board, packet, host, command, ram, eeprom>>

SendTemplate ==
  /\ pc \in Stages /\ ~asked /\ asked' = TRUE
  /\ IF rom \in Stages /\ busy = 0
     THEN Answer
     ELSE worked' = (busy = 0) /\ UNCHANGED <<toHost, rom, busy, faults>>
  /\ UNCHANGED <<board, packet, pc, retries, result, command, ram, eeprom>>

\* Only a positive acknowledgement will do.
Accept(byte) == byte = "ack"

\* A slip: the verification of the EEPROM is not waited for.
NextStageHasty(stage) == IF stage = "ram" /\ Programs THEN "program" ELSE "done"
NextStage(stage) ==
  IF ~Programs \/ stage = "verify" THEN "done" ELSE IF stage = "ram" THEN "program" ELSE "verify"

ReceiveAck ==
  /\ pc \in Stages /\ asked /\ toHost # <<>>
  /\ toHost' = Tail(toHost)
  /\ IF ~Accept(Head(toHost)) THEN Return("fatal")
     ELSE IF NextStage(pc) # "done" THEN Await(NextStage(pc))
     ELSE IF task = "response"
          THEN pc' = "response" /\ UNCHANGED <<asked, retries, result>>
          ELSE Return("ok")
  /\ UNCHANGED <<board, packet, chip, faults>>

\* Nothing for 10 ms; an answer that is late counts as a fault.
Timeout ==
  /\ pc \in Stages /\ asked /\ worked
  /\ IF toHost = <<>> THEN NoFault ELSE Fault
  /\ retries' = retries - 1 /\ asked' = FALSE
  /\ IF retries' > 0 THEN UNCHANGED <<pc, result>>
                     ELSE pc' = "done" /\ result' = "fatal"
  /\ UNCHANGED <<board, packet, toHost, chip>>

\* The program's first packet, waited for 1000 ms.
ReceiveResponse ==
  /\ pc = "response"
  /\ \/ toHost # <<>> /\ toHost' = Tail(toHost) /\ Return("ok") /\ NoFault
     \/ toHost = <<>> /\ rom # "launch" /\ Return("stepDown")
        /\ UNCHANGED <<toHost, faults>>
  /\ UNCHANGED <<board, packet, chip>>

-----------------------------------------------------------------------------
\* The ROM by itself.

Work ==
  /\ rom \in Stages /\ busy > 0 /\ busy' = busy - 1 /\ worked' = TRUE
  /\ IF rom = "program" /\ busy' = 0 /\ hasEEPROM
     THEN \/ eeprom' = "programmed" /\ NoFault
          \/ eeprom' = "torn" /\ Fault
     ELSE UNCHANGED <<eeprom, faults>>
  /\ UNCHANGED <<board, packet, host, toHost, rom, command, ram>>

Launch ==
  /\ rom = "launch"
  /\ rom' = IF command = 2 THEN "off" ELSE "run"
  /\ IF task = "response" THEN Arrive("response") ELSE UNCHANGED <<toHost, faults>>
  /\ UNCHANGED <<board, packet, host, busy, worked, command, ram, eeprom>>

\* Nobody sends templates any more.
GiveUp ==
  /\ rom \in Stages /\ busy = 0 /\ pc = "done" /\ rom' = "dead"
  /\ UNCHANGED <<board, packet, host, toHost, busy, worked, command, ram, eeprom, faults>>

Host == \/ AssertReset \/ DeassertReset \/ FlushInput \/ SendPacket \/ ReceiveHandshake
        \/ SendTemplate \/ ReceiveAck \/ Timeout \/ ReceiveResponse
ROM == ClockOut \/ Work \/ Launch \/ GiveUp
Next == Host \/ ROM

Spec == Init /\ [][Next]_vars

-----------------------------------------------------------------------------
\* Properties.

\* What the ROM makes of every packet is the command and the image, its last
\* long filled up.  This holds of every image, by the tables of the encoder.
CommandNumber(t) == CASE t \in {"run", "response"} -> 1 [] t = "program" -> 2 [] t = "programRun" -> 3
Faithful ==
  \A t \in Tasks, i \in Images, beyond \in {0, 255} :
    LET p == Understood(LoaderPacket(Command(t), i, beyond))
    IN  p.heard => p.image = Completed(i) /\ p.command = CommandNumber(t)

\* What the ROM takes in behind the image is overwritten by the call frame: there
\* is nothing when the image consists of whole longs.
Covered(i) == \A k \in Len(i) + 1 .. Len(Completed(i)) : Format!InFrame(i, k - 1)

\* Why the host may take any acknowledgement for the stage it waits for: those
\* it has taken and those next in the buffer are never more than the stages
\* that the ROM has done.  (The first byte of the answer to the handshake is
\* dropped.)
Launched == {"launch", "run", "off"}
Total   == IF command \in {2, 3} THEN 3 ELSE 1
Passed  == CASE rom = "program" -> 1 [] rom = "verify" -> 2 [] rom \in Launched -> Total
             [] rom = "dead" -> Total - 1 [] OTHER -> 0
Taken   == CASE pc = "program" -> 1 [] pc = "verify" -> 2 [] OTHER -> 0
Dropped == IF pc = "handshake" THEN 1 ELSE 0
Counted ==
  pc \in Stages \cup {"handshake"} =>
    /\ Taken <= Passed
    /\ \A k \in 1 .. Len(toHost) :
         (\A j \in Dropped + 1 .. k : toHost[j] = "ack") => Taken + k <= Passed + Dropped

Signs == {"ack", "nak", "handshake", "wrongVersion", "response", "other"}
TypeOK ==
  /\ image \in Images /\ task \in Tasks /\ toHost \in Seq(Signs)
  /\ pc \in {"reset", "held", "flush", "packet", "handshake", "response", "done"} \cup Stages
  /\ rom \in {"old", "held", "listen", "dead"} \cup Stages \cup Launched
  /\ result \in {"pending", "ok", "fatal", "stepDown"} /\ (pc # "done" => result = "pending")
  /\ eeprom \in {"old", "torn", "programmed"} /\ busy \in Nat

\* What the ROM has been told and holds, by the stage it has reached.
Told ==
  /\ packet.heard => packet.image = Completed(image) /\ packet.command = CommandNumber(task)
  /\ rom \notin {"old", "held", "listen"} =>
       /\ command = CommandNumber(task)
       /\ ram = Completed(image) \/ (rom \in {"ram", "dead"} /\ ram = Damaged)
  /\ rom \in {"program", "verify"} \cup Launched => Sum(ram) = 0
  /\ rom \in {"program", "verify"} => Programs
  /\ rom \in {"old", "held", "listen", "ram"} \/ (rom = "program" /\ busy > 0) => eeprom = "old"
  /\ rom \in Launched /\ Programs => eeprom = "programmed"

\* Nothing is in the buffer when the packet is sent, and what the host believes
\* of the ROM is true.
Believed ==
  /\ pc \in {"reset", "held", "flush", "packet"} => rom \in {"old", "held", "listen"}
  /\ pc = "packet" => toHost = <<>>
  /\ pc \in {"program", "verify"} => Programs
  /\ pc = "response" => task = "response"
  /\ pc = "response" \/ result \in {"ok", "stepDown"} => rom \in Launched

IInv == TypeOK /\ Told /\ Believed /\ Counted

\* loadImage returns 0 only if the ROM holds the image that was to be loaded,
\* bit by bit, and behind it nothing but what the call frame overwrites, was told
\* what to do with it and has verified the EEPROM, though the host cannot tell the
\* acknowledgements of the three stages apart.
SuccessIsReal ==
  result = "ok" =>
    /\ SubSeq(ram, 1, Len(image)) = image
    /\ \A k \in Len(image) + 1 .. Len(ram) : Format!InFrame(image, k - 1)
    /\ rom \in Launched
    /\ command = CommandNumber(task)
    /\ Programs => eeprom = "programmed"

\* With nothing lost, damaged or late, a Propeller of version 1 with the memory
\* that is needed takes every image of whole longs, and every other whose call
\* frame covers the rest of its last long, however slow its stages are: the packet
\* encodes it in full, the flush and the number of templates sent are right.
FailureIsReal ==
  result \in {"fatal", "stepDown"} =>
    faults > 0 \/ version # 1 \/ (Programs /\ ~hasEEPROM) \/ ~Covered(image)

\* What FailureIsReal rests on: the ROM hears every packet that the encoder
\* makes, and the host reads its version as it was meant; and while nothing has
\* gone wrong, the buffer holds exactly what the ROM has said and the host has
\* not taken, and templates are left for a stage that is not over.
Heard ==
  /\ VersionField(VersionBytes(1)) = 1
  /\ \A t \in Tasks, i \in Images, beyond \in {0, 255} :
       Understood(LoaderPacket(Command(t), i, beyond)).heard

Fit     == faults = 0 /\ version = 1 /\ (Programs => hasEEPROM) /\ Covered(image)
Owed    == Passed + Dropped - IF pc = "response" THEN 1 ELSE Taken
Named   == IF task = "response" /\ rom \in {"run", "off"} THEN 1 ELSE 0
Patient == retries > busy + IF asked /\ worked THEN 1 ELSE 0

Smooth ==
  /\ faults \in Nat /\ retries \in Int /\ packet.heard
  /\ rom \in Stages => busy <= Slowest[rom]
  /\ Fit =>
       /\ result \in {"pending", "ok"}
       /\ pc # "done" => rom # "dead"
       /\ rom = "verify" \/ (rom = "program" /\ busy = 0) => eeprom = "programmed"
       /\ pc \in Stages \cup {"handshake", "response"} =>
            /\ rom \notin {"old", "held", "listen"} /\ ram = Completed(image)
            /\ Len(toHost) = Owed + Named
            /\ \A k \in 1 .. Owed :
                 toHost[k] = IF k <= Dropped THEN "handshake" ELSE "ack"
       /\ pc \in Stages /\ toHost = <<>> => Patient

\* For a load session the single-stage loader is an attempt like another.
Attempt == INSTANCE LoadAttempt WITH
  LoadType  <- CASE task \in {"run", "response"} -> {"run"} [] task = "program" -> {"program"}
                 [] task = "programRun" -> {"run", "program"},
  result    <- IF task = "response" THEN "pending" ELSE result,
  loader    <- CASE rom = "run" -> "run" [] rom \in {"off", "dead"} -> "reset" [] OTHER -> "rx",
  committed <- rom \in {"launch", "run", "off"},
  eeprom    <- eeprom
AttemptSpec == Attempt!Spec
=============================================================================
