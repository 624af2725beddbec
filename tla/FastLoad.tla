------------------------------ MODULE FastLoad ------------------------------
(***************************************************************************)
(* One attempt of the two-stage load: Loader::fastLoadImageHelper and      *)
(* Loader::transmitPacket on the host (src/src/fastloader.cpp), the        *)
(* micro-loader it has just started on the Propeller                       *)
(* (src/spin/IP_Loader.spin), and the serial line or telnet socket between *)
(* them.  The attempt starts when the host has read the "Ready"            *)
(* acknowledgement, has switched to the final baud rate and is connected.  *)
(*                                                                         *)
(* The image is cut into NPackets chunks, numbered from 1.  Main RAM is    *)
(* the sequence of chunks the micro-loader has copied; chunk 0 stands for  *)
(* a payload that is not what the host sent.  What the byte sum of RAM is  *)
(* worth is left to the operator Sum.                                      *)
(***************************************************************************)
EXTENDS Integers, Sequences

CONSTANTS
  NPackets,     \* number of packets of the image
  CheckSum,     \* the host's sum over image and initial call frame
  Sum(_),       \* the sum the micro-loader computes over RAM and call frame
  LoadType,     \* subset of {"run", "program"}
  GarbageIDs,   \* what a damaged packet may hold where its ID was
  ShortReads,   \* the connection may be a socket, whose recv() may return less
  MaxFaults     \* bound on the faults of an attempt

Chunks == 1 .. NPackets
RAMs   == UNION {[1 .. n -> 0 .. NPackets] : n \in 0 .. NPackets}

ASSUME NPacketsAssumption == NPackets \in Nat \ {0}
\* The call frame alone contributes 2 * ($FF + $FF + $F9 + $FF).
ASSUME SumAssumption == /\ CheckSum \in Nat /\ CheckSum > 1
                        /\ \A r \in RAMs : Sum(r) \in Nat \ {0}
ASSUME GarbageAssumption == GarbageIDs \subseteq Int
ASSUME OptionAssumption == /\ LoadType \subseteq {"run", "program"}
                           /\ ShortReads \in BOOLEAN
                           /\ MaxFaults \in Nat

VARIABLES
  phase,        \* where fastLoadImageHelper is; its result once it returned
  packetID,     \* the host's packetID
  tries,        \* transmissions transmitPacket has left
  tag,          \* the tag of the last transmission
  waiting,      \* transmitPacket is in receiveDataExactTimeout
  tmode,        \* "rx": micro-loader; "reset", "run", or "wild" (executing garbage)
  expectedID,   \* the micro-loader's ExpectedID
  ram,          \* what it has copied to Main RAM
  checksum,     \* its Checksum register
  armed,        \* TOVector jumps to :LaunchCode
  launchCode,   \* the packet buffer still holds :LaunchCode
  eeprom,       \* "old", "torn", or "programmed" (a verified copy of RAM)
  acked,        \* the micro-loader has acknowledged since the last transmission
  toTarget,     \* packets on their way to the micro-loader
  toHost,       \* longs on their way to the host: ID, tag, ID, tag, ...
  faults        \* faults so far

hostVars   == <<phase, packetID, tries, tag, waiting>>
loaderVars == <<tmode, expectedID, ram, checksum, armed, launchCode, eeprom>>
linkVars   == <<acked, toTarget, toHost>>
vars       == <<hostVars, loaderVars, linkVars, faults>>

\* Which payload each phase sends.
Kind == [packets       |-> "data",
         verifyRAM     |-> "verifyRAM",
         programEEPROM |-> "programVerifyEEPROM",
         ready         |-> "readyToLaunch",
         launch        |-> "launchNow"]
Sending  == DOMAIN Kind
Returned == {"ok", "fatal", "stepDown"}
Kinds    == {Kind[ph] : ph \in Sending} \cup {"damaged", "short"}
Packets  == [id : Int, tag : Nat, kind : Kinds, chunk : 0 .. NPackets]

Tries == 3
\* rand() is taken to give a tag that is new and equal to no packet ID.
FirstTag == NPackets + 1
NoTag    == 0

Fault == /\ faults < MaxFaults
         /\ faults' = faults + 1

Init ==
  /\ phase = "packets" /\ packetID = NPackets /\ tries = Tries
  /\ tag = FirstTag - 1 /\ waiting = FALSE
  /\ tmode = "rx" /\ expectedID = NPackets /\ ram = <<>> /\ checksum = 0
  /\ armed = FALSE /\ launchCode = FALSE /\ eeprom = "old"
  /\ acked = TRUE /\ toTarget = <<>> /\ toHost = <<>> /\ faults = 0

-----------------------------------------------------------------------------
(* Host: transmitPacket called from fastLoadImageHelper.                   *)

\* Slip: -2 whatever was being sent.
FailureAlwaysStepDown == "stepDown"

\* A failed transmitPacket: -2 while data packets are sent, else its own -1.
Failure == IF phase = "packets" THEN "stepDown" ELSE "fatal"

\* One transmission.  launchNow has no pResult: success without a reply.
Send ==
  /\ phase \in Sending /\ ~waiting /\ tries > 0
  /\ tag' = tag + 1
  /\ tries' = tries - 1
  /\ acked' = FALSE
  /\ toTarget' = IF tmode = "rx"
                 THEN Append(toTarget,
                        [id |-> packetID, tag |-> tag + 1, kind |-> Kind[phase],
                         chunk |-> IF phase = "packets"
                                   THEN NPackets - packetID + 1 ELSE 0])
                 ELSE toTarget
  /\ IF phase = "launch"
     THEN phase' = "ok" /\ waiting' = FALSE
     ELSE phase' = phase /\ waiting' = TRUE
  /\ UNCHANGED <<packetID, toHost, loaderVars, faults>>

\* sendData could not write the whole packet.
SendFails ==
  /\ phase \in Sending /\ ~waiting /\ tries > 0 /\ Fault
  /\ phase' = Failure
  /\ tag' = tag + 1
  /\ tries' = tries - 1
  /\ UNCHANGED <<packetID, waiting, loaderVars, linkVars>>

\* The third transmission went unanswered too.
GiveUp ==
  /\ phase \in Sending /\ ~waiting /\ tries = 0
  /\ phase' = Failure
  /\ UNCHANGED <<packetID, tries, tag, waiting, loaderVars, linkVars, faults>>

\* Slip: retries is set up once instead of for each packet.
AdvanceKeepTries(ph, id) == phase' = ph /\ packetID' = id /\ UNCHANGED tries

\* The result transmitPacket returned, judged by fastLoadImageHelper.
Advance(ph, id) == phase' = ph /\ packetID' = id /\ tries' = Tries
Abort(ph)       == phase' = ph /\ UNCHANGED <<packetID, tries>>

\* Slip: the micro-loader's sum is taken for the image's.
JudgeTrusting(result) ==
  \/ /\ phase = "packets" /\ result = packetID - 1
     /\ Advance(IF packetID = 1 THEN "verifyRAM" ELSE "packets", result)
  \/ phase = "verifyRAM" /\ Advance("ready", result)
  \/ phase = "ready" /\ result = packetID - 1 /\ Advance("launch", result)

Judge(result) ==
  \/ /\ phase = "packets"
     /\ IF result = packetID - 1
        THEN Advance(IF packetID = 1 THEN "verifyRAM" ELSE "packets", packetID - 1)
        ELSE Abort("stepDown")
  \/ /\ phase = "verifyRAM"
     /\ IF result = -CheckSum
        THEN Advance(IF "program" \in LoadType THEN "programEEPROM" ELSE "ready", -CheckSum)
        ELSE Abort("fatal")
  \/ /\ phase = "programEEPROM"
     /\ IF result = -2 * CheckSum
        THEN Advance("ready", -2 * CheckSum) ELSE Abort("fatal")
  \/ /\ phase = "ready"
     /\ IF result = packetID - 1
        THEN Advance("launch", packetID - 1) ELSE Abort("fatal")

\* A reply is accepted when it carries the tag of this transmission and does
\* not ask for the very packet that was sent.
Acceptable(id, t) == t = tag /\ id # packetID

Receive ==
  /\ waiting /\ Len(toHost) >= 2
  /\ waiting' = FALSE
  /\ toHost' = SubSeq(toHost, 3, Len(toHost))
  /\ IF Acceptable(toHost[1], toHost[2])
     THEN Judge(toHost[1])
     ELSE UNCHANGED <<phase, packetID, tries>>
  /\ UNCHANGED <<tag, acked, toTarget, loaderVars, faults>>

\* ReceiveSocketDataExactTimeout is a single recv(): it may return half a reply.
ShortRead ==
  /\ ShortReads /\ waiting /\ Len(toHost) >= 1
  /\ IF Len(toHost) = 1 THEN UNCHANGED faults ELSE Fault
  /\ waiting' = FALSE
  /\ toHost' = Tail(toHost)
  /\ UNCHANGED <<phase, packetID, tries, tag, acked, toTarget, loaderVars>>

\* No whole reply is there or on its way.
Silent == Len(toHost) < 2

\* Slip: the wait for the first byte has no timeout.
TimeoutMidway ==
  /\ waiting /\ Silent /\ toHost # <<>>
  /\ waiting' = FALSE
  /\ toHost' = <<>>
  /\ UNCHANGED <<phase, packetID, tries, tag, acked, toTarget, loaderVars, faults>>

\* The read times out.  Both clocks run for 2 s, and the micro-loader's was
\* started first unless it has acknowledged since: it then resets first.
Timeout ==
  /\ waiting /\ Silent
  /\ tmode = "rx" => acked /\ toTarget = <<>>
  /\ waiting' = FALSE
  /\ toHost' = <<>>
  /\ UNCHANGED <<phase, packetID, tries, tag, acked, toTarget, loaderVars, faults>>

\* The read times out although the reply is on its way.
LateReply ==
  /\ waiting /\ ~Silent /\ Fault
  /\ waiting' = FALSE
  /\ UNCHANGED <<phase, packetID, tries, tag, loaderVars, linkVars>>

-----------------------------------------------------------------------------
(* The micro-loader.                                                       *)

\* Acknowledge: ExpectedID and the transmission ID of the packet at hand.
Acknowledge(id, p) == /\ toHost' = toHost \o <<id, p.tag>>
                      /\ acked' = TRUE

\* :LaunchCode starts the interpreter, or resets when pbase in RAM is wrong.
\* Chunk 1 holds the header of a valid image; any other start may be wrong.
Launch == tmode' \in IF ~(armed /\ launchCode) THEN {"wild"}
                    ELSE IF ram # <<>> /\ ram[1] = 1 THEN {"run"}
                    ELSE {"run", "reset"}

\* The Propeller no longer listens as a micro-loader.
Leave == UNCHANGED <<expectedID, ram, checksum, armed, launchCode, eeprom, acked, toHost>>

\* What a packet leaves where :LaunchCode would be: launchNow and what damage
\* makes of it are too short to reach it, another damaged packet may be.
Buffered(p) == CASE p.kind = "readyToLaunch" -> {TRUE}
                 [] p.kind \in {"launchNow", "short"} -> {launchCode}
                 [] p.kind = "damaged"       -> {launchCode, FALSE}
                 [] OTHER                    -> {FALSE}

\* Not the expected ID: ask for the expected one again.
Refuse(p) ==
  /\ p.id # expectedID
  /\ launchCode' \in Buffered(p)
  /\ Acknowledge(expectedID, p)
  /\ UNCHANGED <<tmode, expectedID, ram, checksum, armed, eeprom>>

\* Slip: #0 for #1, a packet with ID 0 is copied too.
CopyZero(p) ==
  /\ p.id = expectedID /\ expectedID >= 0
  /\ ram' = Append(ram, p.chunk)
  /\ expectedID' = expectedID - 1
  /\ Acknowledge(expectedID - 1, p)
  /\ UNCHANGED <<tmode, checksum, armed, launchCode, eeprom>>

\* Slip: a data packet is copied whatever its ID.
CopyAny(p) ==
  /\ expectedID >= 1
  /\ ram' = Append(ram, p.chunk)
  /\ expectedID' = expectedID - 1
  /\ Acknowledge(expectedID - 1, p)
  /\ UNCHANGED <<tmode, checksum, armed, launchCode, eeprom>>

Copy(p) ==
  /\ p.id = expectedID /\ expectedID >= 1
  /\ ram' = Append(ram, p.chunk)
  /\ expectedID' = expectedID - 1
  /\ Acknowledge(expectedID - 1, p)
  /\ UNCHANGED <<tmode, checksum, armed, launchCode, eeprom>>

\* Slip: an executable packet is executed whatever its ID.
ExecutesAny(p, kind) == expectedID < 1 /\ p.kind = kind

Executes(p, kind) == p.id = expectedID /\ expectedID < 1 /\ p.kind = kind

\* Slip: neg is missing.
RAMVerifyNoNeg(p) ==
  /\ Executes(p, "verifyRAM")
  /\ checksum' = checksum + Sum(ram)
  /\ expectedID' = checksum'
  /\ Acknowledge(expectedID', p)
  /\ UNCHANGED <<tmode, ram, armed, launchCode, eeprom>>

RAMFinalizeVerify(p) ==
  /\ Executes(p, "verifyRAM")
  /\ checksum' = checksum + Sum(ram)
  /\ expectedID' = -checksum'
  /\ Acknowledge(expectedID', p)
  /\ UNCHANGED <<tmode, ram, armed, launchCode, eeprom>>

\* Checksum is shifted left by 3 at entry and right by 1 at each stage passed.
EEPROMProgramVerify(p) ==
  /\ Executes(p, "programVerifyEEPROM")
  /\ checksum' = 2 * checksum
  /\ eeprom' = "programmed"
  /\ expectedID' = -checksum'
  /\ Acknowledge(expectedID', p)
  /\ UNCHANGED <<tmode, ram, armed, launchCode, faults>>

\* Slip: the failure path shifts Checksum as often as the good one.
EEPROMFailsQuietly(p) ==
  /\ Executes(p, "programVerifyEEPROM") /\ Fault
  /\ checksum' = 2 * checksum
  /\ eeprom' \in {eeprom, "torn"}
  /\ expectedID' = -checksum'
  /\ Acknowledge(expectedID', p)
  /\ UNCHANGED <<tmode, ram, armed, launchCode>>

\* EEFail (* 4) and EEFailNoStop (* 4 or * 8), before or after the first write.
EEPROMFails(p) ==
  /\ Executes(p, "programVerifyEEPROM") /\ Fault
  /\ \E k \in {4, 8} : checksum' = k * checksum
  /\ eeprom' \in {eeprom, "torn"}
  /\ expectedID' = -checksum'
  /\ Acknowledge(expectedID', p)
  /\ UNCHANGED <<tmode, ram, armed, launchCode>>

\* Slip: TOVector is not redirected.
ReadyUnarmed(p) ==
  /\ Executes(p, "readyToLaunch")
  /\ launchCode' = TRUE
  /\ expectedID' = expectedID - 1
  /\ Acknowledge(expectedID - 1, p)
  /\ UNCHANGED <<tmode, ram, checksum, armed, eeprom>>

ReadyToLaunch(p) ==
  /\ Executes(p, "readyToLaunch")
  /\ armed' = TRUE /\ launchCode' = TRUE
  /\ expectedID' = expectedID - 1
  /\ Acknowledge(expectedID - 1, p)
  /\ UNCHANGED <<tmode, ram, checksum, eeprom>>

\* A jump into the :LaunchCode that the packet before left in the buffer.
LaunchNow(p) ==
  /\ Executes(p, "launchNow")
  /\ Launch
  /\ Leave

\* A payload that is not code is executed as if it were.
ExecuteGarbage(p) ==
  /\ \E kind \in {"data", "damaged", "short"} : Executes(p, kind)
  /\ tmode' = "wild"
  /\ Leave

\* One packet, ended by the end-of-packet timeout, from the line to its effect.
Deliver ==
  /\ tmode = "rx" /\ toTarget # <<>>
  /\ LET p == Head(toTarget)
     IN  \/ EEPROMFails(p)
         \/ EEPROMProgramVerify(p)
         \/ /\ \/ Refuse(p) \/ Copy(p) \/ RAMFinalizeVerify(p)
               \/ ReadyToLaunch(p) \/ LaunchNow(p) \/ ExecuteGarbage(p)
            /\ UNCHANGED faults
  /\ toTarget' = IF tmode' = "rx" THEN Tail(toTarget) ELSE <<>>
  /\ UNCHANGED hostVars

\* Slip: TOVector always resets.
TimedOutResets ==
  /\ tmode = "rx" /\ toTarget = <<>> /\ tmode' = "reset"
  /\ Leave
  /\ UNCHANGED <<toTarget, hostVars>>

\* 2 s without a packet: TOVector resets the Propeller, or launches once armed.
TimedOut ==
  /\ tmode = "rx" /\ toTarget = <<>>
  /\ IF armed THEN Launch ELSE tmode' = "reset"
  /\ Leave
  /\ UNCHANGED <<toTarget, hostVars>>

\* Slip: the Failsafe timeout is not put back once a packet has come.
FailsafeAtStart ==
  /\ phase \in Returned \/ (waiting /\ Silent)
  /\ expectedID = NPackets
  /\ TimedOut
  /\ UNCHANGED faults

Failsafe ==
  /\ phase \in Returned \/ (waiting /\ Silent)
  /\ TimedOut
  /\ UNCHANGED faults

\* The host's next packet comes too late (slow process, slow network).
HostStalls ==
  /\ phase \in Sending /\ ~(waiting /\ Silent) /\ Fault
  /\ TimedOut

-----------------------------------------------------------------------------
(* The link.                                                               *)

LosePacket ==
  /\ toTarget # <<>> /\ Fault
  /\ toTarget' = Tail(toTarget)
  /\ UNCHANGED <<acked, toHost, hostVars, loaderVars>>

\* The last reply is lost, loses its first or second long, or has its tag damaged.
LoseReply ==
  LET n == Len(toHost) IN
  /\ n >= 2 /\ Fault
  /\ toHost' \in {SubSeq(toHost, 1, n - 2), SubSeq(toHost, 1, n - 1),
                  Append(SubSeq(toHost, 1, n - 2), toHost[n]),
                  [toHost EXCEPT ![n] = NoTag]}
  /\ UNCHANGED <<acked, toTarget, hostVars, loaderVars>>

\* Not the payload that was sent, under the ID it had or under another.
Damaged(p, id, t) ==
  [id |-> id, tag |-> t, chunk |-> 0,
   kind |-> IF p.kind \in {"launchNow", "short"} THEN "short" ELSE "damaged"]

Damage ==
  /\ toTarget # <<>> /\ Fault
  /\ \E id \in GarbageIDs \cup {Head(toTarget).id}, t \in {NoTag, Head(toTarget).tag} :
        toTarget' = <<Damaged(Head(toTarget), id, t)>> \o Tail(toTarget)
  /\ UNCHANGED <<acked, toHost, hostVars, loaderVars>>

\* A gap of two byte times ends a packet early; what follows it is taken for
\* another packet, whose ID and tag are words of the payload.
Split ==
  /\ toTarget # <<>> /\ Fault
  /\ \E id \in GarbageIDs :
        LET p == Head(toTarget)
        IN  toTarget' = <<Damaged(p, p.id, p.tag), Damaged(p, id, NoTag)>> \o Tail(toTarget)
  /\ UNCHANGED <<acked, toHost, hostVars, loaderVars>>

\* Two packets with no gap between them: received as one (the code in front
\* still executes), the second not heard during the reply to the first, or the
\* packet buffer overrun, for its length is never checked.
RunTogether ==
  /\ tmode = "rx" /\ Len(toTarget) >= 2
  /\ LET p    == Head(toTarget)
         rest == SubSeq(toTarget, 3, Len(toTarget))
     IN  \/ /\ toTarget' = <<IF p.kind = "data" THEN Damaged(p, p.id, p.tag) ELSE p>> \o rest
            /\ tmode' = tmode
         \/ toTarget' = <<p>> \o rest /\ tmode' = tmode
         \/ toTarget' = <<>> /\ tmode' = "wild"
  /\ Leave
  /\ UNCHANGED <<hostVars, faults>>

-----------------------------------------------------------------------------

Host   == Send \/ GiveUp \/ Receive \/ ShortRead \/ Timeout
Loader == Deliver \/ Failsafe
Faulty == \/ SendFails \/ LateReply \/ HostStalls
          \/ LosePacket \/ LoseReply \/ Damage \/ Split \/ RunTogether
Next   == Host \/ Loader \/ Faulty

\* The host is one thread that never waits without a timeout; the micro-loader
\* is a loop that polls the line and counts down its failsafe timeout.
Fairness == WF_vars(Host) /\ WF_vars(Loader)

SafeSpec == Init /\ [][Next]_vars
Spec     == SafeSpec /\ Fairness
-----------------------------------------------------------------------------
(* Properties.                                                             *)

HostTypeOK ==
  /\ phase \in Sending \cup Returned
  /\ packetID \in Int /\ tries \in 0 .. Tries /\ tag \in Nat /\ waiting \in BOOLEAN
LoaderTypeOK ==
  /\ tmode \in {"rx", "reset", "run", "wild"}
  /\ expectedID \in Int /\ checksum \in Nat /\ ram \in RAMs
  /\ armed \in BOOLEAN /\ launchCode \in BOOLEAN
  /\ eeprom \in {"old", "torn", "programmed"}
LinkTypeOK ==
  /\ acked \in BOOLEAN /\ toTarget \in Seq(Packets) /\ toHost \in Seq(Int)
  /\ faults \in 0 .. MaxFaults

TypeOK == HostTypeOK /\ LoaderTypeOK /\ LinkTypeOK

Verified == checksum # 0 /\ Sum(ram) = CheckSum

\* The micro-loader neither programs the EEPROM, nor arms or performs the
\* launch, unless the RAM it holds sums to the host's checksum: whatever was
\* lost, split, damaged, repeated or answered late on the way, the RAM
\* verification of RAMFinalizeVerify and fastLoadImageHelper catches it.
LaunchVerified == armed \/ tmode = "run" \/ eeprom # "old" => Verified

\* When fastLoadImageHelper returns 0 the launch is committed on the Propeller,
\* from verified RAM, and the EEPROM holds that RAM if it was to be programmed:
\* no stale, foreign or misread reply makes the host report a success.
SuccessIsReal ==
  phase = "ok" => /\ armed /\ Verified
                  /\ "program" \in LoadType => eeprom = "programmed"

\* Chunks land in the place they have in the image, or are damaged there; a
\* retransmission is never copied twice; the host never counts a packet as
\* delivered for which the micro-loader copied none.
InOrder ==
  /\ \A i \in 1 .. Len(ram) : ram[i] \in {0, i}
  /\ phase = "packets" /\ tmode = "rx" => Len(ram) >= NPackets - packetID

\* A retransmitted executable packet is not executed again: once RAM has been
\* summed it is frozen, and the EEPROM is written at most once per attempt.
FrozenStep == /\ checksum # 0 => ram' = ram
              /\ eeprom # "old" => UNCHANGED <<eeprom, checksum>>
              /\ armed => UNCHANGED <<armed, checksum, eeprom>>
ExecutedOnce == [][FrozenStep]_vars

\* The host gives up only if something went wrong on the link or the target.
NoSpuriousFailure == phase \in {"fatal", "stepDown"} => faults > 0

\* fastLoadImageHelper returns, for every wait has a timeout and every retry a
\* bound; and the micro-loader does not stay behind: it launches, resets, or is
\* lost in code that was damaged on its way.
BothEnd == <>(phase \in Returned /\ tmode # "rx")

\* After a success the program runs even if launchNow is lost: the Propeller
\* neither resets nor waits for ever, and is lost only if a packet was damaged.
SuccessRuns == (phase = "ok") ~> (tmode = "run" \/ (tmode = "wild" /\ faults > 0))

\* An attempt implements LoadAttempt: in particular it asks for a lower baud
\* rate only while nothing has been verified, programmed or committed.
Attempt == INSTANCE LoadAttempt WITH
             result <- IF phase \in Returned THEN phase ELSE "pending",
             loader <- tmode, committed <- armed
AttemptSpec == Attempt!Spec

-----------------------------------------------------------------------------
(* The inductive invariant behind LaunchVerified, SuccessIsReal and          *)
(* ExecutedOnce: what the registers, the two channels and the host's phase   *)
(* say of each other.                                                        *)

Program == "program" \in LoadType
\* The packet ID of readyToLaunch.
ReadyID == IF Program THEN -2 * CheckSum ELSE -CheckSum

\* ExpectedID counts the chunks down until RAM is summed, and then says how far
\* the micro-loader has come.
Registers ==
  /\ checksum = 0 => expectedID \in 0 .. NPackets /\ Len(ram) = NPackets - expectedID
  /\ checksum # 0 => expectedID < 0
  /\ checksum # 0 /\ ~Verified => checksum = Sum(ram) /\ expectedID = -checksum
  /\ Verified => /\ expectedID = -CheckSum => checksum = CheckSum /\ eeprom = "old"
                 /\ Program /\ expectedID = -2 * CheckSum => eeprom = "programmed"
                 /\ expectedID = ReadyID - 1 => armed
  /\ armed => expectedID = ReadyID - 1

\* What a long of a reply says of the micro-loader, whenever it is read.
GoodLongs ==
  {x \in Int : /\ checksum = 0 => x >= 0
               /\ x = -CheckSum => Verified
               /\ Verified /\ Program /\ x = -2 * CheckSum => eeprom = "programmed"
               /\ Verified /\ x = ReadyID - 1 => armed}

\* What a packet on its way says, whenever it is received.
GoodPackets ==
  {p \in Packets :
     /\ p.kind = "verifyRAM" => p.id = 0
     /\ p.kind = "programVerifyEEPROM" => p.id = -CheckSum /\ Verified /\ Program
     /\ p.kind = "readyToLaunch" => p.id = ReadyID /\ Verified
     /\ p.kind = "launchNow" => p.id = ReadyID - 1 /\ armed}

HostKnows ==
  /\ phase = "packets" => packetID \in 1 .. NPackets
  /\ phase = "verifyRAM" => packetID = 0
  /\ phase = "programEEPROM" => packetID = -CheckSum /\ Verified /\ Program
  /\ phase \in {"ready", "launch", "ok"} =>
        Verified /\ (Program => eeprom = "programmed")
  /\ phase = "ready" => packetID = ReadyID
  /\ phase = "launch" => packetID = ReadyID - 1
  /\ phase \in {"launch", "ok"} => armed

IInv ==
  /\ TypeOK
  /\ Registers
  /\ toHost \in Seq(GoodLongs)
  /\ toTarget \in Seq(GoodPackets)
  /\ HostKnows
  /\ LaunchVerified
  /\ waiting => phase \in Sending \ {"launch"}

\* Until the host has seen every chunk acknowledged it sends no code.
NoCode == {p \in Packets : p.kind \in {"data", "damaged", "short"}}
Early  == phase \in {"packets", "stepDown"} => checksum = 0 /\ toTarget \in Seq(NoCode)

\* What InOrder rests on: a packet holds the chunk of its ID or damage, whatever
\* is read as a reply is no lower than the micro-loader's ExpectedID (a damaged
\* tag aside), and the host is never ahead of the micro-loader.
InPlace == {p \in Packets : /\ p.chunk \in {0, NPackets - p.id + 1}
                            /\ p.tag = NoTag \/ p.tag >= NPackets}
Behind  == {x \in Int : x = NoTag \/ x >= expectedID}
Ordered ==
  /\ \A i \in 1 .. Len(ram) : ram[i] \in {0, i}
  /\ toTarget \in Seq(InPlace) /\ tag >= NPackets
  /\ checksum = 0 => toHost \in Seq(Behind)
  /\ phase = "packets" => expectedID <= packetID

\* What NoSpuriousFailure rests on: the host's checksum is that of the image,
\* and until something goes wrong every transmission is answered by the reply
\* that is waited for.
SumIsRight == Sum([i \in Chunks |-> i]) = CheckSum

Awaited == CASE phase = "verifyRAM"         -> -CheckSum
             [] phase = "programEEPROM"     -> -2 * CheckSum
             [] phase \in {"packets", "ready", "launch"} -> packetID - 1
LastSent == [id |-> packetID, tag |-> tag, kind |-> Kind[phase],
             chunk |-> IF phase = "packets" THEN NPackets - packetID + 1 ELSE 0]
Idle     == ~waiting /\ toTarget = <<>> /\ toHost = <<>> /\ expectedID = packetID
Asked    == waiting /\ ~acked /\ toTarget = <<LastSent>> /\ toHost = <<>> /\ expectedID = packetID
Answered == waiting /\ toTarget = <<>> /\ toHost = <<Awaited, tag>> /\ expectedID = Awaited
Undisturbed ==
  faults = 0 =>
    /\ phase \notin {"fatal", "stepDown"}
    /\ phase \in Sending =>
         /\ tmode = "rx" /\ tries = (IF waiting THEN Tries - 1 ELSE Tries)
         /\ \A i \in 1 .. Len(ram) : ram[i] = i
         /\ Idle \/ Asked \/ Answered

-----------------------------------------------------------------------------
(* What comments and documents say, and the code does not do.              *)

\* IP_Loader.spin, comment before the launch code: packet transmissions are
\* repeated if necessary.
LossIsRepaired == <>(phase = "ok")

\* Only packets are lost.
LossySpec == Init /\ [][Host \/ Loader \/ LosePacket]_vars /\ Fairness
=============================================================================
