----------------------------- MODULE SDTransfer -----------------------------
(***************************************************************************)
(* Writing a file to the SD card: WriteFileToSDCard (src/src/main.cpp) and *)
(* PacketDriver (src/src/packet.cpp) on the host, the packet driver cog    *)
(* (src/spin/packet_driver.spin), the helper cog (src/spin/sd_helper.spin) *)
(* and the line.  The two cogs share a mailbox and two packet buffers in   *)
(* hub RAM without a lock: the driver fills one buffer while the helper    *)
(* works on the other, which is why an acknowledgement says that the       *)
(* packet BEFORE the acknowledged one has been dealt with.                 *)
(*                                                                         *)
(* Frames are numbered: 0 is FILE_WRITE, 1 .. NBlocks are DATA, then come  *)
(* two EOFs.  Block b is the payload of frame b, and the file name is      *)
(* block 0.                                                                *)
(***************************************************************************)
EXTENDS Integers, Sequences

CONSTANTS NBlocks,    \* number of packets the file fills
          MaxFaults   \* bound on the faults of a transfer

ASSUME NBlocksAssumption == NBlocks \in Nat
ASSUME FaultsAssumption  == MaxFaults \in Nat

VARIABLES
  host,        \* "load", "initial", "send", "wait"; "ok" or "failed"
  frame,       \* the frame to send or sent: the number acknowledged so far
  line,        \* parts of frames on their way to the driver
  replies,     \* bytes on their way to the host
  rcv_state,   \* the driver: where it is in a packet, or in handing it over
  rcv_frame,   \* its rcv_type and rcv_length
  crcOK,       \* crc would come to 0 if the CRC bytes were good
  rcv_buf1,    \* the buffer it fills; the other is rcv_buf2
  buffers,     \* what the two buffers hold
  sndbyte,     \* the byte it is about to send
  mailbox,     \* type, length, buffer and status of the packet handed over
  cog,         \* where the helper is
  packet,      \* its copy of the mailbox
  writing,     \* write_mode is WRITE_FILE
  mounted,     \* sd_mounted
  card,        \* "in", or "out": the SD card cannot be mounted
  file,        \* "none", "open" or "closed"
  contents,    \* the blocks written to the file
  cardError,   \* an SD operation has returned an error
  handled,     \* history: packets the helper has dealt with and released
  faults       \* faults so far

hostVars   == <<host, frame>>
linkVars   == <<line, replies>>
driverVars == <<rcv_state, rcv_frame, crcOK, rcv_buf1, sndbyte>>
hubVars    == <<buffers, mailbox>>
helperVars == <<cog, packet, writing, mounted, handled>>
cardVars   == <<card, file, contents, cardError>>
vars       == <<hostVars, linkVars, driverVars, hubVars, helperVars, cardVars, faults>>

Frames    == 0 .. NBlocks + 2
FirstEOF  == NBlocks + 1
SecondEOF == NBlocks + 2
Type(f)   == CASE f = 0 -> "FILE_WRITE"
               [] f \in 1 .. NBlocks -> "DATA"
               [] OTHER -> "EOF"

\* What a buffer holds if a payload was damaged.
Garbage == -1
Blocks  == Garbage .. NBlocks

\* The parts of a frame.  "bad": with damage that the header checksum or the
\* CRC catches; "short": with bytes missing.
Parts == [part : {"hdr", "data", "crc"}, frame : Frames, state : {"good", "bad", "short"}]
Part(p, f) == [part |-> p, frame |-> f, state |-> "good"]

\* The length only matters for whether it is that of the block.
Mails == [type : {"FILE_WRITE", "DATA", "EOF"}, length : Frames,
          buffer : {1, 2}, status : {"PENDING", "OK"}]

Fault == faults < MaxFaults /\ faults' = faults + 1

Init ==
  /\ host = "load" /\ frame = 0
  /\ line = <<>> /\ replies = <<>>
  /\ rcv_state = "BOOT" /\ rcv_frame = 0 /\ crcOK = FALSE
  /\ rcv_buf1 = 1 /\ sndbyte = "ACK"
  /\ buffers = [b \in {1, 2} |-> Garbage]
  /\ mailbox = [type |-> "FILE_WRITE", length |-> 0, buffer |-> 1, status |-> "PENDING"]
  /\ cog = "off" /\ packet = mailbox /\ writing = FALSE /\ mounted = FALSE
  /\ card \in {"in", "out"} /\ file = "none" /\ contents = <<>> /\ cardError = FALSE
  /\ handled = 0 /\ faults = 0

-----------------------------------------------------------------------------
(* Host.                                                                   *)

\* Opening the file, and LoadSDHelper: the helper is loaded, or something in
\* the file, the configuration or the load was wrong.
LoadSDHelper ==
  /\ host = "load"
  /\ \/ host' = "initial" /\ cog' = "start" /\ UNCHANGED faults
     \/ host' = "failed" /\ cog' = cog /\ Fault
  /\ UNCHANGED <<frame, linkVars, driverVars, hubVars, cardVars,
                 packet, writing, mounted, handled>>

HasPayload(f) == f <= NBlocks

\* sendPacket: header, payload if there is one, CRC.
FrameParts(f) ==
  IF HasPayload(f) THEN <<Part("hdr", f), Part("data", f), Part("crc", f)>>
                   ELSE <<Part("hdr", f), Part("crc", f)>>

SendPacket ==
  /\ host = "send"
  /\ host' = "wait"
  /\ line' = line \o FrameParts(frame)
  /\ UNCHANGED <<frame, replies, driverVars, hubVars, helperVars, cardVars, faults>>

\* Slip: one EOF is enough.
AcknowledgedFirstEOF ==
  /\ frame' = frame + 1
  /\ host' = IF frame = FirstEOF THEN "ok" ELSE "send"

\* After the second EOF WriteFileToSDCard returns 0.
Acknowledged ==
  /\ frame' = frame + 1
  /\ host' = IF frame = SecondEOF THEN "ok" ELSE "send"

\* waitForAckNak: anything but ACK is a failure, and nothing is sent again.
WaitForAckNak ==
  /\ host \in {"initial", "wait"} /\ replies # <<>>
  /\ replies' = Tail(replies)
  /\ \/ Head(replies) = "ACK" /\ host = "initial" /\ host' = "send" /\ frame' = frame
     \/ Head(replies) = "ACK" /\ host = "wait" /\ Acknowledged
     \/ Head(replies) # "ACK" /\ host' = "failed" /\ frame' = frame
  /\ UNCHANGED <<line, driverVars, hubVars, helperVars, cardVars, faults>>

Receiving == {"SOH", "DATA", "CRC", "STALL"}

\* The driver waits for bytes that nobody will send, or for a helper that
\* cannot go on.
Stuck == \/ line = <<>> /\ rcv_state \in Receiving
         \/ /\ rcv_state = "WAIT"
            /\ cog = "hung" \/ (cog = "handle" /\ ~mounted /\ card = "out")

\* Slip: the wait for the initial ACK has no timeout.
GiveUpPacket ==
  /\ host = "wait" /\ replies = <<>>
  /\ host' = "failed"
  /\ UNCHANGED <<frame, linkVars, driverVars, hubVars, helperVars, cardVars>>

GiveUp ==
  /\ host \in {"initial", "wait"} /\ replies = <<>>
  /\ host' = "failed"
  /\ UNCHANGED <<frame, linkVars, driverVars, hubVars, helperVars, cardVars>>

\* 10 s without a reply.
Timeout == Stuck /\ GiveUp /\ UNCHANGED faults

\* The card takes longer than that.
SlowCard == Fault /\ GiveUp

-----------------------------------------------------------------------------
(* The packet driver cog.                                                  *)

\* entry: no packet available yet, tell the sender that we are ready.
Entry ==
  /\ rcv_state = "BOOT" /\ cog = "start"
  /\ mailbox' = [mailbox EXCEPT !.status = "PENDING"]
  /\ sndbyte' = "ACK" /\ rcv_state' = "SEND"
  /\ UNCHANGED <<rcv_frame, crcOK, rcv_buf1, buffers, hostVars, linkVars,
                 helperVars, cardVars, faults>>

SendNak  == rcv_state' = "SEND" /\ sndbyte' = "NAK"
Expect(st) == rcv_state' = st /\ UNCHANGED sndbyte

\* Slip: the state after the header does not depend on the length.
HeaderNoEmpty(p) ==
  /\ rcv_state = "SOH" /\ p.part = "hdr"
  /\ \/ /\ p.state = "good"
        /\ rcv_frame' = p.frame /\ crcOK' = TRUE
        /\ Expect("DATA")
     \/ /\ p.state # "good"
        /\ UNCHANGED <<rcv_frame, crcOK>>
        /\ SendNak
  /\ UNCHANGED buffers

\* do_soh .. do_chk.
Header(p) ==
  /\ rcv_state = "SOH" /\ p.part = "hdr"
  /\ \/ /\ p.state = "good"
        /\ rcv_frame' = p.frame /\ crcOK' = TRUE
        /\ Expect(IF HasPayload(p.frame) THEN "DATA" ELSE "CRC")
     \/ /\ p.state # "good"
        /\ UNCHANGED <<rcv_frame, crcOK>>
        /\ SendNak \/ Expect("SOH") \/ (p.state = "short" /\ Expect("STALL"))
  /\ UNCHANGED buffers

\* do_soh on what follows a header that was not taken for one: it is skipped,
\* unless it holds the code of SOH.
Skip(p) ==
  /\ rcv_state = "SOH" /\ p.part # "hdr"
  /\ SendNak \/ Expect("SOH") \/ Expect("STALL")
  /\ UNCHANGED <<rcv_frame, crcOK, buffers>>

\* do_data.
Data(p) ==
  /\ rcv_state = "DATA"
  /\ buffers' = [buffers EXCEPT ![rcv_buf1] = IF p.state = "good" THEN p.frame ELSE Garbage]
  /\ crcOK' = (p.state = "good")
  /\ Expect(IF p.state = "short" THEN "STALL" ELSE "CRC")
  /\ UNCHANGED rcv_frame

\* Slip: the CRC is received but not compared.
CrcUnchecked(p) ==
  /\ rcv_state = "CRC"
  /\ Expect(IF p.state = "short" THEN "STALL" ELSE "WAIT")
  /\ UNCHANGED <<rcv_frame, crcOK, buffers>>

\* do_crc_hi, do_crc_lo.
Crc(p) ==
  /\ rcv_state = "CRC"
  /\ \/ p.state = "short" /\ Expect("STALL")
     \/ p.state = "good" /\ crcOK /\ Expect("WAIT")
     \/ ~(p.state = "good" /\ crcOK) /\ p.state # "short" /\ SendNak
  /\ UNCHANGED <<rcv_frame, crcOK, buffers>>

\* In the middle of a packet that lacks bytes.
Stall(p) ==
  /\ rcv_state = "STALL"
  /\ SendNak \/ Expect("STALL")
  /\ UNCHANGED <<rcv_frame, crcOK, buffers>>

Receive ==
  /\ rcv_state \in Receiving /\ line # <<>>
  /\ LET p == Head(line)
     IN  Header(p) \/ Skip(p) \/ Data(p) \/ Crc(p) \/ Stall(p)
  /\ line' = Tail(line)
  /\ UNCHANGED <<replies, rcv_buf1, mailbox, hostVars, helperVars, cardVars, faults>>

WriteMailbox(field, value) == mailbox' = [mailbox EXCEPT ![field] = value]

\* Slip: the packet before need not be released.
FreeAlways == TRUE

MailboxFree == mailbox.status = "PENDING"

\* Slips: the buffers are not swapped, or the second is not followed by the first.
NoSwap     == rcv_buf1
NextBuffer == rcv_buf1 + 1

\* rcv_buf1 and rcv_buf2 change places.
OtherBuffer == 3 - rcv_buf1

\* Slip: the status is written before the buffer.
HandOverEarly ==
  /\ \/ /\ rcv_state = "WAIT" /\ MailboxFree
        /\ WriteMailbox("type", Type(rcv_frame)) /\ rcv_state' = "LENGTH"
     \/ rcv_state = "LENGTH" /\ WriteMailbox("length", rcv_frame) /\ rcv_state' = "STATUS"
     \/ rcv_state = "STATUS" /\ WriteMailbox("status", "OK") /\ rcv_state' = "BUFFER"
     \/ rcv_state = "BUFFER" /\ WriteMailbox("buffer", rcv_buf1) /\ rcv_state' = "SEND"
  /\ IF rcv_state' = "SEND" THEN rcv_buf1' = OtherBuffer /\ sndbyte' = "ACK"
                            ELSE UNCHANGED <<rcv_buf1, sndbyte>>
  /\ UNCHANGED <<rcv_frame, crcOK, buffers, hostVars, linkVars, helperVars, cardVars, faults>>

\* A packet is handed over as soon as the one before has been released: four
\* writes to hub RAM, the status last, and an ACK.
HandOver ==
  /\ \/ /\ rcv_state = "WAIT" /\ MailboxFree
        /\ WriteMailbox("type", Type(rcv_frame)) /\ rcv_state' = "LENGTH"
     \/ rcv_state = "LENGTH" /\ WriteMailbox("length", rcv_frame) /\ rcv_state' = "BUFFER"
     \/ rcv_state = "BUFFER" /\ WriteMailbox("buffer", rcv_buf1) /\ rcv_state' = "STATUS"
     \/ rcv_state = "STATUS" /\ WriteMailbox("status", "OK") /\ rcv_state' = "SEND"
  /\ IF rcv_state' = "SEND" THEN rcv_buf1' = OtherBuffer /\ sndbyte' = "ACK"
                            ELSE UNCHANGED <<rcv_buf1, sndbyte>>
  /\ UNCHANGED <<rcv_frame, crcOK, buffers, hostVars, linkVars, helperVars, cardVars, faults>>

\* The transmit buffer takes 15 bytes and never holds more than two.
SendAckNak ==
  /\ rcv_state = "SEND"
  /\ replies' = Append(replies, sndbyte)
  /\ rcv_state' = "SOH"
  /\ UNCHANGED <<line, rcv_frame, crcOK, rcv_buf1, sndbyte, hubVars, hostVars,
                 helperVars, cardVars, faults>>

-----------------------------------------------------------------------------
(* The helper cog.                                                         *)

\* pkt.start returns when the driver has initialised.
Start ==
  /\ cog = "start" /\ rcv_state # "BOOT"
  /\ cog' = "poll" /\ mounted' = FALSE /\ writing' = FALSE
  /\ UNCHANGED <<packet, handled, hostVars, linkVars, driverVars, hubVars, cardVars, faults>>

\* rcv_packetx waits for a status and copies the mailbox long by long.  The
\* driver reports no status but STATUS_OK.
RcvPacket ==
  /\ \/ cog = "poll" /\ mailbox.status # "PENDING" /\ cog' = "type" /\ UNCHANGED packet
     \/ cog = "type" /\ cog' = "buffer" /\ packet' = [packet EXCEPT !.type = mailbox.type]
     \/ cog = "buffer" /\ cog' = "length" /\ packet' = [packet EXCEPT !.buffer = mailbox.buffer]
     \/ cog = "length" /\ cog' = "handle" /\ packet' = [packet EXCEPT !.length = mailbox.length]
  /\ UNCHANGED <<writing, mounted, handled, hostVars, linkVars, driverVars, hubVars,
                 cardVars, faults>>

\* What is at the packet's address, of the packet's length.
Content == IF buffers[packet.buffer] = packet.length THEN packet.length ELSE Garbage

CardOK    == UNCHANGED <<cardError, faults>>
CardFails == cardError' = TRUE /\ Fault

\* mountSD repeats until the card answers; then sd.popen(name, "w").  Its error
\* is not looked at.
FileWrite ==
  /\ packet.type = "FILE_WRITE"
  /\ mounted \/ card = "in"
  /\ mounted' = TRUE /\ writing' = TRUE
  /\ \/ CardOK /\ file' = (IF Content = 0 THEN "open" ELSE "none") /\ contents' = <<>>
     \/ CardFails /\ UNCHANGED <<file, contents>>
  /\ cog' = "release"

\* sd.pwrite, whose error is not looked at either.
DataHandler ==
  /\ packet.type = "DATA"
  /\ UNCHANGED <<mounted, writing, file>>
  /\ \/ /\ CardOK
        /\ contents' = IF writing /\ file = "open" THEN Append(contents, Content) ELSE contents
     \/ writing /\ CardFails /\ contents' = contents
  /\ cog' = "release"

\* sd.pclose, the same.
EofHandler ==
  /\ packet.type = "EOF"
  /\ writing' = FALSE /\ UNCHANGED <<mounted, contents>>
  /\ \/ /\ CardOK
        /\ file' = IF writing /\ file = "open" THEN "closed" ELSE file
     \/ writing /\ CardFails /\ file' = file
  /\ cog' = "release"

\* The card is full: pflushbuf looks for a free cluster for ever.
CardFull ==
  /\ packet.type \in {"DATA", "EOF"} /\ writing /\ file = "open"
  /\ Fault /\ cog' = "hung"
  /\ UNCHANGED <<writing, mounted, file, contents, cardError>>

Handle ==
  /\ cog = "handle"
  /\ FileWrite \/ DataHandler \/ EofHandler \/ CardFull
  /\ UNCHANGED <<packet, handled, card, hostVars, linkVars, driverVars, hubVars>>

ReleasePacket ==
  /\ cog = "release"
  /\ WriteMailbox("status", "PENDING")
  /\ cog' = "poll" /\ handled' = handled + 1
  /\ UNCHANGED <<packet, writing, mounted, buffers, hostVars, linkVars, driverVars,
                 cardVars, faults>>

-----------------------------------------------------------------------------
(* The line.                                                               *)

\* Bytes of a part are damaged or missing.
DamagePart ==
  /\ line # <<>> /\ Fault
  /\ \E i \in 1 .. Len(line), st \in {"bad", "short"} :
        line' = [line EXCEPT ![i].state = st]
  /\ UNCHANGED <<replies, hostVars, driverVars, hubVars, helperVars, cardVars>>

\* A reply is lost or damaged.
DamageReply ==
  /\ replies # <<>> /\ Fault
  /\ replies' \in {Tail(replies), <<"noise">> \o Tail(replies)}
  /\ UNCHANGED <<line, hostVars, driverVars, hubVars, helperVars, cardVars>>

-----------------------------------------------------------------------------

Host   == LoadSDHelper \/ SendPacket \/ WaitForAckNak \/ Timeout
Driver == Entry \/ Receive \/ HandOver \/ SendAckNak
Helper == Start \/ RcvPacket \/ Handle \/ ReleasePacket
Faulty == SlowCard \/ DamagePart \/ DamageReply
Next   == Host \/ Driver \/ Helper \/ Faulty

\* Three processors; the host's waits have a timeout.
Fairness == WF_vars(Host) /\ WF_vars(Driver) /\ WF_vars(Helper)

SafeSpec == Init /\ [][Next]_vars
Spec     == SafeSpec /\ Fairness
-----------------------------------------------------------------------------
(* Properties.                                                             *)

Results == {"ok", "failed"}

HostTypeOK ==
  /\ host \in {"load", "initial", "send", "wait"} \cup Results
  /\ frame \in 0 .. NBlocks + 3
LinkTypeOK ==
  /\ line \in Seq(Parts) /\ replies \in Seq({"ACK", "NAK", "noise"})
DriverTypeOK ==
  /\ rcv_state \in {"BOOT", "WAIT", "LENGTH", "BUFFER", "STATUS", "SEND"} \cup Receiving
  /\ rcv_frame \in Frames /\ crcOK \in BOOLEAN /\ rcv_buf1 \in {1, 2}
  /\ sndbyte \in {"ACK", "NAK"}
HubTypeOK == buffers \in [{1, 2} -> Blocks] /\ mailbox \in Mails
HelperTypeOK ==
  /\ cog \in {"off", "start", "poll", "type", "buffer", "length", "handle", "release", "hung"}
  /\ packet \in Mails /\ writing \in BOOLEAN /\ mounted \in BOOLEAN
  /\ handled \in Nat
CardTypeOK ==
  /\ card \in {"in", "out"} /\ file \in {"none", "open", "closed"}
  /\ contents \in Seq(Blocks) /\ cardError \in BOOLEAN

TypeOK == /\ HostTypeOK /\ LinkTypeOK /\ DriverTypeOK /\ HubTypeOK /\ HelperTypeOK
          /\ CardTypeOK /\ faults \in 0 .. MaxFaults

\* While a packet is handed over to the helper, neither its mailbox nor its
\* buffer changes: the driver, busy receiving the next packet, uses the other
\* buffer and waits for the release before it writes the mailbox.
HandedOverStep ==
  mailbox.status = "OK" =>
    /\ mailbox' \in {mailbox, [mailbox EXCEPT !.status = "PENDING"]}
    /\ buffers'[mailbox.buffer] = buffers[mailbox.buffer]
HandedOverIsStable == [][HandedOverStep]_vars

\* What reaches the handlers is what the host sent, in the order it was sent:
\* the helper's copy of the mailbox, read in three steps, is of one packet, and
\* the buffer still holds that packet's payload.
HandledInOrder ==
  cog = "handle" => /\ packet.length = handled
                    /\ packet.type = Type(handled)
                    /\ HasPayload(handled) => Content = handled

\* The driver receives one packet ahead and no more, so that an acknowledged
\* packet means that the one before it has been handled (the reason given in
\* WriteFileToSDCard for sending two EOF packets).
OneAhead == frame <= handled + 1 /\ handled <= frame + 1

\* The file holds the blocks of the file in order; one can only be missing
\* after an error of the card.
BlocksInOrder ==
  /\ \A i \in 1 .. Len(contents) : contents[i] # Garbage
  /\ \A i, j \in 1 .. Len(contents) : i < j => contents[i] < contents[j]
  /\ ~cardError => \A i \in 1 .. Len(contents) : contents[i] = i

\* The transfer fails only when something is wrong.
NoSpuriousFailure == host = "failed" => faults > 0 \/ card = "out"

\* WriteFileToSDCard returns, with or without a card.
HostReturns == <>(host \in Results)

\* SDTransfer implements FileStore: the file is stored block by block, and
\* success is reported only for a complete, closed file or after an SD error.
Store == INSTANCE FileStore WITH
           result <- IF host \in Results THEN host ELSE "pending"
StoreSpec == Store!Spec

-----------------------------------------------------------------------------
(* The inductive invariant behind these properties.                        *)

\* Packets handed over so far, and packets whose handler is done.
Posted == handled + (IF mailbox.status = "OK" THEN 1 ELSE 0)
Done   == handled + (IF cog = "release" THEN 1 ELSE 0)

\* What is on the line is the rest of one frame.
LineShape ==
  /\ line # <<>> => host \in {"wait", "failed"} /\ frame \in Frames /\ Posted = frame
  /\ Len(line) <= (IF HasPayload(frame) THEN 3 ELSE 2)
  /\ \A i \in 1 .. Len(line) :
        /\ line[i].frame = frame
        /\ line[i].part = IF i = Len(line) THEN "crc"
                          ELSE IF i = Len(line) - 1 /\ HasPayload(frame) THEN "data"
                          ELSE "hdr"

\* The driver has the frame the host waits for, in the buffer it fills.
DriverHas ==
  /\ rcv_state = "DATA" => Len(line) = 2 /\ HasPayload(frame)
  /\ rcv_state = "CRC" => Len(line) = 1
  /\ rcv_state \in {"BOOT", "WAIT", "LENGTH", "BUFFER", "STATUS"} => line = <<>>
  /\ rcv_state \in {"DATA", "CRC", "WAIT", "LENGTH", "BUFFER", "STATUS"} =>
        /\ host \in {"wait", "failed"} /\ frame \in Frames
        /\ rcv_frame = frame /\ Posted = frame
  /\ (rcv_state = "CRC" /\ crcOK) \/ rcv_state \in {"WAIT", "LENGTH", "BUFFER", "STATUS"} =>
        (HasPayload(frame) => buffers[rcv_buf1] = frame)

\* What the mailbox holds while it is being written and once it is handed over.
MailboxHas ==
  /\ rcv_state \in {"LENGTH", "BUFFER", "STATUS"} =>
        mailbox.status = "PENDING" /\ mailbox.type = Type(frame)
  /\ rcv_state \in {"BUFFER", "STATUS"} => mailbox.length = frame
  /\ rcv_state = "STATUS" => mailbox.buffer = rcv_buf1
  /\ mailbox.status = "OK" =>
        /\ handled \in Frames
        /\ mailbox.type = Type(handled) /\ mailbox.length = handled
        /\ mailbox.buffer = OtherBuffer
        /\ HasPayload(handled) => buffers[mailbox.buffer] = handled

\* How many packets host and driver have agreed on.
Agreed ==
  /\ Posted \in {frame, frame + 1}
  /\ rcv_state = "BOOT" => Posted = 0
  /\ host = "load" => cog = "off"
  /\ host \in {"load", "initial"} => frame = 0 /\ Posted = 0 /\ line = <<>>
  /\ host = "load" => rcv_state = "BOOT" /\ replies = <<>>
  /\ host = "initial" => \/ rcv_state \in {"BOOT", "SEND"} /\ replies = <<>>
                         \/ rcv_state = "SOH" /\ Len(replies) <= 1
  /\ host = "send" => /\ frame \in Frames /\ Posted = frame
                      /\ line = <<>> /\ replies = <<>> /\ rcv_state = "SOH"
  /\ host = "wait" => frame \in Frames /\ rcv_state # "BOOT"
  /\ host = "wait" /\ Posted = frame =>
        /\ \A i \in 1 .. Len(replies) : replies[i] # "ACK"
        /\ rcv_state = "SEND" => sndbyte # "ACK"
  /\ host = "wait" /\ Posted = frame + 1 =>
        /\ line = <<>> /\ rcv_state \in {"SEND", "SOH"}
        /\ \A i \in 1 .. Len(replies) :
              replies[i] = "ACK" => rcv_state = "SOH" /\ i = Len(replies)
  /\ host = "failed" => frame \in Frames
  /\ host = "ok" => frame = NBlocks + 3 /\ Posted = frame /\ line = <<>> /\ rcv_state = "SOH"

\* The helper's copy of the mailbox.
HelperHas ==
  /\ cog \in {"off", "start"} => handled = 0
  /\ cog = "off" => Posted = 0 /\ rcv_state = "BOOT" /\ host \in {"load", "failed"}
  /\ cog \in {"type", "buffer", "length", "handle", "release", "hung"} => mailbox.status = "OK"
  /\ cog \in {"buffer", "length", "handle"} => packet.type = mailbox.type
  /\ cog \in {"length", "handle"} => packet.buffer = mailbox.buffer
  /\ cog = "handle" => packet.length = mailbox.length

\* How far the file has come.
FileHas ==
  /\ BlocksInOrder
  /\ \A i \in 1 .. Len(contents) : contents[i] \in 1 .. NBlocks /\ contents[i] < Done
  /\ file = "open" => Done >= 1
  /\ Done = 0 => file = "none" /\ contents = <<>> /\ ~writing
  /\ Done >= 1 /\ file = "none" => cardError
  /\ ~cardError /\ Done >= 1 => (writing <=> Done <= NBlocks + 1)
  /\ ~cardError /\ Done \in 1 .. NBlocks + 1 => file = "open" /\ Len(contents) = Done - 1
  /\ ~cardError /\ Done >= NBlocks + 2 => file = "closed" /\ Len(contents) = NBlocks

IInv == TypeOK /\ LineShape /\ DriverHas /\ MailboxHas /\ Agreed /\ HelperHas /\ FileHas

\* As long as nothing is wrong, everybody who waits waits for something that is
\* on its way: the rest of a frame, the reply to it, or the first reply.
Untroubled ==
  faults = 0 /\ card = "in" =>
    /\ host # "failed" /\ cog # "hung" /\ rcv_state # "STALL" /\ sndbyte = "ACK"
    /\ \A i \in 1 .. Len(line) : line[i].state = "good"
    /\ \A i \in 1 .. Len(replies) : replies[i] = "ACK"
    /\ rcv_state = "CRC" => crcOK
    /\ host = "initial" /\ rcv_state = "SOH" => replies # <<>>
    /\ host = "wait" /\ rcv_state = "SOH" =>
          IF Posted = frame THEN Len(line) = (IF HasPayload(frame) THEN 3 ELSE 2)
                            ELSE replies # <<>>

-----------------------------------------------------------------------------
(* What the messages promise, and the code does not keep.                  *)

\* ERROR_FAILED_TO_WRITE_TO_SD_CARD is reported when the file was not written.
FailureIsReported ==
  host = "ok" => file = "closed" /\ contents = [i \in 1 .. NBlocks |-> i]
=============================================================================
