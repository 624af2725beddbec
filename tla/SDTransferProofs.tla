-------------------------- MODULE SDTransferProofs --------------------------
EXTENDS SDTransfer, TLAPS, SequenceTheorems

USE NBlocksAssumption, FaultsAssumption

\* Loading the helper starts its cog, and nothing else has run yet.
LEMMA LoadSDHelperStep == IInv /\ LoadSDHelper => IInv'
<1>. SUFFICES ASSUME IInv, LoadSDHelper PROVE IInv'
  OBVIOUS
<1>. USE DEF LoadSDHelper, hostVars, linkVars, driverVars, hubVars, helperVars,
            cardVars, Fault
<1>1. LinkTypeOK' /\ DriverTypeOK' /\ HubTypeOK' /\ CardTypeOK'
  BY DEF IInv, TypeOK, LinkTypeOK, DriverTypeOK, HubTypeOK, CardTypeOK,
       Receiving, Mails
<1>2. HostTypeOK'
  BY DEF IInv, TypeOK, HostTypeOK, Results
<1>3. HelperTypeOK'
  BY DEF IInv, TypeOK, HelperTypeOK, Mails
<1>4. faults' \in 0 .. MaxFaults
  BY DEF IInv, TypeOK
<1>5. LineShape'
  BY DEF IInv, TypeOK, LineShape, Posted
<1>6. DriverHas'
  BY DEF IInv, TypeOK, DriverHas, Posted
<1>7. MailboxHas'
  BY DEF IInv, TypeOK, MailboxHas, Posted, OtherBuffer
<1>8. Agreed'
  BY DEF IInv, TypeOK, Agreed, Posted, LineShape, DriverHas, MailboxHas,
       HelperHas, HelperTypeOK, HubTypeOK, LinkTypeOK, HostTypeOK, DriverTypeOK,
       Mails, HasPayload, Frames, Receiving, Results, SecondEOF, FirstEOF
<1>9. HelperHas'
  BY DEF IInv, TypeOK, HelperHas, Posted, LineShape, DriverHas, MailboxHas,
       Agreed, HelperTypeOK, HubTypeOK, Mails, HostTypeOK, DriverTypeOK,
       Receiving, Results
<1>10. FileHas'
  BY DEF IInv, TypeOK, FileHas, Done, BlocksInOrder, HelperHas, MailboxHas,
       Agreed, HelperTypeOK, HubTypeOK, CardTypeOK, Mails, Frames, HasPayload,
       Type, Content, Garbage, Posted
<1>. QED BY <1>1, <1>2, <1>3, <1>4, <1>5, <1>6, <1>7, <1>8, <1>9, <1>10 DEF IInv,
     TypeOK

\* The parts of a frame are parts: sendPacket keeps the line well typed.
LEMMA SendPacketLine ==
  ASSUME IInv, SendPacket PROVE LinkTypeOK'
<1>1. \A k \in {"hdr", "data", "crc"} : Part(k, frame) \in Parts
  BY DEF IInv, Agreed, SendPacket, Part, Parts
<1>2. FrameParts(frame) \in Seq(Parts)
  BY <1>1 DEF FrameParts
<1>3. line \o FrameParts(frame) \in Seq(Parts)
  BY <1>2, ConcatProperties DEF IInv, TypeOK, LinkTypeOK
<1>. QED BY <1>3 DEF SendPacket, IInv, TypeOK, LinkTypeOK

\* A frame is only put on an empty line, with the driver waiting for it.
LEMMA SendPacketStep == IInv /\ SendPacket => IInv'
<1>. SUFFICES ASSUME IInv, SendPacket PROVE IInv'
  OBVIOUS
<1>. USE DEF SendPacket, hostVars, linkVars, driverVars, hubVars, helperVars,
            cardVars, Fault, FrameParts, Part
<1>1. HostTypeOK' /\ DriverTypeOK' /\ HubTypeOK' /\ HelperTypeOK' /\ CardTypeOK' /\
      faults' \in 0 .. MaxFaults
  BY DEF IInv, TypeOK, HostTypeOK, DriverTypeOK, HubTypeOK, HelperTypeOK,
       CardTypeOK, Results, Receiving, Mails
<1>2. LinkTypeOK'
  BY SendPacketLine
<1>3. LineShape'
  BY DEF IInv, TypeOK, LineShape, Posted, Agreed, DriverHas, MailboxHas,
       HelperHas, HelperTypeOK, HubTypeOK, LinkTypeOK, HostTypeOK, Mails,
       HasPayload, Frames, Parts
<1>4. DriverHas'
  BY DEF IInv, TypeOK, DriverHas, Posted, Agreed, LineShape, MailboxHas,
       HelperHas, HelperTypeOK, HubTypeOK, LinkTypeOK, HostTypeOK, DriverTypeOK,
       Mails, HasPayload, Frames, Parts, Blocks, Garbage, Receiving
<1>5. MailboxHas'
  BY DEF IInv, TypeOK, MailboxHas, Posted, OtherBuffer
<1>6. Agreed'
  BY DEF IInv, TypeOK, Agreed, Posted, LineShape, DriverHas, MailboxHas,
       HelperHas, HelperTypeOK, HubTypeOK, LinkTypeOK, HostTypeOK, DriverTypeOK,
       Mails, HasPayload, Frames, Receiving, Results, SecondEOF, FirstEOF
<1>7. HelperHas'
  BY DEF IInv, TypeOK, HelperHas, Posted
<1>8. FileHas'
  BY DEF IInv, TypeOK, FileHas, Done, BlocksInOrder
<1>. QED BY <1>1, <1>2, <1>3, <1>4, <1>5, <1>6, <1>7, <1>8 DEF IInv, TypeOK

\* An acknowledgement is taken when the driver waits for a header, so moving
\* on to the next frame contradicts nothing the driver is about to hand over.
LEMMA WaitForAckNakMailbox ==
  ASSUME IInv, WaitForAckNak PROVE MailboxHas'
<1>. USE DEF WaitForAckNak, driverVars, hubVars, helperVars
<1>1. frame' # frame => rcv_state = "SOH"
  BY DEF IInv, TypeOK, LinkTypeOK, Agreed, Acknowledged
<1>. QED BY <1>1 DEF IInv, MailboxHas, OtherBuffer

\* waitForAckNak moves on only on the ACK of the frame it sent.
LEMMA WaitForAckNakStep == IInv /\ WaitForAckNak => IInv'
<1>. SUFFICES ASSUME IInv, WaitForAckNak PROVE IInv'
  OBVIOUS
<1>. USE DEF WaitForAckNak, hostVars, linkVars, driverVars, hubVars, helperVars,
            cardVars, Fault, Acknowledged, SecondEOF
<1>1. LinkTypeOK' /\ DriverTypeOK' /\ HubTypeOK' /\ HelperTypeOK' /\ CardTypeOK' /\
      faults' \in 0 .. MaxFaults
  BY DEF IInv, TypeOK, LinkTypeOK, DriverTypeOK, HubTypeOK, HelperTypeOK,
       CardTypeOK, Receiving, Mails
<1>2. HostTypeOK'
  BY DEF IInv, TypeOK, HostTypeOK, Results, Agreed, LineShape, DriverTypeOK,
       Frames, SecondEOF
<1>3. LineShape'
  BY DEF IInv, TypeOK, LineShape, Posted, Agreed, DriverHas, MailboxHas,
       HelperHas, HelperTypeOK, HubTypeOK, LinkTypeOK, HostTypeOK, Mails,
       HasPayload, Frames, Parts
<1>4. DriverHas'
  <2>1. frame' # frame => rcv_state = "SOH"
    BY DEF IInv, TypeOK, LinkTypeOK, Agreed
  <2>2. Posted' = Posted
    BY DEF Posted
  <2>3. rcv_state \in {"DATA", "CRC", "WAIT", "LENGTH", "BUFFER", "STATUS"} => host' = "failed"
    BY <2>1, <2>2 DEF IInv, DriverHas, Agreed, TypeOK, HostTypeOK
  <2>. QED BY <2>1, <2>2, <2>3 DEF IInv, DriverHas
<1>5. MailboxHas'
  BY WaitForAckNakMailbox
<1>6. Agreed'
  BY DEF IInv, TypeOK, Agreed, Posted, LineShape, DriverHas, MailboxHas,
       HelperHas, HelperTypeOK, HubTypeOK, LinkTypeOK, HostTypeOK, DriverTypeOK,
       Mails, HasPayload, Frames, Receiving, Results, SecondEOF, FirstEOF
<1>7. HelperHas'
  BY DEF IInv, TypeOK, HelperHas, Posted
<1>8. FileHas'
  BY DEF IInv, TypeOK, FileHas, Done, BlocksInOrder
<1>. QED BY <1>1, <1>2, <1>3, <1>4, <1>5, <1>6, <1>7, <1>8 DEF IInv, TypeOK

\* Giving up changes nothing on the target.
LEMMA TimeoutStep == IInv /\ Timeout => IInv'
<1>. SUFFICES ASSUME IInv, Timeout PROVE IInv'
  OBVIOUS
<1>. USE DEF Timeout, hostVars, linkVars, driverVars, hubVars, helperVars, cardVars,
            Fault, Stuck, GiveUp, Receiving
<1>1. LinkTypeOK' /\ DriverTypeOK' /\ HubTypeOK' /\ HelperTypeOK' /\ CardTypeOK' /\
      faults' \in 0 .. MaxFaults
  BY DEF IInv, TypeOK, LinkTypeOK, DriverTypeOK, HubTypeOK, HelperTypeOK,
       CardTypeOK, Receiving, Mails
<1>2. HostTypeOK'
  BY DEF IInv, TypeOK, HostTypeOK, Results
<1>3. LineShape'
  BY DEF IInv, TypeOK, LineShape, Posted
<1>4. DriverHas'
  BY DEF IInv, TypeOK, DriverHas, Posted
<1>5. MailboxHas'
  BY DEF IInv, TypeOK, MailboxHas, Posted, OtherBuffer
<1>6. Agreed'
  BY DEF IInv, TypeOK, Agreed, Posted, LineShape, DriverHas, MailboxHas,
       HelperHas, HelperTypeOK, HubTypeOK, LinkTypeOK, HostTypeOK, DriverTypeOK,
       Mails, HasPayload, Frames, Receiving, Results, SecondEOF, FirstEOF
<1>7. HelperHas'
  BY DEF IInv, TypeOK, HelperHas, Posted
<1>8. FileHas'
  BY DEF IInv, TypeOK, FileHas, Done, BlocksInOrder
<1>. QED BY <1>1, <1>2, <1>3, <1>4, <1>5, <1>6, <1>7, <1>8 DEF IInv, TypeOK

\* Nor does giving up too early.
LEMMA SlowCardStep == IInv /\ SlowCard => IInv'
<1>. SUFFICES ASSUME IInv, SlowCard PROVE IInv'
  OBVIOUS
<1>. USE DEF SlowCard, hostVars, linkVars, driverVars, hubVars, helperVars,
            cardVars, Fault, GiveUp
<1>1. LinkTypeOK' /\ DriverTypeOK' /\ HubTypeOK' /\ HelperTypeOK' /\ CardTypeOK'
  BY DEF IInv, TypeOK, LinkTypeOK, DriverTypeOK, HubTypeOK, HelperTypeOK,
       CardTypeOK, Receiving, Mails
<1>2. HostTypeOK'
  BY DEF IInv, TypeOK, HostTypeOK, Results
<1>3. faults' \in 0 .. MaxFaults
  BY DEF IInv, TypeOK
<1>4. LineShape'
  BY DEF IInv, TypeOK, LineShape, Posted
<1>5. DriverHas'
  BY DEF IInv, TypeOK, DriverHas, Posted
<1>6. MailboxHas'
  BY DEF IInv, TypeOK, MailboxHas, Posted, OtherBuffer
<1>7. Agreed'
  BY DEF IInv, TypeOK, Agreed, Posted, LineShape, DriverHas, MailboxHas,
       HelperHas, HelperTypeOK, HubTypeOK, LinkTypeOK, HostTypeOK, DriverTypeOK,
       Mails, HasPayload, Frames, Receiving, Results, SecondEOF, FirstEOF
<1>8. HelperHas'
  BY DEF IInv, TypeOK, HelperHas, Posted
<1>9. FileHas'
  BY DEF IInv, TypeOK, FileHas, Done, BlocksInOrder
<1>. QED BY <1>1, <1>2, <1>3, <1>4, <1>5, <1>6, <1>7, <1>8, <1>9 DEF IInv, TypeOK

\* The driver starts before any packet, so its ACK answers none.
LEMMA EntryAgreed ==
  ASSUME IInv, Entry PROVE Agreed'
<1>. USE DEF Entry, hostVars, linkVars, helperVars
<1>1. host \in {"initial", "failed"} /\ mailbox.status = "PENDING"
  BY DEF IInv, TypeOK, HostTypeOK, HubTypeOK, Mails, Agreed, DriverHas, HelperHas,
       Posted, Results
<1>. QED BY <1>1 DEF IInv, TypeOK, HubTypeOK, Mails, Agreed, Posted

\* The driver's first ACK.
LEMMA EntryStep == IInv /\ Entry => IInv'
<1>. SUFFICES ASSUME IInv, Entry PROVE IInv'
  OBVIOUS
<1>. USE DEF Entry, hostVars, linkVars, driverVars, hubVars, helperVars, cardVars,
            Fault
<1>1. HostTypeOK' /\ LinkTypeOK' /\ HelperTypeOK' /\ CardTypeOK' /\ faults' \in 0 ..
      MaxFaults
  BY DEF IInv, TypeOK, HostTypeOK, LinkTypeOK, HelperTypeOK, CardTypeOK,
       Results, Mails
<1>2. HubTypeOK'
  BY DEF IInv, TypeOK, HubTypeOK, Mails
<1>3. DriverTypeOK'
  BY DEF IInv, TypeOK, DriverTypeOK, Receiving
<1>4. LineShape'
  BY DEF IInv, TypeOK, LineShape, Posted, Agreed, DriverHas, MailboxHas,
       HelperHas, HelperTypeOK, HubTypeOK, LinkTypeOK, HostTypeOK, Mails,
       HasPayload, Frames, Parts
<1>5. DriverHas'
  BY DEF IInv, TypeOK, DriverHas, Posted
<1>6. MailboxHas'
  BY DEF IInv, TypeOK, MailboxHas, Posted, OtherBuffer
<1>7. Agreed'
  BY EntryAgreed
<1>8. HelperHas'
  BY DEF IInv, TypeOK, HelperHas, Posted
<1>9. FileHas'
  BY DEF IInv, TypeOK, FileHas, Done, BlocksInOrder
<1>. QED BY <1>1, <1>2, <1>3, <1>4, <1>5, <1>6, <1>7, <1>8, <1>9 DEF IInv, TypeOK

\* Bytes on the line only ever reach the buffer the driver fills, never the
\* one the helper reads.
LEMMA ReceiveDriver ==
  ASSUME IInv, Receive PROVE DriverTypeOK' /\ HubTypeOK' /\ DriverHas' /\ MailboxHas'
<1>. DEFINE p == Head(line)
<1>. USE DEF Receive, hostVars, helperVars, SendNak, Expect, Receiving
<1>1. /\ p \in Parts /\ p = line[1] /\ Len(line) \in Nat \ {0}
      /\ Len(line') = Len(line) - 1
      /\ rcv_buf1 \in {1, 2} /\ frame \in Frames
  BY DEF IInv, TypeOK, LinkTypeOK, DriverTypeOK, LineShape
<1>2. /\ p.frame = frame /\ Posted = frame /\ host \in {"wait", "failed"}
      /\ p.part = IF Len(line) = 1 THEN "crc"
                  ELSE IF Len(line) = 2 /\ HasPayload(frame) THEN "data" ELSE "hdr"
      /\ Len(line) <= (IF HasPayload(frame) THEN 3 ELSE 2)
  <2>1. 1 \in 1 .. Len(line) /\ line # <<>>
    BY <1>1
  <2>2. /\ Posted = frame /\ host \in {"wait", "failed"}
      /\ Len(line) <= (IF HasPayload(frame) THEN 3 ELSE 2)
    BY <2>1 DEF IInv, LineShape
  <2>3. /\ line[1].frame = frame
        /\ line[1].part = IF 1 = Len(line) THEN "crc"
                          ELSE IF 1 = Len(line) - 1 /\ HasPayload(frame) THEN "data"
                          ELSE "hdr"
    BY <2>1 DEF IInv, LineShape
  <2>. QED BY <2>2, <2>3, <1>1
<1>3. Posted' = Posted
  BY DEF Posted
<1>4. DriverTypeOK'
  BY <1>1 DEF IInv, TypeOK, DriverTypeOK, Header, Skip, Data, Crc, Stall, Parts
<1>5. HubTypeOK'
  <2>1. CASE buffers' = buffers
    BY <2>1 DEF IInv, TypeOK, HubTypeOK
  <2>2. CASE Data(p)
    <3>1. p.frame \in Blocks
      BY <1>2, <2>2 DEF Data, IInv, DriverHas, HasPayload, Blocks, Garbage,
           LineShape, Frames
    <3>. QED BY <3>1, <2>2, <1>1 DEF Data, IInv, TypeOK, HubTypeOK, Blocks, Garbage
  <2>. QED BY <2>1, <2>2 DEF Header, Skip, Crc, Stall
<1>6. DriverHas'
  <2>. USE <1>1, <1>2, <1>3
  <2>1. CASE Header(p)
    BY <2>1 DEF Header, IInv, DriverHas
  <2>2. CASE Skip(p)
    BY <2>2 DEF Skip, IInv, DriverHas
  <2>3. CASE Data(p)
    <3>1. crcOK' => p.state = "good"
      BY <2>3 DEF Data
    <3>2. crcOK' /\ HasPayload(frame) => buffers'[rcv_buf1] = frame
      BY <2>3, <3>1 DEF Data, IInv, TypeOK, HubTypeOK
    <3>3. rcv_state' \in {"CRC", "STALL"} /\ Len(line) = 2 /\ rcv_frame' = frame
      BY <2>3 DEF Data, IInv, DriverHas
    <3>. QED BY <3>2, <3>3 DEF DriverHas, HasPayload
  <2>4. CASE Crc(p)
    BY <2>4 DEF Crc, IInv, DriverHas
  <2>5. CASE Stall(p)
    BY <2>5 DEF Stall, IInv, DriverHas
  <2>. QED BY <2>1, <2>2, <2>3, <2>4, <2>5
<1>7. MailboxHas'
  <2>1. rcv_state' \in {"SOH", "DATA", "CRC", "STALL", "WAIT", "SEND"}
    BY <1>1 DEF Header, Skip, Data, Crc, Stall
  <2>2. \/ buffers' = buffers
        \/ \E x : buffers' = [buffers EXCEPT ![rcv_buf1] = x]
    BY DEF Header, Skip, Data, Crc, Stall
  <2>3. mailbox.status = "OK" => buffers'[mailbox.buffer] = buffers[mailbox.buffer]
    BY <1>1, <2>2 DEF IInv, MailboxHas, OtherBuffer, TypeOK, HubTypeOK
  <2>. QED BY <2>1, <2>3, <1>1 DEF IInv, MailboxHas, OtherBuffer
<1>. QED BY <1>4, <1>5, <1>6, <1>7

\* The driver's receive loop.
LEMMA ReceiveStep == IInv /\ Receive => IInv'
<1>. SUFFICES ASSUME IInv, Receive PROVE IInv'
  OBVIOUS
<1>. USE DEF Receive, hostVars, linkVars, driverVars, hubVars, helperVars, cardVars,
            Fault, Header, Skip, Data, Crc, Stall, SendNak, Expect, Receiving
<1>1. HostTypeOK' /\ LinkTypeOK' /\ HelperTypeOK' /\ CardTypeOK' /\ faults' \in 0 ..
      MaxFaults
  BY DEF IInv, TypeOK, HostTypeOK, LinkTypeOK, HelperTypeOK, CardTypeOK,
       Results, Mails
<1>2. DriverTypeOK'
  BY ReceiveDriver
<1>3. HubTypeOK'
  BY ReceiveDriver
<1>4. LineShape'
  BY DEF IInv, TypeOK, LineShape, Posted
<1>5. DriverHas'
  BY ReceiveDriver
<1>6. MailboxHas'
  BY ReceiveDriver
<1>7. Agreed'
  BY DEF IInv, TypeOK, Agreed, Posted
<1>8. HelperHas'
  BY DEF IInv, TypeOK, HelperHas, Posted
<1>9. FileHas'
  BY DEF IInv, TypeOK, FileHas, Done, BlocksInOrder
<1>. QED BY <1>1, <1>2, <1>3, <1>4, <1>5, <1>6, <1>7, <1>8, <1>9 DEF IInv, TypeOK

\* The four writes to the mailbox: the status, written last, counts the packet.
LEMMA HandOverMailbox ==
  ASSUME IInv, HandOver PROVE MailboxHas' /\ Agreed'
<1>. USE DEF HandOver, WriteMailbox, hostVars, linkVars, helperVars
<1>1. /\ mailbox.status = "PENDING" /\ Posted = handled /\ frame = handled
      /\ frame \in Frames /\ host \in {"wait", "failed"}
      /\ rcv_frame = frame /\ line = <<>>
      /\ rcv_buf1 \in {1, 2}
  BY DEF IInv, TypeOK, DriverTypeOK, HubTypeOK, HelperTypeOK, MailboxHas, DriverHas,
       Posted, MailboxFree, Mails
<1>2. MailboxHas'
  BY <1>1 DEF IInv, TypeOK, HubTypeOK, DriverHas, MailboxHas, OtherBuffer, Mails
<1>3. /\ rcv_state' = "SEND" => mailbox'.status = "OK"
      /\ rcv_state' # "SEND" => mailbox'.status = "PENDING"
  BY <1>1 DEF IInv, TypeOK, HubTypeOK, Mails
<1>4. rcv_state' = "SEND" => Posted' = frame + 1
  BY <1>1, <1>3 DEF Posted, IInv, TypeOK, HubTypeOK, Mails
<1>5. rcv_state' # "SEND" => Posted' = frame
  BY <1>1, <1>3 DEF Posted, IInv, TypeOK, HubTypeOK, Mails
<1>6. host = "wait" => \A i \in 1 .. Len(replies) : replies[i] # "ACK"
  BY <1>1 DEF IInv, Agreed
<1>7. Agreed'
  BY <1>1, <1>4, <1>5, <1>6 DEF IInv, Agreed, Frames
<1>. QED BY <1>2, <1>7

\* The driver hands a packet over.
LEMMA HandOverStep == IInv /\ HandOver => IInv'
<1>. SUFFICES ASSUME IInv, HandOver PROVE IInv'
  OBVIOUS
<1>. USE DEF HandOver, hostVars, linkVars, driverVars, hubVars, helperVars,
            cardVars, Fault, WriteMailbox, MailboxFree, OtherBuffer
<1>1. HostTypeOK' /\ LinkTypeOK' /\ HelperTypeOK' /\ CardTypeOK' /\ faults' \in 0 ..
      MaxFaults
  BY DEF IInv, TypeOK, HostTypeOK, LinkTypeOK, HelperTypeOK, CardTypeOK,
       Results, Mails
<1>2. DriverTypeOK'
  BY DEF IInv, TypeOK, DriverTypeOK, Receiving
<1>3. HubTypeOK'
  BY DEF IInv, TypeOK, HubTypeOK, Mails, Type, Blocks, Frames, Garbage,
       DriverTypeOK, LineShape, DriverHas, LinkTypeOK, Parts
<1>4. LineShape'
  BY DEF IInv, TypeOK, LineShape, Posted, Agreed, DriverHas, MailboxHas,
       HelperHas, HelperTypeOK, HubTypeOK, LinkTypeOK, HostTypeOK, Mails,
       HasPayload, Frames, Parts
<1>5. DriverHas'
  BY DEF IInv, TypeOK, DriverHas, Posted, Agreed, LineShape, MailboxHas,
       HelperHas, HelperTypeOK, HubTypeOK, LinkTypeOK, HostTypeOK, DriverTypeOK,
       Mails, HasPayload, Frames, Parts, Blocks, Garbage, Receiving
<1>6. MailboxHas'
  BY HandOverMailbox
<1>7. Agreed'
  BY HandOverMailbox
<1>8. HelperHas'
  BY DEF IInv, TypeOK, HelperHas, Posted, LineShape, DriverHas, MailboxHas,
       Agreed, HelperTypeOK, HubTypeOK, Mails, HostTypeOK, DriverTypeOK,
       Receiving, Results
<1>9. FileHas'
  BY DEF IInv, TypeOK, FileHas, Done, BlocksInOrder
<1>. QED BY <1>1, <1>2, <1>3, <1>4, <1>5, <1>6, <1>7, <1>8, <1>9 DEF IInv, TypeOK

\* The driver's reply is on its way.
LEMMA SendAckNakStep == IInv /\ SendAckNak => IInv'
<1>. SUFFICES ASSUME IInv, SendAckNak PROVE IInv'
  OBVIOUS
<1>. USE DEF SendAckNak, hostVars, linkVars, driverVars, hubVars, helperVars,
            cardVars, Fault
<1>1. HostTypeOK' /\ DriverTypeOK' /\ HubTypeOK' /\ HelperTypeOK' /\ CardTypeOK' /\
      faults' \in 0 .. MaxFaults
  BY DEF IInv, TypeOK, HostTypeOK, DriverTypeOK, HubTypeOK, HelperTypeOK,
       CardTypeOK, Results, Receiving, Mails
<1>2. LinkTypeOK'
  BY DEF IInv, TypeOK, LinkTypeOK, DriverTypeOK, Parts, Frames, HostTypeOK,
       Agreed
<1>3. LineShape'
  BY DEF IInv, TypeOK, LineShape, Posted
<1>4. DriverHas'
  BY DEF IInv, TypeOK, DriverHas, Posted
<1>5. MailboxHas'
  BY DEF IInv, TypeOK, MailboxHas, Posted, OtherBuffer
<1>6. Agreed'
  BY DEF IInv, TypeOK, Agreed, Posted
<1>7. HelperHas'
  BY DEF IInv, TypeOK, HelperHas, Posted
<1>8. FileHas'
  BY DEF IInv, TypeOK, FileHas, Done, BlocksInOrder
<1>. QED BY <1>1, <1>2, <1>3, <1>4, <1>5, <1>6, <1>7, <1>8 DEF IInv, TypeOK

\* pkt.start.
LEMMA StartStep == IInv /\ Start => IInv'
<1>. SUFFICES ASSUME IInv, Start PROVE IInv'
  OBVIOUS
<1>. USE DEF Start, hostVars, linkVars, driverVars, hubVars, helperVars, cardVars,
            Fault
<1>1. HostTypeOK' /\ LinkTypeOK' /\ DriverTypeOK' /\ HubTypeOK' /\ CardTypeOK' /\
      faults' \in 0 .. MaxFaults
  BY DEF IInv, TypeOK, HostTypeOK, LinkTypeOK, DriverTypeOK, HubTypeOK,
       CardTypeOK, Results, Receiving, Mails
<1>2. HelperTypeOK'
  BY DEF IInv, TypeOK, HelperTypeOK, Mails
<1>3. LineShape'
  BY DEF IInv, TypeOK, LineShape, Posted
<1>4. DriverHas'
  BY DEF IInv, TypeOK, DriverHas, Posted
<1>5. MailboxHas'
  BY DEF IInv, TypeOK, MailboxHas, Posted, OtherBuffer
<1>6. Agreed'
  BY DEF IInv, TypeOK, Agreed, Posted
<1>7. HelperHas'
  BY DEF IInv, TypeOK, HelperHas, Posted
<1>8. FileHas'
  BY DEF IInv, TypeOK, FileHas, Done, BlocksInOrder, HelperHas, MailboxHas,
       Agreed, HelperTypeOK, HubTypeOK, CardTypeOK, Mails, Frames, HasPayload,
       Type, Content, Garbage, Posted
<1>. QED BY <1>1, <1>2, <1>3, <1>4, <1>5, <1>6, <1>7, <1>8 DEF IInv, TypeOK

\* The helper copies a mailbox that does not change under its hands.
LEMMA RcvPacketStep == IInv /\ RcvPacket => IInv'
<1>. SUFFICES ASSUME IInv, RcvPacket PROVE IInv'
  OBVIOUS
<1>. USE DEF RcvPacket, hostVars, linkVars, driverVars, hubVars, helperVars,
            cardVars, Fault
<1>1. HostTypeOK' /\ LinkTypeOK' /\ DriverTypeOK' /\ HubTypeOK' /\ CardTypeOK' /\
      faults' \in 0 .. MaxFaults
  BY DEF IInv, TypeOK, HostTypeOK, LinkTypeOK, DriverTypeOK, HubTypeOK,
       CardTypeOK, Results, Receiving, Mails
<1>2. HelperTypeOK'
  BY DEF IInv, TypeOK, HelperTypeOK, Mails, HubTypeOK
<1>3. LineShape'
  BY DEF IInv, TypeOK, LineShape, Posted
<1>4. DriverHas'
  BY DEF IInv, TypeOK, DriverHas, Posted
<1>5. MailboxHas'
  BY DEF IInv, TypeOK, MailboxHas, Posted, OtherBuffer
<1>6. Agreed'
  BY DEF IInv, TypeOK, Agreed, Posted
<1>7. HelperHas'
  BY DEF IInv, TypeOK, HelperHas, Posted, LineShape, DriverHas, MailboxHas,
       Agreed, HelperTypeOK, HubTypeOK, Mails, HostTypeOK, DriverTypeOK,
       Receiving, Results
<1>8. FileHas'
  BY DEF IInv, TypeOK, FileHas, Done, BlocksInOrder
<1>. QED BY <1>1, <1>2, <1>3, <1>4, <1>5, <1>6, <1>7, <1>8 DEF IInv, TypeOK

\* What the handlers of sd_helper.spin do to the file.
LEMMA HandleCard ==
  ASSUME IInv, Handle PROVE CardTypeOK' /\ FileHas'
<1>. USE DEF Handle
<1>1. /\ handled' = handled /\ Done = handled /\ handled \in Frames
      /\ packet.type = Type(handled) /\ (HasPayload(handled) => Content = handled)
  BY DEF IInv, TypeOK, HelperTypeOK, HelperHas, MailboxHas, Done, Content
<1>2. Done' = handled + 1 \/ (CardFull /\ Done' = handled)
  BY <1>1 DEF Done, FileWrite, DataHandler, EofHandler, CardFull
<1>3. CASE FileWrite
  <2>1. handled = 0 /\ Content = 0
    BY <1>1, <1>3 DEF FileWrite, Type, Frames, HasPayload
  <2>2. file = "none" /\ contents = <<>>
    BY <1>1, <2>1 DEF IInv, FileHas
  <2>3. /\ writing' = TRUE /\ contents' = <<>> /\ file' \in {"none", "open"}
        /\ (file' = "none" => cardError' = TRUE)
    BY <1>3, <2>1, <2>2 DEF FileWrite, CardOK, CardFails
  <2>4. cardError' \in BOOLEAN
    BY <1>3 DEF FileWrite, CardOK, CardFails, IInv, TypeOK, CardTypeOK
  <2>5. Done' = 1
    BY <1>2, <1>3, <2>1 DEF FileWrite, CardFull
  <2>6. CardTypeOK'
    BY <2>3, <2>4 DEF CardTypeOK, IInv, TypeOK
  <2>7. FileHas'
    BY <2>3, <2>4, <2>5 DEF FileHas, BlocksInOrder
  <2>. QED BY <2>6, <2>7
<1>4. CASE DataHandler
  <2>1. handled \in 1 .. NBlocks /\ Content = handled /\ Done' = handled + 1
    BY <1>1, <1>2, <1>4 DEF DataHandler, Type, Frames, HasPayload, CardFull
  <2>2. /\ contents \in Seq(Blocks) /\ writing' = writing /\ file' = file
        /\ file \in {"none", "open", "closed"} /\ card' = card
        /\ card \in {"in", "out"} /\ cardError' \in BOOLEAN
    BY <1>4 DEF DataHandler, CardOK, CardFails, IInv, TypeOK, CardTypeOK
  <2>3. CASE contents' = contents /\ (cardError' \/ ~(writing /\ file = "open"))
    <3>1. CASE cardError'
      BY <2>1, <2>2, <2>3, <3>1, <1>1 DEF CardTypeOK, FileHas, BlocksInOrder, IInv
    <3>2. CASE ~cardError'
      <4>1. ~cardError
        BY <1>4, <3>2 DEF DataHandler, CardOK, CardFails
      <4>. QED BY <2>1, <2>3, <3>2, <4>1, <1>1 DEF FileHas, IInv
    <3>. QED BY <3>1, <3>2
  <2>4. CASE contents' = Append(contents, handled) /\ file = "open" /\ cardError' = cardError
    <3>1. CardTypeOK'
      BY <2>1, <2>2, <2>4 DEF CardTypeOK, Blocks, Garbage
    <3>2. /\ Len(contents') = Len(contents) + 1 /\ Len(contents) \in Nat
          /\ \A i \in 1 .. Len(contents) : contents'[i] = contents[i]
          /\ contents'[Len(contents) + 1] = handled
      BY <2>2, <2>4
    <3>3. \A i \in 1 .. Len(contents') : contents'[i] \in 1 .. NBlocks /\ contents'[i] <= handled
      BY <2>1, <3>2, <1>1 DEF FileHas, IInv
    <3>4. \A i, j \in 1 .. Len(contents') : i < j => contents'[i] < contents'[j]
      BY <2>1, <3>2, <1>1 DEF FileHas, BlocksInOrder, IInv
    <3>5. \A i \in 1 .. Len(contents') : contents'[i] # Garbage
      BY <3>3 DEF Garbage
    <3>6. ~cardError => /\ Len(contents) = handled - 1 /\ writing
                        /\ \A i \in 1 .. Len(contents') : contents'[i] = i
      BY <2>1, <3>2, <1>1 DEF FileHas, BlocksInOrder, IInv
    <3>7. FileHas'
      BY <2>1, <2>2, <2>4, <3>2, <3>3, <3>4, <3>5, <3>6, <1>1 DEF FileHas,
           BlocksInOrder
    <3>. QED BY <3>1, <3>7
  <2>. QED BY <2>1, <2>2, <2>3, <2>4, <1>4 DEF DataHandler, CardOK, CardFails
<1>5. CASE EofHandler
  <2>1. handled \in {NBlocks + 1, NBlocks + 2} /\ Done' = handled + 1
    BY <1>1, <1>2, <1>5 DEF EofHandler, Type, Frames, CardFull
  <2>2. /\ contents \in Seq(Blocks) /\ contents' = contents /\ writing' = FALSE
        /\ file \in {"none", "open", "closed"} /\ card' = card /\ card \in {"in", "out"}
        /\ cardError' \in BOOLEAN /\ cardError \in BOOLEAN
    BY <1>5 DEF EofHandler, CardOK, CardFails, IInv, TypeOK, CardTypeOK
  <2>3. CASE cardError' = TRUE /\ file' = file
    BY <2>1, <2>2, <2>3, <1>1 DEF CardTypeOK, FileHas, BlocksInOrder, IInv
  <2>4. CASE /\ cardError' = cardError
             /\ file' = IF writing /\ file = "open" THEN "closed" ELSE file
    BY <2>1, <2>2, <2>4, <1>1 DEF CardTypeOK, FileHas, BlocksInOrder, IInv
  <2>. QED BY <2>3, <2>4, <1>5 DEF EofHandler, CardOK, CardFails
<1>6. CASE CardFull
  <2>1. Done' = handled
    BY <1>1, <1>6 DEF Done, CardFull
  <2>. QED BY <1>1, <2>1, <1>6 DEF CardFull, CardTypeOK, FileHas, BlocksInOrder,
       IInv, TypeOK
<1>. QED BY <1>3, <1>4, <1>5, <1>6

\* The helper deals with a packet.
LEMMA HandleStep == IInv /\ Handle => IInv'
<1>. SUFFICES ASSUME IInv, Handle PROVE IInv'
  OBVIOUS
<1>. USE DEF Handle, hostVars, linkVars, driverVars, hubVars, helperVars, cardVars,
            Fault, FileWrite, DataHandler, EofHandler, CardFull, CardOK, CardFails
<1>1. HostTypeOK' /\ LinkTypeOK' /\ DriverTypeOK' /\ HubTypeOK'
  BY DEF IInv, TypeOK, HostTypeOK, LinkTypeOK, DriverTypeOK, HubTypeOK, Results,
       Receiving, Mails
<1>2. HelperTypeOK'
  BY DEF IInv, TypeOK, HelperTypeOK, Mails
<1>3. faults' \in 0 .. MaxFaults
  BY DEF IInv, TypeOK
<1>4. CardTypeOK'
  BY HandleCard
<1>5. LineShape'
  BY DEF IInv, TypeOK, LineShape, Posted
<1>6. DriverHas'
  BY DEF IInv, TypeOK, DriverHas, Posted
<1>7. MailboxHas'
  BY DEF IInv, TypeOK, MailboxHas, Posted, OtherBuffer
<1>8. Agreed'
  BY DEF IInv, TypeOK, Agreed, Posted
<1>9. HelperHas'
  BY DEF IInv, TypeOK, HelperHas, Posted
<1>10. FileHas'
  BY HandleCard
<1>. QED BY <1>1, <1>2, <1>3, <1>4, <1>5, <1>6, <1>7, <1>8, <1>9, <1>10 DEF IInv,
     TypeOK

\* The helper frees the mailbox: one packet more is done.
LEMMA ReleasePacketStep == IInv /\ ReleasePacket => IInv'
<1>. SUFFICES ASSUME IInv, ReleasePacket PROVE IInv'
  OBVIOUS
<1>. USE DEF ReleasePacket, hostVars, linkVars, driverVars, hubVars, helperVars,
            cardVars, Fault, WriteMailbox
<1>1. HostTypeOK' /\ LinkTypeOK' /\ DriverTypeOK' /\ CardTypeOK' /\ faults' \in 0 ..
      MaxFaults
  BY DEF IInv, TypeOK, HostTypeOK, LinkTypeOK, DriverTypeOK, CardTypeOK,
       Results, Receiving
<1>2. HubTypeOK'
  BY DEF IInv, TypeOK, HubTypeOK, Mails
<1>3. HelperTypeOK'
  BY DEF IInv, TypeOK, HelperTypeOK, Mails
<1>4. LineShape'
  BY DEF IInv, TypeOK, LineShape, Posted, Agreed, DriverHas, MailboxHas,
       HelperHas, HelperTypeOK, HubTypeOK, LinkTypeOK, HostTypeOK, Mails,
       HasPayload, Frames, Parts
<1>5. DriverHas'
  BY DEF IInv, TypeOK, DriverHas, Posted, Agreed, LineShape, MailboxHas,
       HelperHas, HelperTypeOK, HubTypeOK, LinkTypeOK, HostTypeOK, DriverTypeOK,
       Mails, HasPayload, Frames, Parts, Blocks, Garbage, Receiving
<1>6. MailboxHas'
  BY DEF IInv, TypeOK, MailboxHas, Posted, OtherBuffer, Agreed, LineShape,
       DriverHas, HelperHas, HelperTypeOK, HubTypeOK, LinkTypeOK, HostTypeOK,
       DriverTypeOK, Mails, HasPayload, Frames, Parts, Blocks, Garbage, Type
<1>7. Agreed'
  BY DEF IInv, TypeOK, Agreed, Posted, LineShape, DriverHas, MailboxHas,
       HelperHas, HelperTypeOK, HubTypeOK, LinkTypeOK, HostTypeOK, DriverTypeOK,
       Mails, HasPayload, Frames, Receiving, Results, SecondEOF, FirstEOF
<1>8. HelperHas'
  BY DEF IInv, TypeOK, HelperHas, Posted
<1>9. FileHas'
  BY DEF IInv, TypeOK, FileHas, Done, BlocksInOrder
<1>. QED BY <1>1, <1>2, <1>3, <1>4, <1>5, <1>6, <1>7, <1>8, <1>9 DEF IInv, TypeOK

\* Damage leaves parts parts.
LEMMA DamagePartLine ==
  ASSUME IInv, DamagePart PROVE LinkTypeOK'
<1>1. ASSUME NEW i \in 1 .. Len(line), NEW st \in {"bad", "short"}
      PROVE [line EXCEPT ![i].state = st] \in Seq(Parts)
  <2>1. line \in Seq(Parts) /\ line[i] \in Parts
    BY DEF IInv, TypeOK, LinkTypeOK
  <2>2. [line[i] EXCEPT !.state = st] \in Parts
    BY <2>1 DEF Parts
  <2>. QED BY <2>1, <2>2
<1>. QED BY <1>1 DEF DamagePart, IInv, TypeOK, LinkTypeOK

\* Damage to what is on the line.
LEMMA DamagePartStep == IInv /\ DamagePart => IInv'
<1>. SUFFICES ASSUME IInv, DamagePart PROVE IInv'
  OBVIOUS
<1>. USE DEF DamagePart, hostVars, linkVars, driverVars, hubVars, helperVars,
            cardVars, Fault
<1>1. HostTypeOK' /\ DriverTypeOK' /\ HubTypeOK' /\ HelperTypeOK' /\ CardTypeOK'
  BY DEF IInv, TypeOK, HostTypeOK, DriverTypeOK, HubTypeOK, HelperTypeOK,
       CardTypeOK, Results, Receiving, Mails
<1>2. faults' \in 0 .. MaxFaults
  BY DEF IInv, TypeOK
<1>3. LinkTypeOK'
  BY DamagePartLine
<1>4. LineShape'
  BY DEF IInv, TypeOK, LineShape, Posted
<1>5. DriverHas'
  BY DEF IInv, TypeOK, DriverHas, Posted
<1>6. MailboxHas'
  BY DEF IInv, TypeOK, MailboxHas, Posted, OtherBuffer
<1>7. Agreed'
  BY DEF IInv, TypeOK, Agreed, Posted
<1>8. HelperHas'
  BY DEF IInv, TypeOK, HelperHas, Posted
<1>9. FileHas'
  BY DEF IInv, TypeOK, FileHas, Done, BlocksInOrder
<1>. QED BY <1>1, <1>2, <1>3, <1>4, <1>5, <1>6, <1>7, <1>8, <1>9 DEF IInv, TypeOK

\* Damage leaves replies replies.
LEMMA DamageReplyLine ==
  ASSUME IInv, DamageReply PROVE LinkTypeOK'
<1>1. replies \in Seq({"ACK", "NAK", "noise"}) /\ replies # <<>>
  BY DEF IInv, TypeOK, LinkTypeOK, DamageReply
<1>2. Tail(replies) \in Seq({"ACK", "NAK", "noise"})
  BY <1>1
<1>3. <<"noise">> \o Tail(replies) \in Seq({"ACK", "NAK", "noise"})
  BY <1>2, ConcatProperties
<1>. QED BY <1>1, <1>2, <1>3 DEF DamageReply, IInv, TypeOK, LinkTypeOK

\* Damage to a reply.
LEMMA DamageReplyStep == IInv /\ DamageReply => IInv'
<1>. SUFFICES ASSUME IInv, DamageReply PROVE IInv'
  OBVIOUS
<1>. USE DEF DamageReply, hostVars, linkVars, driverVars, hubVars, helperVars,
            cardVars, Fault
<1>1. HostTypeOK' /\ DriverTypeOK' /\ HubTypeOK' /\ HelperTypeOK' /\ CardTypeOK'
  BY DEF IInv, TypeOK, HostTypeOK, DriverTypeOK, HubTypeOK, HelperTypeOK,
       CardTypeOK, Results, Receiving, Mails
<1>2. faults' \in 0 .. MaxFaults
  BY DEF IInv, TypeOK
<1>3. LinkTypeOK'
  BY DamageReplyLine
<1>4. LineShape'
  BY DEF IInv, TypeOK, LineShape, Posted
<1>5. DriverHas'
  BY DEF IInv, TypeOK, DriverHas, Posted
<1>6. MailboxHas'
  BY DEF IInv, TypeOK, MailboxHas, Posted, OtherBuffer
<1>7. Agreed'
  BY DEF IInv, TypeOK, Agreed, Posted
<1>8. HelperHas'
  BY DEF IInv, TypeOK, HelperHas, Posted
<1>9. FileHas'
  BY DEF IInv, TypeOK, FileHas, Done, BlocksInOrder
<1>. QED BY <1>1, <1>2, <1>3, <1>4, <1>5, <1>6, <1>7, <1>8, <1>9 DEF IInv, TypeOK

\* The initial state satisfies the invariant.
LEMMA InitIInv == Init => IInv
<1>. SUFFICES ASSUME Init PROVE IInv
  OBVIOUS
<1>. USE DEF Init
<1>1. TypeOK
  <2>1. mailbox \in Mails /\ packet \in Mails
    BY DEF Mails, Frames
  <2>2. buffers \in [{1, 2} -> Blocks]
    BY DEF Blocks, Garbage
  <2>3. HostTypeOK /\ DriverTypeOK
    <3>1. 0 \in Frames /\ 0 \in 0 .. NBlocks + 3
      BY DEF Frames
    <3>. QED BY <3>1 DEF HostTypeOK, DriverTypeOK
  <2>4. line \in Seq(Parts) /\ replies \in Seq({"ACK", "NAK", "noise"})
    BY EmptySeq
  <2>5. HubTypeOK /\ HelperTypeOK
    BY <2>1, <2>2 DEF HubTypeOK, HelperTypeOK
  <2>6. CardTypeOK
    BY EmptySeq DEF CardTypeOK
  <2>. QED BY <2>3, <2>4, <2>5, <2>6 DEF TypeOK, LinkTypeOK
<1>2. Posted = 0 /\ Done = 0
  BY DEF Posted, Done
<1>3. LineShape /\ DriverHas /\ MailboxHas
  BY DEF LineShape, DriverHas, MailboxHas, HasPayload
<1>4. Agreed /\ HelperHas
  BY <1>2 DEF Agreed, HelperHas
<1>5. FileHas
  BY <1>2 DEF FileHas, BlocksInOrder
<1>. QED BY <1>1, <1>3, <1>4, <1>5 DEF IInv

\* Stuttering changes nothing the invariant speaks of.
LEMMA StutterStep == IInv /\ UNCHANGED vars => IInv'
<1>. SUFFICES ASSUME IInv, UNCHANGED vars PROVE IInv'
  OBVIOUS
<1>. USE DEF vars, hostVars, linkVars, driverVars, hubVars, helperVars, cardVars, IInv
<1>1. TypeOK'
  BY DEF TypeOK, HostTypeOK, LinkTypeOK, DriverTypeOK, HubTypeOK, HelperTypeOK,
       CardTypeOK
<1>2. Posted' = Posted /\ Done' = Done
  BY DEF Posted, Done
<1>3. LineShape' /\ DriverHas' /\ MailboxHas'
  BY <1>2 DEF LineShape, DriverHas, MailboxHas, HasPayload, OtherBuffer
<1>4. Agreed' /\ HelperHas'
  BY <1>2 DEF Agreed, HelperHas
<1>5. FileHas'
  BY <1>2 DEF FileHas, BlocksInOrder
<1>. QED BY <1>1, <1>3, <1>4, <1>5

\* The strengthened invariant holds in every state of the transfer.
THEOREM Invariance == SafeSpec => []IInv
<1>1. IInv /\ [Next]_vars => IInv'
  BY LoadSDHelperStep, SendPacketStep, WaitForAckNakStep, TimeoutStep, SlowCardStep,
     EntryStep, ReceiveStep, HandOverStep, SendAckNakStep, StartStep, RcvPacketStep,
     HandleStep, ReleasePacketStep, DamagePartStep, DamageReplyStep, StutterStep
     DEF Next, Host, Driver, Helper, Faulty
<1>. QED BY InitIInv, <1>1, PTL DEF SafeSpec

\* The handlers of sd_helper.spin get the packets the host sent, in order, each
\* with its own payload: the unlocked mailbox and the two buffers suffice.
THEOREM PacketsHandledInOrder == SafeSpec => []HandledInOrder
<1>1. IInv => HandledInOrder
  BY DEF IInv, HelperHas, MailboxHas, HandledInOrder, Content
<1>. QED BY <1>1, Invariance, PTL

\* Host and helper are never more than a packet apart, which is why the second
\* EOF of WriteFileToSDCard shows that the first one has been handled.
THEOREM DriverIsOneAhead == SafeSpec => []OneAhead
<1>1. IInv => OneAhead
  BY DEF IInv, Agreed, OneAhead, Posted, TypeOK, HostTypeOK, HelperTypeOK
<1>. QED BY <1>1, Invariance, PTL

\* The blocks of the file end up in order, whatever is damaged on the way.
THEOREM FileIsInOrder == SafeSpec => []BlocksInOrder
<1>1. IInv => BlocksInOrder
  BY DEF IInv, FileHas
<1>. QED BY <1>1, Invariance, PTL

\* The buffer of the packet handed over is not the one the driver fills.
LEMMA HandedOverNext == IInv /\ [Next]_vars => HandedOverStep
<1>. SUFFICES ASSUME IInv, [Next]_vars, mailbox.status = "OK"
              PROVE  /\ mailbox' \in {mailbox, [mailbox EXCEPT !.status = "PENDING"]}
                     /\ buffers'[mailbox.buffer] = buffers[mailbox.buffer]
  BY DEF HandedOverStep
<1>1. CASE Receive
  <2>1. mailbox.buffer # rcv_buf1 /\ mailbox.buffer \in {1, 2} /\ rcv_buf1 \in {1, 2}
    BY DEF IInv, TypeOK, DriverTypeOK, MailboxHas, OtherBuffer
  <2>2. buffers' = buffers \/ \E x : buffers' = [buffers EXCEPT ![rcv_buf1] = x]
    BY <1>1 DEF Receive, Header, Skip, Data, Crc, Stall
  <2>. QED BY <1>1, <2>1, <2>2 DEF Receive, IInv, TypeOK, HubTypeOK
<1>2. CASE HandOver
  BY <1>2 DEF HandOver, MailboxFree, IInv, MailboxHas
<1>3. CASE Entry
  BY <1>3 DEF Entry, IInv, Agreed, Posted, TypeOK, HelperTypeOK
<1>4. CASE ReleasePacket
  BY <1>4 DEF ReleasePacket, WriteMailbox
<1>5. CASE Host \/ SendAckNak \/ Start \/ RcvPacket \/ Handle \/ Faulty \/ UNCHANGED vars
  BY <1>5 DEF Host, LoadSDHelper, SendPacket, WaitForAckNak, Timeout, GiveUp,
       SendAckNak,
              Start, RcvPacket, Handle, Faulty, SlowCard, DamagePart, DamageReply, vars, hubVars
<1>. QED BY <1>1, <1>2, <1>3, <1>4, <1>5 DEF Next, Driver, Helper

\* Nothing writes the mailbox or the payload under the helper's hands.
THEOREM MailboxIsStable == SafeSpec => HandedOverIsStable
<1>1. IInv /\ [Next]_vars => [HandedOverStep]_vars
  BY HandedOverNext
<1>. QED BY <1>1, Invariance, PTL DEF SafeSpec, HandedOverIsStable

\* What a handler does is a step of the file store.
LEMMA HandleStores == IInv /\ Handle => [Store!Next]_(Store!store)
<1>. SUFFICES ASSUME IInv, Handle PROVE [Store!Next]_(Store!store)
  OBVIOUS
<1>. USE DEF Handle, hostVars, Store!Next, Store!store
<1>1. /\ Done = handled /\ handled \in Frames /\ packet.type = Type(handled)
      /\ (HasPayload(handled) => Content = handled)
  BY DEF IInv, TypeOK, HelperTypeOK, HelperHas, MailboxHas, Done, Content
<1>2. CASE FileWrite
  <2>1. handled = 0 /\ Content = 0
    BY <1>1, <1>2 DEF FileWrite, Type, Frames, HasPayload
  <2>2. file = "none" /\ contents = <<>>
    BY <1>1, <2>1 DEF IInv, FileHas
  <2>. QED BY <1>2, <2>1, <2>2 DEF FileWrite, CardOK, CardFails, Store!Open,
       Store!CardFails
<1>3. CASE DataHandler
  <2>1. handled \in 1 .. NBlocks /\ Content = handled
    BY <1>1, <1>3 DEF DataHandler, Type, Frames, HasPayload
  <2>2. \A i \in 1 .. Len(contents) : contents[i] < handled
    BY <1>1 DEF IInv, FileHas
  <2>3. ~cardError => handled = Len(contents) + 1
    BY <1>1, <2>1 DEF IInv, FileHas
  <2>4. CASE contents' = Append(contents, handled) /\ file = "open" /\ UNCHANGED cardError
    BY <1>3, <2>1, <2>2, <2>3, <2>4 DEF DataHandler, Store!Write
  <2>. QED BY <1>3, <2>1, <2>4 DEF DataHandler, CardOK, CardFails, Store!CardFails
<1>4. CASE EofHandler
  <2>1. handled \in {NBlocks + 1, NBlocks + 2}
    BY <1>1, <1>4 DEF EofHandler, Type, Frames
  <2>2. ~cardError /\ file = "open" => Len(contents) = NBlocks
    BY <1>1, <2>1 DEF IInv, FileHas
  <2>. QED BY <1>4, <2>2 DEF EofHandler, CardOK, CardFails, Store!Close,
       Store!CardFails
<1>5. CASE CardFull
  BY <1>5 DEF CardFull
<1>. QED BY <1>2, <1>3, <1>4, <1>5

\* Success is reported when the file is complete and closed: the second EOF was
\* acknowledged, so the first has been handled.
LEMMA ReplyStores == IInv /\ WaitForAckNak => [Store!Next]_(Store!store)
<1>. SUFFICES ASSUME IInv, WaitForAckNak PROVE [Store!Next]_(Store!store)
  OBVIOUS
<1>. USE DEF WaitForAckNak, cardVars, helperVars, hubVars, Results, Store!Next, Store!store
<1>1. CASE host' = "ok"
  <2>1. host = "wait" /\ frame = SecondEOF /\ Head(replies) = "ACK"
    BY <1>1 DEF Acknowledged
  <2>2. Head(replies) = replies[1] /\ 1 \in 1 .. Len(replies)
    BY DEF IInv, TypeOK, LinkTypeOK
  <2>3. Posted = frame + 1
    BY <2>1, <2>2 DEF IInv, Agreed
  <2>4. Done >= NBlocks + 2
    BY <2>1, <2>3 DEF Posted, Done, SecondEOF, IInv, TypeOK, HelperTypeOK
  <2>5. cardError \/ (file = "closed" /\ Len(contents) = NBlocks)
    BY <2>4 DEF IInv, FileHas
  <2>. QED BY <1>1, <2>1, <2>5 DEF Store!Succeed
<1>2. CASE host' # "ok"
  BY <1>2 DEF Store!Fail, Acknowledged
<1>. QED BY <1>1, <1>2

\* The other actions either leave the file store alone or fail it.
LEMMA OthersStore ==
  IInv /\ [Next]_vars /\ ~Handle /\ ~WaitForAckNak => [Store!Next]_(Store!store)
<1>. USE DEF vars, hostVars, linkVars, driverVars, hubVars, helperVars, cardVars,
             Results, Store!Next, Store!store, Store!Fail
<1>1. LoadSDHelper \/ SendPacket \/ Timeout \/ SlowCard => [Store!Next]_(Store!store)
  BY DEF LoadSDHelper, SendPacket, Timeout, SlowCard, GiveUp
<1>2. UNCHANGED vars \/ Driver \/ Start \/ RcvPacket \/ ReleasePacket \/ DamagePart
        \/ DamageReply => UNCHANGED Store!store
  BY DEF Driver, Entry, Receive, HandOver, SendAckNak, Start, RcvPacket,
       ReleasePacket,
         DamagePart, DamageReply
<1>. QED BY <1>1, <1>2 DEF Next, Host, Helper, Faulty

\* The whole of it, two cogs, mailbox and acknowledgements, implements a store
\* of blocks that reports success for a complete file or after a card error.
THEOREM TransferImplementsStore == SafeSpec => StoreSpec
<1>1. Init => Store!Init
  BY DEF Init, Store!Init, Results
<1>2. IInv /\ [Next]_vars => [Store!Next]_(Store!store)
  BY HandleStores, ReplyStores, OthersStore
<1>. QED BY <1>1, <1>2, Invariance, PTL DEF SafeSpec, StoreSpec, Store!Spec

-----------------------------------------------------------------------------
(***************************************************************************)
(* The transfer fails only when something is wrong.                        *)
(***************************************************************************)

\* A wait that nothing will end.
LEMMA NobodyIsStuck == ASSUME IInv, Untroubled, faults = 0, card = "in", Stuck, GiveUp PROVE FALSE
<1>. USE DEF Receiving
<1>1. replies = <<>> /\ host \in {"initial", "wait"} /\ cog # "hung"
  BY DEF GiveUp, Untroubled
<1>2. line = <<>> /\ rcv_state \in {"SOH", "DATA", "CRC"}
  BY <1>1 DEF Stuck, Untroubled
<1>3. rcv_state = "SOH" /\ Len(line) = 0
  BY <1>2 DEF IInv, DriverHas
<1>. QED BY <1>1, <1>3 DEF Untroubled

\* What the driver receives is a whole frame, part by part.
LEMMA ReceiveUntroubled ==
  ASSUME IInv, Untroubled, faults = 0, card = "in", Receive
  PROVE  /\ rcv_state' \in {"DATA", "CRC", "WAIT"} /\ (rcv_state' = "CRC" => crcOK')
         /\ sndbyte' = sndbyte
<1>. USE DEF Receive, Receiving
<1>1. /\ line \in Seq(Parts) /\ Len(line) \in Nat \ {0} /\ Head(line) = line[1]
      /\ 1 \in 1 .. Len(line) /\ line # <<>>
  BY DEF IInv, TypeOK, LinkTypeOK
<1>2. /\ Head(line).state = "good" /\ Head(line).frame = frame
      /\ Head(line).part = IF 1 = Len(line) THEN "crc"
                           ELSE IF 1 = Len(line) - 1 /\ HasPayload(frame) THEN "data" ELSE "hdr"
      /\ Posted = frame /\ host = "wait"
  BY <1>1 DEF Untroubled, IInv, LineShape
<1>3. rcv_state = "SOH" => Head(line).part = "hdr"
  <2>1. rcv_state = "SOH" => Len(line) = (IF HasPayload(frame) THEN 3 ELSE 2)
    BY <1>2 DEF Untroubled
  <2>2. CASE HasPayload(frame)
    BY <1>2, <2>1, <2>2
  <2>3. CASE ~HasPayload(frame)
    BY <1>2, <2>1, <2>3
  <2>. QED BY <2>2, <2>3
<1>4. rcv_state = "CRC" => crcOK
  BY DEF Untroubled
<1>5. rcv_state # "STALL"
  BY DEF Untroubled
<1>. QED BY <1>2, <1>3, <1>4, <1>5 DEF Header, Skip, Data, Crc, Stall, Expect

LEMMA UntroubledStep == IInv /\ Untroubled /\ [Next]_vars => Untroubled'
<1>. SUFFICES ASSUME IInv, Untroubled, [Next]_vars, faults' = 0, card' = "in" PROVE Untroubled'
  BY DEF Untroubled
<1>. USE DEF hostVars, linkVars, driverVars, hubVars, helperVars, cardVars
<1>1. faults = 0 /\ card = "in" /\ ~Fault
  <2>1. ~Fault
    BY DEF Fault, IInv, TypeOK
  <2>2. card' = card
    BY DEF Next, Host, Driver, Helper, Faulty, LoadSDHelper, SendPacket, WaitForAckNak, Timeout,
           GiveUp, SlowCard, Entry, Receive, HandOver, SendAckNak, Start, RcvPacket, Handle,
           ReleasePacket, DamagePart, DamageReply, vars
  <2>3. faults' = faults
    BY <2>1 DEF Next, Host, Driver, Helper, Faulty, LoadSDHelper, SendPacket, WaitForAckNak, Timeout,
           GiveUp, SlowCard, Entry, Receive, HandOver, SendAckNak, Start, RcvPacket, Handle,
           FileWrite, DataHandler, EofHandler, CardFull, CardOK, CardFails,
           ReleasePacket, DamagePart, DamageReply, vars
  <2>. QED BY <2>2, <2>3, <2>1
<1>2. CASE LoadSDHelper
  BY <1>1, <1>2 DEF LoadSDHelper, IInv, Agreed, Untroubled
<1>3. CASE SendPacket
  <2>1. /\ frame' = frame /\ Posted' = Posted /\ Posted = frame /\ line = <<>>
        /\ host' = "wait" /\ line' = line \o FrameParts(frame)
    BY <1>3 DEF SendPacket, IInv, Agreed, Posted
  <2>2. /\ Len(line') = (IF HasPayload(frame) THEN 3 ELSE 2)
        /\ \A i \in 1 .. Len(line') : line'[i].state = "good"
    BY <2>1 DEF FrameParts, Part
  <2>. QED BY <1>1, <1>3, <2>1, <2>2 DEF SendPacket, Untroubled
<1>4. CASE WaitForAckNak
  <2>1. /\ replies \in Seq({"ACK", "NAK", "noise"}) /\ Len(replies) \in Nat \ {0}
        /\ 1 \in 1 .. Len(replies) /\ Head(replies) = replies[1]
    BY <1>4 DEF WaitForAckNak, IInv, TypeOK, LinkTypeOK
  <2>2. Head(replies) = "ACK" /\ host' \in {"send", "ok"}
    BY <1>1, <1>4, <2>1 DEF WaitForAckNak, Untroubled, Acknowledged
  <2>3. \A i \in 1 .. Len(replies') : replies'[i] = "ACK"
    BY <1>1, <1>4, <2>1 DEF WaitForAckNak, Untroubled
  <2>. QED BY <1>1, <1>4, <2>2, <2>3 DEF WaitForAckNak, Untroubled
<1>5. ~Timeout /\ ~SlowCard /\ ~DamagePart /\ ~DamageReply
  BY <1>1, NobodyIsStuck DEF Timeout, SlowCard, DamagePart, DamageReply
<1>6. CASE Entry
  BY <1>1, <1>6 DEF Entry, Untroubled
<1>7. CASE Receive
  <2>1. \A i \in 1 .. Len(line') : line'[i].state = "good"
    BY <1>1, <1>7 DEF Receive, Untroubled, IInv, TypeOK, LinkTypeOK
  <2>. QED BY <1>1, <1>7, <2>1, ReceiveUntroubled DEF Receive, Untroubled
<1>8. CASE HandOver
  BY <1>1, <1>8 DEF HandOver, Untroubled
<1>9. CASE SendAckNak
  <2>1. /\ replies' # <<>> /\ rcv_state' = "SOH"
        /\ \A i \in 1 .. Len(replies') : replies'[i] = "ACK"
    BY <1>1, <1>9 DEF SendAckNak, Untroubled, IInv, TypeOK, LinkTypeOK, DriverTypeOK
  <2>2. host = "wait" => Posted # frame
    BY <1>1, <1>9 DEF SendAckNak, Untroubled, IInv, Agreed
  <2>3. Posted' = Posted /\ frame' = frame
    BY <1>9 DEF SendAckNak, Posted
  <2>. QED BY <1>1, <1>9, <2>1, <2>2, <2>3 DEF SendAckNak, Untroubled
<1>10. CASE Start \/ RcvPacket
  <2>1. Posted' = Posted
    BY <1>10 DEF Start, RcvPacket, Posted
  <2>. QED BY <1>1, <1>10, <2>1 DEF Start, RcvPacket, Untroubled
<1>11. CASE Handle
  <2>1. Posted' = Posted /\ cog' # "hung"
    BY <1>1, <1>11 DEF Handle, FileWrite, DataHandler, EofHandler, CardFull, Posted
  <2>. QED BY <1>1, <1>11, <2>1 DEF Handle, Untroubled
<1>12. CASE ReleasePacket
  <2>1. Posted' = Posted
    BY <1>12 DEF ReleasePacket, WriteMailbox, Posted, IInv, TypeOK, HubTypeOK, HelperTypeOK,
                 HelperHas, Mails
  <2>. QED BY <1>1, <1>12, <2>1 DEF ReleasePacket, Untroubled
<1>13. CASE UNCHANGED vars
  <2>1. Posted' = Posted
    BY <1>13 DEF vars, Posted
  <2>. QED BY <1>1, <1>13, <2>1 DEF vars, Untroubled
<1>. QED BY <1>2, <1>3, <1>4, <1>5, <1>6, <1>7, <1>8, <1>9, <1>10, <1>11, <1>12, <1>13
         DEF Next, Host, Driver, Helper, Faulty

\* Without a fault and with a card, WriteFileToSDCard never gives up: no wait is
\* for something that is not on its way, and nothing that arrives is refused.
THEOREM FailureIsReal == SafeSpec => []NoSpuriousFailure
<1>1. Init => Untroubled
  BY DEF Init, Untroubled
<1>2. Untroubled /\ IInv => NoSpuriousFailure
  BY DEF Untroubled, NoSpuriousFailure, IInv, TypeOK, CardTypeOK
<1>. QED BY <1>1, <1>2, UntroubledStep, Invariance, PTL DEF SafeSpec
=============================================================================
