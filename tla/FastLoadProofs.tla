--------------------------- MODULE FastLoadProofs ---------------------------
(***************************************************************************)
(* For every number of packets, checksum, sum, load type, link and fault   *)
(* bound: the micro-loader acts only on verified RAM, a success reported   *)
(* by the host is real, and executable packets take effect once.           *)
(***************************************************************************)
EXTENDS FastLoad, SequenceTheorems, TLAPS

USE NPacketsAssumption, SumAssumption, GarbageAssumption, OptionAssumption

-----------------------------------------------------------------------------
(* Sequences.                                                              *)

\* A longer set of elements gives more sequences.
LEMMA SeqMonotone ==
  ASSUME NEW S, NEW T, S \subseteq T, NEW s \in Seq(S)
  PROVE  s \in Seq(T)
OBVIOUS

\* Taking away a prefix or a suffix keeps the element type.
LEMMA SubSeqType ==
  ASSUME NEW S, NEW s \in Seq(S), NEW m \in Nat \ {0}, NEW n \in Int, n <= Len(s)
  PROVE  SubSeq(s, m, n) \in Seq(S)
<1>1. \A i \in m .. n : s[i] \in S
  OBVIOUS
<1>. QED BY <1>1, SubSeqProperties

\* Head, tail, and what damage puts in front of the tail.
LEMMA QueueType ==
  ASSUME NEW S, NEW s \in Seq(S), s # <<>>
  PROVE  /\ Head(s) \in S
         /\ Tail(s) \in Seq(S)
         /\ \A a \in S : <<a>> \o Tail(s) \in Seq(S)
         /\ \A a \in S, b \in S : <<a, b>> \o Tail(s) \in Seq(S)
<1>1. Head(s) \in S /\ Tail(s) \in Seq(S)
  BY HeadTailProperties
<1>2. ASSUME NEW a \in S PROVE <<a>> \o Tail(s) \in Seq(S)
  <2>1. <<a>> \in Seq(S)
    OBVIOUS
  <2>. QED BY <1>1, <2>1, ConcatProperties
<1>3. ASSUME NEW a \in S, NEW b \in S PROVE <<a, b>> \o Tail(s) \in Seq(S)
  <2>1. <<a, b>> \in Seq(S)
    OBVIOUS
  <2>. QED BY <1>1, <2>1, ConcatProperties
<1>. QED BY <1>1, <1>2, <1>3

\* A reply appended to the longs on their way.
LEMMA ReplyType ==
  ASSUME NEW S, NEW s \in Seq(S), NEW a \in S, NEW b \in S
  PROVE  s \o <<a, b>> \in Seq(S)
<1>1. <<a, b>> \in Seq(S)
  OBVIOUS
<1>. QED BY <1>1, ConcatProperties

\* A copied chunk extends RAM by one.
LEMMA RAMGrows ==
  ASSUME NEW r \in RAMs, NEW c \in 0 .. NPackets, Len(r) < NPackets
  PROVE  Append(r, c) \in RAMs /\ Len(Append(r, c)) = Len(r) + 1
<1>1. PICK n \in 0 .. NPackets : r \in [1 .. n -> 0 .. NPackets]
  BY DEF RAMs
<1>2. r \in Seq(0 .. NPackets) /\ Len(r) = n
  BY <1>1
<1>3. /\ Append(r, c) \in Seq(0 .. NPackets)
      /\ Len(Append(r, c)) = n + 1
  BY <1>2, AppendProperties
<1>4. Append(r, c) \in [1 .. n + 1 -> 0 .. NPackets]
  BY <1>3, LenProperties
<1>5. n + 1 \in 0 .. NPackets
  BY <1>2
<1>. QED BY <1>2, <1>3, <1>4, <1>5 DEF RAMs

\* The phases that send, and the payload of each.
LEMMA KindFacts ==
  /\ Sending = {"packets", "verifyRAM", "programEEPROM", "ready", "launch"}
  /\ Kinds = {"data", "verifyRAM", "programVerifyEEPROM", "readyToLaunch",
              "launchNow", "damaged", "short"}
  /\ Kind["packets"] = "data" /\ Kind["verifyRAM"] = "verifyRAM"
  /\ Kind["programEEPROM"] = "programVerifyEEPROM"
  /\ Kind["ready"] = "readyToLaunch" /\ Kind["launch"] = "launchNow"
<1>1. Sending = {"packets", "verifyRAM", "programEEPROM", "ready", "launch"}
  BY DEF Sending, Kind
<1>2. /\ Kind["packets"] = "data" /\ Kind["verifyRAM"] = "verifyRAM"
      /\ Kind["programEEPROM"] = "programVerifyEEPROM"
      /\ Kind["ready"] = "readyToLaunch" /\ Kind["launch"] = "launchNow"
  BY DEF Kind
<1>3. {Kind[ph] : ph \in Sending} =
        {"data", "verifyRAM", "programVerifyEEPROM", "readyToLaunch", "launchNow"}
  BY <1>1, <1>2
<1>4. Kinds = {"data", "verifyRAM", "programVerifyEEPROM", "readyToLaunch",
                "launchNow"} \cup {"damaged", "short"}
  BY <1>3 DEF Kinds
<1>5. Kinds = {"data", "verifyRAM", "programVerifyEEPROM", "readyToLaunch",
               "launchNow", "damaged", "short"}
  BY <1>4
<1>. QED BY <1>1, <1>2, <1>5

-----------------------------------------------------------------------------
(* Initial states.                                                         *)

\* A fresh attempt satisfies the invariant.
LEMMA InitIInv == Init => IInv
<1>. SUFFICES ASSUME Init PROVE IInv
  OBVIOUS
<1>1. <<>> \in RAMs /\ Len(<<>>) = 0
  <2>1. <<>> \in [1 .. 0 -> 0 .. NPackets]
    OBVIOUS
  <2>. QED BY <2>1 DEF RAMs
<1>2. TypeOK
  <2>1. toHost \in Seq(Int) /\ toTarget \in Seq(Packets)
    BY DEF Init
  <2>2. phase \in Sending \cup Returned
    BY KindFacts DEF Init
  <2>3. waiting \in BOOLEAN /\ armed \in BOOLEAN /\ launchCode \in BOOLEAN /\ acked \in BOOLEAN
    BY DEF Init
  <2>4. packetID \in Int /\ tries \in 0 .. Tries /\ tag \in Nat /\ faults \in 0 .. MaxFaults
    BY DEF Init, Tries, FirstTag
  <2>5. expectedID \in Int /\ checksum \in Nat /\ ram \in RAMs
    BY <1>1 DEF Init
  <2>. QED BY <2>1, <2>2, <2>3, <2>4, <2>5 DEF Init, TypeOK, HostTypeOK, LoaderTypeOK, LinkTypeOK
<1>3. Registers /\ HostKnows /\ LaunchVerified
  BY <1>1 DEF Init, Registers, Verified, HostKnows, LaunchVerified
<1>4. toHost \in Seq(GoodLongs) /\ toTarget \in Seq(GoodPackets)
  BY DEF Init
<1>5. waiting => phase \in Sending \ {"launch"}
  BY DEF Init
<1>. QED BY <1>2, <1>3, <1>4, <1>5 DEF IInv
-----------------------------------------------------------------------------
(* Steps that leave the micro-loader's registers alone.                    *)

\* What longs and packets say depends on the registers only.
LEMMA LoaderFrame ==
  ASSUME IInv, UNCHANGED loaderVars
  PROVE  /\ LoaderTypeOK' /\ Registers' /\ LaunchVerified' /\ Verified' = Verified
         /\ GoodLongs' = GoodLongs /\ GoodPackets' = GoodPackets
<1>1. Verified' = Verified
  BY DEF Verified, loaderVars
<1>2. LoaderTypeOK'
  BY DEF IInv, TypeOK, LoaderTypeOK, loaderVars
<1>3. Registers' /\ LaunchVerified'
  BY <1>1 DEF IInv, Registers, LaunchVerified, loaderVars
<1>4. GoodLongs' = GoodLongs /\ GoodPackets' = GoodPackets
  BY <1>1 DEF GoodLongs, GoodPackets, loaderVars
<1>. QED BY <1>1, <1>2, <1>3, <1>4

\* A fault is counted up to MaxFaults.
LEMMA FaultType ==
  ASSUME IInv, Fault \/ UNCHANGED faults
  PROVE  faults' \in 0 .. MaxFaults
BY DEF IInv, TypeOK, LinkTypeOK, Fault

\* Sets of good values are typed, and every tag is a good long.
LEMMA GoodTypes ==
  /\ GoodLongs \subseteq Int /\ GoodPackets \subseteq Packets
  /\ Nat \subseteq GoodLongs
<1>1. GoodLongs \subseteq Int /\ GoodPackets \subseteq Packets
  BY DEF GoodLongs, GoodPackets
<1>2. ASSUME NEW x \in Nat PROVE x \in GoodLongs
  BY DEF GoodLongs, ReadyID
<1>. QED BY <1>1, <1>2

\* A step of the link: the host and the registers are left alone, and what is
\* on its way stays good.
LEMMA LinkStep ==
  ASSUME IInv, UNCHANGED <<hostVars, loaderVars>>, Fault \/ UNCHANGED faults,
         acked' \in BOOLEAN,
         toHost' \in Seq(GoodLongs), toTarget' \in Seq(GoodPackets)
  PROVE  IInv'
<1>1. HostTypeOK' /\ HostKnows' /\ (waiting => phase \in Sending \ {"launch"})'
  BY LoaderFrame DEF IInv, TypeOK, HostTypeOK, HostKnows, hostVars, loaderVars
<1>2. toHost' \in Seq(GoodLongs') /\ toTarget' \in Seq(GoodPackets')
  BY LoaderFrame
<1>3. LinkTypeOK'
  <2>1. toHost' \in Seq(Int) /\ toTarget' \in Seq(Packets)
    BY GoodTypes, SeqMonotone
  <2>. QED BY <2>1, FaultType DEF LinkTypeOK
<1>. QED BY <1>1, <1>2, <1>3, LoaderFrame DEF IInv, TypeOK

\* Damage keeps a packet good: what it makes is none of the code payloads.
LEMMA DamagedGood ==
  ASSUME NEW p \in Packets, NEW id \in Int, NEW t \in Nat
  PROVE  Damaged(p, id, t) \in GoodPackets
<1>1. Damaged(p, id, t) \in Packets
  BY KindFacts DEF Damaged, Packets
<1>2. Damaged(p, id, t).kind \in {"damaged", "short"}
  BY DEF Damaged
<1>. QED BY <1>1, <1>2 DEF GoodPackets

\* Losing a packet leaves good packets.
LEMMA LosePacketStep == IInv /\ LosePacket => IInv'
<1>. SUFFICES ASSUME IInv, LosePacket PROVE IInv'
  OBVIOUS
<1>1. toTarget' \in Seq(GoodPackets)
  BY QueueType DEF LosePacket, IInv
<1>. QED BY <1>1, LinkStep DEF LosePacket, IInv, TypeOK, LinkTypeOK

\* What is left of a damaged reply still consists of good longs.
LEMMA LoseReplyStep == IInv /\ LoseReply => IInv'
<1>. SUFFICES ASSUME IInv, LoseReply PROVE IInv'
  OBVIOUS
<1>. DEFINE n == Len(toHost)
<1>1. toHost \in Seq(GoodLongs) /\ n \in Nat /\ n >= 2 /\ NoTag \in GoodLongs
  BY GoodTypes DEF IInv, LoseReply, NoTag
<1>2. toHost[n] \in GoodLongs
  BY <1>1
<1>3. SubSeq(toHost, 1, n - 2) \in Seq(GoodLongs) /\ SubSeq(toHost, 1, n - 1) \in Seq(GoodLongs)
  BY <1>1, SubSeqType
<1>4. Append(SubSeq(toHost, 1, n - 2), toHost[n]) \in Seq(GoodLongs)
  BY <1>2, <1>3, AppendProperties
<1>5. [toHost EXCEPT ![n] = NoTag] \in Seq(GoodLongs)
  BY <1>1
<1>6. toHost' \in Seq(GoodLongs)
  BY <1>3, <1>4, <1>5 DEF LoseReply
<1>. QED BY <1>6, LinkStep DEF LoseReply, IInv, TypeOK, LinkTypeOK

\* A damaged packet is good: it carries no genuine payload.
LEMMA DamageStep == IInv /\ Damage => IInv'
<1>. SUFFICES ASSUME IInv, Damage PROVE IInv'
  OBVIOUS
<1>. DEFINE p == Head(toTarget)
<1>1. p \in Packets /\ p.id \in Int /\ p.tag \in Nat /\ NoTag \in Nat
  BY QueueType, GoodTypes DEF IInv, Damage, Packets, NoTag
<1>2. PICK id \in GarbageIDs \cup {p.id}, t \in {NoTag, p.tag} :
         toTarget' = <<Damaged(p, id, t)>> \o Tail(toTarget)
  BY DEF Damage
<1>3. Damaged(p, id, t) \in GoodPackets
  BY <1>1, DamagedGood
<1>4. toTarget' \in Seq(GoodPackets)
  BY <1>2, <1>3, QueueType DEF IInv, Damage
<1>. QED BY <1>4, LinkStep DEF Damage, IInv, TypeOK, LinkTypeOK

\* Both parts of a packet split by a gap are good.
LEMMA SplitStep == IInv /\ Split => IInv'
<1>. SUFFICES ASSUME IInv, Split PROVE IInv'
  OBVIOUS
<1>. DEFINE p == Head(toTarget)
<1>1. p \in Packets /\ p.id \in Int /\ p.tag \in Nat /\ NoTag \in Nat
  BY QueueType, GoodTypes DEF IInv, Split, Packets, NoTag
<1>2. PICK id \in GarbageIDs :
         toTarget' = <<Damaged(p, p.id, p.tag), Damaged(p, id, NoTag)>> \o Tail(toTarget)
  BY DEF Split
<1>3. Damaged(p, p.id, p.tag) \in GoodPackets /\ Damaged(p, id, NoTag) \in GoodPackets
  BY <1>1, DamagedGood
<1>4. toTarget' \in Seq(GoodPackets)
  BY <1>2, <1>3, QueueType DEF IInv, Split
<1>. QED BY <1>4, LinkStep DEF Split, IInv, TypeOK, LinkTypeOK

-----------------------------------------------------------------------------
(* Steps of the host.                                                      *)

\* A host step leaves the registers alone; what is left to show is that the
\* host's phase still agrees with them.
LEMMA HostStep ==
  ASSUME IInv, UNCHANGED loaderVars, Fault \/ UNCHANGED faults,
         acked' \in BOOLEAN,
         toHost' \in Seq(GoodLongs), toTarget' \in Seq(GoodPackets),
         HostTypeOK', HostKnows', (waiting => phase \in Sending \ {"launch"})'
  PROVE  IInv'
<1>1. toHost' \in Seq(GoodLongs') /\ toTarget' \in Seq(GoodPackets')
  BY LoaderFrame
<1>2. LinkTypeOK'
  <2>1. toHost' \in Seq(Int) /\ toTarget' \in Seq(Packets)
    BY GoodTypes, SeqMonotone
  <2>. QED BY <2>1, FaultType DEF LinkTypeOK
<1>. QED BY <1>1, <1>2, LoaderFrame DEF IInv, TypeOK

\* The packet of each phase is good.
LEMMA SentGood ==
  ASSUME IInv, phase \in Sending
  PROVE  [id |-> packetID, tag |-> tag + 1, kind |-> Kind[phase],
          chunk |-> IF phase = "packets" THEN NPackets - packetID + 1 ELSE 0]
            \in GoodPackets
<1>. DEFINE p == [id |-> packetID, tag |-> tag + 1, kind |-> Kind[phase],
                  chunk |-> IF phase = "packets" THEN NPackets - packetID + 1 ELSE 0]
<1>1. p \in Packets
  <2>1. p.chunk \in 0 .. NPackets
    BY DEF IInv, HostKnows
  <2>2. p.kind \in Kinds
    BY KindFacts
  <2>. QED BY <2>1, <2>2 DEF Packets, IInv, TypeOK, HostTypeOK
<1>2. p.kind = "verifyRAM" => p.id = 0
  BY KindFacts DEF IInv, HostKnows
<1>3. p.kind = "programVerifyEEPROM" => p.id = -CheckSum /\ Verified /\ Program
  BY KindFacts DEF IInv, HostKnows
<1>4. p.kind = "readyToLaunch" => p.id = ReadyID /\ Verified
  BY KindFacts DEF IInv, HostKnows
<1>5. p.kind = "launchNow" => p.id = ReadyID - 1 /\ armed
  BY KindFacts DEF IInv, HostKnows
<1>. HIDE DEF p
<1>6. p \in GoodPackets
  BY <1>1, <1>2, <1>3, <1>4, <1>5 DEF GoodPackets
<1>. QED BY <1>6 DEF p

\* A transmission carries what the host knows, so it is good.
LEMMA SendStep == IInv /\ Send => IInv'
<1>. SUFFICES ASSUME IInv, Send PROVE IInv'
  OBVIOUS
<1>1. toTarget' \in Seq(GoodPackets)
  BY SentGood, AppendProperties DEF IInv, Send
<1>2. HostTypeOK'
  <2>1. phase' \in Sending \cup Returned /\ waiting' \in BOOLEAN
    BY DEF Send, Returned
  <2>2. packetID' \in Int /\ tries' \in 0 .. Tries /\ tag' \in Nat
    BY DEF IInv, TypeOK, HostTypeOK, Send, Tries
  <2>. QED BY <2>1, <2>2 DEF HostTypeOK
<1>3. HostKnows'
  BY LoaderFrame DEF IInv, HostKnows, Send, loaderVars
<1>4. (waiting => phase \in Sending \ {"launch"})'
  BY DEF Send
<1>. QED BY <1>1, <1>2, <1>3, <1>4, HostStep DEF IInv, Send

\* A host that has given up knows nothing more.
LEMMA FailureStep ==
  ASSUME IInv, phase \in Sending, ~waiting, phase' = Failure,
         UNCHANGED <<packetID, waiting, loaderVars, linkVars>>,
         tries' \in 0 .. Tries, tag' \in Nat, Fault \/ UNCHANGED faults
  PROVE  IInv'
<1>1. phase' \in {"fatal", "stepDown"}
  BY DEF Failure
<1>2. HostTypeOK'
  BY <1>1 DEF IInv, TypeOK, HostTypeOK, Returned
<1>3. HostKnows'
  BY <1>1 DEF HostKnows
<1>4. waiting' = FALSE
  BY DEF IInv, TypeOK, HostTypeOK
<1>. QED BY <1>2, <1>3, <1>4, HostStep DEF IInv, TypeOK, LinkTypeOK, linkVars

\* A failed write ends the attempt and changes nothing else.
LEMMA SendFailsStep == IInv /\ SendFails => IInv'
BY FailureStep DEF SendFails, IInv, TypeOK, HostTypeOK, Tries

\* Running out of tries ends the attempt and changes nothing else.
LEMMA GiveUpStep == IInv /\ GiveUp => IInv'
BY FailureStep DEF GiveUp, IInv, TypeOK, HostTypeOK, Tries

\* A read that yields nothing acceptable.
LEMMA RetryStep ==
  ASSUME IInv, waiting, waiting' = FALSE, toHost' \in Seq(GoodLongs),
         UNCHANGED <<phase, packetID, tries, tag, acked, toTarget, loaderVars>>,
         Fault \/ UNCHANGED faults
  PROVE  IInv'
<1>1. HostTypeOK'
  BY DEF IInv, TypeOK, HostTypeOK
<1>2. HostKnows'
  BY LoaderFrame DEF IInv, HostKnows, loaderVars
<1>. QED BY <1>1, <1>2, HostStep DEF IInv, TypeOK, LinkTypeOK

\* Half a reply read leaves good longs in the stream.
LEMMA ShortReadStep == IInv /\ ShortRead => IInv'
<1>. SUFFICES ASSUME IInv, ShortRead PROVE IInv'
  OBVIOUS
<1>1. toHost' \in Seq(GoodLongs)
  BY QueueType DEF IInv, ShortRead
<1>. QED BY <1>1, RetryStep DEF ShortRead

\* A read that times out empties the stream.
LEMMA TimeoutStep == IInv /\ Timeout => IInv'
<1>. SUFFICES ASSUME IInv, Timeout PROVE IInv'
  OBVIOUS
<1>1. toHost' \in Seq(GoodLongs)
  BY DEF Timeout
<1>. QED BY <1>1, RetryStep DEF Timeout

\* A reply that comes too late stays in the stream, as good as it was.
LEMMA LateReplyStep == IInv /\ LateReply => IInv'
<1>. SUFFICES ASSUME IInv, LateReply PROVE IInv'
  OBVIOUS
<1>1. toHost' \in Seq(GoodLongs)
  BY DEF LateReply, linkVars, IInv
<1>. QED BY <1>1, RetryStep DEF LateReply, linkVars

\* An accepted result moves the host on only if the registers bear it out.
LEMMA JudgeKnows ==
  ASSUME IInv, UNCHANGED loaderVars, NEW result \in GoodLongs, Judge(result)
  PROVE  /\ HostKnows' /\ phase' \in Sending \cup Returned
         /\ packetID' \in Int /\ tries' \in 0 .. Tries
<1>. USE DEF Advance, Abort, Tries, Returned
<1>1. Verified' = Verified
  BY LoaderFrame
<1>2. CASE phase = "packets"
  BY <1>1, <1>2, KindFacts DEF IInv, HostKnows, TypeOK, HostTypeOK, Judge
<1>3. CASE phase = "verifyRAM"
  <2>1. result = -CheckSum => Verified
    BY DEF GoodLongs
  <2>. QED BY <1>1, <1>3, <2>1, KindFacts
           DEF IInv, HostKnows, TypeOK, HostTypeOK, Judge, Program, ReadyID, loaderVars
<1>4. CASE phase = "programEEPROM"
  <2>1. Verified /\ Program
    BY <1>4 DEF IInv, HostKnows
  <2>2. result = -2 * CheckSum => eeprom = "programmed"
    BY <2>1 DEF GoodLongs
  <2>. QED BY <1>1, <1>4, <2>1, <2>2, KindFacts
           DEF IInv, HostKnows, TypeOK, HostTypeOK, Judge, ReadyID, loaderVars
<1>5. CASE phase = "ready"
  <2>1. Verified /\ packetID = ReadyID
    BY <1>5 DEF IInv, HostKnows
  <2>2. result = packetID - 1 => armed
    BY <2>1 DEF GoodLongs
  <2>. QED BY <1>1, <1>5, <2>1, <2>2, KindFacts
           DEF IInv, HostKnows, TypeOK, HostTypeOK, Judge, loaderVars
<1>. QED BY <1>2, <1>3, <1>4, <1>5 DEF Judge

\* A reply read is acted upon only if the registers bear it out.
LEMMA ReceiveStep == IInv /\ Receive => IInv'
<1>. SUFFICES ASSUME IInv, Receive PROVE IInv'
  OBVIOUS
<1>1. toHost' \in Seq(GoodLongs) /\ toHost[1] \in GoodLongs
  <2>1. toHost \in Seq(GoodLongs) /\ Len(toHost) \in Nat /\ Len(toHost) >= 2
    BY DEF IInv, Receive
  <2>2. SubSeq(toHost, 3, Len(toHost)) \in Seq(GoodLongs)
    BY <2>1, SubSeqType
  <2>. QED BY <2>1, <2>2 DEF Receive
<1>2. CASE Acceptable(toHost[1], toHost[2])
  <2>1. Judge(toHost[1]) /\ UNCHANGED loaderVars
    BY <1>2 DEF Receive
  <2>2. HostTypeOK' /\ HostKnows'
    BY <1>1, <2>1, JudgeKnows DEF IInv, TypeOK, HostTypeOK, Receive
  <2>. QED BY <1>1, <2>2, HostStep DEF Receive, IInv, TypeOK, LinkTypeOK
<1>3. CASE ~Acceptable(toHost[1], toHost[2])
  BY <1>1, <1>3, RetryStep DEF Receive
<1>. QED BY <1>2, <1>3

-----------------------------------------------------------------------------
(* Steps of the micro-loader.                                              *)

\* What was good stays good while the registers only move forward: RAM once
\* verified stays so, the launch once armed stays so.
LEMMA Forward ==
  ASSUME IInv, UNCHANGED hostVars,
         Verified => Verified', armed => armed', checksum # 0 => checksum' # 0,
         Verified' => Verified \/ checksum = 0,
         Verified /\ eeprom = "programmed" => eeprom' = "programmed"
  PROVE  /\ GoodLongs \subseteq GoodLongs' /\ GoodPackets \subseteq GoodPackets'
         /\ HostTypeOK' /\ HostKnows' /\ (waiting => phase \in Sending \ {"launch"})'
<1>1. GoodLongs \subseteq GoodLongs'
  <2>. SUFFICES ASSUME NEW x \in GoodLongs PROVE x \in GoodLongs'
    OBVIOUS
  <2>1. CASE checksum = 0
    <3>1. x \in Int /\ x >= 0
      BY <2>1 DEF GoodLongs
    <3>. QED BY <3>1 DEF GoodLongs, ReadyID
  <2>2. CASE checksum # 0
    BY <2>2 DEF GoodLongs
  <2>. QED BY <2>1, <2>2
<1>2. GoodPackets \subseteq GoodPackets'
  BY DEF GoodPackets
<1>3. HostTypeOK' /\ (waiting => phase \in Sending \ {"launch"})'
  BY DEF IInv, TypeOK, HostTypeOK, hostVars
<1>4. HostKnows'
  BY DEF IInv, HostKnows, hostVars
<1>. QED BY <1>1, <1>2, <1>3, <1>4

\* A step of the micro-loader that keeps its registers consistent and only
\* moves forward keeps the invariant.
LEMMA LoaderStep ==
  ASSUME IInv, UNCHANGED hostVars, Fault \/ UNCHANGED faults, acked' \in BOOLEAN,
         Verified => Verified', armed => armed', checksum # 0 => checksum' # 0,
         Verified' => Verified \/ checksum = 0,
         Verified /\ eeprom = "programmed" => eeprom' = "programmed",
         LoaderTypeOK', Registers', LaunchVerified',
         toHost' \in Seq(GoodLongs'), toTarget' \in Seq(GoodPackets)
  PROVE  IInv'
<1>1. toTarget' \in Seq(GoodPackets')
  BY Forward
<1>2. LinkTypeOK'
  <2>1. GoodLongs' \subseteq Int
    BY DEF GoodLongs
  <2>2. toHost' \in Seq(Int) /\ toTarget' \in Seq(Packets)
    BY <2>1, GoodTypes, SeqMonotone
  <2>. QED BY <2>2, FaultType DEF LinkTypeOK
<1>. QED BY <1>1, <1>2, Forward DEF IInv, TypeOK

\* An acknowledgement says what the registers say once the packet is handled.
LEMMA AcknowledgeGood ==
  ASSUME IInv, UNCHANGED hostVars,
         Verified => Verified', armed => armed', checksum # 0 => checksum' # 0,
         Verified' => Verified \/ checksum = 0,
         Verified /\ eeprom = "programmed" => eeprom' = "programmed",
         LoaderTypeOK', Registers',
         NEW p \in Packets, Acknowledge(expectedID', p)
  PROVE  toHost' \in Seq(GoodLongs') /\ acked' \in BOOLEAN
<1>1. toHost \in Seq(GoodLongs')
  BY Forward, SeqMonotone DEF IInv
<1>2. expectedID' \in GoodLongs'
  <2>1. expectedID' \in Int /\ (checksum' = 0 => expectedID' >= 0)
    <3>1. checksum' = 0 => expectedID' \in 0 .. NPackets
      BY DEF Registers
    <3>2. expectedID' \in Int
      BY DEF LoaderTypeOK
    <3>. QED BY <3>1, <3>2
  <2>2. expectedID' = -CheckSum => Verified'
    <3>. SUFFICES ASSUME expectedID' = -CheckSum, ~Verified' PROVE FALSE
      OBVIOUS
    <3>1. checksum' # 0
      BY DEF Registers
    <3>2. checksum' = Sum(ram') /\ expectedID' = -checksum'
      BY <3>1 DEF Registers
    <3>3. CheckSum = Sum(ram')
      BY <3>2 DEF LoaderTypeOK
    <3>. QED BY <3>1, <3>3 DEF Verified
  <2>3. /\ Verified' /\ Program /\ expectedID' = -2 * CheckSum => eeprom' = "programmed"
        /\ Verified' /\ expectedID' = ReadyID - 1 => armed'
    BY DEF Registers
  <2>. QED BY <2>1, <2>2, <2>3 DEF GoodLongs
<1>3. p.tag \in GoodLongs'
  BY DEF Packets, GoodLongs, ReadyID
<1>. QED BY <1>1, <1>2, <1>3, ReplyType DEF Acknowledge

\* The handling of packet p as a whole, once its effect on the registers is known.
LEMMA HandledStep ==
  ASSUME IInv, UNCHANGED hostVars, Fault \/ UNCHANGED faults,
         toTarget # <<>>, toTarget' \in {Tail(toTarget), <<>>},
         Verified => Verified', armed => armed', checksum # 0 => checksum' # 0,
         Verified' => Verified \/ checksum = 0,
         Verified /\ eeprom = "programmed" => eeprom' = "programmed",
         LoaderTypeOK', Registers', LaunchVerified',
         NEW p \in Packets, Acknowledge(expectedID', p)
  PROVE  IInv'
<1>1. toTarget' \in Seq(GoodPackets)
  <2>1. Tail(toTarget) \in Seq(GoodPackets) /\ <<>> \in Seq(GoodPackets)
    BY QueueType DEF IInv
  <2>. QED BY <2>1
<1>. QED BY <1>1, AcknowledgeGood, LoaderStep

\* The Propeller stops being a micro-loader, or only its queue changes.
LEMMA LeaveStep ==
  ASSUME IInv, UNCHANGED hostVars, Fault \/ UNCHANGED faults, Leave,
         tmode' \in {"rx", "reset", "run", "wild"}, tmode' = "run" => armed \/ tmode = "run",
         toTarget' \in Seq(GoodPackets)
  PROVE  IInv'
<1>1. Verified' = Verified
  BY DEF Leave, Verified
<1>2. LoaderTypeOK'
  BY DEF Leave, IInv, TypeOK, LoaderTypeOK
<1>3. Registers'
  BY <1>1 DEF Leave, IInv, Registers
<1>4. LaunchVerified'
  BY <1>1 DEF Leave, IInv, LaunchVerified
<1>5. GoodLongs' = GoodLongs
  BY <1>1 DEF Leave, GoodLongs
<1>6. toHost' \in Seq(GoodLongs') /\ acked' \in BOOLEAN
  BY <1>5 DEF Leave, IInv, TypeOK, LinkTypeOK
<1>. QED BY <1>1, <1>2, <1>3, <1>4, <1>6, LoaderStep DEF Leave

\* The launch code runs the program only once it is armed.
LEMMA LaunchMode ==
  ASSUME Launch
  PROVE  tmode' \in {"rx", "reset", "run", "wild"} /\ (tmode' = "run" => armed)
BY DEF Launch

-----------------------------------------------------------------------------
(* Each way to handle a packet.                                            *)

\* The part of Deliver that all handlers share.
Handling(p) == /\ tmode = "rx" /\ toTarget # <<>> /\ p = Head(toTarget)
               /\ toTarget' \in {Tail(toTarget), <<>>}
               /\ UNCHANGED hostVars /\ (Fault \/ UNCHANGED faults)

\* The packet at hand is good, and what stays behind it on the line too.
LEMMA HandledGood ==
  ASSUME IInv, NEW p, Handling(p)
  PROVE  /\ p \in GoodPackets /\ p \in Packets /\ p.id \in Int /\ p.chunk \in 0 .. NPackets
         /\ toTarget' \in Seq(GoodPackets)
<1>1. p \in GoodPackets /\ Tail(toTarget) \in Seq(GoodPackets)
  BY QueueType DEF IInv, Handling
<1>2. p \in Packets /\ p.id \in Int /\ p.chunk \in 0 .. NPackets
  BY <1>1, GoodTypes DEF Packets
<1>3. toTarget' \in Seq(GoodPackets)
  <2>1. <<>> \in Seq(GoodPackets)
    OBVIOUS
  <2>. QED BY <1>1, <2>1 DEF Handling
<1>. QED BY <1>1, <1>2, <1>3

\* Asking for the expected packet again says nothing new.
LEMMA RefuseStep ==
  ASSUME IInv, NEW p, Handling(p), Refuse(p)
  PROVE  IInv'
<1>1. Verified' = Verified
  BY DEF Refuse, Verified
<1>2. launchCode' \in BOOLEAN
  BY DEF Refuse, Buffered, IInv, TypeOK, LoaderTypeOK
<1>3. LoaderTypeOK'
  BY <1>2 DEF Refuse, IInv, TypeOK, LoaderTypeOK
<1>4. Registers' /\ LaunchVerified'
  BY <1>1 DEF Refuse, IInv, Registers, LaunchVerified
<1>5. Acknowledge(expectedID', p)
  BY DEF Refuse, Acknowledge
<1>. QED BY <1>1, <1>3, <1>4, <1>5, HandledGood, HandledStep DEF Handling, Refuse

\* A copied chunk brings RAM and the countdown one further.
LEMMA CopyStep ==
  ASSUME IInv, NEW p, Handling(p), Copy(p)
  PROVE  IInv'
<1>1. checksum = 0 /\ ~Verified /\ expectedID \in 1 .. NPackets
      /\ Len(ram) = NPackets - expectedID
  <2>1. expectedID \in Int /\ expectedID >= 1
    BY DEF Copy, IInv, TypeOK, LoaderTypeOK
  <2>2. checksum = 0
    BY <2>1 DEF IInv, Registers
  <2>3. expectedID \in 0 .. NPackets /\ Len(ram) = NPackets - expectedID
    BY <2>2 DEF IInv, Registers
  <2>. QED BY <2>1, <2>2, <2>3 DEF Verified
<1>2. ram' \in RAMs /\ Len(ram') = NPackets - expectedID'
  <2>1. ram \in RAMs /\ Len(ram) < NPackets
    BY <1>1 DEF IInv, TypeOK, LoaderTypeOK
  <2>2. p.chunk \in 0 .. NPackets /\ ram' = Append(ram, p.chunk)
    BY HandledGood DEF Copy
  <2>3. ram' \in RAMs /\ Len(ram') = Len(ram) + 1
    BY <2>1, <2>2, RAMGrows
  <2>. QED BY <1>1, <2>3 DEF Copy
<1>3. expectedID' \in 0 .. NPackets /\ checksum' = 0 /\ ~Verified'
  BY <1>1 DEF Copy, Verified
<1>4. armed = FALSE /\ eeprom = "old" /\ tmode # "run"
  BY <1>1 DEF IInv, LaunchVerified, TypeOK, LoaderTypeOK
<1>5. LoaderTypeOK'
  BY <1>2, <1>3 DEF Copy, IInv, TypeOK, LoaderTypeOK
<1>6. Registers' /\ LaunchVerified'
  BY <1>2, <1>3, <1>4 DEF Copy, Registers, LaunchVerified
<1>7. Acknowledge(expectedID', p)
  BY DEF Copy, Acknowledge
<1>. QED BY <1>1, <1>3, <1>4, <1>5, <1>6, <1>7, HandledGood, HandledStep
         DEF Handling, Copy

\* Summing RAM ties ExpectedID to the sum: only verified RAM can answer -CheckSum.
LEMMA RAMFinalizeVerifyStep ==
  ASSUME IInv, NEW p, Handling(p), RAMFinalizeVerify(p)
  PROVE  IInv'
<1>1. expectedID = 0 /\ checksum = 0 /\ ~Verified
  <2>1. p.id = 0
    BY HandledGood DEF RAMFinalizeVerify, Executes, GoodPackets
  <2>. QED BY <2>1 DEF RAMFinalizeVerify, Executes, IInv, Registers, Verified
<1>2. Sum(ram) \in Nat /\ Sum(ram) > 0 /\ ram' = ram
  BY DEF RAMFinalizeVerify, IInv, TypeOK, LoaderTypeOK
<1>3. checksum' = Sum(ram) /\ expectedID' = -Sum(ram)
  BY <1>1, <1>2 DEF RAMFinalizeVerify
<1>4. armed = FALSE /\ eeprom = "old" /\ tmode # "run"
  BY <1>1 DEF IInv, LaunchVerified, TypeOK, LoaderTypeOK
<1>5. LoaderTypeOK'
  BY <1>2, <1>3 DEF RAMFinalizeVerify, IInv, TypeOK, LoaderTypeOK
<1>6. Verified' <=> Sum(ram) = CheckSum
  BY <1>2, <1>3 DEF Verified
<1>7. Registers'
  <2>1. checksum' # 0 /\ expectedID' < 0
    BY <1>2, <1>3
  <2>2. checksum' = Sum(ram') /\ expectedID' = -checksum'
    BY <1>2, <1>3
  <2>3. Verified' => /\ expectedID' = -CheckSum /\ checksum' = CheckSum
                     /\ -CheckSum # -2 * CheckSum /\ -CheckSum # ReadyID - 1
    BY <1>3, <1>6 DEF ReadyID
  <2>4. eeprom' = "old" /\ armed' = FALSE
    BY <1>4 DEF RAMFinalizeVerify
  <2>. QED BY <2>1, <2>2, <2>3, <2>4 DEF Registers
<1>8. LaunchVerified'
  BY <1>4 DEF RAMFinalizeVerify, LaunchVerified
<1>9. Acknowledge(expectedID', p)
  BY DEF RAMFinalizeVerify
<1>. QED BY <1>1, <1>4, <1>5, <1>7, <1>8, <1>9, HandledGood, HandledStep
         DEF Handling

\* Before the EEPROM is programmed, RAM is verified and nothing else has happened.
LEMMA BeforeProgramming ==
  ASSUME IInv, NEW p, Handling(p), Executes(p, "programVerifyEEPROM")
  PROVE  /\ Verified /\ Program /\ checksum = CheckSum /\ eeprom = "old"
         /\ armed = FALSE /\ expectedID = -CheckSum
<1>1. p.id = -CheckSum /\ Verified /\ Program
  BY HandledGood DEF Executes, GoodPackets
<1>2. expectedID = -CheckSum /\ checksum = CheckSum /\ eeprom = "old"
  BY <1>1 DEF Executes, IInv, Registers
<1>3. armed = FALSE
  BY <1>2 DEF IInv, Registers, ReadyID, TypeOK, LoaderTypeOK
<1>. QED BY <1>1, <1>2, <1>3

\* A programmed EEPROM is a copy of verified RAM, and its answer is -2 * CheckSum.
LEMMA EEPROMProgramVerifyStep ==
  ASSUME IInv, NEW p, Handling(p), EEPROMProgramVerify(p)
  PROVE  IInv'
<1>1. /\ Verified /\ Program /\ checksum = CheckSum /\ eeprom = "old" /\ armed = FALSE
  BY BeforeProgramming DEF EEPROMProgramVerify
<1>2. checksum' = 2 * CheckSum /\ expectedID' = -2 * CheckSum /\ eeprom' = "programmed"
      /\ ram' = ram /\ armed' = FALSE
  BY <1>1 DEF EEPROMProgramVerify
<1>3. Verified'
  BY <1>1, <1>2 DEF Verified
<1>4. LoaderTypeOK'
  BY <1>2 DEF EEPROMProgramVerify, IInv, TypeOK, LoaderTypeOK
<1>5. Registers'
  <2>1. checksum' # 0 /\ expectedID' < 0
    BY <1>2
  <2>2. expectedID' # -CheckSum
    BY <1>2
  <2>3. expectedID' # ReadyID - 1
    BY <1>1, <1>2 DEF ReadyID
  <2>. QED BY <1>2, <1>3, <2>1, <2>2, <2>3 DEF Registers
<1>6. LaunchVerified'
  BY <1>3 DEF LaunchVerified
<1>7. Acknowledge(expectedID', p)
  BY DEF EEPROMProgramVerify
<1>. QED BY <1>1, <1>2, <1>3, <1>4, <1>5, <1>6, <1>7, HandledGood, HandledStep
         DEF Handling

\* A failed EEPROM answers a number the host does not take for success.
LEMMA EEPROMFailsStep ==
  ASSUME IInv, NEW p, Handling(p), EEPROMFails(p)
  PROVE  IInv'
<1>1. /\ Verified /\ Program /\ checksum = CheckSum /\ eeprom = "old" /\ armed = FALSE
  BY BeforeProgramming DEF EEPROMFails
<1>2. checksum' \in {4 * CheckSum, 8 * CheckSum} /\ expectedID' = -checksum'
  BY <1>1 DEF EEPROMFails
<1>3. ram' = ram /\ armed' = FALSE /\ eeprom' \in {"old", "torn"}
  BY <1>1 DEF EEPROMFails
<1>4. Verified'
  BY <1>1, <1>2, <1>3 DEF Verified
<1>5. LoaderTypeOK'
  BY <1>2, <1>3 DEF EEPROMFails, IInv, TypeOK, LoaderTypeOK
<1>6. Registers'
  <2>0. expectedID' = -(4 * CheckSum) \/ expectedID' = -(8 * CheckSum)
    BY <1>2
  <2>1. checksum' # 0 /\ expectedID' < 0
    BY <1>4, <2>0 DEF Verified
  <2>2. expectedID' # -CheckSum /\ expectedID' # -2 * CheckSum
    BY <2>0
  <2>3. expectedID' # ReadyID - 1
    BY <1>1, <2>0 DEF ReadyID
  <2>. QED BY <1>3, <1>4, <2>1, <2>2, <2>3 DEF Registers
<1>7. LaunchVerified'
  BY <1>4 DEF LaunchVerified
<1>8. Acknowledge(expectedID', p)
  BY DEF EEPROMFails
<1>. QED BY <1>1, <1>2, <1>4, <1>5, <1>6, <1>7, <1>8, HandledGood, HandledStep
         DEF Handling

\* The launch is armed from verified RAM only.
LEMMA ReadyToLaunchStep ==
  ASSUME IInv, NEW p, Handling(p), ReadyToLaunch(p)
  PROVE  IInv'
<1>1. p.id = ReadyID /\ Verified /\ expectedID = ReadyID
  BY HandledGood DEF ReadyToLaunch, Executes, GoodPackets
<1>2. armed' = TRUE /\ expectedID' = ReadyID - 1 /\ checksum' = checksum /\ ram' = ram
      /\ eeprom' = eeprom
  BY <1>1 DEF ReadyToLaunch
<1>3. Verified'
  BY <1>1, <1>2 DEF Verified
<1>4. LoaderTypeOK'
  BY <1>2 DEF ReadyToLaunch, IInv, TypeOK, LoaderTypeOK, ReadyID
<1>5. Registers'
  <2>1. checksum' # 0 /\ expectedID' < 0
    BY <1>1, <1>2 DEF Verified, ReadyID
  <2>2. expectedID' # -CheckSum /\ ~(Program /\ expectedID' = -2 * CheckSum)
    BY <1>2 DEF ReadyID
  <2>. QED BY <1>2, <1>3, <2>1, <2>2 DEF Registers, ReadyID
<1>6. LaunchVerified'
  BY <1>3 DEF LaunchVerified
<1>7. Acknowledge(expectedID', p)
  BY DEF ReadyToLaunch, Acknowledge
<1>. QED BY <1>1, <1>2, <1>3, <1>4, <1>5, <1>6, <1>7, HandledGood, HandledStep
         DEF Handling

\* launchNow only comes once the launch is armed.
LEMMA LaunchNowStep ==
  ASSUME IInv, NEW p, Handling(p), LaunchNow(p)
  PROVE  IInv'
<1>. QED BY HandledGood, LaunchMode, LeaveStep DEF Handling, LaunchNow

\* Executing garbage leaves the registers of the model alone.
LEMMA ExecuteGarbageStep ==
  ASSUME IInv, NEW p, Handling(p), ExecuteGarbage(p)
  PROVE  IInv'
<1>. QED BY HandledGood, LeaveStep DEF Handling, ExecuteGarbage

\* Whatever becomes of a packet that arrives, the invariant is kept.
LEMMA DeliverStep == IInv /\ Deliver => IInv'
<1>. SUFFICES ASSUME IInv, Deliver PROVE IInv'
  OBVIOUS
<1>. DEFINE p == Head(toTarget)
<1>1. EEPROMFails(p) => Fault
  BY DEF EEPROMFails
<1>2. EEPROMProgramVerify(p) => UNCHANGED faults
  BY DEF EEPROMProgramVerify
<1>3. Handling(p)
  BY <1>1, <1>2 DEF Deliver, Handling
<1>. HIDE DEF p
<1>4. \/ EEPROMFails(p) \/ EEPROMProgramVerify(p) \/ Refuse(p) \/ Copy(p)
      \/ RAMFinalizeVerify(p) \/ ReadyToLaunch(p) \/ LaunchNow(p) \/ ExecuteGarbage(p)
  BY DEF Deliver, p
<1>. QED BY <1>3, <1>4, EEPROMFailsStep, EEPROMProgramVerifyStep, RefuseStep, CopyStep,
         RAMFinalizeVerifyStep, ReadyToLaunchStep, LaunchNowStep, ExecuteGarbageStep

\* A failsafe launch needs an armed launch.
LEMMA TimedOutStep ==
  ASSUME IInv, TimedOut, Fault \/ UNCHANGED faults
  PROVE  IInv'
<1>1. tmode' \in {"rx", "reset", "run", "wild"} /\ (tmode' = "run" => armed \/ tmode = "run")
  BY LaunchMode DEF TimedOut
<1>2. toTarget' \in Seq(GoodPackets)
  BY DEF TimedOut, IInv
<1>. QED BY <1>1, <1>2, LeaveStep DEF TimedOut

\* Two packets received as one are damaged, or the first alone is executed.
LEMMA RunTogetherStep == IInv /\ RunTogether => IInv'
<1>. SUFFICES ASSUME IInv, RunTogether PROVE IInv'
  OBVIOUS
<1>. DEFINE p == Head(toTarget)
            rest == SubSeq(toTarget, 3, Len(toTarget))
<1>1. toTarget \in Seq(GoodPackets) /\ toTarget # <<>> /\ Len(toTarget) \in Nat
  BY DEF IInv, RunTogether
<1>2. p \in GoodPackets /\ rest \in Seq(GoodPackets)
  BY <1>1, QueueType, SubSeqType
<1>3. Damaged(p, p.id, p.tag) \in GoodPackets
  <2>1. p \in Packets /\ p.id \in Int /\ p.tag \in Nat
    BY <1>2, GoodTypes DEF Packets
  <2>. QED BY <2>1, DamagedGood
<1>4. ASSUME NEW q \in GoodPackets PROVE <<q>> \o rest \in Seq(GoodPackets)
  <2>1. <<q>> \in Seq(GoodPackets)
    OBVIOUS
  <2>. QED BY <1>2, <2>1, ConcatProperties
<1>5. <<>> \in Seq(GoodPackets)
  OBVIOUS
<1>6. toTarget' \in Seq(GoodPackets)
  <2>. HIDE DEF p, rest
  <2>1. \/ toTarget' = <<IF p.kind = "data" THEN Damaged(p, p.id, p.tag) ELSE p>> \o rest
        \/ toTarget' = <<p>> \o rest
        \/ toTarget' = <<>>
    BY DEF RunTogether, p, rest
  <2>2. CASE toTarget' = <<IF p.kind = "data" THEN Damaged(p, p.id, p.tag) ELSE p>> \o rest
    BY <1>2, <1>3, <1>4, <2>2
  <2>. QED BY <1>2, <1>4, <1>5, <2>1, <2>2
<1>7. tmode' \in {"rx", "reset", "run", "wild"} /\ (tmode' = "run" => armed \/ tmode = "run")
  BY DEF RunTogether
<1>. QED BY <1>6, <1>7, LeaveStep DEF RunTogether

-----------------------------------------------------------------------------
(* Every step, and the theorems.                                           *)

\* Every step keeps the invariant.
LEMMA NextIInv == IInv /\ [Next]_vars => IInv'
<1>. SUFFICES ASSUME IInv, [Next]_vars PROVE IInv'
  OBVIOUS
<1>1. CASE Host
  BY <1>1, SendStep, GiveUpStep, ReceiveStep, ShortReadStep, TimeoutStep DEF Host
<1>2. CASE Loader
  BY <1>2, DeliverStep, TimedOutStep DEF Loader, Failsafe
<1>3. CASE Faulty
  BY <1>3, SendFailsStep, LateReplyStep, TimedOutStep, LosePacketStep, LoseReplyStep,
     DamageStep, SplitStep, RunTogetherStep DEF Faulty, HostStalls
<1>4. CASE UNCHANGED vars
  <2>1. UNCHANGED <<hostVars, loaderVars>> /\ UNCHANGED faults /\ acked' \in BOOLEAN
        /\ toHost' \in Seq(GoodLongs) /\ toTarget' \in Seq(GoodPackets)
    BY <1>4 DEF vars, linkVars, IInv, TypeOK, LinkTypeOK
  <2>. QED BY <2>1, LinkStep
<1>. QED BY <1>1, <1>2, <1>3, <1>4 DEF Next

\* The inductive invariant holds throughout every behaviour of an attempt.
THEOREM Invariance == SafeSpec => []IInv
BY InitIInv, NextIInv, PTL DEF SafeSpec

\* Every variable keeps its type: fastLoadImageHelper, transmitPacket and the
\* micro-loader stay in the states they are meant to be in.
THEOREM TypeCorrect == SafeSpec => []TypeOK
<1>1. IInv => TypeOK
  BY DEF IInv
<1>. QED BY <1>1, Invariance, PTL

\* The micro-loader launches, arms the launch and programs the EEPROM only from
\* RAM whose sum is the host's checksum.
THEOREM OnlyVerifiedIsUsed == SafeSpec => []LaunchVerified
<1>1. IInv => LaunchVerified
  BY DEF IInv
<1>. QED BY <1>1, Invariance, PTL

\* A success that fastLoadImageHelper returns means a committed launch of
\* verified RAM, and a programmed EEPROM if one was asked for.
THEOREM SuccessIsTrue == SafeSpec => []SuccessIsReal
<1>1. IInv => SuccessIsReal
  BY DEF IInv, SuccessIsReal, HostKnows, Program
<1>. QED BY <1>1, Invariance, PTL

\* Handling a packet never undoes or repeats what an executable packet did.
LEMMA FrozenHandling ==
  ASSUME IInv, NEW p, Handling(p),
         \/ EEPROMFails(p) \/ EEPROMProgramVerify(p) \/ Refuse(p) \/ Copy(p)
         \/ RAMFinalizeVerify(p) \/ ReadyToLaunch(p) \/ LaunchNow(p) \/ ExecuteGarbage(p)
  PROVE  FrozenStep
<1>1. CASE EEPROMFails(p) \/ EEPROMProgramVerify(p)
  <2>1. eeprom = "old" /\ armed = FALSE /\ ram' = ram
    BY <1>1, BeforeProgramming DEF EEPROMFails, EEPROMProgramVerify
  <2>. QED BY <2>1 DEF FrozenStep
<1>2. CASE Copy(p)
  <2>1. checksum = 0
    BY <1>2 DEF Copy, IInv, Registers, TypeOK, LoaderTypeOK
  <2>. QED BY <1>2, <2>1 DEF Copy, FrozenStep
<1>3. CASE RAMFinalizeVerify(p)
  <2>1. expectedID = 0
    BY <1>3, HandledGood DEF RAMFinalizeVerify, Executes, GoodPackets
  <2>2. checksum = 0
    BY <2>1 DEF IInv, Registers
  <2>3. eeprom = "old" /\ ~armed
    BY <2>2 DEF IInv, LaunchVerified, Verified
  <2>. QED BY <1>3, <2>3 DEF RAMFinalizeVerify, FrozenStep
<1>4. CASE ReadyToLaunch(p)
  <2>1. armed => armed' = armed
    BY <1>4 DEF ReadyToLaunch, IInv, TypeOK, LoaderTypeOK
  <2>. QED BY <1>4, <2>1 DEF ReadyToLaunch, FrozenStep
<1>5. CASE Refuse(p)
  BY <1>5 DEF Refuse, FrozenStep
<1>6. CASE LaunchNow(p) \/ ExecuteGarbage(p)
  BY <1>6 DEF LaunchNow, ExecuteGarbage, Leave, FrozenStep
<1>. QED BY <1>1, <1>2, <1>3, <1>4, <1>5, <1>6

\* Summed RAM, the programmed EEPROM and the armed launch are not touched again.
LEMMA FrozenNext == IInv /\ [Next]_vars => FrozenStep
<1>. SUFFICES ASSUME IInv, [Next]_vars PROVE FrozenStep
  OBVIOUS
<1>1. CASE Deliver
  <2>. DEFINE p == Head(toTarget)
  <2>1. EEPROMFails(p) => Fault
    BY DEF EEPROMFails
  <2>2. EEPROMProgramVerify(p) => UNCHANGED faults
    BY DEF EEPROMProgramVerify
  <2>3. Handling(p)
    BY <1>1, <2>1, <2>2 DEF Deliver, Handling
  <2>. HIDE DEF p
  <2>4. \/ EEPROMFails(p) \/ EEPROMProgramVerify(p) \/ Refuse(p) \/ Copy(p)
        \/ RAMFinalizeVerify(p) \/ ReadyToLaunch(p) \/ LaunchNow(p) \/ ExecuteGarbage(p)
    BY <1>1 DEF Deliver, p
  <2>. QED BY <2>3, <2>4, FrozenHandling
<1>2. CASE Failsafe \/ HostStalls \/ RunTogether
  BY <1>2 DEF Failsafe, HostStalls, RunTogether, TimedOut, Leave, FrozenStep
<1>3. CASE Host \/ SendFails \/ LateReply \/ LosePacket \/ LoseReply \/ Damage \/ Split
           \/ UNCHANGED vars
  <2>1. UNCHANGED loaderVars
    BY <1>3 DEF Host, Send, GiveUp, Receive, ShortRead, Timeout, SendFails, LateReply,
                LosePacket, LoseReply, Damage, Split, vars
  <2>. QED BY <2>1 DEF loaderVars, FrozenStep
<1>. QED BY <1>1, <1>2, <1>3 DEF Next, Loader, Faulty

\* RAM is frozen once it is summed, and retransmitted programVerifyEEPROM and
\* readyToLaunch packets have no second effect.
THEOREM NothingRunsTwice == SafeSpec => ExecutedOnce
<1>1. IInv /\ [Next]_vars => [FrozenStep]_vars
  BY FrozenNext
<1>. QED BY <1>1, Invariance, PTL DEF SafeSpec, ExecutedOnce

-----------------------------------------------------------------------------
(* An attempt implements LoadAttempt.                                      *)

\* The host does not go back to sending chunks, and while it sends them it
\* neither sends code nor hears of a sum.
LEMMA EarlyHost ==
  ASSUME IInv, Early, Host \/ SendFails \/ LateReply
  PROVE  Early'
<1>. SUFFICES ASSUME phase' \in {"packets", "stepDown"}
              PROVE  checksum' = 0 /\ toTarget' \in Seq(NoCode)
  BY DEF Early
<1>1. checksum' = checksum
  BY DEF Host, Send, GiveUp, Receive, ShortRead, Timeout, SendFails, LateReply, loaderVars
<1>2. phase \in {"packets", "stepDown"}
  <2>1. CASE Receive
    BY <2>1 DEF Receive, Judge, Advance, Abort
  <2>2. CASE GiveUp \/ SendFails
    BY <2>2 DEF GiveUp, SendFails, Failure
  <2>3. CASE Send \/ ShortRead \/ Timeout \/ LateReply
    BY <2>3 DEF Send, ShortRead, Timeout, LateReply
  <2>. QED BY <2>1, <2>2, <2>3 DEF Host
<1>3. toTarget \in Seq(NoCode) /\ checksum = 0
  BY <1>2 DEF Early
<1>4. CASE Send
  <2>. DEFINE q == [id |-> packetID, tag |-> tag + 1, kind |-> "data",
                    chunk |-> NPackets - packetID + 1]
  <2>1. phase = "packets"
    BY <1>2, <1>4, KindFacts DEF Send
  <2>2. q \in NoCode
    BY <2>1, KindFacts DEF IInv, TypeOK, HostTypeOK, HostKnows, NoCode, Packets
  <2>3. toTarget' = toTarget \/ toTarget' = Append(toTarget, q)
    BY <1>4, <2>1, KindFacts DEF Send
  <2>4. Append(toTarget, q) \in Seq(NoCode)
    BY <1>3, <2>2, AppendProperties
  <2>. QED BY <1>1, <1>3, <2>3, <2>4
<1>5. CASE ~Send
  BY <1>1, <1>3, <1>5 DEF Host, GiveUp, Receive, ShortRead, Timeout, SendFails, LateReply, linkVars
<1>. QED BY <1>4, <1>5

\* Nothing on the line is executed but garbage.
LEMMA EarlyLoader ==
  ASSUME IInv, Early, Deliver \/ Failsafe \/ HostStalls
  PROVE  Early'
<1>. SUFFICES ASSUME phase' \in {"packets", "stepDown"}
              PROVE  checksum' = 0 /\ toTarget' \in Seq(NoCode)
  BY DEF Early
<1>1. phase' = phase
  BY DEF Deliver, Failsafe, HostStalls, TimedOut, hostVars
<1>2. toTarget \in Seq(NoCode) /\ checksum = 0
  BY <1>1 DEF Early
<1>3. CASE Deliver
  <2>. DEFINE p == Head(toTarget)
  <2>1. p \in NoCode /\ Tail(toTarget) \in Seq(NoCode)
    BY <1>2, <1>3, QueueType DEF Deliver
  <2>2. toTarget' = Tail(toTarget) \/ toTarget' = <<>>
    BY <1>3 DEF Deliver
  <2>3. p.kind \in {"data", "damaged", "short"}
    BY <2>1 DEF NoCode
  <2>4. Refuse(p) \/ Copy(p) \/ ExecuteGarbage(p)
    BY <1>3, <2>3 DEF Deliver, EEPROMFails, EEPROMProgramVerify, RAMFinalizeVerify,
                      ReadyToLaunch, LaunchNow, Executes
  <2>5. checksum' = 0
    BY <1>2, <2>4 DEF Refuse, Copy, ExecuteGarbage, Leave
  <2>6. <<>> \in Seq(NoCode)
    BY EmptySeq
  <2>. QED BY <2>1, <2>2, <2>5, <2>6
<1>4. CASE Failsafe \/ HostStalls
  BY <1>2, <1>4 DEF Failsafe, HostStalls, TimedOut, Leave
<1>. QED BY <1>3, <1>4

\* Damage makes no code of what is not code.
LEMMA EarlyLink ==
  ASSUME IInv, Early,
         LosePacket \/ LoseReply \/ Damage \/ Split \/ RunTogether \/ UNCHANGED vars
  PROVE  Early'
<1>. SUFFICES ASSUME phase' \in {"packets", "stepDown"}
              PROVE  checksum' = 0 /\ toTarget' \in Seq(NoCode)
  BY DEF Early
<1>1. phase' = phase /\ checksum' = checksum
  BY DEF LosePacket, LoseReply, Damage, Split, RunTogether, Leave, hostVars, loaderVars, vars
<1>2. toTarget \in Seq(NoCode) /\ checksum = 0
  BY <1>1 DEF Early
<1>3. ASSUME NEW p \in NoCode, NEW id \in Int, NEW t \in Nat PROVE Damaged(p, id, t) \in NoCode
  BY <1>3, KindFacts DEF Damaged, NoCode, Packets
<1>4. CASE toTarget # <<>>
  <2>. DEFINE h == Head(toTarget)
  <2>1. h \in NoCode /\ h.id \in Int /\ h.tag \in Nat /\ Tail(toTarget) \in Seq(NoCode)
    BY <1>2, <1>4, QueueType DEF NoCode, Packets
  <2>2. NoTag \in Nat /\ GarbageIDs \subseteq Int
    BY DEF NoTag
  <2>3. CASE Damage
    <3>1. PICK id \in GarbageIDs \cup {h.id}, t \in {NoTag, h.tag} :
            toTarget' = <<Damaged(h, id, t)>> \o Tail(toTarget)
      BY <2>3 DEF Damage
    <3>2. Damaged(h, id, t) \in NoCode
      BY <1>3, <2>1, <2>2
    <3>. QED BY <1>1, <1>2, <1>4, <3>1, <3>2, QueueType
  <2>4. CASE Split
    <3>1. PICK id \in GarbageIDs :
            toTarget' = <<Damaged(h, h.id, h.tag), Damaged(h, id, NoTag)>> \o Tail(toTarget)
      BY <2>4 DEF Split
    <3>2. Damaged(h, h.id, h.tag) \in NoCode /\ Damaged(h, id, NoTag) \in NoCode
      BY <1>3, <2>1, <2>2
    <3>. QED BY <1>1, <1>2, <1>4, <3>1, <3>2, QueueType
  <2>5. CASE RunTogether
    <3>. DEFINE rest == SubSeq(toTarget, 3, Len(toTarget))
                q == IF h.kind = "data" THEN Damaged(h, h.id, h.tag) ELSE h
    <3>1. rest \in Seq(NoCode) /\ q \in NoCode
      BY <1>2, <1>3, <2>1, SubSeqType
    <3>2. <<q>> \o rest \in Seq(NoCode) /\ <<h>> \o rest \in Seq(NoCode) /\ <<>> \in Seq(NoCode)
      BY <2>1, <3>1, ConcatProperties, EmptySeq
    <3>. QED BY <1>1, <1>2, <2>5, <3>2 DEF RunTogether
  <2>6. CASE LosePacket \/ LoseReply \/ UNCHANGED vars
    BY <1>1, <1>2, <2>1, <2>6 DEF LosePacket, LoseReply, vars, linkVars
  <2>. QED BY <2>3, <2>4, <2>5, <2>6
<1>5. CASE toTarget = <<>>
  <2>1. Len(toTarget) = 0
    BY <1>5
  <2>2. toTarget' = toTarget
    BY <1>5, <2>1 DEF LosePacket, LoseReply, Damage, Split, RunTogether, vars, linkVars
  <2>. QED BY <1>1, <1>2, <2>2
<1>. QED BY <1>4, <1>5

\* What the host may still ask for is what the Propeller has not done yet.
LEMMA EarlyInvariant == SafeSpec => []Early
<1>1. Init => Early
  BY EmptySeq DEF Init, Early
<1>2. IInv /\ Early /\ [Next]_vars => Early'
  BY EarlyHost, EarlyLoader, EarlyLink DEF Next, Loader, Faulty
<1>. QED BY <1>1, <1>2, Invariance, PTL DEF SafeSpec

\* Without a sum, nothing is committed and the EEPROM is untouched.
LEMMA EarlyIsClean ==
  ASSUME IInv, Early, phase \in {"packets", "stepDown"}
  PROVE  ~armed /\ eeprom = "old"
BY DEF IInv, Early, LaunchVerified, Verified

\* The host's steps are returns, or invisible.
LEMMA HostAttempts ==
  ASSUME IInv, Early, Host \/ SendFails \/ LateReply
  PROVE  [Attempt!Next]_(Attempt!attempt)
<1>1. UNCHANGED loaderVars
  BY DEF Host, Send, GiveUp, Receive, ShortRead, Timeout, SendFails, LateReply
<1>2. phase \notin Returned
  BY KindFacts DEF Host, Send, GiveUp, Receive, ShortRead, Timeout, SendFails, LateReply,
                   IInv, Returned
<1>3. CASE phase' = "ok"
  <2>1. phase = "launch"
    BY <1>2, <1>3 DEF Host, Send, GiveUp, Receive, ShortRead, Timeout, SendFails, LateReply,
                      Failure, Judge, Advance, Abort, Returned
  <2>2. armed
    BY <2>1 DEF IInv, HostKnows
  <2>. QED BY <1>1, <1>2, <1>3, <2>2
           DEF Returned, loaderVars, Attempt!Next, Attempt!Return, Attempt!attempt
<1>4. CASE phase' = "stepDown"
  <2>1. phase = "packets"
    BY <1>2, <1>4 DEF Host, Send, GiveUp, Receive, ShortRead, Timeout, SendFails, LateReply,
                      Failure, Judge, Advance, Abort, Returned
  <2>2. ~armed /\ eeprom = "old"
    BY <2>1, EarlyIsClean
  <2>. QED BY <1>1, <1>2, <1>4, <2>2
           DEF Returned, loaderVars, Attempt!Next, Attempt!Return, Attempt!attempt
<1>5. CASE phase' = "fatal"
  BY <1>1, <1>2, <1>5 DEF Returned, loaderVars, Attempt!Next, Attempt!Return, Attempt!attempt
<1>6. CASE phase' \notin Returned
  BY <1>1, <1>2, <1>6 DEF Returned, loaderVars, Attempt!attempt
<1>. QED BY <1>3, <1>4, <1>5, <1>6 DEF Returned

\* Handling a packet programs the EEPROM, commits the launch, leaves, or is invisible.
LEMMA HandlingAttempts ==
  ASSUME IInv, Early, NEW p, Handling(p), UNCHANGED hostVars,
         \/ EEPROMFails(p) \/ EEPROMProgramVerify(p) \/ Refuse(p) \/ Copy(p)
         \/ RAMFinalizeVerify(p) \/ ReadyToLaunch(p) \/ LaunchNow(p) \/ ExecuteGarbage(p)
  PROVE  [Attempt!Next]_(Attempt!attempt)
<1>. USE DEF hostVars, Attempt!Next, Attempt!attempt
<1>1. CASE EEPROMFails(p) \/ EEPROMProgramVerify(p)
  <2>1. eeprom = "old" /\ armed = FALSE /\ ram' = ram
    BY <1>1, BeforeProgramming DEF EEPROMFails, EEPROMProgramVerify
  <2>2. Program /\ p.kind = "programVerifyEEPROM"
    BY <1>1, HandledGood DEF EEPROMFails, EEPROMProgramVerify, Executes, GoodPackets
  <2>3. phase \notin {"ok", "stepDown"}
    <3>1. phase # "ok"
      BY <2>1 DEF IInv, HostKnows
    <3>2. phase # "stepDown"
      BY <2>2, QueueType DEF Handling, Early, NoCode
    <3>. QED BY <3>1, <3>2
  <2>4. Attempt!Running
    BY <2>1, <2>3 DEF Attempt!Running, Handling, Returned
  <2>. QED BY <1>1, <2>1, <2>2, <2>4
           DEF EEPROMFails, EEPROMProgramVerify, Program, Attempt!ProgramEEPROM
<1>2. CASE ReadyToLaunch(p)
  <2>1. p.kind = "readyToLaunch" /\ p.id = ReadyID /\ Verified /\ expectedID = ReadyID
    BY <1>2, HandledGood DEF ReadyToLaunch, Executes, GoodPackets
  <2>2. Program => eeprom = "programmed"
    BY <2>1 DEF IInv, Registers, ReadyID
  <2>3. ~armed
    BY <2>1 DEF IInv, Registers, ReadyID
  <2>4. phase \notin {"ok", "stepDown"}
    <3>1. phase # "ok"
      BY <2>3 DEF IInv, HostKnows
    <3>2. phase # "stepDown"
      BY <2>1, QueueType DEF Handling, Early, NoCode
    <3>. QED BY <3>1, <3>2
  <2>5. Attempt!Running
    BY <2>3, <2>4 DEF Attempt!Running, Handling, Returned
  <2>. QED BY <1>2, <2>2, <2>5 DEF ReadyToLaunch, Program, Attempt!Commit
<1>3. CASE LaunchNow(p) \/ ExecuteGarbage(p)
  <2>1. tmode' \in {"run", "wild", "reset"} /\ (tmode' = "run" => armed)
    BY <1>3 DEF LaunchNow, ExecuteGarbage, Launch
  <2>. QED BY <1>3, <2>1 DEF LaunchNow, ExecuteGarbage, Leave, Handling, Attempt!Leave
<1>4. CASE Refuse(p) \/ Copy(p) \/ RAMFinalizeVerify(p)
  BY <1>4 DEF Refuse, Copy, RAMFinalizeVerify
<1>. QED BY <1>1, <1>2, <1>3, <1>4

\* Every step of an attempt is one of LoadAttempt.
LEMMA AttemptStep ==
  ASSUME IInv, Early, [Next]_vars
  PROVE  [Attempt!Next]_(Attempt!attempt)
<1>1. CASE Deliver
  <2>. DEFINE p == Head(toTarget)
  <2>1. EEPROMFails(p) => Fault
    BY DEF EEPROMFails
  <2>2. EEPROMProgramVerify(p) => UNCHANGED faults
    BY DEF EEPROMProgramVerify
  <2>3. Handling(p)
    BY <1>1, <2>1, <2>2 DEF Deliver, Handling
  <2>. HIDE DEF p
  <2>4. \/ EEPROMFails(p) \/ EEPROMProgramVerify(p) \/ Refuse(p) \/ Copy(p)
        \/ RAMFinalizeVerify(p) \/ ReadyToLaunch(p) \/ LaunchNow(p) \/ ExecuteGarbage(p)
    BY <1>1 DEF Deliver, p
  <2>5. UNCHANGED hostVars
    BY <1>1 DEF Deliver
  <2>. QED BY <2>3, <2>4, <2>5, HandlingAttempts
<1>2. CASE Failsafe \/ HostStalls \/ RunTogether
  <2>1. /\ tmode = "rx" /\ tmode' \in {"rx", "run", "wild", "reset"}
        /\ (tmode' = "run" => armed)
    BY <1>2 DEF Failsafe, HostStalls, RunTogether, TimedOut, Launch
  <2>2. UNCHANGED <<phase, armed, eeprom>>
    BY <1>2 DEF Failsafe, HostStalls, RunTogether, TimedOut, Leave, hostVars
  <2>. QED BY <2>1, <2>2 DEF Attempt!Next, Attempt!Leave, Attempt!attempt
<1>3. CASE LosePacket \/ LoseReply \/ Damage \/ Split \/ UNCHANGED vars
  BY <1>3 DEF LosePacket, LoseReply, Damage, Split, vars, hostVars, loaderVars, Attempt!attempt
<1>4. CASE Host \/ SendFails \/ LateReply
  BY <1>4, HostAttempts
<1>. QED BY <1>1, <1>2, <1>3, <1>4 DEF Next, Loader, Faulty

\* fastLoadImageHelper, micro-loader and line implement LoadAttempt: a success
\* is a committed launch, and -2 leaves nothing behind that a retry would repeat.
THEOREM AttemptIsImplemented == SafeSpec => AttemptSpec
<1>1. Init => Attempt!Init
  BY DEF Init, Attempt!Init, Returned
<1>2. IInv /\ Early /\ [Next]_vars => [Attempt!Next]_(Attempt!attempt)
  BY AttemptStep
<1>. QED BY <1>1, <1>2, Invariance, EarlyInvariant, PTL DEF SafeSpec, AttemptSpec, Attempt!Spec
-----------------------------------------------------------------------------
(* Chunks arrive in order, and the host counts none that was not copied.   *)

\* Steps that leave RAM and ExpectedID alone.
LEMMA OrderedFrame ==
  ASSUME Ordered, UNCHANGED <<ram, expectedID, checksum>>,
         toTarget' \in Seq(InPlace), tag' >= NPackets,
         checksum = 0 => toHost' \in Seq(Behind),
         phase' = "packets" => expectedID <= packetID'
  PROVE  Ordered'
BY DEF Ordered, Behind

\* The host's steps: only a reply that the micro-loader gave, or the echo of a
\* tag that no chunk's ID equals, can move it on.
LEMMA OrderedHost ==
  ASSUME IInv, Early, Ordered, Host \/ SendFails \/ LateReply
  PROVE  Ordered'
<1>1. /\ UNCHANGED <<ram, expectedID, checksum>>
      /\ toTarget \in Seq(InPlace) /\ tag \in Nat /\ tag >= NPackets
      /\ checksum = 0 => toHost \in Seq(Behind)
      /\ phase = "packets" => expectedID <= packetID /\ packetID \in 1 .. NPackets /\ checksum = 0
      /\ toHost \in Seq(Int)
  BY DEF Host, Send, GiveUp, Receive, ShortRead, Timeout, SendFails, LateReply, loaderVars,
         Ordered, IInv, TypeOK, HostTypeOK, LinkTypeOK, HostKnows, Early
<1>2. CASE Send
  <2>. DEFINE c == IF phase = "packets" THEN NPackets - packetID + 1 ELSE 0
              p == [id |-> packetID, tag |-> tag + 1, kind |-> Kind[phase], chunk |-> c]
  <2>1. p \in InPlace
    <3>1. p \in Packets
      BY <1>2, SentGood, GoodTypes DEF Send
    <3>2. p.chunk \in {0, NPackets - p.id + 1}
      OBVIOUS
    <3>3. p.tag >= NPackets
      BY <1>1
    <3>. HIDE DEF p
    <3>. QED BY <3>1, <3>2, <3>3 DEF InPlace
  <2>2. toTarget' = toTarget \/ toTarget' = Append(toTarget, p)
    BY <1>2 DEF Send
  <2>3. toTarget' \in Seq(InPlace)
    BY <1>1, <2>1, <2>2, AppendProperties
  <2>4. tag' >= NPackets /\ toHost' = toHost /\ packetID' = packetID
        /\ (phase' = "packets" => phase = "packets")
    BY <1>1, <1>2 DEF Send
  <2>. QED BY <1>1, <2>3, <2>4, OrderedFrame
<1>3. CASE GiveUp \/ SendFails \/ LateReply
  <2>1. tag' \in {tag, tag + 1} /\ UNCHANGED <<toTarget, toHost, packetID>>
        /\ (phase' = "packets" => phase = "packets")
    BY <1>3 DEF GiveUp, SendFails, LateReply, linkVars, Failure
  <2>. QED BY <1>1, <2>1, OrderedFrame
<1>4. CASE ShortRead \/ Timeout
  <2>1. UNCHANGED <<tag, toTarget, packetID, phase>>
    BY <1>4 DEF ShortRead, Timeout
  <2>2. checksum = 0 => toHost' \in Seq(Behind)
    <3>1. CASE ShortRead
      <4>1. toHost # <<>> /\ toHost' = Tail(toHost)
        BY <1>1, <3>1 DEF ShortRead
      <4>. QED BY <1>1, <4>1, QueueType
    <3>2. CASE Timeout
      BY <3>2, EmptySeq DEF Timeout
    <3>. QED BY <1>4, <3>1, <3>2
  <2>. QED BY <1>1, <2>1, <2>2, OrderedFrame
<1>5. CASE Receive
  <2>1. UNCHANGED <<tag, toTarget>> /\ Len(toHost) >= 2 /\ Len(toHost) \in Nat
    BY <1>1, <1>5 DEF Receive
  <2>2. checksum = 0 => toHost' \in Seq(Behind)
    BY <1>1, <1>5, <2>1, SubSeqType DEF Receive
  <2>3. phase' = "packets" => expectedID <= packetID'
    <3>. SUFFICES ASSUME phase' = "packets" PROVE expectedID <= packetID'
      OBVIOUS
    <3>1. phase = "packets"
      BY <1>5 DEF Receive, Judge, Advance, Abort
    <3>2. CASE UNCHANGED packetID
      BY <1>1, <3>1, <3>2
    <3>3. CASE packetID' # packetID
      <4>1. toHost[1] = packetID - 1 /\ packetID' = packetID - 1 /\ packetID # 1
        BY <1>5, <3>1, <3>3 DEF Receive, Judge, Advance, Abort
      <4>2. toHost[1] \in Behind
        BY <1>1, <2>1, <3>1
      <4>. QED BY <1>1, <3>1, <4>1, <4>2 DEF Behind, NoTag
    <3>. QED BY <3>2, <3>3
  <2>. QED BY <1>1, <2>1, <2>2, <2>3, OrderedFrame
<1>. QED BY <1>2, <1>3, <1>4, <1>5 DEF Host

\* What damage makes of a packet holds no chunk.
LEMMA DamagedInPlace ==
  ASSUME NEW p \in InPlace, NEW id \in Int, NEW t \in {NoTag, p.tag}
  PROVE  Damaged(p, id, t) \in InPlace
<1>1. p \in Packets /\ p.tag \in Nat /\ NoTag = 0 /\ (p.tag = NoTag \/ p.tag >= NPackets)
  BY DEF InPlace, Packets, NoTag
<1>2. Damaged(p, id, t) \in Packets
  BY <1>1, DamagedGood, GoodTypes
<1>3. Damaged(p, id, t).chunk = 0 /\ Damaged(p, id, t).tag = t
  BY DEF Damaged
<1>. QED BY <1>1, <1>2, <1>3 DEF InPlace

\* The link loses, damages and splits, but brings nothing forward.
LEMMA OrderedLink ==
  ASSUME IInv, Ordered,
         LosePacket \/ LoseReply \/ Damage \/ Split \/ RunTogether \/ Failsafe \/ HostStalls
         \/ UNCHANGED vars
  PROVE  Ordered'
<1>1. /\ UNCHANGED <<ram, expectedID, checksum, tag, phase, packetID>>
      /\ toTarget \in Seq(InPlace) /\ tag >= NPackets
      /\ checksum = 0 => toHost \in Seq(Behind)
      /\ phase = "packets" => expectedID <= packetID
  BY DEF LosePacket, LoseReply, Damage, Split, RunTogether, Failsafe, HostStalls, TimedOut,
         Leave, hostVars, loaderVars, vars, Ordered
<1>. DEFINE h == Head(toTarget)
<1>2. ASSUME toTarget # <<>>
      PROVE  /\ h \in InPlace /\ h.id \in Int /\ h.tag \in Nat /\ Tail(toTarget) \in Seq(InPlace)
             /\ \A a \in InPlace : <<a>> \o Tail(toTarget) \in Seq(InPlace)
             /\ \A a, b \in InPlace : <<a, b>> \o Tail(toTarget) \in Seq(InPlace)
  <2>1. h \in InPlace /\ Tail(toTarget) \in Seq(InPlace)
    BY <1>1, <1>2, QueueType
  <2>2. h.id \in Int /\ h.tag \in Nat
    BY <2>1 DEF InPlace, Packets
  <2>. QED BY <1>1, <1>2, <2>1, <2>2, QueueType
<1>3. toTarget' \in Seq(InPlace)
  <2>1. CASE Damage
    <3>1. PICK id \in GarbageIDs \cup {h.id}, t \in {NoTag, h.tag} :
            toTarget' = <<Damaged(h, id, t)>> \o Tail(toTarget)
      BY <2>1 DEF Damage
    <3>2. toTarget # <<>> /\ id \in Int
      BY <1>2, <2>1 DEF Damage
    <3>3. Damaged(h, id, t) \in InPlace
      BY <1>2, <3>2, DamagedInPlace
    <3>. QED BY <1>2, <3>1, <3>2, <3>3
  <2>2. CASE Split
    <3>1. PICK id \in GarbageIDs :
            toTarget' = <<Damaged(h, h.id, h.tag), Damaged(h, id, NoTag)>> \o Tail(toTarget)
      BY <2>2 DEF Split
    <3>2. toTarget # <<>> /\ id \in Int
      BY <2>2 DEF Split
    <3>3. Damaged(h, h.id, h.tag) \in InPlace /\ Damaged(h, id, NoTag) \in InPlace
      BY <1>2, <3>2, DamagedInPlace
    <3>. QED BY <1>2, <3>1, <3>2, <3>3
  <2>3. CASE RunTogether
    <3>. DEFINE rest == SubSeq(toTarget, 3, Len(toTarget))
                q == IF h.kind = "data" THEN Damaged(h, h.id, h.tag) ELSE h
    <3>1. toTarget # <<>> /\ Len(toTarget) \in Nat
      BY <1>1, <2>3 DEF RunTogether
    <3>2. rest \in Seq(InPlace)
      BY <1>1, <3>1, SubSeqType
    <3>3. Damaged(h, h.id, h.tag) \in InPlace /\ h \in InPlace
      BY <1>2, <3>1, DamagedInPlace
    <3>4. q \in InPlace
      BY <3>3
    <3>. HIDE DEF q
    <3>5. <<q>> \o rest \in Seq(InPlace) /\ <<h>> \o rest \in Seq(InPlace) /\ <<>> \in Seq(InPlace)
      BY <3>2, <3>3, <3>4, ConcatProperties, EmptySeq
    <3>. QED BY <2>3, <3>5 DEF RunTogether, q
  <2>4. CASE LosePacket
    BY <1>2, <2>4 DEF LosePacket
  <2>5. CASE LoseReply \/ Failsafe \/ HostStalls \/ UNCHANGED vars
    BY <1>1, <2>5 DEF LoseReply, Failsafe, HostStalls, TimedOut, vars, linkVars
  <2>. QED BY <2>1, <2>2, <2>3, <2>4, <2>5
<1>4. checksum = 0 => toHost' \in Seq(Behind)
  <2>1. CASE LoseReply
    <3>. DEFINE n == Len(toHost)
    <3>. SUFFICES ASSUME checksum = 0 PROVE toHost' \in Seq(Behind)
      OBVIOUS
    <3>1. toHost \in Seq(Behind) /\ n \in Nat /\ n >= 2 /\ NoTag \in Behind
      BY <1>1, <2>1 DEF LoseReply, NoTag, Behind
    <3>2. toHost[n] \in Behind
      BY <3>1
    <3>3. SubSeq(toHost, 1, n - 2) \in Seq(Behind) /\ SubSeq(toHost, 1, n - 1) \in Seq(Behind)
      BY <3>1, SubSeqType
    <3>4. Append(SubSeq(toHost, 1, n - 2), toHost[n]) \in Seq(Behind)
      BY <3>2, <3>3, AppendProperties
    <3>5. [toHost EXCEPT ![n] = NoTag] \in Seq(Behind)
      BY <3>1
    <3>. QED BY <2>1, <3>3, <3>4, <3>5 DEF LoseReply
  <2>2. CASE ~LoseReply
    <3>1. toHost' = toHost
      BY <2>2 DEF LosePacket, Damage, Split, RunTogether, Failsafe, HostStalls, TimedOut, Leave,
                  vars, linkVars
    <3>. QED BY <1>1, <3>1
  <2>. QED BY <2>1, <2>2
<1>. QED BY <1>1, <1>3, <1>4, OrderedFrame

\* A chunk that is copied is the one that comes next.
LEMMA OrderedDeliver ==
  ASSUME IInv, IInv', Ordered, Deliver
  PROVE  Ordered'
<1>. DEFINE p == Head(toTarget)
<1>1. /\ UNCHANGED <<tag, phase, packetID>> /\ toTarget # <<>> /\ tag >= NPackets
      /\ p \in InPlace /\ Tail(toTarget) \in Seq(InPlace) /\ <<>> \in Seq(InPlace)
      /\ checksum = 0 => toHost \in Seq(Behind)
  BY QueueType, EmptySeq DEF Deliver, hostVars, Ordered
<1>2. Handling(p)
  <2>1. EEPROMFails(p) => Fault
    BY DEF EEPROMFails
  <2>2. EEPROMProgramVerify(p) => UNCHANGED faults
    BY DEF EEPROMProgramVerify
  <2>. QED BY <2>1, <2>2 DEF Deliver, Handling
<1>3. toTarget' \in Seq(InPlace)
  BY <1>1 DEF Deliver
<1>4. /\ expectedID \in Int /\ checksum \in Nat /\ ram \in RAMs /\ p.chunk \in 0 .. NPackets
      /\ checksum = 0 => expectedID \in 0 .. NPackets /\ Len(ram) = NPackets - expectedID
      /\ checksum' # 0 => expectedID' < 0
      /\ phase = "packets" => packetID \in 1 .. NPackets /\ expectedID <= packetID
      /\ expectedID' \in Int
  BY <1>1 DEF IInv, TypeOK, LoaderTypeOK, Registers, HostKnows, InPlace, Packets, Ordered
<1>. HIDE DEF p
<1>5. ASSUME ram' = ram, checksum' # 0
      PROVE  Ordered'
  BY <1>1, <1>3, <1>4, <1>5 DEF Ordered
<1>6. CASE EEPROMFails(p) \/ EEPROMProgramVerify(p)
  <2>1. checksum = CheckSum /\ ram' = ram
    BY <1>2, <1>6, BeforeProgramming DEF EEPROMFails, EEPROMProgramVerify
  <2>2. checksum' # 0
    BY <1>6, <2>1 DEF EEPROMFails, EEPROMProgramVerify
  <2>. QED BY <1>5, <2>1, <2>2
<1>7. CASE RAMFinalizeVerify(p)
  <2>1. ram' = ram /\ checksum' = checksum + Sum(ram) /\ Sum(ram) \in Nat \ {0}
    BY <1>4, <1>7 DEF RAMFinalizeVerify
  <2>. QED BY <1>4, <1>5, <2>1
<1>8. CASE ReadyToLaunch(p)
  <2>1. ram' = ram /\ checksum' = checksum /\ checksum # 0
    BY <1>2, <1>8, HandledGood DEF ReadyToLaunch, Executes, GoodPackets, Verified
  <2>. QED BY <1>5, <2>1
<1>9. CASE LaunchNow(p) \/ ExecuteGarbage(p)
  <2>1. UNCHANGED <<ram, expectedID, checksum, toHost>>
    BY <1>9 DEF LaunchNow, ExecuteGarbage, Leave
  <2>. QED BY <1>1, <1>3, <1>4, <2>1, OrderedFrame
<1>10. ASSUME checksum' = checksum, expectedID' <= expectedID, Acknowledge(expectedID', p)
       PROVE  checksum' = 0 => toHost' \in Seq(Behind')
  <2>. SUFFICES ASSUME checksum = 0 PROVE toHost' \in Seq(Behind')
    BY <1>10
  <2>1. Behind \subseteq Behind'
    BY <1>4, <1>10 DEF Behind
  <2>2. toHost \in Seq(Behind')
    BY <1>1, <2>1, SeqMonotone
  <2>3. expectedID' \in Behind'
    BY <1>4 DEF Behind
  <2>4. p.tag \in Behind'
    <3>1. p.tag \in Int /\ (p.tag = NoTag \/ p.tag >= NPackets)
      BY <1>1 DEF InPlace, Packets
    <3>2. expectedID' <= NPackets
      BY <1>4, <1>10
    <3>. QED BY <1>4, <3>1, <3>2 DEF Behind
  <2>. QED BY <1>10, <2>2, <2>3, <2>4, ReplyType DEF Acknowledge
<1>11. CASE Refuse(p)
  <2>1. UNCHANGED <<ram, expectedID, checksum>> /\ Acknowledge(expectedID', p)
    BY <1>11 DEF Refuse, Acknowledge
  <2>2. Behind' = Behind
    BY <2>1 DEF Behind
  <2>. QED BY <1>1, <1>3, <1>4, <1>10, <2>1, <2>2, OrderedFrame
<1>12. CASE Copy(p)
  <2>1. /\ p.id = expectedID /\ expectedID >= 1 /\ ram' = Append(ram, p.chunk)
        /\ expectedID' = expectedID - 1 /\ checksum' = checksum /\ Acknowledge(expectedID', p)
    BY <1>12 DEF Copy, Acknowledge
  <2>2. checksum = 0
    BY <1>4, <2>1 DEF IInv, Registers
  <2>3. p.chunk \in {0, Len(ram) + 1}
    BY <1>1, <1>4, <2>1, <2>2 DEF InPlace
  <2>4. \A i \in 1 .. Len(ram') : ram'[i] \in {0, i}
    <3>1. ram \in Seq(0 .. NPackets)
      BY <1>4 DEF RAMs
    <3>2. \A i \in 1 .. Len(ram) : ram[i] \in {0, i}
      BY DEF Ordered
    <3>. QED BY <1>4, <2>1, <2>3, <3>1, <3>2
  <2>5. checksum' = 0 => toHost' \in Seq(Behind')
    BY <1>4, <1>10, <2>1
  <2>6. phase' = "packets" => expectedID' <= packetID'
    BY <1>1, <1>4, <2>1
  <2>. QED BY <1>1, <1>3, <2>4, <2>5, <2>6 DEF Ordered
<1>. QED BY <1>6, <1>7, <1>8, <1>9, <1>11, <1>12 DEF Deliver, p

LEMMA OrderedInvariant == SafeSpec => []Ordered
<1>1. Init => Ordered
  <2>1. ASSUME Init PROVE Ordered
    <3>1. ram = <<>> /\ toTarget = <<>> /\ toHost = <<>> /\ tag = NPackets
          /\ expectedID = NPackets /\ packetID = NPackets
      BY <2>1 DEF Init, FirstTag
    <3>2. Len(ram) = 0
      BY <3>1
    <3>. QED BY <3>1, <3>2, EmptySeq DEF Ordered
  <2>. QED BY <2>1
<1>2. IInv /\ IInv' /\ Early /\ Ordered /\ [Next]_vars => Ordered'
  BY OrderedHost, OrderedLink, OrderedDeliver DEF Next, Loader, Faulty
<1>. QED BY <1>1, <1>2, Invariance, EarlyInvariant, PTL DEF SafeSpec

\* Main RAM holds the chunks in the order of the image whatever was lost,
\* repeated or damaged, and a chunk the host takes for delivered was copied.
THEOREM ChunksArriveInOrder == SafeSpec => []InOrder
<1>1. IInv /\ Early /\ Ordered => InOrder
  <2>. SUFFICES ASSUME IInv, Early, Ordered, phase = "packets" PROVE Len(ram) >= NPackets - packetID
    BY DEF Ordered, InOrder
  <2>1. checksum = 0 /\ expectedID <= packetID /\ packetID \in Int
    BY DEF Early, Ordered, IInv, TypeOK, HostTypeOK
  <2>2. expectedID \in 0 .. NPackets /\ Len(ram) = NPackets - expectedID
    BY <2>1 DEF IInv, Registers
  <2>. QED BY <2>1, <2>2
<1>. QED BY <1>1, Invariance, EarlyInvariant, OrderedInvariant, PTL
-----------------------------------------------------------------------------
(* The host gives up only when something went wrong.                       *)

\* One packet, one reply: what the two channels hold at most.
LEMMA Single ==
  /\ \A p : /\ Append(<<>>, p) = <<p>> /\ <<p>> # <<>> /\ Len(<<p>>) = 1
            /\ Head(<<p>>) = p /\ Tail(<<p>>) = <<>>
  /\ \A a, b : /\ <<>> \o <<a, b>> = <<a, b>> /\ Len(<<a, b>>) = 2 /\ <<a, b>> # <<>>
               /\ <<a, b>>[1] = a /\ <<a, b>>[2] = b /\ SubSeq(<<a, b>>, 3, 2) = <<>>
  /\ Len(<<>>) = 0
OBVIOUS

\* A RAM that holds every chunk in its place holds the image.
LEMMA WholeImage ==
  ASSUME NEW r \in RAMs, Len(r) = NPackets, \A i \in 1 .. Len(r) : r[i] = i
  PROVE  r = [i \in Chunks |-> i]
<1>1. PICK n \in 0 .. NPackets : r \in [1 .. n -> 0 .. NPackets]
  BY DEF RAMs
<1>2. n = NPackets
  BY <1>1
<1>. QED BY <1>1, <1>2 DEF Chunks

\* The host's steps while nothing has gone wrong.
LEMMA UndisturbedHost ==
  ASSUME IInv, Undisturbed, Host, faults' = 0
  PROVE  Undisturbed'
<1>1. /\ phase \in Sending \cup Returned /\ phase' \in Sending \cup Returned
      /\ tries \in Nat /\ faults \in Nat /\ packetID \in Int /\ tag \in Nat
      /\ waiting => phase \in Sending \ {"launch"}
      /\ Sending \cap Returned = {}
  BY NextIInv, KindFacts DEF IInv, TypeOK, HostTypeOK, LinkTypeOK, Next, Tries, Returned
<1>2. faults = 0 /\ ~Fault
  BY <1>1 DEF Host, Send, GiveUp, Receive, ShortRead, Timeout, Fault
<1>3. phase \in Sending /\ UNCHANGED loaderVars
  BY <1>1 DEF Host, Send, GiveUp, Receive, ShortRead, Timeout
<1>4. /\ tmode = "rx" /\ tries = (IF waiting THEN Tries - 1 ELSE Tries)
      /\ \A i \in 1 .. Len(ram) : ram[i] = i
      /\ Idle \/ Asked \/ Answered
      /\ UNCHANGED <<tmode, ram, expectedID>>
  BY <1>2, <1>3 DEF Undisturbed, loaderVars
<1>5. CASE Send
  <2>1. ~waiting /\ Idle /\ tries' = Tries - 1
    BY <1>4, <1>5 DEF Send, Asked, Answered
  <2>2. toTarget' = <<[id |-> packetID, tag |-> tag + 1, kind |-> Kind[phase],
                       chunk |-> IF phase = "packets" THEN NPackets - packetID + 1 ELSE 0]>>
    BY <1>4, <1>5, <2>1, Single DEF Send, Idle
  <2>3. CASE phase = "launch"
    <3>1. phase' = "ok"
      BY <1>5, <2>3 DEF Send
    <3>. QED BY <3>1, <1>1 DEF Undisturbed, Returned
  <2>4. CASE phase # "launch"
    <3>1. phase' = phase /\ waiting' = TRUE /\ acked' = FALSE /\ toHost' = <<>>
          /\ packetID' = packetID /\ tag' = tag + 1
      BY <1>5, <2>1, <2>4 DEF Send, Idle
    <3>2. toTarget' = <<LastSent'>>
      BY <2>2, <3>1 DEF LastSent
    <3>3. Asked'
      BY <1>4, <2>1, <3>1, <3>2 DEF Asked, Idle
    <3>4. phase' \notin {"fatal", "stepDown"}
      BY <1>1, <1>3, <3>1 DEF Returned
    <3>. QED BY <1>4, <2>1, <3>1, <3>3, <3>4 DEF Undisturbed
  <2>. QED BY <2>3, <2>4
<1>6. CASE GiveUp
  BY <1>4, <1>6 DEF GiveUp, Tries
<1>7. CASE ShortRead \/ Timeout
  <2>1. waiting
    BY <1>7 DEF ShortRead, Timeout
  <2>2. CASE Asked
    BY <1>4, <1>7, <2>2, Single DEF Asked, ShortRead, Timeout
  <2>3. CASE Answered
    BY <1>2, <1>7, <2>3, Single DEF Answered, ShortRead, Timeout, Silent
  <2>. QED BY <1>4, <2>1, <2>2, <2>3 DEF Idle
<1>8. CASE Receive
  <2>1. waiting /\ Len(toHost) >= 2
    BY <1>8 DEF Receive
  <2>2. Answered
    BY <1>4, <2>1, Single DEF Idle, Asked
  <2>3. /\ toHost = <<Awaited, tag>> /\ toTarget = <<>> /\ expectedID = Awaited
        /\ toHost[1] = Awaited /\ toHost[2] = tag /\ Len(toHost) = 2
    BY <2>2, Single DEF Answered
  <2>4. phase \in {"packets", "verifyRAM", "programEEPROM", "ready"}
    BY <1>1, <2>1, KindFacts
  <2>5. Awaited # packetID /\ Awaited \in Int
    BY <1>1, <2>4 DEF Awaited, IInv, HostKnows
  <2>6. Judge(Awaited)
    BY <1>8, <2>3, <2>5 DEF Receive, Acceptable
  <2>7. /\ phase' \in {"packets", "verifyRAM", "programEEPROM", "ready", "launch"}
        /\ packetID' = Awaited /\ tries' = Tries
    <3>1. CASE phase = "packets"
      BY <2>6, <3>1 DEF Judge, Advance, Awaited
    <3>2. CASE phase = "verifyRAM"
      BY <2>6, <3>2 DEF Judge, Advance, Awaited
    <3>3. CASE phase = "programEEPROM"
      BY <2>6, <3>3 DEF Judge, Advance, Awaited
    <3>4. CASE phase = "ready"
      BY <2>6, <3>4 DEF Judge, Advance, Awaited
    <3>. QED BY <2>4, <3>1, <3>2, <3>3, <3>4
  <2>8. waiting' = FALSE /\ toHost' = <<>> /\ toTarget' = <<>>
    BY <1>8, <2>3, Single DEF Receive
  <2>9. Idle'
    BY <1>4, <2>3, <2>7, <2>8 DEF Idle
  <2>. QED BY <1>4, <2>7, <2>8, <2>9 DEF Undisturbed
<1>. QED BY <1>5, <1>6, <1>7, <1>8 DEF Host

\* The micro-loader answers every packet with what the host waits for.
LEMMA UndisturbedDeliver ==
  ASSUME SumIsRight, IInv, Undisturbed, Deliver, faults' = 0
  PROVE  Undisturbed'
<1>. DEFINE p == Head(toTarget)
<1>1. /\ phase \in Sending \cup Returned /\ faults \in Nat /\ packetID \in Int /\ tag \in Nat
      /\ waiting => phase \in Sending \ {"launch"}
      /\ UNCHANGED hostVars /\ tmode = "rx" /\ toTarget # <<>>
  BY DEF IInv, TypeOK, HostTypeOK, LinkTypeOK, Deliver
<1>2. faults = 0 /\ ~Fault
  BY <1>1 DEF Deliver, Fault, EEPROMFails, EEPROMProgramVerify
<1>3. UNCHANGED <<phase, packetID, tries, tag, waiting>>
  BY <1>1 DEF hostVars
<1>4. CASE phase \notin Sending
  BY <1>2, <1>3, <1>4 DEF Undisturbed
<1>5. CASE phase \in Sending
  <2>1. /\ \A i \in 1 .. Len(ram) : ram[i] = i
        /\ tries = (IF waiting THEN Tries - 1 ELSE Tries)
        /\ phase \notin {"fatal", "stepDown"}
        /\ Asked
    BY <1>1, <1>2, <1>5 DEF Undisturbed, Idle, Answered
  <2>2. /\ waiting /\ toTarget = <<LastSent>> /\ toHost = <<>> /\ expectedID = packetID
        /\ phase \in {"packets", "verifyRAM", "programEEPROM", "ready"}
    BY <1>1, <2>1, KindFacts DEF Asked
  <2>3. /\ p = LastSent /\ p.id = packetID /\ p.tag = tag /\ p.kind = Kind[phase]
        /\ p.chunk = (IF phase = "packets" THEN NPackets - packetID + 1 ELSE 0)
        /\ Tail(toTarget) = <<>>
    BY <2>2, Single DEF LastSent
  <2>4. Handling(p)
    <3>1. EEPROMProgramVerify(p) => UNCHANGED faults
      BY DEF EEPROMProgramVerify
    <3>2. ~EEPROMFails(p)
      BY <1>2 DEF EEPROMFails
    <3>. QED BY <3>1, <3>2 DEF Deliver, Handling
  <2>. HIDE DEF p
  <2>5. \/ EEPROMProgramVerify(p) \/ Copy(p) \/ RAMFinalizeVerify(p)
        \/ ReadyToLaunch(p) \/ LaunchNow(p) \/ ExecuteGarbage(p)
    BY <1>2, <2>2, <2>3 DEF Deliver, p, EEPROMFails, Refuse
  <2>6. ASSUME tmode' = tmode, expectedID' = Awaited, Acknowledge(expectedID', p),
               \A i \in 1 .. Len(ram') : ram'[i] = i
        PROVE  Undisturbed'
    <3>1. Awaited' = Awaited
      BY <1>3 DEF Awaited
    <3>2. toTarget' = <<>>
      BY <1>1, <2>3, <2>6 DEF Deliver, p
    <3>3. toHost' = <<Awaited, tag>>
      BY <2>2, <2>3, <2>6, Single DEF Acknowledge
    <3>4. Answered'
      BY <1>3, <2>2, <2>6, <3>1, <3>2, <3>3 DEF Answered
    <3>. QED BY <1>1, <1>3, <2>1, <2>6, <3>4 DEF Undisturbed
  <2>7. CASE phase = "packets"
    <3>1. p.kind = "data" /\ expectedID >= 1 /\ Awaited = packetID - 1
      BY <2>2, <2>3, <2>7, KindFacts DEF IInv, HostKnows, Awaited
    <3>2. Copy(p)
      BY <1>1, <2>2, <2>5, <3>1 DEF EEPROMProgramVerify, RAMFinalizeVerify, ReadyToLaunch, LaunchNow,
                       ExecuteGarbage, Executes
    <3>3. checksum = 0 /\ Len(ram) = NPackets - expectedID /\ ram \in Seq(0 .. NPackets)
      BY <2>2, <3>1 DEF IInv, Registers, TypeOK, LoaderTypeOK, RAMs
    <3>4. p.chunk = Len(ram) + 1 /\ p.chunk \in 0 .. NPackets
      BY <2>2, <2>3, <2>4, <2>7, <3>3, HandledGood
    <3>5. \A i \in 1 .. Len(ram') : ram'[i] = i
      BY <2>1, <3>2, <3>3, <3>4 DEF Copy
    <3>. QED BY <2>2, <2>6, <3>1, <3>2, <3>5 DEF Copy
  <2>8. CASE phase = "verifyRAM"
    <3>1. p.kind = "verifyRAM" /\ expectedID = 0 /\ Awaited = -CheckSum
      BY <2>2, <2>3, <2>8, KindFacts DEF IInv, HostKnows, Awaited
    <3>2. RAMFinalizeVerify(p)
      BY <2>5, <3>1 DEF EEPROMProgramVerify, Copy, ReadyToLaunch, LaunchNow,
                       ExecuteGarbage, Executes
    <3>3. checksum = 0 /\ Len(ram) = NPackets /\ ram \in RAMs
      BY <3>1 DEF IInv, Registers, TypeOK, LoaderTypeOK
    <3>4. ram = [i \in Chunks |-> i]
      BY <2>1, <3>3, WholeImage
    <3>5. Sum(ram) = CheckSum
      BY <3>4 DEF SumIsRight
    <3>. QED BY <2>1, <2>6, <3>1, <3>2, <3>3, <3>5 DEF RAMFinalizeVerify
  <2>9. CASE phase = "programEEPROM"
    <3>1. /\ p.kind = "programVerifyEEPROM" /\ expectedID = -CheckSum
          /\ Awaited = -2 * CheckSum
      BY <2>2, <2>3, <2>9, KindFacts DEF IInv, HostKnows, Awaited
    <3>2. EEPROMProgramVerify(p)
      BY <2>5, <3>1 DEF RAMFinalizeVerify, Copy, ReadyToLaunch, LaunchNow,
                       ExecuteGarbage, Executes
    <3>3. checksum = CheckSum
      BY <2>4, <3>2, BeforeProgramming DEF EEPROMProgramVerify
    <3>. QED BY <2>1, <2>6, <3>1, <3>2, <3>3 DEF EEPROMProgramVerify
  <2>10. CASE phase = "ready"
    <3>1. p.kind = "readyToLaunch" /\ expectedID = ReadyID /\ Awaited = packetID - 1
      BY <2>2, <2>3, <2>10, KindFacts DEF IInv, HostKnows, Awaited
    <3>2. expectedID \in Int /\ ~(expectedID >= 1)
      BY <3>1 DEF ReadyID
    <3>3. ReadyToLaunch(p)
      BY <2>5, <3>1, <3>2 DEF RAMFinalizeVerify, Copy, EEPROMProgramVerify, LaunchNow,
                       ExecuteGarbage, Executes
    <3>. QED BY <2>1, <2>2, <2>6, <3>1, <3>3 DEF ReadyToLaunch
  <2>. QED BY <2>2, <2>7, <2>8, <2>9, <2>10
<1>. QED BY <1>4, <1>5

\* Neither side has time to lose patience, and there are never two packets to
\* run together.
LEMMA UndisturbedRest ==
  ASSUME IInv, Undisturbed, Failsafe \/ Faulty \/ UNCHANGED vars, faults' = 0
  PROVE  Undisturbed'
<1>1. faults \in Nat /\ phase \in Sending \cup Returned /\ Sending \cap Returned = {}
  BY KindFacts DEF IInv, TypeOK, LinkTypeOK, HostTypeOK, Returned
<1>2. faults = 0 /\ (Failsafe \/ RunTogether \/ UNCHANGED vars)
  BY <1>1 DEF Faulty, Failsafe, RunTogether, SendFails, LateReply, HostStalls, LosePacket,
              LoseReply, Damage, Split, Fault, vars
<1>3. CASE UNCHANGED vars
  BY <1>3 DEF Undisturbed, Idle, Asked, Answered, Awaited, LastSent, vars, hostVars, loaderVars,
              linkVars
<1>4. CASE Failsafe \/ RunTogether
  <2>1. UNCHANGED hostVars /\ phase' = phase
    BY <1>4 DEF Failsafe, TimedOut, RunTogether, hostVars
  <2>2. phase \notin Sending
    <3>1. SUFFICES ASSUME phase \in Sending PROVE FALSE
      OBVIOUS
    <3>2. Idle \/ Asked \/ Answered
      BY <1>2, <3>1 DEF Undisturbed
    <3>3. /\ Len(toTarget) = 0 \/ Len(toTarget) = 1
          /\ waiting => toTarget # <<>> \/ Len(toHost) = 2
      BY <3>2, Single DEF Idle, Asked, Answered
    <3>. DEFINE n == Len(toTarget)
    <3>4. ~(n >= 2)
      <4>. HIDE DEF n
      <4>1. n = 0 \/ n = 1
        BY <3>3 DEF n
      <4>. QED BY <4>1
    <3>5. CASE Failsafe
      BY <1>1, <3>1, <3>3, <3>5 DEF Failsafe, TimedOut, Silent
    <3>6. CASE RunTogether
      BY <3>4, <3>6 DEF RunTogether
    <3>. QED BY <1>4, <3>5, <3>6
  <2>. QED BY <1>2, <2>1, <2>2 DEF Undisturbed
<1>. QED BY <1>2, <1>3, <1>4

\* With a line that loses nothing and a Propeller whose memory works the host
\* does not give up: no reply of its own making is refused, and neither its
\* timeout nor the micro-loader's is too short.
THEOREM FailureIsTrue == ASSUME SumIsRight PROVE SafeSpec => []NoSpuriousFailure
<1>1. Init => Undisturbed
  <2>1. ASSUME Init PROVE Undisturbed
    <3>1. Idle /\ phase = "packets" /\ tmode = "rx" /\ ~waiting /\ tries = Tries /\ ram = <<>>
      BY <2>1 DEF Init, Idle
    <3>. QED BY <3>1, Single DEF Undisturbed
  <2>. QED BY <2>1
<1>2. IInv /\ Undisturbed /\ [Next]_vars => Undisturbed'
  <2>. SUFFICES ASSUME IInv, Undisturbed, [Next]_vars, faults' = 0 PROVE Undisturbed'
    BY DEF Undisturbed
  <2>. QED BY UndisturbedHost, UndisturbedDeliver, UndisturbedRest DEF Next, Loader
<1>3. IInv /\ Undisturbed => NoSpuriousFailure
  <2>1. IInv => faults \in Nat
    BY DEF IInv, TypeOK, LinkTypeOK
  <2>. QED BY <2>1 DEF Undisturbed, NoSpuriousFailure
<1>. QED BY <1>1, <1>2, <1>3, Invariance, PTL DEF SafeSpec
=============================================================================
