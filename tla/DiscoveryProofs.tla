--------------------------- MODULE DiscoveryProofs ---------------------------
(***************************************************************************)
(* Proofs about Discovery: for any number of modules, interfaces, rounds   *)
(* and faults, who is missing from a complete list had its chances, and    *)
(* nobody is listed twice.                                                 *)
(***************************************************************************)
EXTENDS Discovery, TLAPS, FiniteSetTheorems

USE DEF settings, search, net, Interface

\* What is appended to a list is all that it gains.
LEMMA Appended ==
  ASSUME NEW S, NEW s \in Seq(S), NEW x \in S
  PROVE  /\ Append(s, x) \in Seq(S) /\ Len(Append(s, x)) = Len(s) + 1 /\ Append(s, x) # <<>>
         /\ Range(Append(s, x)) = Range(s) \cup {x}
<1>1. /\ Append(s, x) \in Seq(S) /\ Len(Append(s, x)) = Len(s) + 1 /\ Append(s, x) # <<>>
      /\ Append(s, x)[Len(s) + 1] = x
      /\ \A i \in 1 .. Len(s) : Append(s, x)[i] = s[i]
  OBVIOUS
<1>2. DOMAIN Append(s, x) = 1 .. Len(s) + 1 /\ DOMAIN s = 1 .. Len(s) /\ Len(s) \in Nat
  OBVIOUS
<1>3. Range(Append(s, x)) \subseteq Range(s) \cup {x}
  <2>1. SUFFICES ASSUME NEW i \in 1 .. Len(s) + 1
                 PROVE  Append(s, x)[i] \in Range(s) \cup {x}
    BY <1>2 DEF Range
  <2>2. CASE i \in 1 .. Len(s)
    BY <2>2, <1>1, <1>2 DEF Range
  <2>3. CASE i = Len(s) + 1
    BY <2>3, <1>1
  <2> QED  BY <2>2, <2>3, <1>2
<1>4. Range(s) \cup {x} \subseteq Range(Append(s, x))
  <2>1. ASSUME NEW i \in 1 .. Len(s) PROVE s[i] \in Range(Append(s, x))
    <3>1. i \in DOMAIN Append(s, x) /\ Append(s, x)[i] = s[i]
      BY <1>1, <1>2
    <3> QED  BY <3>1 DEF Range
  <2>2. x \in Range(Append(s, x))
    <3>1. Len(s) + 1 \in DOMAIN Append(s, x)
      BY <1>2
    <3> QED  BY <3>1, <1>1 DEF Range
  <2> QED  BY <2>1, <2>2, <1>2 DEF Range
<1> QED  BY <1>1, <1>3, <1>4

LEMMA AttemptsIsNat == Attempts \in Nat /\ Attempts > 0
BY Parameters

LEMMA Initially == Init => IInv
<1> SUFFICES ASSUME Init PROVE IInv
  OBVIOUS
<1> USE AttemptsIsNat DEF Init
<1>1. Found = {}
  BY DEF Found, Range
<1>2. TypeOK
  BY DEF TypeOK, Searching
<1>3. Listed
  BY <1>1, FS_EmptySet DEF Listed, ListIsRight, Searching
<1>4. HadItsChances
  BY DEF HadItsChances, Asked
<1> QED  BY <1>2, <1>3, <1>4 DEF IInv, NoneMissed

\* The number of a module's faults never falls.
LEMMA FaultsGrow ==
  ASSUME TypeOK, [Next]_vars
  PROVE  /\ faults' \in [Modules -> Nat]
         /\ \A m \in Modules : faults'[m] >= faults[m]
<1> USE DEF TypeOK
<1>1. CASE UNCHANGED faults
  BY <1>1
<1>2. CASE Silence
  BY <1>2 DEF Silence
<1>3. CASE Lose
  <2>1. PICK m \in Modules : faults' = [faults EXCEPT ![m] = @ + 1]
    BY <1>3 DEF Lose
  <2> QED  BY <2>1
<1> QED
  BY <1>1, <1>2, <1>3 DEF Next, Host, OpenBroadcastSocket, Broadcast, Listen, ReceiveReply,
       ReceiveFails, CheckVersion, Answer, vars

\* A datagram received: a module is listed when it is new.
LEMMA Receiving ==
  ASSUME IInv, ReceiveReply
  PROVE  IInv'
<1> USE AttemptsIsNat
<1>1. PICK d \in replies :
        /\ replies' = replies \ {d}
        /\ IF ~IsNew(d) THEN UNCHANGED <<pc, result, numberFound, known, list>>
           ELSE /\ numberFound' = numberFound + 1
                /\ known' = IF Cardinality(known) < MaxKnown THEN known \cup {d.from} ELSE known
                /\ IF d.from \in bad THEN pc' = "done" /\ result' = "error" /\ UNCHANGED list
                   ELSE /\ list' = Append(list, d.from)
                        /\ IF Len(list') = limit THEN Return("ok") ELSE UNCHANGED <<pc, result>>
  BY DEF ReceiveReply
<1>2. /\ pc = "receive" /\ Searching /\ TypeOK /\ Listed /\ HadItsChances
      /\ UNCHANGED <<limit, bad, firmware, next, tries, connected, requests, faults>>
      /\ result = "pending" /\ tries > 0 /\ known \subseteq Found /\ (limit = 1 => list = <<>>)
  BY DEF IInv, ReceiveReply, Searching, TypeOK, Listed
<1>3. \A m \in Modules \ Found :
        /\ faults[m] + tries >= Attempts
        /\ OnItsWay(m) \/ faults[m] + tries > Attempts
  BY <1>2 DEF HadItsChances, Asked
<1>4. CASE ~IsNew(d)
  <2>1. UNCHANGED <<pc, result, known, list>>
    BY <1>1, <1>4
  <2>2. Found' = Found
    BY <2>1 DEF Found
  <2>3. \A m \in Modules \ Found : OnItsWay(m) => OnItsWay(m)'
    BY <1>1, <1>2, <1>4, Parameters DEF IsNew, OnItsWay, TypeOK
  <2>4. TypeOK'
    BY <1>1, <1>2, <2>1 DEF TypeOK, Searching
  <2>5. Listed'
    BY <1>2, <2>1, <2>2 DEF Listed, ListIsRight, Searching
  <2>6. HadItsChances'
    BY <1>2, <1>3, <2>2, <2>3 DEF HadItsChances
  <2>7. NoneMissed'
    BY <1>2, <2>1 DEF NoneMissed
  <2> QED  BY <2>4, <2>5, <2>6, <2>7 DEF IInv
<1>5. CASE IsNew(d) /\ d.from \in bad
  <2>1. pc' = "done" /\ result' = "error" /\ list' = list /\ known' \subseteq Found \cup bad
    BY <1>1, <1>2, <1>5
  <2>2. Found' = Found /\ ~Searching'
    BY <2>1 DEF Found, Searching
  <2>3. TypeOK'
    BY <1>1, <1>2, <2>1, <2>2 DEF TypeOK
  <2>4. Listed'
    BY <1>2, <2>1, <2>2 DEF Listed, ListIsRight
  <2> QED  BY <2>1, <2>2, <2>3, <2>4 DEF IInv, HadItsChances, NoneMissed
<1>6. CASE IsNew(d) /\ d.from \notin bad
  <2>1. /\ d.from \in Modules /\ d.from \notin Found /\ list' = Append(list, d.from)
        /\ known' \subseteq Found \cup {d.from}
        /\ IF Len(list') = limit THEN Return("ok") ELSE UNCHANGED <<pc, result>>
    BY <1>1, <1>2, <1>6 DEF IsNew, TypeOK
  <2>2. list \in Seq(Modules) /\ IsFiniteSet(Found) /\ Cardinality(Found) = Len(list)
    BY <1>2 DEF TypeOK, Listed, ListIsRight
  <2>3. /\ list' \in Seq(Modules) /\ Len(list') = Len(list) + 1 /\ list' # <<>>
        /\ Found' = Found \cup {d.from}
    BY <2>1, <2>2, Appended DEF Found
  <2>4. IsFiniteSet(Found') /\ Cardinality(Found') = Len(list')
    BY <2>1, <2>2, <2>3, FS_AddElement
  <2>5. /\ limit = 1 => ~Searching' /\ Len(list') = 1
        /\ limit = 0 => UNCHANGED <<pc, result>>
    <3>1. limit = 1 => list = <<>> /\ Len(list) = 0
      BY <1>2
    <3>2. Len(list') # 0
      BY <2>2, <2>3
    <3> QED  BY <3>1, <3>2, <2>1, <2>3 DEF Return, Searching
  <2>6. limit \in {0, 1}
    BY <1>2 DEF TypeOK
  <2>7. TypeOK'
    BY <1>1, <1>2, <2>3, <2>5, <2>6 DEF TypeOK, Searching
  <2>8. Listed'
    <3>1. ListIsRight'
      BY <1>2, <2>1, <2>3, <2>4, <2>5, <1>6 DEF Listed, ListIsRight, Searching
    <3>2. \A r \in requests' : r.known \subseteq Found'
      BY <1>2, <2>3 DEF Listed
    <3>3. Searching' => known' \subseteq Found' /\ (limit' = 1 => list' = <<>>)
      BY <1>2, <2>1, <2>3, <2>5
    <3> QED  BY <3>1, <3>2, <3>3, <2>4 DEF Listed
  <2>9. HadItsChances'
    <3>1. \A m \in Modules \ Found' : OnItsWay(m) => OnItsWay(m)'
      BY <1>1, <1>2, <2>3 DEF OnItsWay
    <3> QED  BY <1>2, <1>3, <2>3, <3>1 DEF HadItsChances
  <2>10. NoneMissed'
    BY <1>2, <2>5 DEF NoneMissed
  <2> QED  BY <2>7, <2>8, <2>9, <2>10 DEF IInv
<1> QED  BY <1>4, <1>5, <1>6

\* 250 ms of silence: an exchange of everybody who is still missing has failed.
LEMMA Waiting ==
  ASSUME IInv, Silence
  PROVE  IInv'
<1> USE AttemptsIsNat
<1>1. /\ pc = "receive" /\ Searching /\ TypeOK /\ Listed /\ replies = {} /\ result = "pending"
      /\ UNCHANGED <<limit, bad, firmware, numberFound, known, connected, requests, replies, list>>
      /\ tries \in 0 .. Attempts /\ tries > 0 /\ known \subseteq Found
  BY DEF IInv, Silence, Searching, TypeOK, Listed
<1>2. Found' = Found
  BY <1>1 DEF Found
<1>3. /\ tries' \in 0 .. Attempts
      /\ tries' = Attempts \/ tries' = tries - 1
  BY <1>1 DEF Silence, TriesLeft
<1>4. IF tries' > 0 THEN pc' = "send" /\ next' = 1 /\ UNCHANGED result
                    ELSE next' = next /\ Return("ok")
  BY DEF Silence
<1>5. faults' \in [Modules -> Nat]
  BY <1>1, FaultsGrow DEF Next, Host
<1>6. \A m \in Modules \ Found : faults'[m] + tries' >= Attempts
  <2> SUFFICES ASSUME NEW m \in Modules, m \notin Found
               PROVE  faults'[m] + tries' >= Attempts
    OBVIOUS
  <2>1. faults[m] \in Nat /\ faults'[m] \in Nat /\ faults'[m] >= faults[m]
    BY <1>1, FaultsGrow DEF Next, Host, TypeOK
  <2>2. OnItsWay(m) \/ faults[m] + tries > Attempts
    BY <1>1 DEF IInv, HadItsChances, Asked
  <2>3. CASE OnItsWay(m)
    <3>1. \E r \in requests : r.at = m
      BY <2>3, <1>1 DEF OnItsWay
    <3>2. faults'[m] = faults[m] + 1
      BY <3>1, <1>1 DEF Silence, TypeOK
    <3>3. faults[m] + tries >= Attempts
      BY <1>1 DEF IInv, HadItsChances
    <3> QED  BY <3>2, <3>3, <2>1, <1>1, <1>3
  <2>4. CASE faults[m] + tries > Attempts
    BY <2>4, <2>1, <1>1, <1>3
  <2> QED  BY <2>2, <2>3, <2>4
<1>7. CASE tries' > 0
  <2>1. TypeOK'
    BY <1>1, <1>3, <1>4, <1>5, <1>7 DEF TypeOK, Searching
  <2>2. Listed'
    BY <1>1, <1>2 DEF Listed, ListIsRight, Searching
  <2>3. HadItsChances'
    <3>1. \A m \in Modules : ~Asked(m)'
      BY <1>4, <1>7, Parameters DEF Asked
    <3> QED  BY <3>1, <1>2, <1>6 DEF HadItsChances
  <2>4. NoneMissed'
    BY <1>1, <1>4, <1>7 DEF NoneMissed
  <2> QED  BY <2>1, <2>2, <2>3, <2>4 DEF IInv
<1>8. CASE tries' = 0
  <2>1. ~Searching' /\ next' = next /\ pc' # "start"
    BY <1>4, <1>8 DEF Return, Searching
  <2>2. TypeOK'
    BY <1>1, <1>3, <1>5, <2>1 DEF TypeOK
  <2>3. Listed'
    BY <1>1, <1>2, <2>1 DEF Listed, ListIsRight
  <2>4. NoneMissed'
    <3>1. \A m \in Modules \ Found' : faults'[m] >= Attempts
      BY <1>2, <1>5, <1>6, <1>8
    <3> QED  BY <3>1 DEF NoneMissed
  <2> QED  BY <2>1, <2>2, <2>3, <2>4 DEF IInv, HadItsChances
<1> QED  BY <1>3, <1>7, <1>8

\* Requests go out on one interface after the other.
LEMMA Sending ==
  ASSUME IInv, OpenBroadcastSocket \/ Broadcast \/ Listen \/ ReceiveFails
  PROVE  IInv'
<1> USE AttemptsIsNat
<1>1. /\ UNCHANGED <<limit, bad, firmware, tries, known, list, connected, faults>>
      /\ TypeOK /\ Listed /\ NoneMissed /\ HadItsChances /\ Searching
  BY DEF IInv, OpenBroadcastSocket, Broadcast, Listen, ReceiveFails, Searching
<1>2. Found' = Found
  BY <1>1 DEF Found
<1>3. /\ result = "pending" /\ next \in Nat /\ known \subseteq Found
      /\ \A m \in Modules \ Found : faults[m] + tries >= Attempts
  BY <1>1 DEF TypeOK, Listed, HadItsChances
<1>4. CASE pc' = "done"
  <2>1. /\ result' = "error" /\ UNCHANGED <<next, requests, replies>> /\ ~Searching'
    BY <1>4 DEF OpenBroadcastSocket, Broadcast, Listen, ReceiveFails, Searching
  <2>2. TypeOK'
    BY <1>1, <1>4, <2>1 DEF TypeOK
  <2>3. Listed'
    BY <1>1, <1>2, <2>1 DEF Listed, ListIsRight
  <2> QED  BY <2>1, <2>2, <2>3 DEF IInv, HadItsChances, NoneMissed
<1>5. CASE pc' # "done" /\ ~Broadcast
  <2>1. OpenBroadcastSocket \/ Listen
    BY <1>5 DEF ReceiveFails
  <2>2. /\ UNCHANGED <<next, requests, replies, result>> /\ Searching'
        /\ \/ pc = "start" /\ pc' = "send"
           \/ pc = "send" /\ pc' = "receive" /\ next \notin Interface
    BY <1>5, <2>1 DEF OpenBroadcastSocket, Listen, Searching
  <2>3. TypeOK'
    BY <1>1, <1>3, <2>2 DEF TypeOK
  <2>4. Listed'
    BY <1>1, <1>2, <2>2 DEF Listed, ListIsRight
  <2>5. HadItsChances'
    <3> SUFFICES ASSUME NEW m \in Modules, m \notin Found, Asked(m)'
                 PROVE  OnItsWay(m)' \/ faults[m] + tries > Attempts
      BY <1>1, <1>2, <1>3 DEF HadItsChances
    <3>1. OnItsWay(m)' <=> OnItsWay(m)
      BY <2>2 DEF OnItsWay
    <3>2. Reach[m] # {} /\ Reach[m] \subseteq 1 .. Interfaces /\ Interfaces \in Nat
      BY Parameters
    <3>3. pc = "send" /\ next > Interfaces
      <4>1. CASE pc = "start"
        <5>1. next' = 1 /\ pc' = "send"
          BY <4>1, <2>2, <1>1 DEF TypeOK
        <5> QED  BY <5>1, <3>2 DEF Asked
      <4>2. CASE pc = "send" /\ next \notin Interface
        BY <4>2, <3>2, <1>1 DEF TypeOK
      <4> QED  BY <4>1, <4>2, <2>2
    <3>4. Asked(m)
      <4>1. PICK i \in Reach[m] : i \in 1 .. Interfaces
        BY <3>2
      <4>2. i < next
        BY <4>1, <3>2, <3>3, <1>3
      <4> QED  BY <3>3, <4>1, <4>2 DEF Asked
    <3> QED  BY <3>1, <3>4, <1>1 DEF HadItsChances
  <2> QED  BY <2>2, <2>3, <2>4, <2>5, <1>3 DEF IInv, NoneMissed
<1>6. CASE pc' # "done" /\ Broadcast
  <2>1. /\ requests' = requests \cup {[at |-> m, via |-> next, known |-> known] :
                                       m \in {x \in Modules : next \in Reach[x]}}
        /\ replies' = replies \cup {[from |-> "host", via |-> next]}
        /\ next' = next + 1 /\ UNCHANGED <<pc, result>> /\ pc = "send" /\ Searching'
    BY <1>6, <1>1 DEF Broadcast, Searching
  <2>2. TypeOK'
    BY <1>1, <1>3, <2>1 DEF TypeOK
  <2>3. Listed'
    BY <1>1, <1>2, <1>3, <2>1 DEF Listed, ListIsRight
  <2>4. HadItsChances'
    <3> SUFFICES ASSUME NEW m \in Modules, m \notin Found, Asked(m)'
                 PROVE  OnItsWay(m)' \/ faults[m] + tries > Attempts
      BY <1>1, <1>2, <1>3 DEF HadItsChances
    <3>1. OnItsWay(m) => OnItsWay(m)'
      BY <2>1 DEF OnItsWay
    <3>2. CASE next \in Reach[m]
      <4>1. [at |-> m, via |-> next, known |-> known] \in requests'
        BY <2>1, <3>2
      <4> QED  BY <4>1 DEF OnItsWay
    <3>3. CASE next \notin Reach[m]
      <4>1. PICK i \in Reach[m] : i < next + 1
        BY <2>1 DEF Asked
      <4>2. i \in Nat /\ i < next
        BY <4>1, <3>3, <1>3, Parameters
      <4>3. Asked(m)
        BY <4>1, <4>2, <2>1 DEF Asked
      <4> QED  BY <3>1, <4>3, <1>1 DEF HadItsChances
    <3> QED  BY <3>2, <3>3
  <2> QED  BY <2>1, <2>2, <2>3, <2>4, <1>3 DEF IInv, NoneMissed
<1> QED  BY <1>4, <1>5, <1>6

\* The modules and the network: an exchange goes on, or it fails and is counted.
LEMMA Outside ==
  ASSUME IInv, Answer \/ Lose
  PROVE  IInv'
<1> USE AttemptsIsNat
<1>1. /\ UNCHANGED <<limit, bad, firmware, pc, next, tries, numberFound, known, list, result, connected>>
      /\ TypeOK /\ Listed /\ NoneMissed /\ HadItsChances /\ (Searching' <=> Searching)
  BY DEF IInv, Answer, Lose, Searching
<1>2. Found' = Found
  BY <1>1 DEF Found
<1>3. /\ faults' \in [Modules -> Nat]
      /\ \A m \in Modules : faults'[m] >= faults[m] /\ faults'[m] \in Nat /\ faults[m] \in Nat
  BY <1>1, FaultsGrow DEF Next, TypeOK
<1>4. TypeOK'
  <2>1. requests' \subseteq requests
    BY DEF Answer, Lose
  <2>2. \A d \in replies' : d.from \in Modules \cup {"host"}
    <3>1. CASE Lose
      BY <3>1, <1>1 DEF Lose, TypeOK
    <3>2. CASE Answer
      BY <3>2, <1>1 DEF Answer, TypeOK
    <3> QED  BY <3>1, <3>2
  <2> QED  BY <1>1, <1>3, <2>1, <2>2 DEF TypeOK
<1>5. Listed'
  <2>1. requests' \subseteq requests
    BY DEF Answer, Lose
  <2> QED  BY <1>1, <1>2, <2>1 DEF Listed, ListIsRight
<1>6. HadItsChances'
  <2> SUFFICES ASSUME Searching, NEW m \in Modules, m \notin Found
               PROVE  /\ faults'[m] + tries >= Attempts
                      /\ Asked(m) => OnItsWay(m)' \/ faults'[m] + tries > Attempts
    BY <1>1, <1>2 DEF HadItsChances, Asked
  <2>1. /\ tries \in Nat /\ faults[m] + tries >= Attempts
        /\ Asked(m) => OnItsWay(m) \/ faults[m] + tries > Attempts
    BY <1>1 DEF HadItsChances, TypeOK
  <2>2. OnItsWay(m) => OnItsWay(m)' \/ faults'[m] = faults[m] + 1
    <3>1. CASE Answer
      <4>1. PICK r \in requests :
              /\ requests' = requests \ {r}
              /\ replies' = replies \cup
                   (IF Answers(r) THEN {[from |-> r.at, via |-> r.via]} ELSE {})
        BY <3>1 DEF Answer
      <4>2. r.at = m => Answers(r)
        BY <1>1 DEF Answers, Listed
      <4>3. CASE \E x \in requests : x.at = m /\ x # r
        BY <4>1, <4>3 DEF OnItsWay
      <4>4. CASE r.at = m
        <5>1. [from |-> m, via |-> r.via] \in replies'
          BY <4>1, <4>2, <4>4
        <5> QED  BY <5>1 DEF OnItsWay
      <4>5. CASE \E d \in replies : d.from = m
        BY <4>1, <4>5 DEF OnItsWay
      <4> QED  BY <4>3, <4>4, <4>5 DEF OnItsWay
    <3>2. CASE Lose
      <4>1. CASE \E r \in requests :
                   /\ requests' = requests \ {r} /\ faults' = [faults EXCEPT ![r.at] = @ + 1]
                   /\ UNCHANGED replies
        BY <4>1, <1>1 DEF OnItsWay, TypeOK
      <4>2. CASE \E d \in replies :
                   /\ d.from # "host"
                   /\ replies' = replies \ {d} /\ faults' = [faults EXCEPT ![d.from] = @ + 1]
                   /\ UNCHANGED requests
        BY <4>2, <1>1 DEF OnItsWay, TypeOK
      <4> QED  BY <3>2, <4>1, <4>2 DEF Lose
    <3> QED  BY <3>1, <3>2
  <2> QED  BY <2>1, <2>2, <1>3
<1>7. NoneMissed'
  <2> SUFFICES ASSUME result = "ok", limit = 0, NEW m \in Modules
               PROVE  m \in Found \/ faults'[m] >= Attempts
    BY <1>1, <1>2 DEF NoneMissed
  <2> QED  BY <1>1, <1>3 DEF NoneMissed
<1> QED  BY <1>4, <1>5, <1>6, <1>7 DEF IInv

\* IInv is inductive.
LEMMA Inductive == IInv /\ [Next]_vars => IInv'
<1> SUFFICES ASSUME IInv, [Next]_vars PROVE IInv'
  OBVIOUS
<1>1. CASE ReceiveReply
  BY <1>1, Receiving
<1>2. CASE Silence
  BY <1>2, Waiting
<1>3. CASE OpenBroadcastSocket \/ Broadcast \/ Listen \/ ReceiveFails
  BY <1>3, Sending
<1>4. CASE Answer \/ Lose
  BY <1>4, Outside
<1>5. CASE CheckVersion
  <2>1. /\ UNCHANGED <<settings, next, search, result, net, faults>>
        /\ ~Searching /\ ~Searching' /\ pc' = "done"
    BY <1>5 DEF CheckVersion, Searching
  <2>2. Found' = Found
    BY <2>1 DEF Found
  <2> QED  BY <2>1, <2>2 DEF IInv, TypeOK, Listed, ListIsRight, HadItsChances, NoneMissed
<1>6. CASE UNCHANGED vars
  <2>1. Found' = Found /\ (Searching' <=> Searching) /\ UNCHANGED vars
    BY <1>6 DEF Found, Searching, vars
  <2> QED  BY <2>1 DEF IInv, TypeOK, Listed, ListIsRight, HadItsChances, NoneMissed, Asked,
              OnItsWay, vars
<1> QED  BY <1>1, <1>2, <1>3, <1>4, <1>5, <1>6 DEF Next, Host

\* Whatever is lost, the search keeps the account of every module's chances.
THEOREM Invariance == Spec => []IInv
BY Initially, Inductive, PTL DEF Spec

\* A module that findModules does not list has been lost in every one of the
\* last DISCOVER_ATTEMPTS rounds, for any number of modules and interfaces.
THEOREM TheMissingWereSilent == Spec => []NoneMissed
<1>1. IInv => NoneMissed
  BY DEF IInv
<1> QED  BY Invariance, <1>1, PTL

\* Nobody is listed twice, and no more than were asked for, though modules answer
\* through several interfaces and again when the request is full.
THEOREM NobodyIsListedTwice == Spec => []ListIsRight
<1>1. IInv => ListIsRight
  BY DEF IInv, Listed
<1> QED  BY Invariance, <1>1, PTL
=============================================================================
