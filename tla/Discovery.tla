------------------------------ MODULE Discovery ------------------------------
(***************************************************************************)
(* Finding WiFi modules: findModules of wifipropconnection.cpp, which      *)
(* broadcasts a request on every interface, collects the answers of 250 ms *)
(* and tries again until nothing new answers DISCOVER_ATTEMPTS times in a  *)
(* row; each request lists the modules that need not answer any more.      *)
(* Datagrams are lost, late and out of order, a module on two interfaces   *)
(* hears every request twice, and the host hears itself.  main then asks   *)
(* the module it found for its version.                                    *)
(***************************************************************************)
EXTENDS Naturals, FiniteSets, Sequences, SequencesExt

CONSTANTS
  Modules,
  Interfaces,   \* of the host that are up and not the loopback, in order: 1..n
  Reach,        \* the interfaces through which a module is heard
  Attempts,     \* DISCOVER_ATTEMPTS
  MaxKnown,     \* the addresses that fit in a request
  MaxFaults

ASSUME Parameters ==
  /\ "host" \notin Modules
  /\ Interfaces \in Nat /\ Attempts \in Nat \ {0}
  /\ Reach \in [Modules -> (SUBSET (1..Interfaces)) \ {{}}]
  /\ MaxKnown \in Nat /\ MaxFaults \in Nat

VARIABLES
  limit,        \* the count asked for: 1 by main, 0, for no limit, by -W
  bad,          \* modules whose answer findModules cannot take apart
  firmware,     \* "right" or "wrong" by module
  pc,           \* "start", "send", "receive", then "version" and "done"
  next,         \* the interface to send on next
  tries, numberFound,
  known,        \* the addresses in the request
  list,         \* the modules found
  result,       \* "pending", or "ok" and "error" of findModules
  connected,    \* the version was asked for and accepted
  requests,     \* datagrams on their way: [at, via, known]
  replies,      \* [from, via], from = "host" for the request itself
  faults        \* lost and late exchanges by module

settings == <<limit, bad, firmware>>
search   == <<tries, numberFound, known, list>>
net      == <<requests, replies>>
vars     == <<settings, pc, next, search, result, connected, net, faults>>

Init ==
  /\ limit \in {0, 1} /\ bad \in SUBSET Modules /\ firmware \in [Modules -> {"right", "wrong"}]
  /\ pc = "start" /\ next = 1 /\ tries = Attempts /\ numberFound = 0
  /\ known = {} /\ list = <<>> /\ result = "pending" /\ connected = FALSE
  /\ requests = {} /\ replies = {} /\ faults = [m \in Modules |-> 0]

Total(f) == FoldFunction(LAMBDA a, b : a + b, 0, f)
Found == Range(list)

-----------------------------------------------------------------------------
\* The host.

Return(sts) == pc' = (IF sts = "ok" /\ limit = 1 /\ list' # <<>> THEN "version" ELSE "done")
               /\ result' = sts

Interface == 1..Interfaces

\* The interfaces are listed and the socket is opened and bound.
OpenBroadcastSocket ==
  /\ pc = "start"
  /\ \/ pc' = "send" /\ UNCHANGED result
     \/ pc' = "done" /\ result' = "error"
  /\ UNCHANGED <<settings, next, search, connected, net, faults>>

Broadcast ==
  /\ pc = "send" /\ next \in Interface
  /\ \/ /\ requests' = requests \cup {[at |-> m, via |-> next, known |-> known] :
                                       m \in {x \in Modules : next \in Reach[x]}}
        /\ replies' = replies \cup {[from |-> "host", via |-> next]}
        /\ next' = next + 1 /\ UNCHANGED <<pc, result>>
     \/ pc' = "done" /\ result' = "error" /\ UNCHANGED <<next, net>>
  /\ UNCHANGED <<settings, search, connected, faults>>

\* A slip: the modules found are counted from the beginning.
ListenOnly ==
  /\ pc = "send" /\ next \notin Interface /\ pc' = "receive"
  /\ UNCHANGED <<settings, next, search, result, connected, net, faults>>

Listen ==
  /\ pc = "send" /\ next \notin Interface /\ pc' = "receive" /\ numberFound' = 0
  /\ UNCHANGED <<settings, next, tries, known, list, result, connected, net, faults>>

\* A slip: a second answer is taken for a module's first.
IsNewAlways(d) == d.from # "host"
IsNew(d) == d.from # "host" /\ d.from \notin Found

\* What a datagram in the socket's buffer does.
ReceiveReply ==
  /\ pc = "receive"
  /\ \E d \in replies :
       /\ replies' = replies \ {d}
       /\ IF ~IsNew(d) THEN UNCHANGED <<pc, result, numberFound, known, list>>
          ELSE /\ numberFound' = numberFound + 1
               /\ known' = IF Cardinality(known) < MaxKnown THEN known \cup {d.from} ELSE known
               /\ IF d.from \in bad THEN pc' = "done" /\ result' = "error" /\ UNCHANGED list
                  ELSE /\ list' = Append(list, d.from)
                       /\ IF Len(list') = limit THEN Return("ok") ELSE UNCHANGED <<pc, result>>
  /\ UNCHANGED <<settings, next, tries, connected, requests, faults>>

ReceiveFails ==
  /\ pc = "receive" /\ replies # {} /\ pc' = "done" /\ result' = "error"
  /\ UNCHANGED <<settings, next, search, connected, net, faults>>

\* A slip: an attempt that finds nothing new is the last one.
TriesLeftNone == IF numberFound > 0 THEN Attempts ELSE 0
TriesLeft == IF numberFound > 0 THEN Attempts ELSE tries - 1

\* 250 ms of silence.  An answer that is still under way is late.
Silence ==
  /\ pc = "receive" /\ replies = {}
  /\ faults' = [m \in Modules |-> IF \E r \in requests : r.at = m THEN faults[m] + 1 ELSE faults[m]]
  /\ Total(faults') <= MaxFaults
  /\ tries' = TriesLeft
  /\ IF tries' > 0
     THEN pc' = "send" /\ next' = 1 /\ UNCHANGED <<list, result>>
     ELSE UNCHANGED <<next, list>> /\ Return("ok")
  /\ UNCHANGED <<settings, numberFound, known, connected, net>>

-----------------------------------------------------------------------------
\* The version of the module, asked for by HTTP.

\* One recv has all of the response, or what came with the first segment; or
\* the request fails.
Received == {"nothing", "noBody", "part", "all"}

\* The first three characters decide.  The copy is not terminated, so a part
\* that is too short is compared with whatever the memory holds behind it.
VersionOkay(m, got) ==
  CASE got = "all"  -> {firmware[m] = "right"}
    [] got = "part" -> BOOLEAN
    [] OTHER        -> {FALSE}

CheckVersion ==
  /\ pc = "version" /\ pc' = "done"
  /\ \E got \in Received : connected' \in VersionOkay(Head(list), got)
  /\ UNCHANGED <<settings, next, search, result, net, faults>>

-----------------------------------------------------------------------------
\* The modules and the network.

Answers(r) == r.at \notin r.known

Answer ==
  \E r \in requests :
    /\ requests' = requests \ {r}
    /\ replies' = replies \cup
         (IF Answers(r) THEN {[from |-> r.at, via |-> r.via]} ELSE {})
    /\ UNCHANGED <<settings, pc, next, search, result, connected, faults>>

Lose ==
  /\ Total(faults) < MaxFaults
  /\ \/ \E r \in requests :
          /\ requests' = requests \ {r} /\ faults' = [faults EXCEPT ![r.at] = @ + 1]
          /\ UNCHANGED replies
     \/ \E d \in replies :
          /\ d.from # "host"
          /\ replies' = replies \ {d} /\ faults' = [faults EXCEPT ![d.from] = @ + 1]
          /\ UNCHANGED requests
  /\ UNCHANGED <<settings, pc, next, search, result, connected>>

Host == OpenBroadcastSocket \/ Broadcast \/ Listen \/ ReceiveReply \/ ReceiveFails \/ Silence
        \/ CheckVersion
Next == Host \/ Answer \/ Lose

\* The host does not stop, and a module answers at last.
Spec == Init /\ [][Next]_vars /\ WF_vars(Host) /\ WF_vars(Answer)

-----------------------------------------------------------------------------
\* Properties.

\* A module is missing from a complete list only if its exchange was lost or
\* late at least DISCOVER_ATTEMPTS times, whatever the others did.
NoneMissed ==
  result = "ok" /\ limit = 0 => \A m \in Modules : m \in Found \/ faults[m] >= Attempts

\* No module is listed twice, the host itself and answers that make no sense
\* never, and no more modules than were asked for; a request that is full does
\* not change that.
ListIsRight ==
  /\ Cardinality(Found) = Len(list) /\ Found \subseteq Modules \ bad
  /\ limit = 1 => Len(list) <= 1
  /\ known \subseteq Found \cup bad

\* Why a missing module has had its chances: as long as the search goes on, each
\* silent round has cost it an exchange, and in the round that is under way the
\* request or the answer is on its way or is lost as well.
Searching == pc \in {"start", "send", "receive"}

TypeOK ==
  /\ limit \in {0, 1} /\ bad \subseteq Modules
  /\ next \in Nat \ {0} /\ (pc = "start" => next = 1)
  /\ tries \in 0..Attempts /\ (Searching => tries > 0 /\ result = "pending")
  /\ list \in Seq(Modules)
  /\ \A r \in requests : r.at \in Modules
  /\ \A d \in replies : d.from \in Modules \cup {"host"}
  /\ faults \in [Modules -> Nat]

Listed ==
  /\ IsFiniteSet(Found) /\ ListIsRight
  /\ Searching => known \subseteq Found /\ (limit = 1 => list = <<>>)
  /\ \A r \in requests : r.known \subseteq Found

Asked(m) == pc = "receive" \/ (pc = "send" /\ \E i \in Reach[m] : i < next)
OnItsWay(m) == (\E r \in requests : r.at = m) \/ (\E d \in replies : d.from = m)
HadItsChances ==
  Searching => \A m \in Modules \ Found :
    /\ faults[m] + tries >= Attempts
    /\ Asked(m) => OnItsWay(m) \/ faults[m] + tries > Attempts

IInv == TypeOK /\ Listed /\ HadItsChances /\ NoneMissed

\* The search ends although every module found starts the count again.
SearchEnds == <>(pc = "done")
=============================================================================
