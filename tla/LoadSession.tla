----------------------------- MODULE LoadSession -----------------------------
(***************************************************************************)
(* One run of the program from its parsed command line to its exit: main's *)
(* choice of a connection, reset and naming of a module, the loop of       *)
(* Loader::fastLoadImage over the baud rates, its fallback to the          *)
(* single-stage loader, the file sent to an SD card, the terminal's baud   *)
(* rate and terminal mode, over a serial port or a WiFi module.  An        *)
(* attempt at a two-stage load is the abstract one of LoadAttempt, which   *)
(* FastLoad implements.  The module's subject is what these steps leave to *)
(* each other: the baud rate in force, the one the host remembers          *)
(* (m_baudRate), the telnet socket of a WiFi module and the EEPROM.        *)
(***************************************************************************)
EXTENDS Naturals, Sequences

CONSTANTS
  Configs,       \* the command lines and boards considered: a set of Runs
  LoaderBaud,    \* loader-baud-rate
  TerminalBaud,  \* baud-rate
  Rates,         \* what a module or uninitialised memory may hold at first
  Supported,     \* rates that the operating system's serial port accepts
  LineRate       \* the highest rate the line carries reliably

MinBaud == 115200

\* A run is a record.  task: what CommandLine makes of the
\* arguments; wifi: the connection; act: what becomes of the file; fast: the
\* two-stage loader; name: the cleaned module name if one was named; fits: the
\* image has at most the 2048 bytes of a module's buffer; baudSet: the board has
\* a baud-rate, for which the SD helper knows no default; fastBaud:
\* fast-loader-baud-rate.
IsRun(c) ==
  /\ {c.wifi, c.fast, c.terminal, c.reset, c.named, c.fits, c.baudSet} \subseteq BOOLEAN
  /\ c.task \in {"usage", "nothing", "connect"} /\ c.act \in {"none", "load", "write"}
  /\ c.type \subseteq {"run", "program"} /\ c.type # {}
  /\ c.fastBaud \in Nat

ASSUME Parameters ==
  /\ \A c \in Configs : IsRun(c)
  /\ {LoaderBaud, TerminalBaud, LineRate} \subseteq Nat \ {0}
  /\ Rates \subseteq Nat /\ Supported \subseteq Nat \ {0}

VARIABLES
  conf,        \* this run's member of Configs
  pc,          \* where the host's thread is
  exit,        \* "none" while it runs, then "ok" (0) or "error" (1)
  moduleName,  \* what the module was told to be called, <<>> for nothing
  fastBaud,    \* fastLoaderBaudRate of the next attempt
  baudRate,    \* m_baudRate: the rate the host believes to be set
  rate,        \* the rate the port or the module has
  isOpen,      \* the port or the telnet socket is open
  loaderBaud,  \* the final rate the micro-loader was patched with
  result, loader, committed, eeprom,   \* the current attempt: see LoadAttempt
  trouble      \* something failed that no rate the line carries would cure

WiFi       == conf.wifi
HasFile    == conf.act # "none"
Write      == conf.act = "write"
FastLoader == Write \/ conf.fast        \* the SD helper is always loaded fast
LoadType   == IF Write THEN {"run"} ELSE conf.type
HelperBaud == IF conf.baudSet THEN TerminalBaud ELSE 0

Attempt == INSTANCE LoadAttempt

attempt == <<result, loader, committed, eeprom>>
bauds == <<fastBaud, baudRate, rate, loaderBaud>>
vars == <<conf, pc, exit, moduleName, bauds, isOpen, attempt, trouble>>

Init ==
  /\ conf \in Configs
  /\ pc = "prepare" /\ exit = "none" /\ moduleName = <<>>
  /\ fastBaud = conf.fastBaud /\ loaderBaud = 0 /\ isOpen = FALSE
  /\ IF WiFi THEN baudRate \in Rates /\ rate \in Rates  \* no constructor sets m_baudRate
             ELSE baudRate = LoaderBaud /\ rate = LoaderBaud
  /\ result = "pending" /\ loader = "none" /\ committed = FALSE /\ eeprom = "old"
  /\ trouble = FALSE

-----------------------------------------------------------------------------
\* The connection.

\* What the system's serial port makes of a rate: 0 is its default, a rate it
\* does not know it ignores.  A module is sent any rate.
DefaultBaud == 115200
PortRate(b) ==
  IF WiFi \/ b \in Supported THEN b ELSE IF b = 0 THEN DefaultBaud ELSE rate

\* A slip: m_baudRate is not updated.
SetBaudRateForgets(b, ok) ==
  \/ b = baudRate /\ ok /\ UNCHANGED <<baudRate, rate>>
  \/ /\ b # baudRate /\ UNCHANGED baudRate /\ (ok \/ WiFi)
     /\ rate' = PortRate(b)

\* setBaudRate(b) returning 0 iff ok.  A serial port reports success whatever
\* the system makes of the rate.  A module's request may fail before or after
\* the module has obeyed.
SetBaudRate(b, ok) ==
  \/ b = baudRate /\ ok /\ UNCHANGED <<baudRate, rate>>
  \/ /\ b # baudRate /\ ok /\ baudRate' = b
     /\ rate' = PortRate(b)
  \/ /\ b # baudRate /\ ~ok /\ WiFi
     /\ rate' \in {rate, b} /\ UNCHANGED baudRate

\* connect() returning 0 iff ok: a serial port stays open, a module refuses a
\* second telnet connection and may not answer to the first.
Connect(ok) ==
  \/ ~WiFi /\ ok = isOpen /\ UNCHANGED isOpen
  \/ WiFi /\ ~isOpen /\ isOpen' = ok
  \/ WiFi /\ isOpen /\ ~ok /\ UNCHANGED isOpen

Finish(sts) ==
  /\ pc' = "done" /\ exit' = sts

-----------------------------------------------------------------------------
\* The beginning of main.

\* A slip: -R, like -P, is all there is to do.
JobAfterReset == IF conf.reset \/ ~HasFile THEN "baud" ELSE "attempt"

\* The first thing to do after the named module and the reset.
Job == IF ~HasFile THEN "baud" ELSE IF Write THEN "helper"
       ELSE IF conf.fast THEN "attempt" ELSE "slow"

\* What is skipped is skipped at once.
After(step) == IF step = "open" /\ conf.reset THEN "reset"
               ELSE IF step # "name" /\ conf.named THEN "name" ELSE Job

\* The image is read and validated, and the board found, before the connection.
Prepare ==
  /\ pc = "prepare"
  /\ \/ conf.task = "usage" /\ Finish("error") /\ trouble' = TRUE
     \/ conf.task # "usage" /\ Finish("error") /\ trouble' = TRUE
     \/ conf.task = "nothing" /\ Finish("ok") /\ UNCHANGED trouble
     \/ conf.task = "connect" /\ pc' = "open" /\ UNCHANGED <<exit, trouble>>
  /\ UNCHANGED <<conf, moduleName, bauds, isOpen, attempt>>

\* A port or a module is found and opened or asked for its version; then the
\* reset method, which the board may have wrong.
OpenConnection ==
  /\ pc = "open"
  /\ \/ /\ pc' = After("open") /\ isOpen' = ~WiFi
        /\ UNCHANGED <<exit, trouble>>
     \/ /\ Finish("error") /\ trouble' = TRUE
        /\ isOpen' \in {FALSE, ~WiFi}
  /\ UNCHANGED <<conf, moduleName, bauds, attempt>>

\* generateResetSignal: only the request to a module can fail.
ResetPropeller ==
  /\ pc = "reset"
  /\ \/ pc' = After("reset") /\ UNCHANGED <<exit, trouble>>
     \/ WiFi /\ Finish("error") /\ trouble' = TRUE
  /\ UNCHANGED <<conf, moduleName, bauds, isOpen, attempt>>

\* Only a module has a name.  It is told the name, then to save it: it may have
\* obeyed although the program fails.
SetName ==
  /\ pc = "name"
  /\ \/ /\ WiFi /\ conf.name # <<>> /\ moduleName' = conf.name
        /\ pc' = After("name") /\ UNCHANGED <<exit, trouble>>
     \/ /\ Finish("error") /\ trouble' = TRUE
        /\ moduleName' \in {moduleName} \cup (IF WiFi THEN {conf.name} ELSE {})
  /\ UNCHANGED <<conf, bauds, isOpen, attempt>>

\* The file to write is opened and the pins of the card are looked up.
PrepareHelper ==
  /\ pc = "helper"
  /\ \/ pc' = "attempt" /\ UNCHANGED <<exit, trouble>>
     \/ Finish("error") /\ trouble' = TRUE
  /\ UNCHANGED <<conf, moduleName, bauds, isOpen, attempt>>

-----------------------------------------------------------------------------
\* Loader::fastLoadImage.

\* loadImage with a response: the micro-loader is started at the loader's rate
\* and has named its first packet, or -1, or -2 if it does not answer.
DeliverLoader ==
  /\ pc = "attempt"
  /\ \E ok \in BOOLEAN :
       /\ SetBaudRate(LoaderBaud, ok)
       /\ \/ /\ ok /\ (WiFi \/ rate' = LoaderBaud)
             /\ pc' = "connect" /\ result' = "pending" /\ loader' = "waiting"
             /\ loaderBaud' = fastBaud /\ UNCHANGED trouble
          \/ /\ result' = "fatal" \/ (ok /\ result' = "stepDown")
             /\ pc' = "judge" /\ trouble' = TRUE
             /\ loader' \in {"none", "waiting", "wild"} /\ UNCHANGED loaderBaud
  /\ UNCHANGED <<conf, moduleName, exit, fastBaud, isOpen, committed, eeprom>>

\* What setBaudRate returns is not looked at.
OpenTransparent ==
  /\ pc = "connect"
  /\ \E set, ok \in BOOLEAN :
       /\ SetBaudRate(fastBaud, set) /\ Connect(ok)
       /\ IF ok THEN pc' = "transfer" /\ loader' = "rx" /\ UNCHANGED result
                ELSE pc' = "judge" /\ result' = "fatal" /\ UNCHANGED loader
       /\ trouble' = (trouble \/ ~set \/ (~ok /\ ~isOpen))
  /\ UNCHANGED <<conf, moduleName, exit, fastBaud, loaderBaud, committed, eeprom>>

Heard == rate = loaderBaud

\* The rest of fastLoadImageHelper, as LoadAttempt has it.  At a wrong rate no
\* packet is understood and the first one fails.
Transfer ==
  /\ pc = "transfer" /\ pc' = "judge"
  /\ Attempt!Return
  /\ ~Heard => result' = "stepDown"
  /\ trouble' = (trouble \/ result' = "fatal"
                         \/ (result' = "stepDown" /\ Heard /\ rate <= LineRate))
  /\ UNCHANGED <<conf, moduleName, exit, bauds, isOpen>>

\* The micro-loader's part, which may go on after the host has given up.
Propeller ==
  /\ (Heard /\ (Attempt!ProgramEEPROM \/ Attempt!Commit)) \/ Attempt!Leave
  /\ UNCHANGED <<conf, moduleName, pc, exit, bauds, isOpen, trouble>>

AfterLoad == IF Write THEN "card" ELSE "baud"

\* Slips of the loop: what is retried, at which rate, and how long.
JudgeAs(retried, lower, least) ==
  /\ pc = "judge"
  /\ \/ result = "ok" /\ pc' = AfterLoad /\ UNCHANGED <<exit, fastBaud>>
     \/ result \notin retried \cup {"ok"} /\ Finish("error") /\ UNCHANGED fastBaud
     \/ /\ result \in retried /\ fastBaud' = lower
        /\ pc' = IF fastBaud' >= least THEN "attempt" ELSE "slow"
        /\ UNCHANGED exit
  /\ UNCHANGED <<conf, moduleName, baudRate, rate, loaderBaud, isOpen, attempt, trouble>>

JudgeRetriesAll == JudgeAs({"fatal", "stepDown"}, fastBaud \div 2, MinBaud)
JudgeNeverRetries == JudgeAs({}, fastBaud, MinBaud)
JudgeStopsEarly == JudgeAs({"stepDown"}, fastBaud \div 2, MinBaud + 1)
JudgeSameRate == JudgeAs({"stepDown"}, fastBaud, MinBaud)

Judge ==
  /\ pc = "judge"
  /\ \/ result = "ok" /\ pc' = AfterLoad /\ UNCHANGED <<exit, fastBaud>>
     \/ result = "fatal" /\ Finish("error") /\ UNCHANGED fastBaud
     \/ /\ result = "stepDown" /\ fastBaud' = fastBaud \div 2
        /\ pc' = IF fastBaud' >= MinBaud THEN "attempt" ELSE "slow"
        /\ UNCHANGED exit
  /\ UNCHANGED <<conf, moduleName, baudRate, rate, loaderBaud, isOpen, attempt, trouble>>

-----------------------------------------------------------------------------
\* The single-stage loader: loadImage(image, imageSize, loadType).

\* The ROM of the Propeller programs the EEPROM if the packet says so, and
\* runs the image unless it was told to program only.
Serve(type) ==
  /\ committed' = TRUE
  /\ eeprom' = IF "program" \in type THEN "programmed" ELSE eeprom
  /\ loader' = IF "run" \in type THEN "run" ELSE "reset"

SlowTypeDefault == {"run"}         \* a slip: the default of loadImage's argument

\* The request to a module has no place for the load type.
SlowType == IF WiFi THEN {"run"} ELSE LoadType

TooLargeNever == FALSE             \* a slip: the check of the size is missing
TooLarge == WiFi /\ ~conf.fits

SlowLoad ==
  /\ pc = "slow" /\ pc' = "judge"
  /\ \/ /\ ~TooLarge
        /\ SetBaudRate(LoaderBaud, TRUE)
        /\ result' = "ok" /\ Serve(SlowType) /\ UNCHANGED trouble
     \/ /\ ~TooLarge
        /\ \E ok \in BOOLEAN : SetBaudRate(LoaderBaud, ok)
        /\ result' = "fatal" /\ trouble' = TRUE
        /\ loader' \in {"none", "run", "reset", "wild"} /\ UNCHANGED committed
        /\ eeprom' \in {eeprom} \cup
             (IF "program" \in SlowType THEN {"torn", "programmed"} ELSE {})
     \/ /\ TooLarge
        /\ result' = "fatal" /\ trouble' = TRUE
        /\ UNCHANGED <<baudRate, rate, loader, committed, eeprom>>
  /\ UNCHANGED <<conf, moduleName, exit, fastBaud, loaderBaud, isOpen>>

-----------------------------------------------------------------------------
\* The end of main.

\* WriteFileToSDCard after its load of the helper: the helper's rate, whose
\* setting nobody looks at, and the transfer that SDTransfer has in detail.
WriteCard ==
  /\ pc = "card"
  /\ \E set \in BOOLEAN : SetBaudRate(HelperBaud, set)
  /\ \/ rate' = HelperBaud /\ rate' # 0 /\ pc' = "baud" /\ UNCHANGED <<exit, trouble>>
     \/ Finish("error") /\ trouble' = TRUE
  /\ UNCHANGED <<conf, moduleName, fastBaud, loaderBaud, isOpen, attempt>>

SetTerminalBaud ==
  /\ pc = "baud"
  /\ \E ok \in BOOLEAN :
       /\ SetBaudRate(TerminalBaud, ok)
       /\ IF ok THEN pc' = (IF conf.terminal THEN "terminal" ELSE "leave") /\ UNCHANGED exit
                ELSE Finish("error")
       /\ trouble' = (trouble \/ ~ok)
  /\ UNCHANGED <<conf, moduleName, fastBaud, loaderBaud, isOpen, attempt>>

OpenTerminal ==
  /\ pc = "terminal"
  /\ \/ isOpen /\ pc' = "talking" /\ UNCHANGED <<exit, isOpen, trouble>>
     \/ /\ ~isOpen
        /\ \E ok \in BOOLEAN :
             /\ Connect(ok)
             /\ IF ok THEN pc' = "talking" /\ UNCHANGED exit ELSE Finish("error")
             /\ trouble' = (trouble \/ ~ok)
  /\ UNCHANGED <<conf, moduleName, bauds, attempt>>

\* The user leaves the terminal.
CloseTerminal ==
  /\ pc = "talking" /\ pc' = "leave"
  /\ UNCHANGED <<conf, moduleName, exit, bauds, isOpen, attempt, trouble>>

Disconnect ==
  /\ pc = "leave" /\ Finish("ok")
  /\ isOpen' = (isOpen /\ ~WiFi)
  /\ UNCHANGED <<conf, moduleName, bauds, attempt, trouble>>

-----------------------------------------------------------------------------
Begin == Prepare \/ OpenConnection \/ ResetPropeller \/ SetName \/ PrepareHelper
Load == DeliverLoader \/ OpenTransparent \/ Transfer \/ Judge \/ SlowLoad
End  == WriteCard \/ SetTerminalBaud \/ OpenTerminal \/ Disconnect
Host == Begin \/ Load \/ End
Next == Host \/ CloseTerminal \/ Propeller

\* The host is one thread whose every wait has a timeout; nothing is assumed
\* of the user or of the Propeller.
Spec == Init /\ [][Next]_vars /\ WF_vars(Host)

-----------------------------------------------------------------------------
\* Properties.

Beginning == {"prepare", "open", "reset", "name", "helper"}
Loading   == {"attempt", "connect", "transfer", "judge", "slow"}
Ending    == {"card", "baud", "terminal", "talking", "leave"}

TypeOK ==
  /\ IsRun(conf)
  /\ pc \in Beginning \cup Loading \cup Ending \cup {"done"}
  /\ exit \in {"none", "ok", "error"}
  /\ {fastBaud, baudRate, rate, loaderBaud} \subseteq Nat
  /\ isOpen \in BOOLEAN /\ trouble \in BOOLEAN /\ committed \in BOOLEAN
  /\ result \in {"pending", "ok", "fatal", "stepDown"}
  /\ loader \in {"none", "waiting", "rx", "run", "reset", "wild"}
  /\ eeprom \in {"old", "torn", "programmed"}

\* What was done so far, by the place the host has reached.
Untouched == eeprom = "old" /\ ~committed
Done == committed /\ ("program" \in LoadType => eeprom = "programmed")
Armed == committed => ("program" \in LoadType => eeprom = "programmed")

Progress ==
  /\ pc \in Beginning => result = "pending" /\ loader = "none"
  /\ pc = "helper" => Write
  /\ pc \in Beginning \cup {"attempt", "connect", "slow"} => Untouched
  /\ pc \in {"attempt", "slow"} => result = "stepDown" \/ loader = "none"
  /\ pc = "connect" => result = "pending" /\ loader = "waiting"
  /\ pc = "transfer" => result = "pending" /\ Armed
  /\ pc = "judge" => result # "pending"
  /\ pc = "judge" /\ result = "stepDown" => Untouched
  /\ pc \in Ending => result = (IF HasFile THEN "ok" ELSE "pending")
  /\ ~HasFile => loader = "none" /\ pc \notin Loading
  /\ Write => pc # "slow" \/ result = "stepDown"

\* A module's single-stage loader, which cannot program an EEPROM, is not asked to.
Honoured == WiFi /\ conf.fits => "program" \notin LoadType

Success ==
  /\ pc = "judge" /\ result = "ok" => Done
  /\ HasFile /\ pc \in Ending => Done

\* Over a serial port, whose rate the host knows and which stays open.
Serial ==
  /\ pc \in {"reset", "name", "helper"} \cup Loading \cup Ending => isOpen
  /\ baudRate \in Supported => rate = baudRate
  /\ pc = "judge" /\ result = "fatal" => trouble
  /\ exit = "error" => trouble
  /\ pc \in {"terminal", "talking"} => baudRate = TerminalBaud

IInv == TypeOK /\ Progress /\ (Honoured => Success) /\ (~WiFi => Serial)

\* "Download successful" is printed, and the program exits with 0, only after
\* a load that did what was asked, by whichever loader and at whatever rate.
SuccessIsReal == Honoured /\ HasFile /\ pc \in Ending => Done

\* Whatever is retried or falls back to the single-stage loader, the EEPROM is
\* written at most once, and never again after a launch was committed.
EEPROMWrittenOnce ==
  [][eeprom' # eeprom => eeprom = "old" /\ ~committed]_vars

\* A packet-level attempt starts from the state LoadAttempt presumes, though an
\* earlier one failed: that is what the -2 of fastLoadImageHelper is for.
StartsAfresh ==
  [][pc = "connect" /\ pc' = "transfer" => Attempt!Init']_vars

\* Over a serial port the program fails only if something failed that a lower
\* rate does not cure.
LowerRateHelps == exit = "error" => trouble
NoSpuriousFailure == ~WiFi => LowerRateHelps

\* The single-stage loader is used only when no rate of the halving sequence
\* was one that port and line can carry.
Usable(r) == r <= LineRate /\ (WiFi \/ r \in Supported)
Halved ==
  LET first == conf.fastBaud IN {first, first \div 2, first \div 4, first \div 8}
StepsDownFirst ==
  (FastLoader /\ pc = "slow" /\ ~trouble) => \A r \in Halved : r >= MinBaud => ~Usable(r)

\* In terminal mode the connection has the rate that main.cpp sets for the
\* program: over a serial port always, over a module after a two-stage load in
\* which no request was lost.
AtTerminalRate ==
  pc \in {"terminal", "talking"} /\ (WiFi \/ TerminalBaud \in Supported) => rate = TerminalBaud
TerminalRate == ~WiFi \/ (HasFile /\ FastLoader /\ ~trouble) => AtTerminalRate

\* The rates that have been given up, by the place the host has reached; and that
\* a rate the connection carries is the one both sides have.
Stepped ==
  FastLoader /\ ~trouble =>
    /\ pc \in Beginning => fastBaud = conf.fastBaud
    /\ pc \in Loading => fastBaud \in Halved \/ \A r \in Halved : fastBaud <= r
    /\ pc \in {"attempt", "connect", "transfer"} => \A r \in Halved :
          r > fastBaud /\ r >= MinBaud => ~Usable(r)
    /\ pc = "judge" /\ result = "stepDown" => \A r \in Halved :
          r >= fastBaud /\ r >= MinBaud => ~Usable(r)
    /\ pc = "slow" => \A r \in Halved : r >= MinBaud => ~Usable(r)
    /\ pc \in {"connect", "transfer"} => loaderBaud = fastBaud
    /\ pc = "transfer" /\ Usable(fastBaud) => rate = fastBaud

\* A module whose first fast rate is not the loader's own.  (If it is, m_baudRate
\* may hold it by chance, and the module is never told its rate.)
FirstRateIsSent == \A c \in Configs : c.wifi => c.fastBaud # LoaderBaud

\* Such a module has the rate the host remembers once it was set for the first
\* two-stage attempt, though m_baudRate held anything before.
Known ==
  WiFi /\ HasFile /\ FastLoader /\ ~trouble =>
    /\ pc \in {"attempt", "connect"} => rate = baudRate \/ fastBaud = conf.fastBaud
    /\ pc = "connect" => baudRate = LoaderBaud
    /\ pc \in {"transfer", "judge", "slow", "card"} => rate = baudRate
    /\ pc = "baud" => rate \in {baudRate, TerminalBaud}
    /\ pc \in {"terminal", "talking"} => rate = TerminalBaud

\* The load always comes to an end: the program exits or the terminal opens.
SessionEnds == <>(pc \in {"done", "talking"})
=============================================================================
