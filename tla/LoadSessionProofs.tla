-------------------------- MODULE LoadSessionProofs --------------------------
(***************************************************************************)
(* What holds of every load session, for every configuration of rates,    *)
(* line, image and connection.                                             *)
(***************************************************************************)
EXTENDS LoadSession, TLAPS

USE DEF MinBaud, WiFi, HasFile, Write, FastLoader, LoadType, Beginning, Loading, Ending

LEMMA InitInv == Init => IInv
<1> SUFFICES ASSUME Init PROVE IInv
  OBVIOUS
<1>1. IsRun(conf)
  BY Parameters DEF Init
<1>2. {baudRate, rate} \subseteq Nat /\ (~WiFi => rate = baudRate)
  BY Parameters DEF Init
<1>4. TypeOK
  <2>1. {fastBaud, baudRate, rate, loaderBaud} \subseteq Nat
    BY <1>1, <1>2 DEF Init, IsRun
  <2>. QED BY <1>1, <2>1 DEF TypeOK, Init
<1>5. Progress
  BY DEF Init, Progress, Untouched, Armed
<1>6. (Honoured => Success) /\ (~WiFi => Serial)
  BY <1>2 DEF Init, Success, Serial
<1>. QED BY <1>4, <1>5, <1>6 DEF IInv

\* setBaudRate keeps rates natural and, over a serial port, never remembers a
\* supported rate that the port does not have; afterwards it remembers b.
LEMMA SetBaudRateFact ==
  ASSUME NEW b \in Nat, NEW ok \in BOOLEAN, TypeOK, SetBaudRate(b, ok)
  PROVE  /\ {baudRate', rate'} \subseteq Nat
         /\ ok => baudRate' = b
         /\ ~WiFi => ok /\ ((baudRate \in Supported => rate = baudRate)
                              => (baudRate' \in Supported => rate' = baudRate'))
  BY DEF SetBaudRate, PortRate, DefaultBaud, TypeOK

LEMMA DeliverStep == IInv /\ DeliverLoader => IInv'
<1> SUFFICES ASSUME IInv, DeliverLoader PROVE IInv'
  OBVIOUS
<1>0. conf' = conf
  BY DEF DeliverLoader
<1>1. PICK ok \in BOOLEAN : SetBaudRate(LoaderBaud, ok)
  BY DEF DeliverLoader
<1>2. /\ {baudRate', rate'} \subseteq Nat
      /\ ~WiFi => ((baudRate \in Supported => rate = baudRate)
                              => (baudRate' \in Supported => rate' = baudRate'))
  BY <1>1, SetBaudRateFact, Parameters DEF IInv
<1>3. TypeOK'
  BY <1>2 DEF IInv, TypeOK, DeliverLoader
<1>4. Progress'
  BY DEF IInv, TypeOK, Progress, DeliverLoader, Untouched, Armed
<1>5. Honoured => Success'
  BY DEF DeliverLoader, Success, IInv, Progress
<1>6. ~WiFi => Serial'
  BY <1>2 DEF IInv, TypeOK, Serial, DeliverLoader
<1>. QED BY <1>0, <1>3, <1>4, <1>5, <1>6 DEF IInv, Honoured

LEMMA OpenStep == IInv /\ OpenTransparent => IInv'
<1> SUFFICES ASSUME IInv, OpenTransparent PROVE IInv'
  OBVIOUS
<1>0. conf' = conf
  BY DEF OpenTransparent
<1>1. PICK set \in BOOLEAN, ok \in BOOLEAN :
        /\ SetBaudRate(fastBaud, set) /\ Connect(ok)
        /\ IF ok THEN pc' = "transfer" /\ loader' = "rx" /\ UNCHANGED result
                 ELSE pc' = "judge" /\ result' = "fatal" /\ UNCHANGED loader
        /\ trouble' = (trouble \/ ~set \/ (~ok /\ ~isOpen))
  BY DEF OpenTransparent
<1>2. /\ {baudRate', rate'} \subseteq Nat
      /\ ~WiFi => set /\ ((baudRate \in Supported => rate = baudRate)
                              => (baudRate' \in Supported => rate' = baudRate'))
  BY <1>1, SetBaudRateFact DEF IInv, TypeOK
<1>3. isOpen' \in BOOLEAN /\ (~WiFi => ok = isOpen /\ isOpen' = isOpen)
  BY <1>1 DEF Connect, IInv, TypeOK
<1>4. pc = "connect" /\ UNCHANGED <<conf, exit, fastBaud, loaderBaud, committed, eeprom>>
  BY DEF OpenTransparent
<1>5. TypeOK'
  BY <1>1, <1>2, <1>3, <1>4 DEF IInv, TypeOK
<1>6. Progress'
  BY <1>1, <1>4 DEF IInv, Progress, Untouched, Armed
<1>7. Honoured => Success'
  BY <1>1, <1>4 DEF IInv, Progress, Success
<1>8. ~WiFi => Serial'
  BY <1>1, <1>2, <1>3, <1>4 DEF IInv, TypeOK, Serial, Progress
<1>. QED BY <1>0, <1>5, <1>6, <1>7, <1>8 DEF IInv, Honoured

LEMMA TransferStep == IInv /\ Transfer => IInv'
<1> SUFFICES ASSUME IInv, Transfer PROVE IInv'
  OBVIOUS
<1>0. conf' = conf
  BY DEF Transfer
<1>1. /\ result = "pending" /\ UNCHANGED <<loader, committed, eeprom>>
      /\ \/ result' = "ok" /\ committed
         \/ result' = "fatal"
         \/ result' = "stepDown" /\ ~committed /\ eeprom = "old"
  BY DEF Transfer, Attempt!Return
<1>2. TypeOK'
  BY <1>1 DEF IInv, TypeOK, Transfer, bauds
<1>3. Progress'
  BY <1>1 DEF IInv, Progress, Transfer, Untouched, Armed
<1>4. Honoured => Success'
  BY <1>1 DEF IInv, Progress, Success, Transfer, Armed, Done
<1>5. ~WiFi => Serial'
  BY <1>1 DEF IInv, TypeOK, Serial, Transfer, bauds
<1>. QED BY <1>0, <1>2, <1>3, <1>4, <1>5 DEF IInv, Honoured

LEMMA PropellerStep == IInv /\ Propeller => IInv'
<1> SUFFICES ASSUME IInv, Propeller PROVE IInv'
  OBVIOUS
<1>0. conf' = conf
  BY DEF Propeller
<1>1. UNCHANGED <<conf, pc, exit, bauds, isOpen, trouble, result>> /\ loader = "rx"
  BY DEF Propeller, Attempt!ProgramEEPROM, Attempt!Commit, Attempt!Leave, Attempt!Running
<1>2. /\ loader' \in {"rx", "run", "reset", "wild"}
      /\ committed' \in BOOLEAN /\ eeprom' \in {"old", "torn", "programmed"}
      /\ committed => committed' /\ eeprom' = eeprom
      /\ result \notin {"pending", "fatal"} => UNCHANGED <<committed, eeprom>>
      /\ committed' # committed => ("program" \in LoadType => eeprom' = "programmed")
  BY DEF Propeller, Attempt!ProgramEEPROM, Attempt!Commit, Attempt!Leave, Attempt!Running,
         IInv, TypeOK
<1>3. TypeOK'
  BY <1>1, <1>2 DEF IInv, TypeOK, bauds
<1>4. Progress'
  BY <1>1, <1>2 DEF IInv, TypeOK, Progress, Untouched, Armed
<1>5. Honoured => Success'
  BY <1>1, <1>2 DEF IInv, TypeOK, Progress, Success, Done
<1>6. ~WiFi => Serial'
  BY <1>1 DEF IInv, Serial, bauds
<1>. QED BY <1>0, <1>3, <1>4, <1>5, <1>6 DEF IInv, Honoured

LEMMA JudgeStep == IInv /\ Judge => IInv'
<1> SUFFICES ASSUME IInv, Judge PROVE IInv'
  OBVIOUS
<1>0. conf' = conf
  BY DEF Judge
<1>1. fastBaud' \in Nat
  BY DEF IInv, TypeOK, Judge
<1>2. TypeOK'
  BY <1>1 DEF IInv, TypeOK, Judge, AfterLoad, Finish, attempt
<1>3. Progress'
  BY DEF IInv, TypeOK, Progress, Judge, AfterLoad, Finish, attempt, Untouched, Armed
<1>4. Honoured => Success'
  BY DEF IInv, Success, Judge, AfterLoad, Finish, attempt, Done
<1>5. ~WiFi => Serial'
  BY DEF IInv, Serial, Judge, AfterLoad, Finish, attempt
<1>. QED BY <1>0, <1>2, <1>3, <1>4, <1>5 DEF IInv, Honoured

LEMMA SlowStep == IInv /\ SlowLoad => IInv'
<1> SUFFICES ASSUME IInv, SlowLoad PROVE IInv'
  OBVIOUS
<1>0. conf' = conf
  BY DEF SlowLoad
<1>1. /\ {baudRate', rate'} \subseteq Nat
      /\ ~WiFi => ((baudRate \in Supported => rate = baudRate)
                              => (baudRate' \in Supported => rate' = baudRate'))
  <2>1. CASE \E ok \in BOOLEAN : SetBaudRate(LoaderBaud, ok)
    BY <2>1, SetBaudRateFact, Parameters DEF IInv
  <2>2. CASE UNCHANGED <<baudRate, rate>>
    BY <2>2 DEF IInv, TypeOK
  <2>. QED BY <2>1, <2>2 DEF SlowLoad
<1>2. TypeOK'
  BY <1>1 DEF IInv, TypeOK, SlowLoad, Serve
<1>3. Progress'
  BY DEF IInv, TypeOK, Progress, SlowLoad, Serve
<1>4. Honoured => Success'
  BY DEF IInv, Progress, Success, SlowLoad, Serve, SlowType, TooLarge, Honoured, Done, Untouched
<1>5. ~WiFi => Serial'
  BY <1>1 DEF IInv, TypeOK, Serial, SlowLoad
<1>. QED BY <1>0, <1>2, <1>3, <1>4, <1>5 DEF IInv, Honoured

LEMMA EndStep ==
  IInv /\ (SetTerminalBaud \/ OpenTerminal \/ CloseTerminal \/ Disconnect) => IInv'
<1> SUFFICES ASSUME IInv, SetTerminalBaud \/ OpenTerminal \/ CloseTerminal \/ Disconnect
             PROVE IInv'
  OBVIOUS
<1>1. CASE SetTerminalBaud
  <2>1. PICK ok \in BOOLEAN :
          /\ SetBaudRate(TerminalBaud, ok)
          /\ IF ok THEN pc' = (IF conf.terminal THEN "terminal" ELSE "leave") /\ UNCHANGED exit
                   ELSE Finish("error")
          /\ trouble' = (trouble \/ ~ok)
    BY <1>1 DEF SetTerminalBaud
  <2>2. /\ {baudRate', rate'} \subseteq Nat
        /\ ok => baudRate' = TerminalBaud
        /\ ~WiFi => ok /\ ((baudRate \in Supported => rate = baudRate)
                              => (baudRate' \in Supported => rate' = baudRate'))
    BY <2>1, SetBaudRateFact, Parameters DEF IInv
  <2>3. pc = "baud" /\ UNCHANGED <<conf, fastBaud, loaderBaud, isOpen, result, loader, committed, eeprom>>
    BY <1>1 DEF SetTerminalBaud, attempt
  <2>4. TypeOK'
    BY <2>1, <2>2, <2>3 DEF IInv, TypeOK, Finish
  <2>7. ~WiFi => isOpen /\ ok
    BY <2>2, <2>3 DEF IInv, Serial
  <2>5. Progress' /\ (Honoured => Success')
    BY <2>1, <2>3 DEF IInv, Progress, Success, Done, Finish, Untouched, Armed
  <2>6. ~WiFi => Serial'
    BY <2>1, <2>2, <2>3, <2>7 DEF IInv, TypeOK, Serial, Finish
  <2>. QED BY <2>3, <2>4, <2>5, <2>6 DEF IInv, Honoured
<1>2. CASE OpenTerminal
  <2>1. /\ UNCHANGED <<conf, bauds, attempt>> /\ pc = "terminal" /\ isOpen' \in BOOLEAN
        /\ isOpen => isOpen' /\ exit' = exit
        /\ (pc' = "talking" /\ exit' = exit) \/ (pc' = "done" /\ exit' = "error" /\ ~isOpen)
        /\ trouble' \in BOOLEAN /\ (trouble => trouble')
    BY <1>2 DEF OpenTerminal, Connect, Finish, IInv, TypeOK
  <2>. QED BY <2>1 DEF bauds, attempt, IInv, TypeOK, Progress, Success, Serial, Done, Untouched,
                       Armed, Honoured
<1>3. CASE CloseTerminal
  BY <1>3 DEF CloseTerminal, bauds, attempt, IInv, TypeOK, Progress, Success,
              Serial, Done, Untouched, Armed, Honoured
<1>4. CASE Disconnect
  BY <1>4 DEF Disconnect, Finish, bauds, attempt, IInv, TypeOK, Progress, Success,
              Serial, Done, Untouched, Armed, Honoured
<1>. QED BY <1>1, <1>2, <1>3, <1>4

LEMMA BeginStep == IInv /\ Begin => IInv'
<1> SUFFICES ASSUME IInv, Begin PROVE IInv'
  OBVIOUS
<1>. USE DEF Finish, bauds, attempt, After, Job, IInv, TypeOK
<1>1. /\ UNCHANGED <<conf, bauds, attempt>> /\ pc \in Beginning
      /\ isOpen' \in BOOLEAN
      /\ \/ pc' \in Beginning \cup {"attempt", "slow", "baud"} /\ exit' = exit /\ trouble' = trouble
         \/ pc' = "done" /\ exit' \in {"ok", "error"} /\ trouble' \in BOOLEAN
  <2>1. CASE Prepare
    BY <2>1 DEF Prepare
  <2>2. CASE OpenConnection
    BY <2>2 DEF OpenConnection
  <2>3. CASE ResetPropeller
    BY <2>3 DEF ResetPropeller
  <2>4. CASE SetName
    BY <2>4 DEF SetName
  <2>5. CASE PrepareHelper
    BY <2>5 DEF PrepareHelper
  <2>. QED BY <2>1, <2>2, <2>3, <2>4, <2>5 DEF Begin
<1>2. /\ pc' \in {"attempt", "slow"} => HasFile
      /\ pc' = "baud" => ~HasFile
      /\ pc' = "slow" => ~Write
      /\ ~WiFi /\ pc' \notin {"open", "done"} => isOpen'
      /\ exit' = "error" => trouble' \/ (exit = "error" /\ trouble' = trouble)
      /\ pc' = "helper" => Write
  <2>1. CASE Prepare
    BY <2>1 DEF Prepare, Serial, Progress
  <2>2. CASE OpenConnection
    BY <2>2 DEF OpenConnection, Serial, Progress
  <2>3. CASE ResetPropeller
    BY <2>3 DEF ResetPropeller, Serial, Progress
  <2>4. CASE SetName
    BY <2>4 DEF SetName, Serial, Progress
  <2>5. CASE PrepareHelper
    BY <2>5 DEF PrepareHelper, Serial, Progress
  <2>. QED BY <2>1, <2>2, <2>3, <2>4, <2>5 DEF Begin
<1>3. TypeOK'
  BY <1>1
<1>4. Progress'
  BY <1>1, <1>2 DEF Progress, Untouched, Armed
<1>5. Honoured => Success'
  BY <1>1, <1>2 DEF Success
<1>6. ~WiFi => Serial'
  BY <1>1, <1>2 DEF Serial
<1>. QED BY <1>1, <1>3, <1>4, <1>5, <1>6 DEF Honoured

LEMMA CardStep == IInv /\ WriteCard => IInv'
<1> SUFFICES ASSUME IInv, WriteCard PROVE IInv'
  OBVIOUS
<1>1. PICK set \in BOOLEAN : SetBaudRate(HelperBaud, set)
  BY DEF WriteCard
<1>2. HelperBaud \in Nat
  BY Parameters DEF HelperBaud
<1>3. /\ {baudRate', rate'} \subseteq Nat
      /\ ~WiFi => ((baudRate \in Supported => rate = baudRate)
                              => (baudRate' \in Supported => rate' = baudRate'))
  BY <1>1, <1>2, SetBaudRateFact DEF IInv
<1>4. pc = "card" /\ UNCHANGED <<conf, fastBaud, loaderBaud, isOpen, attempt>>
  BY DEF WriteCard
<1>5. \/ pc' = "baud" /\ UNCHANGED <<exit, trouble>>
      \/ Finish("error") /\ trouble' = TRUE
  BY DEF WriteCard
<1>6. TypeOK' /\ Progress'
  BY <1>3, <1>4, <1>5 DEF IInv, TypeOK, Progress, Finish, attempt, Untouched, Armed
<1>7. (Honoured => Success') /\ (~WiFi => Serial')
  BY <1>3, <1>4, <1>5 DEF IInv, Success, Done, Serial, Finish, attempt
<1>. QED BY <1>4, <1>6, <1>7 DEF IInv, Honoured

LEMMA StutterStep == IInv /\ UNCHANGED vars => IInv'
  BY DEF vars, bauds, attempt, IInv, TypeOK, Progress, Success, Serial, Done, Untouched,
         Armed, Honoured

\* The inductive invariant: what was done to the Propeller by the place the
\* host has reached, and, over a serial port, that the host knows the rate.
THEOREM Invariance == Spec => []IInv
<1>1. IInv /\ [Next]_vars => IInv'
  BY BeginStep, CardStep, DeliverStep, OpenStep, TransferStep, PropellerStep, JudgeStep, SlowStep, EndStep,
     StutterStep DEF Next, Host, Load, End
<1>. QED BY InitInv, <1>1, PTL DEF Spec

\* "Download successful" is true: the image was committed and, if asked for,
\* programmed, unless a module's single-stage loader was asked to program.
THEOREM SuccessIsTrue == Spec => []SuccessIsReal
<1>1. IInv => SuccessIsReal
  BY DEF IInv, Success, SuccessIsReal
<1>. QED BY <1>1, Invariance, PTL

\* No retry and no fallback writes the EEPROM a second time or after a launch
\* was committed, over either connection.
THEOREM EEPROMIsWrittenOnce == Spec => EEPROMWrittenOnce
<1>1. IInv /\ [Next]_vars => [eeprom' # eeprom => eeprom = "old" /\ ~committed]_vars
  <2> SUFFICES ASSUME IInv, Next, eeprom' # eeprom PROVE eeprom = "old" /\ ~committed
    BY DEF vars, attempt
  <2>1. Propeller \/ SlowLoad
    <3>1. ~Begin
      BY DEF Begin, Prepare, OpenConnection, ResetPropeller, SetName, PrepareHelper, attempt
    <3>2. ~(DeliverLoader \/ OpenTransparent \/ Transfer \/ Judge)
      BY DEF DeliverLoader, OpenTransparent, Transfer, Judge, attempt, Attempt!Return
    <3>3. ~(End \/ CloseTerminal)
      BY DEF End, WriteCard, SetTerminalBaud, OpenTerminal, CloseTerminal, Disconnect, attempt
    <3>. QED BY <3>1, <3>2, <3>3 DEF Next, Host, Load
  <2>2. CASE Propeller
    BY <2>2 DEF Propeller, Attempt!ProgramEEPROM, Attempt!Commit, Attempt!Leave, Attempt!Running
  <2>3. CASE SlowLoad
    BY <2>3 DEF SlowLoad, IInv, Progress, Untouched
  <2>. QED BY <2>1, <2>2, <2>3
<1>. QED BY <1>1, Invariance, PTL DEF Spec, EEPROMWrittenOnce

\* Every packet-level attempt, the first or a retry, starts from LoadAttempt's
\* initial state.
THEOREM AttemptsStartAfresh == Spec => StartsAfresh
<1>1. IInv /\ [Next]_vars
        => [pc = "connect" /\ pc' = "transfer" => Attempt!Init']_vars
  <2> SUFFICES ASSUME IInv, Next, pc = "connect", pc' = "transfer" PROVE Attempt!Init'
    BY DEF vars
  <2>1. OpenTransparent
    BY DEF Next, Host, Begin, Load, End, Prepare, OpenConnection, ResetPropeller, SetName,
           PrepareHelper, WriteCard, Finish, After, Job, DeliverLoader, Transfer, Judge, SlowLoad, SetTerminalBaud,
           OpenTerminal, CloseTerminal, Disconnect, Propeller
  <2>. QED BY <2>1 DEF OpenTransparent, IInv, Progress, Untouched, Attempt!Init
<1>. QED BY <1>1, Invariance, PTL DEF Spec, StartsAfresh

\* Over a serial port the program fails only if something failed that a lower
\* rate would not cure.
THEOREM SerialFailureIsReal == Spec => []NoSpuriousFailure
<1>1. IInv => NoSpuriousFailure
  BY DEF IInv, Serial, NoSpuriousFailure, LowerRateHelps
<1>. QED BY <1>1, Invariance, PTL

\* Over a serial port the terminal has the rate set for the program, whatever
\* rates were tried before.
THEOREM SerialTerminalRate == Spec => [](~WiFi => AtTerminalRate)
<1>1. IInv => (~WiFi => AtTerminalRate)
  BY DEF IInv, Serial, AtTerminalRate
<1>. QED BY <1>1, Invariance, PTL

-----------------------------------------------------------------------------
(***************************************************************************)
(* The rates that are tried, and the rate that the terminal gets.          *)
(***************************************************************************)

\* A rate of the sequence above the next one is not below the present one.
LEMMA Halving ==
  ASSUME NEW first \in Nat, NEW b \in Nat,
         LET rates == {first, first \div 2, first \div 4, first \div 8}
         IN  b \in rates \/ \A r \in rates : b <= r
  PROVE  LET rates == {first, first \div 2, first \div 4, first \div 8}
         IN  /\ b \div 2 \in rates \/ \A r \in rates : b \div 2 <= r
             /\ \A r \in rates : r > b \div 2 => r >= b
OBVIOUS

LEMMA ConfStays == [Next]_vars => conf' = conf
<1>1. Begin => conf' = conf
  BY DEF Begin, Prepare, OpenConnection, ResetPropeller, SetName, PrepareHelper
<1>2. Load => conf' = conf
  <2>1. DeliverLoader \/ OpenTransparent => conf' = conf
    BY DEF DeliverLoader, OpenTransparent
  <2>2. Transfer \/ Judge => conf' = conf
    BY DEF Transfer, Judge
  <2>3. SlowLoad => conf' = conf
    BY DEF SlowLoad
  <2>. QED BY <2>1, <2>2, <2>3 DEF Load
<1>3. End \/ CloseTerminal \/ Propeller \/ UNCHANGED vars => conf' = conf
  BY DEF End, WriteCard, SetTerminalBaud, OpenTerminal, CloseTerminal, Disconnect, Propeller, vars
<1>. QED BY <1>1, <1>2, <1>3 DEF Next, Host

LEMMA PaceStep ==
  ASSUME WiFi => conf.fastBaud # LoaderBaud, IInv, Stepped, Known, [Next]_vars
  PROVE  Stepped' /\ Known'
<1>. USE DEF Finish, bauds, attempt
<1>1. /\ conf' = conf /\ Halved' = Halved /\ conf.fastBaud \in Nat /\ fastBaud \in Nat
      /\ LoaderBaud \in Nat /\ LoaderBaud # 0 /\ TerminalBaud # 0
      /\ trouble \in BOOLEAN /\ {baudRate, rate} \subseteq Nat
      /\ \A r \in Nat : Usable(r)' <=> Usable(r)
      /\ Halved \subseteq Nat
  <2>1. conf' = conf
    BY ConfStays
  <2>2. conf.fastBaud \in Nat /\ fastBaud \in Nat /\ {baudRate, rate} \subseteq Nat /\ trouble \in BOOLEAN
    BY DEF IInv, TypeOK, IsRun
  <2>. QED BY <2>1, <2>2, Parameters DEF Halved, Usable
<1>2. CASE Begin
  <2>1. /\ UNCHANGED <<bauds, attempt>> /\ pc \in Beginning
        /\ pc' \in Beginning \cup {"attempt", "slow", "baud", "done"}
        /\ pc' # "done" => trouble' = trouble
        /\ pc' = "slow" => ~FastLoader
        /\ pc' = "baud" => ~HasFile
    <3>1. CASE Prepare
      BY <3>1 DEF Prepare
    <3>2. CASE OpenConnection
      BY <3>2 DEF OpenConnection, After, Job
    <3>3. CASE ResetPropeller
      BY <3>3 DEF ResetPropeller, After, Job
    <3>4. CASE SetName
      BY <3>4 DEF SetName, After, Job
    <3>5. CASE PrepareHelper
      BY <3>5 DEF PrepareHelper
    <3>. QED BY <1>2, <3>1, <3>2, <3>3, <3>4, <3>5 DEF Begin
  <2>2. \A r \in Halved : ~(r > conf.fastBaud)
    BY <1>1 DEF Halved
  <2>3. conf.fastBaud \in Halved
    BY DEF Halved
  <2>4. Stepped'
    BY <1>1, <2>1, <2>2, <2>3 DEF Stepped
  <2>5. Known'
    BY <1>1, <2>1 DEF Known, Stepped
  <2>. QED BY <2>4, <2>5
<1>3. CASE DeliverLoader
  <2>1. PICK ok \in BOOLEAN :
          /\ SetBaudRate(LoaderBaud, ok)
          /\ \/ /\ ok /\ (WiFi \/ rate' = LoaderBaud)
                /\ pc' = "connect" /\ result' = "pending" /\ loader' = "waiting"
                /\ loaderBaud' = fastBaud /\ UNCHANGED trouble
             \/ /\ result' = "fatal" \/ (ok /\ result' = "stepDown")
                /\ pc' = "judge" /\ trouble' = TRUE
                /\ loader' \in {"none", "waiting", "wild"} /\ UNCHANGED loaderBaud
    BY <1>3 DEF DeliverLoader
  <2>2. pc = "attempt" /\ fastBaud' = fastBaud
    BY <1>3 DEF DeliverLoader
  <2>3. CASE trouble'
    BY <2>3, <1>1 DEF Stepped, Known
  <2>4. CASE ~trouble'
    <3>1. /\ ~trouble /\ pc' = "connect" /\ loaderBaud' = fastBaud
          /\ SetBaudRate(LoaderBaud, TRUE)
      <4>1. ~trouble /\ pc' = "connect" /\ loaderBaud' = fastBaud /\ ok = TRUE
        BY <2>1, <2>4
      <4>. QED BY <4>1, <2>1
    <3>2. baudRate' = LoaderBaud /\ (WiFi => rate' = LoaderBaud \/ UNCHANGED <<baudRate, rate>>)
      BY <3>1 DEF SetBaudRate, PortRate
    <3>3. Stepped'
      BY <1>1, <2>2, <3>1 DEF Stepped
    <3>4. Known'
      BY <1>1, <2>2, <3>1, <3>2 DEF Known
    <3>. QED BY <3>3, <3>4
  <2>. QED BY <2>3, <2>4
<1>4. CASE OpenTransparent
  <2>1. PICK set \in BOOLEAN, ok \in BOOLEAN :
          /\ SetBaudRate(fastBaud, set) /\ Connect(ok)
          /\ IF ok THEN pc' = "transfer" /\ loader' = "rx" /\ UNCHANGED result
                   ELSE pc' = "judge" /\ result' = "fatal" /\ UNCHANGED loader
          /\ trouble' = (trouble \/ ~set \/ (~ok /\ ~isOpen))
    BY <1>4 DEF OpenTransparent
  <2>2. pc = "connect" /\ fastBaud' = fastBaud /\ loaderBaud' = loaderBaud
    BY <1>4 DEF OpenTransparent
  <2>3. CASE trouble'
    BY <2>3, <1>1 DEF Stepped, Known
  <2>4. CASE ~trouble'
    <3>1. ~trouble /\ SetBaudRate(fastBaud, TRUE)
      BY <2>1, <2>4, <1>1
    <3>2. WiFi /\ HasFile /\ FastLoader => rate' = fastBaud /\ baudRate' = fastBaud
      BY <1>1, <2>2, <3>1 DEF SetBaudRate, PortRate, Known
    <3>3. ~WiFi /\ fastBaud \in Supported => rate' = fastBaud
      BY <3>1 DEF SetBaudRate, PortRate, IInv, Serial
    <3>4. HasFile
      BY <2>2 DEF IInv, Progress
    <3>5. Stepped'
      BY <1>1, <2>1, <2>2, <3>1, <3>2, <3>3, <3>4 DEF Stepped, Usable
    <3>6. Known'
      BY <1>1, <2>1, <3>1, <3>2 DEF Known
    <3>. QED BY <3>5, <3>6
  <2>. QED BY <2>3, <2>4
<1>5. CASE Transfer
  <2>1. /\ pc = "transfer" /\ pc' = "judge" /\ UNCHANGED <<bauds, isOpen>>
        /\ trouble' = (trouble \/ result' = "fatal"
                               \/ (result' = "stepDown" /\ Heard /\ rate <= LineRate))
    BY <1>5 DEF Transfer
  <2>2. FastLoader /\ ~trouble' /\ result' = "stepDown" => ~Usable(fastBaud)
    <3>1. SUFFICES ASSUME FastLoader, ~trouble', result' = "stepDown", Usable(fastBaud) PROVE FALSE
      OBVIOUS
    <3>2. ~trouble /\ ~(Heard /\ rate <= LineRate)
      BY <2>1, <3>1
    <3>3. rate = fastBaud /\ loaderBaud = fastBaud
      BY <2>1, <3>1, <3>2 DEF Stepped
    <3>. QED BY <3>1, <3>2, <3>3 DEF Heard, Usable
  <2>3. Stepped'
    <3>1. SUFFICES ASSUME FastLoader, ~trouble', result' = "stepDown", NEW r \in Halved,
                          r >= fastBaud, r >= MinBaud
                   PROVE  ~Usable(r)
      BY <1>1, <2>1 DEF Stepped
    <3>2. CASE r = fastBaud
      BY <2>2, <3>1, <3>2
    <3>3. CASE r > fastBaud
      BY <2>1, <3>1, <3>3, <1>1 DEF Stepped
    <3>. QED BY <3>1, <3>2, <3>3, <1>1
  <2>4. Known'
    BY <1>1, <2>1 DEF Known
  <2>. QED BY <2>3, <2>4
<1>6. CASE Judge
  <2>1. /\ pc = "judge" /\ UNCHANGED <<baudRate, rate, loaderBaud, isOpen, attempt, trouble>>
        /\ \/ result = "ok" /\ pc' = AfterLoad /\ UNCHANGED fastBaud
           \/ result = "fatal" /\ pc' = "done"
           \/ /\ result = "stepDown" /\ fastBaud' = fastBaud \div 2
              /\ pc' = IF fastBaud' >= MinBaud THEN "attempt" ELSE "slow"
    BY <1>6 DEF Judge
  <2>2. CASE result = "ok"
    BY <1>1, <2>1, <2>2 DEF Stepped, Known, AfterLoad
  <2>3. CASE result = "fatal"
    BY <1>1, <2>1, <2>3 DEF Stepped, Known
  <2>4. CASE result = "stepDown"
    <3>1. Known'
      BY <1>1, <2>1, <2>4 DEF Known
    <3>2. FastLoader /\ ~trouble =>
            /\ fastBaud' \in Halved \/ \A r \in Halved : fastBaud' <= r
            /\ \A r \in Halved : r > fastBaud' => r >= fastBaud
      BY <1>1, <2>1, <2>4, Halving DEF Stepped, Halved
    <3>3. FastLoader /\ ~trouble => \A r \in Halved : r > fastBaud' /\ r >= MinBaud => ~Usable(r)
      BY <2>1, <2>4, <3>2 DEF Stepped
    <3>4. FastLoader /\ ~trouble /\ pc' = "slow" => \A r \in Halved : r >= MinBaud => ~Usable(r)
      <4>1. fastBaud' \in Nat
        BY <1>1, <2>1, <2>4
      <4>. QED BY <4>1, <3>3, <2>1, <2>4, <1>1
    <3>5. Stepped'
      BY <1>1, <2>1, <2>4, <3>2, <3>3, <3>4 DEF Stepped
    <3>. QED BY <3>1, <3>5
  <2>. QED BY <2>1, <2>2, <2>3, <2>4
<1>7. CASE SlowLoad
  <2>0. /\ pc = "slow" /\ pc' = "judge" /\ result' \in {"ok", "fatal"} /\ fastBaud' = fastBaud
        /\ trouble' = TRUE \/ (trouble' = trouble /\ SetBaudRate(LoaderBaud, TRUE))
    BY <1>7 DEF SlowLoad
  <2>1. /\ pc = "slow" /\ pc' = "judge" /\ result' # "stepDown" /\ fastBaud' = fastBaud
        /\ ~trouble' => ~trouble /\ SetBaudRate(LoaderBaud, TRUE)
    BY <2>0, <1>1
  <2>2. Stepped'
    BY <1>1, <2>1 DEF Stepped
  <2>3. Known'
    BY <1>1, <2>1 DEF Known, SetBaudRate, PortRate
  <2>. QED BY <2>2, <2>3
<1>8. CASE WriteCard
  <2>1. PICK set \in BOOLEAN : SetBaudRate(HelperBaud, set)
    BY <1>8 DEF WriteCard
  <2>2. /\ \/ rate' = HelperBaud /\ rate' # 0 /\ pc' = "baud" /\ UNCHANGED trouble
           \/ pc' = "done"
        /\ fastBaud' = fastBaud
    BY <1>8 DEF WriteCard
  <2>3. pc' = "baud" => rate' = TerminalBaud
    BY <2>2 DEF HelperBaud
  <2>. QED BY <1>1, <2>2, <2>3 DEF Stepped, Known
<1>9. CASE SetTerminalBaud
  <2>1. PICK ok \in BOOLEAN :
          /\ SetBaudRate(TerminalBaud, ok)
          /\ IF ok THEN pc' = (IF conf.terminal THEN "terminal" ELSE "leave") /\ UNCHANGED exit
                   ELSE Finish("error")
          /\ trouble' = (trouble \/ ~ok)
    BY <1>9 DEF SetTerminalBaud
  <2>2. pc = "baud"
    BY <1>9 DEF SetTerminalBaud
  <2>3. WiFi /\ HasFile /\ FastLoader /\ ~trouble' => rate' = TerminalBaud
    BY <1>1, <2>1, <2>2 DEF Known, SetBaudRate, PortRate
  <2>. QED BY <1>1, <2>1, <2>3 DEF Stepped, Known
<1>10. CASE OpenTerminal \/ CloseTerminal \/ Disconnect
  <2>1. /\ UNCHANGED bauds /\ pc \in {"terminal", "talking", "leave"}
        /\ pc' \in {"talking", "leave", "done"} /\ (~trouble' => ~trouble)
        /\ pc' = "talking" => pc = "terminal"
    <3>1. CASE OpenTerminal
      BY <3>1, <1>1 DEF OpenTerminal
    <3>2. CASE CloseTerminal
      BY <3>2 DEF CloseTerminal
    <3>3. CASE Disconnect
      BY <3>3 DEF Disconnect
    <3>. QED BY <1>10, <3>1, <3>2, <3>3
  <2>. QED BY <1>1, <2>1 DEF Stepped, Known
<1>11. CASE Propeller
  <2>1. UNCHANGED <<pc, bauds, trouble, result>>
    BY <1>11 DEF Propeller, Attempt!ProgramEEPROM, Attempt!Commit, Attempt!Leave
  <2>. QED BY <1>1, <2>1 DEF Stepped, Known
<1>12. CASE UNCHANGED vars
  BY <1>1, <1>12 DEF vars, Stepped, Known
<1>. QED BY <1>2, <1>3, <1>4, <1>5, <1>6, <1>7, <1>8, <1>9, <1>10, <1>11, <1>12
         DEF Next, Host, Load, End

LEMMA Pace == ASSUME FirstRateIsSent PROVE Spec => [](Stepped /\ Known)
<1>1. Init => Stepped /\ Known /\ conf \in Configs
  BY DEF Init, Stepped, Known
<1>2. conf \in Configs /\ [Next]_vars => (conf \in Configs)'
  BY ConfStays
<1>3. conf \in Configs => (WiFi => conf.fastBaud # LoaderBaud)
  BY DEF FirstRateIsSent
<1>4. conf \in Configs /\ IInv /\ Stepped /\ Known /\ [Next]_vars => Stepped' /\ Known'
  BY <1>3, PaceStep
<1>. QED BY <1>1, <1>2, <1>4, Invariance, PTL DEF Spec

\* The single-stage loader is the last resort of fastLoadImage: when it is used
\* every rate of the halving sequence was one that the connection cannot carry.
THEOREM LowerRatesComeFirst == ASSUME FirstRateIsSent PROVE Spec => []StepsDownFirst
<1>1. Stepped => StepsDownFirst
  BY DEF Stepped, StepsDownFirst
<1>. QED BY <1>1, Pace, PTL

\* The terminal has the program's rate, over a serial port whatever was loaded
\* and over a module after a two-stage load in which no request was lost.
THEOREM TerminalGetsItsRate == ASSUME FirstRateIsSent PROVE Spec => []TerminalRate
<1>1. IInv /\ Known => TerminalRate
  BY DEF IInv, Serial, Known, TerminalRate, AtTerminalRate
<1>. QED BY <1>1, Invariance, Pace, PTL
=============================================================================
