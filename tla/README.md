# Verification of PropLoader

PropLoader loads a program into a Parallax Propeller over a serial line or a
WiFi module, optionally programs it into the EEPROM, copies files to the SD card
of the board, and then acts as a terminal. This directory holds TLA+ models of
it, configurations for TLC and proofs checked by TLAPS. Paths below are relative
to the repository; `fastloader.cpp` and the like are in `src/`.

## 1. The system

| Component | State it keeps | Operations | Talks to |
|---|---|---|---|
| command line (`main.cpp`) | options, one connection, one loader | take the arguments apart, clean a module's name | everything below |
| board configuration (`config.c`, `expr.c`, `system.c`) | a chain of boards and their fields | find and parse a board file, look up, evaluate | command line, load session |
| image files (`loader.cpp`, `propimage.cpp`, `loadelf.c`) | image bytes | read, validate, patch the clock, checksum | load session |
| module discovery (`wifipropconnection.cpp`, `sock_posix.c`) | modules found, tries | broadcast, collect replies, check the version | modules |
| load session (`main.cpp`, `fastloader.cpp`) | baud rates, results, exit status | open, reset, name, attempt, step down, fall back, send a file, terminal | attempt, connection |
| serial connection (`serialpropconnection.cpp`, `serial_posix.c`) | open port, baud rate | open, connect, send, receive, reset, set the baud rate | load session |
| WiFi connection (`wifipropconnection.cpp`, `sock_posix.c`) | telnet socket, `m_baudRate` | HTTP requests, telnet connect, naming | load session, module |
| ROM boot protocol (`serialloader.cpp`) | handshake bits, polling counters | `loadImage` | serial port, Propeller ROM |
| load attempt (`fastLoadImageHelper`, `transmitPacket`) | `packetID`, checksum, tries, tag | start the second stage, send packets, verify, program, launch | connection, micro-loader |
| micro-loader (`spin/IP_Loader.spin`) | `ExpectedID`, `Checksum`, `MemAddr`, packet buffer, `TOVector` | acknowledge, copy, execute a packet, time out | host, RAM, EEPROM |
| SD transfer (`packet.cpp`, `packet_driver.spin`, `sd_helper.spin`) | two packet buffers, mailboxes, an open file | initial ACK, send a packet, write a file | host, SD file system |
| SD file system (`fsrw.spin`) | cluster chain, buffers, directory entry | mount, open, write, flush, close | SD block driver |
| terminal (`serial_posix.c`, `sock_posix.c`, `serial_mingw.c`) | escape states | copy bytes both ways, detect the exit sequence | user, program |

Within PropLoader there is one thread. The concurrency is between the host and
the Propeller or the WiFi modules, and between the cogs of the Propeller, over
links that lose, delay and damage what they carry. The hard parts are therefore:

* timeouts and retries on both sides that start at different moments;
* replies that arrive after the host stopped waiting for them;
* packet IDs that double as results, and acknowledgements that do not say of what;
* packets without a checksum, so that what was copied may not be what was sent;
* a launch that is armed before the host hears of it;
* a session whose attempts share one connection object;
* buffers handed between cogs through hub RAM without locks;
* a file system that is interrupted at any write;
* flags, fields and settings that several arguments and files set, in any order.

`PROJECT.json` lists these hazards at the line where each bites, with the
properties that cover it.

What makes each part correct:

* **command line and load session**: what is done is what was asked for, by
  whichever loader and at whatever rate; a retry repeats nothing that had an
  effect; lower rates are tried before the slow loader; the terminal gets the
  program's rate.
* **board configuration**: the field in force is the one that counts by its
  place, and has the value that its text means.
* **image files**: what was validated is still valid when it is sent, and nothing
  but the clock has changed.
* **discovery**: a module that is missing was silent in every round, nobody is
  listed twice, the search ends.
* **ROM boot protocol**: the ROM reads from the pulses what the host meant; a
  success is one that the ROM has verified.
* **load attempt and micro-loader**: nothing is programmed or launched but RAM
  that sums to the host's checksum; a reported success is a committed launch; no
  retransmission is executed twice; a failure has a cause; both sides come to an
  end.
* **SD transfer**: the helper handles the packets the host sent, in order and
  with their own payload; an acknowledgement means that the packet before it has
  been dealt with; success means a complete, closed file.
* **SD file system**: at every moment the card holds disjoint chains that lead to
  allocated clusters, so that a power failure costs at most the file being
  written; a closed file is complete; other files are untouched.
* **terminal**: the screen shows the stream however its bytes arrive.

## 2. Modules

| Module | Models | Extends / uses |
|---|---|---|
| `CommandLine` | the arguments as functions: options, task, name of a module | |
| `Expression` | the expressions of board files: tokens, the recursive descent, C's arithmetic | |
| `PropImage` | program images, their validation and checksum, Spin and ELF files | |
| `Board` | from the command line to the image that is loaded: board file, settings, clock | `Expression`, `PropImage` |
| `Discovery` | finding WiFi modules over a lossy network, the version check | |
| `LoadSession` | a run of the program: connection, reset, name, attempts, fallback, card, terminal | `INSTANCE LoadAttempt` |
| `LoadAttempt` | abstract specification: what an attempt promises to the session | |
| `FastLoad` | one attempt of the two-stage load at packet level: host, micro-loader, link | `INSTANCE LoadAttempt` |
| `RomEncoding` | the bytes of `serialloader.cpp` and how the ROM reads them as pulses | |
| `RomLoad` | the single-stage load over a serial port: host, line, ROM | `RomEncoding`, `INSTANCE LoadAttempt`, `INSTANCE PropImage` |
| `SDTransfer` | a file on its way to the card: host, driver cog, helper cog, line | `INSTANCE FileStore` |
| `FileStore` | abstract specification: a file stored block by block | |
| `Fsrw` | one file written to a FAT volume, with power failures | |
| `Terminal` | terminal mode, for POSIX and for Windows | |
| `MCLoadSession` | the configurations of `LoadSession` as what `CommandLine` makes of argument lists, and `AsAsked` | `LoadSession`, `CommandLine` |
| `MCBoard`, `MCDiscovery`, `MCFastLoad`, `MCFsrw`, `MCRomLoad` | values of constants for TLC | the module they instantiate |
| `FastLoadProofs`, `LoadSessionProofs`, `SDTransferProofs`, `FsrwProofs`, `DiscoveryProofs`, `RomLoadProofs`, `TerminalProofs` | theorems and proofs | the module they are about |
| `Induction` | lemmas: induction over numbers, functions defined by recursion | used by `FsrwProofs`, `RomLoadProofs`, `TerminalProofs` |

How they compose: `CommandLine` turns arguments into the configurations of
`LoadSession`, whose attempts behave as `LoadAttempt`. Both loaders implement
`LoadAttempt`: `FastLoad` and `RomLoad` (theorems `AttemptIsImplemented`,
properties `AttemptSpec`). What `FastLoad` presumes, that
an attempt starts with the EEPROM untouched and nothing committed, is what
`LoadSession` shows of every attempt after the first (theorem
`AttemptsStartAfresh`). `LoadSession`'s `WriteCard` is `SDTransfer` in one step;
`SDTransfer` treats an SD operation as one step that succeeds, fails or never
ends; `Fsrw` opens up the step that writes. `Board` is what `LoadSession` calls
`Prepare` and the first lines of `fastLoadImage`, and `Discovery` its
`OpenConnection` without an address.

Definitions marked "a slip" in the modules are not part of any specification.
Each is a plausible mistake in the definition that follows it, and for every
property there is one that makes TLC find the property violated (`mutants` in
`PROJECT.json`).

## 3. The modules and the code

### FastLoad

State: `phase`, `packetID`, `tries` and `tag` are the position in
`fastLoadImageHelper` and the locals of `transmitPacket`; `expectedID`,
`checksum`, `armed` (`TOVector`) and `launchCode` (what the packet buffer holds)
are the registers of `IP_Loader.spin`; `ram` is the sequence of chunks copied;
`toTarget` and `toHost` are the line. Actions:

| Action | Code |
|---|---|
| `Send`, `SendFails` | a transmission in the loop of `transmitPacket`, `fastloader.cpp` 389-427; `launchNow` waits for no reply |
| `Receive` with `Acceptable` | reading ID and tag and comparing them, 406-420 |
| `Judge` with `Advance`, `Abort`, `Failure` | the checks of `fastLoadImageHelper` after each phase, 301-358 |
| `Timeout`, `LateReply`, `ShortRead`, `GiveUp` | the receive functions of `serial_posix.c` 427-465 and `sock_posix.c` 305-330; the end of the loop, 431-436 |
| `Deliver`: `Refuse`, `Copy`, `Executes` | a packet received, acknowledged, copied or executed, `IP_Loader.spin` 101-172 |
| `RAMFinalizeVerify`, `EEPROMProgramVerify`, `EEPROMFails`, `ReadyToLaunch`, `LaunchNow`, `Launch` | the executable packets, 231-485 |
| `TimedOut`, `Failsafe`, `Leave` | the failsafe timeout and its redirected vector, 153-157 |

`PROJECT.json` gives the exact lines of each definition.

Faults are: a lost packet or reply, a damaged or truncated packet, a damaged
reply, two packets received as one, a late answer, a short read of a socket
(`ShortReads`, after which every later reply is read shifted), a micro-loader
that executes damaged code ("wild"), an EEPROM that fails while it is programmed.
Abstractions:

* A tag is fresh and equals no packet ID (`rand()` could repeat, once in 2^31).
* A damaged packet may hold any ID of `GarbageIDs`, never a valid executable
  packet; a damaged reply has a wrong tag.
* RAM is a sequence of chunks and its sum an operator, `Sum`, about which nothing
  is assumed but that it is positive. Damage that happens to keep the sum cannot
  be caught by the protocol and is outside of `LaunchVerified`.
* `launchNow` is one long, so that it cannot overwrite `:LaunchCode`, which is
  further up in the buffer.
* Time: the micro-loader's failsafe (2 s) starts at its own acknowledgement, the
  host's timeout (2000 ms) when it sends. For a lost packet the former expires
  first; for a lost acknowledgement they race. The 8 s that the host waits for
  the EEPROM race in the same way.

### CommandLine and LoadSession

An argument is a record of a switch and its value; `Argument` is one turn of the
loop over `argv` (`main.cpp` 126-274), `Task` and `Type` the decisions after it,
`CleanName` the cleaning of a module's name (483-518). `LoadSession` starts from
their result. Its state: the rate in force, the rate the host remembers
(`m_baudRate`), the rate the micro-loader was patched with, the open port or
telnet socket, the module's name and the attempt. `Prepare`, `OpenConnection`,
`ResetPropeller`, `SetName` and `PrepareHelper` are the beginning of `main`, in
its order (`After`, `Job`), with every early return; `DeliverLoader` is the ROM's
or the module's part of `fastLoadImageHelper`, `OpenTransparent` its
`setBaudRate` and `connect`, `Transfer` the rest of it (as `LoadAttempt`),
`Judge` and `SlowLoad` the loop of `fastLoadImage`, `WriteCard` the part of
`WriteFileToSDCard` after the load of the helper, the others the end of `main`.
`trouble` is a history variable: something failed that no rate the line carries
would cure.

* The serial `setBaudRate` always returns 0, and leaves the port as it is when
  the system does not accept the rate (`Supported`); 0 means 115200. A module's
  request may fail before or after the module obeyed.
* `WiFiPropConnection` does not initialise `m_baudRate`: its first value is any
  of `Rates`.
* A board without a baud rate gives the SD helper the rate 0, for which the host
  then asks the port and gets its default: a file is never written with it.
* The ROM detects the rate by itself. The HTTP load happens at the loader's rate
  (the module is external and modelled from how it is used).
* A serial port is taken to have the loader's rate once opened.
* `LineRate` is the highest rate the line carries reliably; above it an attempt
  may fail with -2 at any time without `trouble`.
* A request for a rate may be obeyed and its answer lost. `m_baudRate` then
  differs from the module's rate and a later request for it is skipped: after
  such a loss the terminal may have another rate than the program's, and
  `TerminalRate` claims nothing of that case.
* A name may begin with a hyphen: leading ones are skipped before the characters
  that are not allowed are dropped. `AsAsked` says what does hold of a name.

### Expression, PropImage and Board

`Expression` is the parser as it is written: a function per level with one token
of lookahead, so that what follows an expression is ignored ("80 mhz" is 80),
both operands of `||` are evaluated, and a condition after a condition groups to
the left. A text is a sequence of symbols and `Tokens` joins what `GetToken`
joins. Numbers are C's `int` as far as no value leaves 30 bits; a shift that C
leaves undefined has a status of its own. A name is resolved by `FindSymbol`
through the whole chain; names that refer to each other in a circle exhaust the
stack ("endless"), and `LoadImage` then ends in "crashed".

`PropImage` has the bytes of an image, `Validate` with its checks in order, and
`UpdateChecksum`. `ReadElfFile` lays the segments out and makes the header fit.

`Board` reads the image, finds the board file along the include path, parses it
line by line into the board and its sections, selects the section, puts the
settings of -D before it and patches the clock. Notes on what the code does:

* `updateChecksum` counts the call frame that the ROM will add. An image that
  already holds it, as an .eeprom file does, gets a wrong checksum when its clock
  is patched (`Framed` in `ImageStaysValid`).
* A field that is not an expression is taken as absent, with a message, and the
  loader falls back to the next source silently.
* An image that is too large is reported as an internal error.
* The comment before the include path speaks of `PROPELLER_ELF_LOAD`; the code
  reads `PROPELLER_LOAD_PATH`.

### Discovery

State: the rounds left (`tries`), the modules found and put into the request, the
datagrams on their way. `Broadcast` sends on one interface, `Listen` opens a
round, `ReceiveReply` is the body of the inner loop, `Silence` the 250 ms without
a reply with `TriesLeft`, `CheckVersion` is `getVersion` and `checkVersion`.
`Answer` is the module's side. `faults` counts by module the exchanges that were
lost or came too late. A request that is full keeps its list, so that modules
answer again, which `IsNew` absorbs. `getVersion` does not terminate its copy: a
response cut short is compared with whatever follows, so that either outcome is
possible (`VersionOkay`).

### RomEncoding and RomLoad

`RomEncoding` has the tables and the packet of `serialloader.cpp`. On the other
side `Read` takes a sequence of bytes as start bits, data and stop bits, measures
the low pulses (`Pulses`, `BitsOf`) and gives the bits that the ROM sees,
`IterateLFSR` checks the handshake, and `Understood` takes the command, the
length and the image out of what remains. `Tables` collects what holds of the
tables entry by entry: every row of `PDSTx` is read as the bits it stands for,
every length up to `MaxImage` as that length. `RomLoad` runs the two: the reset,
the flush, the packet, the handshake with the version, and three loops of polling
(`SendTemplate`, `ReceiveAck`, `Timeout`) for RAM, EEPROM programming and
verification. The ROM
goes through its stages by itself (`Work`, `Answer`, `Launch`, `GiveUp`). It is
external and modelled from what the host expects of it. Faults: a lost or damaged
byte in either direction, an answer that is late, an EEPROM that was badly
programmed. `worked` keeps the two clocks together: while a stage is busy, one
interval of the ROM's work passes per template.

* The line forges nothing. `Damaged` stands for every image that was damaged on
  its way; damage that keeps the sum is caught by nothing and is excluded by the
  assumption `DamageShows`. Nothing protects the command and the length: one bit
  of `loadRunCmd` turned over (0xC9 to 0xCB) reads as the command to program the
  EEPROM and run, and `SendPacket` excludes it, taking damage before the image to
  be silence. An answer "nak" (0xFF) is one bit from an "ack" (0xFE), and `Arrive`
  lets no damage make the latter. What `SuccessIsReal` and `AttemptSpec` say is
  said under this model of the line.
* Images have any length. The length field counts longs and is rounded up
  (`serialloader.cpp` 211), but `EncodeBytes` encodes the bytes there are, so that
  the ROM takes the bits of the templates that follow for the rest of the last
  long (`Completed`). The ROM's sum counts the initial call frame that it lays
  over the memory, as `PropImage::validate` does, so that the rest does no harm
  where the frame covers it (`Covered`). `validate` asks for neither: an image that
  is not of whole longs, and whose frame lies elsewhere, passes `main`, and the ROM
  refuses it without any fault. This is a mistake of the code. Compilers write
  whole longs, so that an image of this kind comes from elsewhere, or from an ELF
  file with an odd last segment. `FailureIsReal` claims nothing of it.
* `validate` writes the call frame below `dbase` into an array; that `dbase` is at
  least the length of the frame, as otherwise it would write before the array, is
  presumed (`Valid`).

### Terminal

One action per read from the Propeller, with every cut of the stream, and one per
read of the keyboard. `Byte` is the body of the loop with the states of the exit
sequence, `Handled` the loop over a piece. The functions for Windows keep looking for the 00 after a withheld FF
was shown; since `main` never asks for the check of an exit, `ScreenIsStream`
leaves that combination out. The end of a stream is not modelled. On
POSIX a read of 0 bytes has no effect, and is repeated; the Windows function for
sockets compares with -1 only (`sock_posix.c` 372), so that after a `recv` of 0
from a closed socket it goes on with whatever its buffer of one byte holds.

### SDTransfer

State: the host's frame, the parts of frames on the line, the driver cog's state
(the label it is at), its two buffers, the mailbox long by long, the helper's
copy of it, the card. The driver writes the mailbox in four steps (type, length,
buffer, status) and the helper copies it in three, each an action, so that every
interleaving of the two cogs is explored. `FileWrite`, `DataHandler` and
`EofHandler` are the handlers of `sd_helper.spin`, with the error of the SD
operation dropped as it is there.

* The 8-bit sum of a header and the CRC of a payload catch the modelled damage; a
  payload never looks like a valid header; no ACK appears out of noise.
* Packet type and length are those of the frame's number.
* The transmit buffer (15 bytes) never fills; the status-error branch of
  `rcv_packetx` is unreachable, for the driver reports no error status.

### Fsrw

State: the directory and FAT on the card (`disk`, one function of locations), the
data sectors, the metadata buffer `buf2` with `lastread` and the dirty flag, the
data buffer, and the local variables of `popen`, `freeclusters`, `pflushbuf` and
`pclose`. An action holds at most one write to the card, so that `Restart`, a
power failure followed by the same file being sent again, falls between any two
writes.

* The directory is one block. The second FAT, which is written and never read, is
  left out. Sizes count sectors.
* A write succeeds; `safe_spi_c3.spin` never reports a rejected block (listed as
  a hazard without a property).
* A read may fail: `readblock` aborts after it has changed the buffer.
* `abort(-26)` of `freeclusters` is modelled and never reached (no state of it is
  in `TypeOK`). After any other abort only `Restart` follows.

## 4. What is checked

`Spec` includes fairness where a module has any. All runs take seconds, except
`board`, which takes about two minutes.

| Run | Instance | States | Shows |
|---|---|---|---|
| `load` | `FastLoad_load.cfg`: 3 packets, EEPROM and run, 3 faults | 67944 | `IInv`, `LaunchVerified`, `SuccessIsReal`, `InOrder`, `NoSpuriousFailure`, `ExecutedOnce`, that it implements `LoadAttempt`; `BothEnd`, `SuccessRuns` |
| `sd_main` | `SDTransfer_main.cfg`: 3 packets, 3 faults, with and without a card | 37776 | `IInv`, `HandledInOrder`, `OneAhead`, `NoSpuriousFailure`, `HandedOverIsStable`, that it implements `FileStore`; `HostReturns` |
| `sd_files` | `Fsrw_write.cfg`: a file of 5 sectors, 2 to a cluster, over 31 volumes, 3 faults | 31466 | `IInv`, `SizeCovered`, `FileStored`, `NothingLeaked`, `OtherUntouched`; `WriteEnds` |
| `session` | `LoadSession_main.cfg`: all argument lists below, 4 names, 2 boards, a system that refuses 460800, a line that carries 115200 | 284400 | `IInv`, `SuccessIsReal`, `NoSpuriousFailure`, `StepsDownFirst`, `TerminalRate`, `AsAsked`, `EEPROMWrittenOnce`, `StartsAfresh`; `SessionEnds` |
| `rom` | `RomLoad_serial.cfg`: 24 images, every load type, 2 faults | 125866 | `SuccessIsReal`, `FailureIsReal`, that it implements `LoadAttempt` |
| `discovery` | `Discovery_modules.cfg`: 2 modules, one on 2 interfaces, 2 rounds, a request with room for one address, 3 faults | 284228 | `NoneMissed`, `ListIsRight`; `SearchEnds` |
| `terminal` | `Terminal_screen.cfg`: streams of up to 5 bytes, buffers of up to 3 | 58576 | `ScreenIsStream` |
| `board` | `Board_prepare.cfg`: board files, expressions, images | 68056 | `SettingsMeanWhatTheySay`, `ImageStaysValid` |

Four runs show that the code does not do what a comment, a name or a message of
the repository says; each is a finding in `PROJECT.json`.

| Run | Violates | Because |
|---|---|---|
| `loss` | `LossIsRepaired` | the micro-loader's failsafe fires before the host's retransmission; a lost packet ends the attempt |
| `sd_report` | `FailureIsReported` | the helper drops the errors of `popen`, `pwrite` and `pclose` |
| `sd_cache` | `CacheCoherent` | a failing read changes `buf2` but not `lastread` |
| `wifi_lower` | `LowerRateHelps` | the telnet socket of the attempt that failed is still open, `connect()` refuses, and the session ends instead of stepping down |

Why these bounds are enough:

* **Packets and blocks.** Host and Propeller are never more than one packet
  apart, so a first, a middle and a last packet show every relation of the two;
  three packets also let a packet follow one that was repeated. Six
  frames (the name, three blocks, two EOFs) use each of the driver's two buffers
  more than once.
* **Faults.** Three faults exhaust the tries of one packet (`Tries`), or combine a
  late reply with a loss and a damage in different phases. Stale replies need
  one fault to be made and another to be misread. In `rom` two faults damage an
  answer and its repetition, or the packet and the answer to it. In `discovery`
  three are one more than the rounds of a module that is then missed, so that
  a miss of one module and a loss of the other are combined.
* **GarbageIDs** {0, 1}: the ID that would be an executable packet and one that
  would be a chunk. Negative IDs arise from the checksum.
* **Volumes.** The clusters span two blocks of the FAT, the last of which has an
  entry behind the last cluster; the volumes have short, crossed and interleaved
  chains, empty files, a file that is absent, and too few free clusters. Two
  faults are a failure during the repair of a failure; the third adds a failing
  read.
* **Arguments.** Every list of up to two arguments, alone or before a file, a
  second `-f` file or `-t`: what an argument does depends on the others only by
  overriding one (files, connections) or by excluding one (task, type), and each
  such pair is there in both orders. The four names (`MaxName` 3) have
  hyphens at either end, characters that are dropped, runs of blanks and more
  than fits. One board has an image larger than a module's buffer and a baud
  rate, the other neither.
* **Rates.** 921600 has four values down to 115200; one of them is refused by the
  system and one is more than the line carries.
* **Images.** For `rom`, a code of one or two longs behind the header makes every
  window of bits that the encoder looks at begin at every place of a long. Codes
  of one to three bytes more give images that are not of whole longs, with the call
  frame over the rest of the last long or elsewhere, and one image ends with its
  frame. That the encoding is right for all others is proved. A stage of the ROM
  takes up to two, one and one intervals of work (`Slowest`), and the host
  polls up to 3, 2 and 2 times (`Polls`), so that a stage may be ready at the
  first poll, at a later one or after a loss too late. For `board`, 24 images:
  valid, cut, too long, with trailing zeros or other bytes, with and without
  the call frame, ELF files with segments in any order, overlapping, for a cog
  or unreadable.
* **Streams.** An exit sequence and a line end are two symbols each: five
  bytes hold one that is broken off and begun again, and pieces of three cut it
  at every place.
* **Expressions.** All texts of four symbols over two operands, a unary and
  binary minus, a comparison with one or two characters, a binary operator and a
  division; all texts of five over conditions and brackets; longer ones for
  precedence, grouping and names. Board files of four lines hold a field
  before and after another, in two sections, twice.

`CHECK_DEADLOCK FALSE` is set everywhere: a transfer, a load, a search and a
session end, and a program that has ended does nothing more.

## 5. Fairness

* `FastLoad`: weak fairness of the host, a thread whose every wait has a
  timeout, and of the micro-loader, a polling loop with a failsafe. A fault is
  never fair.
* `LoadSession`: weak fairness of the host alone. Nothing is assumed of the user,
  and nothing of the Propeller.
* `SDTransfer`: weak fairness of the host, the driver cog and the helper cog,
  three processors that nothing can stop. The card is not fair: the helper may
  wait for one for ever.
* `Fsrw`: weak fairness of the cog, whose block driver always answers.
* `Discovery`: weak fairness of the host, whose every wait has a timeout, and of
  the modules' answers. A loss is not fair.
* `RomLoad`, `Terminal` and `Board` are checked for safety only.

## 6. What is proved

TLAPS proves the following for every value of the constants that satisfies the
assumptions named in the module: any number of packets, blocks, sectors and
faults, any sum function, any volume whose chains are disjoint, any set of
configurations and rates, any stream, any image.

Where a theorem needs more than the module assumes, the additional hypothesis
has a name, is stated in the theorem, and TLC evaluates it for the constants of
the run:

| Hypothesis | Says | Used by | Why it may be presumed |
|---|---|---|---|
| `SumIsRight` (FastLoad) | the host's checksum is that of the image | `FailureIsTrue` | the host computes it from the image; the constant `CheckSum` need not agree with `Sum` otherwise |
| `FirstRateIsSent` (LoadSession) | a module's first fast rate is not the loader's | `LowerRatesComeFirst`, `TerminalGetsItsRate` | see below: otherwise they do not hold |
| `Whole` (Fsrw) | the files of the volume are as long as the directory says | the theorems on files | a card that another system wrote and checked |
| `Lean` (Fsrw) | the volume has no lost clusters at the start | `NoClusterIsLost` | the same |

* **FastLoad.** `IInv` relates the micro-loader's registers, both channels and
  the host's phase. The point is that packet IDs double as results, so that
  `SuccessIsReal` does not follow from the host's checks alone: the invariant
  says what every long in the reply stream proves about the micro-loader,
  *whenever it is read* (`GoodLongs`), and what every packet on its way proves
  (`GoodPackets`). Because these facts never become false again, stale, split
  and late replies are harmless. From it: `OnlyVerifiedIsUsed`, `SuccessIsTrue`,
  `NothingRunsTwice`. `AttemptIsImplemented` adds `Early`: no code is on its way
  before the host has seen every chunk acknowledged. `ChunksArriveInOrder`
  (`InOrder`) adds `Ordered`: IDs count down, so that whatever the host may still
  read as a result is no lower than the micro-loader's `ExpectedID`, and a stale
  reply can only hold the host back. `FailureIsTrue` (`NoSpuriousFailure`) adds
  `Undisturbed`: without a fault the two are in one of three places, nothing on
  the line (`Idle`), the packet (`Asked`) or the one reply that is waited for
  (`Answered`).
* **LoadSession.** `IInv` says what has been done to the Propeller by the place
  the host is at (`Progress`, `Success`) and, for a serial port, that remembered
  and actual rate agree (`Serial`). Theorems `SuccessIsTrue` (except for a small
  image that is to be programmed over WiFi, which the module's loader cannot do:
  `Honoured`), `EEPROMIsWrittenOnce`, `AttemptsStartAfresh`,
  `SerialFailureIsReal`, `SerialTerminalRate`. `LowerRatesComeFirst`
  (`StepsDownFirst`) and `TerminalGetsItsRate` (`TerminalRate`) cover modules
  too: `Stepped` says which rates have been given up by the place the host is at,
  and `Known` that a module has the rate the host remembers from the first
  request on. The latter needs `FirstRateIsSent`: `m_baudRate` is not initialised,
  and a module whose first rate is the loader's is never told it if that is
  what the variable happens to hold.
* **SDTransfer.** `IInv` counts the packets handed over (`Posted`) against the
  frame the host is at, and says what mailbox and buffers hold in each state of
  the two cogs. Theorems `PacketsHandledInOrder`, `DriverIsOneAhead`,
  `FileIsInOrder`, `MailboxIsStable` and `TransferImplementsStore`.
  `FailureIsReal` (`NoSpuriousFailure`) adds `Untroubled`: without a fault,
  whoever waits waits for something that is on its way.
* **Fsrw.** The metadata steps change a buffer, not the card, so that nothing
  inductive can be said of the card directly. `IInv` speaks of `Flushed`, the
  card with the buffer written back: its chains are sound, and the cluster in
  hand is marked and unpointed. The card is `Flushed` of an earlier moment.
  Four lemmas say what a change does to soundness: `Clearing`, `Marking`,
  `Linking` and `CutOff`. Theorem `CardIsSound`. The other theorems speak of
  chains as a whole, which are functions defined by recursion; lemmas say which
  changes leave a chain, and a part of it, as it was, that a sound chain visits
  no cluster twice, and what it is after a cluster was linked to its end.
  `OthersAreSafe` (`OtherUntouched`, an action property) rests on `Apart`: no
  change in the buffer is one of the other file's. `ClosedFileIsStored`
  (`FileStored`) rests on `Filed`, of which `Growing` and `AtEnd` relate the
  position in the file to the length of the chain, and each sector written to
  its place. `SizesAreCovered` (`SizeCovered`) follows from both.
  `NoClusterIsLost` (`NothingLeaked`) rests on `Leakless`: every cluster in use
  belongs to a file, to the rest of the chain being freed (`Freeing`) or is about
  to be linked (`Covered`).
* **Discovery.** `IInv` keeps an account of every module's chances: a round that
  is over without it has cost it an exchange (`HadItsChances`), and in the round
  under way its request or its answer is on its way, or one more was lost
  (`OnItsWay`). Theorems `TheMissingWereSilent` (`NoneMissed`) and
  `NobodyIsListedTwice` (`ListIsRight`), for any network.
* **RomEncoding.** `PacketIsUnderstood`: the ROM takes from the pulses of a
  packet the command and the image the host put into it, for every image of any
  length up to the size of the RAM, and whatever lies behind it in the host's
  memory; behind an image that is not of whole longs it takes the bits of templates,
  and nothing else. The only thing taken from the tables is `Tables`, which has no
  parameter, so that TLC evaluates the whole of it on every run; the rest is
  proved. Reading is a run over the bytes (`ReadIsARun`), so that what is sent in
  two parts is read in two parts (`ReadParts`). The encoder is a descent over the
  bits: a row stands for at least one bit and never goes past the end
  (`RowIsRight`), therefore the recursive function exists (`DescentExists`), and
  from every place the rest is read as the rest of the image (`EncodingIsRead`). In
  between is arithmetic: a window over two bytes holds the bits of the image
  (`BitOfWindow`), and those bits make its bytes again (`BytesOfImage`). Theorem
  `EncodingIsRead` says besides that a byte is written for one bit or more, so
  that `encodedImage`, which has room for one byte per bit, is never overrun.
* **RomLoad.** The acknowledgements of the three stages are the same byte, so
  that the host's place proves nothing by itself. `Counted` says that those it
  has taken and those next in its buffer are never more than the stages the ROM
  has done; a longer buffer (`Longer`) and a shorter one (`Shorter`) keep that.
  `EveryImageIsUnderstood` (`Faithful` and `Heard`) brings in the packet, so that
  nothing about the encoding is presumed. `CoveredIsAccepted` says which images the
  ROM then accepts: the sum of `Completed(i)` is right if and only if the call frame
  covers what fills up the last long (one to three bytes of 0x55 cannot make a sum
  of 0), so for images of whole longs always.
  Theorems `SuccessIsTrue` and `AttemptIsImplemented`. For `FailureIsTrue`
  (`FailureIsReal`) `Smooth` turns the bound into an equation while nothing has
  gone wrong: the buffer holds what the ROM has said and the host has not taken
  (`Owed`), and templates are left for a stage that is not over (`Patient`). It
  speaks of images that are `Covered`, and of no others.
* **Terminal.** `Text`, the meaning of a stream, is read from its end, the
  program reads from its beginning, and the pieces end anywhere. The link is the
  lemma `OneMore`: one more byte adds to the text of *every* suffix of a stream
  what `Byte` adds to the buffer (`Added`), by where that suffix leaves its reader
  (`Left`). With `InStep`, that the terminal is in that place between two pieces,
  `IInv` is inductive (`PieceIsText` by induction over the piece). Theorem
  `ScreenShowsStream` (`ScreenIsStream`).

**Induction over data.** The induction schemes of the library take an operator
that has the property, which the provers cannot instantiate. `Induction` states
the scheme with a set instead: a set of numbers that holds 0 and the successor
of every number it holds has them all (`Induct`, `InductUpTo`), which follows
from `Least`, that a set of numbers has a least member. A function defined by
recursion is a CHOOSE of a function that satisfies an equation; `RunExists`
shows that there is one when each value comes from the one before, `DescentExists`
when it comes from any later one, and then the function chosen satisfies it as
well.

Only model-checked:

* every liveness property;
* `AsAsked` of a session, which computes over the argument lists of the run, and
  of a session over WiFi whatever `SuccessIsTrue`, `EEPROMIsWrittenOnce`,
  `AttemptsStartAfresh`, `LowerRatesComeFirst` and `TerminalGetsItsRate` do not say;
* `SettingsMeanWhatTheySay` and `ImageStaysValid` of `Board`, with `CommandLine`,
  `Expression` and `PropImage`: parsers and byte-wise computations, with bitwise
  operators, which the provers do not know.

## 7. Plan

Done: all modules of section 2, and the proofs above.

To be proved next: how a success of `SDTransfer` and of `Fsrw` together give the
file on the card.

To be modelled next: what `sd_helper.spin` does after an abort of the file
system.

## 8. Not modelled

* The Windows port functions and port enumeration, opening and configuring a
  port, the reset through a GPIO file: system calls without decisions.
* The formatting of messages, the text of HTTP requests and responses.
* The tools run at build time and the example programs. `TV.spin` and
  `TV_Text.spin` are a video driver for debugging.
* `identify`, `receiveChecksumAck` and `receivePacket` (of `packet.cpp`) have no
  caller. `FindProgramSegment` and the listings of `loadelf.c` are not used by
  the loader.
* `findPorts` lists the devices of the system, whatever its argument `check`
  says: no port is asked whether a Propeller is behind it.
* The waveforms on the serial, SPI and I2C lines, which are abstracted to what
  arrives.

Hazards that no property covers, with the reason for each:

* `IP_Loader.spin` 145: packets received without a gap run past the buffer. The
  model lets the micro-loader go wild; nothing in the code forbids it.
* `IP_Loader.spin` 485: a damaged packet that is refused may overwrite the code the
  launch jumps into. The model lets the micro-loader go wild, `SuccessRuns` exempts a
  launch that goes wild after a fault, and nothing in the code forbids it.
* `packet_driver.spin` 263: the type of a packet is covered by an 8-bit sum only.
  Damage that keeps a sum is a matter of probability.
* `safe_spi_c3.spin` 488: a block that the card rejects is lost without a trace,
  and any chain with it; no property can hold of a card that does this.
* `fsrw.spin` 452: after an abort in `freeclusters` the file is left open, and
  the next `pwrite` never returns. What the helper does after an abort is left.
* `wifipropconnection.cpp` 556, one half of it: a request for a rate is obeyed and its
  answer lost, and the next request for the old rate is suppressed. The two rates then
  differ, and `TerminalRate` and `StepsDownFirst` claim nothing once a request to a
  module has failed. They cover the value that is not initialised.
* `config.c` 374: a field that refers to itself is looked up without end. The
  model ends such a load in "crashed", and nothing in the code prevents it.
