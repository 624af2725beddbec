---------------------------- MODULE MCLoadSession ----------------------------
(***************************************************************************)
(* LoadSession for TLC: its runs are what CommandLine makes of argument    *)
(* lists, with boards, images and rates that make the interesting cases    *)
(* happen.                                                                 *)
(***************************************************************************)
EXTENDS LoadSession, CommandLine, FiniteSets

CONSTANTS ArgLists, RawNames, Boards

Sw(s)     == [sw |-> s, val |-> "none"]
Val(s, v) == [sw |-> s, val |-> v]

MCArgs == {Sw("e"), Sw("r"), Sw("t"), Sw("R"), Sw("W"), Sw("f"), Sw("?"), Val("p", "tty"),
           Val("i", "ip"), Val("f", "y"), Val("", "x"), Val("D", "rom"), Val("n", "name")}
\* Up to two arguments of any kind before a file, -f or -t.
MCArgLists == {<<>>} \cup {<<a>> : a \in MCArgs} \cup (MCArgs \X MCArgs)
                \cup (MCArgs \X MCArgs \X {Val("", "x"), Val("f", "y"), Sw("t")})

MCRawNames == {<<"-", "x", "-">>, <<"?", "-">>, <<"x", " ", " ", "?", "x", "x">>,
               <<"?", "-", "x">>}
MCBoards == {[fits |-> FALSE, baudSet |-> TRUE, serial |-> 921600, wifi |-> 230400],
             [fits |-> TRUE, baudSet |-> FALSE, serial |-> 460800, wifi |-> 230400]}

Conf(argv, raw, b) ==
  LET o == Options(argv)
  IN  [argv |-> argv, task |-> Task(o), wifi |-> ~o.serial,
       act |-> IF o.file = None THEN "none" ELSE IF o.write THEN "write" ELSE "load",
       fast |-> ~o.rom, terminal |-> o.terminal, reset |-> o.reset,
       named |-> o.name # None, name |-> IF o.name = None THEN <<>> ELSE CleanName(raw),
       type |-> Type(o), fits |-> b.fits, baudSet |-> b.baudSet,
       fastBaud |-> IF o.serial THEN b.serial ELSE b.wifi]

MCConfigs == {Conf(argv, raw, b) : argv \in ArgLists, raw \in RawNames, b \in Boards}

\* What two theorems of LoadSessionProofs presume of the runs holds of these.
ASSUME MCFirstRateIsSent == FirstRateIsSent

-----------------------------------------------------------------------------
Has(s) == \E i \in 1 .. Len(conf.argv) : conf.argv[i].sw = s

\* What the program does is what the command line names, whatever the order of
\* the arguments: the EEPROM is written only for -e, a module is named only for
\* -n, a terminal opens only for -t, and a file that was named was loaded, or its
\* helper was, when the program exits with 0.  A name is cut and ends as a name
\* should; it may begin with a '-' that stood behind a character it lost.
AsAsked ==
  /\ eeprom # "old" => Has("e") /\ ~Has("f")
  /\ moduleName # <<>> => /\ Has("n") /\ Len(moduleName) <= MaxName
                          /\ {moduleName[i] : i \in 1 .. Len(moduleName)} \subseteq {"x", "-"}
                          /\ moduleName[Len(moduleName)] # "-"
  /\ pc = "talking" => Has("t") \/ Has("T")
  /\ exit = "ok" /\ (Has("") \/ Has("f")) => committed
=============================================================================
