-------------------------------- MODULE Board --------------------------------
(***************************************************************************)
(* From the command line to the image that is loaded: main reads the image *)
(* and refuses a bad one, looks for the board's configuration file along   *)
(* the include path, reads it line by line (src/src/config.c), selects the *)
(* subtype, puts the -D settings before it, and the loader patches the     *)
(* clock settings into the image (src/src/loader.cpp, fastloader.cpp).     *)
(*                                                                         *)
(* A line is [kind, tag, text]: "blank" (a comment too), "bad" (a syntax   *)
(* error), "section" with its name in tag, or "field".  Names of tags and  *)
(* symbols are equal when the code finds them equal, whatever their case.  *)
(***************************************************************************)
EXTENDS Expression, PropImage

CONSTANTS
  Cases,       \* sequence of sets of commands [file, path, board, subtype,
               \* settings]; path: per directory, <<>> or the board's file in it
  Tags,        \* names a field can have
  BuiltIn      \* the symbols of configSymbols |-> value

VARIABLES
  case, pc, image,
  lines,       \* of the configuration file, those not yet read
  base, subs,  \* the fields of the board; its sections, in order
  config,      \* the chain of configurations, the one looked at first in front
  clock        \* [freq, mode] that the micro-loader is given; None: ROM loader

vars == <<case, pc, image, lines, base, subs, config, clock>>

-----------------------------------------------------------------------------
\* Configurations.  The fields of one are a function from tags to texts.

NoFields == <<>>
SetConfigField(fields, tag, text) == tag :> text @@ fields

\* A slip: the field of a parent hides that of its child.
BaseFirst(chain, tag) ==
  chain[CHOOSE k \in DOMAIN chain :
          /\ tag \in DOMAIN chain[k]
          /\ \A j \in DOMAIN chain : tag \in DOMAIN chain[j] => j <= k][tag]
HasField(chain, tag) == \E k \in DOMAIN chain : tag \in DOMAIN chain[k]
GetConfigField(chain, tag) ==
  chain[CHOOSE k \in DOMAIN chain :
          /\ tag \in DOMAIN chain[k]
          /\ \A j \in DOMAIN chain : tag \in DOMAIN chain[j] => k <= j][tag]

\* A name is a field of the whole chain, if that has a value, or a built-in
\* symbol.  Names that refer to each other in a circle are never resolved: they
\* are still endless when every field has been looked through.
Builtin(n) == IF n \in DOMAIN BuiltIn THEN Return("ok", BuiltIn[n], <<>>) ELSE Error
Resolve(chain, env) ==
  [n \in {t \in Tags : HasField(chain, t)} |->
     LET r == ParseNumericExpr(env, GetConfigField(chain, n))
     IN  IF r.st = "error" THEN Builtin(n) ELSE r]
  @@ [n \in DOMAIN BuiltIn |-> Builtin(n)]
FindSymbol(chain) ==
  FoldLeft(LAMBDA env, d : Resolve(chain, env),
           [n \in Tags \cup DOMAIN BuiltIn |->
              IF HasField(chain, n) THEN Return("endless", 0, <<>>) ELSE Builtin(n)],
           [d \in 1..Cardinality(Tags) |-> d])

GetNumericConfigField(chain, tag) ==
  IF HasField(chain, tag) THEN ParseNumericExpr(FindSymbol(chain), GetConfigField(chain, tag))
  ELSE Error
Got(chain, tag) == GetNumericConfigField(chain, tag).st = "ok"
Numeric(chain, tag) == GetNumericConfigField(chain, tag).v

DefaultConfiguration ==
  "loader-baud-rate" :> <<"1">> @@ "fast-loader-baud-rate" :> <<"8">>

-----------------------------------------------------------------------------
\* The command.

Init ==
  /\ \E k \in DOMAIN Cases : case \in Cases[k]
  /\ pc = "read" /\ image = None /\ lines = <<>>
  /\ base = NoFields /\ subs = <<>> /\ config = <<>>
  /\ clock = None

ReadImage ==
  /\ pc = "read"
  /\ image' = ReadFile(case.file)
  /\ pc' = IF image' # None /\ Validate(image') = "ok" THEN "open" ELSE "refused"
  /\ UNCHANGED <<case, lines, base, subs, config, clock>>

\* xbOpenFileInPath.  The current directory, those of -I, that of the image, those
\* of the environment and of the program: the first that has the file counts.
OpenFileInPath(path) ==
  LET found == FlattenSeq(path)
  IN  IF found = <<>> THEN <<>> ELSE <<Head(found)>>

OpenBoard ==
  /\ pc = "open"
  /\ IF case.board = "default"
     THEN pc' = "select" /\ base' = DefaultConfiguration /\ UNCHANGED lines
     ELSE LET found == OpenFileInPath(case.path)
          IN  IF found = <<>> THEN pc' = "refused" /\ UNCHANGED <<base, lines>>
              ELSE pc' = "parse" /\ lines' = Head(found) /\ UNCHANGED base
  /\ UNCHANGED <<case, image, subs, config, clock>>

Field(l) ==
  IF subs = <<>>
  THEN base' = SetConfigField(base, l.tag, l.text) /\ UNCHANGED subs
  ELSE subs' = [subs EXCEPT ![Len(subs)].fields = SetConfigField(@, l.tag, l.text)]
       /\ UNCHANGED base

ParseLine ==
  /\ pc = "parse" /\ lines # <<>>
  /\ lines' = Tail(lines)
  /\ LET l == Head(lines)
     IN  \/ l.kind = "blank" /\ UNCHANGED <<pc, base, subs>>
         \/ l.kind = "bad" /\ pc' = "refused" /\ UNCHANGED <<base, subs>>
         \/ /\ l.kind = "section" /\ UNCHANGED <<pc, base>>
            /\ subs' = Append(subs, [name |-> l.tag, fields |-> NoFields])
         \/ l.kind = "field" /\ Field(l) /\ UNCHANGED pc
  /\ UNCHANGED <<case, image, config, clock>>

EndOfFile ==
  /\ pc = "parse" /\ lines = <<>> /\ pc' = "select"
  /\ UNCHANGED <<case, image, lines, base, subs, config, clock>>

\* The settings of the command line, as the loop over argv has collected them.
Settings == FoldLeft(LAMBDA fields, d : SetConfigField(fields, d.tag, d.text), NoFields, case.settings)

\* GetConfigSubtype and MergeConfigs.  The first section of the name counts;
\* "default" is the board itself unless it has a section of that name.
SelectSubtype ==
  /\ pc = "select"
  /\ LET named == SelectSeq(subs, LAMBDA s : s.name = case.subtype)
     IN  \/ /\ named # <<>> /\ pc' = "load"
            /\ config' = <<Settings, Head(named).fields, base>>
         \/ /\ named = <<>> /\ case.subtype = "default" /\ pc' = "load"
            /\ config' = <<Settings, base>>
         \/ named = <<>> /\ case.subtype # "default" /\ pc' = "refused" /\ UNCHANGED config
  /\ UNCHANGED <<case, image, lines, base, subs, clock>>

SetClock(img, tag, v) == IF tag = "clkfreq" THEN SetClkFreq(img, v) ELSE SetClkMode(img, v)
Patch(img, tag) ==
  IF Got(config, tag) THEN UpdateChecksum(SetClock(img, tag, Numeric(config, tag))) ELSE img

\* The micro-loader's own setting, else the program's, else the image's.
ClockValue(tag, v) == IF tag = "clkfreq" THEN LongBytes(v) ELSE ByteOf(v)
LoaderClock(tag, own, inImage) ==
  IF Got(config, own) THEN ClockValue(tag, Numeric(config, own))
  ELSE IF Got(config, tag) THEN ClockValue(tag, Numeric(config, tag)) ELSE inImage

UseFastLoader == ~(HasField(config, "loader") /\ GetConfigField(config, "loader") = <<"rom">>)
ClockTags == {"clkfreq", "clkmode"}
LoaderTags == IF UseFastLoader THEN {"fast-loader-clkfreq", "fast-loader-clkmode"} ELSE {}

\* loadImage, or fastLoadImage before its first attempt.  A circle of names
\* exhausts the stack.
LoadImage ==
  /\ pc = "load"
  /\ IF \E t \in ClockTags \cup LoaderTags : GetNumericConfigField(config, t).st = "endless"
     THEN pc' = "crashed" /\ UNCHANGED <<image, clock>>
     ELSE /\ pc' = "loaded"
          /\ image' = Patch(Patch(image, "clkfreq"), "clkmode")
          /\ clock' = IF ~UseFastLoader THEN None
                      ELSE [freq |-> LoaderClock("clkfreq", "fast-loader-clkfreq", ClkFreqBytes(image)),
                            mode |-> LoaderClock("clkmode", "fast-loader-clkmode", ClkMode(image))]
  /\ UNCHANGED <<case, lines, base, subs, config>>

Next == ReadImage \/ OpenBoard \/ ParseLine \/ EndOfFile \/ SelectSubtype \/ LoadImage

Spec == Init /\ [][Next]_vars

-----------------------------------------------------------------------------
\* Properties.

\* What a text means, by its shape: an expression is split at the last
\* operator of the weakest level outside brackets.
Depth(t, k) ==
  Cardinality({i \in 1..k - 1 : t[i] = "("}) - Cardinality({i \in 1..k - 1 : t[i] = ")"})
Operand(t, k) == k \in DOMAIN t /\ (t[k] \in {")", "}"} \/ t[k] \in NumberTokens \cup Tags \cup DOMAIN BuiltIn)
Outside(t, ops) == {k \in 2..Len(t) - 1 : t[k] \in ops /\ Depth(t, k) = 0 /\ Operand(t, k - 1)}

Precedence ==
  << {"||"}, {"&&"}, {"|"}, {"^"}, {"&"}, {"==", "!="}, {"<", "<=", ">", ">="},
     {"<<", ">>"}, {"+", "-"}, {"*", "/", "%"} >>
Both(a, b, r) == IF a.st # "ok" THEN a ELSE IF b.st # "ok" THEN b ELSE r
Apply(op, a, b) ==
  Both(a, b, CASE Divides(op) /\ b.v = 0 -> Error
               [] ~Defined(op, a.v, b.v) -> Return("undefined", 0, <<>>)
               [] OTHER -> Return("ok", Binary(op, a.v, b.v), <<>>))
Atom(env, t) ==
  CASE Len(t) = 1 /\ t[1] \in NumberTokens -> Return("ok", ParseNumber(t[1]), <<>>)
    [] Len(t) = 1 /\ t[1] \in DOMAIN env \ Hyphenated -> env[t[1]]
    [] Len(t) = 3 /\ t[1] = "{" /\ t[3] = "}" /\ t[2] \in DOMAIN env -> env[t[2]]
    [] OTHER -> Error
Enclosed(t) == Len(t) > 2 /\ t[1] = "(" /\ t[Len(t)] = ")" /\ \A k \in 2..Len(t) : Depth(t, k) > 0

Meaning(env, tokens) ==
  LET meaning[n \in 0..12, t \in Seq(STRING)] ==
        LET Part(m, i, j) == meaning[m, SubSeq(t, i, j)]
            at == IF n \in 0..10 THEN Outside(t, IF n = 0 THEN {"?"} ELSE Precedence[n]) ELSE {}
            k  == Max(at)
            colons == {c \in Outside(t, {":"}) : c > k}
            c  == Min(colons)
            yes == Part(1, k + 1, c - 1)
            no  == Part(1, c + 1, Len(t))
        IN  IF t = <<>> \/ (n = 0 /\ at # {} /\ colons = {}) THEN Error
            ELSE IF at # {}
            THEN IF n = 0 THEN Both(Part(0, 1, k - 1), Both(yes, no, yes), IF Part(0, 1, k - 1).v # 0 THEN yes ELSE no)
                 ELSE Apply(t[k], Part(n, 1, k - 1), Part(n + 1, k + 1, Len(t)))
            ELSE IF n = 11 /\ t[1] \in Unaries
            THEN [Part(12, 2, Len(t)) EXCEPT !.v = Unary(t[1], @)]
            ELSE IF n = 12 THEN IF Enclosed(t) THEN Part(0, 2, Len(t) - 1) ELSE Atom(env, t)
            ELSE meaning[n + 1, t]
  IN  meaning[0, tokens]

\* The field in force, by the lines as they are written: the last setting of the
\* command line, else the last line of the chosen section, else of the board.
InForce(tag) ==
  LET files == FlattenSeq(case.path)
      file == IF files = <<>> THEN <<>> ELSE Head(files)
      heads == {k \in DOMAIN file : file[k].kind = "section"}
      first == {k \in heads : file[k].tag = case.subtype}
      OfTag(ks) == {k \in ks : file[k].kind = "field" /\ file[k].tag = tag}
      own  == IF first = {} THEN {}
              ELSE OfTag({k \in DOMAIN file : k > Min(first) /\ \A h \in heads : h <= Min(first) \/ h > k})
      top  == OfTag({k \in DOMAIN file : \A h \in heads : h > k})
      set  == {k \in DOMAIN case.settings : case.settings[k].tag = tag}
  IN  IF set # {} THEN {case.settings[Max(set)].text}
      ELSE IF case.board = "default"
      THEN IF tag \in DOMAIN DefaultConfiguration THEN {DefaultConfiguration[tag]} ELSE {}
      ELSE IF own # {} THEN {file[Max(own)].text}
      ELSE IF top # {} THEN {file[Max(top)].text} ELSE {}

\* Whatever sections, repetitions and settings there are, the field that
\* GetConfigField finds is the one in force; and an expression has a value that
\* uses up its text exactly if it means one, the same.
SettingsMeanWhatTheySay ==
  pc = "load" => LET env == FindSymbol(config) IN \A tag \in Tags :
    LET found == IF HasField(config, tag) THEN {GetConfigField(config, tag)} ELSE {}
    IN  /\ found = InForce(tag)
        /\ \A text \in found :
             LET r == ParseNumericExpr(env, text)
                 m == Meaning(env, Tokens(text))
             IN  /\ (r.st = "ok" /\ r.rest = <<>>) = (m.st = "ok")
                 /\ m.st = "ok" => r.v = m.v

\* A file that holds the call frame, as an .eeprom image does: its checksum does
\* not survive updateChecksum, which adds the frame a second time.
Framed == Len(ReadFile(case.file)) >= Dbase(ReadFile(case.file))

\* What main has validated stays valid when the clock settings are put into it,
\* one after the other, and nothing but clock and checksum has changed; and the
\* micro-loader, unless told otherwise, runs at the clock of the image.
ImageStaysValid ==
  pc = "loaded" =>
    LET asked == {t \in ClockTags : Got(config, t)}
        read  == ReadFile(case.file)
    IN  /\ (Framed /\ asked # {}) \/ Validate(image) = "ok"
        /\ Len(image) = Len(read) /\ \A k \in 7..Len(image) : image[k] = read[k]
        /\ ClkFreqBytes(image) = IF "clkfreq" \in asked THEN LongBytes(Numeric(config, "clkfreq"))
                                 ELSE ClkFreqBytes(read)
        /\ ClkMode(image) = IF "clkmode" \in asked THEN ByteOf(Numeric(config, "clkmode"))
                            ELSE ClkMode(read)
        /\ UseFastLoader =>
             /\ Got(config, "fast-loader-clkfreq") \/ clock.freq = ClkFreqBytes(image)
             /\ Got(config, "fast-loader-clkmode") \/ clock.mode = ClkMode(image)
=============================================================================
