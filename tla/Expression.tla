------------------------------ MODULE Expression ------------------------------
(***************************************************************************)
(* The value expressions of board files and -D settings (src/src/expr.c).  *)
(* A text is a sequence of symbols: an operator's characters, blanks, a    *)
(* numeral, a suffix of one, a name.  An environment gives each name what  *)
(* the caller's findSymbol does: a status and a value.  The status of a    *)
(* result is "ok", "error" (the code prints and jumps out), "endless" (it  *)
(* never returns) or "undefined" (C leaves the shift undefined).           *)
(***************************************************************************)
EXTENDS Integers, SequencesExt, Bitwise

CONSTANTS Numerals,     \* numeral |-> number
          Hyphenated    \* the names with a hyphen: legal in braces only

Multiples == "" :> 1 @@ "K" :> 1024 @@ "M" :> 1048576 @@ "MHZ" :> 1000000

\* The operators by level, weakest first: ParseExpr3 to ParseExpr12.
OrOverAnd ==
  << {"&&"}, {"||"}, {"|"}, {"^"}, {"&"}, {"==", "!="}, {"<", "<=", ">", ">="},
     {"<<", ">>"}, {"+", "-"}, {"*", "/", "%"} >>
Operators ==
  << {"||"}, {"&&"}, {"|"}, {"^"}, {"&"}, {"==", "!="}, {"<", "<=", ">", ">="},
     {"<<", ">>"}, {"+", "-"}, {"*", "/", "%"} >>

Pairs == { <<"<", "<">>, <<"<", "=">>, <<">", ">">>, <<">", "=">>, <<"!", "=">>,
           <<"=", "=">>, <<"&", "&">>, <<"|", "|">> }
Suffixed == (DOMAIN Numerals) \X (DOMAIN Multiples \ {""})

\* The tokens of a text: a pair without a blank in it is one token.
Tokens(text) ==
  LET from[i \in 1..Len(text) + 2] ==
        IF i > Len(text) THEN <<>>
        ELSE IF text[i] = " " THEN from[i + 1]
        ELSE IF i < Len(text) /\ <<text[i], text[i + 1]>> \in Pairs \cup Suffixed
        THEN <<text[i] \o text[i + 1]>> \o from[i + 2]
        ELSE <<text[i]>> \o from[i + 1]
  IN  from[1]

Written == (DOMAIN Numerals) \X (DOMAIN Multiples)
NumberTokens == {p[1] \o p[2] : p \in Written}
ParseNumber(t) ==
  LET p == CHOOSE p \in Written : p[1] \o p[2] = t
  IN  Numerals[p[1]] * Multiples[p[2]]

-----------------------------------------------------------------------------
\* Arithmetic on int, as far as no value needs more than Width bits.

Width == 30
Truth(b) == IF b THEN 1 ELSE 0
Signed(u) == IF u >= 2 ^ (Width - 1) THEN u - 2 ^ Width ELSE u
Bits(x) == x % 2 ^ Width
Magnitude(x) == IF x < 0 THEN -x ELSE x
Quotient(a, b) ==
  LET q == Magnitude(a) \div Magnitude(b) IN IF (a < 0) = (b < 0) THEN q ELSE -q

Defined(op, a, b) == op \in {"<<", ">>"} => b \in 0..16 /\ (op = "<<" => a \in 0..255)
Divides(op) == op \in {"/", "%"}

Binary(op, a, b) ==
  CASE op = "||" -> Truth(a # 0 \/ b # 0)      [] op = "&&" -> Truth(a # 0 /\ b # 0)
    [] op = "|"  -> Signed(Bits(a) | Bits(b))  [] op = "^"  -> Signed(Bits(a) ^^ Bits(b))
    [] op = "&"  -> Signed(Bits(a) & Bits(b))
    [] op = "==" -> Truth(a = b)               [] op = "!=" -> Truth(a # b)
    [] op = "<"  -> Truth(a < b)               [] op = "<=" -> Truth(a <= b)
    [] op = ">"  -> Truth(a > b)               [] op = ">=" -> Truth(a >= b)
    [] op = "<<" -> a * 2 ^ b                  [] op = ">>" -> a \div 2 ^ b
    [] op = "+"  -> a + b                      [] op = "-"  -> a - b
    [] op = "*"  -> a * b                      [] op = "/"  -> Quotient(a, b)
    [] op = "%"  -> a - b * Quotient(a, b)

Unaries == {"+", "-", "~", "!"}
Unary(op, a) ==
  CASE op = "+" -> a [] op = "-" -> -a [] op = "~" -> -a - 1 [] op = "!" -> Truth(a = 0)

-----------------------------------------------------------------------------
\* The parser: each function takes the tokens that are left and returns a
\* status, a value and what it leaves.  parse[n, "start", r] is the function of
\* level n (0: ParseExpr2) on r's rest, parse[n, "more", r] its loop after r.

Results == [st : {"ok", "error", "endless", "undefined"}, v : Int, rest : Seq(STRING)]
Return(st, v, rest) == [st |-> st, v |-> v, rest |-> rest]
Error == Return("error", 0, <<>>)
Starts(s, set) == s # <<>> /\ Head(s) \in set
Continues(r, set) == r.st = "ok" /\ Starts(r.rest, set)
Expect(r, t) ==
  IF r.st # "ok" THEN r ELSE IF Starts(r.rest, {t}) THEN [r EXCEPT !.rest = Tail(@)] ELSE Error
Consumed(r) == Return("ok", 0, Tail(r.rest))

\* ParseIdentifier, ParseConfigVariable.
Symbol(env, s) ==
  IF Starts(s, DOMAIN env) THEN Return(env[Head(s)].st, env[Head(s)].v, Tail(s)) ELSE Error

ParsePrimary(env, parse, s) ==
  CASE Starts(s, {"("}) -> Expect(parse[0, "start", Return("ok", 0, Tail(s))], ")")
    [] Starts(s, {"{"}) -> Expect(Symbol(env, Tail(s)), "}")
    [] Starts(s, NumberTokens) -> Return("ok", ParseNumber(Head(s)), Tail(s))
    [] Starts(s, DOMAIN env \ Hyphenated) -> Symbol(env, s)
    [] OTHER -> Error

ParseExpr13(env, parse, s) ==
  IF Starts(s, Unaries)
  THEN [ParsePrimary(env, parse, Tail(s)) EXCEPT !.v = Unary(Head(s), @)]
  ELSE ParsePrimary(env, parse, s)

\* Both operands are evaluated, of || and && too.
Combine(op, a, b) ==
  CASE b.st # "ok" -> b
    [] b.st = "ok" /\ Divides(op) /\ b.v = 0 -> Error
    [] b.st = "ok" /\ ~Defined(op, a.v, b.v) -> [b EXCEPT !.st = "undefined"]
    [] OTHER -> [b EXCEPT !.v = Binary(op, a.v, b.v)]
Operands(parse, n, r) ==
  IF Continues(r, Operators[n])
  THEN parse[n, "more", Combine(Head(r.rest), r, parse[n + 1, "start", Consumed(r)])]
  ELSE r

\* A condition after a condition groups to the left; a branch holds none.
Ternary(parse, r) ==
  IF ~Continues(r, {"?"}) THEN r
  ELSE LET yes == Expect(parse[1, "start", Consumed(r)], ":")
           no  == parse[1, "start", yes]
       IN  IF yes.st # "ok" THEN yes
           ELSE IF no.st # "ok" THEN no
           ELSE parse[0, "more", [no EXCEPT !.v = IF r.v # 0 THEN yes.v ELSE no.v]]

ParseExpr2(env, tokens) ==
  LET parse[n \in 0..11, step \in {"start", "more"}, r \in Results] ==
        IF step = "start"
        THEN IF n = 11 THEN ParseExpr13(env, parse, r.rest)
             ELSE parse[n, "more", parse[n + 1, "start", r]]
        ELSE IF n = 0 THEN Ternary(parse, r) ELSE Operands(parse, n, r)
  IN  parse[0, "start", Return("ok", 0, tokens)]

\* What follows the expression is ignored, but its first token has been read,
\* and a name among tokens is looked up.
ParseNumericExpr(env, text) ==
  LET r == ParseExpr2(env, Tokens(text))
      next == Symbol(env, r.rest)
  IN  IF r.st = "ok" /\ Starts(r.rest, DOMAIN env \ Hyphenated) /\ next.st # "ok" THEN next ELSE r
=============================================================================
