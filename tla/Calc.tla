-------------------------------- MODULE Calc --------------------------------
(***************************************************************************)
(* The calculator (calc.c): the tokens of a line and a parser by recursive *)
(* descent with one operator for each level of precedence, which evaluates *)
(* as it goes.                                                             *)
(*                                                                         *)
(* A number is a fraction <<n, d>>; what C computes in floating point is   *)
(* exact here, and a division by a zero that passes unnoticed (in pow) has *)
(* d = 0.  A character is a string of one character.                       *)
(***************************************************************************)
EXTENDS Text

CONSTANTS
    MaxTokens,  \* MAX_TOKENS, the length of the array of tokens
    MaxTokLen   \* MAX_TOK_LEN

-----------------------------------------------------------------------------
(* Fractions, and the operations of the machine and of libm on them.       *)

Abs(a) == IF a < 0 THEN -a ELSE a
Divisor(a, b) == CHOOSE g \in 1..(a + b + 1) :
    /\ a % g = 0 /\ b % g = 0
    /\ \A h \in (g + 1)..(a + b + 1) : a % h # 0 \/ b % h # 0
Frac(n, d) ==
    IF d = 0 THEN <<IF n = 0 THEN 0 ELSE 1, 0>>
    ELSE LET g == Divisor(Abs(n), Abs(d)) * (IF d < 0 THEN -1 ELSE 1) IN <<n \div g, d \div g>>

Add(a, b) == Frac(a[1] * b[2] + b[1] * a[2], a[2] * b[2])
Neg(a) == <<-a[1], a[2]>>
Mul(a, b) == Frac(a[1] * b[1], a[2] * b[2])
Div(a, b) == Frac(a[1] * b[2], a[2] * b[1])
\* Powers with a whole exponent.
pow(a, b) ==
    IF b[1] = 0 THEN <<1, 1>>
    ELSE IF b[1] > 0 THEN Frac(a[1]^b[1], a[2]^b[1]) ELSE Frac(a[2]^(-b[1]), a[1]^(-b[1]))
floor(a) == <<a[1] \div a[2], 1>>
\* The whole part, as the conversion to int takes it.
Whole(v) == IF v[1] >= 0 THEN v[1] \div v[2] ELSE -((-v[1]) \div v[2])
fabs(a) == IF a[1] < 0 THEN Neg(a) ELSE a
\* The whole part is one too small for a positive fraction.
ceil(a) == IF a[1] > Whole(a) * a[2] THEN <<Whole(a) + 1, 1>> ELSE <<Whole(a), 1>>
\* modf: the fraction and the whole part, both with the sign of the number.
modf(a) ==
    LET i == Whole(fabs(a))
        x == Add(fabs(a), <<-i, 1>>)
    IN  IF a[1] < 0 THEN <<Neg(x), -i>> ELSE <<x, i>>
fmod(a, b) == IF b[1] = 0 THEN <<0, 1>> ELSE Add(a, Neg(Mul(b, <<Whole(Div(a, b)), 1>>)))

-----------------------------------------------------------------------------
(* Tokens.                                                                 *)

Digits == {"0", "2", "3"}
Letters == {"f", "m", "c", "a", "t"}
Val == [c \in Digits |-> CASE c = "0" -> 0 [] c = "2" -> 2 [] c = "3" -> 3]

\* symbol: the kind of a character.
Symbols == [add_s |-> "+", sub_s |-> "-", mul_s |-> "*", div_s |-> "/", exp_s |-> "^",
            lpar_s |-> "(", rpar_s |-> ")", dec_s |-> ".", comma_s |-> ","]
symbol(c) ==
    IF c \in Digits THEN "dig_s" ELSE IF c \in Letters THEN "txt_s"
    ELSE IF c \in Range(Symbols) THEN CHOOSE s \in DOMAIN Symbols : Symbols[s] = c
    ELSE "inval_s"

\* get_func: the functions with exact results, with names of one letter, stand
\* for all twenty.
get_func(txt) ==
    CASE txt = <<"f">> -> "floor_f" [] txt = <<"m">> -> "fmod_f" [] txt = <<"c">> -> "ceil_f"
      [] txt = <<"a">> -> "fabs_f"  [] txt = <<"t">> -> "trunc_f" [] OTHER -> "inval_f"

\* atof of the text of a number: a second point ends it.
atof(txt) ==
    LET dots == {i \in DOMAIN txt : txt[i] = "."}
        dot  == IF dots = {} THEN Len(txt) + 1 ELSE CHOOSE i \in dots : \A j \in dots : i <= j
        rest == dots \ {dot}
        end  == IF rest = {} THEN Len(txt) ELSE (CHOOSE i \in rest : \A j \in rest : i <= j) - 1
        ds   == SelectSeq(SubSeq(txt, 1, end), LAMBDA c : c # ".")
    IN  Frac(FoldLeft(LAMBDA a, c : a * 10 + Val[c], 0, ds), 10^(IF dots = {} THEN 0 ELSE end - dot))

\* The characters a token goes on with from position i of the line.
RunEnd(line, i, kinds) ==
    LET stop == {j \in (i + 1)..Len(line) : symbol(line[j]) \notin kinds}
        end  == IF stop = {} THEN Len(line) ELSE (CHOOSE j \in stop : \A k \in stop : j <= k) - 1
    IN  IF end - i + 1 > MaxTokLen THEN i + MaxTokLen - 1 ELSE end

Failed == [symbol |-> "failed", txt |-> << >>]

\* One turn of the loop of tokenize.  Digits behind a function's name, with
\* blanks in between, are taken for the name of a function.
NextToken(line, i, toks) ==
    LET sym  == symbol(line[i])
        name == sym = "txt_s" \/ (sym = "dig_s" /\ toks # << >> /\ Last(toks).symbol = "txt_s")
        end  == RunEnd(line, i, IF name THEN {"txt_s", "dig_s"} ELSE {"dig_s", "dec_s"})
        txt  == SubSeq(line, i, end)
        full == Len(txt) = MaxTokLen
    IN  CASE sym = "inval_s" -> [end |-> i, tok |-> Failed, full |-> FALSE]
          [] name -> [end |-> end, full |-> full, tok |-> IF get_func(txt) = "inval_f" THEN Failed
                                                          ELSE [symbol |-> "txt_s", txt |-> txt]]
          [] sym = "dig_s" /\ ~name -> [end |-> end, full |-> full, tok |-> [symbol |-> "num_s", txt |-> txt]]
          [] OTHER -> [end |-> i, full |-> FALSE, tok |-> [symbol |-> sym, txt |-> <<line[i]>>]]

eof_token == [symbol |-> "eof_s", txt |-> <<"EOF">>]

\* tokenize: the tokens behind toks, ok if every character and function is known.
\* It is wild when it writes outside its blocks, which nothing checks: the NUL
\* behind a text of full length, and a token behind the last place.
StoreToken(st, tok, full) ==
    [st EXCEPT !.toks = Append(@, tok), !.wild = @ \/ full \/ Len(st.toks) >= MaxTokens]
RECURSIVE Tokens(_, _, _)
Tokens(line, i, st) ==
    IF i > Len(line) THEN StoreToken(st, eof_token, FALSE)
    ELSE IF line[i] = " " THEN Tokens(line, i + 1, st)
    ELSE LET t == NextToken(line, i, st.toks)
         IN  IF t.tok = Failed THEN [st EXCEPT !.ok = FALSE, !.wild = @ \/ t.full]
             ELSE Tokens(line, t.end + 1, StoreToken(st, t.tok, t.full))
tokenize(toks, line) == Tokens(line, 1, [ok |-> TRUE, toks |-> toks, wild |-> FALSE])

\* clear_toks gives the tokens of the line before back, eof_token and its text
\* too, which malloc never gave: that clears the bit "present" before them, which
\* is clear there, for a NUL ends the literal before "EOF" and the variable before
\* eof_token is a small number or an address of the heap.
clear_toks(toks) == << >>

-----------------------------------------------------------------------------
(* The parser.  A result is [ok, i, v]: i is the next token, v the value.  *)

Fail == [ok |-> FALSE, i |-> 0, v |-> <<0, 1>>]
Ok(i, v) == [ok |-> TRUE, i |-> i, v |-> v]

\* perf_op: the value, none for a division by zero.
perf_op(op, a, b) ==
    CASE op = "add_s" -> {Add(a, b)}
      [] op = "sub_s" -> {Add(a, Neg(b))}
      [] op = "mul_s" -> {Mul(a, b)}
      [] op = "div_s" -> IF b[1] = 0 /\ b[2] # 0 THEN {} ELSE {Div(a, b)}
      [] op = "exp_s" -> {pow(a, b)}

\* perf_func: the value, none for the wrong number of arguments.
perf_func(func, args) ==
    CASE func = "floor_f" /\ Len(args) = 1 -> {floor(args[1])}
      [] func = "ceil_f" /\ Len(args) = 1  -> {ceil(args[1])}
      [] func = "fabs_f" /\ Len(args) = 1  -> {fabs(args[1])}
      [] func = "trunc_f" /\ Len(args) = 1 -> {<<Whole(args[1]), 1>>}
      [] func = "fmod_f" /\ Len(args) = 2  -> {fmod(args[1], args[2])}
      [] OTHER -> {}

Result(i, vs) == IF vs = {} THEN Fail ELSE Ok(i, CHOOSE v \in vs : TRUE)

\* The operators of a level and the level of their operands.
Ops == [expression |-> {"add_s", "sub_s"}, term |-> {"mul_s", "div_s"}, factor |-> {"exp_s"}]
Below == [expression |-> "term", term |-> "factor", factor |-> "s_atom"]

RECURSIVE parse_level(_, _, _), _parse_atom(_, _)

\* _parse_func and _parse_func_rest: arguments are atoms.
_parse_func(t, i) ==
    LET a   == _parse_atom(t, i + 2)
        b   == _parse_atom(t, a.i + 1)
        fun == get_func(t[i].txt)
    IN  IF t[i + 1].symbol # "lpar_s" \/ ~a.ok THEN Fail
        ELSE IF t[a.i].symbol = "rpar_s" THEN Result(a.i + 1, perf_func(fun, <<a.v>>))
        ELSE IF t[a.i].symbol # "comma_s" \/ ~b.ok \/ t[b.i].symbol # "rpar_s" THEN Fail
        ELSE Result(b.i + 1, perf_func(fun, <<a.v, b.v>>))

\* _parse_atom.  For a number and a function it ends without a return; at -O0
\* the zero that the call before it returned is still in the register.
_parse_atom(t, i) ==
    LET e == parse_level("expression", t, i + 1)
    IN  CASE t[i].symbol = "lpar_s" -> IF e.ok /\ t[e.i].symbol = "rpar_s" THEN Ok(e.i + 1, e.v) ELSE Fail
          [] t[i].symbol = "num_s"  -> Ok(i + 1, atof(t[i].txt))
          [] t[i].symbol = "txt_s"  -> _parse_func(t, i)
          [] OTHER -> Fail

_parse_s_atom(t, i) ==
    IF t[i].symbol = "sub_s"
    THEN LET a == _parse_atom(t, i + 1) IN IF a.ok THEN Ok(a.i, Neg(a.v)) ELSE Fail
    ELSE _parse_atom(t, i)

\* _parse_expression, _parse_term and _parse_factor: one operand, or two.  An
\* expression with two ends like _parse_atom, behind a perf_op that returned zero.
parse_level(level, t, i) ==
    IF level = "s_atom" THEN _parse_s_atom(t, i)
    ELSE LET a == parse_level(Below[level], t, i)
             b == parse_level(Below[level], t, a.i + 1)
         IN  IF ~a.ok THEN Fail
             ELSE IF t[a.i].symbol \notin Ops[level] THEN a
             ELSE IF ~b.ok THEN Fail
             ELSE Result(b.i, perf_op(t[a.i].symbol, a.v, b.v))

\* Mutant: what is behind the expression is not looked at.
parse_front(t) == parse_level("expression", t, 1)

\* parse: an expression and nothing behind it.
parse(t) ==
    LET r == parse_level("expression", t, 1)
    IN  IF r.ok /\ t[r.i].symbol = "eof_s" THEN r ELSE Fail

\* trim drops the blanks on both sides.
trim(line) ==
    LET S == {i \in DOMAIN line : ~isspace(line[i])}
    IN  IF S = {} THEN << >>
        ELSE SubSeq(line, CHOOSE i \in S : \A j \in S : i <= j, CHOOSE i \in S : \A j \in S : i >= j)

\* process_request, after a line that left the tokens left: its result, and
\* whether it has written outside its blocks, when anything may result.
process_request(left, line) ==
    LET t == tokenize(clear_toks(left), trim(line))
        r == IF t.ok THEN parse(t.toks) ELSE Fail
    IN  [ok |-> r.ok, v |-> r.v, wild |-> t.wild]

\* num_to_string: the whole part, a point, and five places without leading
\* zeros.  A minus is printed with a whole part other than zero.
num_to_string(v) ==
    sputint(Whole(v)) \o <<".">> \o sputint(((Abs(v[1]) % v[2]) * 100000) \div v[2])

ExitWord == <<"e", "x", "i", "t">>
HelpWord == <<"h", "e", "l", "p">>

\* One turn of the loop of main: what it does with a line.  "show" prints
\* num_to_string of the value.
calc_main(left, line) ==
    IF strncmp(line, ExitWord, 4) = 0 THEN "exit"
    ELSE IF strncmp(line, HelpWord, 4) = 0 THEN "help"
    ELSE IF process_request(left, line).ok THEN "show" ELSE "error"

-----------------------------------------------------------------------------
\* The number that a decimal text shows.
Decimal(txt) ==
    LET neg  == txt[1] = "-"
        dot  == strchr(txt, ".")
        frac == SubSeq(txt, dot + 1, Len(txt))
        abs  == DigitsValue(SubSeq(txt, IF neg THEN 2 ELSE 1, dot - 1), 10) * 10^Len(frac) + DigitsValue(frac, 10)
    IN  Frac(IF neg THEN -abs ELSE abs, 10^Len(frac))

\* floor and ceil are the nearest whole numbers on either side, trunc the one
\* of them towards zero, and modf splits a number without changing its sign.
RoundsRight(v) ==
    LET m == modf(v)
        Below1(a, b) == a[1] * b[2] < (b[1] + b[2]) * a[2]
        AtMost(a, b) == a[1] * b[2] <= b[1] * a[2]
    IN  /\ AtMost(floor(v), v) /\ Below1(v, floor(v))
        /\ AtMost(v, ceil(v)) /\ Below1(ceil(v), v)
        /\ <<m[2], 1>> = IF v[1] < 0 THEN ceil(v) ELSE floor(v)
        /\ Add(m[1], <<m[2], 1>>) = v
        /\ m[2] = Whole(v)

\* What the tokens a..b of t mean: the values they have in some reading of the
\* usual grammar, which says nothing of the order in which they are looked at.
\* Operators of one level follow each other from left to right, powers from right
\* to left, and an argument is an expression; without chains, a level has one
\* operator at most and an argument is an atom, as in "(1 * 2) + 3".
RECURSIVE Means(_, _, _, _, _)
Means(chains, level, t, a, b) ==
    LET left     == IF chains /\ level # "factor" THEN level ELSE Below[level]
        right    == IF chains /\ level = "factor" THEN level ELSE Below[level]
        argument == IF chains THEN "expression" ELSE "atom"
    IN
    CASE b < a -> {}
      [] level = "atom" ->
            (IF a = b /\ t[a].symbol = "num_s" THEN {atof(t[a].txt)} ELSE {})
            \cup (IF t[a].symbol = "lpar_s" /\ t[b].symbol = "rpar_s"
                  THEN Means(chains, "expression", t, a + 1, b - 1) ELSE {})
            \cup (IF t[a].symbol = "txt_s" /\ b > a + 1 /\ t[a + 1].symbol = "lpar_s" /\ t[b].symbol = "rpar_s"
                  THEN LET fun == get_func(t[a].txt) IN
                       UNION {perf_func(fun, <<x>>) : x \in Means(chains, argument, t, a + 2, b - 1)}
                       \cup UNION {UNION {perf_func(fun, <<x, y>>) : x \in Means(chains, argument, t, a + 2, k - 1),
                                                                      y \in Means(chains, argument, t, k + 1, b - 1)}
                                   : k \in {k \in (a + 3)..(b - 2) : t[k].symbol = "comma_s"}}
                  ELSE {})
      [] level = "s_atom" ->
            Means(chains, "atom", t, a, b)
            \cup (IF t[a].symbol = "sub_s" THEN {Neg(x) : x \in Means(chains, "atom", t, a + 1, b)} ELSE {})
      [] OTHER ->
            Means(chains, Below[level], t, a, b)
            \cup UNION {UNION {perf_op(t[k].symbol, x, y) : x \in Means(chains, left, t, a, k - 1),
                                                            y \in Means(chains, right, t, k + 1, b)}
                        : k \in {k \in (a + 1)..(b - 1) : t[k].symbol \in Ops[level]}}
=============================================================================
