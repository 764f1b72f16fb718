-------------------------------- MODULE Text --------------------------------
(***************************************************************************)
(* Strings and text: string.c of the kernel and of the C library, the      *)
(* formatted output of kstdio.c and stdio.c, sscanf, and the parameters    *)
(* on the kernel's command line (multiboot.c).                             *)
(*                                                                         *)
(* Memory is a sequence of characters with "NUL" where a string ends, and  *)
(* a pointer is an index, 0 for NULL; what is behind the sequence is NUL.  *)
(***************************************************************************)
EXTENDS Integers, Sequences, SequencesExt, FiniteSets, TLC

NUL == "NUL"
At(m, p) == IF p \in DOMAIN m THEN m[p] ELSE NUL

\* strlen, as the string at p.
StringAt(m, p) ==
    LET end == CHOOSE e \in p..(Len(m) + 1) : At(m, e) = NUL /\ \A i \in p..(e - 1) : m[i] # NUL
    IN  SubSeq(m, p, end - 1)

\* The parts of s between the characters c, without the empty ones: what a
\* reader of the text takes its words to be.
Split(s, c) ==
    LET cuts  == {0, Len(s) + 1} \cup {i \in DOMAIN s : s[i] = c}
        pairs == {<<i, j>> \in cuts \X cuts : i + 1 < j /\ \A k \in cuts : k <= i \/ k >= j}
        order == SetToSortSeq(pairs, LAMBDA p, q : p[1] < q[1])
    IN  [i \in DOMAIN order |-> SubSeq(s, order[i][1] + 1, order[i][2] - 1)]

\* The least member of a set of indices, NULL of the empty set.
FirstIn(S) == IF S = {} THEN 0 ELSE CHOOSE i \in S : \A j \in S : i <= j

-----------------------------------------------------------------------------
(* Searching.                                                              *)

\* strchr finds the end of the string too; strrchr the last one.
strchr(s, c) ==
    LET F[i \in 1..(Len(s) + 1)] == IF At(s, i) = c THEN i ELSE IF At(s, i) = NUL THEN 0 ELSE F[i + 1]
    IN  F[1]
strrchr(s, c) ==
    FoldLeft(LAMBDA ret, i : IF At(s, i) = c THEN i ELSE ret, 0, [i \in 1..(Len(s) + 1) |-> i])

\* strcmp and strncmp are 0 when no difference is found.  strncmp of the C
\* library also stops, with 0, where the shorter string ends.
strcmp(s, t) ==
    LET F[i \in 1..(Len(s) + Len(t) + 1)] ==
            IF At(s, i) = NUL /\ At(t, i) = NUL THEN 0 ELSE IF At(s, i) # At(t, i) THEN 1 ELSE F[i + 1]
    IN  F[1]
strncmp_kernel(s, t, n) ==
    LET F[i \in 1..(n + 1)] ==
            IF i > n THEN 0 ELSE IF At(s, i) # At(t, i) THEN 1 ELSE IF At(s, i) = NUL THEN 0 ELSE F[i + 1]
    IN  F[1]
strncmp(s, t, n) ==
    LET F[i \in 1..(n + 1)] ==
            IF At(s, i) = NUL \/ At(t, i) = NUL \/ i > n THEN 0 ELSE IF s[i] # t[i] THEN 1 ELSE F[i + 1]
    IN  F[1]

\* strcspn and strspn: the length of the prefix without, and with only, set.
strcspn(s, set) ==
    LET F[i \in 1..(Len(s) + 1)] ==
            IF i > Len(s) \/ strchr(set, At(s, i)) # 0 THEN i - 1 ELSE F[i + 1]
    IN  F[1]
strspn(s, set) ==
    LET F[i \in 1..(Len(s) + 1)] ==
            IF i > Len(s) \/ strchr(set, At(s, i)) = 0 THEN i - 1 ELSE F[i + 1]
    IN  F[1]

\* Mutant: the place where a mismatch was found is searched from.
strstr_skip(m, needle) ==
    LET Match(i) == Cardinality({k \in DOMAIN needle : \A j \in 1..k : At(m, i + j - 1) = needle[j]})
        F[i \in 1..(2 * Len(m) + 2)] ==
            IF At(m, i + Len(needle) - 1) = NUL THEN 0
            ELSE IF Match(i) = Len(needle) THEN i ELSE F[i + Match(i) + 1]
    IN  IF At(m, 1) = NUL \/ needle = << >> THEN 0 ELSE F[1]

\* strstr: adv runs ahead by the length of the needle, whatever lies there.
strstr(m, needle) ==
    LET F[i \in 1..(Len(m) + 1)] ==
            IF At(m, i + Len(needle) - 1) = NUL THEN 0
            ELSE IF \A k \in DOMAIN needle : At(m, i + k - 1) = needle[k] THEN i ELSE F[i + 1]
    IN  IF At(m, 1) = NUL \/ needle = << >> THEN 0 ELSE F[1]

-----------------------------------------------------------------------------
(* strtok and the kernel's parameters.                                     *)

\* strtok of kernel/util/string.c: the token at p ends at a delimiter, which is
\* overwritten, or with the memory.  When nothing is left, stored_string stays.
\* wild says that a NULL pointer has been followed; what then lies at address 0
\* decides, and nothing is claimed of the rest.
CutToken(t, p, end) ==
    IF At(t.mem, p) = NUL THEN [t EXCEPT !.ret = 0]
    ELSE IF At(t.mem, end) # NUL
    THEN [t EXCEPT !.mem[end] = NUL, !.stored = end + 1, !.ret = p]
    ELSE [t EXCEPT !.stored = end, !.ret = p]
TokenFrom(t, p, delimiters) == CutToken(t, p, p + strcspn(StringAt(t.mem, p), delimiters))
SkipFrom(m, from, delimiters) == from + strspn(StringAt(m, from), delimiters)
strtok(t, string, delimiters) ==
    LET from == IF string = 0 THEN t.stored ELSE string
    IN  IF from = 0 THEN [t EXCEPT !.ret = 0, !.wild = TRUE]
        ELSE TokenFrom(t, SkipFrom(t.mem, from, delimiters), delimiters)

\* strtok(NULL, NULL): the delimiters are looked at if any text is left.
strtok_NULL(t) == [t EXCEPT !.ret = 0, !.wild = @ \/ t.stored = 0 \/ At(t.mem, t.stored) # NUL]

\* parse_multiboot_params: the parameters between commas.  The first goes on the
\* list though it is NULL when there is none.
AddToken(list, t) == [t |-> t, list |-> IF t.ret = 0 /\ list # << >> THEN list ELSE Append(list, t.ret)]
FullParams(cmd) ==
    LET F[k \in 0..Len(cmd)] ==
            IF k = 0 THEN AddToken(<< >>, strtok([mem |-> cmd, stored |-> 0, ret |-> 0, wild |-> FALSE], 1, <<",">>))
            ELSE IF F[k - 1].t.ret = 0 THEN F[k - 1]
            ELSE AddToken(F[k - 1].list, strtok(F[k - 1].t, 0, <<",">>))
    IN  F[Len(cmd)]

\* set_params cuts every parameter at "=", keeps pointers to the parts, and calls
\* strtok(NULL, NULL) in the end.
AddParam(params, key, val) ==
    [t |-> val, params |-> Append(params, [param_key |-> key.ret, param_val |-> val.ret])]
CutValue(params, key) == AddParam(params, key, strtok(key, 0, <<"=">>))
CutParams(full) ==
    FoldLeft(LAMBDA s, p : CutValue(s.params, strtok(s.t, p, <<"=">>)), [t |-> full.t, params |-> << >>], full.list)
ForgetString(s) == [s EXCEPT !.t = strtok_NULL(s.t)]
set_params(cmd) == ForgetString(CutParams(FullParams(cmd)))

\* params_find_by_key: the value of the first parameter with that key.
ParamValue(s, i) ==
    IF i = 0 \/ s.params[i].param_val = 0 THEN << >> ELSE StringAt(s.t.mem, s.params[i].param_val)
ParamNamed(s, key) ==
    ParamValue(s, FirstIn({j \in DOMAIN s.params : StringAt(s.t.mem, s.params[j].param_key) = key}))
params_find_by_key(cmd, key) == ParamNamed(set_params(cmd), key)

-----------------------------------------------------------------------------
(* Copying.                                                                *)

\* One byte of a copy, and the loop of memcpy (memcpy_8, _16 and _32).
CopyByte(m, dst, src, i) == [m EXCEPT ![dst + i] = m[src + i]]
memcpy(m, dst, src, len) ==
    FoldLeft(LAMBDA a, i : CopyByte(a, dst, src, i - 1), m, [i \in 1..len |-> i])

\* memmove copies backwards when the destination lies behind the source.
memmove(m, dst, src, len) ==
    IF dst < src THEN memcpy(m, dst, src, len)
    ELSE FoldLeft(LAMBDA a, i : CopyByte(a, dst, src, len - i), m, [i \in 1..len |-> i])

\* strcpy of string s to p, and strcat to the string at p.
strcpy(m, p, s) ==
    [i \in DOMAIN m |-> IF i - p \in 0..Len(s) THEN At(s, i - p + 1) ELSE m[i]]
strcat(m, p, s) == strcpy(m, p + Len(StringAt(m, p)), s)

\* strncpy of the C library: no NUL at the end, which the callers' memory has.
strncpy(m, p, s, n) ==
    [i \in DOMAIN m |-> IF i - p \in 0..(n - 1) /\ i - p < Len(s) THEN s[i - p + 1] ELSE m[i]]

-----------------------------------------------------------------------------
(* Numbers.                                                                *)

Digit == <<"0", "1", "2", "3", "4", "5", "6", "7", "8", "9", "A", "B", "C", "D", "E", "F">>
Value(c) == CHOOSE v \in 0..15 : Digit[v + 1] = c
isdigit(c) == \E v \in 0..9 : Digit[v + 1] = c
isxdigit(c) == \E v \in 0..15 : Digit[v + 1] = c

\* The digits of n to a base, from the first of the places that is not zero;
\* the last place is always written.
Places(n, weights) ==
    LET first == FirstIn({i \in DOMAIN weights : n \div weights[i] # 0} \cup {Len(weights)})
    IN  [i \in 1..(Len(weights) - first + 1) |->
            LET w == first + i - 1
            IN  Digit[(IF w = 1 THEN n \div weights[1] ELSE (n % weights[w - 1]) \div weights[w]) + 1]]

Tens == [i \in 1..10 |-> 10^(10 - i)]
Sixteens == [i \in 1..8 |-> 16^(8 - i)]

\* sputuint, kputuint and kputuintbufat: the divisor goes down from 10^9.
sputuint(n) == Places(n, Tens)
\* sputint, kputint, kputintbufat and itoa.
sputint(n) == IF n >= 0 THEN sputuint(n) ELSE <<"-">> \o sputuint(-n)
\* sputhex, kputhex and kputhexbufat.
sputhex(n) == <<"0", "x">> \o Places(n, Sixteens)

\* atoi of the kernel: digits up to the first character that is none.
DigitsValue(s, base) == FoldLeft(LAMBDA a, c : a * base + Value(c), 0, s)
atoi(s) ==
    LET neg == At(s, 1) = "-"
        u   == IF neg THEN Tail(s) ELSE s
    IN  (IF neg THEN -1 ELSE 1) * DigitsValue(SubSeq(u, 1, strspn(u, SubSeq(Digit, 1, 10))), 10)

\* atoi of the C library: -1 unless every character was a digit, which a sign
\* is not.
atoi_libc(s) ==
    LET u   == IF At(s, 1) = "-" THEN Tail(s) ELSE s
        len == strspn(u, SubSeq(Digit, 1, 10))
    IN  IF len # Len(s) THEN -1 ELSE DigitsValue(s, 10)

\* strrev swaps from both ends.
strrev(s) == FoldLeft(LAMBDA t, i : [t EXCEPT ![i] = t[Len(s) + 1 - i], ![Len(s) + 1 - i] = t[i]],
                      s, [i \in 1..(Len(s) \div 2) |-> i])

\* The characters cs stored behind the first j of buffer m.
Stored(m, j, cs) == [i \in DOMAIN m |-> IF i - j \in DOMAIN cs THEN cs[i - j] ELSE m[i]]

\* itoa into buffer m, the last digit first; no NUL is written behind them.
itoa(m, value) ==
    LET F[n \in Nat] == IF n < 10 THEN <<Digit[n + 1]>> ELSE <<Digit[(n % 10) + 1]>> \o F[n \div 10]
    IN  IF value < 0 THEN Stored(m, 0, <<"-">> \o strrev(F[-value])) ELSE Stored(m, 0, strrev(F[value]))

\* strtoul from position p of s: the base is told by the text if it is 0.
strtoul(s, p, base) ==
    LET hex  == base = 0 /\ At(s, p) = "0" /\ At(s, p + 1) = "x" /\ isxdigit(At(s, p + 2))
        b    == IF base # 0 THEN base ELSE IF hex THEN 16 ELSE IF At(s, p) = "0" THEN 8 ELSE 10
        from == IF hex THEN p + 2 ELSE IF base = 0 /\ b = 8 THEN p + 1 ELSE p
        len  == strspn(SubSeq(s, from, Len(s)), SubSeq(Digit, 1, b))
    IN  [val |-> DigitsValue(SubSeq(s, from, from + len - 1), b), next |-> from + len]

strtol(s, p, base) ==
    IF At(s, p) = "-" THEN LET r == strtoul(s, p + 1, base) IN [r EXCEPT !.val = -r.val]
    ELSE strtoul(s, p, base)

-----------------------------------------------------------------------------
(* Formatted output.  A format is a sequence of items: a character, a space *)
(* or a conversion; args are the arguments of the conversions, in order.    *)

Conversions == {"d", "u", "x", "s", "c", "f"}
ArgIndex(fmt, i) == Cardinality({j \in 1..i : fmt[j].k \in Conversions})

\* sputfpoint of the fraction v = <<n, d>>: four places, those before the point
\* included; all behind it are zeros for a number below 0.1.  The number it
\* returns is 3 for zero and 1 for all others: str has run to the end by then.
\* The divisions are exact here, so v is one that a double holds at every step.
sputfpoint(v) ==
    LET n      == IF v[1] < 0 THEN -v[1] ELSE v[1]
        before == sputuint(n \div v[2])
        left   == IF n < v[2] THEN 4 ELSE IF Len(before) > 4 THEN 0 ELSE 4 - Len(before)
        behind == [k \in 1..left |-> IF 10 * n < v[2] THEN "0" ELSE Digit[(((n * 10^k) \div v[2]) % 10) + 1]]
    IN  IF n = 0 THEN [text |-> <<"0">>, ret |-> 3]
        ELSE [text |-> (IF v[1] < 0 THEN <<"-">> ELSE << >>) \o before \o <<".">> \o behind, ret |-> 1]

\* What item i of the format prints; after any other character than those of
\* Conversions, "%" prints that character.
Piece(fmt, args, i) ==
    LET a == args[ArgIndex(fmt, i)] IN
    CASE fmt[i].k = "s" -> a
      [] fmt[i].k = "c" -> <<a>>
      [] fmt[i].k = "d" -> sputint(a)
      [] fmt[i].k = "u" -> sputuint(a)
      [] fmt[i].k = "x" -> sputhex(a)
      [] fmt[i].k = "f" -> sputfpoint(a).text
      [] OTHER          -> <<fmt[i].c>>

\* vfprintf prints the pieces one after the other.
vfprintf(fmt, args) == FlattenSeq([i \in DOMAIN fmt |-> Piece(fmt, args, i)])

\* kprintf, ksprintf and vsnprintf know no "%f" and print the letter.
NoFloats(fmt) == [i \in DOMAIN fmt |-> IF fmt[i].k = "f" THEN [k |-> "other", c |-> "f"] ELSE fmt[i]]
kprintf(fmt, args) == vfprintf(NoFloats(fmt), args)

\* vsprintf into buffer m: strcpy, sputuint and sputfpoint end what they write
\* with NUL, nothing else does.  Behind a floating point number it goes on where
\* sputfpoint says.
vsprintf(m, fmt, args) ==
    LET Put(b, i) ==
            LET cs  == Piece(fmt, args, i)
                nul == IF fmt[i].k \in {"s", "d", "u", "f"} THEN <<NUL>> ELSE << >>
                len == IF fmt[i].k = "f" THEN sputfpoint(args[ArgIndex(fmt, i)]).ret ELSE Len(cs)
            IN  [mem |-> Stored(b.mem, b.j, cs \o nul), j |-> b.j + len]
    IN  FoldLeft(Put, [mem |-> m, j |-> 0], [i \in DOMAIN fmt |-> i])

\* ksprintf ends the whole with NUL.
ksprintf(m, fmt, args) == Stored(m, 0, kprintf(fmt, args) \o <<NUL>>)

\* vsnprintf, whose loop tests format[i] & (j < size): it goes on while the
\* character has an odd code and there is room, where a conversion begins with
\* "%", which is odd; what it then writes may exceed the size.
EvenCode == {" ", ",", "b"}
vsnprintf(m, size, fmt, args) ==
    LET Put(b, i) ==
            LET cs  == Piece(NoFloats(fmt), args, i)
                nul == IF fmt[i].k \in {"s", "d", "u"} THEN <<NUL>> ELSE << >>
                end == (fmt[i].k \in {"lit", "space"} /\ fmt[i].c \in EvenCode) \/ b.j >= size
            IN  IF b.stop \/ end THEN [b EXCEPT !.stop = TRUE]
                ELSE [mem |-> Stored(b.mem, b.j, cs \o nul), j |-> b.j + Len(cs), stop |-> FALSE]
    IN  FoldLeft(Put, [mem |-> m, j |-> 0, stop |-> FALSE], [i \in DOMAIN fmt |-> i])

-----------------------------------------------------------------------------
(* sscanf.                                                                 *)

isspace(c) == c = " "
SkipSpace(s, p) == p + strspn(SubSeq(s, p, Len(s)), <<" ">>)

\* Where strtod ends: behind a number, "inf", "infinity" or "nan", or where it
\* began.  Letters have one case here.
strtod(s) ==
    LET Is(p, w)     == \A k \in DOMAIN w : At(s, p + k - 1) = w[k]
        Behind(p, c) == p + strspn(SubSeq(s, p, Len(s)), c)
        ten   == SubSeq(Digit, 1, 10)
        from  == SkipSpace(s, 1)
        p     == IF At(s, from) \in {"+", "-"} THEN from + 1 ELSE from
        whole == Behind(p, ten)
        end   == IF At(s, whole) = "." THEN Behind(whole + 1, ten) ELSE whole
        exp   == IF At(s, end + 1) \in {"+", "-"} THEN end + 2 ELSE end + 1
        paren == p + 4 + strcspn(SubSeq(s, p + 4, Len(s)), <<")">>)
    IN  CASE Is(p, <<"i", "n", "f">>) ->
                IF Is(p + 3, <<"i", "n", "i", "t", "y">>) THEN p + 8 ELSE p + 3
          [] Is(p, <<"n", "a", "n">>) ->
                IF At(s, p + 3) # "(" THEN p + 3 ELSE IF At(s, paren) = ")" THEN paren + 1 ELSE paren
          [] isdigit(At(s, p)) \/ At(s, p) = "." ->
                IF At(s, end) = "e" /\ isdigit(At(s, exp)) THEN Behind(exp, ten) ELSE end
          [] OTHER -> 1

Base == [d |-> 10, u |-> 10, x |-> 16, o |-> 8, i |-> 0]

\* Mutant: a sign is expected of no conversion.
ScanNumber_unsigned(st, s, k) ==
    LET p == SkipSpace(s, st.p)
        r == strtoul(s, p, Base[k])
    IN  IF ~isdigit(At(s, p)) THEN [st EXCEPT !.stop = TRUE]
        ELSE [st EXCEPT !.p = r.next, !.out = Append(@, r.val)]

\* A conversion of a number; without a digit in its place, sscanf is over.
ScanNumber(st, s, k) ==
    LET p      == SkipSpace(s, st.p)
        signed == k \in {"d", "i"}
        first  == IF signed /\ At(s, p) = "-" THEN At(s, p + 1) ELSE At(s, p)
        good   == CASE k = "x" -> isxdigit(first)
                    [] k = "o" -> isdigit(first) /\ Value(first) <= 7
                    [] OTHER   -> isdigit(first)
        r      == IF signed THEN strtol(s, p, Base[k]) ELSE strtoul(s, p, Base[k])
    IN  IF good THEN [st EXCEPT !.p = r.next, !.out = Append(@, r.val)]
        ELSE [st EXCEPT !.stop = TRUE]

\* One item of the format against the rest of the string.  A skipped field
\* ("*") also skips the rest of its word in the format, which is the item.
ScanItem(st, s, f) ==
    LET word(p) == strcspn(SubSeq(s, p, Len(s)), <<" ">>)
        at      == SkipSpace(s, st.p)
    IN  IF st.stop \/ At(s, st.p) = NUL THEN [st EXCEPT !.stop = TRUE]
        ELSE CASE f.k = "space" -> [st EXCEPT !.p = at]
               [] f.k = "lit"   -> [st EXCEPT !.p = @ + 1, !.stop = At(s, st.p) # f.c]
               [] f.k = "*"     -> [st EXCEPT !.p = @ + word(st.p)]
               [] f.k = "c"     -> [st EXCEPT !.p = @ + 1, !.out = Append(@, At(s, st.p))]
               [] f.k = "s"     -> [st EXCEPT !.p = at + word(at),
                                              !.out = Append(@, SubSeq(s, at, at + word(at) - 1))]
               [] OTHER         -> ScanNumber(st, s, f.k)

vsscanf(s, fmt) == FoldLeft(LAMBDA st, f : ScanItem(st, s, f), [p |-> 1, out |-> << >>, stop |-> FALSE], fmt)
=============================================================================
