----------------------------- MODULE MCLibrary ------------------------------
EXTENDS Library

Twins == Permutations(Nodes)

Strings(S, n) == UNION {[1..k -> S] : k \in 0..n}

Lit(c) == [k |-> "lit", c |-> c]
Gap == [k |-> "space", c |-> " "]
Conv(k) == [k |-> k]
Numbers == {0, 7, 10, 255, 1000}

\* One conversion, and two with a space or a character between them.
Prints ==
    {<<<<Conv("d")>>, <<n>>>> : n \in Numbers \cup {-n : n \in Numbers}}
    \cup {<<<<Lit("="), Conv("x")>>, <<n>>>> : n \in Numbers}
    \cup {<<<<Conv(k), sep, Conv("d")>>, <<m, -n>>>> : k \in {"d", "u", "x"}, sep \in {Gap, Lit(",")},
                                                      m, n \in Numbers}
Words == {<<<<Conv("s"), Gap, Conv("s")>>, <<v, w>>>> : v, w \in Strings({"a", "b"}, 2) \ {<< >>}}

\* Numbers that a double holds at every step of their conversion, below 0.1 too,
\* printed alone and with text behind them.
Exact == {<<0, 1>>, <<5, 1>>, <<5, 2>>, <<25, 2>>, <<1, 2>>, <<1, 8>>, <<5, 8>>, <<125, 4>>, <<625, 8>>,
          <<1250, 1>>, <<12500, 1>>, <<3125, 2>>, <<1, 16>>, <<1, 32>>}
Floats == {<<fmt, <<s>>>> : fmt \in {<<Conv("f")>>, <<Conv("f"), Lit("a")>>},
                           s \in Exact \cup {<<-v[1], v[2]>> : v \in Exact}}

\* The lines of the calculator: all short ones, calls and nested ones, and some
\* with more tokens than there is room for; and short ones after another line.
Sums ==
    Strings({"2", "0", "-", "/", "^", "("}, 4)
    \cup {<<f, "(">> \o a \o <<")">> : f \in {"f", "m", "c", "a", "t", "2"}, a \in Strings({"3", ",", "-", "2"}, 3)}
    \cup {s \o <<x, o, "3", "2">> : s \in {<< >>, <<"-">>}, x \in {"0", "2", "3"}, o \in {"/", ".", "-"}}
    \cup Strings({"e", "x", "i", "t"}, 2) \cup Strings({"h", "e", "l", "p"}, 2)
    \cup {w \o s : w \in {ExitWord, HelpWord}, s \in {<< >>, <<"2">>}}
    \cup {<<a, "(", x, o, y, ")", p, z>> : a \in {"-", " ", "2"}, x, y, z \in {"3", "-"}, o, p \in {"-", "+", "*"}}
    \cup {<<"2", o, "3", p, "2">> : o, p \in {"-", "*", "/", "^"}}
    \cup {<<"(", "(", "2", "-", "3", ")", "*", "2", ")">> \o s : s \in {<< >>, <<"-", "3">>}}
Lines == ({<< >>} \X Sums) \cup ({<<"2", "-", "3">>, <<"2", "x">>} \X Strings({"2", "-", "("}, 4))

Segments == [type : {"PT_LOAD"}, vaddr : {16, 32}, memsz : {1, 16, 17, 32}, offset : {100}, filesz : {0, 1, 16, 17}]
Note == [type |-> "PT_NOTE", vaddr |-> 16, memsz |-> 1, offset |-> 0, filesz |-> 1]
Header == [ident |-> "ELF32LE", machine |-> "x86", type |-> "ET_EXEC"]
Executables ==
    {<<Header, <<s, Note, [t EXCEPT !.offset = 200]>>>> : s \in Segments, t \in {u \in Segments : u.vaddr = 32}}
    \cup {<<[Header EXCEPT !.type = "ET_DYN"], <<s>>>> : s \in Segments}

\* Machines with a host bridge or without, and a display behind a bridge.
Device(id, class, sub, header) ==
    [id |-> id, class_code |-> class, sub_class |-> sub, primary |-> 0, secondary |-> 1, prog_if |-> "00",
     rev_id |-> "00", header |-> header, bar0 |-> "lfb"]
Optional(a, devices) == {<< >>} \cup {a :> d : d \in devices}
Hosts ==
    {<< >>} \cup {<<0, 0, 0>> :> Device("host", "06", "00", "00"),
                 <<0, 0, 0>> :> Device("host", "06", "00", "80"),
                 <<0, 0, 0>> :> Device("host", "06", "00", "80") @@ <<0, 0, 1>> :> Device("isa", "06", "01", "00")}
Machines ==
    {h @@ d @@ e :
        h \in Hosts,
        d \in Optional(<<0, 1, 0>>, {Device("qemu", "03", "00", "00"), Device("bridge", "06", "04", "01"),
                                     Device("odd", "04", "04", "80")}),
        e \in Optional(<<1, 0, 0>>, {Device("vbox", "03", "00", "00")})}
Boots == [machine : Machines, cmd : {<<"r", "=", "8">>, <<"r", "=", "9">>, <<"q">>},
          version : {"B0C5", "B0AF"},
          framebuffer : {[lfb |-> "NULL", size |-> << >>], [lfb |-> "fb", size |-> <<"8">>],
                         [lfb |-> "fb", size |-> <<"6">>]}]

Op(c, a) == [command |-> c, a |-> a, text |-> << >>]
VgaOps ==
    {[command |-> "WRITE", a |-> <<p>>, text |-> t] : p \in {0, 1, 3}, t \in {<<"a">>, <<"b", "a", "b">>}}
    \cup {Op("SCROLL", << >>), Op("CLRSCR", << >>), Op("MOVCRS_XY", <<1, 1>>), Op("MOVCRS", <<3>>),
          Op("SET_FG_COLOUR", <<4>>), Op("SET_FG_COLOUR", <<23>>), Op("SET_BG_COLOUR", <<1>>), Op("NONE", << >>)}

\* Two or three arguments, of which the last may be too long.
Arguments == {<<"a", "b", " ", "a", " ", "b">> \o s : s \in {<<" ", "a">>, <<"a", "a", "a">>, <<"b">>}}

MCInputs ==
    [search  |-> Strings({"a", "b"}, 5) \X Strings({"a", "b"}, 3),
     params  |-> Strings({"a", "b", "=", ","}, 6),
     print   |-> Prints,
     word    |-> Words,
     float   |-> Floats,
     number  |-> Strings({"2", ".", "e", "-"}, 6),
     move    |-> (1..6) \X (1..6) \X (1..6),
     calc    |-> Lines,
     round   |-> (-9..9) \X (1..4),
     double  |-> Double,
     elf     |-> Executables,
     start   |-> Strings({"p"}, 2) \X UNION {[1..n -> Strings({"a", "b"}, 2)] : n \in 0..3},
     boot    |-> Boots,
     memory  |-> {<<[lower |-> l, upper |-> u], e>> : l \in 6..16, u \in 20..30, e \in 17..23},
     command |-> {<<"r", "u", "n", " ">> \o s : s \in Strings({"a", "b", " "}, 7) \cup Arguments}
                 \cup Strings({"r", "u", "n", " "}, 4) \cup {<<"h", "e", "l", "p">>, <<"e", "x", "i", "t">>},
     ps      |-> UNION {{f \in [1..n -> 1..n] : f[1] = 1 /\ \A i \in 2..n : f[i] < i} : n \in 1..6},
     image   |-> (1..5) \X (1..3) \X (1..8) \X (1..4),
     vga     |-> {<<3, 2, s>> : s \in Strings(VgaOps, 3)} \cup {<<2, 2, s>> : s \in Strings(VgaOps, 2)}]
=============================================================================
