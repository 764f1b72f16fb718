------------------------------ MODULE Library -------------------------------
(***************************************************************************)
(* The parts of the system that hold no state of their own, as the         *)
(* programs and the kernel call them: one caller works on a list or on a   *)
(* queue, step by step, or calls one of the functions after the other.     *)
(***************************************************************************)
EXTENDS Lists, Doubles, Calc, PhysicalMemory, Loader, Devices, Programs

Init == ListsInit /\ CallsInit

Next ==
    \/ ListsNext /\ UNCHANGED job
    \/ kind = "none" /\ CallsNext /\ UNCHANGED lvars

Spec == Init /\ [][Next]_<<lvars, job>>

-----------------------------------------------------------------------------
(* Correctness of the functions.                                           *)

\* strstr finds the first occurrence in a string that ends where its memory
\* does, though it looks ahead by the length of the needle and over the end
\* (string.c:169); tarfs builds the lookup of a path on it.  The kernel finds the
\* value of a parameter: strtok cuts one memory twice, at the commas and then at
\* "=", through one stored pointer (multiboot.c:13), and a parameter without a
\* value must not get that of its neighbour; and no NULL pointer is followed for
\* a line of such parameters, though the last call of strtok has no delimiters
\* (multiboot.c:22).  Characters and sets of them are found, and strncmp compares
\* strings that are long enough (see ComparesLength for the others).
Searches ==
    /\ job.fn = "search" =>
         LET m == job.arg[1]
             n == job.arg[2]
             only(S) == {k \in 0..Len(m) : \A i \in 1..k : m[i] \in S}
             longest(K) == CHOOSE k \in K : \A j \in K : j <= k
             same(k) == \A i \in 1..k : At(m, i) = At(n, i)
         IN  /\ strstr(m, n) = FirstIn({i \in DOMAIN m : n # << >> /\ IsPrefix(n, SubSeq(m, i, Len(m)))})
             /\ \A c \in {"a", "b"} :
                  /\ strchr(m, c) = FirstIn({i \in DOMAIN m : m[i] = c})
                  /\ strrchr(m, c) # 0 => m[strrchr(m, c)] = c
                  /\ \A i \in (strrchr(m, c) + 1)..Len(m) : m[i] # c
             /\ strspn(m, n) = longest(only(Range(n)))
             /\ strcspn(m, n) = longest(only({"a", "b"} \ Range(n)))
             /\ strcmp(m, n) = 0 <=> m = n
             /\ \A k \in 0..4 :
                  /\ strncmp_kernel(m, n, k) = 0 <=> same(k)
                  /\ (k <= Len(m) /\ k <= Len(n)) => (strncmp(m, n, k) = 0 <=> same(k))
    /\ job.fn = "params" =>
         LET cmd   == job.arg
             parts == Split(cmd, ",")
             good  == /\ parts # << >>
                      /\ \A i \in DOMAIN parts :
                           /\ parts[i][1] # "=" /\ Last(parts[i]) # "="
                           /\ Cardinality({j \in DOMAIN parts[i] : parts[i][j] = "="}) <= 1
             ValueOf(key) ==
                 LET i == FirstIn({j \in DOMAIN parts : Split(parts[j], "=")[1] = key})
                 IN  IF i = 0 \/ Len(Split(parts[i], "=")) = 1 THEN << >> ELSE Split(parts[i], "=")[2]
         IN  good => /\ ~set_params(cmd).t.wild
                     /\ \A key \in {<<"a">>, <<"b">>, <<"a", "b">>} : params_find_by_key(cmd, key) = ValueOf(key)

\* strncmp of the C library compares the first n characters, and is 0 exactly if
\* they are equal, as string.c:112 says.  Does not hold, and no run claims it: the
\* loop ends with the shorter string, and the result is then 0.
ComparesLength ==
    job.fn = "search" =>
        LET m == job.arg[1]
            n == job.arg[2]
        IN  \A k \in 0..4 : strncmp(m, n, k) = 0 <=> \A i \in 1..k : At(m, i) = At(n, i)

\* What is printed is read back: sprintf into a cleared buffer and ksprintf into
\* a used one leave the text that printf shows, and snprintf a beginning of it;
\* sscanf with that format returns the arguments, signs and bases included, the
\* kernel's atoi the number and that of the C library one that is not negative,
\* and itoa writes what printf does.  A floating point number of 0.1 or more, or
\* zero, is printed cut behind the places shown, and at the end of a format sprintf
\* leaves what printf shows.  strtod stops behind the longest number the text
\* begins with.  memmove brings every byte to its place though source and
\* destination overlap.
ReadBack ==
    /\ job.fn = "move" =>
         LET m == [i \in 1..6 |-> i]
             dst == job.arg[1]
             src == job.arg[2]
             len == job.arg[3]
         IN  (dst + len <= 7 /\ src + len <= 7) =>
                 memmove(m, dst, src, len) = [i \in 1..6 |-> IF i - dst \in 0..(len - 1) THEN src + i - dst ELSE i]
    /\ job.fn \in {"print", "word"} =>
        LET fmt  == job.arg[1]
            args == job.arg[2]
            text == kprintf(fmt, args)
            asked == [i \in DOMAIN fmt |-> IF fmt[i].k = "x" THEN [k |-> "i"] ELSE fmt[i]]
            clear == [i \in 1..30 |-> NUL]
        IN  /\ StringAt(vsprintf(clear, fmt, args).mem, 1) = text
            /\ StringAt(ksprintf([i \in 1..30 |-> "?"], fmt, args), 1) = text
            /\ \A size \in {0, 1, 3, 30} : IsPrefix(StringAt(vsnprintf(clear, size, fmt, args).mem, 1), text)
            /\ vsscanf(text, asked).out = args
            /\ (fmt # << >> /\ fmt[1].k = "d") => atoi(text) = args[1]
            /\ (Len(fmt) = 1 /\ fmt[1].k = "d") =>
                 /\ args[1] >= 0 => atoi_libc(text) = args[1]
                 /\ StringAt(itoa(clear, args[1]), 1) = text
    /\ job.fn = "float" =>
        LET fmt  == job.arg[1]
            v    == job.arg[2][1]
            abs  == <<Abs(v[1]), v[2]>>
            text == vfprintf(<<[k |-> "f"]>>, <<v>>)
            x    == Decimal(text)
            unit == 10^(Len(text) - strchr(text, "."))
        IN  /\ fmt = <<[k |-> "f"]>> => StringAt(vsprintf([i \in 1..30 |-> NUL], fmt, <<v>>).mem, 1) = text
            /\ v[1] = 0 => text = <<"0">>
            /\ 10 * abs[1] >= abs[2] =>
                 /\ x[1] < 0 <=> v[1] < 0
                 /\ fabs(x)[1] * abs[2] <= abs[1] * x[2]
                 /\ unit * (abs[1] * x[2] - fabs(x)[1] * abs[2]) < abs[2] * x[2]
    /\ job.fn = "number" =>
        LET s == job.arg
            Mantissa(u) == /\ u # << >> /\ Range(u) \subseteq {"2", "."}
                           /\ Cardinality({i \in DOMAIN u : u[i] = "."}) <= 1
            Unsigned(u) == \/ Mantissa(u)
                           \/ \E i \in 2..(Len(u) - 1) :
                                /\ Mantissa(SubSeq(u, 1, i - 1)) /\ u[i] = "e"
                                /\ \E j \in {i + 1} \cup {k \in {i + 2} : u[i + 1] = "-"} :
                                     j <= Len(u) /\ Range(SubSeq(u, j, Len(u))) = {"2"}
            Number(u) == Unsigned(u) \/ (Len(u) > 1 /\ u[1] = "-" /\ Unsigned(Tail(u)))
            ends == {k \in DOMAIN s : Number(SubSeq(s, 1, k))}
        IN  strtod(s) = 1 + IF ends = {} THEN 0 ELSE CHOOSE k \in ends : \A j \in ends : j <= k

\* sprintf writes the formatted list of its arguments to the string, as stdio.c:74
\* says: the text that printf shows, floating point numbers and what follows them
\* included.  Does not hold, and no run claims it: sputfpoint counts one character
\* for every number but zero, and what follows is written over the others.
FloatsWritten ==
    job.fn = "float" =>
        StringAt(vsprintf([i \in 1..30 |-> NUL], job.arg[1], job.arg[2]).mem, 1) = vfprintf(job.arg[1], job.arg[2])

\* atoi of the C library returns the number that the string specifies, as
\* stdlib.c:29 says.  Does not hold, and no run claims it: a negative one is -1.
AtoiReads ==
    (job.fn = "print" /\ Len(job.arg[1]) = 1) => atoi_libc(vfprintf(job.arg[1], job.arg[2])) = job.arg[2][1]

\* The value v is printed as it is, if its fraction is none or at least 0.1 and
\* it is no negative one above -1.
PrintedRight(v, text) ==
    LET fraction == Add(v, Neg(<<Whole(v), 1>>))
    IN  ((fraction[1] = 0 \/ 10 * Abs(fraction[1]) >= fraction[2]) /\ (v[1] >= 0 \/ Whole(v) # 0)) => text = v

\* A line with tokens t, its result r and what main does with it.
Evaluates(line, t, r, act) ==
    LET word(w) == IsPrefix(line, w) \/ IsPrefix(w, line)
        Values(chains) == IF t.ok THEN Means(chains, "expression", t.toks, 1, Len(t.toks) - 1) ELSE {}
    IN  /\ (r.ok /\ ~r.wild) => Values(TRUE) = {r.v}
        /\ ~(r.ok \/ r.wild) => Values(FALSE) = {}
        /\ line = ExitWord => act = "exit"
        /\ line = HelpWord => act = "help"
        /\ ~(word(ExitWord) \/ word(HelpWord)) => act = IF r.ok THEN "show" ELSE "error"
        /\ (r.ok /\ ~r.wild /\ r.v[2] \in {1, 2, 4, 8, 16}) => PrintedRight(r.v, Decimal(num_to_string(r.v)))

\* The tokens that the line before has left.
Left(before) == tokenize(<< >>, trim(before)).toks

\* What the parser of the calculator shows for a line is the one value it has by
\* the usual grammar, though it looks one token ahead only and never goes back,
\* and whatever the line before was; and a line in the form of "(1 * 2) + 3", with
\* one operator at each level, gets its value.  The value is printed right, for
\* fractions that binary numbers have, if the fraction is none or at least 0.1 and
\* it is no negative one above -1, where num_to_string loses zeros behind the point
\* and a minus (calc.c:151).  "exit" and "help" are obeyed, and a line that neither
\* begins like them nor is a beginning of them is evaluated.  Nothing is claimed of a
\* line whose tokens are written outside their blocks (calc.c:256).  The functions that round
\* and that take a double apart do so right (see RoundsRight and TakenApart), at
\* every exponent: where the two words of the bits meet (trunc.c:40) and where a
\* number is too small to be normalised (frexp.c:12).
CalcMeaning ==
    /\ job.fn = "round" => RoundsRight(Frac(job.arg[1], job.arg[2]))
    /\ job.fn = "double" => TakenApart(job.arg)
    /\ job.fn = "calc" =>
         LET left == Left(job.arg[1])
             line == job.arg[2]
         IN  Evaluates(line, tokenize(<< >>, trim(line)), process_request(left, line), calc_main(left, line))

\* Any expression can be typed in, as the help of the calculator says
\* (calc.c:109): it is evaluated, within the memory there is, and its value shown.
\* Does not hold, and no run claims it: each level takes one operator (calc.c:434).
AnyExpression ==
    job.fn = "calc" =>
        LET line == job.arg[2]
            t    == tokenize(<< >>, trim(line))
            r    == process_request(Left(job.arg[1]), line)
        IN  (t.ok /\ Means(TRUE, "expression", t.toks, 1, Len(t.toks) - 1) # {}) => r.ok /\ ~r.wild

\* main gets the name and the arguments as they were passed, in that order,
\* though the heap they are copied to starts on the page they lie on
\* (bootstrap.c:36), when they leave room there for the first block; so init, which
\* tests its own, runs the shell exactly if it got those of kmain.
MainGetsArguments ==
    job.fn = "start" =>
        LET name == job.arg[1]
            argv == job.arg[2]
            w    == StartWords(name, argv)
        IN  (w.argv_total_length + HeaderSize + w.argc <= PageSize) =>
                LET b == bootstrap(ArgumentPage(name, argv, "?"), w)
                IN  /\ b = [main |-> <<name>> \o argv, ok |-> TRUE]
                    /\ init_main(b.main) = "/shell" <=> argv = InitArguments

\* The devices all that a scan of machine m found, and the display shown.
FoundRight(m, cmd, fb, version, all, shown) ==
    LET single  == <<0, 0, 0>> \in DOMAIN m /\ m[<<0, 0, 0>>].header = "00"
        there   == {a \in DOMAIN m : a[3] = 0}
        on0     == {a \in there : a[1] = 0}
        listed  == {<<all[i].bus, all[i].dev, 0>> : i \in DOMAIN all}
        display == {"qemu", "vbox"}
        asked   == IF cmd = <<"r", "=", "8">> THEN {<<"8">>} ELSE {}
    IN  /\ listed \subseteq there /\ Len(all) = Cardinality(listed)
        /\ single => on0 \subseteq listed
        /\ \A i \in DOMAIN all : all[i].id \in display =>
              PciVenTable[all[i].names.ven].VenId = all[i].id /\ PciDevTable[all[i].names.dev].VenId = all[i].id
        /\ \A s \in asked : (IF fb.lfb = "NULL" THEN single /\ \E a \in on0 : m[a].id \in display ELSE fb.size = s)
                             => shown # << >>
        /\ shown # << >> => /\ shown[1].size \in asked
                            /\ shown[1].lfb \in {fb.lfb} \cup {m[a].bar0 : a \in {x \in there : m[x].id \in display}}
                            /\ (version \in KnownVersions) => (shown[1].mode = shown[1].size)

\* The scan ends and lists devices that are there, none of them twice, though it
\* calls itself for what it takes for bridges and reads the class of a device from
\* the wrong byte (pci.c:203): behind a host bridge of one function, all of bus 0,
\* with the names of their displays.  A display of the size that is asked for is
\* then set up whenever the boot loader has set it or one that can be set is on
\* bus 0; one that is set up has that size if its version is known, and its buffer
\* is the one it has.
DisplayFound ==
    LET boot(b, all) == FoundRight(b.machine, b.cmd, b.framebuffer, b.version, all,
                                   initialise_vesa(b.cmd, b.framebuffer, all, b.version))
    IN  job.fn = "boot" => boot(job.arg, pci_initialise(job.arg.machine))

\* pci_get_device returns NULL for a device that is not present, as pci.c:44 says,
\* and one that is present on bus 0 otherwise: pci.c:36 says of a host bridge with
\* several functions that all of them are looped over.  Does not hold, and no run
\* claims it: the loop stops at the first function that exists.
PresentFound ==
    job.fn = "boot" =>
        LET m == job.arg.machine
        IN  \A a \in DOMAIN m : (a[1] = 0 /\ a[3] = 0) => pci_get_device(pci_initialise(m), m[a].id) # 0

\* The shell runs a program exactly as the user wrote it: see SplitsWords.  The
\* code steps over the end of the line and relies on what is behind it, and
\* compares with a strncmp that finds an abbreviation equal (shell.c:245).
CommandSplit == job.fn = "command" => SplitsWords(job.arg)

\* There is enough space for the name of the program and for its arguments, as
\* shell.c:174 says: no line of the user needs more than the blocks it is split
\* into, the NUL behind a name or a word and the NULL behind the list included.
\* Does not hold, and no run claims it: the blocks have 50, 20 and 100 bytes.
EnoughSpace == job.fn = "command" => ~shell_parse_command(job.arg).wild

\* ps shows processes that there are and none of them twice, though it asks for
\* them by numbers that are counted anew for each (process.c:330), and all of them
\* when only youngest siblings have children: see ListsOnce.
PsListed == job.fn = "ps" => ListsOnce(job.arg)

\* ps lists the currently running processes, as it prints (ps.c:118): every one.
\* Does not hold, and no run claims it: of two that get one number, one is hidden.
AllListed == job.fn = "ps" => Range(ps_main(job.arg)) = DOMAIN job.arg

\* bmpview shows an image that the display has room for upright and in its middle,
\* if its rows need no filling up in the file and its margins can be equal: the
\* file has the rows bottom up, and each is written on its own (bmpview.c:139).
ImageUpright ==
    job.fn = "image" =>
        LET w == job.arg[1]
            h == job.arg[2]
            dw == job.arg[3]
            dh == job.arg[4]
        IN  (w <= dw /\ h <= dh /\ (3 * w) % 4 = 0 /\ (dw - w) % 2 = 0) => Centred(w, h, dw, dh)

\* bmpview centres the image, as bmpview.c:117 says of its margins: any one that
\* the display has room for.  Does not hold, and no run claims it: rows that are
\* filled up in the file, or an odd margin, shift it.
ImageCentred ==
    (job.fn = "image" /\ job.arg[1] <= job.arg[3] /\ job.arg[2] <= job.arg[4]) =>
        Centred(job.arg[1], job.arg[2], job.arg[3], job.arg[4])

\* The VGA device shows every character where it was last written and has been
\* scrolled to, in the colours set then, after any calls (vga.c:190): see
\* ShowsCells.
CellsShown == job.fn = "vga" => ShowsCells(job.arg[1], job.arg[2], job.arg[3])
=============================================================================
