------------------------------ MODULE Programs ------------------------------
(***************************************************************************)
(* What the programs compute: the shell's reading of a command line, the   *)
(* list of processes of ps, and the image that bmpview shows; and the VGA  *)
(* device they write to.                                                   *)
(***************************************************************************)
EXTENDS Text

CONSTANTS
    MaxName,  \* malloc(50), the block for the name of a program
    MaxArgs,  \* arguments for which the shell has room: malloc(20), with the NULL
    MaxWord   \* malloc(100), the block for one argument

-----------------------------------------------------------------------------
(* init.                                                                   *)

\* The arguments kmain passes, shortened, and what main of init does with
\* them: it runs the shell only if they have come through unharmed.
InitArguments == <<<<"a", "b">>, <<"b", "a">>>>
init_main(argv) ==
    IF \/ Len(argv) # 3
       \/ strcmp(argv[2], InitArguments[1]) # 0
       \/ strcmp(argv[3], InitArguments[2]) # 0
    THEN "abort" ELSE "/shell"

-----------------------------------------------------------------------------
(* The shell's command line.                                               *)

\* Mutant: the space behind the name stays.
SkipName_space(line, n) == n + 1

\* The first character behind the name and its space.
SkipName(line, n) == n + 2

\* One turn of the loop over the arguments: the characters up to a space or
\* to the end, and one more.
NextArg(line, a) ==
    LET rest == SubSeq(line, a.at, Len(line))
        len  == strcspn(rest, <<" ">>)
    IN  [args |-> Append(a.args, SubSeq(rest, 1, len)), at |-> a.at + len + 1]

\* shell_execute: a slash and the name, in a block of memory that is cleared.
shell_execute(filename, args) ==
    LET block == [i \in 1..(Len(filename) + 2) |-> IF i = 1 THEN "/" ELSE NUL]
    IN  <<[path |-> StringAt(strcat(block, 1, filename), 1), argv |-> args]>>

\* shell_run_command: the name and the arguments passed to spawn, or nothing
\* when the name is too short.  The line is followed by NUL: the buffer of the
\* main loop is cleared after each command.  It is wild when the name, the list or
\* a word needs more than its block: the NUL behind the name and the NULL behind
\* the list are not written, but what was in the block and is read as the end.
shell_run_command(line) ==
    LET n == strcspn(line, <<" ">>)
        F[k \in 0..Len(line)] ==
            IF k = 0 THEN [args |-> << >>, at |-> SkipName(line, n)]
            ELSE LET a == F[k - 1] IN IF At(line, a.at) = NUL THEN a ELSE NextArg(line, a)
        args == IF Len(line) <= n + 1 THEN << >> ELSE F[Len(line)].args
    IN  IF n < 2 THEN [run |-> << >>, wild |-> FALSE]
        ELSE [run  |-> shell_execute(SubSeq(line, 1, n), args),
              wild |-> n >= MaxName \/ Len(args) > MaxArgs \/ \E i \in DOMAIN args : Len(args[i]) >= MaxWord]

\* shell_parse_command: what the shell does with a line.  strncmp takes every
\* abbreviation of "run " for it.
shell_parse_command(line) ==
    LET Only(act) == [act |-> act, run |-> << >>, wild |-> FALSE]
        r == shell_run_command(SubSeq(line, 5, Len(line)))
    IN  IF line = <<"h", "e", "l", "p">> THEN Only("help")
        ELSE IF strncmp(line, <<"r", "u", "n", " ">>, 4) = 0 THEN [act |-> "run", run |-> r.run, wild |-> r.wild]
        ELSE IF line = <<"e", "x", "i", "t">> THEN Only("exit")
        ELSE IF line = <<"c", "l", "e", "a", "r">> THEN Only("clear")
        ELSE Only("invalid")

\* A line "run ..." of words with one space between them, none too long for its
\* block and not too many, runs the program of the first word with the others as
\* its arguments; and no other line runs a program.  It is hard to see in the
\* code, which steps over the end of the line and relies on what is behind it, and
\* compares with a strncmp that finds an abbreviation equal.
SplitsWords(line) ==
    LET r     == shell_parse_command(line)
        words == Split(line, " ")
        tidy  == words # << >> /\ Len(line) = FoldLeft(LAMBDA n, w : n + Len(w) + 1, -1, words)
        fits  == /\ Len(words) \in 2..(MaxArgs + 2) /\ Len(words[2]) \in 2..(MaxName - 1)
                 /\ \A i \in 3..Len(words) : Len(words[i]) < MaxWord
    IN  /\ (tidy /\ words[1] = <<"r", "u", "n">> /\ fits) =>
              /\ r.run = <<[path |-> <<"/">> \o words[2], argv |-> SubSeq(words, 3, Len(words))]>>
              /\ ~r.wild
        /\ r.run # << >> => words[1] = <<"r", "u", "n">> /\ line[4] = " "

-----------------------------------------------------------------------------
(* ps.  A process is a number, and parent[p] < p for all but process 1, the *)
(* root; a process joins the end of its parent's list (proc_create).        *)

Children(parent, p) == SetToSortSeq({c \in DOMAIN parent : c # 1 /\ parent[c] = p}, LAMBDA a, b : a < b)

\* Mutant: a child's number does not count its elder siblings.
NumberOf_depth(cur_no, i) == cur_no + 1

\* The number that the i-th child of process number cur_no gets.
NumberOf(cur_no, i) == cur_no + i

\* proc_get_next_in_tree_recurs: the process with a number; the numbers of the
\* processes below a child are not counted for its younger siblings.
RECURSIVE proc_get_next_in_tree_recurs(_, _, _, _)
proc_get_next_in_tree_recurs(parent, tree, no, cur_no) ==
    LET ch == Children(parent, tree)
    IN  IF no = cur_no THEN tree
        ELSE FoldLeft(LAMBDA r, i : IF r # 0 THEN r
                                    ELSE proc_get_next_in_tree_recurs(parent, ch[i], no, NumberOf(cur_no, i)),
                      0, [i \in DOMAIN ch |-> i])

\* sysc_ps: the process with a number, 0 for -1.
sysc_ps(parent, no) == proc_get_next_in_tree_recurs(parent, 1, no, 0)

\* main of ps.c: the processes for the numbers 0, 1, ... up to the first
\* number that has none.
ps_main(parent) ==
    LET F[i \in 0..(Cardinality(DOMAIN parent) + 1)] ==
            IF i = 0 THEN << >>
            ELSE LET l == F[i - 1] IN
                 IF Len(l) < i - 1 \/ sysc_ps(parent, i - 1) = 0 THEN l ELSE Append(l, sysc_ps(parent, i - 1))
    IN  F[Cardinality(DOMAIN parent) + 1]

\* ps shows processes that there are and none twice, and all of them when no
\* process but a youngest sibling has children.
ListsOnce(parent) ==
    LET l == ps_main(parent)
        lone == \A p \in DOMAIN parent, c \in DOMAIN parent :
                    (p # 1 /\ c # 1 /\ parent[c] = p) => Last(Children(parent, parent[p])) = p
    IN  /\ IsInjective(l) /\ Range(l) \subseteq DOMAIN parent
        /\ lone => Range(l) = DOMAIN parent

-----------------------------------------------------------------------------
(* bmpview.  A pixel of an image is <<column, row>> from its top left, and  *)
(* the file has its rows bottom up, each filled up to whole words.          *)

Black == <<-1, -1>>   \* a pixel that was cleared
Mixed == <<-2, -2>>   \* a pixel with colours of two

RowBytes(w) == 4 * ((3 * w + 3) \div 4)

\* The pixel whose colours are at a place of the file, behind the header.
FilePixel(w, h, byte) ==
    LET row == byte \div RowBytes(w)
        col == byte % RowBytes(w)
    IN  IF col % 3 = 0 /\ col \div 3 < w /\ row < h THEN <<col \div 3, h - 1 - row>> ELSE Mixed

\* Mutant: the rows are left in the order of the file.
bmp_read_upside(w, h) == [k \in 0..(w * h - 1) |-> FilePixel(w, h, 3 * k)]

\* bmp_read takes the rows to follow each other without a gap.
bmp_read(w, h) ==
    [k \in 0..(w * h - 1) |-> FilePixel(w, h, 3 * ((k % w) + (h - 1 - k \div w) * w))]

\* vesa_dev_write: what is behind the end of the memory is cut off.
vesa_dev_write(screen, start_at, size, pixels) ==
    [p \in DOMAIN screen |-> IF p - start_at \in 0..(size - 1) THEN pixels[p - start_at] ELSE screen[p]]

\* image_display: one fwrite for a row, then over the margins to the next.
image_display(w, h, dw, dh) ==
    LET buffer  == bmp_read(w, h)
        Half(m) == IF m > 0 THEN m \div 2 ELSE m
        horiz   == Half(dw - w)
        Row(s, i) == [screen |-> vesa_dev_write(s.screen, s.seek, w, [c \in 0..(w - 1) |-> buffer[i * w + c]]),
                      seek   |-> s.seek + w + horiz + horiz]
    IN  FoldLeft(Row, [screen |-> [p \in 0..(dw * dh - 1) |-> Black],
                       seek   |-> Half(dh - h) * dw + horiz], [i \in 1..h |-> i - 1]).screen

\* The image stands upright in the middle of the display, with black around it.
Centred(w, h, dw, dh) ==
    LET x == (dw - w) \div 2
        y == (dh - h) \div 2
        centred == [p \in 0..(dw * dh - 1) |->
                       LET c == (p % dw) - x
                           r == (p \div dw) - y
                       IN  IF c \in 0..(w - 1) /\ r \in 0..(h - 1) THEN <<c, r>> ELSE Black]
    IN  \A p \in DOMAIN centred : image_display(w, h, dw, dh)[p] = centred[p]

-----------------------------------------------------------------------------
(* The VGA device: a cell of its memory is <<character, setting>>, and a   *)
(* setting a byte, background * 16 + foreground.                           *)

vga_get_foreground_colour(setting) == setting % 16
vga_get_background_colour(setting) == setting \div 16

vga_set_foreground_colour(setting, colour) == (vga_get_background_colour(setting) * 16) + (colour % 16)

VgaCells(d) == d.rows * d.cols

initialise_vga(rows, cols) ==
    [rows |-> rows, cols |-> cols, mem |-> [x \in 0..(rows * cols - 1) |-> <<"?", 0>>], setting |-> 7, cursor |-> 0]

\* Both cut off what is behind the last cell, and refuse to start there.
vga_dev_read(d, start_at, size) ==
    IF start_at > VgaCells(d) - 1 THEN << >>
    ELSE LET n == IF start_at + size > VgaCells(d) THEN VgaCells(d) - start_at ELSE size
         IN  [j \in 1..n |-> d.mem[start_at + j - 1][1]]
vga_dev_write(d, start_at, text) ==
    IF start_at > VgaCells(d) - 1 THEN d
    ELSE [d EXCEPT !.mem = [x \in DOMAIN @ |-> IF x - start_at + 1 \in DOMAIN text
                                               THEN <<text[x - start_at + 1], d.setting>> ELSE @[x]]]

vga_set_background_colour(setting, colour) == ((colour * 16) % 256) + vga_get_foreground_colour(setting)

\* Mutant: the rows move from the last one up.
vga_scroll_down(d) ==
    [d EXCEPT !.mem = [x \in DOMAIN @ |-> IF x < (d.rows - 1) * d.cols THEN @[x] ELSE <<" ", d.setting>>]]

\* Each row takes the next one, the last is filled with spaces.
vga_scroll(d) ==
    [d EXCEPT !.mem = [x \in DOMAIN @ |-> IF x < (d.rows - 1) * d.cols THEN @[x + d.cols] ELSE <<" ", d.setting>>]]

vga_move_cursor(d, location) == [d EXCEPT !.cursor = location % 2^16]
vga_clrscr(d) == vga_move_cursor(FoldLeft(LAMBDA e, y : vga_scroll(e), d, [y \in 1..d.rows |-> y]), 0)

\* vga_dev_control: the device after a command, and what it returns.
vga_dev_control(d, command, a) ==
    CASE command = "SCROLL"        -> <<vga_scroll(d), 0>>
      [] command = "MOVCRS_XY"     -> <<vga_move_cursor(d, a[2] * d.cols + a[1]), 0>>
      [] command = "MOVCRS"        -> <<vga_move_cursor(d, a[1]), 0>>
      [] command = "CLRSCR"        -> <<vga_clrscr(d), 0>>
      [] command = "GET_W"         -> <<d, d.cols>>
      [] command = "GET_H"         -> <<d, d.rows>>
      [] command = "GET_FG_COLOUR" -> <<d, vga_get_foreground_colour(d.setting)>>
      [] command = "GET_BG_COLOUR" -> <<d, vga_get_background_colour(d.setting)>>
      [] command = "SET_FG_COLOUR" -> <<[d EXCEPT !.setting = vga_set_foreground_colour(@, a[1])], 0>>
      [] command = "SET_BG_COLOUR" -> <<[d EXCEPT !.setting = vga_set_background_colour(@, a[1])], 0>>
      [] OTHER                     -> <<d, -1>>

\* The device after the calls ops[1..k]: writes of a text and commands.
AfterOps(d, ops, k) ==
    FoldLeft(LAMBDA e, op : IF op.command = "WRITE" THEN vga_dev_write(e, op.a[1], op.text)
                            ELSE vga_dev_control(e, op.command, op.a)[1], d, SubSeq(ops, 1, k))

\* The last argument of a command among ops[1..k], or none.
LastSet(command, ops, k, none) ==
    LET S == {i \in 1..k : ops[i].command = command}
    IN  IF S = {} THEN none ELSE ops[CHOOSE i \in S : \A j \in S : j <= i].a[1] % 16

\* What cell p shows after ops[1..k], found by going back to the call that
\* last put something there, in the colours that were set then.
RECURSIVE Shown(_, _, _, _)
Shown(d, ops, k, p) ==
    IF k = 0 THEN d.mem[p]
    ELSE LET op   == ops[k]
             blank == <<" ", LastSet("SET_BG_COLOUR", ops, k, 0) * 16 + LastSet("SET_FG_COLOUR", ops, k, 7)>>
         IN  CASE op.command = "CLRSCR" -> blank
               [] op.command = "SCROLL" -> IF p \div d.cols = d.rows - 1 THEN blank ELSE Shown(d, ops, k - 1, p + d.cols)
               [] op.command = "WRITE" /\ p - op.a[1] + 1 \in DOMAIN op.text -> <<op.text[p - op.a[1] + 1], blank[2]>>
               [] OTHER -> Shown(d, ops, k - 1, p)

\* Whatever calls came before, each cell shows the character that was last
\* written to the place it has scrolled from, in the colours of that time, and
\* reading at any place gives the characters from there on and nothing else.
ShowsCells(rows, cols, ops) ==
    LET d == initialise_vga(rows, cols)
        e == AfterOps(d, ops, Len(ops))
    IN  \A p \in 0..(rows * cols) :
            /\ p < rows * cols => e.mem[p] = Shown(d, ops, Len(ops), p)
            /\ vga_dev_read(e, p, 3) = [j \in 1..(IF p + 3 > rows * cols THEN rows * cols - p ELSE 3) |-> e.mem[p + j - 1][1]]
            /\ vga_dev_control(e, "GET_FG_COLOUR", << >>)[2] = LastSet("SET_FG_COLOUR", ops, Len(ops), 7)
=============================================================================
