------------------------------ MODULE Terminal ------------------------------
(***************************************************************************)
(* The terminal of DBOS: the keyboard driver (keyboard.c), the gtty that   *)
(* collects a line of input and writes text to a VGA or a VESA display     *)
(* (gtty.c), the timer routine that blinks the VESA cursor, and the        *)
(* processes in front of it: the shell (shell.c) and the program it runs,  *)
(* which read with gets (stdio.c).                                         *)
(*                                                                         *)
(* The system calls and the interrupt handlers are atomic.  A reader polls *)
(* with the ioctl INPUT_READY until it is told that input is there and     *)
(* reads in a later call; keys, the timer and the other process come in    *)
(* between.                                                                *)
(***************************************************************************)
EXTENDS Integers, Functions

CONSTANTS
    Keys,          \* the scan codes the user may send
    Displays,      \* display types the machine may have: "vga", "vesa"
    Width, Height, \* [display |-> extent], VGA in characters, VESA in pixels
    ShellSize,     \* the size the shell passes to gets
    ChildSizes,    \* the sizes a program passes to gets
    Text,          \* characters a program writes
    BufferLen      \* GTTY_INPUT_BUFFER_LEN

ASSUME TerminalAssumption ==
    /\ ShellSize \in Nat \ {0}
    /\ ChildSizes \subseteq Nat \ {0}
    /\ BufferLen \in Nat
    /\ Displays \subseteq {"vga", "vesa"}
    /\ \A d \in Displays : Width[d] \in Nat /\ Height[d] \in Nat
    /\ "vga" \in Displays => Width["vga"] >= 1 /\ Height["vga"] >= 1
    \* a character between the margins, below the bar of the shell
    /\ "vesa" \in Displays => Width["vesa"] >= 17 /\ Height["vesa"] >= 68

VARIABLES
    display_type,  \* the display initialise_gtty found
    held,          \* the flags of keyboard.c that are set
    gtty,          \* the state of the gtty, below
    pc,            \* where the shell and the program are
    want,          \* the size of the gets a process is in
    undisturbed    \* history: since the request for input, the screen has
                   \* shown nothing but the keys that were stored

vars == <<display_type, held, gtty, pc, want, undisturbed>>

Procs == {"shell", "child"}

-----------------------------------------------------------------------------
(* Keyboard.                                                               *)

\* The flags of the keyboard.  Those of the right control and alt keys are
\* never set.
Modifiers == {"caps", "lshift", "rshift", "lctrl", "lalt"}

\* kbd_map and kbd_map_up, for one letter and the keys that matter.
kbd_map == [A |-> "a", BACKSPACE |-> "bs", TAB |-> "tab", ENTER |-> "nl", SPACE |-> "sp",
            UNMAPPED |-> "nul"]
kbd_map_up == [kbd_map EXCEPT !.A = "A"]

\* The scan codes parse_scancode treats as special, and what they do to the
\* flags.  The code of the released right shift sets its flag, which nothing
\* reads; one release code clears both.
Flags(k) ==
    CASE k = "CAPSLCK"    -> IF "caps" \in held THEN held \ {"caps"} ELSE held \cup {"caps"}
      [] k = "SHIFT_L"    -> held \cup {"lshift"}
      [] k = "CTRL_L"     -> held \cup {"lctrl"}
      [] k = "ALT_L"      -> held \cup {"lalt"}
      [] k = "SHIFT_R"    -> held \cup {"rshift"}
      [] k = "SHIFT_LR_R" -> held \ {"lshift", "rshift"}
      [] OTHER            -> held

Upper == "lshift" \in held \/ "caps" \in held

-----------------------------------------------------------------------------
(* The display.                                                            *)

\* Margins and the size of a character: none and one for VGA.
Geometry == [vga  |-> [margin_x |-> 0, margin_y_top |-> 0, margin_y_bottom |-> 0,
                       line_height |-> 1, line_width |-> 1],
             vesa |-> [margin_x |-> 8, margin_y_top |-> 44, margin_y_bottom |-> 8,
                       line_height |-> 16, line_width |-> 8]]
geo == Geometry[display_type]
buffer_width == Width[display_type]
buffer_height == Height[display_type]

\* The last line of text, and the last column a character fits in.
LastY == buffer_height - (geo.margin_y_bottom + geo.line_height)
LastX == buffer_width - geo.margin_x - 1

\* vga_dev_write and gtty_vesa_draw_char: a character at a place of the screen.
\* A place that shows a blank is not kept.
Blank == {"sp", "nul"}
Drawn(screen, x, y, c) ==
    IF c \in Blank THEN Restrict(screen, DOMAIN screen \ {<<x, y>>})
    ELSE [p \in DOMAIN screen \cup {<<x, y>>} |-> IF p = <<x, y>> THEN c ELSE screen[p]]

\* vga_scroll and gtty_vesa_scroll: every line moves up by one.
Scrolled(screen) ==
    [p \in {<<q[1], q[2] - geo.line_height>> : q \in {r \in DOMAIN screen :
                                 r[2] >= geo.margin_y_top + geo.line_height}}
        |-> screen[<<p[1], p[2] + geo.line_height>>]]

\* vesa_cursor_handler: the cursor at the current place appears or vanishes.
vesa_cursor_handler(g) ==
    LET here == <<g.main_x, g.main_y>>
    IN  IF g.vesa_cursor_status = 0
        THEN [g EXCEPT !.vesa_cursor_status = 1, !.cursor = @ \cup {here}]
        ELSE [g EXCEPT !.vesa_cursor_status = 0, !.cursor = @ \ {here}]

\* Mutant: the status is not set, so the handler may draw instead of erase.
CursorOffMutant(g) == IF display_type = "vga" THEN g ELSE vesa_cursor_handler(g)

\* "ensure we won't leave cursor behind"; the VGA has a cursor of its own.
CursorOff(g) ==
    IF display_type = "vga" THEN g ELSE vesa_cursor_handler([g EXCEPT !.vesa_cursor_status = 1])

\* Mutant: the bottom is not tested after a wrap.
WrappedMutant(g) ==
    IF g.main_x > LastX
    THEN [CursorOff(g) EXCEPT !.main_x = geo.margin_x, !.main_y = @ + geo.line_height]
    ELSE IF g.main_y > LastY
    THEN [CursorOff(g) EXCEPT !.screen = Scrolled(@), !.main_y = LastY]
    ELSE g

\* The end of the loop of gtty_write_vga and gtty_write_vesa: the next line
\* past the right border, a scroll past the bottom.
Wrapped(g) ==
    LET w == IF g.main_x > LastX
             THEN [CursorOff(g) EXCEPT !.main_x = geo.margin_x, !.main_y = @ + geo.line_height]
             ELSE g
    IN  IF w.main_y > LastY
        THEN [CursorOff(w) EXCEPT !.screen = Scrolled(@), !.main_y = LastY]
        ELSE w

\* A store to input_buffer.  One past the end of the block goes to whatever lies
\* there, and the buffer stays as it is.
Written(buffer, i, c) == [j \in DOMAIN buffer |-> IF j = i THEN c ELSE buffer[j]]

\* Mutant: a backspace in the first column stays there.
BackspaceMutant(g) ==
    LET x == IF g.main_x > 0 THEN g.main_x - geo.line_width ELSE g.main_x
        i == g.input_buffer_index - 1
    IN  IF g.input_buffer_index < 1 THEN g
        ELSE [g EXCEPT !.input_buffer_index = i, !.input_buffer = Written(@, i, "nul"),
                       !.main_x = x, !.screen = Drawn(@, x, g.main_y, "sp")]

\* A backspace erases the last character of the input, whoever writes it.
Backspace(g) ==
    LET x == IF g.main_x > 0 THEN g.main_x - geo.line_width
             ELSE IF g.main_y > 0 THEN buffer_width - geo.line_width ELSE g.main_x
        y == IF g.main_x <= 0 /\ g.main_y > 0 THEN g.main_y - geo.line_height ELSE g.main_y
        i == g.input_buffer_index - 1
    IN  IF g.input_buffer_index < 1 THEN g
        ELSE [g EXCEPT !.input_buffer_index = i, !.input_buffer = Written(@, i, "nul"),
                       !.main_x = x, !.main_y = y, !.screen = Drawn(@, x, y, "sp")]

\* One turn of the loop for a character other than a tab.
PutPlain(g0, c) ==
    LET g == CursorOff(g0) IN
    Wrapped(CASE c = "bs" -> Backspace(g)
              [] c = "nl" -> [g EXCEPT !.main_x = geo.margin_x, !.main_y = @ + geo.line_height]
              [] c = "cr" -> [g EXCEPT !.main_x = geo.margin_x]
              [] OTHER    -> [g EXCEPT !.screen = Drawn(@, g.main_x, g.main_y, c),
                                       !.main_x = @ + geo.line_width])

\* gtty_write_vga and gtty_write_vesa in text mode.  A tab is four spaces.
Put(g, c) ==
    LET Space(h) == PutPlain(h, "sp")
    IN  IF c = "tab" THEN Space(Space(Space(Space(g)))) ELSE PutPlain(g, c)

\* gtty_dev_write of a character; of a text, one after the other.  In pixel
\* mode it would be a row of pixels: the echo of a key passes a start that is
\* past the end and draws none.
gtty_dev_write(g, c) == IF g.display_mode = "PX" THEN g ELSE Put(g, c)

\* A program writes an image over the whole screen.
WriteImage(g) == [g EXCEPT !.screen = << >>, !.cursor = {}]

\* The command CLEAR.
Clear(g) == [g EXCEPT !.main_x = geo.margin_x, !.main_y = geo.margin_y_top,
                      !.screen = << >>, !.cursor = {}]

\* The command SET_MODE.  Text is all a VGA can do.
SetMode(g, m) ==
    IF display_type = "vga" /\ m = "PX" THEN g ELSE [g EXCEPT !.display_mode = m]

-----------------------------------------------------------------------------
(* Input.                                                                  *)

\* The character is stored if there is room.  A tab takes four places.
Accepted(g, c) ==
    /\ g.input_buffer_index < g.input_buffer_size
    /\ c \notin {"bs", "nl", "cr"}

Stored(g, c) ==
    IF Accepted(g, c)
    THEN [g EXCEPT !.input_buffer = Written(@, g.input_buffer_index, c),
                   !.input_buffer_index = @ + (IF c = "tab" THEN 4 ELSE 1)]
    ELSE g

\* Enter ends the line, and so does a full buffer.
Flagged(g, c) ==
    IF c \in {"nl", "cr"} \/ g.input_buffer_index >= g.input_buffer_size
    THEN [g EXCEPT !.input_buffer_flag = 1] ELSE g

gtty_keyboard_listener(g, c) ==
    LET s == Flagged(Stored(g, c), c)
    IN  IF g.gtty_echo = 1 /\ c \notin {"nl", "cr"} THEN gtty_dev_write(s, c) ELSE s

\* The keyboard interrupt: parse_scancode serves the listener of the gtty.
\* The flags are those before the key: a special key stores nothing.
parse_scancode(k) ==
    LET c == IF Upper THEN kbd_map_up[k] ELSE kbd_map[k] IN
    /\ held' = Flags(k)
    /\ IF k \in DOMAIN kbd_map
       THEN /\ gtty' = gtty_keyboard_listener(gtty, c)
            /\ undisturbed' = (undisturbed /\ (Accepted(gtty, c) \/ c \in {"bs", "nl", "cr"}))
       ELSE UNCHANGED <<gtty, undisturbed>>
    /\ UNCHANGED <<display_type, pc, want>>

\* The timer calls vesa_cursor_handler, in pixel mode too.
blink ==
    /\ display_type = "vesa"
    /\ gtty' = vesa_cursor_handler(gtty)
    /\ UNCHANGED <<display_type, held, pc, want, undisturbed>>

\* Mutant: every call starts the line anew.
InputReadyMutant(g, size) == [g EXCEPT !.input_buffer_size = size, !.input_buffer_flag = 0]

\* The command INPUT_READY: the first to ask sets the size of the request.
InputReady(g, size) ==
    IF g.input_buffer_size = 0
    THEN [g EXCEPT !.input_buffer_size = size, !.input_buffer_flag = 0] ELSE g

\* gtty_dev_read: the whole buffer, for a request of the same size.
Readable(g, size) == g.input_buffer_flag = 1 /\ size = g.input_buffer_size
\* Mutant: the size of the request stays.
gtty_dev_readMutant(g, size) ==
    IF g.input_buffer_flag = 1 /\ size = g.input_buffer_size
    THEN [g EXCEPT !.input_buffer = [i \in DOMAIN @ |-> "nul"],
                   !.input_buffer_flag = 0, !.input_buffer_index = 0]
    ELSE g

gtty_dev_read(g, size) ==
    IF Readable(g, size)
    THEN [g EXCEPT !.input_buffer = [i \in DOMAIN @ |-> "nul"],
                   !.input_buffer_flag = 0, !.input_buffer_size = 0, !.input_buffer_index = 0]
    ELSE g

-----------------------------------------------------------------------------
(* Processes.                                                              *)

\* One ioctl of the loop of gets or getchar.  The file is read in a later call.
Poll(p) ==
    /\ pc[p] = "gets"
    /\ gtty' = InputReady(gtty, want[p])
    /\ pc' = [pc EXCEPT ![p] = IF gtty'.input_buffer_flag = 0 THEN "gets" ELSE "read"]
    /\ undisturbed' = IF gtty.input_buffer_size = 0
                      THEN gtty.gtty_echo = 1 /\ gtty.display_mode = "TXT" ELSE undisturbed
    /\ UNCHANGED <<display_type, held, want>>

\* The fread of gets.
Read(p, then) ==
    /\ pc[p] = "read"
    /\ gtty' = gtty_dev_read(gtty, want[p])
    /\ pc' = [pc EXCEPT ![p] = then]
    /\ undisturbed' = FALSE
    /\ UNCHANGED <<display_type, held, want>>

\* What a process does to the display disturbs a line that is being typed.
Display(g, p, then) ==
    /\ gtty' = g
    /\ pc' = [pc EXCEPT ![p] = then]
    /\ undisturbed' = FALSE
    /\ UNCHANGED <<display_type, held, want>>

\* shell_reset: on VESA the top bar is drawn in pixel mode, and the text area
\* starts afresh.  The welcome message fills whole lines.
shell_reset(g) ==
    LET bar == IF display_type = "vesa" THEN WriteImage(SetMode(g, "PX")) ELSE g
    IN  [Clear(SetMode(bar, "TXT")) EXCEPT !.gtty_echo = 1]

\* shell_main_loop: the prompt, then gets.
shell_prompt ==
    /\ pc["shell"] = "prompt"
    /\ Display(gtty_dev_write(gtty_dev_write(gtty, "nl"), ">"), "shell", "gets")

\* shell_parse_command: help, an invalid command and a program that is not
\* found print a message; clear resets; run starts a program, for which the
\* shell waits; exit ends the shell.
shell_help == pc["shell"] = "parse" /\ Display(gtty_dev_write(gtty, "nl"), "shell", "check")
shell_clear == pc["shell"] = "parse" /\ Display(gtty_dev_write(shell_reset(gtty), "nl"), "shell", "check")
shell_exit == pc["shell"] = "parse" /\ Display(gtty_dev_write(gtty, "nl"), "shell", "gone")

shell_run ==
    /\ pc["shell"] = "parse"
    /\ gtty' = gtty_dev_write(gtty, "nl")
    /\ pc' = [pc EXCEPT !["shell"] = "wait", !["child"] = "runs"]
    /\ undisturbed' = FALSE
    /\ UNCHANGED <<display_type, held, want>>

\* waitpid returns when the program is gone.
shell_waitpid ==
    /\ pc["shell"] = "wait" /\ pc["child"] = "none"
    /\ pc' = [pc EXCEPT !["shell"] = "check"]
    /\ UNCHANGED <<display_type, held, gtty, want, undisturbed>>

\* shell_check: the program may have left the display in pixel mode.
shell_check ==
    /\ pc["shell"] = "check"
    /\ Display(IF gtty.display_mode = "PX" THEN shell_reset(gtty) ELSE gtty, "shell", "prompt")

\* A program may do with the terminal what it likes, and exits in the end.
Runs == pc["child"] = "runs"
child_gets(n) ==
    /\ Runs
    /\ pc' = [pc EXCEPT !["child"] = "gets"]
    /\ want' = [want EXCEPT !["child"] = n]
    /\ UNCHANGED <<display_type, held, gtty, undisturbed>>
child_write(c) ==
    Runs /\ gtty.display_mode = "TXT" /\ Display(gtty_dev_write(gtty, c), "child", "runs")
child_image == Runs /\ gtty.display_mode = "PX" /\ Display(WriteImage(gtty), "child", "runs")
child_mode(m) == Runs /\ Display(SetMode(gtty, m), "child", "runs")
child_clear == Runs /\ Display(Clear(gtty), "child", "runs")
child_echo(e) == Runs /\ Display([gtty EXCEPT !.gtty_echo = e], "child", "runs")
child_exit ==
    /\ Runs
    /\ pc' = [pc EXCEPT !["child"] = "none"]
    /\ UNCHANGED <<display_type, held, gtty, want, undisturbed>>

-----------------------------------------------------------------------------
\* The variables of gtty.c when initialise_gtty is done; the colours of the text
\* are left out.
gtty_start ==
    [main_x |-> geo.margin_x, main_y |-> geo.margin_y_top, screen |-> << >>,
     vesa_cursor_status |-> 0, cursor |-> {},
     input_buffer |-> [i \in 0..(BufferLen - 1) |-> "nul"],
     input_buffer_index |-> 0, input_buffer_size |-> 0, input_buffer_flag |-> 0,
     gtty_echo |-> 1, display_mode |-> "TXT"]

\* initialise_gtty has found a display and a keyboard, and shell_init has run.
Init ==
    /\ display_type \in Displays
    /\ held = {}
    /\ gtty = gtty_start
    /\ pc = [shell |-> "prompt", child |-> "none"]
    /\ want = [shell |-> ShellSize, child |-> 0]
    /\ undisturbed = FALSE

Shell ==
    \/ shell_prompt \/ Poll("shell") \/ Read("shell", "parse")
    \/ shell_help \/ shell_clear \/ shell_exit \/ shell_run
    \/ shell_waitpid \/ shell_check

Child ==
    \/ \E n \in ChildSizes : child_gets(n)
    \/ Poll("child") \/ Read("child", "runs")
    \/ \E c \in Text : child_write(c)
    \/ \E m \in {"PX", "TXT"} : child_mode(m)
    \/ \E e \in {0, 1} : child_echo(e)
    \/ child_image \/ child_clear \/ child_exit

Next == Shell \/ Child \/ blink \/ \E k \in Keys : parse_scancode(k)

\* The scheduler runs every process again and again (and ends its sleep), and
\* the user presses Enter again and again.
Spec ==
    /\ Init /\ [][Next]_vars
    /\ \A p \in Procs : WF_vars(Poll(p))
    /\ WF_vars(Read("shell", "parse")) /\ WF_vars(Read("child", "runs"))
    /\ WF_vars(parse_scancode("ENTER"))

-----------------------------------------------------------------------------
(* Correctness.                                                            *)

TypeOK ==
    /\ display_type \in Displays
    /\ held \subseteq Modifiers
    /\ DOMAIN gtty = DOMAIN gtty_start
    /\ gtty.main_x \in Int /\ gtty.main_y \in Int
    /\ gtty.input_buffer_flag \in {0, 1} /\ gtty.gtty_echo \in {0, 1}
    /\ gtty.vesa_cursor_status \in {0, 1}
    /\ gtty.input_buffer_size \in {0, ShellSize} \cup ChildSizes
    /\ gtty.input_buffer_index \in Nat
    /\ gtty.display_mode \in {"TXT", "PX"}
    /\ display_type = "vga" => gtty.display_mode = "TXT" /\ gtty.cursor = {}
    /\ pc \in [Procs -> {"prompt", "gets", "read", "parse", "wait", "check", "gone", "none", "runs"}]
    /\ want \in [Procs -> {0, ShellSize} \cup ChildSizes]

\* The cursor of gtty.c stays in the text area, whatever is typed or written:
\* a backspace at the start of a line, a tab across the border, a newline in
\* the last line.  On VESA it can be backed into the left margin.
CursorOnScreen ==
    /\ gtty.main_x \in 0..LastX
    /\ gtty.main_y \in geo.margin_y_top..LastY

\* The user sees what the program will read: as long as nothing else was
\* written, the characters before the cursor are the ones in input_buffer,
\* through wrapping, scrolling and backspaces.  On VESA this is said of the
\* line of the cursor only, because a backspace does not go back to the line
\* above.  What a request larger than the buffer stores past its end is not
\* spoken of.
Shown(g, p) == IF p \in DOMAIN g.screen THEN g.screen[p] ELSE "sp"
Place(g, k) ==
    LET x == g.main_x - k * geo.line_width
    IN  IF display_type = "vga"
        THEN <<x % buffer_width, g.main_y + (x \div buffer_width)>> ELSE <<x, g.main_y>>
InText(p) == p[1] >= geo.margin_x /\ p[2] >= geo.margin_y_top
Glyph(c) == IF c \in Blank \cup {"tab"} THEN "sp" ELSE c
LineShown(g) ==
    \A k \in 1..g.input_buffer_index :
        InText(Place(g, k)) /\ g.input_buffer_index - k < BufferLen =>
            Shown(g, Place(g, k)) = Glyph(g.input_buffer[g.input_buffer_index - k])
InputShown == undisturbed => LineShown(gtty)

\* No cursor is left behind on VESA: writes move the cursor and the timer
\* draws it, and what is drawn is where the next character goes.
NoCursorLeftBehind ==
    gtty.cursor \subseteq {<<gtty.main_x, gtty.main_y>>}

\* The read that follows a successful INPUT_READY does not fail: gets would
\* write before the start of the string.  The shell and its program read in
\* turn, with sizes of their own.
ReadSucceeds == \A p \in Procs : pc[p] = "read" => Readable(gtty, want[p])

\* "reads from console starting at start_at for size bytes into buffer"
\* (gtty.c:318): a read copies what was stored, and that is no more than the
\* size the process asked for and has room for.  Does not hold, and no run
\* claims it: a tab is stored as four characters where there is room for one.
ReadWithinSize == \A p \in Procs : pc[p] = "read" => gtty.input_buffer_index <= want[p]

\* A tab, accepted at the last place, takes the index three past the size.
IndexBounded == gtty.input_buffer_index <= gtty.input_buffer_size + 3

\* The terminal has one reader at a time, and the request in it is the
\* reader's own: a program runs only while the shell waits for it, and the size
\* is set while its owner is in gets.
Reads(p) == pc[p] \in {"gets", "read"}
OneReader ==
    /\ pc["child"] # "none" => pc["shell"] = "wait"
    /\ want["shell"] = ShellSize
    /\ \A p \in Procs : Reads(p) => want[p] # 0 /\ gtty.input_buffer_size \in {0, want[p]}
    /\ (\A p \in Procs : ~Reads(p)) => gtty.input_buffer_size = 0

\* The columns of VESA are multiples of the width of a character.
Aligned == display_type = "vesa" => gtty.main_x % 8 = 0

\* The inductive invariant.
TerminalInv ==
    /\ TypeOK /\ CursorOnScreen /\ NoCursorLeftBehind /\ ReadSucceeds
    /\ IndexBounded /\ OneReader /\ Aligned

\* What InputShown rests on: nothing is left in the buffer behind the index, a
\* request starts with an empty line, and an undisturbed line is echoed.
Buffered(g) ==
    /\ DOMAIN g.input_buffer = 0..(BufferLen - 1)
    /\ \A i \in 0..(BufferLen - 1) :
           i >= g.input_buffer_index => g.input_buffer[i] = "nul"
    /\ g.input_buffer_size = 0 => g.input_buffer_index = 0
InputInv ==
    /\ Buffered(gtty)
    /\ DOMAIN gtty.screen \subseteq Int \X Int
    /\ undisturbed \in BOOLEAN
    /\ undisturbed => gtty.gtty_echo = 1 /\ gtty.display_mode = "TXT"
    /\ InputShown

\* A process that asks for a line gets it.
GetsReturns == \A p \in Procs : pc[p] = "gets" ~> pc[p] # "gets"
=============================================================================
