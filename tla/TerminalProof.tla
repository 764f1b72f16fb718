--------------------------- MODULE TerminalProof ---------------------------
(***************************************************************************)
(* Proofs about the terminal: for every display that has room for one      *)
(* character, every set of keys and every size of request, the cursor      *)
(* stays on the screen, none is left behind on it, and a read that follows *)
(* a successful poll succeeds.                                             *)
(*                                                                         *)
(* The functions of gtty.c are compositions of steps on the record of its  *)
(* variables.  Each step has a lemma about the place of the cursor and one *)
(* about what it leaves alone; the actions put them together.              *)
(***************************************************************************)
EXTENDS Terminal, TLAPS

-----------------------------------------------------------------------------
(* The display.                                                            *)

\* The variables of gtty.c, with their types.
Fields == {"main_x", "main_y", "screen", "vesa_cursor_status", "cursor",
           "input_buffer", "input_buffer_index", "input_buffer_size",
           "input_buffer_flag", "gtty_echo", "display_mode"}

Shape(g) ==
    /\ DOMAIN g = Fields
    /\ g.main_x \in Int /\ g.main_y \in Int
    /\ g.vesa_cursor_status \in {0, 1}
    /\ g.input_buffer_flag \in {0, 1} /\ g.gtty_echo \in {0, 1}
    /\ g.input_buffer_size \in Nat /\ g.input_buffer_index \in Nat
    /\ g.display_mode \in {"TXT", "PX"}
    /\ display_type = "vga" => g.display_mode = "TXT" /\ g.cursor = {}

Column(g) == display_type = "vesa" => g.main_x % 8 = 0

OnScreen(g) ==
    /\ g.main_x \in 0..LastX
    /\ g.main_y \in geo.margin_y_top..LastY

CursorHere(g) == g.cursor \subseteq {<<g.main_x, g.main_y>>}

\* The place before the end of the loop: past a border, but a wrap or a scroll
\* brings it back.
NearScreen(g) ==
    /\ g.main_x >= 0
    /\ IF g.main_x > LastX THEN g.main_y + geo.line_height >= geo.margin_y_top
       ELSE g.main_y >= geo.margin_y_top /\ Column(g)

\* The input a write leaves alone, but for the index, which may go back.
SameInput(g, h) ==
    /\ h.input_buffer_size = g.input_buffer_size
    /\ h.input_buffer_flag = g.input_buffer_flag
    /\ h.input_buffer_index <= g.input_buffer_index

\* The state of the display between two steps.
Fine(g) == Shape(g) /\ Column(g) /\ OnScreen(g) /\ CursorHere(g)

\* The numbers of the two displays.
LEMMA GeometryVga ==
  ASSUME display_type = "vga", display_type \in Displays
  PROVE  /\ geo.margin_x = 0 /\ geo.margin_y_top = 0 /\ geo.line_height = 1 /\ geo.line_width = 1
         /\ buffer_width \in Nat /\ buffer_height \in Nat
         /\ LastX = buffer_width - 1 /\ LastY = buffer_height - 1
         /\ buffer_width >= 1 /\ buffer_height >= 1
BY TerminalAssumption DEF TerminalAssumption, geo, Geometry, buffer_width, buffer_height, LastX, LastY

LEMMA GeometryVesa ==
  ASSUME display_type = "vesa", display_type \in Displays
  PROVE  /\ geo.margin_x = 8 /\ geo.margin_y_top = 44 /\ geo.line_height = 16 /\ geo.line_width = 8
         /\ buffer_width \in Nat /\ buffer_height \in Nat
         /\ LastX = buffer_width - 9 /\ LastY = buffer_height - 24
         /\ buffer_width >= 17 /\ buffer_height >= 68
BY TerminalAssumption DEF TerminalAssumption, geo, Geometry, buffer_width, buffer_height, LastX, LastY

\* What the proofs use of both.
LEMMA GeometryFacts ==
  ASSUME display_type \in Displays
  PROVE  /\ display_type \in {"vga", "vesa"}
         /\ geo.margin_x \in Nat /\ geo.margin_y_top \in Nat
         /\ geo.line_height \in Nat /\ geo.line_width \in Nat
         /\ buffer_width \in Nat /\ LastX \in Int /\ LastY \in Int
         /\ geo.margin_x <= LastX /\ geo.margin_y_top <= LastY
         /\ display_type = "vesa" => geo.margin_x % 8 = 0
<1>1. display_type \in {"vga", "vesa"}
  BY TerminalAssumption DEF TerminalAssumption
<1>2. CASE display_type = "vga"
  BY <1>1, <1>2, GeometryVga
<1>3. CASE display_type = "vesa"
  BY <1>1, <1>3, GeometryVesa
<1>4. QED
  BY <1>1, <1>2, <1>3

\* Erasing the cursor leaves none and moves nothing (gtty_write_vesa).
LEMMA CursorOffEffect ==
  ASSUME NEW g, Shape(g), CursorHere(g)
  PROVE  /\ Shape(CursorOff(g))
         /\ CursorOff(g).cursor = {}
         /\ CursorOff(g).main_x = g.main_x /\ CursorOff(g).main_y = g.main_y
         /\ CursorOff(g).input_buffer_index = g.input_buffer_index
         /\ SameInput(g, CursorOff(g))
<1>1. CASE display_type = "vga"
  BY <1>1 DEF CursorOff, Shape, SameInput
<1>2. CASE display_type # "vga"
  <2> DEFINE h == [g EXCEPT !.vesa_cursor_status = 1]
             o == [h EXCEPT !.vesa_cursor_status = 0, !.cursor = @ \ {<<h.main_x, h.main_y>>}]
  <2>1. /\ DOMAIN h = Fields /\ h.vesa_cursor_status = 1
        /\ \A f \in Fields : f # "vesa_cursor_status" => h[f] = g[f]
    BY DEF Shape, Fields
  <2>2. CursorOff(g) = o
    BY <1>2, <2>1 DEF CursorOff, vesa_cursor_handler
  <2>3. /\ DOMAIN o = Fields /\ o.vesa_cursor_status = 0
        /\ o.cursor = h.cursor \ {<<h.main_x, h.main_y>>}
        /\ \A f \in Fields : f \notin {"vesa_cursor_status", "cursor"} => o[f] = h[f]
    BY <2>1 DEF Fields
  <2> HIDE DEF h, o
  <2>4. /\ h.main_x = g.main_x /\ h.main_y = g.main_y /\ h.cursor = g.cursor
    BY <2>1 DEF Fields
  <2>5. o.cursor = {}
    BY <2>3, <2>4 DEF CursorHere
  <2>6. \A f \in Fields : f \notin {"vesa_cursor_status", "cursor"} => o[f] = g[f]
    BY <2>1, <2>3
  <2>7. /\ o.main_x = g.main_x /\ o.main_y = g.main_y
        /\ o.input_buffer_index = g.input_buffer_index
        /\ o.input_buffer_size = g.input_buffer_size
        /\ o.input_buffer_flag = g.input_buffer_flag
        /\ o.gtty_echo = g.gtty_echo /\ o.display_mode = g.display_mode
    BY <2>6 DEF Fields
  <2>8. QED
    BY <1>2, <2>2, <2>3, <2>5, <2>7 DEF Shape, SameInput
<1>3. QED
  BY <1>1, <1>2

\* The end of the loop brings the cursor back to the screen, on the next line
\* or the last (gtty_write_vga, gtty_write_vesa).
LEMMA WrappedEffect ==
  ASSUME display_type \in Displays, NEW g, Shape(g), NearScreen(g), g.cursor = {}
  PROVE  Fine(Wrapped(g)) /\ SameInput(g, Wrapped(g))
<1> DEFINE w == IF g.main_x > LastX
                THEN [CursorOff(g) EXCEPT !.main_x = geo.margin_x, !.main_y = @ + geo.line_height]
                ELSE g
           z == [CursorOff(w) EXCEPT !.screen = Scrolled(@), !.main_y = LastY]
<1>g. /\ geo.margin_x \in Nat /\ geo.margin_y_top \in Nat /\ geo.line_height \in Nat
      /\ LastX \in Int /\ LastY \in Int
      /\ geo.margin_x <= LastX /\ geo.margin_y_top <= LastY
      /\ display_type = "vesa" => geo.margin_x % 8 = 0
  BY GeometryFacts
<1>0. CursorHere(g)
  BY DEF CursorHere
<1>1. /\ Shape(w) /\ Column(w) /\ SameInput(g, w) /\ w.cursor = {}
      /\ w.main_x \in 0..LastX /\ w.main_y >= geo.margin_y_top
  <2>1. CASE g.main_x > LastX
    <3>1. /\ Shape(CursorOff(g)) /\ CursorOff(g).cursor = {} /\ SameInput(g, CursorOff(g))
          /\ CursorOff(g).main_y = g.main_y
      BY <1>0, CursorOffEffect
    <3>2. w = [CursorOff(g) EXCEPT !.main_x = geo.margin_x, !.main_y = @ + geo.line_height]
      BY <2>1
    <3> HIDE DEF w
    <3>3. g.main_y + geo.line_height >= geo.margin_y_top
      BY <2>1 DEF NearScreen
    <3>4. g.main_y \in Int
      BY DEF Shape
    <3>5. /\ w.main_x = geo.margin_x /\ w.main_y = g.main_y + geo.line_height
          /\ Shape(w) /\ w.cursor = {} /\ SameInput(g, w)
      BY <1>g, <3>1, <3>2, <3>4 DEF Shape, Fields, SameInput
    <3>6. QED
      BY <1>g, <3>3, <3>4, <3>5 DEF Column
  <2>2. CASE ~(g.main_x > LastX)
    BY <1>g, <2>2 DEF NearScreen, Shape, SameInput
  <2>3. QED
    BY <2>1, <2>2
<1>2. Wrapped(g) = IF w.main_y > LastY THEN z ELSE w
  BY DEF Wrapped
<1> HIDE DEF w
<1>3. CASE w.main_y > LastY
  <2>1. CursorHere(w)
    BY <1>1 DEF CursorHere
  <2>2. /\ Shape(CursorOff(w)) /\ CursorOff(w).cursor = {} /\ SameInput(w, CursorOff(w))
        /\ CursorOff(w).main_x = w.main_x
    BY <1>1, <2>1, CursorOffEffect
  <2>3. /\ Shape(z) /\ z.cursor = {} /\ SameInput(w, z) /\ z.main_x = w.main_x /\ z.main_y = LastY
    BY <1>g, <2>2 DEF Shape, Fields, SameInput
  <2> HIDE DEF z
  <2>4. SameInput(g, z)
    BY <1>1, <2>3 DEF SameInput, Shape
  <2>5. QED
    BY <1>g, <1>1, <1>2, <1>3, <2>3, <2>4 DEF Fine, Column, OnScreen, CursorHere
<1>4. CASE ~(w.main_y > LastY)
  BY <1>g, <1>1, <1>2, <1>4 DEF Fine, OnScreen, CursorHere, Shape
<1>5. QED
  BY <1>3, <1>4

\* A backspace leaves the cursor near the screen: on VGA it goes to the end of
\* the line above, on VESA it is beyond the right border there and the end of
\* the loop brings it back down.
LEMMA BackspaceEffect ==
  ASSUME display_type \in Displays, NEW g, Shape(g), Column(g), OnScreen(g), g.cursor = {}
  PROVE  LET b == Backspace(g) IN
         Shape(b) /\ NearScreen(b) /\ b.cursor = {} /\ SameInput(g, b)
<1> DEFINE x == IF g.main_x > 0 THEN g.main_x - geo.line_width
                ELSE IF g.main_y > 0 THEN buffer_width - geo.line_width ELSE g.main_x
           y == IF g.main_x <= 0 /\ g.main_y > 0 THEN g.main_y - geo.line_height ELSE g.main_y
           i == g.input_buffer_index - 1
           b == Backspace(g)
<1>t. display_type \in {"vga", "vesa"}
  BY GeometryFacts
<1>1. CASE g.input_buffer_index < 1
  <2>1. b = g
    BY <1>1 DEF Backspace
  <2>2. QED
    BY <2>1, GeometryFacts DEF OnScreen, NearScreen, SameInput, Shape
<1>2. CASE ~(g.input_buffer_index < 1)
  <2>0. g.main_x \in Int /\ g.main_y \in Int /\ g.input_buffer_index \in Nat
    BY DEF Shape
  <2>1. b = [g EXCEPT !.input_buffer_index = i, !.input_buffer = Written(@, i, "nul"),
                      !.main_x = x, !.main_y = y, !.screen = Drawn(@, x, y, "sp")]
    BY <1>2 DEF Backspace
  <2>2. x \in Int /\ y \in Int
    BY <2>0, GeometryFacts
  <2>3. i \in Nat /\ i <= g.input_buffer_index
    BY <1>2, <2>0
  <2>4. CASE display_type = "vga"
    <3>1. /\ x >= 0
          /\ IF x > LastX THEN y + geo.line_height >= geo.margin_y_top ELSE y >= geo.margin_y_top
      BY <2>0, <2>4, GeometryVga DEF OnScreen
    <3> HIDE DEF x, y, i, b
    <3>2. /\ Shape(b) /\ b.cursor = {} /\ SameInput(g, b) /\ b.main_x = x /\ b.main_y = y
      BY <2>1, <2>2, <2>3 DEF Shape, Fields, SameInput
    <3>3. QED
      BY <2>4, <3>1, <3>2 DEF b, NearScreen, Column
  <2>5. CASE display_type = "vesa"
    <3>1. g.main_x % 8 = 0
      BY <2>5 DEF Column
    <3>2. CASE g.main_x > 0
      <4>1. x = g.main_x - 8 /\ y = g.main_y
        BY <2>0, <2>5, <3>2, GeometryVesa
      <4> HIDE DEF x, y, i, b
      <4>2. x >= 0 /\ x % 8 = 0 /\ y >= geo.margin_y_top
        BY <2>0, <2>5, <3>1, <3>2, <4>1, GeometryVesa DEF OnScreen
      <4>3. /\ Shape(b) /\ b.cursor = {} /\ SameInput(g, b) /\ b.main_x = x /\ b.main_y = y
        BY <2>1, <2>2, <2>3 DEF Shape, Fields, SameInput
      <4>4. y + geo.line_height >= geo.margin_y_top
        BY <2>2, <4>2, GeometryFacts
      <4>5. QED
        BY <2>5, <4>2, <4>3, <4>4 DEF b, NearScreen, Column
    <3>3. CASE ~(g.main_x > 0)
      <4>1. x = buffer_width - 8 /\ y = g.main_y - 16
        BY <2>0, <2>5, <3>3, GeometryVesa DEF OnScreen
      <4> HIDE DEF x, y, i, b
      <4>2. x >= 0 /\ x > LastX /\ y + geo.line_height >= geo.margin_y_top
        BY <2>0, <2>5, <3>1, <3>3, <4>1, GeometryVesa DEF OnScreen
      <4>3. /\ Shape(b) /\ b.cursor = {} /\ SameInput(g, b) /\ b.main_x = x /\ b.main_y = y
        BY <2>1, <2>2, <2>3 DEF Shape, Fields, SameInput
      <4>4. QED
        BY <4>2, <4>3 DEF b, NearScreen
    <3>4. QED
      BY <3>2, <3>3
  <2>6. QED
    BY <1>t, <2>4, <2>5
<1>3. QED
  BY <1>1, <1>2

\* One turn of the loop for a character other than a tab.
LEMMA PutPlainEffect ==
  ASSUME display_type \in Displays, NEW g, NEW c, Fine(g)
  PROVE  Fine(PutPlain(g, c)) /\ SameInput(g, PutPlain(g, c))
<1> DEFINE o == CursorOff(g)
           n == CASE c = "bs" -> Backspace(o)
                  [] c = "nl" -> [o EXCEPT !.main_x = geo.margin_x, !.main_y = @ + geo.line_height]
                  [] c = "cr" -> [o EXCEPT !.main_x = geo.margin_x]
                  [] OTHER    -> [o EXCEPT !.screen = Drawn(@, o.main_x, o.main_y, c),
                                           !.main_x = @ + geo.line_width]
<1>1. Shape(g) /\ Column(g) /\ OnScreen(g) /\ CursorHere(g)
  BY DEF Fine
<1>2. /\ Shape(o) /\ o.cursor = {} /\ SameInput(g, o)
      /\ o.main_x = g.main_x /\ o.main_y = g.main_y
  BY <1>1, CursorOffEffect
<1>3. PutPlain(g, c) = Wrapped(n)
  BY DEF PutPlain
<1> HIDE DEF o
<1>4. Column(o) /\ OnScreen(o)
  BY <1>1, <1>2 DEF Column, OnScreen
<1>5. o.main_x \in Int /\ o.main_y \in Int
  BY <1>2 DEF Shape
<1>6. Shape(n) /\ NearScreen(n) /\ n.cursor = {} /\ SameInput(o, n)
  <2>1. CASE c = "bs"
    <3>1. n = Backspace(o)
      BY <2>1
    <3>2. QED
      BY <1>2, <1>4, <3>1, BackspaceEffect
  <2>2. CASE c = "nl"
    <3>1. n = [o EXCEPT !.main_x = geo.margin_x, !.main_y = @ + geo.line_height]
      BY <2>2
    <3> HIDE DEF n
    <3>2. /\ Shape(n) /\ n.cursor = {} /\ SameInput(o, n)
          /\ n.main_x = geo.margin_x /\ n.main_y = o.main_y + geo.line_height
      BY <1>2, <1>5, <3>1, GeometryFacts DEF Shape, Fields, SameInput
    <3>3. QED
      BY <1>4, <1>5, <3>2, GeometryFacts DEF NearScreen, OnScreen, Column
  <2>3. CASE c = "cr"
    <3>1. n = [o EXCEPT !.main_x = geo.margin_x]
      BY <2>3
    <3> HIDE DEF n
    <3>2. /\ Shape(n) /\ n.cursor = {} /\ SameInput(o, n)
          /\ n.main_x = geo.margin_x /\ n.main_y = o.main_y
      BY <1>2, <1>5, <3>1, GeometryFacts DEF Shape, Fields, SameInput
    <3>3. QED
      BY <1>4, <1>5, <3>2, GeometryFacts DEF NearScreen, OnScreen, Column
  <2>4. CASE c \notin {"bs", "nl", "cr"}
    <3>1. n = [o EXCEPT !.screen = Drawn(@, o.main_x, o.main_y, c), !.main_x = @ + geo.line_width]
      BY <2>4
    <3> HIDE DEF n
    <3>2. /\ Shape(n) /\ n.cursor = {} /\ SameInput(o, n)
          /\ n.main_x = o.main_x + geo.line_width /\ n.main_y = o.main_y
      BY <1>2, <1>5, <3>1, GeometryFacts DEF Shape, Fields, SameInput
    <3>3. Column(n)
      <4>1. CASE display_type = "vesa"
        BY <1>4, <1>5, <3>2, <4>1, GeometryVesa DEF Column
      <4>2. QED
        BY <4>1 DEF Column
    <3>4. QED
      BY <1>4, <1>5, <3>2, <3>3, GeometryFacts DEF NearScreen, OnScreen
  <2>5. QED
    BY <2>1, <2>2, <2>3, <2>4
<1> HIDE DEF n
<1>7. Fine(Wrapped(n)) /\ SameInput(n, Wrapped(n))
  BY <1>6, WrappedEffect
<1>8. SameInput(g, Wrapped(n))
  BY <1>1, <1>2, <1>6, <1>7 DEF SameInput, Shape, Fine
<1>9. QED
  BY <1>3, <1>7, <1>8

\* A write keeps the cursor and the request for input.
LEMMA WriteEffect ==
  ASSUME display_type \in Displays, NEW g, NEW c, Fine(g)
  PROVE  Fine(gtty_dev_write(g, c)) /\ SameInput(g, gtty_dev_write(g, c))
<1> DEFINE Space(h) == PutPlain(h, "sp")
<1>0. SameInput(g, g)
  BY DEF SameInput, Fine, Shape
<1>1. ASSUME NEW h, Fine(h), SameInput(g, h)
      PROVE  Fine(Space(h)) /\ SameInput(g, Space(h))
  <2>1. Fine(Space(h)) /\ SameInput(h, Space(h))
    BY <1>1, PutPlainEffect
  <2> HIDE DEF Space
  <2>2. QED
    BY <1>1, <2>1 DEF SameInput, Fine, Shape
<1>2. Fine(Put(g, c)) /\ SameInput(g, Put(g, c))
  <2>1. CASE c = "tab"
    <3>1. Put(g, c) = Space(Space(Space(Space(g))))
      BY <2>1 DEF Put
    <3> HIDE DEF Space
    <3>2. Fine(Space(g)) /\ SameInput(g, Space(g))
      BY <1>0, <1>1
    <3>3. Fine(Space(Space(g))) /\ SameInput(g, Space(Space(g)))
      BY <1>1, <3>2
    <3>4. Fine(Space(Space(Space(g)))) /\ SameInput(g, Space(Space(Space(g))))
      BY <1>1, <3>3
    <3>5. QED
      BY <1>1, <3>1, <3>4
  <2>2. CASE c # "tab"
    BY <2>2, PutPlainEffect DEF Put
  <2>3. QED
    BY <2>1, <2>2
<1>3. QED
  BY <1>0, <1>2 DEF gtty_dev_write

\* The other calls that change the display: the timer draws or erases the
\* cursor where it is, an image and CLEAR remove it, SET_MODE and the echo
\* command leave it alone.
LEMMA BlinkEffect ==
  ASSUME display_type = "vesa", NEW g, Fine(g)
  PROVE  Fine(vesa_cursor_handler(g)) /\ SameInput(g, vesa_cursor_handler(g))
<1> DEFINE h == vesa_cursor_handler(g)
<1>1. /\ DOMAIN h = Fields /\ h.vesa_cursor_status \in {0, 1}
      /\ h.main_x = g.main_x /\ h.main_y = g.main_y
      /\ h.input_buffer_index = g.input_buffer_index
      /\ h.input_buffer_size = g.input_buffer_size
      /\ h.input_buffer_flag = g.input_buffer_flag
      /\ h.gtty_echo = g.gtty_echo /\ h.display_mode = g.display_mode
      /\ h.cursor \subseteq g.cursor \cup {<<g.main_x, g.main_y>>}
  <2>1. DOMAIN g = Fields
    BY DEF Fine, Shape
  <2>2. CASE g.vesa_cursor_status = 0
    BY <2>1, <2>2 DEF vesa_cursor_handler, Fields
  <2>3. CASE g.vesa_cursor_status # 0
    BY <2>1, <2>3 DEF vesa_cursor_handler, Fields
  <2>4. QED
    BY <2>2, <2>3
<1> HIDE DEF h
<1>2. Shape(h) /\ SameInput(g, h)
  BY <1>1 DEF Shape, Fine, SameInput
<1>3. Column(h) /\ OnScreen(h) /\ CursorHere(h)
  BY <1>1 DEF Fine, Column, OnScreen, CursorHere
<1>4. QED
  BY <1>2, <1>3 DEF Fine, h

LEMMA ClearEffect ==
  ASSUME display_type \in Displays, NEW g, Fine(g)
  PROVE  /\ Fine(Clear(g)) /\ SameInput(g, Clear(g))
         /\ Fine(WriteImage(g)) /\ SameInput(g, WriteImage(g))
<1>0. Shape(g) /\ Column(g) /\ OnScreen(g)
  BY DEF Fine
<1>1. /\ Shape(Clear(g)) /\ Clear(g).cursor = {} /\ SameInput(g, Clear(g))
      /\ Clear(g).main_x = geo.margin_x /\ Clear(g).main_y = geo.margin_y_top
  BY <1>0, GeometryFacts DEF Clear, Shape, Fields, SameInput
<1>2. /\ Shape(WriteImage(g)) /\ WriteImage(g).cursor = {} /\ SameInput(g, WriteImage(g))
      /\ WriteImage(g).main_x = g.main_x /\ WriteImage(g).main_y = g.main_y
  BY <1>0 DEF WriteImage, Shape, Fields, SameInput
<1>3. Column(Clear(g)) /\ OnScreen(Clear(g)) /\ CursorHere(Clear(g))
  BY <1>1, GeometryFacts DEF Column, OnScreen, CursorHere
<1>4. Column(WriteImage(g)) /\ OnScreen(WriteImage(g)) /\ CursorHere(WriteImage(g))
  BY <1>0, <1>2 DEF Column, OnScreen, CursorHere
<1>5. QED
  BY <1>1, <1>2, <1>3, <1>4 DEF Fine

LEMMA ModeEffect ==
  ASSUME NEW g, Fine(g), NEW m \in {"TXT", "PX"}, NEW e \in {0, 1}
  PROVE  /\ Fine(SetMode(g, m)) /\ SameInput(g, SetMode(g, m))
         /\ Fine([g EXCEPT !.gtty_echo = e]) /\ SameInput(g, [g EXCEPT !.gtty_echo = e])
<1> DEFINE h == [g EXCEPT !.display_mode = m]
           k == [g EXCEPT !.gtty_echo = e]
<1>0. Shape(g) /\ Column(g) /\ OnScreen(g) /\ CursorHere(g)
  BY DEF Fine
<1>1. ASSUME ~(display_type = "vga" /\ m = "PX")
      PROVE  /\ Shape(h) /\ SameInput(g, h) /\ h.cursor = g.cursor
             /\ h.main_x = g.main_x /\ h.main_y = g.main_y
  BY <1>0, <1>1 DEF Shape, Fields, SameInput
<1>2. /\ Shape(k) /\ SameInput(g, k) /\ k.cursor = g.cursor
      /\ k.main_x = g.main_x /\ k.main_y = g.main_y
  BY <1>0 DEF Shape, Fields, SameInput
<1> HIDE DEF h, k
<1>3. Fine(k) /\ SameInput(g, k)
  BY <1>0, <1>2 DEF Fine, Column, OnScreen, CursorHere
<1>4. CASE display_type = "vga" /\ m = "PX"
  <2>1. SetMode(g, m) = g /\ SameInput(g, g)
    BY <1>0, <1>4 DEF SetMode, SameInput, Shape
  <2>2. QED
    BY <1>3, <2>1 DEF k
<1>5. CASE ~(display_type = "vga" /\ m = "PX")
  <2>1. SetMode(g, m) = h
    BY <1>5 DEF SetMode, h
  <2>2. Fine(h) /\ SameInput(g, h)
    BY <1>0, <1>1, <1>5 DEF Fine, Column, OnScreen, CursorHere
  <2>3. QED
    BY <1>3, <2>1, <2>2 DEF k
<1>6. QED
  BY <1>4, <1>5

\* shell_reset goes through pixel mode and ends with an empty text area.
LEMMA ResetEffect ==
  ASSUME display_type \in Displays, NEW g, Fine(g)
  PROVE  Fine(shell_reset(g)) /\ SameInput(g, shell_reset(g))
<1> DEFINE i == WriteImage(SetMode(g, "PX"))
           b == IF display_type = "vesa" THEN i ELSE g
           t == SetMode(b, "TXT")
           c == Clear(t)
<1>1. Fine(SetMode(g, "PX")) /\ SameInput(g, SetMode(g, "PX"))
  BY ModeEffect
<1>2. Fine(i) /\ SameInput(SetMode(g, "PX"), i)
  BY <1>1, ClearEffect
<1>3. Fine(b) /\ SameInput(g, b)
  BY <1>1, <1>2 DEF SameInput, Fine, Shape
<1>4. shell_reset(g) = [c EXCEPT !.gtty_echo = 1]
  BY DEF shell_reset
<1> HIDE DEF b
<1>5. Fine(t) /\ SameInput(b, t)
  BY <1>3, ModeEffect
<1> HIDE DEF t
<1>6. Fine(c) /\ SameInput(t, c)
  BY <1>5, ClearEffect
<1> HIDE DEF c
<1>7. Fine([c EXCEPT !.gtty_echo = 1]) /\ SameInput(c, [c EXCEPT !.gtty_echo = 1])
  BY <1>6, ModeEffect
<1>8. QED
  BY <1>3, <1>4, <1>5, <1>6, <1>7 DEF SameInput, Fine, Shape

-----------------------------------------------------------------------------
(* The input.                                                              *)

Bounded(g) == g.input_buffer_index <= g.input_buffer_size + 3

\* A key may end the line, never reopen it, and leaves the request.
KeyEffect(g, h) ==
    /\ Fine(h) /\ Bounded(h)
    /\ h.input_buffer_size = g.input_buffer_size
    /\ g.input_buffer_flag = 1 => h.input_buffer_flag = 1

LEMMA ListenerEffect ==
  ASSUME display_type \in Displays, NEW g, NEW c, Fine(g), Bounded(g)
  PROVE  KeyEffect(g, gtty_keyboard_listener(g, c))
<1> DEFINE s == Stored(g, c)
           f == Flagged(s, c)
<1>0. Shape(g) /\ Column(g) /\ OnScreen(g) /\ CursorHere(g)
  BY DEF Fine
<1>1. /\ Shape(s) /\ s.cursor = g.cursor /\ s.main_x = g.main_x /\ s.main_y = g.main_y
      /\ Bounded(s) /\ s.input_buffer_size = g.input_buffer_size
      /\ s.input_buffer_flag = g.input_buffer_flag
  <2>1. CASE Accepted(g, c)
    <3>1. s = [g EXCEPT !.input_buffer = Written(@, g.input_buffer_index, c),
                        !.input_buffer_index = @ + (IF c = "tab" THEN 4 ELSE 1)]
      BY <2>1 DEF Stored
    <3>2. g.input_buffer_index < g.input_buffer_size
      BY <2>1 DEF Accepted
    <3> HIDE DEF s
    <3>3. /\ DOMAIN s = Fields
          /\ s.input_buffer_index = g.input_buffer_index + (IF c = "tab" THEN 4 ELSE 1)
          /\ \A x \in Fields : x \notin {"input_buffer", "input_buffer_index"} => s[x] = g[x]
      BY <1>0, <3>1 DEF Shape, Fields
    <3>4. /\ s.cursor = g.cursor /\ s.main_x = g.main_x /\ s.main_y = g.main_y
          /\ s.input_buffer_size = g.input_buffer_size
          /\ s.input_buffer_flag = g.input_buffer_flag
          /\ s.gtty_echo = g.gtty_echo /\ s.display_mode = g.display_mode
          /\ s.vesa_cursor_status = g.vesa_cursor_status
      BY <3>3 DEF Fields
    <3>5. s.input_buffer_index \in Nat /\ s.input_buffer_index <= s.input_buffer_size + 3
      BY <1>0, <3>2, <3>3, <3>4 DEF Shape
    <3>6. QED
      BY <1>0, <3>3, <3>4, <3>5 DEF Shape, Bounded
  <2>2. CASE ~Accepted(g, c)
    BY <1>0, <2>2 DEF Stored
  <2>3. QED
    BY <2>1, <2>2
<1> HIDE DEF s
<1>2. /\ Shape(f) /\ f.cursor = s.cursor /\ f.main_x = s.main_x /\ f.main_y = s.main_y
      /\ Bounded(f) /\ f.input_buffer_size = s.input_buffer_size
      /\ s.input_buffer_flag = 1 => f.input_buffer_flag = 1
  <2>1. f = s \/ f = [s EXCEPT !.input_buffer_flag = 1]
    BY DEF Flagged
  <2>2. QED
    BY <1>1, <2>1 DEF Shape, Fields, Bounded
<1> HIDE DEF f
<1>3. Fine(f)
  BY <1>0, <1>1, <1>2 DEF Fine, Column, OnScreen, CursorHere
<1>4. KeyEffect(g, f)
  BY <1>1, <1>2, <1>3 DEF KeyEffect
<1>5. KeyEffect(g, gtty_dev_write(f, c))
  <2>1. Fine(gtty_dev_write(f, c)) /\ SameInput(f, gtty_dev_write(f, c))
    BY <1>3, WriteEffect
  <2>2. QED
    BY <1>2, <1>4, <2>1 DEF KeyEffect, SameInput, Bounded, Fine, Shape
<1>6. gtty_keyboard_listener(g, c) \in {f, gtty_dev_write(f, c)}
  BY DEF gtty_keyboard_listener, s, f
<1>7. QED
  BY <1>4, <1>5, <1>6

\* INPUT_READY sets a size only where there is none, and reports what is
\* flagged for the size that is set.
LEMMA InputReadyEffect ==
  ASSUME NEW g, Fine(g), Bounded(g), NEW n \in Nat
  PROVE  LET h == InputReady(g, n) IN
         /\ Fine(h) /\ Bounded(h)
         /\ IF g.input_buffer_size = 0 THEN h.input_buffer_size = n /\ h.input_buffer_flag = 0
            ELSE h = g
<1> DEFINE h == [g EXCEPT !.input_buffer_size = n, !.input_buffer_flag = 0]
<1>0. Shape(g) /\ Column(g) /\ OnScreen(g) /\ CursorHere(g)
  BY DEF Fine
<1>1. /\ Shape(h) /\ h.cursor = g.cursor /\ h.main_x = g.main_x /\ h.main_y = g.main_y
      /\ h.input_buffer_size = n /\ h.input_buffer_flag = 0
      /\ h.input_buffer_index = g.input_buffer_index
  BY <1>0 DEF Shape, Fields
<1> HIDE DEF h
<1>2. Fine(h)
  BY <1>0, <1>1 DEF Fine, Column, OnScreen, CursorHere
<1>3. ASSUME g.input_buffer_size = 0 PROVE Bounded(h)
  BY <1>0, <1>1, <1>3 DEF Bounded, Shape
<1>4. QED
  BY <1>1, <1>2, <1>3 DEF InputReady, h

\* A read that succeeds empties the buffer and ends the request.
LEMMA ReadEffect ==
  ASSUME NEW g, Fine(g), NEW n, Readable(g, n)
  PROVE  LET h == gtty_dev_read(g, n) IN
         Fine(h) /\ Bounded(h) /\ h.input_buffer_size = 0
<1> DEFINE h == gtty_dev_read(g, n)
<1>0. Shape(g) /\ Column(g) /\ OnScreen(g) /\ CursorHere(g)
  BY DEF Fine
<1>1. h = [g EXCEPT !.input_buffer = [i \in DOMAIN @ |-> "nul"],
                    !.input_buffer_flag = 0, !.input_buffer_size = 0, !.input_buffer_index = 0]
  BY DEF gtty_dev_read
<1> HIDE DEF h
<1>2. /\ Shape(h) /\ h.cursor = g.cursor /\ h.main_x = g.main_x /\ h.main_y = g.main_y
      /\ h.input_buffer_size = 0 /\ h.input_buffer_index = 0
  BY <1>0, <1>1 DEF Shape, Fields
<1>3. QED
  BY <1>0, <1>2 DEF Fine, Column, OnScreen, CursorHere, Bounded, h

-----------------------------------------------------------------------------
(* The invariant.                                                          *)

\* The parts of it that the record of gtty.c does not tell.
Rest ==
    /\ held \subseteq Modifiers
    /\ pc \in [Procs -> {"prompt", "gets", "read", "parse", "wait", "check", "gone", "none", "runs"}]
    /\ want \in [Procs -> {0, ShellSize} \cup ChildSizes]
    /\ gtty.input_buffer_size \in {0, ShellSize} \cup ChildSizes

Answered == \A p \in Procs : pc[p] = "read" => Readable(gtty, want[p])

LEMMA Sizes == {0, ShellSize} \cup ChildSizes \subseteq Nat
BY TerminalAssumption DEF TerminalAssumption

LEMMA Apart ==
  ASSUME TerminalInv
  PROVE  /\ display_type \in Displays
         /\ Fine(gtty) /\ Bounded(gtty) /\ Rest /\ Answered /\ OneReader
<1>1. /\ TypeOK /\ CursorOnScreen /\ NoCursorLeftBehind /\ ReadSucceeds
      /\ IndexBounded /\ OneReader /\ Aligned
  BY DEF TerminalInv
<1>2. DOMAIN gtty = Fields
  BY <1>1 DEF TypeOK, gtty_start, Fields
<1>3. gtty.input_buffer_size \in Nat
  BY <1>1, Sizes DEF TypeOK
<1>4. Shape(gtty)
  BY <1>1, <1>2, <1>3 DEF TypeOK, Shape
<1>5. Fine(gtty)
  BY <1>1, <1>4 DEF Fine, CursorOnScreen, OnScreen, NoCursorLeftBehind, CursorHere, Aligned, Column
<1>6. display_type \in Displays /\ Rest
  BY <1>1 DEF TypeOK, Rest
<1>7. QED
  BY <1>1, <1>5, <1>6 DEF ReadSucceeds, IndexBounded, Bounded, Answered

\* The display of the machine does not change, so what is shown of the new
\* record with the old type holds with the new.
LEMMA Together ==
  ASSUME display_type' = display_type, display_type \in Displays,
         Fine(gtty'), Bounded(gtty'), Rest', Answered', OneReader'
  PROVE  TerminalInv'
<1>1. geo' = geo /\ LastX' = LastX /\ LastY' = LastY
  BY DEF geo, LastX, LastY, buffer_width, buffer_height
<1>2. Shape(gtty') /\ Column(gtty') /\ OnScreen(gtty') /\ CursorHere(gtty')
  BY DEF Fine
<1>3. DOMAIN gtty' = DOMAIN gtty_start'
  BY <1>2 DEF Shape, Fields, gtty_start
<1>4. TypeOK'
  BY <1>2, <1>3 DEF TypeOK, Shape, Rest
<1>5. CursorOnScreen' /\ NoCursorLeftBehind' /\ Aligned'
  BY <1>1, <1>2 DEF CursorOnScreen, NoCursorLeftBehind, Aligned, OnScreen, CursorHere, Column
<1>6. ReadSucceeds' /\ IndexBounded'
  BY DEF ReadSucceeds, IndexBounded, Answered, Bounded
<1>7. QED
  BY <1>4, <1>5, <1>6 DEF TerminalInv

\* A step of the keyboard or the timer: the processes stay where they are.
LEMMA QuietStep ==
  ASSUME TerminalInv, KeyEffect(gtty, gtty'), held' \subseteq Modifiers,
         UNCHANGED <<display_type, pc, want>>
  PROVE  TerminalInv'
<1>1. /\ display_type \in Displays
      /\ Fine(gtty) /\ Bounded(gtty) /\ Rest /\ Answered /\ OneReader
  BY Apart
<1>2. Rest'
  BY <1>1 DEF Rest, KeyEffect
<1>3. Answered'
  BY <1>1 DEF Answered, Readable, KeyEffect
<1>4. OneReader'
  BY <1>1 DEF OneReader, Reads, KeyEffect
<1>5. QED
  BY <1>1, <1>2, <1>3, <1>4, Together DEF KeyEffect

\* A step of a process that changes the display: it is not reading, and the
\* process it may be waiting for, or that waits for it, stays where it is.
LEMMA DisplayStep ==
  ASSUME TerminalInv, Fine(gtty'), SameInput(gtty, gtty'),
         UNCHANGED <<display_type, held, want>>,
         Rest', OneReader',
         \A p \in Procs : pc'[p] = "read" => pc[p] = "read"
  PROVE  TerminalInv'
<1>1. /\ display_type \in Displays
      /\ Fine(gtty) /\ Bounded(gtty) /\ Rest /\ Answered /\ OneReader
  BY Apart
<1>2. Bounded(gtty')
  BY <1>1 DEF Bounded, SameInput, Fine, Shape
<1>3. Answered'
  BY <1>1 DEF Answered, Readable, SameInput
<1>4. QED
  BY <1>1, <1>2, <1>3, Together

\* The shell displays something: nobody reads, and only a prompt asks for
\* input next.
LEMMA ShellDisplay ==
  ASSUME TerminalInv, NEW g, Fine(g), SameInput(gtty, g),
         pc["shell"] \in {"prompt", "parse", "check"},
         NEW then \in {"prompt", "gets", "check", "gone"},
         Display(g, "shell", then)
  PROVE  TerminalInv'
<1>1. Rest /\ OneReader
  BY Apart
<1>2. /\ gtty' = g /\ pc' = [pc EXCEPT !["shell"] = then]
      /\ UNCHANGED <<display_type, held, want>>
  BY DEF Display
<1>3. Rest'
  BY <1>1, <1>2 DEF Rest, SameInput, Procs
<1>4. pc'["shell"] = then /\ pc'["child"] = pc["child"]
  BY <1>1, <1>2 DEF Rest, Procs
<1>5. pc["child"] = "none" /\ gtty.input_buffer_size = 0
  BY <1>1 DEF OneReader, Reads, Procs
<1>6. want["shell"] # 0
  BY <1>1, TerminalAssumption DEF OneReader, TerminalAssumption
<1>7. OneReader'
  BY <1>1, <1>2, <1>4, <1>5, <1>6 DEF OneReader, Reads, Procs, SameInput
<1>8. \A p \in Procs : pc'[p] = "read" => pc[p] = "read"
  BY <1>4 DEF Procs
<1>9. QED
  BY <1>2, <1>3, <1>7, <1>8, DisplayStep

\* A program displays something and goes on.
LEMMA ChildDisplay ==
  ASSUME TerminalInv, NEW g, Fine(g), SameInput(gtty, g), Runs, Display(g, "child", "runs")
  PROVE  TerminalInv'
<1>1. Rest /\ OneReader
  BY Apart
<1>2. /\ gtty' = g /\ UNCHANGED <<display_type, held, want>>
  BY DEF Display
<1>3. pc' = pc
  BY <1>1 DEF Rest, Procs, Display, Runs
<1>4. Rest' /\ OneReader'
  BY <1>1, <1>2, <1>3 DEF Rest, SameInput, OneReader, Reads
<1>5. QED
  BY <1>2, <1>3, <1>4, DisplayStep

LEMMA InitEstablishes ==
  ASSUME Init
  PROVE  TerminalInv
<1>1. /\ display_type \in Displays /\ held = {} /\ gtty = gtty_start
      /\ pc = [shell |-> "prompt", child |-> "none"]
      /\ want = [shell |-> ShellSize, child |-> 0]
  BY DEF Init
<1>2. /\ DOMAIN gtty = Fields
      /\ gtty.main_x = geo.margin_x /\ gtty.main_y = geo.margin_y_top
      /\ gtty.vesa_cursor_status = 0 /\ gtty.cursor = {}
      /\ gtty.input_buffer_index = 0 /\ gtty.input_buffer_size = 0
      /\ gtty.input_buffer_flag = 0 /\ gtty.gtty_echo = 1 /\ gtty.display_mode = "TXT"
  BY <1>1 DEF gtty_start, Fields
<1>3. /\ pc["shell"] = "prompt" /\ pc["child"] = "none"
      /\ want["shell"] = ShellSize /\ want["child"] = 0
      /\ pc \in [Procs -> {"prompt", "none"}]
      /\ want \in [Procs -> {0, ShellSize} \cup ChildSizes]
  BY <1>1 DEF Procs
<1>4. TypeOK
  BY <1>1, <1>2, <1>3, GeometryFacts DEF TypeOK, Procs
<1>5. CursorOnScreen /\ Aligned
  BY <1>1, <1>2, GeometryFacts DEF CursorOnScreen, Aligned
<1>6. NoCursorLeftBehind
  BY <1>2 DEF NoCursorLeftBehind
<1>7. ReadSucceeds /\ IndexBounded /\ OneReader
  BY <1>2, <1>3 DEF ReadSucceeds, IndexBounded, OneReader, Reads, Procs
<1>8. QED
  BY <1>4, <1>5, <1>6, <1>7 DEF TerminalInv

\* A key: the flags stay flags, and the listener of the gtty is served.
LEMMA KeyKeeps ==
  ASSUME TerminalInv, NEW k \in Keys, parse_scancode(k)
  PROVE  TerminalInv'
<1>1. /\ display_type \in Displays /\ Fine(gtty) /\ Bounded(gtty) /\ Rest
  BY Apart
<1>2. held' \subseteq Modifiers
  BY <1>1 DEF parse_scancode, Flags, Modifiers, Rest
<1>3. KeyEffect(gtty, gtty')
  <2>1. KeyEffect(gtty, gtty)
    BY <1>1 DEF KeyEffect
  <2>2. gtty' = gtty \/ \E c : gtty' = gtty_keyboard_listener(gtty, c)
    BY Zenon DEF parse_scancode
  <2>3. QED
    BY <1>1, <2>1, <2>2, ListenerEffect
<1>4. QED
  BY <1>2, <1>3, QuietStep DEF parse_scancode

LEMMA BlinkKeeps ==
  ASSUME TerminalInv, blink
  PROVE  TerminalInv'
<1>1. /\ display_type \in Displays /\ Fine(gtty) /\ Bounded(gtty) /\ Rest
  BY Apart
<1>2. Fine(gtty') /\ SameInput(gtty, gtty')
  BY <1>1, BlinkEffect DEF blink
<1>3. KeyEffect(gtty, gtty')
  BY <1>1, <1>2 DEF KeyEffect, SameInput, Bounded, Fine, Shape
<1>4. QED
  BY <1>1, <1>3, QuietStep DEF blink, Rest

\* A poll: the request that is set is the reader's own, so a flag it finds is
\* the end of its own line.
LEMMA PollKeeps ==
  ASSUME TerminalInv, NEW p \in Procs, Poll(p)
  PROVE  TerminalInv'
<1> DEFINE n == want[p]
<1>1. /\ display_type \in Displays
      /\ Fine(gtty) /\ Bounded(gtty) /\ Rest /\ Answered /\ OneReader
  BY Apart
<1>2. /\ pc[p] = "gets" /\ gtty' = InputReady(gtty, n)
      /\ pc' = [pc EXCEPT ![p] = IF gtty'.input_buffer_flag = 0 THEN "gets" ELSE "read"]
      /\ UNCHANGED <<display_type, held, want>>
  BY DEF Poll
<1>3. n \in Nat /\ n \in {0, ShellSize} \cup ChildSizes
  BY <1>1, Sizes DEF Rest
<1>4. n # 0 /\ gtty.input_buffer_size \in {0, n}
  BY <1>1, <1>2 DEF OneReader, Reads
<1> HIDE DEF n
<1>5. /\ Fine(gtty') /\ Bounded(gtty')
      /\ IF gtty.input_buffer_size = 0
         THEN gtty'.input_buffer_size = n /\ gtty'.input_buffer_flag = 0
         ELSE gtty' = gtty
  BY <1>1, <1>2, <1>3, InputReadyEffect
<1>6. gtty'.input_buffer_size = n
  BY <1>4, <1>5
<1>7. gtty'.input_buffer_flag \in {0, 1}
  BY <1>5 DEF Fine, Shape
<1>8. /\ pc' \in [Procs -> {"prompt", "gets", "read", "parse", "wait", "check", "gone", "none", "runs"}]
      /\ pc'[p] \in {"gets", "read"} /\ pc'[p] = "read" => gtty'.input_buffer_flag = 1
      /\ \A q \in Procs : q # p => pc'[q] = pc[q]
  BY <1>1, <1>2, <1>7 DEF Rest
<1>9. \A q \in Procs : q # p => ~Reads(q)
  BY <1>1, <1>2 DEF OneReader, Reads, Procs
<1>10. Rest'
  BY <1>1, <1>2, <1>3, <1>6, <1>8 DEF Rest
<1>11. Answered'
  BY <1>2, <1>6, <1>8, <1>9 DEF Answered, Readable, Reads, n
<1>12. OneReader'
  <2>1. pc'["child"] # "none" => pc'["shell"] = "wait"
    BY <1>1, <1>2, <1>8 DEF OneReader, Procs
  <2>2. \A q \in Procs : Reads(q)' => want'[q] # 0 /\ gtty'.input_buffer_size \in {0, want'[q]}
    BY <1>2, <1>4, <1>6, <1>8, <1>9 DEF Reads, n
  <2>3. QED
    BY <1>1, <1>2, <1>8, <2>1, <2>2 DEF OneReader, Reads
<1>13. QED
  BY <1>1, <1>2, <1>5, <1>10, <1>11, <1>12, Together

\* A read: it succeeds, and the next request starts afresh.
LEMMA ReadKeeps ==
  ASSUME TerminalInv, NEW p \in Procs, NEW then, Read(p, then),
         <<p, then>> \in {<<"shell", "parse">>, <<"child", "runs">>}
  PROVE  TerminalInv'
<1>1. /\ display_type \in Displays
      /\ Fine(gtty) /\ Bounded(gtty) /\ Rest /\ Answered /\ OneReader
  BY Apart
<1>2. /\ pc[p] = "read" /\ gtty' = gtty_dev_read(gtty, want[p])
      /\ pc' = [pc EXCEPT ![p] = then]
      /\ UNCHANGED <<display_type, held, want>>
  BY DEF Read
<1>3. then \in {"parse", "runs"}
  OBVIOUS
<1>4. Readable(gtty, want[p])
  BY <1>1, <1>2 DEF Answered
<1>5. Fine(gtty') /\ Bounded(gtty') /\ gtty'.input_buffer_size = 0
  BY <1>1, <1>2, <1>4, ReadEffect
<1>6. /\ pc' \in [Procs -> {"prompt", "gets", "read", "parse", "wait", "check", "gone", "none", "runs"}]
      /\ pc'[p] = then
      /\ \A q \in Procs : q # p => pc'[q] = pc[q]
  BY <1>1, <1>2, <1>3 DEF Rest
<1>7. \A q \in Procs : q # p => ~Reads(q)
  BY <1>1, <1>2 DEF OneReader, Reads, Procs
<1>8. Rest'
  BY <1>1, <1>2, <1>5, <1>6 DEF Rest
<1>9. \A q \in Procs : ~Reads(q)'
  BY <1>3, <1>6, <1>7 DEF Reads
<1>10. Answered'
  BY <1>9 DEF Answered, Reads
<1>11. pc'["child"] # "none" => pc'["shell"] = "wait"
  BY <1>1, <1>2, <1>6 DEF OneReader, Procs
<1>12. OneReader'
  BY <1>1, <1>2, <1>5, <1>9, <1>11 DEF OneReader
<1>13. QED
  BY <1>1, <1>2, <1>5, <1>8, <1>10, <1>12, Together

\* Steps of a process that leave the gtty alone.
LEMMA SilentStep ==
  ASSUME TerminalInv, UNCHANGED <<display_type, held, gtty>>, Rest', OneReader', Answered'
  PROVE  TerminalInv'
BY Apart, Together

LEMMA ShellKeeps ==
  ASSUME TerminalInv, Shell
  PROVE  TerminalInv'
<1>1. /\ display_type \in Displays /\ Fine(gtty) /\ Rest /\ Answered /\ OneReader
  BY Apart
<1>2. ASSUME NEW g, Fine(g), NEW c
      PROVE  Fine(gtty_dev_write(g, c)) /\ SameInput(g, gtty_dev_write(g, c))
  BY <1>1, <1>2, WriteEffect
<1>3. Fine(shell_reset(gtty)) /\ SameInput(gtty, shell_reset(gtty))
  BY <1>1, ResetEffect
<1>4. ASSUME shell_prompt PROVE TerminalInv'
  <2> DEFINE h == gtty_dev_write(gtty, "nl")
             g == gtty_dev_write(h, ">")
  <2>1. pc["shell"] = "prompt" /\ Display(g, "shell", "gets")
    BY <1>4 DEF shell_prompt
  <2>2. Fine(h) /\ SameInput(gtty, h)
    BY <1>1, <1>2
  <2> HIDE DEF h
  <2>3. Fine(g) /\ SameInput(h, g)
    BY <1>2, <2>2
  <2> HIDE DEF g
  <2>4. SameInput(gtty, g)
    BY <1>1, <2>2, <2>3 DEF SameInput, Fine, Shape
  <2>5. QED
    BY <2>1, <2>3, <2>4, ShellDisplay
<1>5. ASSUME shell_help \/ shell_exit PROVE TerminalInv'
  BY <1>1, <1>2, <1>5, ShellDisplay DEF shell_help, shell_exit
<1>6. ASSUME shell_clear PROVE TerminalInv'
  <2> DEFINE h == shell_reset(gtty)
             g == gtty_dev_write(h, "nl")
  <2>1. pc["shell"] = "parse" /\ Display(g, "shell", "check")
    BY <1>6 DEF shell_clear
  <2> HIDE DEF g
  <2>2. Fine(g) /\ SameInput(h, g)
    BY <1>2, <1>3 DEF g
  <2>3. SameInput(gtty, g)
    BY <1>1, <1>3, <2>2 DEF SameInput, Fine, Shape
  <2>4. QED
    BY <2>1, <2>2, <2>3, ShellDisplay
<1>7. ASSUME shell_check PROVE TerminalInv'
  <2>1. SameInput(gtty, gtty)
    BY <1>1 DEF SameInput, Fine, Shape
  <2>2. QED
    BY <1>1, <1>3, <1>7, <2>1, ShellDisplay DEF shell_check
<1>8. ASSUME shell_run PROVE TerminalInv'
  <2>1. /\ pc["shell"] = "parse" /\ gtty' = gtty_dev_write(gtty, "nl")
        /\ pc' = [pc EXCEPT !["shell"] = "wait", !["child"] = "runs"]
        /\ UNCHANGED <<display_type, held, want>>
    BY <1>8 DEF shell_run
  <2>2. Fine(gtty') /\ SameInput(gtty, gtty')
    BY <1>1, <1>2, <2>1
  <2>3. /\ pc' \in [Procs -> {"prompt", "gets", "read", "parse", "wait", "check", "gone", "none", "runs"}]
        /\ pc'["shell"] = "wait" /\ pc'["child"] = "runs"
    BY <1>1, <2>1 DEF Rest, Procs
  <2>4. gtty.input_buffer_size = 0
    BY <1>1, <2>1 DEF OneReader, Reads, Procs
  <2>5. Rest'
    BY <1>1, <2>1, <2>2, <2>3 DEF Rest, SameInput
  <2>6. \A p \in Procs : pc'[p] \notin {"gets", "read"}
    BY <2>3 DEF Procs
  <2>7. OneReader'
    BY <1>1, <2>1, <2>2, <2>3, <2>4, <2>6 DEF OneReader, Reads, SameInput
  <2>8. QED
    BY <2>1, <2>2, <2>5, <2>6, <2>7, DisplayStep
<1>9. ASSUME shell_waitpid PROVE TerminalInv'
  <2>1. /\ pc["shell"] = "wait" /\ pc["child"] = "none"
        /\ pc' = [pc EXCEPT !["shell"] = "check"]
        /\ UNCHANGED <<display_type, held, gtty, want>>
    BY <1>9 DEF shell_waitpid
  <2>2. /\ pc' \in [Procs -> {"prompt", "gets", "read", "parse", "wait", "check", "gone", "none", "runs"}]
        /\ pc'["shell"] = "check" /\ pc'["child"] = "none"
    BY <1>1, <2>1 DEF Rest, Procs
  <2>3. Rest'
    BY <1>1, <2>1, <2>2 DEF Rest
  <2>4. OneReader' /\ Answered'
    BY <1>1, <2>1, <2>2 DEF OneReader, Reads, Procs, Answered
  <2>5. QED
    BY <2>1, <2>3, <2>4, SilentStep
<1>10. ASSUME Poll("shell") \/ Read("shell", "parse") PROVE TerminalInv'
  BY <1>10, PollKeeps, ReadKeeps DEF Procs
<1>11. QED
  BY <1>4, <1>5, <1>6, <1>7, <1>8, <1>9, <1>10 DEF Shell

LEMMA ChildKeeps ==
  ASSUME TerminalInv, Child
  PROVE  TerminalInv'
<1>1. /\ display_type \in Displays /\ Fine(gtty) /\ Rest /\ Answered /\ OneReader
  BY Apart
<1>2. ASSUME NEW n \in ChildSizes, child_gets(n) PROVE TerminalInv'
  <2>1. /\ pc["child"] = "runs" /\ pc' = [pc EXCEPT !["child"] = "gets"]
        /\ want' = [want EXCEPT !["child"] = n]
        /\ UNCHANGED <<display_type, held, gtty>>
    BY <1>2 DEF child_gets, Runs
  <2>2. n # 0
    BY TerminalAssumption DEF TerminalAssumption
  <2>3. /\ pc' \in [Procs -> {"prompt", "gets", "read", "parse", "wait", "check", "gone", "none", "runs"}]
        /\ want' \in [Procs -> {0, ShellSize} \cup ChildSizes]
        /\ pc'["shell"] = pc["shell"] /\ pc'["child"] = "gets"
        /\ want'["shell"] = want["shell"] /\ want'["child"] = n
    BY <1>1, <2>1 DEF Rest, Procs
  <2>4. pc["shell"] = "wait" /\ gtty.input_buffer_size = 0
    BY <1>1, <2>1 DEF OneReader, Reads, Procs
  <2>5. Rest'
    BY <1>1, <2>1, <2>3 DEF Rest
  <2>6. OneReader' /\ Answered'
    BY <1>1, <2>1, <2>2, <2>3, <2>4 DEF OneReader, Reads, Procs, Answered
  <2>7. QED
    BY <2>1, <2>5, <2>6, SilentStep
<1>3. ASSUME NEW c \in Text, child_write(c) PROVE TerminalInv'
  BY <1>1, <1>3, WriteEffect, ChildDisplay DEF child_write
<1>4. ASSUME NEW m \in {"PX", "TXT"}, child_mode(m) PROVE TerminalInv'
  <2>1. Fine(SetMode(gtty, m)) /\ SameInput(gtty, SetMode(gtty, m))
    BY <1>1, ModeEffect
  <2>2. QED
    BY <1>4, <2>1, ChildDisplay DEF child_mode
<1>5. ASSUME NEW e \in {0, 1}, child_echo(e) PROVE TerminalInv'
  <2> DEFINE g == [gtty EXCEPT !.gtty_echo = e]
  <2>1. Fine(g) /\ SameInput(gtty, g)
    BY <1>1, ModeEffect
  <2>2. Runs /\ Display(g, "child", "runs")
    BY <1>5 DEF child_echo
  <2> HIDE DEF g
  <2>3. QED
    BY <2>1, <2>2, ChildDisplay
<1>6. ASSUME child_image \/ child_clear PROVE TerminalInv'
  BY <1>1, <1>6, ClearEffect, ChildDisplay DEF child_image, child_clear
<1>7. ASSUME child_exit PROVE TerminalInv'
  <2>1. /\ pc["child"] = "runs" /\ pc' = [pc EXCEPT !["child"] = "none"]
        /\ UNCHANGED <<display_type, held, gtty, want>>
    BY <1>7 DEF child_exit, Runs
  <2>2. /\ pc' \in [Procs -> {"prompt", "gets", "read", "parse", "wait", "check", "gone", "none", "runs"}]
        /\ pc'["shell"] = pc["shell"] /\ pc'["child"] = "none"
    BY <1>1, <2>1 DEF Rest, Procs
  <2>3. pc["shell"] = "wait"
    BY <1>1, <2>1 DEF OneReader
  <2>4. Rest'
    BY <1>1, <2>1, <2>2 DEF Rest
  <2>5. OneReader' /\ Answered'
    BY <1>1, <2>1, <2>2, <2>3 DEF OneReader, Reads, Procs, Answered
  <2>6. QED
    BY <2>1, <2>4, <2>5, SilentStep
<1>8. ASSUME Poll("child") \/ Read("child", "runs") PROVE TerminalInv'
  BY <1>8, PollKeeps, ReadKeeps DEF Procs
<1>9. QED
  BY <1>2, <1>3, <1>4, <1>5, <1>6, <1>7, <1>8 DEF Child

LEMMA NextKeeps ==
  ASSUME TerminalInv, [Next]_vars
  PROVE  TerminalInv'
<1>1. CASE Next
  BY <1>1, ShellKeeps, ChildKeeps, BlinkKeeps, KeyKeeps DEF Next
<1>2. CASE UNCHANGED vars
  <2>1. /\ display_type \in Displays
        /\ Fine(gtty) /\ Bounded(gtty) /\ Rest /\ Answered /\ OneReader
    BY Apart
  <2>2. UNCHANGED <<display_type, held, gtty, pc, want>>
    BY <1>2 DEF vars
  <2>3. Rest' /\ OneReader' /\ Answered'
    BY <2>1, <2>2 DEF Rest, OneReader, Reads, Answered, Readable
  <2>4. QED
    BY <2>2, <2>3, SilentStep
<1>3. QED
  BY <1>1, <1>2

\* The invariant holds on every display that has room for a character, for
\* every set of keys and every size of request, in every interleaving of keys,
\* cursor blinks, the shell and its program.
THEOREM TerminalInvariant == Spec => []TerminalInv
<1>1. Init => TerminalInv
  BY InitEstablishes
<1>2. TerminalInv /\ [Next]_vars => TerminalInv'
  BY NextKeeps
<1>3. QED
  BY <1>1, <1>2, PTL DEF Spec

\* The cursor of gtty.c never leaves the screen: not after a backspace at the
\* left border, a tab across the right one or a newline in the last line.
THEOREM CursorStaysOnScreen == Spec => []CursorOnScreen
<1>1. TerminalInv => CursorOnScreen
  BY DEF TerminalInv
<1>2. QED
  BY <1>1, TerminalInvariant, PTL

\* Writes and the timer take turns at the VESA cursor, and none stays behind.
THEOREM CursorErased == Spec => []NoCursorLeftBehind
<1>1. TerminalInv => NoCursorLeftBehind
  BY DEF TerminalInv
<1>2. QED
  BY <1>1, TerminalInvariant, PTL

\* A read after a successful poll finds its own line, of the size it asked
\* for, whatever was typed and whoever read before.
THEOREM ReadsSucceed == Spec => []ReadSucceeds
<1>1. TerminalInv => ReadSucceeds
  BY DEF TerminalInv
<1>2. QED
  BY <1>1, TerminalInvariant, PTL

-----------------------------------------------------------------------------
(* The echo.  The cells before the cursor, counted backwards, show the end *)
(* of the line that was typed.  On VGA they go on at the end of the line   *)
(* above.                                                                  *)

LEMMA Division ==
  ASSUME NEW a \in Int, NEW w \in Nat, w >= 1
  PROVE  /\ a \div w \in Int /\ a % w \in 0..(w - 1)
         /\ a = w * (a \div w) + (a % w)
OBVIOUS

LEMMA SmallMultiple ==
  ASSUME NEW d \in Int, NEW w \in Nat, w * d < w, 0 - w < w * d
  PROVE  d = 0
OBVIOUS

LEMMA DivisionUnique ==
  ASSUME NEW a \in Int, NEW w \in Nat, w >= 1,
         NEW q \in Int, NEW r \in 0..(w - 1), a = w * q + r
  PROVE  a \div w = q /\ a % w = r
<1> DEFINE e == a \div w
           f == a % w
           d == e - q
<1>1. e \in Int /\ f \in 0..(w - 1) /\ a = w * e + f
  BY Division
<1> HIDE DEF e, f
<1>2. ASSUME NEW u \in Int, NEW v \in Int PROVE w * (u - v) = w * u - w * v
  OBVIOUS
<1>3. w * e \in Int /\ w * q \in Int /\ w * d = w * e - w * q
  BY <1>1, <1>2
<1>4. w * d = r - f
  BY <1>1, <1>2, <1>3
<1>5. d \in Int
  BY <1>1
<1> HIDE DEF d
<1>6. d = 0
  BY <1>1, <1>4, <1>5, SmallMultiple
<1>7. e = q /\ f = r
  BY <1>1, <1>6, <1>3 DEF d
<1>8. QED
  BY <1>7 DEF e, f

\* The line above is one width away.
LEMMA NextLine ==
  ASSUME NEW a \in Int, NEW w \in Nat, w >= 1
  PROVE  (a + w) % w = a % w /\ (a + w) \div w = (a \div w) + 1
<1> DEFINE e == a \div w
           f == a % w
<1>1. e \in Int /\ f \in 0..(w - 1) /\ a = w * e + f
  BY Division
<1> HIDE DEF e, f
<1>2. w * (e + 1) = w * e + w /\ w * e \in Int
  BY <1>1
<1>3. a + w = w * (e + 1) + f
  BY <1>1, <1>2
<1>4. a + w \in Int /\ e + 1 \in Int
  BY <1>1
<1>5. (a + w) \div w = e + 1 /\ (a + w) % w = f
  BY <1>1, <1>3, <1>4, DivisionUnique
<1>6. QED
  BY <1>5 DEF e, f

\* A column is in its own line, and what is before the first is above it.
LEMMA OwnLine ==
  ASSUME NEW x \in Int, NEW w \in Nat, 0 <= x, x < w
  PROVE  x % w = x /\ x \div w = 0
<1>1. x = w * 0 + x
  OBVIOUS
<1>2. QED
  BY <1>1, DivisionUnique

LEMMA LineAbove ==
  ASSUME NEW a \in Int, NEW w \in Nat, w >= 1, a < 0
  PROVE  a \div w < 0
<1> DEFINE e == a \div w
           f == a % w
<1>1. e \in Int /\ f \in 0..(w - 1) /\ a = w * e + f
  BY Division
<1> HIDE DEF e, f
<1>2. ASSUME e >= 0 PROVE FALSE
  <2>1. w * e >= 0 /\ w * e \in Int
    BY <1>1, <1>2
  <2>2. QED
    BY <1>1, <2>1
<1>3. QED
  BY <1>1, <1>2 DEF e

Sheet(g) == DOMAIN g.screen \subseteq Int \X Int

\* What a cell shows once a character was drawn in it.
Ink(c) == IF c \in Blank THEN "sp" ELSE c

DrawnIn(g, h, x, y, c) ==
    /\ Sheet(h)
    /\ \A p : Shown(h, p) = IF p = <<x, y>> THEN Ink(c) ELSE Shown(g, p)

LEMMA DrawnShows ==
  ASSUME NEW g, NEW h, NEW x \in Int, NEW y \in Int, NEW c,
         Sheet(g), h.screen = Drawn(g.screen, x, y, c)
  PROVE  DrawnIn(g, h, x, y, c)
<1>1. CASE c \in Blank
  <2>1. h.screen = [p \in DOMAIN g.screen \ {<<x, y>>} |-> g.screen[p]]
    BY <1>1 DEF Drawn, Restrict
  <2>2. QED
    BY <1>1, <2>1 DEF Sheet, Shown, Ink, DrawnIn
<1>2. CASE c \notin Blank
  <2>1. h.screen = [p \in DOMAIN g.screen \cup {<<x, y>>} |-> IF p = <<x, y>> THEN c ELSE g.screen[p]]
    BY <1>2 DEF Drawn
  <2>2. QED
    BY <1>2, <2>1 DEF Sheet, Shown, Ink, DrawnIn
<1>3. QED
  BY <1>1, <1>2

\* A scroll shows every cell one line higher.
LEMMA ScrolledShows ==
  ASSUME display_type \in Displays, NEW g, NEW h, Sheet(g), h.screen = Scrolled(g.screen)
  PROVE  /\ Sheet(h)
         /\ \A x, y \in Int :
               y >= geo.margin_y_top + geo.line_height =>
                   Shown(h, <<x, y - geo.line_height>>) = Shown(g, <<x, y>>)
<1> DEFINE l == geo.line_height
           m == geo.margin_y_top
           R == {r \in DOMAIN g.screen : r[2] >= m + l}
           D == {<<q[1], q[2] - l>> : q \in R}
<1>0. l \in Nat /\ m \in Nat
  BY GeometryFacts
<1>1. h.screen = [p \in D |-> g.screen[<<p[1], p[2] + l>>]]
  BY DEF Scrolled
<1> HIDE DEF l, m
<1>2. R \subseteq Int \X Int
  BY DEF Sheet
<1>3. Sheet(h)
  <2>1. ASSUME NEW q \in R PROVE <<q[1], q[2] - l>> \in Int \X Int
    BY <1>0, <1>2
  <2>2. QED
    BY <1>1, <2>1 DEF Sheet
<1>4. ASSUME NEW x \in Int, NEW y \in Int, y >= m + l
      PROVE  Shown(h, <<x, y - l>>) = Shown(g, <<x, y>>)
  <2>1. <<x, y - l>> \in D <=> <<x, y>> \in DOMAIN g.screen
    <3>1. ASSUME <<x, y>> \in DOMAIN g.screen PROVE <<x, y - l>> \in D
      BY <1>4, <3>1
    <3>2. ASSUME NEW q \in R, <<x, y - l>> = <<q[1], q[2] - l>> PROVE <<x, y>> \in DOMAIN g.screen
      <4>1. q \in Int \X Int /\ q \in DOMAIN g.screen
        BY <1>2
      <4>2. q[1] = x /\ q[2] = y
        BY <1>0, <3>2, <4>1
      <4>3. q = <<x, y>>
        BY <4>1, <4>2
      <4>4. QED
        BY <4>1, <4>3
    <3>3. QED
      BY <3>1, <3>2
  <2>2. <<x, y - l>>[1] = x /\ <<x, y - l>>[2] + l = y
    BY <1>0
  <2> HIDE DEF D
  <2>3. <<x, y - l>> \in D => h.screen[<<x, y - l>>] = g.screen[<<x, y>>]
    BY <1>1, <2>2
  <2>4. DOMAIN h.screen = D
    BY <1>1
  <2>5. QED
    BY <2>1, <2>3, <2>4 DEF Shown
<1>5. QED
  BY <1>3, <1>4 DEF l, m

\* The cells before the cursor, on either display.
LEMMA PlaceVga ==
  ASSUME display_type = "vga", display_type \in Displays, NEW g, Shape(g), NEW k \in Int
  PROVE  Place(g, k) = <<(g.main_x - k) % buffer_width, g.main_y + ((g.main_x - k) \div buffer_width)>>
<1>1. k * geo.line_width = k
  BY GeometryVga
<1>2. QED
  BY <1>1 DEF Place

LEMMA PlaceVesa ==
  ASSUME display_type = "vesa", display_type \in Displays, NEW g, Shape(g), NEW k \in Int
  PROVE  Place(g, k) = <<g.main_x - 8 * k, g.main_y>>
<1>1. k * geo.line_width = 8 * k
  BY GeometryVesa
<1>2. QED
  BY <1>1 DEF Place

\* From i cells before the cursor of g on, h shows the same from j cells
\* before its own, unless it scrolled out of sight.
Follows(g, h, i, j) ==
    \A k \in Nat : k >= 1 /\ InText(Place(h, k + j)) =>
        /\ InText(Place(g, k + i))
        /\ Shown(h, Place(h, k + j)) = Shown(g, Place(g, k + i))

\* What a step leaves alone that only draws or moves the cursor.
Kept(g, h) ==
    /\ h.input_buffer = g.input_buffer
    /\ h.input_buffer_index = g.input_buffer_index
    /\ h.input_buffer_size = g.input_buffer_size
    /\ h.input_buffer_flag = g.input_buffer_flag
    /\ h.gtty_echo = g.gtty_echo
    /\ h.display_mode = g.display_mode

LEMMA CursorOffKeeps ==
  ASSUME NEW g, Shape(g)
  PROVE  Kept(g, CursorOff(g)) /\ CursorOff(g).screen = g.screen
<1>1. CASE display_type = "vga"
  BY <1>1 DEF CursorOff, Kept
<1>2. CASE display_type # "vga"
  <2> DEFINE h == [g EXCEPT !.vesa_cursor_status = 1]
             o == [h EXCEPT !.vesa_cursor_status = 0, !.cursor = @ \ {<<h.main_x, h.main_y>>}]
  <2>1. DOMAIN h = Fields /\ h.vesa_cursor_status = 1 /\ Kept(g, h) /\ h.screen = g.screen
    BY DEF Shape, Fields, Kept
  <2>2. CursorOff(g) = o
    BY <1>2, <2>1 DEF CursorOff, vesa_cursor_handler
  <2> HIDE DEF h
  <2>3. Kept(h, o) /\ o.screen = h.screen
    BY <2>1 DEF Fields, Kept
  <2>4. QED
    BY <2>1, <2>2, <2>3 DEF Kept
<1>3. QED
  BY <1>1, <1>2

\* The end of the loop: the two places it may change, and what it keeps.
LEMMA WrappedKeeps ==
  ASSUME display_type \in Displays, NEW g, Shape(g), g.cursor = {}, Sheet(g), NearScreen(g)
  PROVE  LET w == IF g.main_x > LastX
                  THEN [CursorOff(g) EXCEPT !.main_x = geo.margin_x, !.main_y = @ + geo.line_height]
                  ELSE g
             h == Wrapped(g) IN
         /\ Kept(g, h) /\ Sheet(h)
         /\ Shape(w) /\ Sheet(w) /\ w.screen = g.screen
         /\ IF g.main_x > LastX
            THEN w.main_x = geo.margin_x /\ w.main_y = g.main_y + geo.line_height
            ELSE w = g
         /\ IF w.main_y > LastY
            THEN h.screen = Scrolled(w.screen) /\ h.main_x = w.main_x /\ h.main_y = LastY
            ELSE h = w
<1> DEFINE w == IF g.main_x > LastX
                THEN [CursorOff(g) EXCEPT !.main_x = geo.margin_x, !.main_y = @ + geo.line_height]
                ELSE g
           z == [CursorOff(w) EXCEPT !.screen = Scrolled(@), !.main_y = LastY]
           h == Wrapped(g)
<1>0. CursorHere(g)
  BY DEF CursorHere
<1>1. /\ Kept(g, w) /\ Shape(w) /\ w.screen = g.screen /\ w.cursor = {}
      /\ IF g.main_x > LastX
         THEN w.main_x = geo.margin_x /\ w.main_y = g.main_y + geo.line_height
         ELSE w = g
  <2>1. CASE g.main_x > LastX
    <3> DEFINE o == CursorOff(g)
    <3>1. /\ Shape(o) /\ o.cursor = {} /\ o.main_y = g.main_y
          /\ Kept(g, o) /\ o.screen = g.screen
      BY <1>0, CursorOffEffect, CursorOffKeeps
    <3>2. w = [o EXCEPT !.main_x = geo.margin_x, !.main_y = @ + geo.line_height]
      BY <2>1
    <3> HIDE DEF o, w
    <3>3. geo.margin_x \in Int /\ o.main_y + geo.line_height \in Int
      BY <3>1, GeometryFacts DEF Shape
    <3>4. Shape(w)
      BY <3>1, <3>2, <3>3 DEF Shape, Fields
    <3>5. /\ Kept(o, w) /\ w.screen = o.screen /\ w.cursor = o.cursor
          /\ w.main_x = geo.margin_x /\ w.main_y = o.main_y + geo.line_height
      BY <3>1, <3>2 DEF Shape, Fields, Kept
    <3>6. QED
      BY <2>1, <3>1, <3>4, <3>5 DEF Kept
  <2>2. CASE ~(g.main_x > LastX)
    BY <2>2 DEF Kept
  <2>3. QED
    BY <2>1, <2>2
<1>2. h = IF w.main_y > LastY THEN z ELSE w
  BY DEF Wrapped
<1> HIDE DEF w
<1>3. Sheet(w)
  BY <1>1 DEF Sheet
<1>4. CASE w.main_y > LastY
  <2> DEFINE o == CursorOff(w)
  <2>1. CursorHere(w)
    BY <1>1 DEF CursorHere
  <2>2. /\ Shape(o) /\ o.main_x = w.main_x /\ Kept(w, o) /\ o.screen = w.screen
    BY <1>1, <2>1, CursorOffEffect, CursorOffKeeps
  <2> HIDE DEF o
  <2>3. /\ Kept(o, z) /\ z.screen = Scrolled(o.screen) /\ z.main_x = o.main_x /\ z.main_y = LastY
    BY <2>2 DEF Shape, Fields, Kept, o
  <2> HIDE DEF z
  <2>4. Sheet(z)
    BY <1>3, <2>2, <2>3, ScrolledShows
  <2>5. h = z
    BY <1>2, <1>4
  <2>6. QED
    BY <1>1, <1>3, <1>4, <2>2, <2>3, <2>4, <2>5 DEF Kept, w
<1>5. CASE ~(w.main_y > LastY)
  BY <1>1, <1>2, <1>3, <1>5 DEF w
<1>6. QED
  BY <1>4, <1>5

\* Through a wrap and a scroll the cells before the cursor show what they
\* showed.  A new line on VESA starts at its margin: no cell is before it.
NoneBefore(h) == \A k \in Nat : k >= 1 => ~InText(Place(h, k))

LEMMA VesaMargin ==
  ASSUME display_type = "vesa", display_type \in Displays, NEW h, Shape(h), h.main_x = 8
  PROVE  NoneBefore(h)
<1> SUFFICES ASSUME NEW k \in Nat, k >= 1 PROVE ~InText(Place(h, k))
  BY DEF NoneBefore
<1>1. Place(h, k) = <<8 - 8 * k, h.main_y>>
  BY PlaceVesa
<1>2. geo.margin_x = 8
  BY GeometryVesa
<1>3. QED
  BY <1>1, <1>2 DEF InText

LEMMA WrappedShows ==
  ASSUME display_type \in Displays, NEW g, Shape(g), g.cursor = {}, Sheet(g), NearScreen(g),
         g.main_y <= LastY, display_type = "vga" => g.main_x <= buffer_width
  PROVE  \/ display_type = "vesa" /\ g.main_x > LastX /\ NoneBefore(Wrapped(g))
         \/ Follows(g, Wrapped(g), 0, 0)
<1> DEFINE w == IF g.main_x > LastX
                THEN [CursorOff(g) EXCEPT !.main_x = geo.margin_x, !.main_y = @ + geo.line_height]
                ELSE g
           h == Wrapped(g)
<1>1. /\ Kept(g, h) /\ Sheet(h) /\ Shape(w) /\ Sheet(w) /\ w.screen = g.screen
      /\ IF g.main_x > LastX
         THEN w.main_x = geo.margin_x /\ w.main_y = g.main_y + geo.line_height
         ELSE w = g
      /\ IF w.main_y > LastY
         THEN h.screen = Scrolled(w.screen) /\ h.main_x = w.main_x /\ h.main_y = LastY
         ELSE h = w
  BY WrappedKeeps
<1>2. Shape(h)
  BY WrappedEffect DEF Fine
<1> HIDE DEF w, h
<1>3. LastX \in Int /\ LastY \in Int /\ g.main_x \in Int /\ g.main_y \in Int
  BY GeometryFacts DEF Shape
<1>4. CASE ~(g.main_x > LastX)
  <2>1. h = g
    BY <1>1, <1>3, <1>4
  <2>2. Follows(g, g, 0, 0)
    BY DEF Follows
  <2>3. QED
    BY <2>1, <2>2 DEF h
<1>5. CASE display_type = "vesa" /\ g.main_x > LastX
  <2>1. h.main_x = 8
    BY <1>1, <1>5, GeometryVesa
  <2>2. NoneBefore(h)
    BY <1>2, <1>5, <2>1, VesaMargin
  <2>3. QED
    BY <1>5, <2>2 DEF h
<1>6. CASE display_type = "vga" /\ g.main_x > LastX
  <2> DEFINE b == buffer_width
             q(k) == (0 - k) \div b
             r(k) == (0 - k) % b
             y == g.main_y
  <2>0. /\ b \in Nat /\ b >= 1 /\ LastX = b - 1 /\ geo.margin_x = 0 /\ geo.line_height = 1
        /\ geo.margin_y_top = 0
    BY <1>6, GeometryVga
  <2>1. g.main_x = b
    BY <1>3, <1>6, <2>0
  <2>2. w.main_x = 0 /\ w.main_y = y + 1
    BY <1>1, <1>6, <2>0
  <2>3. ASSUME NEW k \in Nat
        PROVE  /\ q(k) \in Int /\ r(k) \in Int
               /\ Place(w, k) = <<r(k), y + 1 + q(k)>> /\ Place(g, k) = <<r(k), y + 1 + q(k)>>
               /\ h.main_y = y => Place(h, k) = <<r(k), y + q(k)>>
    <3>1. q(k) \in Int /\ r(k) \in Int
      BY <2>0, Division
    <3>2. /\ Place(w, k) = <<r(k), (y + 1) + q(k)>>
      BY <1>1, <1>6, <2>2, PlaceVga
    <3>3. (b - k) % b = r(k) /\ (b - k) \div b = q(k) + 1
      <4>1. (0 - k) + b = b - k /\ 0 - k \in Int
        BY <2>0
      <4>2. QED
        BY <2>0, <4>1, NextLine
    <3>4. Place(g, k) = <<(b - k) % b, y + ((b - k) \div b)>>
      BY <1>6, <2>1, PlaceVga
    <3>5. h.main_x = 0
      BY <1>1, <2>2
    <3>6. ASSUME h.main_y = y PROVE Place(h, k) = <<r(k), y + q(k)>>
      BY <1>2, <1>6, <3>5, <3>6, PlaceVga
    <3> HIDE DEF q, r
    <3>7. y + (q(k) + 1) = y + 1 + q(k)
      BY <1>3, <3>1
    <3>8. QED
      BY <3>1, <3>2, <3>3, <3>4, <3>6, <3>7
  <2>4. CASE ~(w.main_y > LastY)
    <3>1. h = w
      BY <1>1, <2>4
    <3>2. ASSUME NEW k \in Nat PROVE Place(h, k) = Place(g, k)
      BY <2>3, <3>1
    <3>3. ASSUME NEW p PROVE Shown(h, p) = Shown(g, p)
      BY <1>1, <3>1 DEF Shown
    <3>4. Follows(g, h, 0, 0)
      BY <3>2, <3>3 DEF Follows
    <3>5. QED
      BY <3>4 DEF h
  <2>5. CASE w.main_y > LastY
    <3>1. h.main_y = y
      BY <1>1, <1>3, <2>2, <2>5
    <3>2. h.screen = Scrolled(w.screen)
      BY <1>1, <2>5
    <3>3. ASSUME NEW k \in Nat, k >= 1, InText(Place(h, k))
          PROVE  InText(Place(g, k)) /\ Shown(h, Place(h, k)) = Shown(g, Place(g, k))
      <4> DEFINE c == y + 1 + q(k)
      <4>1. /\ q(k) \in Int /\ r(k) \in Int /\ Place(g, k) = <<r(k), c>>
            /\ Place(h, k) = <<r(k), y + q(k)>>
        BY <2>3, <3>1, <3>3
      <4> HIDE DEF q, r
      <4>2. y + q(k) >= 0 /\ r(k) >= 0
        BY <2>0, <3>3, <4>1 DEF InText
      <4>3. c \in Int /\ c >= 1 /\ y + q(k) = c - 1
        BY <1>3, <4>1, <4>2
      <4> HIDE DEF c
      <4>4. Shown(h, <<r(k), c - 1>>) = Shown(w, <<r(k), c>>)
        BY <1>1, <2>0, <3>2, <4>1, <4>3, ScrolledShows
      <4>5. Shown(w, <<r(k), c>>) = Shown(g, <<r(k), c>>)
        BY <1>1 DEF Shown
      <4>6. InText(Place(g, k))
        BY <2>0, <4>1, <4>2, <4>3 DEF InText
      <4>7. QED
        BY <4>1, <4>3, <4>4, <4>5, <4>6
    <3>4. \A k \in Nat : k + 0 = k
      OBVIOUS
    <3>5. Follows(g, h, 0, 0)
      BY <3>3, <3>4 DEF Follows
    <3>6. QED
      BY <3>5 DEF h
  <2>6. QED
    BY <2>4, <2>5
<1>7. QED
  BY <1>4, <1>5, <1>6, GeometryFacts

\* The cursor itself is not one of the cells before it.
LEMMA NotHere ==
  ASSUME display_type \in Displays, NEW g, Shape(g), NEW k \in Nat, k >= 1,
         display_type = "vga" => g.main_x \in 0..LastX
  PROVE  Place(g, k) # <<g.main_x, g.main_y>>
<1>0. g.main_x \in Int /\ g.main_y \in Int
  BY DEF Shape
<1>1. CASE display_type = "vesa"
  BY <1>0, <1>1, PlaceVesa
<1>2. CASE display_type = "vga"
  <2> DEFINE a == g.main_x - k
             w == buffer_width
  <2>1. w \in Nat /\ w >= 1 /\ a \in Int
    BY <1>0, <1>2, GeometryVga
  <2>2. Place(g, k) = <<a % w, g.main_y + (a \div w)>>
    BY <1>2, PlaceVga
  <2>3. a \div w \in Int /\ a % w \in Int /\ a = w * (a \div w) + (a % w)
    <3> HIDE DEF a, w
    <3>1. QED
      BY <2>1, Division
  <2>4. ASSUME a % w = g.main_x, g.main_y + (a \div w) = g.main_y PROVE FALSE
    <3>1. a \div w = 0
      BY <1>0, <2>3, <2>4
    <3>2. w * (a \div w) = 0
      BY <2>1, <3>1
    <3>3. a = g.main_x
      BY <1>0, <2>3, <2>4, <3>2
    <3>4. QED
      BY <1>0, <3>3
  <2> HIDE DEF a, w
  <2>5. QED
    BY <2>2, <2>4
<1>3. QED
  BY <1>1, <1>2, GeometryFacts

\* A character drawn at the cursor, which moves on, is one cell before it.
LEMMA DrawShows ==
  ASSUME display_type \in Displays, NEW g, NEW h, NEW c, Shape(g), Shape(h), OnScreen(g), Sheet(g),
         h.screen = Drawn(g.screen, g.main_x, g.main_y, c),
         h.main_x = g.main_x + geo.line_width, h.main_y = g.main_y
  PROVE  Sheet(h) /\ Follows(g, h, 0, 1) /\ Shown(h, Place(h, 1)) = Ink(c)
<1> DEFINE x == g.main_x
           y == g.main_y
<1>0. x \in Int /\ y \in Int /\ x \in 0..LastX
  BY DEF Shape, OnScreen
<1>1. /\ Sheet(h)
      /\ \A p : Shown(h, p) = IF p = <<x, y>> THEN Ink(c) ELSE Shown(g, p)
  <2>1. DrawnIn(g, h, x, y, c)
    BY <1>0, DrawnShows
  <2>2. QED
    BY <2>1 DEF DrawnIn
<1>2. /\ Place(h, 1) = <<x, y>>
      /\ \A k \in Nat : Place(h, k + 1) = Place(g, k)
  <2>1. CASE display_type = "vga"
    <3> DEFINE w == buffer_width
    <3>0. w \in Nat /\ LastX = w - 1 /\ h.main_x = x + 1
      BY <2>1, GeometryVga
    <3>1. ASSUME NEW k \in Nat PROVE Place(h, k + 1) = Place(g, k)
      <4>1. h.main_x - (k + 1) = x - k
        BY <1>0, <3>0
      <4>2. Place(h, k + 1) = <<(h.main_x - (k + 1)) % w, h.main_y + ((h.main_x - (k + 1)) \div w)>>
        BY <2>1, PlaceVga
      <4>3. Place(g, k) = <<(x - k) % w, y + ((x - k) \div w)>>
        BY <2>1, PlaceVga
      <4>4. QED
        BY <4>1, <4>2, <4>3
    <3>2. Place(h, 1) = <<(h.main_x - 1) % w, h.main_y + ((h.main_x - 1) \div w)>>
      BY <2>1, PlaceVga
    <3>3. h.main_x - 1 = x
      BY <1>0, <3>0
    <3>4. x % w = x /\ x \div w = 0
      BY <1>0, <3>0, OwnLine
    <3>5. y + 0 = y
      BY <1>0
    <3>6. QED
      BY <3>1, <3>2, <3>3, <3>4, <3>5
  <2>2. CASE display_type = "vesa"
    <3>0. h.main_x = x + 8
      BY <2>2, GeometryVesa
    <3>1. ASSUME NEW k \in Nat PROVE Place(h, k + 1) = Place(g, k)
      <4>1. Place(h, k + 1) = <<h.main_x - 8 * (k + 1), y>> /\ Place(g, k) = <<x - 8 * k, y>>
        BY <2>2, PlaceVesa
      <4>2. h.main_x - 8 * (k + 1) = x - 8 * k
        BY <1>0, <3>0
      <4>3. QED
        BY <4>1, <4>2
    <3>2. Place(h, 1) = <<h.main_x - 8 * 1, y>>
      BY <2>2, PlaceVesa
    <3>3. h.main_x - 8 * 1 = x
      BY <1>0, <3>0
    <3>4. QED
      BY <3>1, <3>2, <3>3
  <2>3. QED
    BY <2>1, <2>2, GeometryFacts
<1>3. ASSUME NEW k \in Nat, k >= 1 PROVE Shown(h, Place(g, k)) = Shown(g, Place(g, k))
  BY <1>0, <1>1, <1>3, NotHere
<1>4. Follows(g, h, 0, 1)
  <2>1. \A k \in Nat : k + 0 = k
    OBVIOUS
  <2>2. QED
    BY <1>2, <1>3, <2>1 DEF Follows
<1>5. QED
  BY <1>1, <1>2, <1>4

\* A backspace takes the last cell away, also across the border of a VGA; on
\* VESA it does so within the line.
LEMMA BackShows ==
  ASSUME display_type \in Displays, NEW g, Shape(g), OnScreen(g), Sheet(g),
         g.input_buffer_index >= 1
  PROVE  LET b == Backspace(g)
             i == g.input_buffer_index - 1 IN
         /\ Sheet(b)
         /\ (display_type = "vesa" /\ b.main_x > LastX) \/ Follows(g, b, 1, 0)
         /\ b.input_buffer = Written(g.input_buffer, i, "nul")
         /\ b.input_buffer_index = i /\ b.input_buffer_size = g.input_buffer_size
         /\ b.gtty_echo = g.gtty_echo /\ b.display_mode = g.display_mode
         /\ b.main_y <= LastY /\ (display_type = "vga" => b.main_x <= buffer_width)
<1> DEFINE X == IF g.main_x > 0 THEN g.main_x - geo.line_width
                ELSE IF g.main_y > 0 THEN buffer_width - geo.line_width ELSE g.main_x
           Y == IF g.main_x <= 0 /\ g.main_y > 0 THEN g.main_y - geo.line_height ELSE g.main_y
           i == g.input_buffer_index - 1
           b == Backspace(g)
<1>0. /\ g.main_x \in Int /\ g.main_y \in Int /\ g.input_buffer_index \in Nat
      /\ g.main_x \in 0..LastX /\ g.main_y \in geo.margin_y_top..LastY
  BY DEF Shape, OnScreen
<1>1. b = [g EXCEPT !.input_buffer_index = i, !.input_buffer = Written(@, i, "nul"),
                    !.main_x = X, !.main_y = Y, !.screen = Drawn(@, X, Y, "sp")]
  BY <1>0 DEF Backspace
<1>2. X \in Int /\ Y \in Int /\ Y <= LastY
  BY <1>0, GeometryFacts
<1>3. i \in Nat
  BY <1>0
<1>4. CASE display_type = "vga"
  <2> DEFINE w == buffer_width
  <2>0. /\ w \in Nat /\ w >= 1 /\ LastX = w - 1 /\ geo.line_width = 1 /\ geo.line_height = 1
        /\ geo.margin_x = 0 /\ geo.margin_y_top = 0
    BY <1>4, GeometryVga
  <2>1. X \in 0..LastX
    BY <1>0, <2>0
  <2>2. \/ X = g.main_x - 1 /\ Y = g.main_y
        \/ g.main_x = 0 /\ X = w - 1 /\ Y = g.main_y - 1
        \/ g.main_x = 0 /\ g.main_y = 0 /\ X = 0 /\ Y = 0
    BY <1>0, <2>0
  <2> HIDE DEF X, Y, i, b, w
  <2>3. /\ Shape(b) /\ b.main_x = X /\ b.main_y = Y /\ b.screen = Drawn(g.screen, X, Y, "sp")
        /\ b.input_buffer = Written(g.input_buffer, i, "nul") /\ b.input_buffer_index = i
        /\ b.input_buffer_size = g.input_buffer_size
        /\ b.gtty_echo = g.gtty_echo /\ b.display_mode = g.display_mode
    BY <1>1, <1>2, <1>3 DEF Shape, Fields
  <2>4. /\ Sheet(b)
        /\ \A p : Shown(b, p) = IF p = <<X, Y>> THEN Ink("sp") ELSE Shown(g, p)
    <3>1. DrawnIn(g, b, X, Y, "sp")
      BY <1>2, <2>3, DrawnShows
    <3>2. QED
      BY <3>1 DEF DrawnIn
  <2>5. ASSUME NEW k \in Nat, k >= 1, InText(Place(b, k))
        PROVE  Place(b, k) = Place(g, k + 1)
    <3>1. Place(b, k) = <<(X - k) % w, Y + ((X - k) \div w)>>
      BY <1>4, <2>3, PlaceVga DEF w
    <3>2. Place(g, k + 1) = <<(g.main_x - (k + 1)) % w, g.main_y + ((g.main_x - (k + 1)) \div w)>>
      BY <1>4, PlaceVga DEF w
    <3>3. CASE X = g.main_x - 1 /\ Y = g.main_y
      <4>1. X - k = g.main_x - (k + 1)
        BY <1>0, <3>3
      <4>2. QED
        BY <3>1, <3>2, <3>3, <4>1
    <3>4. CASE g.main_x = 0 /\ X = w - 1 /\ Y = g.main_y - 1
      <4> DEFINE a == g.main_x - (k + 1)
      <4>1. a \in Int /\ X - k = a + w
        BY <1>0, <2>0, <3>4
      <4> HIDE DEF a
      <4>2. (X - k) % w = a % w /\ (X - k) \div w = (a \div w) + 1
        BY <2>0, <4>1, NextLine
      <4>3. a \div w \in Int
        BY <2>0, <4>1, Division
      <4>4. Y + ((a \div w) + 1) = g.main_y + (a \div w)
        BY <1>0, <1>2, <3>4, <4>3
      <4>5. QED
        BY <3>1, <3>2, <4>2, <4>4 DEF a
    <3>5. CASE g.main_x = 0 /\ g.main_y = 0 /\ X = 0 /\ Y = 0
      <4>1. X - k \in Int /\ X - k < 0
        BY <2>5, <3>5
      <4>2. (X - k) \div w < 0 /\ (X - k) \div w \in Int
        BY <2>0, <4>1, LineAbove, Division
      <4>3. Place(b, k)[2] < 0
        BY <3>1, <3>5, <4>2
      <4>4. Place(b, k)[2] >= 0
        BY <2>0, <2>5 DEF InText
      <4>5. Place(b, k)[2] \in Int
        BY <3>1, <3>5, <4>2
      <4>6. QED
        BY <4>3, <4>4, <4>5
    <3>6. QED
      BY <2>2, <3>3, <3>4, <3>5
  <2>6. ASSUME NEW k \in Nat, k >= 1 PROVE Shown(b, Place(b, k)) = Shown(g, Place(b, k))
    BY <2>1, <2>3, <2>4, <2>6, NotHere
  <2>7. \A k \in Nat : k + 0 = k
    OBVIOUS
  <2>8. Follows(g, b, 1, 0)
    BY <2>5, <2>6, <2>7 DEF Follows
  <2>9. b.main_y <= LastY /\ b.main_x <= buffer_width
    BY <1>2, <2>0, <2>1, <2>3 DEF w
  <2>10. QED
    BY <2>3, <2>4, <2>8, <2>9 DEF b, i
<1>5. CASE display_type = "vesa"
  <2>0. /\ buffer_width \in Nat /\ buffer_width >= 17 /\ LastX = buffer_width - 9
        /\ geo.line_width = 8 /\ geo.line_height = 16 /\ geo.margin_y_top = 44
    BY <1>5, GeometryVesa
  <2>1. (X = g.main_x - 8 /\ Y = g.main_y) \/ X > LastX
    BY <1>0, <2>0
  <2> HIDE DEF X, Y, i, b
  <2>3. /\ Shape(b) /\ b.main_x = X /\ b.main_y = Y /\ b.screen = Drawn(g.screen, X, Y, "sp")
        /\ b.input_buffer = Written(g.input_buffer, i, "nul") /\ b.input_buffer_index = i
        /\ b.input_buffer_size = g.input_buffer_size
        /\ b.gtty_echo = g.gtty_echo /\ b.display_mode = g.display_mode
    BY <1>1, <1>2, <1>3, <1>5 DEF Shape, Fields
  <2>4. /\ Sheet(b)
        /\ \A p : Shown(b, p) = IF p = <<X, Y>> THEN Ink("sp") ELSE Shown(g, p)
    <3>1. DrawnIn(g, b, X, Y, "sp")
      BY <1>2, <2>3, DrawnShows
    <3>2. QED
      BY <3>1 DEF DrawnIn
  <2>5. ASSUME X = g.main_x - 8 /\ Y = g.main_y PROVE Follows(g, b, 1, 0)
    <3>1. ASSUME NEW k \in Nat, k >= 1 PROVE Place(b, k) = Place(g, k + 1)
      <4>1. Place(b, k) = <<X - 8 * k, Y>> /\ Place(g, k + 1) = <<g.main_x - 8 * (k + 1), g.main_y>>
        BY <1>5, <2>3, PlaceVesa
      <4>2. X - 8 * k = g.main_x - 8 * (k + 1)
        BY <1>0, <2>5
      <4>3. QED
        BY <2>5, <4>1, <4>2
    <3>2. ASSUME NEW k \in Nat, k >= 1 PROVE Shown(b, Place(b, k)) = Shown(g, Place(b, k))
      BY <1>5, <2>3, <2>4, <3>2, NotHere
    <3>3. \A k \in Nat : k + 0 = k
      OBVIOUS
    <3>4. QED
      BY <3>1, <3>2, <3>3 DEF Follows
  <2>6. QED
    BY <1>2, <1>5, <2>1, <2>3, <2>4, <2>5 DEF b, i
<1>6. QED
  BY <1>4, <1>5, GeometryFacts

LEMMA NoneFollows ==
  ASSUME NEW g, NEW h, NoneBefore(h), NEW i, NEW j \in Nat
  PROVE  Follows(g, h, i, j)
<1>1. ASSUME NEW k \in Nat, k >= 1 PROVE ~InText(Place(h, k + j))
  BY <1>1 DEF NoneBefore
<1>2. QED
  BY <1>1 DEF Follows

LEMMA FollowsOn ==
  ASSUME NEW f, NEW g, NEW h, NEW i \in Nat, NEW j \in Nat, Follows(f, g, i, j), Follows(g, h, 0, 0)
  PROVE  Follows(f, h, i, j)
<1> SUFFICES ASSUME NEW k \in Nat, k >= 1, InText(Place(h, k + j))
             PROVE  /\ InText(Place(f, k + i))
                    /\ Shown(h, Place(h, k + j)) = Shown(f, Place(f, k + i))
  BY DEF Follows
<1>1. k + j \in Nat /\ k + j >= 1 /\ (k + j) + 0 = k + j
  OBVIOUS
<1>2. InText(Place(g, k + j)) /\ Shown(h, Place(h, k + j)) = Shown(g, Place(g, k + j))
  BY <1>1 DEF Follows
<1>3. QED
  BY <1>2 DEF Follows

\* The cursor that is erased first is not part of the text.
LEMMA OffFollows ==
  ASSUME NEW g, NEW h, NEW i, NEW j, Shape(g), CursorHere(g), Follows(CursorOff(g), h, i, j)
  PROVE  Follows(g, h, i, j)
<1> DEFINE o == CursorOff(g)
<1>1. o.main_x = g.main_x /\ o.main_y = g.main_y /\ o.screen = g.screen
  BY CursorOffEffect, CursorOffKeeps
<1>2. Follows(o, h, i, j)
  OBVIOUS
<1> HIDE DEF o
<1>3. \A k : Place(o, k) = Place(g, k)
  BY <1>1 DEF Place
<1>4. \A p : Shown(o, p) = Shown(g, p)
  BY <1>1 DEF Shown
<1>5. QED
  BY <1>2, <1>3, <1>4 DEF Follows

\* A character that is written: it is the cell before the cursor, and the
\* others are one further away.
Typed(g, h, c) ==
    /\ Kept(g, h) /\ Sheet(h) /\ Fine(h)
    /\ Follows(g, h, 0, 1)
    /\ InText(Place(h, 1)) => Shown(h, Place(h, 1)) = Ink(c)

LEMMA TypeShows ==
  ASSUME display_type \in Displays, NEW g, NEW c, Fine(g), Sheet(g), c \notin {"bs", "nl", "cr"}
  PROVE  Typed(g, PutPlain(g, c), c)
<1> DEFINE o == CursorOff(g)
           n == [o EXCEPT !.screen = Drawn(@, o.main_x, o.main_y, c), !.main_x = @ + geo.line_width]
           h == Wrapped(n)
<1>1. Shape(g) /\ OnScreen(g) /\ CursorHere(g) /\ Column(g)
  BY DEF Fine
<1>2. /\ Shape(o) /\ o.cursor = {} /\ Kept(g, o) /\ o.screen = g.screen
      /\ o.main_x = g.main_x /\ o.main_y = g.main_y
  BY <1>1, CursorOffEffect, CursorOffKeeps
<1>3. PutPlain(g, c) = h
  BY DEF PutPlain
<1> HIDE DEF o
<1>4. Column(o) /\ OnScreen(o) /\ Sheet(o)
  BY <1>1, <1>2 DEF Column, OnScreen, Sheet
<1>5. o.main_x \in Int /\ o.main_y \in Int /\ o.main_x + geo.line_width \in Int
  BY <1>2, GeometryFacts DEF Shape
<1>6. /\ n.screen = Drawn(o.screen, o.main_x, o.main_y, c)
      /\ n.main_x = o.main_x + geo.line_width /\ n.main_y = o.main_y
      /\ n.cursor = {} /\ Kept(o, n)
  BY <1>2 DEF Shape, Fields, Kept
<1>7. Shape(n)
  BY <1>2, <1>5 DEF Shape, Fields
<1> HIDE DEF n
<1>8. Sheet(n) /\ Follows(o, n, 0, 1) /\ Shown(n, Place(n, 1)) = Ink(c)
  BY <1>2, <1>4, <1>6, <1>7, DrawShows
<1>9. Column(n)
  <2>1. CASE display_type = "vesa"
    BY <1>4, <1>5, <1>6, <2>1, GeometryVesa DEF Column
  <2>2. QED
    BY <2>1 DEF Column
<1>10. NearScreen(n)
  BY <1>4, <1>5, <1>6, <1>9, GeometryFacts DEF NearScreen, OnScreen
<1>11. n.main_y <= LastY
  BY <1>4, <1>5, <1>6, GeometryFacts DEF OnScreen
<1>12. display_type = "vga" => n.main_x <= buffer_width
  <2>1. CASE display_type = "vga"
    BY <1>4, <1>5, <1>6, <2>1, GeometryVga DEF OnScreen
  <2>2. QED
    BY <2>1
<1>13. \/ display_type = "vesa" /\ n.main_x > LastX /\ NoneBefore(h)
       \/ Follows(n, h, 0, 0)
  BY <1>6, <1>7, <1>8, <1>10, <1>11, <1>12, WrappedShows
<1>14. Kept(n, h) /\ Sheet(h)
  BY <1>6, <1>7, <1>8, <1>10, WrappedKeeps
<1>15. Fine(h)
  BY <1>6, <1>7, <1>10, WrappedEffect
<1> HIDE DEF h
<1>16. Follows(o, h, 0, 1)
  BY <1>8, <1>13, NoneFollows, FollowsOn
<1>17. InText(Place(h, 1)) => Shown(h, Place(h, 1)) = Ink(c)
  <2>1. CASE NoneBefore(h)
    BY <2>1 DEF NoneBefore
  <2>2. CASE Follows(n, h, 0, 0)
    <3>1. 1 \in Nat /\ 1 >= 1 /\ 1 + 0 = 1
      OBVIOUS
    <3>2. InText(Place(h, 1)) => Shown(h, Place(h, 1)) = Shown(n, Place(n, 1))
      BY <2>2, <3>1 DEF Follows
    <3>3. QED
      BY <1>8, <3>2
  <2>3. QED
    BY <1>13, <2>1, <2>2
<1>18. Follows(g, h, 0, 1)
  BY <1>1, <1>16, OffFollows DEF o
<1>19. Kept(g, h)
  BY <1>2, <1>6, <1>14 DEF Kept
<1>20. QED
  BY <1>3, <1>14, <1>15, <1>17, <1>18, <1>19 DEF Typed

\* A backspace that erases a character of the input.
Erased(g, h) ==
    /\ Sheet(h) /\ Follows(g, h, 1, 0)
    /\ h.input_buffer = Written(g.input_buffer, g.input_buffer_index - 1, "nul")
    /\ h.input_buffer_index = g.input_buffer_index - 1
    /\ h.input_buffer_size = g.input_buffer_size
    /\ h.gtty_echo = g.gtty_echo /\ h.display_mode = g.display_mode

LEMMA EraseShows ==
  ASSUME display_type \in Displays, NEW g, Fine(g), Sheet(g), g.input_buffer_index >= 1
  PROVE  Erased(g, PutPlain(g, "bs"))
<1> DEFINE o == CursorOff(g)
           n == Backspace(o)
           h == Wrapped(n)
<1>1. Shape(g) /\ OnScreen(g) /\ CursorHere(g) /\ Column(g)
  BY DEF Fine
<1>2. /\ Shape(o) /\ o.cursor = {} /\ Kept(g, o) /\ o.screen = g.screen
      /\ o.main_x = g.main_x /\ o.main_y = g.main_y
  BY <1>1, CursorOffEffect, CursorOffKeeps
<1>3. PutPlain(g, "bs") = h
  BY DEF PutPlain
<1> HIDE DEF o
<1>4. Column(o) /\ OnScreen(o) /\ Sheet(o) /\ o.input_buffer_index >= 1
  BY <1>1, <1>2 DEF Column, OnScreen, Sheet, Kept
<1>5. Shape(n) /\ NearScreen(n) /\ n.cursor = {}
  BY <1>2, <1>4, BackspaceEffect
<1>6. /\ Sheet(n)
      /\ (display_type = "vesa" /\ n.main_x > LastX) \/ Follows(o, n, 1, 0)
      /\ n.input_buffer = Written(o.input_buffer, o.input_buffer_index - 1, "nul")
      /\ n.input_buffer_index = o.input_buffer_index - 1
      /\ n.input_buffer_size = o.input_buffer_size
      /\ n.gtty_echo = o.gtty_echo /\ n.display_mode = o.display_mode
      /\ n.main_y <= LastY /\ (display_type = "vga" => n.main_x <= buffer_width)
  BY <1>2, <1>4, BackShows
<1> HIDE DEF n
<1>7. \/ display_type = "vesa" /\ n.main_x > LastX /\ NoneBefore(h)
      \/ Follows(n, h, 0, 0)
  BY <1>5, <1>6, WrappedShows
<1>8. Kept(n, h) /\ Sheet(h)
  BY <1>5, <1>6, WrappedKeeps
<1>9. Follows(o, h, 1, 0)
  <2>1. CASE NoneBefore(h)
    BY <2>1, NoneFollows
  <2>2. CASE Follows(o, n, 1, 0) /\ Follows(n, h, 0, 0)
    BY <2>2, FollowsOn
  <2>3. CASE display_type = "vesa" /\ n.main_x > LastX
    <3>1. h.main_x = 8 /\ Shape(h)
      <4>1. Fine(h)
        BY <1>5, WrappedEffect
      <4>2. h.main_x = geo.margin_x
        BY <1>5, <1>6, <2>3, WrappedKeeps
      <4>3. QED
        BY <2>3, <4>1, <4>2, GeometryVesa DEF Fine
    <3>2. NoneBefore(h)
      BY <2>3, <3>1, VesaMargin
    <3>3. QED
      BY <3>2, NoneFollows
  <2>4. QED
    BY <1>6, <1>7, <2>1, <2>2, <2>3
<1> HIDE DEF h
<1>10. Follows(g, h, 1, 0)
  BY <1>1, <1>9, OffFollows DEF o
<1>11. QED
  BY <1>2, <1>3, <1>6, <1>8, <1>10 DEF Kept, Erased

\* A tab is four spaces.
Spaces(g, h, m) ==
    /\ Kept(g, h) /\ Sheet(h) /\ Fine(h)
    /\ Follows(g, h, 0, m)
    /\ \A k \in 1..m : InText(Place(h, k)) => Shown(h, Place(h, k)) = "sp"

LEMMA OneMoreSpace ==
  ASSUME NEW f, NEW g, NEW h, NEW m \in Nat, Spaces(f, g, m), Typed(g, h, "sp")
  PROVE  Spaces(f, h, m + 1)
<1>1. Kept(f, h) /\ Sheet(h) /\ Fine(h)
  BY DEF Spaces, Typed, Kept
<1>2. ASSUME NEW k \in Nat, k >= 1, InText(Place(h, k + 1))
      PROVE  InText(Place(g, k)) /\ Shown(h, Place(h, k + 1)) = Shown(g, Place(g, k))
  <2>1. k + 0 = k
    OBVIOUS
  <2>2. QED
    BY <1>2, <2>1 DEF Typed, Follows
<1>3. ASSUME NEW k \in Nat, k >= 1, InText(Place(h, k + (m + 1)))
      PROVE  InText(Place(f, k + 0)) /\ Shown(h, Place(h, k + (m + 1))) = Shown(f, Place(f, k + 0))
  <2>1. k + (m + 1) = (k + m) + 1 /\ k + m \in Nat /\ k + m >= 1
    BY <1>3
  <2>2. InText(Place(g, k + m)) /\ Shown(h, Place(h, k + (m + 1))) = Shown(g, Place(g, k + m))
    BY <1>2, <1>3, <2>1
  <2>3. QED
    BY <1>3, <2>2 DEF Spaces, Follows
<1>4. ASSUME NEW k \in 1..(m + 1), InText(Place(h, k))
      PROVE  Shown(h, Place(h, k)) = "sp"
  <2>1. CASE k = 1
    BY <1>4, <2>1 DEF Typed, Ink, Blank
  <2>2. CASE k # 1
    <3> DEFINE j == k - 1
    <3>1. j \in 1..m /\ j \in Nat /\ j >= 1 /\ j + 1 = k
      BY <2>2
    <3> HIDE DEF j
    <3>2. InText(Place(g, j)) /\ Shown(h, Place(h, k)) = Shown(g, Place(g, j))
      BY <1>2, <1>4, <3>1
    <3>3. QED
      BY <3>1, <3>2 DEF Spaces
  <2>3. QED
    BY <2>1, <2>2
<1>5. Follows(f, h, 0, m + 1)
  BY <1>3 DEF Follows
<1>6. QED
  BY <1>1, <1>4, <1>5 DEF Spaces

LEMMA TabShows ==
  ASSUME display_type \in Displays, NEW g, Fine(g), Sheet(g)
  PROVE  Spaces(g, Put(g, "tab"), 4)
<1> DEFINE Space(h) == PutPlain(h, "sp")
<1>1. Put(g, "tab") = Space(Space(Space(Space(g))))
  BY DEF Put
<1>2. Spaces(g, g, 0)
  BY DEF Spaces, Kept, Follows
<1>3. ASSUME NEW h, NEW m \in Nat, Spaces(g, h, m) PROVE Spaces(g, Space(h), m + 1)
  <2>1. Fine(h) /\ Sheet(h)
    BY <1>3 DEF Spaces
  <2>2. Typed(h, Space(h), "sp")
    BY <2>1, TypeShows
  <2> HIDE DEF Space
  <2>3. QED
    BY <1>3, <2>2, OneMoreSpace
<1> HIDE DEF Space
<1>4. Spaces(g, Space(g), 1)
  <2>1. 0 \in Nat /\ 0 + 1 = 1
    OBVIOUS
  <2>2. QED
    BY <1>2, <1>3, <2>1
<1>5. Spaces(g, Space(Space(g)), 2)
  <2>1. 1 \in Nat /\ 1 + 1 = 2
    OBVIOUS
  <2>2. QED
    BY <1>3, <1>4, <2>1
<1>6. Spaces(g, Space(Space(Space(g))), 3)
  <2>1. 2 \in Nat /\ 2 + 1 = 3
    OBVIOUS
  <2>2. QED
    BY <1>3, <1>5, <2>1
<1>7. Spaces(g, Space(Space(Space(Space(g)))), 4)
  <2>1. 3 \in Nat /\ 3 + 1 = 4
    OBVIOUS
  <2>2. QED
    BY <1>3, <1>6, <2>1
<1>8. QED
  BY <1>1, <1>7

\* Whatever is written, the buffer behind the index stays empty.
LEMMA PutPlainKeepsInput ==
  ASSUME display_type \in Displays, NEW g, NEW c, Fine(g), Sheet(g), Buffered(g), BufferLen \in Nat
  PROVE  Sheet(PutPlain(g, c)) /\ Buffered(PutPlain(g, c))
<1> DEFINE o == CursorOff(g)
           h == PutPlain(g, c)
<1>1. Shape(g) /\ OnScreen(g) /\ CursorHere(g) /\ Column(g) /\ g.input_buffer_index \in Nat
  BY DEF Fine, Shape
<1>2. /\ Shape(o) /\ o.cursor = {} /\ Kept(g, o) /\ o.screen = g.screen
      /\ o.main_x = g.main_x /\ o.main_y = g.main_y
  BY <1>1, CursorOffEffect, CursorOffKeeps
<1>3. Column(o) /\ OnScreen(o) /\ Sheet(o)
  BY <1>1, <1>2 DEF Column, OnScreen, Sheet
<1>4. ASSUME Kept(g, h) PROVE Buffered(h)
  <2> HIDE DEF h
  <2>1. QED
    BY <1>4 DEF Kept, Buffered
<1>5. ASSUME NEW n, h = Wrapped(n), Shape(n), NearScreen(n), n.cursor = {}, Sheet(n), Kept(o, n)
      PROVE  Sheet(h) /\ Buffered(h)
  <2>1. Kept(n, Wrapped(n)) /\ Sheet(Wrapped(n))
    BY <1>5, WrappedKeeps
  <2>2. Kept(g, h) /\ Sheet(h)
    BY <1>2, <1>5, <2>1 DEF Kept
  <2>3. QED
    BY <1>4, <2>2
<1>6. CASE c \notin {"bs", "nl", "cr"}
  <2>1. Typed(g, h, c)
    BY <1>6, TypeShows
  <2>2. QED
    BY <1>4, <2>1 DEF Typed
<1>7. CASE c = "bs" /\ g.input_buffer_index >= 1
  <2>1. Erased(g, h)
    BY <1>7, EraseShows
  <2> HIDE DEF h
  <2> DEFINE i == g.input_buffer_index - 1
  <2>2. /\ h.input_buffer = Written(g.input_buffer, i, "nul")
        /\ h.input_buffer_index = i /\ h.input_buffer_size = g.input_buffer_size
    BY <2>1 DEF Erased
  <2>3. i \in Nat /\ g.input_buffer_index = i + 1
    BY <1>1, <1>7
  <2> HIDE DEF i
  <2>4. DOMAIN h.input_buffer = 0..(BufferLen - 1)
    BY <2>2 DEF Buffered, Written
  <2>5. ASSUME NEW j \in 0..(BufferLen - 1), j >= i
        PROVE  h.input_buffer[j] = "nul"
    BY <2>2, <2>3, <2>5 DEF Buffered, Written
  <2>6. h.input_buffer_size # 0
    BY <2>2, <2>3 DEF Buffered
  <2>7. QED
    BY <2>1, <2>2, <2>4, <2>5, <2>6 DEF Buffered, Erased, h
<1>8. CASE c = "bs" /\ ~(g.input_buffer_index >= 1)
  <2>1. Backspace(o) = o
    BY <1>1, <1>2, <1>8 DEF Backspace, Kept
  <2>2. h = Wrapped(o)
    BY <1>8, <2>1 DEF PutPlain
  <2>3. NearScreen(o)
    BY <1>2, <1>3, GeometryFacts DEF NearScreen, OnScreen, Shape
  <2>4. Kept(o, o)
    BY DEF Kept
  <2>5. QED
    BY <1>2, <1>3, <1>5, <2>2, <2>3, <2>4
<1>9. CASE c \in {"nl", "cr"}
  <2> DEFINE n == IF c = "nl" THEN [o EXCEPT !.main_x = geo.margin_x, !.main_y = @ + geo.line_height]
                  ELSE [o EXCEPT !.main_x = geo.margin_x]
  <2>1. h = Wrapped(n)
    BY <1>9 DEF PutPlain
  <2> HIDE DEF o, h
  <2>2. o.main_y \in Int /\ geo.margin_x \in Int /\ geo.line_height \in Nat
    BY <1>2, GeometryFacts DEF Shape
  <2>3. /\ n.main_x = geo.margin_x
        /\ n.main_y \in {o.main_y, o.main_y + geo.line_height}
        /\ n.cursor = {} /\ n.screen = o.screen /\ Kept(o, n)
    BY <1>2 DEF Shape, Fields, Kept
  <2>4. Shape(n)
    BY <1>2, <2>2 DEF Shape, Fields
  <2> HIDE DEF n
  <2>5. NearScreen(n) /\ Sheet(n)
    BY <1>3, <2>2, <2>3, GeometryFacts DEF NearScreen, OnScreen, Column, Sheet
  <2>6. QED
    BY <1>5, <2>1, <2>3, <2>4, <2>5 DEF h
<1>10. QED
  BY <1>6, <1>7, <1>8, <1>9

LEMMA WriteKeepsInput ==
  ASSUME display_type \in Displays, NEW g, NEW c, Fine(g), Sheet(g), Buffered(g)
  PROVE  Sheet(gtty_dev_write(g, c)) /\ Buffered(gtty_dev_write(g, c))
<1>0. BufferLen \in Nat
  BY TerminalAssumption DEF TerminalAssumption
<1>1. CASE c = "tab"
  <2>1. Spaces(g, Put(g, c), 4)
    BY <1>1, TabShows
  <2>2. Sheet(Put(g, c)) /\ Buffered(Put(g, c))
    BY <2>1 DEF Spaces, Kept, Buffered
  <2>3. QED
    BY <2>2 DEF gtty_dev_write
<1>2. CASE c # "tab"
  BY <1>0, <1>2, PutPlainKeepsInput DEF gtty_dev_write, Put
<1>3. QED
  BY <1>1, <1>2

\* A key that is stored, before it is echoed.
StoredIn(g, f, c, m) ==
    /\ Shape(f) /\ f.cursor = g.cursor /\ f.main_x = g.main_x /\ f.main_y = g.main_y
    /\ f.screen = g.screen /\ f.gtty_echo = g.gtty_echo /\ f.display_mode = g.display_mode
    /\ f.input_buffer_size = g.input_buffer_size
    /\ f.input_buffer_index = g.input_buffer_index + m
    /\ f.input_buffer = IF m = 0 THEN g.input_buffer
                        ELSE Written(g.input_buffer, g.input_buffer_index, c)

LEMMA StoredEffect ==
  ASSUME NEW g, NEW c, Shape(g)
  PROVE  StoredIn(g, Flagged(Stored(g, c), c), c,
                  IF Accepted(g, c) THEN IF c = "tab" THEN 4 ELSE 1 ELSE 0)
<1> DEFINE s == Stored(g, c)
           f == Flagged(s, c)
           m == IF Accepted(g, c) THEN IF c = "tab" THEN 4 ELSE 1 ELSE 0
<1>0. g.input_buffer_index \in Nat /\ m \in {0, 1, 4}
  BY DEF Shape
<1>1. StoredIn(g, s, c, m)
  <2>1. CASE Accepted(g, c)
    <3>1. /\ s = [g EXCEPT !.input_buffer = Written(@, g.input_buffer_index, c), !.input_buffer_index = @ + m]
          /\ m # 0
      BY <2>1 DEF Stored
    <3> HIDE DEF s, m
    <3>2. g.input_buffer_index + m \in Nat
      BY <1>0
    <3>3. Shape(s)
      BY <3>1, <3>2 DEF Shape, Fields
    <3>4. QED
      BY <3>1, <3>3 DEF StoredIn, Shape, Fields
  <2>2. CASE ~Accepted(g, c)
    <3>1. s = g /\ m = 0
      BY <2>2 DEF Stored
    <3> HIDE DEF s, m
    <3>2. QED
      BY <1>0, <3>1 DEF StoredIn
  <2>3. QED
    BY <2>1, <2>2
<1> HIDE DEF s, m
<1>2. f = s \/ f = [s EXCEPT !.input_buffer_flag = 1]
  BY DEF Flagged
<1> HIDE DEF f
<1>3. Shape(s)
  BY <1>1 DEF StoredIn
<1>4. Shape(f)
  BY <1>2, <1>3 DEF Shape, Fields
<1>5. /\ f.cursor = s.cursor /\ f.main_x = s.main_x /\ f.main_y = s.main_y
      /\ f.screen = s.screen /\ f.gtty_echo = s.gtty_echo /\ f.display_mode = s.display_mode
      /\ f.input_buffer_size = s.input_buffer_size
      /\ f.input_buffer_index = s.input_buffer_index /\ f.input_buffer = s.input_buffer
  BY <1>2, <1>3 DEF Shape, Fields
<1>6. StoredIn(g, f, c, m)
  BY <1>1, <1>4, <1>5 DEF StoredIn
<1>7. QED
  BY <1>6 DEF f, s, m

\* The buffer stays empty behind the index: a tab skips empty places.
LEMMA StoredKeeps ==
  ASSUME NEW g, NEW f, NEW c, NEW m \in {0, 1, 4}, Shape(g), Buffered(g), StoredIn(g, f, c, m),
         m # 0 => g.input_buffer_index < g.input_buffer_size, BufferLen \in Nat
  PROVE  Buffered(f)
<1> DEFINE i == g.input_buffer_index
<1>0. i \in Nat /\ g.input_buffer_size \in Nat
  BY DEF Shape
<1>1. CASE m = 0
  BY <1>0, <1>1 DEF StoredIn, Buffered
<1>2. CASE m # 0
  <2>1. f.input_buffer = Written(g.input_buffer, i, c) /\ f.input_buffer_index = i + m
    BY <1>2 DEF StoredIn
  <2>2. f.input_buffer_size # 0
    BY <1>0, <1>2 DEF StoredIn
  <2>3. \A j \in 0..(BufferLen - 1) : j >= i => g.input_buffer[j] = "nul"
    BY DEF Buffered
  <2>4. DOMAIN f.input_buffer = 0..(BufferLen - 1)
    BY <2>1 DEF Buffered, Written
  <2> HIDE DEF i
  <2>5. ASSUME NEW j \in 0..(BufferLen - 1), j >= i + m
        PROVE  f.input_buffer[j] = "nul"
    <3>1. j # i /\ j >= i
      BY <1>0, <1>2, <2>5
    <3>2. f.input_buffer[j] = g.input_buffer[j]
      BY <2>1, <3>1 DEF Buffered, Written
    <3>3. QED
      BY <2>3, <3>1, <3>2
  <2>6. QED
    BY <2>1, <2>2, <2>4, <2>5 DEF Buffered
<1>3. QED
  BY <1>1, <1>2

\* The places before the cursor do not depend on the input.
LEMMA StoredFollows ==
  ASSUME NEW g, NEW f, NEW h, NEW c, NEW m, NEW i, NEW j, StoredIn(g, f, c, m), Follows(f, h, i, j)
  PROVE  Follows(g, h, i, j)
<1>1. \A k : Place(f, k) = Place(g, k)
  BY DEF Place, StoredIn
<1>2. \A p : Shown(f, p) = Shown(g, p)
  BY DEF Shown, StoredIn
<1>3. QED
  BY <1>1, <1>2 DEF Follows

\* The line is shown once the key that was stored is echoed, m cells wide.
LEMMA EchoShows ==
  ASSUME NEW g, NEW f, NEW h, NEW c, NEW m \in {1, 4}, Shape(g), Buffered(g),
         BufferLen \in Nat, LineShown(g),
         StoredIn(g, f, c, m), Kept(f, h), Follows(f, h, 0, m), m = 4 <=> c = "tab",
         \A k \in 1..m : InText(Place(h, k)) => Shown(h, Place(h, k)) = Glyph(c)
  PROVE  LineShown(h)
<1> DEFINE i == g.input_buffer_index
<1>0. i \in Nat
  BY DEF Shape
<1>1. /\ h.input_buffer_index = i + m
      /\ h.input_buffer = Written(g.input_buffer, i, c)
  BY DEF Kept, StoredIn
<1>2. DOMAIN g.input_buffer = 0..(BufferLen - 1)
  BY DEF Buffered
<1>3. \A j \in 0..(BufferLen - 1) : j >= i => g.input_buffer[j] = "nul"
  BY DEF Buffered
<1>4. Follows(g, h, 0, m)
  BY StoredFollows
<1>5. \A k \in 1..i : InText(Place(g, k)) /\ i - k < BufferLen =>
          Shown(g, Place(g, k)) = Glyph(g.input_buffer[i - k])
  BY DEF LineShown
<1> HIDE DEF i
<1>7. ASSUME NEW k \in 1..(i + m), InText(Place(h, k)), (i + m) - k < BufferLen
      PROVE  Shown(h, Place(h, k)) = Glyph(h.input_buffer[(i + m) - k])
  <2>1. CASE k <= m
    <3>1. k \in 1..m
      BY <2>1
    <3>2. Shown(h, Place(h, k)) = Glyph(c)
      BY <1>7, <3>1
    <3>3. CASE k = m
      <4>1. (i + m) - k = i /\ i \in 0..(BufferLen - 1)
        BY <1>0, <1>7, <3>3
      <4>2. h.input_buffer[i] = c
        BY <1>1, <1>2, <4>1 DEF Written
      <4>3. QED
        BY <3>2, <4>1, <4>2
    <3>4. CASE k # m
      <4> DEFINE j == (i + m) - k
      <4>1. m = 4 /\ j \in 0..(BufferLen - 1) /\ j > i
        BY <1>0, <1>7, <3>1, <3>4
      <4>2. h.input_buffer[j] = "nul"
        BY <1>0, <1>1, <1>2, <1>3, <4>1 DEF Written
      <4>3. c = "tab"
        BY <4>1
      <4>4. QED
        BY <3>2, <4>2, <4>3 DEF Glyph, Blank
    <3>5. QED
      BY <3>3, <3>4
  <2>2. CASE ~(k <= m)
    <3> DEFINE n == k - m
    <3>1. n \in 1..i /\ n \in Nat /\ n >= 1 /\ n + m = k /\ n + 0 = n
      BY <1>0, <2>2
    <3>2. (i + m) - k = i - n /\ i - n \in 0..(BufferLen - 1) /\ i - n # i /\ i - n < BufferLen
      BY <1>0, <1>7, <2>2
    <3> HIDE DEF n
    <3>3. InText(Place(g, n)) /\ Shown(h, Place(h, k)) = Shown(g, Place(g, n))
      BY <1>4, <1>7, <3>1 DEF Follows
    <3>4. Shown(g, Place(g, n)) = Glyph(g.input_buffer[i - n])
      BY <1>5, <3>1, <3>2, <3>3
    <3>5. h.input_buffer[i - n] = g.input_buffer[i - n]
      BY <1>1, <1>2, <3>2 DEF Written
    <3>6. QED
      BY <3>2, <3>3, <3>4, <3>5
  <2>3. QED
    BY <2>1, <2>2
<1>8. QED
  BY <1>1, <1>7 DEF LineShown

\* It is shown after a backspace, too.
LEMMA EraseKeepsLine ==
  ASSUME NEW g, NEW h, Shape(g), Buffered(g), LineShown(g), Erased(g, h),
         g.input_buffer_index >= 1, BufferLen \in Nat
  PROVE  LineShown(h)
<1> DEFINE i == g.input_buffer_index - 1
<1>0. i \in Nat /\ g.input_buffer_index = i + 1
  BY DEF Shape
<1>1. /\ h.input_buffer_index = i /\ h.input_buffer = Written(g.input_buffer, i, "nul")
      /\ Follows(g, h, 1, 0)
  BY DEF Erased
<1>2. DOMAIN g.input_buffer = 0..(BufferLen - 1)
  BY DEF Buffered
<1> HIDE DEF i
<1>3. ASSUME NEW k \in 1..i, InText(Place(h, k)), i - k < BufferLen
      PROVE  Shown(h, Place(h, k)) = Glyph(h.input_buffer[i - k])
  <2>1. k \in Nat /\ k >= 1 /\ k + 0 = k /\ k + 1 \in 1..(i + 1) /\ (i + 1) - (k + 1) = i - k
    BY <1>0
  <2>2. InText(Place(g, k + 1)) /\ Shown(h, Place(h, k)) = Shown(g, Place(g, k + 1))
    BY <1>1, <1>3, <2>1 DEF Follows
  <2>3. Shown(g, Place(g, k + 1)) = Glyph(g.input_buffer[i - k])
    BY <1>0, <1>3, <2>1, <2>2 DEF LineShown
  <2>4. i - k \in 0..(BufferLen - 1) /\ i - k # i
    BY <1>0, <1>3
  <2>5. h.input_buffer[i - k] = g.input_buffer[i - k]
    BY <1>1, <1>2, <2>4 DEF Written
  <2>6. QED
    BY <2>2, <2>3, <2>5
<1>4. QED
  BY <1>1, <1>3 DEF LineShown

\* A key, whole: it is stored, it may end the line, it is echoed.
Echoed(g) == g.gtty_echo = 1 /\ g.display_mode = "TXT" /\ LineShown(g)

LEMMA KeyShows ==
  ASSUME display_type \in Displays, NEW g, NEW c, Fine(g), Sheet(g), Buffered(g)
  PROVE  LET h == gtty_keyboard_listener(g, c) IN
         /\ Sheet(h) /\ Buffered(h)
         /\ Echoed(g) /\ (Accepted(g, c) \/ c \in {"bs", "nl", "cr"}) => Echoed(h)
<1> DEFINE f == Flagged(Stored(g, c), c)
           m == IF Accepted(g, c) THEN IF c = "tab" THEN 4 ELSE 1 ELSE 0
           h == gtty_keyboard_listener(g, c)
<1>0. BufferLen \in Nat
  BY TerminalAssumption DEF TerminalAssumption
<1>1. /\ Shape(g) /\ Column(g) /\ OnScreen(g) /\ CursorHere(g)
      /\ g.input_buffer_index \in Nat /\ g.input_buffer_size \in Nat
  BY DEF Fine, Shape
<1>2. StoredIn(g, f, c, m) /\ m \in {0, 1, 4}
  BY <1>1, StoredEffect
<1>3. m # 0 => g.input_buffer_index < g.input_buffer_size
  BY DEF Accepted
<1>4. h = IF g.gtty_echo = 1 /\ c \notin {"nl", "cr"} THEN gtty_dev_write(f, c) ELSE f
  BY DEF gtty_keyboard_listener
<1>5. m = 0 <=> ~Accepted(g, c)
  OBVIOUS
<1>6. c \in {"bs", "nl", "cr"} => m = 0
  BY DEF Accepted
<1>7. m = 4 => c = "tab"
  OBVIOUS
<1>8. c = "tab" => m # 1
  OBVIOUS
<1> HIDE DEF f, m, h
<1>9. Fine(f) /\ Sheet(f)
  BY <1>1, <1>2 DEF StoredIn, Fine, Column, OnScreen, CursorHere, Sheet
<1>10. Buffered(f)
  BY <1>0, <1>1, <1>2, <1>3, StoredKeeps
<1>11. Sheet(h) /\ Buffered(h)
  BY <1>4, <1>9, <1>10, WriteKeepsInput
<1>12. ASSUME Echoed(g), Accepted(g, c) \/ c \in {"bs", "nl", "cr"}
       PROVE  Echoed(h)
  <2>1. /\ f.gtty_echo = 1 /\ f.display_mode = "TXT" /\ g.gtty_echo = 1 /\ LineShown(g)
    BY <1>2, <1>12 DEF Echoed, StoredIn
  <2>2. m = 0 => LineShown(f)
    <3> SUFFICES ASSUME m = 0 PROVE LineShown(f)
      OBVIOUS
    <3>1. f.input_buffer_index = g.input_buffer_index /\ f.input_buffer = g.input_buffer
      BY <1>1, <1>2 DEF StoredIn
    <3>2. \A k : Place(f, k) = Place(g, k)
      BY <1>2 DEF Place, StoredIn
    <3>3. \A p : Shown(f, p) = Shown(g, p)
      BY <1>2 DEF Shown, StoredIn
    <3>4. QED
      BY <2>1, <3>1, <3>2, <3>3 DEF LineShown
  <2>3. CASE c \in {"nl", "cr"}
    <3>1. h = f /\ m = 0
      BY <1>4, <1>6, <2>3
    <3>2. QED
      BY <2>1, <2>2, <3>1 DEF Echoed
  <2>4. CASE c = "bs"
    <3>1. h = PutPlain(f, "bs") /\ m = 0
      BY <1>4, <1>6, <2>1, <2>4 DEF gtty_dev_write, Put
    <3>2. f.input_buffer_index = g.input_buffer_index
      BY <1>1, <1>2, <3>1 DEF StoredIn
    <3>3. CASE f.input_buffer_index >= 1
      <4>1. Erased(f, h)
        BY <1>9, <3>1, <3>3, EraseShows
      <4>3. Shape(f)
        BY <1>2 DEF StoredIn
      <4>4. LineShown(h)
        BY <1>0, <1>10, <2>2, <3>1, <3>3, <4>1, <4>3, EraseKeepsLine
      <4>5. QED
        BY <2>1, <4>1, <4>4 DEF Echoed, Erased
    <3>4. CASE ~(f.input_buffer_index >= 1)
      <4> DEFINE o == CursorOff(f)
      <4>1. /\ Shape(o) /\ o.cursor = {} /\ Kept(f, o) /\ o.screen = f.screen
            /\ o.main_x = f.main_x /\ o.main_y = f.main_y
        BY <1>9, CursorOffEffect, CursorOffKeeps DEF Fine
      <4>2. f.input_buffer_index \in Nat
        BY <1>1, <3>2
      <4>3. Backspace(o) = o
        BY <3>4, <4>1, <4>2 DEF Backspace, Kept
      <4>4. h = Wrapped(o)
        BY <3>1, <4>3 DEF PutPlain
      <4> HIDE DEF o
      <4>5. OnScreen(o) /\ Column(o) /\ Sheet(o)
        BY <1>9, <4>1 DEF OnScreen, Column, Sheet, Fine
      <4>6. NearScreen(o)
        BY <4>1, <4>5, GeometryFacts DEF NearScreen, OnScreen, Shape
      <4>7. Kept(o, h)
        BY <4>1, <4>4, <4>5, <4>6, WrappedKeeps
      <4>8. h.input_buffer_index = 0 /\ h.gtty_echo = 1 /\ h.display_mode = "TXT"
        BY <2>1, <3>4, <4>1, <4>2, <4>7 DEF Kept
      <4>9. LineShown(h)
        BY <4>8 DEF LineShown
      <4>10. QED
        BY <4>8, <4>9 DEF Echoed
    <3>5. QED
      BY <3>3, <3>4
  <2>5. CASE Accepted(g, c)
    <3>1. /\ m \in {1, 4}
          /\ c \notin {"bs", "nl", "cr"} /\ (m = 4 <=> c = "tab")
      BY <1>0, <1>1, <1>2, <1>3, <1>5, <1>6, <1>7, <1>8, <2>5
    <3>2. h = Put(f, c)
      BY <1>4, <2>1, <3>1 DEF gtty_dev_write
    <3>3. /\ Kept(f, h) /\ Follows(f, h, 0, m)
          /\ \A k \in 1..m : InText(Place(h, k)) => Shown(h, Place(h, k)) = Glyph(c)
      <4>1. CASE c = "tab"
        <5>1. Spaces(f, h, 4) /\ m = 4
          BY <1>9, <3>1, <3>2, <4>1, TabShows
        <5>2. Glyph(c) = "sp"
          BY <4>1 DEF Glyph
        <5>3. QED
          BY <5>1, <5>2 DEF Spaces
      <4>2. CASE c # "tab"
        <5>1. h = PutPlain(f, c) /\ m = 1
          BY <3>1, <3>2, <4>2 DEF Put
        <5>2. Typed(f, h, c)
          BY <1>9, <3>1, <5>1, TypeShows
        <5>3. Glyph(c) = Ink(c)
          BY <4>2 DEF Glyph, Ink
        <5>4. \A k \in 1..m : k = 1
          BY <5>1
        <5>5. QED
          BY <5>1, <5>2, <5>3, <5>4 DEF Typed
      <4>3. QED
        BY <4>1, <4>2
    <3>4. LineShown(h)
      BY <1>0, <1>1, <1>2, <2>1, <3>1, <3>3, EchoShows
    <3>5. QED
      BY <2>1, <3>3, <3>4 DEF Echoed, Kept
  <2>6. QED
    BY <1>12, <2>3, <2>4, <2>5
<1>13. QED
  BY <1>11, <1>12 DEF h

\* The other functions of gtty.c, and what they do to the buffer.
Clean(g) == Sheet(g) /\ Buffered(g)

LEMMA DisplayKeepsInput ==
  ASSUME NEW g, Shape(g), Clean(g), NEW m, NEW e
  PROVE  /\ Clean(Clear(g)) /\ Clean(WriteImage(g))
         /\ Clean(SetMode(g, m)) /\ Clean([g EXCEPT !.gtty_echo = e])
<1>0. DOMAIN g = Fields
  BY DEF Shape
<1>1. ASSUME NEW h, h.screen = g.screen \/ h.screen = << >>,
             h.input_buffer = g.input_buffer, h.input_buffer_index = g.input_buffer_index,
             h.input_buffer_size = g.input_buffer_size
      PROVE  Clean(h)
  BY <1>1 DEF Clean, Sheet, Buffered
<1>2. Clean(Clear(g))
  <2>1. /\ Clear(g).screen = << >> /\ Clear(g).input_buffer = g.input_buffer
        /\ Clear(g).input_buffer_index = g.input_buffer_index
        /\ Clear(g).input_buffer_size = g.input_buffer_size
    BY <1>0 DEF Clear, Fields
  <2>2. QED
    BY <1>1, <2>1
<1>3. Clean(WriteImage(g))
  <2>1. /\ WriteImage(g).screen = << >> /\ WriteImage(g).input_buffer = g.input_buffer
        /\ WriteImage(g).input_buffer_index = g.input_buffer_index
        /\ WriteImage(g).input_buffer_size = g.input_buffer_size
    BY <1>0 DEF WriteImage, Fields
  <2>2. QED
    BY <1>1, <2>1
<1>4. Clean(SetMode(g, m))
  <2> DEFINE h == SetMode(g, m)
  <2>1. /\ h.screen = g.screen /\ h.input_buffer = g.input_buffer
        /\ h.input_buffer_index = g.input_buffer_index
        /\ h.input_buffer_size = g.input_buffer_size
    BY <1>0 DEF SetMode, Fields
  <2> HIDE DEF h
  <2>2. Clean(h)
    BY <1>1, <2>1
  <2>3. QED
    BY <2>2 DEF h
<1>5. Clean([g EXCEPT !.gtty_echo = e])
  <2> DEFINE h == [g EXCEPT !.gtty_echo = e]
  <2>1. /\ h.screen = g.screen /\ h.input_buffer = g.input_buffer
        /\ h.input_buffer_index = g.input_buffer_index
        /\ h.input_buffer_size = g.input_buffer_size
    BY <1>0 DEF Fields
  <2> HIDE DEF h
  <2>2. Clean(h)
    BY <1>1, <2>1
  <2>3. QED
    BY <2>2 DEF h
<1>6. QED
  BY <1>2, <1>3, <1>4, <1>5

LEMMA ResetKeepsInput ==
  ASSUME display_type \in Displays, NEW g, Fine(g), Clean(g)
  PROVE  Clean(shell_reset(g))
<1> DEFINE i == WriteImage(SetMode(g, "PX"))
           b == IF display_type = "vesa" THEN i ELSE g
           t == SetMode(b, "TXT")
           c == Clear(t)
<1>0. ASSUME NEW h, Fine(h) PROVE Shape(h)
  BY <1>0 DEF Fine
<1>1. Fine(SetMode(g, "PX")) /\ Clean(SetMode(g, "PX"))
  BY <1>0, ModeEffect, DisplayKeepsInput
<1>2. Fine(i) /\ Clean(i)
  BY <1>0, <1>1, ClearEffect, DisplayKeepsInput
<1>3. Fine(b) /\ Clean(b)
  BY <1>2
<1>4. shell_reset(g) = [c EXCEPT !.gtty_echo = 1]
  BY DEF shell_reset
<1> HIDE DEF b
<1>5. Fine(t) /\ Clean(t)
  BY <1>0, <1>3, ModeEffect, DisplayKeepsInput
<1> HIDE DEF t
<1>6. Fine(c) /\ Clean(c)
  BY <1>0, <1>5, ClearEffect, DisplayKeepsInput
<1> HIDE DEF c
<1>7. QED
  BY <1>0, <1>4, <1>6, DisplayKeepsInput

LEMMA RequestKeepsInput ==
  ASSUME NEW g, Shape(g), Clean(g), NEW n \in Nat, n # 0
  PROVE  /\ Clean(InputReady(g, n)) /\ Clean(gtty_dev_read(g, n))
         /\ g.input_buffer_size = 0 => InputReady(g, n).input_buffer_index = 0
<1>0. DOMAIN g = Fields
  BY DEF Shape
<1>1. /\ Clean(InputReady(g, n))
      /\ g.input_buffer_size = 0 => InputReady(g, n).input_buffer_index = 0
  <2> DEFINE h == [g EXCEPT !.input_buffer_size = n, !.input_buffer_flag = 0]
  <2>1. /\ h.screen = g.screen /\ h.input_buffer = g.input_buffer
        /\ h.input_buffer_index = g.input_buffer_index /\ h.input_buffer_size = n
    BY <1>0 DEF Fields
  <2> HIDE DEF h
  <2>2. Clean(h) /\ (g.input_buffer_size = 0 => h.input_buffer_index = 0)
    BY <2>1 DEF Clean, Sheet, Buffered
  <2>3. QED
    BY <2>2 DEF InputReady, h
<1>2. Clean(gtty_dev_read(g, n))
  <2> DEFINE d == g.input_buffer
             e == [i \in DOMAIN d |-> "nul"]
             h == [g EXCEPT !.input_buffer = e,
                            !.input_buffer_flag = 0, !.input_buffer_size = 0, !.input_buffer_index = 0]
  <2>1. gtty_dev_read(g, n) \in {g, h}
    BY <1>0 DEF gtty_dev_read, Fields
  <2>2. BufferLen \in Nat
    BY TerminalAssumption DEF TerminalAssumption
  <2>3. /\ DOMAIN e = 0..(BufferLen - 1)
        /\ \A i \in 0..(BufferLen - 1) : e[i] = "nul"
    BY <2>2 DEF Clean, Buffered
  <2> HIDE DEF e
  <2>4. /\ h.screen = g.screen /\ h.input_buffer = e /\ h.input_buffer_index = 0
    BY <1>0 DEF Fields
  <2> HIDE DEF h
  <2>5. Clean(h)
    BY <2>3, <2>4 DEF Clean, Sheet, Buffered
  <2>6. QED
    BY <2>1, <2>5
<1>3. QED
  BY <1>1, <1>2

\* The display is the same after a step as before it.
LEMMA LineStep ==
  ASSUME display_type' = display_type, LineShown(gtty')
  PROVE  LineShown(gtty)'
<1>1. geo' = geo /\ buffer_width' = buffer_width
  BY DEF geo, buffer_width
<1>2. \A k : Place(gtty, k)' = Place(gtty', k)
  BY <1>1 DEF Place
<1>3. \A p : InText(p)' = InText(p)
  BY <1>1 DEF InText
<1>4. QED
  BY <1>2, <1>3 DEF LineShown, InText, Shown, Glyph, Place

\* A step that disturbs the line has only the buffer to keep.
LEMMA Disturbed ==
  ASSUME undisturbed' = FALSE, Clean(gtty')
  PROVE  InputInv'
BY DEF InputInv, Clean, Sheet, Buffered, InputShown

LEMMA Untouched ==
  ASSUME InputInv, UNCHANGED <<display_type, gtty, undisturbed>>
  PROVE  InputInv'
<1>1. LineShown(gtty) => LineShown(gtty)'
  BY LineStep
<1>2. QED
  BY <1>1 DEF InputInv, Buffered, InputShown

LEMMA DisplayDisturbs ==
  ASSUME NEW g, NEW p, NEW then, Display(g, p, then), Clean(g)
  PROVE  InputInv'
BY Disturbed DEF Display

\* A new request starts with an empty line.
LEMMA PollShows ==
  ASSUME TerminalInv, InputInv, NEW p \in Procs, Poll(p)
  PROVE  InputInv'
<1>1. /\ Shape(gtty) /\ Rest /\ OneReader
  BY Apart DEF Fine
<1>2. Clean(gtty)
  BY DEF InputInv, Clean, Sheet
<1>3. pc[p] = "gets" /\ gtty' = InputReady(gtty, want[p]) /\ display_type' = display_type
  BY DEF Poll
<1>4. want[p] \in Nat /\ want[p] # 0
  BY <1>1, <1>3, Sizes DEF Rest, OneReader, Reads
<1>5. /\ Clean(gtty')
      /\ gtty.input_buffer_size = 0 => gtty'.input_buffer_index = 0
  BY <1>1, <1>2, <1>3, <1>4, RequestKeepsInput
<1>6. CASE gtty.input_buffer_size = 0
  <2>1. undisturbed' = (gtty.gtty_echo = 1 /\ gtty.display_mode = "TXT")
    BY <1>6, Zenon DEF Poll
  <2>2. gtty'.gtty_echo = gtty.gtty_echo /\ gtty'.display_mode = gtty.display_mode
    BY <1>1, <1>3 DEF InputReady, Shape, Fields
  <2>3. LineShown(gtty')
    BY <1>5, <1>6 DEF LineShown
  <2>4. LineShown(gtty)'
    BY <1>3, <2>3, LineStep
  <2>5. /\ undisturbed' \in BOOLEAN
        /\ undisturbed' => gtty'.gtty_echo = 1 /\ gtty'.display_mode = "TXT"
    BY <2>1, <2>2, Zenon
  <2>6. Buffered(gtty)' /\ DOMAIN gtty'.screen \subseteq Int \X Int
    BY <1>5 DEF Clean, Sheet, Buffered
  <2>7. QED
    BY <2>4, <2>5, <2>6, Zenon DEF InputInv, InputShown
<1>7. CASE gtty.input_buffer_size # 0
  <2>1. UNCHANGED <<display_type, gtty, undisturbed>>
    <3>1. undisturbed' = undisturbed
      BY <1>7, Zenon DEF Poll
    <3>2. gtty' = gtty
      BY <1>3, <1>7 DEF InputReady
    <3>3. QED
      BY <1>3, <3>1, <3>2
  <2>2. QED
    BY <2>1, Untouched
<1>8. QED
  BY <1>6, <1>7

LEMMA ReadShows ==
  ASSUME TerminalInv, InputInv, NEW p \in Procs, NEW then, Read(p, then)
  PROVE  InputInv'
<1>1. /\ Shape(gtty) /\ Rest /\ OneReader /\ pc[p] = "read"
  BY Apart DEF Fine, Read
<1>2. Clean(gtty)
  BY DEF InputInv, Clean, Sheet
<1>3. want[p] \in Nat /\ want[p] # 0
  BY <1>1, Sizes DEF Rest, OneReader, Reads
<1>4. Clean(gtty_dev_read(gtty, want[p]))
  BY <1>1, <1>2, <1>3, RequestKeepsInput
<1>5. QED
  BY <1>4, Disturbed DEF Read

LEMMA ShellShows ==
  ASSUME TerminalInv, InputInv, Shell
  PROVE  InputInv'
<1>1. /\ display_type \in Displays /\ Fine(gtty) /\ Rest /\ OneReader /\ Shape(gtty)
  BY Apart DEF Fine
<1>2. Clean(gtty)
  BY DEF InputInv, Clean, Sheet
<1>3. ASSUME NEW g, NEW c, Fine(g), Clean(g) PROVE Clean(gtty_dev_write(g, c))
  BY <1>1, <1>3, WriteKeepsInput DEF Clean
<1>4. Fine(shell_reset(gtty)) /\ Clean(shell_reset(gtty))
  BY <1>1, <1>2, ResetEffect, ResetKeepsInput
<1>5. ASSUME shell_prompt PROVE InputInv'
  <2>1. Fine(gtty_dev_write(gtty, "nl")) /\ Clean(gtty_dev_write(gtty, "nl"))
    BY <1>1, <1>2, <1>3, WriteEffect
  <2>2. Clean(gtty_dev_write(gtty_dev_write(gtty, "nl"), ">"))
    BY <1>3, <2>1
  <2>3. QED
    BY <1>5, <2>2, DisplayDisturbs DEF shell_prompt
<1>6. ASSUME shell_help \/ shell_exit PROVE InputInv'
  BY <1>1, <1>2, <1>3, <1>6, DisplayDisturbs DEF shell_help, shell_exit
<1>7. ASSUME shell_clear PROVE InputInv'
  BY <1>3, <1>4, <1>7, DisplayDisturbs DEF shell_clear
<1>8. ASSUME shell_check PROVE InputInv'
  BY <1>2, <1>4, <1>8, DisplayDisturbs DEF shell_check
<1>9. ASSUME shell_run PROVE InputInv'
  <2>1. Clean(gtty_dev_write(gtty, "nl"))
    BY <1>1, <1>2, <1>3
  <2>2. QED
    BY <1>9, <2>1, Disturbed DEF shell_run
<1>10. ASSUME shell_waitpid PROVE InputInv'
  BY <1>10, Untouched DEF shell_waitpid
<1>11. QED
  BY <1>5, <1>6, <1>7, <1>8, <1>9, <1>10, PollShows, ReadShows DEF Shell, Procs

LEMMA ChildShows ==
  ASSUME TerminalInv, InputInv, Child
  PROVE  InputInv'
<1>1. display_type \in Displays /\ Fine(gtty) /\ Shape(gtty)
  BY Apart DEF Fine
<1>2. Clean(gtty)
  BY DEF InputInv, Clean, Sheet
<1>3. ASSUME NEW n \in ChildSizes, child_gets(n) PROVE InputInv'
  BY <1>3, Untouched DEF child_gets
<1>4. ASSUME NEW c \in Text, child_write(c) PROVE InputInv'
  <2>1. Clean(gtty_dev_write(gtty, c))
    BY <1>1, <1>2, WriteKeepsInput DEF Clean
  <2>2. QED
    BY <1>4, <2>1, DisplayDisturbs DEF child_write
<1>5. ASSUME NEW m, child_mode(m) PROVE InputInv'
  <2>1. Clean(SetMode(gtty, m))
    BY <1>1, <1>2, DisplayKeepsInput
  <2>2. QED
    BY <1>5, <2>1, DisplayDisturbs DEF child_mode
<1>6. ASSUME NEW e, child_echo(e) PROVE InputInv'
  <2> DEFINE g == [gtty EXCEPT !.gtty_echo = e]
  <2>1. Clean(g)
    BY <1>1, <1>2, DisplayKeepsInput
  <2>2. Display(g, "child", "runs")
    BY <1>6 DEF child_echo
  <2> HIDE DEF g
  <2>3. QED
    BY <2>1, <2>2, DisplayDisturbs
<1>7. ASSUME child_image \/ child_clear PROVE InputInv'
  <2>1. Clean(WriteImage(gtty)) /\ Clean(Clear(gtty))
    BY <1>1, <1>2, DisplayKeepsInput
  <2>2. QED
    BY <1>7, <2>1, DisplayDisturbs DEF child_image, child_clear
<1>8. ASSUME child_exit PROVE InputInv'
  BY <1>8, Untouched DEF child_exit
<1>9. QED
  BY <1>3, <1>4, <1>5, <1>6, <1>7, <1>8, PollShows, ReadShows DEF Child, Procs

\* The timer moves no text.
LEMMA BlinkShows ==
  ASSUME TerminalInv, InputInv, blink
  PROVE  InputInv'
<1>1. /\ gtty' = vesa_cursor_handler(gtty) /\ UNCHANGED <<display_type, undisturbed>>
  BY DEF blink
<1>2. DOMAIN gtty = Fields
  BY Apart DEF Fine, Shape
<1>3. /\ gtty'.screen = gtty.screen /\ Kept(gtty, gtty')
      /\ gtty'.main_x = gtty.main_x /\ gtty'.main_y = gtty.main_y
  BY <1>1, <1>2 DEF vesa_cursor_handler, Fields, Kept
<1>4. ASSUME LineShown(gtty) PROVE LineShown(gtty)'
  <2>1. \A k : Place(gtty', k) = Place(gtty, k)
    BY <1>3 DEF Place
  <2>2. \A p : Shown(gtty', p) = Shown(gtty, p)
    BY <1>3 DEF Shown
  <2>3. LineShown(gtty')
    BY <1>3, <1>4, <2>1, <2>2 DEF LineShown, Kept
  <2>4. QED
    BY <1>1, <2>3, LineStep
<1>5. Buffered(gtty)' /\ DOMAIN gtty'.screen \subseteq Int \X Int
  BY <1>3 DEF InputInv, Buffered, Kept
<1>6. gtty'.gtty_echo = gtty.gtty_echo /\ gtty'.display_mode = gtty.display_mode
  BY <1>3 DEF Kept
<1>7. QED
  BY <1>1, <1>4, <1>5, <1>6, Zenon DEF InputInv, InputShown

\* A key that is stored is shown, and one that is not disturbs the line.
LEMMA KeyKeepsLine ==
  ASSUME TerminalInv, InputInv, NEW k \in Keys, parse_scancode(k)
  PROVE  InputInv'
<1>1. /\ display_type \in Displays /\ Fine(gtty) /\ Bounded(gtty) /\ Rest
  BY Apart
<1>2. Sheet(gtty) /\ Buffered(gtty)
  BY DEF InputInv, Sheet
<1>4. CASE k \notin DOMAIN kbd_map
  BY <1>4, Untouched DEF parse_scancode
<1>5. CASE k \in DOMAIN kbd_map
  <2> DEFINE c == IF Upper THEN kbd_map_up[k] ELSE kbd_map[k]
             kept == Accepted(gtty, c) \/ c \in {"bs", "nl", "cr"}
  <2>1. /\ gtty' = gtty_keyboard_listener(gtty, c)
        /\ undisturbed' = (undisturbed /\ kept)
        /\ display_type' = display_type
    <3>1. /\ gtty' = gtty_keyboard_listener(gtty, c)
          /\ display_type' = display_type
      BY <1>5 DEF parse_scancode
    <3>2. IF k \in DOMAIN kbd_map
          THEN /\ gtty' = gtty_keyboard_listener(gtty, c)
               /\ undisturbed' = (undisturbed /\ kept)
          ELSE UNCHANGED <<gtty, undisturbed>>
      BY Zenon DEF parse_scancode
    <3> HIDE DEF kept, c
    <3>3. undisturbed' = (undisturbed /\ kept)
      BY <1>5, <3>2, Zenon
    <3>4. QED
      BY <3>1, <3>3, Zenon
  <2> HIDE DEF c
  <2>2. /\ Sheet(gtty') /\ Buffered(gtty')
        /\ Echoed(gtty) /\ kept => Echoed(gtty')
    BY <1>1, <1>2, <2>1, KeyShows
  <2> HIDE DEF kept
  <2>3. undisturbed' \in BOOLEAN /\ (undisturbed' => undisturbed /\ kept)
    BY <2>1, Zenon DEF InputInv
  <2>4. undisturbed => Echoed(gtty)
    BY Zenon DEF InputInv, InputShown, Echoed
  <2>5. undisturbed' => Echoed(gtty')
    BY <2>2, <2>3, <2>4, Zenon
  <2>6. Echoed(gtty') => gtty'.gtty_echo = 1 /\ gtty'.display_mode = "TXT" /\ LineShown(gtty)'
    BY <2>1, LineStep DEF Echoed
  <2>7. Buffered(gtty)' /\ DOMAIN gtty'.screen \subseteq Int \X Int
    BY <2>2 DEF Buffered, Sheet
  <2>8. QED
    BY <2>3, <2>5, <2>6, <2>7, Zenon DEF InputInv, InputShown
<1>6. QED
  BY <1>4, <1>5

LEMMA InitShows ==
  ASSUME Init
  PROVE  InputInv
<1>1. gtty = gtty_start /\ undisturbed = FALSE
  BY DEF Init
<1>2. /\ gtty.screen = << >> /\ gtty.input_buffer_index = 0
      /\ gtty.input_buffer = [i \in 0..(BufferLen - 1) |-> "nul"]
  BY <1>1 DEF gtty_start
<1>3. Buffered(gtty)
  BY <1>2 DEF Buffered
<1>4. DOMAIN gtty.screen \subseteq Int \X Int
  BY <1>2
<1>5. QED
  BY <1>1, <1>3, <1>4 DEF InputInv, InputShown

LEMMA NextShows ==
  ASSUME TerminalInv, InputInv, [Next]_vars
  PROVE  InputInv'
<1>1. CASE Next
  BY <1>1, ShellShows, ChildShows, BlinkShows, KeyKeepsLine DEF Next
<1>2. CASE UNCHANGED vars
  BY <1>2, Untouched DEF vars
<1>3. QED
  BY <1>1, <1>2

\* The user sees what the program will read: a line that was not disturbed
\* stands before the cursor as it stands in input_buffer, on every screen
\* size, through wraps, scrolls, tabs and backspaces.
THEOREM InputIsShown == Spec => []InputShown
<1>1. Init => InputInv
  BY InitShows
<1>2. TerminalInv /\ InputInv /\ [Next]_vars => InputInv'
  BY NextShows
<1>3. InputInv => InputShown
  BY DEF InputInv
<1>4. QED
  BY <1>1, <1>2, <1>3, TerminalInvariant, PTL DEF Spec
=============================================================================
