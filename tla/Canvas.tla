------------------------------- MODULE Canvas -------------------------------
(***************************************************************************)
(* What the dashboard draws and what reaches the terminal (src/ui/term.cpp,*)
(* the frame loop of src/ui/dashboard.cpp).  A frame is written into cells *)
(* and only the ones that differ from the frame before are sent, with a    *)
(* cursor move where they do not follow on and a style where it changed.   *)
(*                                                                         *)
(* A frame here is a line of the console on each row and the box's edge at *)
(* its end.  The terminal is what it does with what it is sent: a glyph    *)
(* laid over half of a wide one destroys the other half.                   *)
(***************************************************************************)
EXTENDS Integers, Sequences

CONSTANTS
  Wide, Marks,  \* glyphs of two columns, and of none; any other has one
  Sizes,        \* widths the terminal may have
  Height,       \* its rows
  Frames        \* what a frame may say: on each row [s, fg, bg, attr]

Half == "half"        \* the second column of a wide glyph
Edge == "edge"
Ellipsis == "..."

\* What a style and a cell are: 0xFF and 0xDEADBEEF are no attribute and no colour.
Colour == STRING \ {"none"}
Style == [fg : Colour, bg : Colour, attr : 0..254]
Glyph == STRING \ {Half}

ASSUME CanvasAssumption ==
  /\ Height \in Nat /\ Sizes \subseteq Nat \ {0}
  /\ {" ", "?", Edge, Ellipsis, Half} \subseteq STRING \ Wide /\ {"grey", "black", "bg"} \subseteq STRING
  /\ Frames \subseteq [1..Height -> [s : Seq(Glyph), fg : Colour, bg : Colour, attr : 0..254]]

VARIABLES
  frameAt,            \* where the frame loop is
  tty,                \* the terminal: its width, cells, cursor and style
  winch,              \* g_winch
  canvasW,            \* the canvas's width
  cells, prevCells,   \* cur_ and prev_
  dirtyAll            \* dirty_all_

canvasVars == <<frameAt, tty, winch, canvasW, cells, prevCells, dirtyAll>>

char_width(ch) == IF ch \in Wide THEN 2 ELSE IF ch \in Marks THEN 0 ELSE 1

Cell(ch, style) == [ch |-> ch, fg |-> style.fg, bg |-> style.bg, attr |-> style.attr]
Unstyled == [fg |-> "grey", bg |-> "black", attr |-> 0]
Background == [Unstyled EXCEPT !.bg = "bg"]
Filled(n, cell) == [y \in 1..Height |-> [x \in 0..(n - 1) |-> cell]]

-----------------------------------------------------------------------------
(* The terminal.                                                           *)

\* A cell nobody has drawn, and what is left of a wide glyph that lost a half.
Junk == Cell("?", Unstyled)

\* The cells of a row with column x no longer part of a wide glyph.
Split(row, x) ==
  [c \in DOMAIN row |->
     IF \/ c = x /\ (row[c].ch = Half \/ row[c].ch \in Wide)
        \/ c = x - 1 /\ row[c].ch \in Wide
        \/ c = x + 1 /\ row[c].ch = Half /\ x \in DOMAIN row /\ row[x].ch \in Wide
     THEN Junk ELSE row[c]]

Laid(row, x, ch, style) ==
  IF ch \in Wide
  THEN [c \in DOMAIN row |-> IF c = x THEN Cell(ch, style) ELSE IF c = x + 1 THEN Cell(Half, style)
                             ELSE Split(Split(row, x), x + 1)[c]]
  ELSE [c \in DOMAIN row |-> IF c = x THEN Cell(ch, style) ELSE Split(row, x)[c]]

CursorAt(t, y, x) == [t EXCEPT !.y = y, !.x = x]
Sgr0(t) == [t EXCEPT !.style = Unstyled]
Sgr(t, what, value) == [t EXCEPT !.style[what] = value]
Write(t, ch) ==
  [t EXCEPT !.cells[t.y] = Laid(@, t.x, ch, t.style), !.x = @ + char_width(ch)]

-----------------------------------------------------------------------------
(* The canvas.                                                             *)

put(row, x, ch, style) == IF x \in DOMAIN row THEN [row EXCEPT ![x] = Cell(ch, style)] ELSE row

\* One glyph of text_clip: the last column says so when there is no room for it.
Clip(acc, ch, end, style) ==
  LET cw == char_width(ch) IN
  IF acc.cut \/ acc.x >= end \/ cw = 0 THEN acc
  ELSE IF acc.x + cw > end THEN [acc EXCEPT !.cut = TRUE, !.row = put(@, end - 1, Ellipsis, style)]
  ELSE LET one == put(acc.row, acc.x, ch, style) IN
       [acc EXCEPT !.x = @ + cw, !.row = IF cw = 2 THEN put(one, acc.x + 1, Half, style) ELSE one]

text_clip(row, end, s, style) ==
  LET clip[k \in 0..Len(s)] ==
        IF k = 0 THEN [row |-> row, x |-> 0, cut |-> FALSE] ELSE Clip(clip[k - 1], s[k], end, style)
  IN clip[Len(s)].row

\* render: the background, then on each row its text and the edge of its box.
Drawn(n, frame) ==
  [y \in 1..Height |->
     put(text_clip(Filled(n, Cell(" ", Background))[y], n - 1, frame[y].s, frame[y]), n - 1, Edge, Unstyled)]

\* The cell is sent, after what the terminal has to be told before it.  An attribute has
\* no off of its own: a change resets the style and the colours are said again.
EmitKeepsColours(acc, y, x, c) ==
  LET moved == IF acc.cy = y /\ acc.cx = x THEN acc
               ELSE [acc EXCEPT !.t = CursorAt(@, y, x), !.cy = y, !.cx = x]
      weight == IF c.attr = moved.pa THEN moved
                ELSE [moved EXCEPT !.t = Sgr(Sgr0(@), "attr", c.attr), !.pa = c.attr]
      ink == IF c.fg = weight.pf THEN weight ELSE [weight EXCEPT !.t = Sgr(@, "fg", c.fg), !.pf = c.fg]
      paper == IF c.bg = ink.pb THEN ink ELSE [ink EXCEPT !.t = Sgr(@, "bg", c.bg), !.pb = c.bg]
  IN [paper EXCEPT !.t = Write(@, c.ch), !.cx = @ + char_width(c.ch)]
Emit(acc, y, x, c) ==
  LET moved == IF acc.cy = y /\ acc.cx = x THEN acc
               ELSE [acc EXCEPT !.t = CursorAt(@, y, x), !.cy = y, !.cx = x]
      weight == IF c.attr = moved.pa THEN moved
                ELSE [moved EXCEPT !.t = Sgr(Sgr0(@), "attr", c.attr), !.pa = c.attr, !.pf = "none", !.pb = "none"]
      ink == IF c.fg = weight.pf THEN weight ELSE [weight EXCEPT !.t = Sgr(@, "fg", c.fg), !.pf = c.fg]
      paper == IF c.bg = ink.pb THEN ink ELSE [ink EXCEPT !.t = Sgr(@, "bg", c.bg), !.pb = c.bg]
  IN [paper EXCEPT !.t = Write(@, c.ch), !.cx = @ + char_width(c.ch)]

\* The second half of a wide glyph is never sent: the terminal drew it with the first.
SendCell(acc, y, x) ==
  LET c == cells[y][x] IN
  IF c.ch = Half \/ (~dirtyAll /\ c = prevCells[y][x]) THEN acc ELSE Emit(acc, y, x, c)
SendRow(acc, y) ==
  LET sent[x \in 0..canvasW] == IF x = 0 THEN acc ELSE SendCell(sent[x - 1], y, x - 1) IN sent[canvasW]
flushed(t) ==
  LET down[y \in 0..Height] ==
        IF y = 0 THEN [t |-> t, pf |-> "none", pb |-> "none", pa |-> 255, cx |-> -1, cy |-> -1]
        ELSE SendRow(down[y - 1], y)
  IN Sgr0(down[Height].t)

-----------------------------------------------------------------------------
CanvasInit ==
  /\ frameAt = "frame" /\ winch = FALSE /\ dirtyAll = TRUE
  /\ \E n \in Sizes : tty = [w |-> n, cells |-> Filled(n, Junk), y |-> 1, x |-> 0, style |-> Unstyled]
  /\ canvasW = 0 /\ cells = <<>> /\ prevCells = <<>>

\* The user changes the window at any moment (until the terminal is left, "off"); what the
\* terminal makes of the cells it had is its own business.
Resize ==
  /\ frameAt # "off"
  /\ \E n \in Sizes \ {tty.w} : tty' = [tty EXCEPT !.w = n, !.cells = Filled(n, Junk)]
  /\ winch' = TRUE
  /\ UNCHANGED <<frameAt, canvasW, cells, prevCells, dirtyAll>>

\* take_resize and invalidate.
TakeResize ==
  /\ frameAt = "frame"
  /\ dirtyAll' = (dirtyAll \/ winch) /\ winch' = FALSE /\ frameAt' = "render"
  /\ UNCHANGED <<tty, canvasW, cells, prevCells>>

\* The terminal's size is read, the canvas follows it, and the frame is drawn.
Render ==
  /\ frameAt = "render"
  /\ canvasW' = tty.w
  /\ prevCells' = (IF canvasW = tty.w THEN prevCells ELSE Filled(tty.w, Cell(" ", Unstyled)))
  /\ dirtyAll' = (dirtyAll \/ canvasW # tty.w)
  /\ \E frame \in Frames : cells' = Drawn(tty.w, frame)
  /\ frameAt' = "flush"
  /\ UNCHANGED <<tty, winch>>

\* One write for the whole difference.
Flush ==
  /\ frameAt = "flush"
  /\ tty' = flushed(tty)
  /\ prevCells' = cells /\ dirtyAll' = FALSE /\ frameAt' = "frame"
  /\ UNCHANGED <<winch, canvasW, cells>>

CanvasNext == Resize \/ TakeResize \/ Render \/ Flush

CanvasSpec == CanvasInit /\ [][CanvasNext]_canvasVars

-----------------------------------------------------------------------------
\* term.h: only the difference is sent.  Between two frames the terminal shows the frame
\* last drawn, glyph, colours and weight, whatever it showed before and however wide
\* glyphs fell over one another, unless the window has changed since.
Shows(y, x) ==
  IF cells[y][x].ch = Half THEN tty.cells[y][x].ch = Half ELSE tty.cells[y][x] = cells[y][x]
ScreenShowsCanvas ==
  frameAt = "frame" /\ canvasW # 0 /\ ~winch => \A y \in 1..Height, x \in 0..(canvasW - 1) : Shows(y, x)
=============================================================================
