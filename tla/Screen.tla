------------------------------- MODULE Screen -------------------------------
(***************************************************************************)
(* The windows of screen.c up to version 5, and the screen they share,     *)
(* that of fzos_display.c: window 0 below, which scrolls and asks the      *)
(* player for [more], window 1 above, and in version 3 window 7 for the    *)
(* status line.  A font is one unit high and wide in this port, so units   *)
(* are rows and columns.                                                   *)
(*                                                                         *)
(* The memory of the screen is a row of cells, so that what is displayed   *)
(* beyond the right edge comes out in the next row, and beyond the bottom  *)
(* below the screen.  A cell is blank, text of the lower window that the   *)
(* player had a pause to read or had not, or any other text.  The buffer   *)
(* is empty between opcodes: a word is displayed when it is printed.       *)
(* Colours, styles and the opcodes of version 6 are in Windows, the        *)
(* newline interrupt in Output.  Left out is the question for the name of  *)
(* a file, which goes past the windows.                                    *)
(***************************************************************************)
EXTENDS Integers, Sequences, SequencesExt

CONSTANTS
  Versions,          \* of the story, 1 to 5
  Height, Width,     \* h_screen_height and h_screen_width
  MoreWidth,         \* the length of [more]
  Heights,           \* of the upper window, as the story asks for them
  Lengths,           \* of words, lines typed and tables
  MinInput,          \* the room for a line to be typed, 10
  MaxInput,          \* the size of the buffer for a line
  Clips,             \* whether text is too long for a window that clips it
  MaxSteps           \* bound: opcodes

ScreenAssumption ==
  /\ Versions \subseteq 1..5
  /\ {Height, Width, MoreWidth, MinInput, MaxInput, MaxSteps} \subseteq Nat \ {0}
  /\ Heights \subseteq 0..(Height - 3) /\ Lengths \subseteq 0..Width
  /\ Clips \in BOOLEAN

Window == {0, 1, 7}
Cell == {"blank", "read", "unread", "other"}
Below == 2                       \* rows of memory modelled below the screen
Place(y, x) == Width * (y - 1) + x

VARIABLES
  h_version,
  wp,              \* the windows
  cwin, enable,    \* the current one, and the enable_ flags it set
  more_prompts,
  input,           \* input_window and input_redraw
  typing,          \* the length of a line whose input timed out, or None
  cells, at,       \* the memory of the screen, and the hardware cursor
  lost,            \* whether text went that the player could not read
  outside,         \* whether text of window 1 went beyond its edge
  steps

vars == <<h_version, wp, cwin, enable, more_prompts, input, typing, cells, at, lost,
          outside, steps>>
None == -1

(* The state the handlers change, as they pass it on.                      *)
Now == [wp |-> wp, cwin |-> cwin, enable |-> enable, input |-> input, cells |-> cells,
        at |-> at, lost |-> lost, outside |-> outside]
Becomes(s) ==
  /\ wp' = s.wp /\ cwin' = s.cwin /\ enable' = s.enable /\ input' = s.input
  /\ cells' = s.cells /\ at' = s.at /\ lost' = s.lost /\ outside' = s.outside
cwp(s) == s.wp[s.cwin]
-----------------------------------------------------------------------------
(* The display of the port.  Characters go where the hardware cursor is,   *)
(* which moves on without bound.                                           *)
os_set_cursor(s, y, x) == [s EXCEPT !.at = [y |-> y, x |-> x]]

Shown(s, columns, as) ==
  LET from == Place(s.at.y, s.at.x)
  IN  [s EXCEPT
         !.cells = [c \in DOMAIN @ |-> IF c \in from..(from + columns - 1) THEN as ELSE @[c]],
         !.at.x = @ + columns]

Text(s) == IF s.cwin = 0 THEN "unread" ELSE "other"
os_display(s, columns) ==
  [Shown(s, columns, Text(s)) EXCEPT
     !.outside = @ \/ /\ s.cwin = 1
                      /\ s.at.x + columns - 1 > cwp(s).x_pos + cwp(s).x_size - 1]

os_erase_area(s, top, left, bot, right) ==
  LET area == {Place(y, x) : y \in top..bot, x \in left..right}
  IN  [s EXCEPT !.cells = [c \in DOMAIN @ |-> IF c \in area THEN "blank" ELSE @[c]]]

(* A row is copied from the one below, which is erased: the last one takes *)
(* what is below the area.                                                 *)
os_scroll_area(s, top, bot) ==
  LET row(c) == 1 + ((c - 1) \div Width)
  IN  [s EXCEPT
         !.cells = [c \in DOMAIN @ |-> IF row(c) \in top..bot THEN @[c + Width]
                                       ELSE IF row(c) = bot + 1 THEN "blank" ELSE @[c]],
         !.lost = @ \/ \E c \in DOMAIN s.cells : row(c) = top /\ s.cells[c] = "unread"]

(* The player has a pause to read everything.                              *)
Read(s) ==
  [s EXCEPT !.cells = [c \in DOMAIN @ |-> IF @[c] = "unread" THEN "read" ELSE @[c]]]

os_more_prompt(s) ==
  LET asked == Read(Shown(s, MoreWidth, "other"))
  IN  [Shown([asked EXCEPT !.at = s.at], MoreWidth, "blank") EXCEPT !.at = s.at]
-----------------------------------------------------------------------------
(* Cursors, new lines, characters and words.                               *)
update_cursor(s) ==
  os_set_cursor(s, cwp(s).y_pos + cwp(s).y_cursor - 1, cwp(s).x_pos + cwp(s).x_cursor - 1)

reset_cursor(s, win) ==
  LET lines == IF h_version <= 4 /\ win = 0 THEN s.wp[0].y_size - 1 ELSE 0
      t == [s EXCEPT !.wp[win].y_cursor = lines + 1,
                     !.wp[win].x_cursor = s.wp[win].left + 1]
  IN  IF win = s.cwin THEN update_cursor(t) ELSE t

units_left(s) == cwp(s).x_size - cwp(s).right - cwp(s).x_cursor + 1

Rows(s) ==
  LET above == cwp(s).y_cursor - 1
      below == cwp(s).y_size - cwp(s).y_cursor + 1
  IN  above + below - 1
OneMoreRow(s) == Rows(s) + 1                                             \* faulty
CountdownTo(s) == Rows(s)

screen_new_line(s) ==
  LET w == cwp(s)
      last == w.y_cursor + 1 > w.y_size
      left == [s EXCEPT !.input.redraw = @ \/ s.input.window = s.cwin,
                        !.wp[s.cwin].x_cursor = w.left + 1]
      moved ==
        IF ~last THEN [left EXCEPT !.wp[s.cwin].y_cursor = @ + 1]
        ELSE IF "scrolling" \in s.enable
             THEN os_scroll_area(left, w.y_pos, w.y_pos + w.y_size - 1)
             ELSE [left EXCEPT !.wp[s.cwin].y_cursor = 1]
      counted == [update_cursor(moved) EXCEPT !.wp[s.cwin].line_count = @ + 1]
  IN  IF "scrolling" \notin s.enable THEN update_cursor(moved)
      ELSE IF cwp(counted).line_count < CountdownTo(counted) THEN counted
      ELSE [(IF more_prompts THEN os_more_prompt(counted) ELSE Read(counted))
              EXCEPT !.wp[s.cwin].line_count = 0]

(* An indent counts for one unit but takes three columns.  A character     *)
(* that does not fit is dropped, and the window's cursor set to the last   *)
(* column, so that the next one does fit, for the window.                  *)
Columns(c) == IF c = "indent" THEN 3 ELSE 1

Advance(s, units) == [s EXCEPT !.wp[s.cwin].x_cursor = @ + units]
Clipped(s) == [s EXCEPT !.wp[s.cwin].x_cursor = cwp(s).x_size - cwp(s).right]

screen_char(s, char) ==
  LET c == IF char = "indent" /\ cwp(s).x_cursor # cwp(s).left + 1 THEN "space" ELSE char
      full == units_left(s) < 1
  IN  IF full /\ "wrapping" \notin s.enable THEN Clipped(s)
      ELSE Advance(os_display(IF full THEN screen_new_line(s) ELSE s, Columns(c)), 1)

Chars(n) == [i \in 1..n |-> "letter"]
Total(word) == FoldLeft(LAMBDA n, c : n + Columns(c), 0, word)
Displayed(s, word) == Advance(os_display(s, Total(word)), Len(word))

screen_word(s0, word0) ==
  LET first == word0 # <<>> /\ Head(word0) = "indent" /\ cwp(s0).x_cursor # cwp(s0).left + 1
      s     == IF first THEN screen_char(s0, "indent") ELSE s0
      word  == IF first THEN Tail(word0) ELSE word0
      rest  == IF word # <<>> /\ Head(word) \in {"space", "indent"}
               THEN Tail(word) ELSE word
  IN  IF units_left(s) >= Len(word) THEN Displayed(s, word)
      ELSE IF "wrapping" \notin s.enable THEN FoldLeft(screen_char, s, word)
      ELSE Displayed(screen_new_line(s), rest)
-----------------------------------------------------------------------------
(* Lines typed and keys.                                                   *)
screen_write_input(s, n, key) ==
  LET line  == IF units_left(s) < n THEN screen_new_line(s) ELSE s
      shown == Advance(Shown(line, n, "read"), n)
  IN  IF key = "return" THEN screen_new_line(shown) ELSE shown

screen_erase_input(s, n) ==
  LET back == Advance(s, -n)
      y == cwp(back).y_pos + cwp(back).y_cursor - 1
      x == cwp(back).x_pos + cwp(back).x_cursor - 1
  IN  IF n = 0 THEN s ELSE os_set_cursor(os_erase_area(back, y, x, y, x + n - 1), y, x)

(* os_read_line with n characters in the buffer: l are there in the end,   *)
(* and the cursor is after i of them.                                      *)
os_read_line(s, n, l, i, continued) ==
  LET start == [s EXCEPT !.at.x = @ - (IF continued THEN n + 1 ELSE 0)]
      clear == Shown(start, MaxInput, "blank")
  IN  [Shown([clear EXCEPT !.at = start.at], l, "read") EXCEPT !.at.x = start.at.x + i]

Answered(key) == key # "time out"
NoCounts(s) == [s EXCEPT !.wp = [w \in Window |-> [@[w] EXCEPT !.line_count = 0]]]

Begun(s, n, continued) ==
  LET room    == IF s.cwin = 0 /\ units_left(s) + n < MinInput THEN screen_new_line(s) ELSE s
      visible == IF continued /\ room.input.redraw THEN screen_write_input(room, n, "none")
                 ELSE room
  IN  Advance([visible EXCEPT !.input = [window |-> s.cwin, redraw |-> FALSE]], -n)

console_read_input(s, n, continued, l, i, key) ==
  LET ended   == Advance(os_read_line(Begun(s, n, continued), n, l, i, continued), l)
      counted == IF Answered(key) THEN NoCounts(Read(ended)) ELSE ended
  IN  IF key = "return" THEN screen_new_line(counted) ELSE counted
-----------------------------------------------------------------------------
(* Windows.                                                                *)
update_attributes(s) == [s EXCEPT !.enable = cwp(s).attribute]

set_window(s, win) ==
  LET t == update_attributes([s EXCEPT !.cwin = win])
  IN  update_cursor(IF win = 0 THEN t
                    ELSE [t EXCEPT !.wp[win].y_cursor = 1, !.wp[win].x_cursor = 1])

erase_window(s, win) ==
  LET w == s.wp[win]
      erased == os_erase_area(s, w.y_pos, w.x_pos, w.y_pos + w.y_size - 1,
                              w.x_pos + w.x_size - 1)
  IN  [reset_cursor(erased, win) EXCEPT !.wp[win].line_count = 0]

(* A story that makes the lower window smaller has done with the text it   *)
(* printed: the first line left may scroll away with the next new line.    *)
GivenUp(s, before) == IF s.wp[0].y_size < before.wp[0].y_size THEN Read(s) ELSE s

Unswallowed(s) == s                                                  \* faulty
NotSwallowed(s) == IF s.wp[0].y_cursor < 1 THEN reset_cursor(s, 0) ELSE s

split_window(s, height) ==
  LET stat_height == IF h_version <= 3 THEN 1 ELSE 0
      upper == [s EXCEPT !.wp[1].y_cursor = @ + s.wp[1].y_pos - 1 - stat_height,
                         !.wp[1].y_pos = 1 + stat_height,
                         !.wp[1].y_size = height]
      kept  == IF upper.wp[1].y_cursor > height THEN reset_cursor(upper, 1) ELSE upper
      lower == [kept EXCEPT !.wp[0].y_cursor = @ + s.wp[0].y_pos - 1 - stat_height - height,
                            !.wp[0].y_pos = 1 + stat_height + height,
                            !.wp[0].y_size = Height - stat_height - height]
      split == GivenUp(NotSwallowed(lower), s)
  IN  IF h_version = 3 /\ height # 0 THEN erase_window(split, 1) ELSE split

erase_screen(s, win) ==
  LET erased == os_erase_area(s, 1, 1, Height, Width)
  IN  NoCounts(IF win = -1 THEN reset_cursor(set_window(split_window(erased, 0), 0), 0)
               ELSE erased)

Fresh(win) ==
  [y_pos |-> 1, x_pos |-> 1, y_size |-> 0,
   x_size |-> IF win # 7 \/ h_version <= 3 THEN Width ELSE 0,
   y_cursor |-> 1, x_cursor |-> 1, left |-> 0, right |-> 0,
   attribute |-> IF win = 0 THEN {"wrapping", "scrolling", "scripting", "buffering"}
                 ELSE {"buffering"},
   line_count |-> 0]
restart_screen(s) == erase_screen([s EXCEPT !.wp = [win \in Window |-> Fresh(win)]], -1)

Put(s, word) ==
  IF "buffering" \in s.enable THEN screen_word(s, word) ELSE FoldLeft(screen_char, s, word)

screen_mssg(s, n) ==
  LET line == IF cwp(s).x_cursor # cwp(s).left + 1 THEN screen_new_line(s) ELSE s
  IN  IF s.cwin # 0 THEN s
      ELSE screen_new_line(Put(screen_char(line, "indent"), Chars(n)))

(* The status line: the text, padded to the place of a second one and to   *)
(* the edge.                                                               *)
pad_status_line(s, column) ==
  FoldLeft(screen_char, s,
           [i \in 1..(IF units_left(s) > column THEN units_left(s) - column ELSE 0) |-> "space"])
z_show_status(s, n, m) ==
  LET object == Put(set_window(s, 7), <<"space">> \o Chars(n))
      score  == Put(pad_status_line(object, m), Chars(m))
  IN  set_window(pad_status_line(score, 0), 0)

(* A cursor beyond the right margin, where the number of units is negative *)
(* and the code takes it for a very large one, erases nothing here.        *)
z_erase_line(s, pixels) ==
  LET n == IF pixels = 1 \/ pixels - 1 > units_left(s) \/ pixels = 0
           THEN units_left(s) ELSE pixels - 1
      y == cwp(s).y_pos + cwp(s).y_cursor - 1
      x == cwp(s).x_pos + cwp(s).x_cursor - 1
  IN  os_erase_area(s, y, x, y, x + n - 1)

(* Each line of a table starts in the column of the first one.             *)
z_print_table(s, width, height) ==
  LET Line(t, i) ==
        LET down == update_cursor([t EXCEPT !.wp[t.cwin].y_cursor = @ + 1,
                                            !.wp[t.cwin].x_cursor = cwp(s).x_cursor])
        IN  Put(IF i = 1 THEN t ELSE down, Chars(width))
  IN  FoldLeft(Line, s, [i \in 1..height |-> i])

z_set_cursor(s, y, x) ==
  LET w == s.wp[1]
      line   == IF y = 0 THEN w.y_cursor ELSE y
      column == IF x = 0 THEN w.x_cursor ELSE x
      inside == IF column <= w.left \/ column > w.x_size - w.right THEN w.left + 1 ELSE column
      moved  == [s EXCEPT !.wp[1].y_cursor = line, !.wp[1].x_cursor = inside]
  IN  IF s.cwin = 0 THEN s ELSE IF s.cwin = 1 THEN update_cursor(moved) ELSE moved

z_buffer_mode(s, on) ==
  update_attributes([s EXCEPT !.wp[0].attribute =
                       IF on THEN @ \cup {"buffering"} ELSE @ \ {"buffering"}])
-----------------------------------------------------------------------------
Start ==
  [wp |-> [win \in Window |-> Fresh(win)], cwin |-> 0, enable |-> {},
   input |-> [window |-> 0, redraw |-> FALSE],
   cells |-> [c \in 1..Place(Height + Below, Width) |-> "blank"],
   at |-> [y |-> Height, x |-> 1], lost |-> FALSE, outside |-> FALSE]
Init ==
  /\ h_version \in Versions
  /\ more_prompts = TRUE /\ typing = None /\ steps = 0
  /\ LET s == restart_screen(Start)
     IN  /\ wp = s.wp /\ cwin = s.cwin /\ enable = s.enable /\ input = s.input
         /\ cells = s.cells /\ at = s.at /\ lost = s.lost /\ outside = s.outside

(* An opcode of the story, or of its routine while input has timed out.    *)
Opcode(s) ==
  /\ steps < MaxSteps /\ steps' = steps + 1
  /\ Becomes(s)
  /\ UNCHANGED <<h_version, more_prompts, typing>>
Outside(s) == typing = None /\ Opcode(s)      \* of the story only

Words(lead, n) ==
  /\ "wrapping" \in enable \/ Clips \/ Total(lead) + n <= units_left(Now)
  /\ Opcode(Put(Now, lead \o Chars(n)))
NewLine == Opcode(screen_new_line(Now))
Message(n) == Outside(screen_mssg(Now, n))
SetWindow(win) == Opcode(set_window(Now, win))
EraseWindow(win) ==
  Opcode(IF win < 0 THEN erase_screen(Now, win) ELSE erase_window(Now, win))
SplitWindow(height) == Opcode(split_window(Now, height))
EraseLine(pixels) == Opcode(z_erase_line(Now, pixels))
SetCursor(y, x) ==
  /\ y \in 0..wp[1].y_size
  /\ Opcode(z_set_cursor(Now, y, x))
BufferMode(on) == Opcode(z_buffer_mode(Now, on))
ShowStatus(n, m) ==
  /\ h_version <= 3 /\ (Clips \/ 1 + n + m <= Width)
  /\ Outside(z_show_status(Now, n, m))
Restart == Outside(restart_screen(Now))

(* Tables are printed in the upper window, and fit there.                  *)
PrintTable(width, height) ==
  /\ cwin = 1 /\ wp[1].y_cursor + height - 1 <= wp[1].y_size
  /\ wp[1].x_cursor + width - 1 <= Width
  /\ Opcode(z_print_table(Now, width, height))

ReadKey(key) ==
  Outside(IF Answered(key) THEN NoCounts(Read(Now)) ELSE Now)

Typed(n, continued, l, i, key) ==
  /\ steps < MaxSteps /\ steps' = steps + 1
  /\ i \in 0..l
  /\ Becomes(console_read_input(Now, n, continued, l, i, key))
  /\ typing' = IF key = "time out" THEN l ELSE None
  /\ UNCHANGED <<h_version, more_prompts>>
ReadLine(l, i, key) == typing = None /\ Typed(0, FALSE, l, i, key)

(* Each time out moves the line one column to the left: so often that it   *)
(* would leave its row it does not time out here.                          *)
Continue(l, i, key) ==
  /\ typing # None /\ Begun(Now, typing, TRUE).at.x > typing + 1
  /\ Typed(typing, TRUE, l, i, key)
Abandon == typing # None /\ typing' = None
           /\ UNCHANGED <<h_version, wp, cwin, enable, more_prompts, input, cells, at, lost,
                          outside, steps>>

(* A line read from a file of commands, over n characters that the story   *)
(* printed for the player to change.                                       *)
Replay(n, l, key) ==
  /\ cwp(Now).x_cursor > n
  /\ Outside(screen_write_input(screen_erase_input(Now, n), l, key))

(* The player may turn the prompts off for that.                           *)
set_more_prompts(flag) ==
  /\ typing = None /\ more_prompts' = flag
  /\ Becomes(IF flag /\ ~more_prompts
             THEN Read([Now EXCEPT !.wp[cwin].line_count = 0]) ELSE Now)
  /\ UNCHANGED <<h_version, typing, steps>>

Key == {"return", "time out", "other"}
Lead == {<<>>, <<"space">>}
Output ==
  \/ \E lead \in Lead, n \in Lengths : Words(lead, n)
  \/ NewLine
  \/ \E n \in Lengths : Message(n)
  \/ \E n, m \in Lengths : ShowStatus(n, m)
  \/ \E n, m \in Lengths : PrintTable(n, m)
Windows ==
  \/ \E win \in 0..1 : SetWindow(win)
  \/ \E win \in -2..1 : EraseWindow(win)
  \/ \E height \in Heights : SplitWindow(height)
  \/ \E pixels \in 0..2 : EraseLine(pixels)
  \/ \E y \in 0..Height, x \in {0, Width} : SetCursor(y, x)
  \/ \E on \in BOOLEAN : BufferMode(on)
  \/ Restart
Input ==
  \/ \E key \in Key : ReadKey(key)
  \/ \E l, i \in Lengths, key \in Key : ReadLine(l, i, key) \/ Continue(l, i, key)
  \/ Abandon
  \/ \E n, l \in Lengths, key \in Key : Replay(n, l, key)
  \/ \E flag \in BOOLEAN : set_more_prompts(flag)
Next == Output \/ Windows \/ Input

Spec == Init /\ [][Next]_vars
-----------------------------------------------------------------------------
TypeOK ==
  /\ cwin \in Window /\ typing \in Lengths \cup {None}
  /\ cells \in [1..Place(Height + Below, Width) -> Cell]
  /\ \A win \in Window : wp[win].line_count \in Nat

(* No text of the lower window scrolls off the screen before the player    *)
(* had a pause to read it, whatever the story does with the windows        *)
(* between two prompts, short of making the lower one smaller.  (A lower   *)
(* window of a single line scrolls it away before the prompt.)             *)
Paged == lost = FALSE

(* The hardware cursor is on the line of the window's cursor, and that is  *)
(* a line of the window, so text never goes to another one.                *)
OnItsLine ==
  /\ TypeOK
  /\ at.y = wp[cwin].y_pos + wp[cwin].y_cursor - 1
  /\ wp[cwin].y_size > 0 => wp[cwin].y_cursor \in 1..wp[cwin].y_size

(* What is above the lower window stays while the story and the player     *)
(* use the lower window: it goes only if a window is erased, or is written *)
(* again as the status line.                                               *)
Row(c) == 1 + ((c - 1) \div Width)
StatusLine(c) == h_version <= 3 /\ Row(c) = 1
UpperKeeps ==
  [][cwin = 0 /\ cwin' = 0 /\ typing = None =>
       \A c \in DOMAIN cells : Row(c) < wp'[0].y_pos /\ Row(c) < wp[0].y_pos
         => \/ cells'[c] \in {cells[c], "blank"}
            \/ StatusLine(c) /\ cells'[c] = "other"]_vars

(* Text of the upper window, which clips, does not go on in the next row.  *)
InWindow == outside = FALSE
=============================================================================
