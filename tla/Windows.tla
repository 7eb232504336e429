------------------------------ MODULE Windows ------------------------------
(***************************************************************************)
(* What screen.c keeps for each window, and what it tells the display, in  *)
(* versions 5 and 6: place and size, cursor and margins, colours, style    *)
(* and attributes.  The display has one cursor, one colour and one style.  *)
(* Words wait in the buffer of buffer.c, and a change of style waits there *)
(* with them, so the story is ahead of the display.                        *)
(*                                                                         *)
(* The cells of the screen and the [more] prompts are in Screen.  A font   *)
(* other than the normal one is refused in this port, and no picture is    *)
(* there.  Left out is z_put_wind_prop, which can set properties that have *)
(* an opcode of their own; those that have none are the newline interrupt  *)
(* and the count of lines.                                                 *)
(***************************************************************************)
EXTENDS Integers, Sequences, SequencesExt

CONSTANTS
  Window,            \* windows used, 0 and 1 among them
  Height, Width,     \* of the screen
  Positions, Sizes,  \* rows and columns, heights and widths a story asks for
  Margins,           \* left and right
  Styles,            \* sets of styles
  Colours,           \* pairs of foreground and background: -1, 0, 1 are special
  Flags,             \* sets of attributes
  MaxWord,           \* bound: characters that wait
  MaxSteps           \* bound: opcodes

Attribute == {"wrapping", "scrolling", "scripting", "buffering"}
WindowsAssumption ==
  /\ {0, 1} \subseteq Window /\ Window \subseteq 0..7
  /\ {Height, Width, MaxWord, MaxSteps} \subseteq Nat \ {0}
  /\ Positions \subseteq (1..Height) \X (1..Width)
  /\ Sizes \subseteq (1..Height) \X (MaxWord..Width)
  /\ \A m \in Margins : m[1] + m[2] + MaxWord <= Width
  /\ Colours \subseteq (-1..12) \X (-1..12)
  /\ Flags \subseteq SUBSET Attribute

VARIABLES
  h_version,
  s,                 \* windows, streams, buffer and display, as below
  told,              \* what the last opcode told the story
  steps

vars == <<h_version, s, told, steps>>
Nothing == [kind |-> "nothing"]

DEFAULT == <<10, 6>>        \* grey on blue
V6 == h_version = 6
None == <<>>
cwp(t) == t.wp[t.cwin]

(* The windows that an opcode can name; in version 6 -3 is the current one. *)
winarg0 == IF V6 THEN Window ELSE {0, 1}

(* The style that a window's text has to have, and its colours.            *)
StyleOf(t) ==
  IF V6 THEN cwp(t).style
  ELSE t.wp[0].style \cup (IF t.cwin # 0 \/ t.fixed THEN {"fixed"} ELSE {})
ColourOf(t) == IF V6 THEN cwp(t).colour ELSE t.wp[0].colour
Due(t) == [win |-> t.cwin, style |-> StyleOf(t), colour |-> ColourOf(t)]
-----------------------------------------------------------------------------
(* The display.  A character is shown wherever its cursor is; right stays  *)
(* TRUE while every one comes out as it was due when the story printed it. *)
os_set_cursor(t, y, x) == [t EXCEPT !.at = <<y, x>>]

(* The byte that the hardware wants beside a character: of four bits for   *)
(* the background one stands for blinking, and one of the foreground's for *)
(* bright.  It is kept until a colour or a style is set.                   *)
color_code(c) ==
  CASE c = 2 -> 0 [] c = 3 -> 4 [] c = 4 -> 2 [] c = 5 -> 14 [] c = 6 -> 1 [] c = 7 -> 5
    [] c = 8 -> 3 [] c = 9 -> 15 [] c \in {11, 12} -> 8 [] OTHER -> 7
Raised(byte, bit, set) == IF set /\ (byte \div bit) % 2 = 0 THEN byte + bit ELSE byte
compute_color(c, style) ==
  LET front == IF "reverse" \in style THEN 2 ELSE 1
      byte  == 16 * color_code(c[3 - front]) + color_code(c[front])
  IN  Raised(Raised(byte, 8, "bold" \in style), 128, "emphasis" \in style)

os_set_colour(t, c) == [t EXCEPT !.colour = c, !.color = compute_color(c, t.style)]
os_set_text_style(t, style) ==
  [t EXCEPT !.style = style, !.color = compute_color(t.colour, style)]

os_display_char(t, item) ==
  [t EXCEPT !.at[2] = @ + 1,
            !.right = @ /\ (item.due # None =>
                              /\ item.due.win = t.cwin
                              /\ compute_color(item.due.colour, item.due.style) = t.color)]
IsChar(item) == item.kind \in {"letter", "space"}
Shown(t, item) ==
  IF IsChar(item) THEN os_display_char(t, item)
  ELSE IF item.kind = "style" THEN os_set_text_style(t, item.style) ELSE t

update_cursor(t) ==
  os_set_cursor(t, cwp(t).y_pos + cwp(t).y_cursor - 1, cwp(t).x_pos + cwp(t).x_cursor - 1)
reset_cursor(t, win) ==
  LET home == [t EXCEPT !.wp[win].y_cursor = 1, !.wp[win].x_cursor = t.wp[win].left + 1]
  IN  IF win = t.cwin THEN update_cursor(home) ELSE home

units_left(t) == cwp(t).x_size - cwp(t).right - cwp(t).x_cursor + 1

screen_new_line(t) ==
  LET w == cwp(t)
      row == IF w.y_cursor + 1 <= w.y_size THEN w.y_cursor + 1
             ELSE IF "scrolling" \in t.enable THEN w.y_cursor ELSE 1
  IN  update_cursor([t EXCEPT !.wp[t.cwin].x_cursor = w.left + 1, !.wp[t.cwin].y_cursor = row])

Cells(items) == Len(SelectSeq(items, IsChar))
Displayed(t, items) ==
  [FoldLeft(Shown, t, items) EXCEPT !.wp[t.cwin].x_cursor = @ + Cells(items)]

(* What does not fit into a window that clips is not printed here.         *)
screen_char(t, item) ==
  Displayed(IF units_left(t) < 1 THEN screen_new_line(t) ELSE t, <<item>>)
screen_word(t, items) ==
  LET rest == IF Head(items).kind = "space" THEN Tail(items) ELSE items
  IN  IF units_left(t) >= Cells(items) THEN Displayed(t, items)
      ELSE Displayed(screen_new_line(t), rest)

(* stream_word and stream_char: to memory, to the screen, or nowhere.      *)
flush_buffer(t) ==
  LET out == IF t.buffer = <<>> \/ t.memory \/ ~t.screen THEN t ELSE screen_word(t, t.buffer)
  IN  [out EXCEPT !.buffer = <<>>]

print_char(t, item) ==
  IF t.memory \/ "buffering" \in t.enable
  THEN [(IF item.kind = "space" THEN flush_buffer(t) ELSE t)
          EXCEPT !.buffer = Append(@, item)]
  ELSE IF t.screen THEN screen_char(t, item) ELSE t
-----------------------------------------------------------------------------
(* The style goes the way of the text: into the buffer, or at once.        *)
StyleAtOnce(t) == os_set_text_style(t, StyleOf(t))                   \* faulty
Waits(t) == ~t.memory /\ t.screen /\ "buffering" \in t.enable
refresh_text_style(t) ==
  IF Waits(t) THEN print_char(t, [kind |-> "style", style |-> StyleOf(t)])
  ELSE os_set_text_style(t, StyleOf(t))

update_attributes(t) == [t EXCEPT !.enable = cwp(t).attribute]

set_window(t, win) ==
  LET to == update_attributes([flush_buffer(t) EXCEPT !.cwin = win])
      set == IF V6 THEN os_set_text_style(os_set_colour(to, cwp(to).colour), cwp(to).style)
             ELSE refresh_text_style(to)
  IN  update_cursor(IF ~V6 /\ win # 0
                    THEN [set EXCEPT !.wp[win].y_cursor = 1, !.wp[win].x_cursor = 1] ELSE set)

(* The area has the colours of its window; then those of the current one   *)
(* are set again.                                                          *)
ColoursLeft(t, win) == os_set_colour(t, t.wp[win].colour)                \* faulty
ColoursBack(t, win) == os_set_colour(os_set_colour(t, t.wp[win].colour), cwp(t).colour)
erase_window(t, win) ==
  reset_cursor(IF V6 /\ win # t.cwin THEN ColoursBack(t, win) ELSE t, win)

split_window(t0, height) ==
  LET t == flush_buffer(t0)
      upper == [t EXCEPT !.wp[1].y_cursor = @ + t.wp[1].y_pos - 1,
                         !.wp[1].y_pos = 1, !.wp[1].y_size = height]
      kept  == IF upper.wp[1].y_cursor > height THEN reset_cursor(upper, 1) ELSE upper
      lower == [kept EXCEPT !.wp[0].y_cursor = @ + t.wp[0].y_pos - 1 - height,
                            !.wp[0].y_pos = 1 + height, !.wp[0].y_size = Height - height]
  IN  IF lower.wp[0].y_cursor < 1 THEN reset_cursor(lower, 0) ELSE lower

erase_screen(t, win) ==
  IF win = -1 THEN reset_cursor(set_window(split_window(t, 0), 0), 0) ELSE t

Fresh(win) ==
  [y_pos |-> 1, x_pos |-> 1, y_size |-> 0, x_size |-> IF win \in 0..1 THEN Width ELSE 0,
   y_cursor |-> 1, x_cursor |-> 1, left |-> 0, right |-> 0, style |-> {}, colour |-> DEFAULT,
   attribute |-> IF win = 0 THEN Attribute ELSE {"buffering"}]
restart_screen(t) ==
  erase_screen([os_set_text_style(os_set_colour(t, DEFAULT), {})
                  EXCEPT !.wp = [win \in Window |-> Fresh(win)], !.mwin = 1], -1)

(* A message of the interpreter, in plain style: only in the lower window. *)
Message(t) ==
  LET plain == os_set_text_style(flush_buffer(t), {})
      line  == IF cwp(plain).x_cursor # cwp(plain).left + 1 THEN screen_new_line(plain) ELSE plain
      said  == Displayed(line, <<[kind |-> "letter", due |-> None]>>)
  IN  IF ~t.screen \/ t.cwin # 0 THEN flush_buffer(t)
      ELSE refresh_text_style(screen_new_line(said))
-----------------------------------------------------------------------------
Start ==
  [wp |-> [win \in Window |-> Fresh(win)], cwin |-> 0, enable |-> Attribute, mwin |-> 1,
   fixed |-> FALSE, memory |-> FALSE, screen |-> TRUE, buffer |-> <<>>,
   at |-> <<1, 1>>, colour |-> DEFAULT, style |-> {}, color |-> 0, right |-> TRUE]

Init ==
  /\ h_version \in {5, 6}
  /\ s = restart_screen(Start) /\ told = Nothing /\ steps = 0

Opcode(t) ==
  /\ steps < MaxSteps /\ steps' = steps + 1
  /\ s' = t /\ told' = Nothing /\ UNCHANGED h_version

Buffered == Cells(s.buffer)
PrintChar(kind) ==
  /\ Buffered < MaxWord
  /\ ~s.memory /\ s.screen => cwp(s).y_size > 0 /\ cwp(s).x_size > 0
  /\ "wrapping" \in s.enable \/ units_left(s) > Buffered
  /\ Opcode(print_char(s, [kind |-> kind, due |-> Due(s)]))
NewLine ==
  LET t == flush_buffer(s)
  IN  Opcode(IF t.memory \/ ~t.screen THEN t ELSE screen_new_line(t))

z_set_window(win) == Opcode(set_window(s, win))
z_split_window(height) == Opcode(split_window(s, height))
z_erase_window(win) ==
  LET t == flush_buffer(s)
  IN  Opcode(IF win < 0 THEN erase_screen(t, win) ELSE erase_window(t, win))
z_restart == Opcode(restart_screen(flush_buffer(s)))

z_set_text_style(style) ==
  LET win == IF V6 THEN s.cwin ELSE 0
  IN  Opcode(refresh_text_style(
        [s EXCEPT !.wp[win].style = IF style = {} THEN {} ELSE @ \cup style]))
FixedFontFlag(flag) == Opcode(refresh_text_style([s EXCEPT !.fixed = flag]))

(* Only the normal font is there; setting it changes nothing, but waits.   *)
z_set_font ==
  Opcode(IF Waits(s) THEN print_char(s, [kind |-> "font"]) ELSE s)

(* The colour at the cursor is not known in this port: it is kept.         *)
z_set_colour(colour, win) ==
  LET t == flush_buffer(s)
      to == [i \in 1..2 |-> IF colour[i] \in {-1, 0} THEN t.wp[win].colour[i]
                            ELSE IF colour[i] = 1 THEN DEFAULT[i] ELSE colour[i]]
      set == [t EXCEPT !.wp[win].colour = <<to[1], to[2]>>]
  IN  /\ V6 \/ win = 0
      /\ Opcode(IF win = t.cwin \/ ~V6 THEN os_set_colour(set, set.wp[win].colour) ELSE set)

z_buffer_mode(on) ==
  LET t == flush_buffer(s)
  IN  Opcode(IF V6 THEN s
             ELSE update_attributes([t EXCEPT !.wp[0].attribute =
                    IF on THEN @ \cup {"buffering"} ELSE @ \ {"buffering"}]))

z_set_cursor(y, x, win) ==
  LET t == flush_buffer(s)
      w == t.wp[win]
      line == IF y = 0 THEN w.y_cursor ELSE y
      column == IF x = 0 THEN w.x_cursor ELSE x
      inside == IF column <= w.left \/ column > w.x_size - w.right THEN w.left + 1 ELSE column
      moved == [t EXCEPT !.wp[win].y_cursor = line, !.wp[win].x_cursor = inside]
  IN  /\ V6 \/ win = 1
      /\ Opcode(IF ~V6 /\ t.cwin = 0 THEN t
                ELSE IF win = t.cwin THEN update_cursor(moved) ELSE moved)

(* The opcodes of version 6.                                               *)
z_move_window(win, y, x) ==
  LET moved == [flush_buffer(s) EXCEPT !.wp[win].y_pos = y, !.wp[win].x_pos = x]
  IN  V6 /\ Opcode(IF win = s.cwin THEN update_cursor(moved) ELSE moved)

z_window_size(win, height, width) ==
  LET sized == [flush_buffer(s) EXCEPT !.wp[win].y_size = height, !.wp[win].x_size = width]
      out == sized.wp[win].y_cursor > height \/ sized.wp[win].x_cursor > width
  IN  V6 /\ Opcode(IF out THEN reset_cursor(sized, win) ELSE sized)

z_set_margins(win, left, right) ==
  LET set == [flush_buffer(s) EXCEPT !.wp[win].left = left, !.wp[win].right = right]
      w == set.wp[win]
      moved == [set EXCEPT !.wp[win].x_cursor = left + 1]
  IN  /\ V6
      /\ Opcode(IF w.x_cursor > left /\ w.x_cursor <= w.x_size - right THEN set
                ELSE IF win = s.cwin THEN update_cursor(moved) ELSE moved)

Styled(old, flags, operation) ==
  CASE operation = 0 -> flags [] operation = 1 -> old \cup flags
    [] operation = 2 -> old \ flags [] operation = 3 -> (old \ flags) \cup (flags \ old)
z_window_style(win, flags, operation) ==
  LET set == [flush_buffer(s) EXCEPT !.wp[win].attribute = Styled(@, flags, operation)]
  IN  V6 /\ Opcode(IF win = s.cwin THEN update_attributes(set) ELSE set)

z_scroll_window(win) ==
  LET t == flush_buffer(s)
  IN  V6 /\ Opcode(IF win # t.cwin THEN ColoursBack(t, win) ELSE t)

(* No picture is there to be drawn or erased, and a question about one is  *)
(* answered at once: no branch is taken, and no text is waited for.        *)
z_draw_picture == Opcode(flush_buffer(s))
z_erase_picture == Opcode(flush_buffer(s))
z_picture_data == Opcode(s)

(* The streams: the screen may be turned off, text redirected to memory.   *)
OutputStream(screen, memory) ==
  Opcode([flush_buffer(s) EXCEPT !.screen = screen, !.memory = memory])

(* What the story is told: a click of the mouse, in the coordinates of the *)
(* mouse window, and where the cursor is.                                  *)
Answer(t, kind, place) ==
  /\ steps < MaxSteps /\ steps' = steps + 1
  /\ s' = t /\ told' = [kind |-> kind, y |-> place[1], x |-> place[2]]
  /\ UNCHANGED h_version

z_mouse_window(win) == V6 /\ Opcode([s EXCEPT !.mwin = win])
Inside(w, y, x) ==
  y \in w.y_pos..(w.y_pos + w.y_size - 1) /\ x \in w.x_pos..(w.x_pos + w.x_size - 1)
validate_click(y, x) ==
  LET w == s.wp[s.mwin]
  IN  IF s.mwin < 0 THEN Answer(flush_buffer(s), "click", <<y, x>>)
      ELSE /\ Inside(w, y, x)
           /\ Answer(flush_buffer(s), "click", <<y - w.y_pos + 1, x - w.x_pos + 1>>)

z_get_cursor ==
  LET t == flush_buffer(s)
  IN  Answer(t, "cursor", <<cwp(t).y_cursor, cwp(t).x_cursor>>)

(* Two of the window properties are the cursor.                            *)
z_get_wind_prop(win) ==
  LET t == flush_buffer(s)
  IN  /\ V6
      /\ Answer(t, IF win = t.cwin THEN "cursor" ELSE "other",
                <<t.wp[win].y_cursor, t.wp[win].x_cursor>>)

Output ==
  \/ \E kind \in {"letter", "space"} : PrintChar(kind)
  \/ NewLine
  \/ Opcode(Message(s))
  \/ z_draw_picture \/ z_erase_picture \/ z_picture_data
  \/ \E screen, memory \in BOOLEAN : OutputStream(screen, memory)
Layout ==
  \/ \E win \in winarg0 :
       \/ z_set_window(win) \/ z_scroll_window(win) \/ z_mouse_window(win)
       \/ \E p \in Positions : z_move_window(win, p[1], p[2]) \/ z_set_cursor(p[1], p[2], win)
       \/ \E size \in Sizes : z_window_size(win, size[1], size[2])
       \/ \E m \in Margins : z_set_margins(win, m[1], m[2])
       \/ \E flags \in Flags, operation \in 0..3 : z_window_style(win, flags, operation)
       \/ \E c \in Colours : z_set_colour(c, win)
  \/ \E win \in winarg0 \cup {-2, -1} : z_erase_window(win)
  \/ \E size \in Sizes : z_split_window(size[1])
  \/ z_mouse_window(-1)
  \/ \E style \in Styles : z_set_text_style(style)
  \/ \E flag \in BOOLEAN : FixedFontFlag(flag) \/ z_buffer_mode(flag)
  \/ z_set_font
  \/ z_restart
Questions ==
  \/ z_get_cursor
  \/ \E win \in winarg0 : z_get_wind_prop(win)
  \/ \E p \in Positions : validate_click(p[1], p[2])
Next == Output \/ Layout \/ Questions

Spec == Init /\ [][Next]_vars
-----------------------------------------------------------------------------
(* Text comes out in the window, style and colours that the story had set  *)
(* when it printed it, whatever it set while the text waited.              *)
AsPrinted == s.right

(* The display follows the story: once nothing waits, its cursor is that   *)
(* of the current window, its colours and style those that text there is   *)
(* to have, and the story is told the truth about the cursor and about a   *)
(* click.                                                                  *)
Follows ==
  /\ s.at = <<cwp(s).y_pos + cwp(s).y_cursor - 1, cwp(s).x_pos + cwp(s).x_cursor - 1>>
  /\ s.enable = cwp(s).attribute
  /\ s.buffer = <<>> => s.color = compute_color(ColourOf(s), StyleOf(s))
  /\ told.kind = "cursor" =>
       s.buffer = <<>> /\ s.at = <<cwp(s).y_pos + told.y - 1, cwp(s).x_pos + told.x - 1>>
  /\ told.kind = "click" /\ s.mwin >= 0 =>
       told.y \in 1..s.wp[s.mwin].y_size /\ told.x \in 1..s.wp[s.mwin].x_size
=============================================================================
