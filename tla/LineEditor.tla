----------------------------- MODULE LineEditor -----------------------------
(***************************************************************************)
(* os_read_line of fzos_input.c, the editor of an input line, with what    *)
(* console_read_input and z_read do before it: the game's text is put into *)
(* the buffer, and a line that was interrupted by a timeout or a hot key   *)
(* is taken up again.  The buffer is an array of bytes that ends at the    *)
(* first zero; behind that it holds what was there before.                 *)
(***************************************************************************)
EXTENDS Integers, Sequences

CONSTANTS
  Char,            \* characters of the line
  LineMax,         \* the size of the line, as the game gives it
  Preload,         \* the longest text that the game puts there
  Column,          \* where on the screen a line may start
  Screen           \* bound: the columns where a line is followed

ASSUME LineEditorAssumption ==
  /\ Char # {} /\ 0 \notin Char
  /\ LineMax \in Nat \ {0} /\ Preload \in 0..LineMax
  /\ Column \subseteq Int /\ Screen \subseteq Int

VARIABLES
  at,                  \* "game", "line" while it is edited, "aside" while a
                       \* routine or a hot key interrupts it
  buf, i,              \* the buffer with the bytes around it; the cursor
  start_x, cursor_x,   \* where the line starts on the screen; the cursor
  known                \* no key was used where there was nothing to change

vars == <<at, buf, i, start_x, cursor_x, known>>

(* The last byte a key reaches is that at LineMax + 1; -1 is the one in    *)
(* front of the buffer.  Nobody sets them; sooner or later comes a zero.   *)
Index == -1..(LineMax + 2)
Byte == Char \cup {0}
Blank == [n \in Index |-> 0]
Junk == {b \in [Index -> Byte] : b[LineMax + 2] = 0}

Terminator(b, from) ==
  CHOOSE n \in from..(LineMax + 2) : b[n] = 0 /\ \A m \in from..(n - 1) : b[m] # 0
strlen(b) == Terminator(b, 0)

(* strcpy (&b[to], &b[to + 1]), and memset to zero from an index on.       *)
Dropped(b, to) ==
  [n \in Index |-> IF n \in to..(Terminator(b, to + 1) - 1) THEN b[n + 1] ELSE b[n]]
Erased(b, from) == [n \in Index |-> IF n \in from..(LineMax - 1) THEN 0 ELSE b[n]]

(* A letter, at the end of the line or over another one.                   *)
EndNotMoved(b, n, c) == [b EXCEPT ![n] = c]                       \* faulty
WithLetter(b, n, c) ==
  IF b[n] = 0 THEN [b EXCEPT ![n + 1] = 0, ![n] = c] ELSE [b EXCEPT ![n] = c]
Swapped(b, n) == [b EXCEPT ![n] = b[n - 1], ![n - 1] = b[n]]

Away == /\ at' = "game" /\ buf' = Blank /\ i' = 0 /\ known' = TRUE
        /\ start_x' \in Column /\ cursor_x' = start_x'

Init ==
  /\ at = "game" /\ buf = Blank /\ i = 0 /\ known = TRUE
  /\ start_x \in Column /\ cursor_x = start_x

(* z_read: the game's text, which is on the screen already, and a zero;    *)
(* what comes after is not set.                                            *)
Read ==
  /\ at = "game" /\ at' = "line"
  /\ \E old \in Junk, n \in 0..Preload : \E text \in [0..(n - 1) -> Char] :
       /\ buf' = [b \in Index |-> IF b \in 0..(n - 1) THEN text[b] ELSE IF b = n THEN 0 ELSE old[b]]
       /\ i' = n
  /\ start_x' = cursor_x
  /\ UNCHANGED <<cursor_x, known>>
-----------------------------------------------------------------------------
(* One turn of the loop: a key changes the buffer and the cursor, and the  *)
(* line is drawn again.                                                    *)
Redraw(b, n) ==
  /\ at = "line"
  /\ buf' = b /\ i' = (IF n > LineMax - 1 THEN LineMax ELSE n)
  /\ cursor_x' = start_x + i'
  /\ UNCHANGED <<at, start_x>>

Beyond == known' = FALSE
Within == known' = known

Type(c) ==
  /\ IF i < LineMax - 1 THEN Redraw(WithLetter(buf, i, c), i + 1) ELSE Redraw(buf, i)
  /\ Within

Backspace ==
  /\ IF i > 0 THEN Redraw(Dropped(buf, i - 1), i - 1) ELSE Redraw(buf, i)
  /\ Within

Delete ==                                                            \* ^d
  /\ Redraw(Dropped(buf, i), i)
  /\ IF i < strlen(buf) THEN Within ELSE Beyond

Transpose ==                                                         \* ^t
  /\ Redraw(Swapped(buf, i), i + 1)
  /\ IF i \in 1..(strlen(buf) - 1) THEN Within ELSE Beyond

Kill  == Redraw(Erased(buf, i), i) /\ Within                         \* ^k
Reset == Redraw(Erased(buf, 0), 0) /\ known' = TRUE                  \* ^u

Start == Redraw(buf, 0) /\ Within                                    \* ^a
End   == Redraw(buf, strlen(buf)) /\ Within                          \* ^e
Left  == Redraw(buf, IF i > 0 THEN i - 1 ELSE i) /\ Within           \* ^b
Right == Redraw(buf, IF buf[i] # 0 THEN i + 1 ELSE i) /\ Within      \* ^f
Other == Redraw(buf, i) /\ Within          \* arrows and what is no letter

(* Return and ^c end the line.  The editor also returns when the time is   *)
(* over or a hot key is pressed; the routine that is then called may print *)
(* something, after which console_read_input shows the line once more.     *)
Finish == at = "line" /\ Away

Interrupt ==
  /\ at = "line" /\ at' = "aside"
  /\ cursor_x' \in {cursor_x, 1 + strlen(buf)}
  /\ UNCHANGED <<buf, i, start_x, known>>

(* Bounds: a line that runs past its buffer, after keys that were used     *)
(* beyond the text, is not followed, nor one that leaves the screen.       *)
Followed == i' <= LineMax /\ start_x' \in Screen

Continue ==
  /\ at = "aside" /\ at' = "line"
  /\ i' = strlen(buf)
  /\ start_x' = cursor_x - (i' + 1)
  /\ Followed
  /\ UNCHANGED <<buf, cursor_x, known>>

(* The routine may end the input.                                          *)
Abandon == at = "aside" /\ Away

Next ==
  \/ Read
  \/ \E c \in Char : Type(c)
  \/ Backspace \/ Delete \/ Transpose \/ Kill \/ Reset
  \/ Start \/ End \/ Left \/ Right \/ Other
  \/ Finish \/ Interrupt \/ Continue \/ Abandon

Spec == Init /\ [][Next]_vars
-----------------------------------------------------------------------------
(* The text as the game would get it.                                      *)
Text == [n \in 1..strlen(buf) |-> buf[n - 1]]

(* Whatever else the buffer holds, the player edits the text that would be *)
(* handed over: refers to Line, which knows nothing of bytes.              *)
Editor == INSTANCE Line WITH
  Size <- LineMax,
  text <- IF known THEN Text ELSE <<>>,
  pos  <- IF ~known THEN 0 ELSE IF at = "aside" THEN strlen(buf) ELSE i
ImplementsLine == Editor!Spec
=============================================================================
