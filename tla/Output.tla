------------------------------- MODULE Output -------------------------------
(***************************************************************************)
(* The text output of Frotz: the word buffer of buffer.c, the choice of    *)
(* streams in stream.c, redirection to tables in redirect.c, and what the  *)
(* screen (screen.c) and the transcript (files.c) do with a word.          *)
(*                                                                         *)
(* One thread runs, but a newline on the screen may call a routine of the  *)
(* game (the newline interrupt of version 6), and so may a timeout while a *)
(* key is read: the opcode under way is suspended, in the middle of a      *)
(* flush if the newline came from there, and other opcodes run.  "at" is   *)
(* the place in the opcode, "calls" the suspended ones.                    *)
(*                                                                         *)
(* A character has a number, the order in which it was printed, a kind and *)
(* the width 1.  Lines are told by breaks: an item of kind "break" stands  *)
(* for a newline or for the space it replaced, with number 0 for neither.  *)
(* Left out: debugging messages (message is FALSE), style and font codes,  *)
(* the padding characters, windows that clip, the cursor's line, the lines *)
(* of the transcript and the message about one that cannot be opened.      *)
(***************************************************************************)
EXTENDS Integers, Sequences, FiniteSets

CONSTANTS
  TEXT_BUFFER_SIZE,   \* 200 in frotz.h
  MAX_NESTING,        \* 16 in redirect.c
  WIDTH,              \* units in a line of the window
  XSIZES,             \* widths of formatted tables
  Table,              \* addresses of tables
  Reentrant,          \* whether newline routines print or switch streams
  MaxPrinted,         \* bound: characters printed
  MaxSwitches,        \* bound: other opcodes
  MaxCalls            \* bound: nested routine calls

ASSUME OutputAssumption ==
  /\ {TEXT_BUFFER_SIZE, MAX_NESTING, WIDTH} \subseteq Nat \ {0}
  /\ XSIZES \subseteq Nat \ {0} /\ Table # {}
  /\ Reentrant \in BOOLEAN
  /\ {MaxPrinted, MaxSwitches, MaxCalls} \subseteq Nat

Kinds == {"letter", "space", "hyphen"}
NUL == [id |-> 0, kind |-> "nul"]
Unformatted == -1                          \* xsize 0xffff
Closed == [table |-> CHOOSE t \in Table : TRUE, xsize |-> Unformatted,
           width |-> 0, total |-> 0]

VARIABLES
  buffer, bufpos, locked, prev_c,
  on,             \* ostream_screen and ostream_script
  ostream_memory, enable_buffering,
  depth, redirect,
  memory,         \* the text in each table
  h_line_width,
  screen, x,      \* what was displayed, and the cursor's column
  script,         \* the transcript
  nl_countdown,
  at, todo,       \* the place in the opcode, and the opcode
  s, width,       \* screen_word's pointer into the buffer, and its width
  calls,
  printed,        \* characters printed so far
  switches        \* other opcodes so far

words   == <<buffer, bufpos, locked, prev_c>>
tables  == <<ostream_memory, depth, redirect, memory, h_line_width>>
streams == <<screen, x, script>>
control == <<at, todo, s, width, calls>>
modes   == <<on, enable_buffering, nl_countdown>>
vars == <<words, tables, streams, control, modes, printed, switches>>

Nothing == [name |-> "nothing"]

Init ==
  /\ buffer = [i \in 0..(TEXT_BUFFER_SIZE - 1) |-> NUL]
  /\ bufpos = 0 /\ locked = FALSE /\ prev_c = "nul"
  /\ on = [screen |-> TRUE, script |-> FALSE]
  /\ ostream_memory = FALSE /\ enable_buffering = TRUE
  /\ depth = -1 /\ redirect = [d \in 0..(MAX_NESTING - 1) |-> Closed]
  /\ memory = [t \in Table |-> <<>>] /\ h_line_width = 0
  /\ screen = <<>> /\ x = 0 /\ script = <<>>
  /\ nl_countdown = 0
  /\ at = "idle" /\ todo = Nothing /\ s = 0 /\ width = 0 /\ calls = <<>>
  /\ printed = 0 /\ switches = 0

Char(kind)  == [id |-> printed + 1, kind |-> kind]
Break(item) == [item EXCEPT !.kind = "break"]

(* The string that starts at buffer[i].                                    *)
Terminators(i) == {j \in i..(TEXT_BUFFER_SIZE - 1) : buffer[j] = NUL}
Terminator(i) == CHOOSE j \in Terminators(i) : \A k \in Terminators(i) : j <= k
Text(i) == [n \in 1..(Terminator(i) - i) |-> buffer[i + n - 1]]
-----------------------------------------------------------------------------
(* An opcode begins.  Routines called in the middle of a newline may be    *)
(* barred from printing.                                                   *)
MayPrint == Reentrant \/ (calls # <<>> => calls[Len(calls)].at = "read")

Begin(opcode, place) ==
  /\ at = "idle"
  /\ todo' = opcode /\ at' = place
  /\ UNCHANGED <<words, tables, streams, modes, s, width, calls>>

NoHyphenBreak(kind) == kind = "space"          \* faulty: a hyphen joins
BreaksBefore(kind) == kind = "space" \/ (prev_c = "hyphen" /\ kind # "hyphen")

(* print_char: to the buffer, or at once.                                  *)
PrintChar(kind) ==
  /\ MayPrint /\ printed < MaxPrinted
  /\ IF ostream_memory \/ enable_buffering
     THEN Begin([name |-> "char", kind |-> kind],
                IF BreaksBefore(kind) THEN "flush" ELSE "finish")
     ELSE Begin([name |-> "direct", kind |-> kind], "direct")
  /\ UNCHANGED <<printed, switches>>

NewLine ==
  /\ MayPrint /\ printed < MaxPrinted
  /\ Begin([name |-> "line", kind |-> "break"], "flush")
  /\ UNCHANGED <<printed, switches>>

(* z_output_stream, z_window_style, z_put_wind_prop, z_read_char.          *)
OpenTables == {redirect[d].table : d \in 0..depth}
Switches ==
  [name : {"select"}, stream : {"screen", "script"}, value : BOOLEAN]
    \cup (IF depth < MAX_NESTING
          THEN [name : {"open"}, xsize : XSIZES \cup {Unformatted},
                table : IF depth >= MAX_NESTING - 1 THEN Table ELSE Table \ OpenTables]
          ELSE {})
    \cup [name : {"close", "read"}]
    \cup [name : {"style"}, value : BOOLEAN]
    \cup [name : {"countdown"}, value : 1..2]

BeginSwitch(opcode) ==
  /\ switches < MaxSwitches /\ switches' = switches + 1
  /\ opcode.name # "countdown" => MayPrint
  /\ opcode.name = "countdown" => Len(calls) < MaxCalls
  /\ Begin(IF opcode.name = "read" THEN [name |-> "read", printed |-> printed]
           ELSE opcode, "flush")
  /\ UNCHANGED printed
-----------------------------------------------------------------------------
(* flush_buffer.                                                           *)
IgnoresLock == bufpos = 0                      \* faulty: flushes within a flush
KeepsForTable == locked \/ bufpos = 0 \/ ostream_memory        \* faulty
NothingToFlush == locked \/ bufpos = 0
SkipFlush ==
  /\ at = "flush" /\ NothingToFlush
  /\ at' = "finish"
  /\ UNCHANGED <<words, tables, streams, modes, todo, s, width, calls, printed, switches>>

Flushing == at = "flush" /\ ~NothingToFlush /\ bufpos < TEXT_BUFFER_SIZE
Terminated == [buffer EXCEPT ![bufpos] = NUL]
Word == [n \in 1..bufpos |-> buffer[n - 1]]

PositionKept == bufpos' = bufpos /\ prev_c' = prev_c       \* faulty: no reset
Emptied == bufpos' = 0 /\ prev_c' = "nul"

(* memory_word: a formatted table is broken into lines.                    *)
AppendToTable(items, new_width, new_total) ==
  /\ memory' = [memory EXCEPT ![redirect[depth].table] = @ \o items]
  /\ redirect' = [redirect EXCEPT ![depth].width = new_width,
                                  ![depth].total = new_total]

TableOverflows(r, word) == r.xsize # Unformatted /\ r.width + Len(word) > r.xsize

FlushToTable ==
  LET r    == redirect[depth]
      full == TableOverflows(r, Word)
      drop == full /\ Word[1].kind = "space"
      rest == IF drop THEN Tail(Word) ELSE Word
  IN  /\ Flushing /\ ostream_memory /\ depth < MAX_NESTING
      /\ IF full
         THEN AppendToTable(<<Break(IF drop THEN Word[1] ELSE NUL)>> \o rest,
                            Len(rest), r.total + r.width)
         ELSE AppendToTable(Word, r.width + Len(Word), r.total)
      /\ buffer' = Terminated /\ Emptied
      /\ at' = "finish"
      /\ UNCHANGED <<locked, ostream_memory, depth, h_line_width, streams, modes,
                     todo, s, width, calls, printed, switches>>

WhereTo(full) ==
  CASE full -> "wrap"
    [] on.screen /\ ~full -> "display"
    [] ~on.screen /\ ~full -> "transcript"

(* stream_word and screen_word up to the point where a newline is due; a   *)
(* space there is dropped.                                                 *)
FlushToStreams ==
  LET full == on.screen /\ WIDTH - x < bufpos
      drop == full /\ Word[1].kind = "space"
  IN  /\ Flushing /\ ~ostream_memory
      /\ buffer' = Terminated /\ locked' = TRUE
      /\ s' = IF drop THEN 1 ELSE 0
      /\ width' = IF drop THEN bufpos - 1 ELSE bufpos
      /\ at' = WhereTo(full)
      /\ UNCHANGED <<bufpos, prev_c, tables, streams, modes, todo, calls, printed, switches>>

(* stream_char and screen_char, for a character that is not buffered.      *)
DirectChar ==
  /\ at = "direct"
  /\ s' = 0 /\ width' = 1
  /\ at' = WhereTo(on.screen /\ WIDTH - x < 1)
  /\ UNCHANGED <<words, tables, streams, modes, todo, calls, printed, switches>>
-----------------------------------------------------------------------------
(* screen_new_line calls the newline interrupt before it moves the cursor. *)
Suspended(place) == [at |-> place, todo |-> todo, s |-> s, width |-> width]

Decreased == IF nl_countdown = 0 THEN 0 ELSE nl_countdown - 1

Countdown(resume) ==
  /\ IF nl_countdown = 1
     THEN /\ calls' = Append(calls, Suspended(resume))
          /\ at' = "idle" /\ todo' = Nothing /\ s' = 0 /\ width' = 0
     ELSE at' = resume /\ UNCHANGED <<todo, s, width, calls>>
  /\ nl_countdown' = Decreased
  /\ UNCHANGED <<words, tables, streams, on, enable_buffering, printed, switches>>

Wrap == at = "wrap" /\ Countdown("wrapped")
ScreenNewLine == at = "newline" /\ Countdown("newlined")

(* The routine ends.                                                       *)
Return ==
  /\ at = "idle" /\ calls # <<>>
  /\ LET call == calls[Len(calls)]
     IN  at' = call.at /\ todo' = call.todo /\ s' = call.s /\ width' = call.width
  /\ calls' = SubSeq(calls, 1, Len(calls) - 1)
  /\ UNCHANGED <<words, tables, streams, modes, printed, switches>>

(* The rest of screen_word and of screen_char, then script_word (which     *)
(* reads the buffer from its start) or script_char, and the end of         *)
(* flush_buffer.                                                           *)
Direct == todo.name = "direct"
CanRead == Direct \/ (Terminators(s) # {} /\ Terminators(0) # {})
Shown(i) == IF Direct THEN <<Char(todo.kind)>> ELSE Text(i)
LineBreak == Break(IF s = 1 THEN buffer[0] ELSE NUL)

Deliver ==
  /\ at \in {"wrapped", "display", "transcript"} /\ CanRead
  /\ CASE at = "wrapped" -> /\ screen' = screen \o <<LineBreak>> \o Shown(s)
                            /\ x' = width
       [] at = "display" -> screen' = screen \o Shown(s) /\ x' = x + width
       [] OTHER -> UNCHANGED <<screen, x>>
  /\ script' = IF on.script THEN script \o Shown(0) ELSE script
  /\ IF Direct
     THEN at' = "idle" /\ todo' = Nothing /\ printed' = printed + 1 /\ UNCHANGED words
     ELSE /\ at' = "finish" /\ locked' = FALSE /\ Emptied
          /\ UNCHANGED <<todo, buffer, printed>>
  /\ s' = 0 /\ width' = 0
  /\ UNCHANGED <<tables, modes, calls, switches>>
-----------------------------------------------------------------------------
(* What the opcode does once the buffer is flushed.                        *)
Finish(name) ==
  /\ at = "finish" /\ todo.name = name
  /\ at' = "idle" /\ todo' = Nothing
  /\ UNCHANGED <<s, width, calls, switches>>

(* The character goes to the buffer; that it is full is only reported.     *)
Insert ==
  /\ bufpos < TEXT_BUFFER_SIZE
  /\ Finish("char")
  /\ buffer' = [buffer EXCEPT ![bufpos] = Char(todo.kind)]
  /\ bufpos' = bufpos + 1
  /\ prev_c' = todo.kind
  /\ printed' = printed + 1
  /\ UNCHANGED <<locked, tables, streams, modes>>

(* stream_new_line, to a table (memory_new_line), ...                      *)
NewLineToTable ==
  LET r == redirect[depth]
  IN  /\ ostream_memory /\ depth < MAX_NESTING
      /\ Finish("line")
      /\ AppendToTable(<<Char("break")>>, 0, r.total + r.width)
      /\ printed' = printed + 1
      /\ UNCHANGED <<words, ostream_memory, depth, h_line_width, streams, modes>>

(* ... to the screen first ...                                             *)
NewLineOnScreen ==
  /\ at = "finish" /\ todo.name = "line" /\ ~ostream_memory /\ on.screen
  /\ at' = "newline"
  /\ UNCHANGED <<words, tables, streams, modes, todo, s, width, calls, printed, switches>>

(* ... and to the transcript.                                              *)
EndNewLine ==
  /\ at = "newlined" \/ (at = "finish" /\ todo.name = "line" /\ ~ostream_memory /\ ~on.screen)
  /\ IF at = "newlined" THEN screen' = Append(screen, Char("break")) /\ x' = 0
     ELSE UNCHANGED <<screen, x>>
  /\ script' = IF on.script THEN Append(script, Char("break")) ELSE script
  /\ printed' = printed + 1
  /\ at' = "idle" /\ todo' = Nothing
  /\ UNCHANGED <<words, tables, modes, s, width, calls, switches>>

(* z_output_stream for the screen and the transcript; a transcript may     *)
(* fail to open.                                                           *)
Select ==
  /\ Finish("select")
  /\ on' \in {[on EXCEPT ![todo.stream] = todo.value]}
               \cup IF todo.stream = "script" /\ todo.value THEN {on} ELSE {}
  /\ UNCHANGED <<words, tables, streams, enable_buffering, nl_countdown, printed>>

(* memory_open; depth is incremented even when the nesting is refused.     *)
MemoryOpen ==
  /\ Finish("open")
  /\ depth' = depth + 1
  /\ IF depth' < MAX_NESTING
     THEN /\ memory' = [memory EXCEPT ![todo.table] = <<>>]
          /\ redirect' = [redirect EXCEPT ![depth'] =
               [table |-> todo.table, xsize |-> todo.xsize, width |-> 0, total |-> 0]]
          /\ ostream_memory' = TRUE
     ELSE UNCHANGED <<memory, redirect, ostream_memory>>
  /\ UNCHANGED <<words, h_line_width, streams, modes, printed>>

StillOpen == ostream_memory /\ depth # 0

WidthOfLines(r) == r.total                     \* faulty: without the last line
WidthInAll(r) == r.total + r.width

(* memory_close.                                                           *)
MemoryClose ==
  /\ Finish("close")
  /\ depth < MAX_NESTING
  /\ IF depth < 0 THEN UNCHANGED tables
     ELSE LET r     == redirect[depth]
              total == WidthInAll(r)
          IN  /\ IF r.xsize = Unformatted
                 THEN h_line_width' = r.width /\ UNCHANGED <<memory, redirect>>
                 ELSE /\ h_line_width' = total
                      /\ AppendToTable(<<Break(NUL)>>, 0, total)
              /\ ostream_memory' = StillOpen
              /\ depth' = depth - 1
  /\ UNCHANGED <<words, streams, modes, printed>>

(* z_window_style and z_put_wind_prop.                                     *)
WindowStyle ==
  /\ Finish("style")
  /\ enable_buffering' = todo.value
  /\ UNCHANGED <<words, tables, streams, on, nl_countdown, printed>>

SetCountdown ==
  /\ Finish("countdown")
  /\ nl_countdown' = todo.value
  /\ UNCHANGED <<words, tables, streams, on, enable_buffering, printed>>

(* stream_read_key: it waits, a timeout may call a routine, a key comes.   *)
Read ==
  /\ at = "finish" /\ todo.name = "read"
  /\ at' = "read"
  /\ UNCHANGED <<words, tables, streams, modes, todo, s, width, calls, printed, switches>>

Timeout ==
  /\ at = "read"
  /\ Len(calls) + (IF nl_countdown > 0 THEN 1 ELSE 0) < MaxCalls
  /\ calls' = Append(calls, Suspended("read"))
  /\ at' = "idle" /\ todo' = Nothing
  /\ UNCHANGED <<words, tables, streams, modes, s, width, printed, switches>>

Key ==
  /\ at = "read"
  /\ at' = "idle" /\ todo' = Nothing
  /\ UNCHANGED <<words, tables, streams, modes, s, width, calls, printed, switches>>

(* Something is read or written beyond its array: the buffer is full, its  *)
(* terminator was overwritten, or a table is used that was refused.        *)
Overrun ==
  /\ \/ at = "finish" /\ todo.name = "char" /\ bufpos = TEXT_BUFFER_SIZE
     \/ at = "flush" /\ ~locked /\ bufpos = TEXT_BUFFER_SIZE
     \/ at \in {"wrapped", "display", "transcript"} /\ ~CanRead
     \/ /\ depth >= MAX_NESTING
        /\ \/ Flushing /\ ostream_memory
           \/ at = "finish" /\ todo.name = "line" /\ ostream_memory
           \/ at = "finish" /\ todo.name = "close"
  /\ at' = "overrun"
  /\ UNCHANGED <<words, tables, streams, modes, todo, s, width, calls, printed, switches>>

Flush == SkipFlush \/ FlushToTable \/ FlushToStreams \/ Deliver
FinishOpcode ==
  \/ Insert \/ NewLineToTable \/ NewLineOnScreen \/ EndNewLine \/ Select
  \/ MemoryOpen \/ MemoryClose \/ WindowStyle \/ SetCountdown \/ Read

Next ==
  \/ \E kind \in Kinds : PrintChar(kind)
  \/ NewLine
  \/ \E opcode \in Switches : BeginSwitch(opcode)
  \/ Flush \/ DirectChar
  \/ Wrap \/ ScreenNewLine \/ Return
  \/ FinishOpcode
  \/ Timeout \/ Key
  \/ Overrun

Spec == Init /\ [][Next]_vars
-----------------------------------------------------------------------------
Item == [id : Nat, kind : Kinds \cup {"break"}]
Places == {"idle", "flush", "wrap", "wrapped", "display", "transcript", "direct",
           "finish", "newline", "newlined", "read", "overrun"}

TypeOK ==
  /\ buffer \in [0..(TEXT_BUFFER_SIZE - 1) -> Item \cup {NUL}]
  /\ bufpos \in 0..TEXT_BUFFER_SIZE /\ locked \in BOOLEAN
  /\ prev_c \in Kinds \cup {"nul"}
  /\ on \in [screen : BOOLEAN, script : BOOLEAN]
  /\ {ostream_memory, enable_buffering} \subseteq BOOLEAN
  /\ depth \in Nat \cup {-1}
  /\ redirect \in [0..(MAX_NESTING - 1) ->
       [table : Table, xsize : XSIZES \cup {Unformatted}, width : Nat, total : Nat]]
  /\ memory \in [Table -> Seq(Item)] /\ h_line_width \in Nat
  /\ screen \in Seq(Item) /\ script \in Seq(Item) /\ x \in Nat
  /\ nl_countdown \in 0..2
  /\ at \in Places /\ s \in {0, 1} /\ width \in 0..TEXT_BUFFER_SIZE
  /\ Len(calls) <= MaxCalls
  /\ printed \in Nat /\ switches \in 0..MaxSwitches

(* The lock of flush_buffer is held exactly while a flush is under way or  *)
(* suspended by a newline routine, and there is never more than one: a     *)
(* routine's own flush neither starts a second one nor takes the lock away.*)
InFlush(place, opcode) ==
  place \in {"wrap", "wrapped", "display", "transcript"} /\ opcode.name # "direct"
Flushes == {i \in DOMAIN calls : InFlush(calls[i].at, calls[i].todo)}
LockHeld ==
  at # "overrun" =>
    Cardinality(Flushes) + (IF InFlush(at, todo) THEN 1 ELSE 0) = IF locked THEN 1 ELSE 0

(* Text goes to memory exactly while a table is open (redirect.c:60, 166), *)
(* and the lock is held exactly while there is a flush.                    *)
Consistent == TypeOK /\ LockHeld /\ (ostream_memory <=> depth >= 0)

(* Words are wrapped, not broken: a line of the screen or of a formatted   *)
(* table that is longer than its width holds nothing but one word, however *)
(* buffering, streams and tables were switched while it was printed.       *)
OneWord(text) ==
  \A i \in DOMAIN text :
    /\ text[i].kind # "space"
    /\ text[i].kind = "hyphen" /\ i < Len(text) => text[i + 1].kind = "hyphen"
LinesFit(text, size) ==
  \A i, j \in DOMAIN text :
    LET line == SubSeq(text, i, j)
    IN  /\ j - i >= size
        /\ \A k \in i..j : text[k].kind # "break"
        => OneWord(line)
Wrapped ==
  /\ ~Reentrant => LinesFit(screen, WIDTH)
  /\ depth < MAX_NESTING =>
       \A d \in 0..depth : redirect[d].xsize # Unformatted =>
         LinesFit(memory[redirect[d].table], redirect[d].xsize)

(* When a formatted table is closed, the header tells the width of all the *)
(* text in it (redirect.c:158).                                            *)
Units(text) == Cardinality({i \in DOMAIN text : text[i].kind # "break"})
WidthReported ==
  [][depth' < depth /\ redirect[depth].xsize # Unformatted
       => h_line_width' = Units(memory[redirect[depth].table])]_vars

(* While the game waits for a key, everything printed before it asked for  *)
(* the key has been shown: no text is held back in the buffer but what a   *)
(* timeout's routine has printed since.                                    *)
Prompted ==
  at = "read" => \A i \in 0..(bufpos - 1) : buffer[i].id > todo.printed

(* flush_buffer may stop when it is called from flush_buffer (buffer.c:43):*)
(* the text in the buffer is still copied to the screen once, and not with *)
(* what other words have left there.                                       *)
ShownOnce ==
  \A i, j \in DOMAIN screen : screen[i].id = screen[j].id /\ i # j => screen[i].id = 0
-----------------------------------------------------------------------------
(***************************************************************************)
(* Output implements Streams: the text in the buffer counts as printed on  *)
(* the streams that are selected.                                          *)
(***************************************************************************)

Ids(text) ==
  LET ids[n \in 0..Len(text)] ==
        IF n = 0 THEN <<>>
        ELSE IF text[n].id = 0 THEN ids[n - 1] ELSE Append(ids[n - 1], text[n].id)
  IN  ids[Len(text)]
Pending == [n \in 1..bufpos |-> buffer[n - 1].id]

Defined == at # "overrun" /\ depth < MAX_NESTING
Innermost(t) == depth \in 0..(MAX_NESTING - 1) /\ redirect[depth].table = t
OpenNow == IF Defined THEN [i \in 1..(depth + 1) |-> redirect[i - 1].table] ELSE <<>>

ScreenText == Ids(screen) \o (IF on.screen /\ ~ostream_memory THEN Pending ELSE <<>>)
ScriptText == Ids(script) \o (IF on.script /\ ~ostream_memory THEN Pending ELSE <<>>)
Stored == [t \in Table |-> Ids(memory[t]) \o (IF Innermost(t) THEN Pending ELSE <<>>)]

Game == INSTANCE Streams WITH
  count  <- printed,  screen  <- ScreenText,  script <- ScriptText,
  open   <- OpenNow,  stored  <- Stored,      defined <- Defined

(* Buffering cannot be seen: whatever is switched between two characters   *)
(* of a word, and whatever newline a word causes, each character reaches   *)
(* the streams and the table that were selected when it was printed, once  *)
(* and in order.                                                           *)
ImplementsStreams == Game!Spec
=============================================================================
