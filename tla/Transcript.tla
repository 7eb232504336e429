------------------------------ MODULE Transcript ------------------------------
(***************************************************************************)
(* The transcript of files.c and what starts and stops it: output stream 2 *)
(* (stream.c) and the bit of the header that a story may set (storeb) and  *)
(* that comes back with the memory of another turn (z_restart, z_restore,  *)
(* z_restore_undo).  Every opening starts a new file, see StdioFiles.      *)
(*                                                                         *)
(* A byte of the file is <<w, j>>, character j of the w-th word or input,  *)
(* where j is 0 for a blank; a newline is <<0, 0>>.  What was printed into *)
(* the file is told in the same way, without the lines.                    *)
(***************************************************************************)
EXTENDS Integers, Sequences, SequencesExt

CONSTANTS
  Cols,          \* f_setup.script_cols
  Length,        \* lengths of words and inputs
  Split,         \* whether the text of an input may go over two lines
  MaxWords       \* bound: words and newlines printed, lines read

TranscriptAssumption ==
  /\ Cols \in Nat \ {0} /\ Length \subseteq Nat \ {0}
  /\ Split \in BOOLEAN /\ MaxWords \in Nat

VARIABLES
  flag,               \* SCRIPTING_FLAG in the memory of the story
  saved,              \* the same bit in a saved turn
  h_flags,            \* and in the interpreter's copy
  ostream_script, enable_scripting,
  file, pos,          \* the file and where it is written
  script_width,
  said,               \* what was printed into it
  reading,            \* a line is read
  words               \* words and newlines printed and lines read so far

flags == <<flag, saved, h_flags>>
output == <<file, pos, script_width>>
vars == <<flags, ostream_script, enable_scripting, output, said, reading, words>>

NewLine == <<0, 0>>
IsBlank(c) == c[2] = 0
Letters(s) == SelectSeq(s, LAMBDA c : ~IsBlank(c))
-----------------------------------------------------------------------------
(* The file with its position and its width.                               *)
Script == [file |-> file, pos |-> pos, width |-> script_width]

(* fputc: over what is there, or at the end.                               *)
fputc(f, c) ==
  [f EXCEPT !.pos = @ + 1,
            !.file = IF f.pos < Len(f.file) THEN [@ EXCEPT ![f.pos + 1] = c]
                     ELSE Append(@, c)]

script_new_line(f) == [fputc(f, NewLine) EXCEPT !.width = 0]

script_char(f, c) == [fputc(f, c) EXCEPT !.width = @ + 1]
Chars(f, s) == FoldLeft(script_char, f, s)

(* script_char: an indent is three spaces at the start of a line, one      *)
(* elsewhere; a gap is two.                                                *)
Wide(lead, width) ==
  CASE lead = "none" -> 0 [] lead = "gap" -> 2
    [] lead = "indent" /\ width = 0 -> 3 [] OTHER -> 1
Blanks(w, n) == [j \in 1..n |-> <<w, 0>>]
Body(w, n) == [j \in 1..n |-> <<w, j>>]

(* script_word, for what leads a word and its letters: its estimate of the *)
(* width of a gap and of an indent is not what script_char makes of them.  *)
Estimate(lead) == CASE lead = "none" -> 0 [] lead = "gap" -> 3
                    [] lead = "indent" -> 2 [] OTHER -> 1
script_word(f, w, lead, n) ==
  LET early == lead = "indent" /\ f.width # 0
      g     == IF early THEN Chars(f, Blanks(w, 1)) ELSE f
      rest  == IF early THEN "none" ELSE lead
      full  == g.width + Estimate(rest) + n > Cols
      h     == IF full THEN script_new_line(g)
               ELSE Chars(g, Blanks(w, Wide(rest, g.width)))
  IN  Chars(h, Body(w, n))

script_write_input(f, s, return) ==
  LET g == IF f.width + Len(s) > Cols THEN script_new_line(f) ELSE f
      h == Chars(g, s)
  IN  IF return THEN script_new_line(h) ELSE h

(* Nothing is cut off: what follows is written over it.                    *)
script_erase_input(f, n) == [f EXCEPT !.pos = @ - n, !.width = @ - n]
-----------------------------------------------------------------------------
Init ==
  /\ flag = FALSE /\ saved = FALSE /\ h_flags = FALSE
  /\ ostream_script = FALSE /\ enable_scripting = TRUE
  /\ file = <<>> /\ pos = 0 /\ script_width = 0
  /\ said = <<>> /\ reading = FALSE /\ words = 0

Scripting == ostream_script /\ enable_scripting
Becomes(f) ==
  /\ IF Scripting THEN file' = f.file /\ pos' = f.pos /\ script_width' = f.width
     ELSE UNCHANGED output
  /\ UNCHANGED <<flags, ostream_script, enable_scripting>>
Says(s) == said' = IF Scripting THEN said \o s ELSE said
Counted == words < MaxWords /\ words' = words + 1

(* The story, or a routine of it while a line is read, prints a word.      *)
PrintWord(lead, n) ==
  /\ Counted
  /\ Becomes(script_word(Script, words', lead, n))
  /\ Says((IF lead = "none" THEN <<>> ELSE Blanks(words', 1)) \o Body(words', n))
  /\ UNCHANGED reading

PrintNewLine ==
  /\ Counted
  /\ Becomes(script_new_line(Script))
  /\ Says(<<>>)
  /\ UNCHANGED reading

(* A message of the interpreter is a line of its own, indented.            *)
script_mssg_on(f, number) ==
  LET start == IF f.width # 0 THEN script_new_line(f) ELSE f
  IN  Chars(start, Blanks(number, Wide("indent", start.width)))
script_mssg_off(f) == script_new_line(f)
Message(n) ==
  /\ Counted
  /\ Becomes(script_mssg_off(script_word(script_mssg_on(Script, words'), words', "none", n)))
  /\ Says(Body(words', n))
  /\ UNCHANGED reading

(* stream_read_input: the text of the line so far, which the story printed *)
(* last, is taken back, ...                                                *)
OnOneLine(n) == \A j \in (pos - n + 1)..pos : file[j] # NewLine
Printed(n) ==
  /\ n <= Len(said) /\ n <= pos
  /\ Letters(SubSeq(said, Len(said) - n + 1, Len(said)))
       = Letters(SubSeq(file, pos - n + 1, pos))
  /\ Split \/ OnOneLine(n)
Read(n) ==
  /\ ~reading /\ words < MaxWords /\ reading' = TRUE
  /\ Scripting => Printed(n)
  /\ Becomes(script_erase_input(Script, n))
  /\ said' = IF Scripting THEN SubSeq(said, 1, Len(said) - n) ELSE said
  /\ UNCHANGED words

(* ... and written as the player leaves it.                                *)
EndRead(n, return) ==
  /\ reading /\ reading' = FALSE
  /\ words' = words + 1
  /\ Becomes(script_write_input(Script, Body(words', n), return))
  /\ Says(Body(words', n))
-----------------------------------------------------------------------------
(* script_open and script_close.                                           *)
Opened ==
  /\ ostream_script' = TRUE /\ h_flags' = TRUE
  /\ file' = <<>> /\ pos' = 0 /\ script_width' = 0 /\ said' = <<>>
Closed ==
  /\ ostream_script' = FALSE /\ h_flags' = FALSE /\ said' = <<>>
  /\ UNCHANGED <<file, pos, script_width>>

(* Output stream 2, and a byte stored at H_FLAGS + 1.                      *)
Select(on) ==
  /\ IF on = ostream_script
     THEN UNCHANGED <<flag, h_flags, ostream_script, file, pos, script_width, said>>
     ELSE flag' = on /\ (IF on THEN Opened ELSE Closed)
  /\ UNCHANGED <<saved, enable_scripting, reading, words>>

(* The fonts' bit of the same byte changes alone.                          *)
StoreFlags(on) ==
  /\ flag' = on
  /\ IF on = ostream_script
     THEN h_flags' = on /\ UNCHANGED <<ostream_script, file, pos, script_width, said>>
     ELSE IF on THEN Opened ELSE Closed
  /\ UNCHANGED <<saved, enable_scripting, reading, words>>

SetWindow(scripting) ==
  /\ enable_scripting' = scripting
  /\ UNCHANGED <<flags, ostream_script, output, said, reading, words>>

(* A turn is saved; another one, or the first, comes back with its memory  *)
(* and restart_header puts the interpreter's bits into it.                 *)
Save ==
  /\ saved' = flag
  /\ UNCHANGED <<flag, h_flags, ostream_script, enable_scripting, output, said, reading, words>>

FlagsRestored == saved                                               \* faulty
restart_header == h_flags
Restore ==
  /\ flag' = restart_header
  /\ UNCHANGED <<saved, h_flags, ostream_script, enable_scripting, output, said, reading, words>>

PrintSome ==
  \/ \E n \in Length, lead \in {"none", "space", "indent", "gap"} : PrintWord(lead, n)
  \/ \E n \in Length : Message(n)
  \/ PrintNewLine
ReadLine ==
  \/ \E n \in {0} \cup Length : Read(n)
  \/ \E n \in {0} \cup Length, return \in BOOLEAN : EndRead(n, return)
Switch == \E on \in BOOLEAN : Select(on) \/ StoreFlags(on) \/ SetWindow(on)

Next == PrintSome \/ ReadLine \/ Switch \/ Save \/ Restore

Spec == Init /\ [][Next]_vars
-----------------------------------------------------------------------------
(* The bit in the header says whether there is a transcript, whatever turn *)
(* was brought back, and however the transcript was started and stopped.   *)
FlagTells == flag = ostream_script /\ h_flags = ostream_script

(* Up to where it is written, the file holds what was printed and read, in *)
(* order and once, with the story's text of a line replaced by the line.   *)
Complete ==
  ostream_script => Letters(SubSeq(file, 1, pos)) = Letters(said)

(* A line that is too long, blanks at its end not counted, holds nothing   *)
(* but one word or input.                                                  *)
LinesFit ==
  \A i, j \in 1..pos :
    LET line == SubSeq(file, i, j)
    IN  /\ j - i >= Cols /\ ~IsBlank(file[j]) /\ \A c \in DOMAIN line : line[c] # NewLine
        => \A c, d \in DOMAIN line : line[c][1] = line[d][1]

Transcribed == ostream_script => Complete /\ LinesFit
=============================================================================
