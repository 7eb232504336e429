----------------------------- MODULE MCTerminal -----------------------------
(***************************************************************************)
(* The parts of the interpreter that meet the player, checked together:    *)
(* the lines read, the files kept of them, and the windows, once with what *)
(* is on the screen and once with what they look like.  Each of them runs  *)
(* alone, the others stay where they start.  The module is LineEditor,     *)
(* with the other parts beside it.                                         *)
(***************************************************************************)
EXTENDS LineEditor

VARIABLES
  part,                                                     \* which part runs
  mode, file, next, asked, turn, reading, resume, hot, left, live, played, exact,
                                                            \* of Commands
  flag, saved, h_flags, ostream_script, enable_scripting, script, pos,
  script_width, said, busy, words,                          \* of Transcript
  h_version, wp, cwin, enable, more_prompts, input, typing, cells, hardware, lost,
  outside, steps,                                           \* of Screen
  release, state, told, opcodes                             \* of Windows

C == INSTANCE Commands WITH
  at <- next, Want <- {"line", "upper", "key"}, Typed <- {<<91, 228>>},
  Key <- {91, 228}, HotKey <- {14, 16, 17, 19, 20}, Stray <- {255},
  AbortsUndo <- TRUE, MaxAsked <- 2, MaxRecords <- 4
T == INSTANCE Transcript WITH
  file <- script, reading <- busy, Cols <- 4, Length <- {1, 4}, Split <- FALSE, MaxWords <- 3
S == INSTANCE Screen WITH
  at <- hardware, Versions <- 3..5, Height <- 4, Width <- 3, MoreWidth <- 2, Heights <- {0, 1},
  Lengths <- {0, 2}, MinInput <- 2, MaxInput <- 3, Clips <- FALSE, MaxSteps <- 4
W == INSTANCE Windows WITH
  h_version <- release, s <- state, steps <- opcodes, Window <- {0, 1}, Height <- 3, Width <- 6,
  Positions <- {<<1, 1>>, <<2, 3>>}, Sizes <- {<<1, 6>>, <<2, 3>>},
  Margins <- {<<0, 0>>, <<1, 1>>}, Styles <- {{}, {"reverse"}}, Colours <- {<<3, -1>>, <<1, 0>>},
  Flags <- {{"wrapping", "buffering"}, {"scrolling"}}, MaxWord <- 2, MaxSteps <- 4

ASSUME C!CommandsAssumption /\ T!TranscriptAssumption
ASSUME S!ScreenAssumption /\ W!WindowsAssumption

commands ==
  <<mode, file, next, asked, turn, reading, resume, hot, left, live, played, exact>>
transcript ==
  <<flag, saved, h_flags, ostream_script, enable_scripting, script, pos, script_width,
    said, busy, words>>
windows ==
  <<h_version, wp, cwin, enable, more_prompts, input, typing, cells, hardware, lost,
    outside, steps>>
drawing == <<release, state, told, opcodes>>
all == <<part, vars, commands, transcript, windows, drawing>>

MCInit ==
  /\ part \in {"line", "commands", "transcript", "windows", "drawing"}
  /\ Init /\ C!Init /\ T!Init /\ S!Init /\ W!Init
  /\ (part # "windows" => h_version = 3) /\ (part # "drawing" => release = 5)

MCNext ==
  \/ part = "line" /\ Next /\ UNCHANGED <<part, commands, transcript, windows, drawing>>
  \/ part = "commands" /\ C!Next /\ UNCHANGED <<part, vars, transcript, windows, drawing>>
  \/ part = "transcript" /\ T!Next /\ UNCHANGED <<part, vars, commands, windows, drawing>>
  \/ part = "windows" /\ S!Next /\ UNCHANGED <<part, vars, commands, transcript, drawing>>
  \/ part = "drawing" /\ W!Next /\ UNCHANGED <<part, vars, commands, transcript, windows>>

MCSpec == MCInit /\ [][MCNext]_all
-----------------------------------------------------------------------------
(* A file of commands gives the story what it got when it was recorded.    *)
(* The header tells whether there is a transcript, and the transcript      *)
(* holds what was printed and read.                                        *)
Kept ==
  /\ part = "commands" => C!Replayed
  /\ part = "transcript" => T!FlagTells /\ T!Transcribed

(* Nothing of the lower window scrolls away before the player had a pause. *)
Paged == part = "windows" => S!Paged

(* The hardware cursor is where the current window's cursor is, and the    *)
(* window is where it was put.                                             *)
Follows == (part = "windows" => S!OnItsLine) /\ (part = "drawing" => W!Follows)

(* Every character is shown in the window, the style and the colours that  *)
(* were chosen when it was printed.                                        *)
AsPrinted == part = "drawing" => W!AsPrinted

(* The lower window leaves what is above it alone.                         *)
UpperKeeps == S!UpperKeeps
=============================================================================
