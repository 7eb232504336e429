------------------------------ MODULE Commands ------------------------------
(***************************************************************************)
(* Reading keys and lines with stream_read_key and stream_read_input, the  *)
(* hot keys with the questions they ask, and the file of commands that     *)
(* files.c records and plays back.                                         *)
(*                                                                         *)
(* A session is recorded from its beginning; then the same story is played *)
(* from the file.  A story is deterministic: it asks for the same things   *)
(* as long as it gets the same answers.  The file is the sequence of its   *)
(* bytes.  The line editor (LineEditor) returns any line and key.          *)
(***************************************************************************)
EXTENDS Integers, Sequences, SequencesExt

CONSTANTS
  Want,           \* what the story asks for, out of "line", "upper", "key":
                  \* "upper" is a line in the upper window
  Typed,          \* lines that players type
  Key,            \* keys that are read one at a time
  HotKey,         \* hot keys they use
  Stray,          \* other ends of a line, TIME_OUT or BREAK
  AbortsUndo,     \* TRUE for stories of version 5 and later
  MaxAsked,       \* bound: how often the story asks
  MaxRecords      \* bound: how often something is read

TIME_OUT == 0
RETURN == 13
BREAK == 255                                       \* ^c
BAD == -1
HKEY == [record |-> 14, seed |-> 16, undo |-> 17, restart |-> 18, quit |-> 19,
         debug |-> 20, help |-> 21]
HKEYS == 14..21

CommandsAssumption ==
  /\ Want \subseteq {"line", "upper", "key"}
  /\ \A l \in Typed : \A j \in DOMAIN l : l[j] \in 32..126 \cup 160..255
  /\ Key \cap ({BAD, TIME_OUT} \cup HKEYS) = {}
  /\ HotKey \subseteq {HKEY[k] : k \in DOMAIN HKEY} /\ Stray \subseteq {TIME_OUT, BREAK}
  /\ AbortsUndo \in BOOLEAN /\ MaxAsked \in Nat /\ MaxRecords \in Nat

VARIABLES
  mode,       \* "record", "closed", "replay", "over"
  file, at,   \* the file, and the index of the next byte to play back
  asked,      \* what the recorded story has asked for
  turn,       \* how often the story has asked
  reading,    \* "game", "line", "upper", "key", or "yes" or "number" for the
              \* question of a hot key
  resume, hot, left,   \* what is read when the hot key is done; which one it
                       \* is; how many questions it has left
  live, played,        \* what the story and the hot keys have got
  exact       \* nothing was recorded that the file has no form for

story == <<asked, turn, reading, resume, hot, left>>
vars == <<mode, file, at, story, live, played, exact>>

Text == INSTANCE Text
-----------------------------------------------------------------------------
(* The bytes of the file.                                                  *)
Digits(c) ==
  LET ten(i) == 10 ^ i
      size == CHOOSE n \in 1..5 : c < ten(n) /\ (n = 1 \/ c >= ten(n - 1))
  IN  [j \in 1..size |-> 48 + ((c \div ten(size - j)) % 10)]

record_code(c, force) ==
  IF force \/ c = 91 \/ c \notin 32..126 THEN <<91>> \o Digits(c) \o <<93>> ELSE <<c>>

record_char(c) ==
  IF c = RETURN THEN <<>>
  ELSE IF c \in HKEYS THEN record_code(1000 + c - 14, TRUE)
  ELSE record_code(Text!translate_to_zscii(c), FALSE)

record_write_input(buf, key) ==
  FlattenSeq([j \in DOMAIN buf |-> record_char(buf[j])]) \o record_char(key) \o <<10>>

(* replay_code from an index on: the code, or BAD at the end of the file   *)
(* or in a number that is not closed, and the index after it.              *)
fgetc(j) == IF j \in DOMAIN file THEN file[j] ELSE BAD
replay_code(j) ==
  LET end == CHOOSE e \in (j + 1)..(Len(file) + 1) :
               fgetc(e) \notin 48..57 /\ \A d \in (j + 1)..(e - 1) : fgetc(d) \in 48..57
  IN  IF fgetc(j) # 91 THEN [code |-> fgetc(j), next |-> j + 1]
      ELSE [code |-> IF fgetc(end) # 93 THEN BAD
                     ELSE FoldLeft(LAMBDA n, d : 10 * n + d - 48, 0, SubSeq(file, j + 1, end - 1)),
            next |-> end + 1]

(* replay_char puts a newline back, so that it ends the record.            *)
replay_char(j) ==
  LET c == replay_code(j)
  IN  CASE c.code = BAD -> [key |-> BAD, next |-> c.next]
        [] c.code = 10  -> [key |-> RETURN, next |-> c.next - 1]
        [] c.code \in (0..999) \ {10} ->
             [key |-> Text!translate_from_zscii(c.code), next |-> c.next]
        [] OTHER -> [key |-> 14 + c.code - 1000, next |-> c.next]

is_terminator(key) == key \in {TIME_OUT, RETURN} \cup HKEYS

(* What replay_read_input and replay_read_key find at an index: a record   *)
(* that does not end with a newline closes the file.                       *)
Record(buf, c) ==
  [buf |-> buf, key |-> IF fgetc(c.next) = 10 THEN c.key ELSE BAD, next |-> c.next + 1]
replay_read_key(j) == Record(<<>>, replay_char(j))
replay_read_input(j) ==
  LET char[n \in 1..(Len(file) + 2)] == replay_char(IF n = 1 THEN j ELSE char[n - 1].next)
      n == CHOOSE n \in 1..(Len(file) + 2) :
             /\ char[n].key = BAD \/ is_terminator(char[n].key)
             /\ \A m \in 1..(n - 1) : char[m].key # BAD /\ ~is_terminator(char[m].key)
  IN  Record([m \in 1..(n - 1) |-> char[m].key], char[n])
-----------------------------------------------------------------------------
Init ==
  /\ mode = "record"
  /\ file = <<>> /\ at = 1
  /\ asked = <<>> /\ turn = 0
  /\ reading = "game" /\ resume = "game" /\ hot = 0 /\ left = 0
  /\ live = <<>> /\ played = <<>>
  /\ exact = TRUE

(* The story asks: what it likes, or what it asked before.                 *)
Agree == IsPrefix(played, live)
Ask ==
  /\ reading = "game" /\ mode \in {"record", "replay"} /\ Agree
  /\ turn' = turn + 1
  /\ IF mode = "record"
     THEN Len(asked) < MaxAsked /\ \E w \in Want : asked' = Append(asked, w)
     ELSE turn' \in DOMAIN asked /\ UNCHANGED asked
  /\ reading' = asked'[turn']
  /\ UNCHANGED <<mode, file, at, resume, hot, left, live, played, exact>>

(* Where an answer comes from.                                             *)
Asks(kind) == reading \in kind
KeyWanted == Asks({"key", "yes"})
Console ==
  IF reading = "key" THEN {<<>>} \X Key
  ELSE IF reading = "yes" THEN {<<>>} \X {110, 121}
  ELSE IF reading = "number" THEN {<<>>, <<49>>} \X ({RETURN} \cup HotKey)
  ELSE Typed \X ({RETURN} \cup HotKey \cup Stray)

(* The story, or the hot key, gets what was read, in ZSCII.                *)
Got(result) ==
  IF mode = "record" THEN live' = Append(live, result) /\ UNCHANGED played
  ELSE played' = Append(played, result) /\ UNCHANGED live
Zscii(buf, key) ==
  <<reading, [j \in DOMAIN buf |-> Text!translate_to_zscii(buf[j])], Text!translate_to_zscii(key)>>

Return(result) ==
  /\ Got(result)
  /\ reading' = "game" /\ resume' = "game" /\ hot' = 0 /\ left' = 0
GoOn == reading' = resume /\ resume' = "game" /\ hot' = 0 /\ left' = 0
Waiting == UNCHANGED <<live, played>>

(* handle_hot_key, up to its first question.                               *)
Questions(key) ==
  CASE key = HKEY.debug -> [kind |-> "yes", n |-> 4]
    [] key = HKEY.seed  -> [kind |-> "number", n |-> 1]
    [] key \in {HKEY.restart, HKEY.quit} -> [kind |-> "yes", n |-> 1]
    [] OTHER -> [kind |-> "none", n |-> 0]

(* Whether an undo brings back a turn depends on the story so far only.    *)
Undone == turn > 1
handle_hot_key(key) ==
  LET q == Questions(key)
  IN  IF reading = "upper" THEN Waiting /\ UNCHANGED <<reading, resume, hot, left>>
      ELSE IF q.n > 0
      THEN Waiting /\ resume' = reading /\ reading' = q.kind /\ hot' = key /\ left' = q.n
      ELSE IF key = HKEY.undo /\ Undone /\ AbortsUndo THEN Return(<<"abort", key>>)
      ELSE Waiting /\ UNCHANGED <<reading, resume, hot, left>>

(* A question of a hot key is answered; a number is asked for until return *)
(* is pressed.                                                             *)
AnswerQuestion(buf, key) ==
  IF reading = "number" /\ key # RETURN
  THEN Waiting /\ UNCHANGED <<reading, resume, hot, left>>
  ELSE IF left > 1
  THEN Got(Zscii(buf, key)) /\ left' = left - 1 /\ UNCHANGED <<reading, resume, hot>>
  ELSE IF hot \in {HKEY.restart, HKEY.quit} /\ key = 121 THEN Return(<<"abort", hot>>)
  ELSE Got(Zscii(buf, key)) /\ GoOn

(* After a timeout the story's routine says whether reading goes on.       *)
Answer(buf, key) ==
  IF Asks({"yes", "number"}) THEN AnswerQuestion(buf, key)
  ELSE IF key \in HKEYS THEN handle_hot_key(key)
  ELSE \/ key = TIME_OUT /\ Waiting /\ UNCHANGED <<reading, resume, hot, left>>
       \/ Return(Zscii(buf, key))

(* The player's answer while a session is recorded.  A recording ends with *)
(* the hot key, after it was written down itself.                          *)
Stops(key) == key = HKEY.record /\ reading = "line"
FileGrows(buf, key) == file' = file \o record_write_input(buf, key)
Play ==
  /\ mode = "record" /\ reading # "game"
  /\ Len(SelectSeq(file, LAMBDA b : b = 10)) < MaxRecords
  /\ \E answer \in Console :
       LET buf == answer[1]  key == answer[2]
       IN  /\ FileGrows(buf, key)
           /\ exact' = (exact /\ key \notin Stray)
           /\ IF Stops(key)
              THEN mode' = "closed" /\ Waiting /\ UNCHANGED <<reading, resume, hot, left>>
              ELSE UNCHANGED mode /\ Answer(buf, key)
  /\ UNCHANGED <<at, asked, turn>>

(* record_close, from output stream -4.                                    *)
Close ==
  /\ mode = "record" /\ reading = "game"
  /\ mode' = "closed"
  /\ UNCHANGED <<file, at, story, live, played, exact>>

(* The story starts again, from the file.                                  *)
Restart ==
  /\ mode = "closed"
  /\ mode' = "replay"
  /\ turn' = 0 /\ reading' = "game" /\ resume' = "game" /\ hot' = 0 /\ left' = 0
  /\ UNCHANGED <<file, at, asked, live, played, exact>>

Replay ==
  /\ mode = "replay" /\ reading # "game"
  /\ LET r == IF KeyWanted THEN replay_read_key(at) ELSE replay_read_input(at)
     IN  /\ at' = r.next
         /\ IF r.key = BAD \/ Stops(r.key)
            THEN mode' = "over" /\ Waiting /\ UNCHANGED <<reading, resume, hot, left>>
            ELSE UNCHANGED mode /\ Answer(r.buf, r.key)
  /\ UNCHANGED <<file, asked, turn, exact>>

Next == Ask \/ Play \/ Close \/ Restart \/ Replay

Spec == Init /\ [][Next]_vars
-----------------------------------------------------------------------------
(* A played back session gives the story and the hot keys what they got    *)
(* when it was recorded, in the same order, and all of it: also lines with *)
(* brackets and accents, aborted input, and questions answered in between. *)
SameAnswers ==
  /\ Agree
  /\ mode = "over" => played = live
Replayed == exact => SameAnswers
=============================================================================
