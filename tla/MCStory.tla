------------------------------- MODULE MCStory -------------------------------
(***************************************************************************)
(* The opcodes for the data of a story, checked together: each part runs   *)
(* alone, the others staying where they start.  The pure ones answer one   *)
(* question and are compared with what they mean.  The module is Objects,  *)
(* with the other parts beside it.                                         *)
(***************************************************************************)
EXTENDS Objects, TLC

VARIABLES part,                   \* which part runs
          question,               \* what a pure part is asked
          release, properties,    \* of Properties
          table,                  \* of StoryMemory
          interval, counter, result, drawn      \* of Arithmetic

Property(n, l) == [number |-> n, length |-> l]
MCLists(v) ==
  IF v <= 3
  THEN 1 :> <<Property(31, 2), Property(18, 8), Property(17, 1), Property(1, 2)>>
    @@ 2 :> <<Property(2, 1)>>
  ELSE 1 :> <<Property(63, 2), Property(40, 64), Property(5, 1), Property(3, 7)>>
    @@ 2 :> <<Property(1, 2)>>

(* Objects at both ends of the range of a byte, an attribute in the last   *)
(* byte.                                                                   *)
MCObjectOf(v) == IF v <= 3 THEN {1, 2, 255} ELSE {1, 255, 256}
MCAttributeOf(v) == IF v <= 3 THEN {31} ELSE {40}

P == INSTANCE Properties WITH
  h_version <- release, memory <- properties, Version <- {3, 5}, Lists <- MCLists, Value <- {0, 4660, 65535}
M == INSTANCE StoryMemory WITH
  memory <- table, WORD <- 65536, HEADER <- 3, CHUNK <- 4,
  Initial <- 64, Final <- 67, Size <- {1, 2, 3, -2, -3}, Byte <- {0}
A == INSTANCE Arithmetic WITH
  Seed <- {0, 1, 2, 3, 7, 1000, 32768}, Limit <- {1, 2, 5, 32767}, Draw <- {0, 4, 32767}
X == INSTANCE Text

ASSUME M!TablesAssumption /\ A!RandomAssumption
ASSUME M!LoadingAssumption

lists == <<release, properties>>
tables == <<table>>
numbers == <<interval, counter, result, drawn>>
all == <<part, question, vars, lists, tables, numbers>>

(* Operands at the ends of the range and between them.                     *)
Numbers == {0, 1, 2, 7, 255, 256, 32767, 32768, 32769, 65534, 65535}
Distances == {-8192, -8191, -257, -256, -255, -1, 0, 1, 2, 63, 64, 255, 256, 8190, 8191}
(* Places of a memory of 40000 bytes where two turns differ, in reach of   *)
(* every length of a run.                                                  *)
Places == {0, 1, 2, 128, 129, 130, 131, 32769, 32770, 32771, 32772, 39999}
(* Letters of the three alphabets, one that has an escape in each version, *)
(* and an accented one.                                                    *)
Letter == {97, 98, 65, 46, 60, 228}
MaxWord == 3
Word == SeqOf(Letter, MaxWord)
Versions == {1, 2, 3, 5, 7, 8}
WordsOf(n) == SeqOf({97, 98, 46}, n) \ {<<>>}
LongWords == {<<97, 98, 97>>, <<97, 98, 97, 98, 97, 98, 46>>}
Dictionary == {W \in SUBSET (WordsOf(2) \cup LongWords) :
                 W # {} /\ Cardinality(W) <= 3 /\ \A w \in W : w[1] # 46}
Line == SeqOf({97, 32, 44}, 5)
Dictionaries == {{<<97>>}, {<<97, 97>>, <<44>>}, {<<97>>, <<97, 97>>}, {<<98>>}}

(* What is printed into a table: words with their spaces, new lines.       *)
Piece == {<<97>>, <<32, 98>>, <<13>>, <<32>>, <<97, 98, 97>>, <<32, 32, 97>>}

(* Story files around the ends of the header and of a chunk.               *)
StoryFile == [length : 0..17, h_version : {0, 2, 3, 4, 6, 9}, swapped : BOOLEAN,
              h_file_size : 0..8]
(* Names in two cases, one with a dot, and none; and disks that have no    *)
(* auxiliary file, the one that is suggested first, and others, some of    *)
(* which can only be typed.                                                *)
Name == {<<>>, <<65>>, <<97>>, <<97, 46>>, <<98>>}
AuxiliaryDisc ==
  {<<>>, M!DEFAULT_AUXILARY_NAME :> <<101, 102, 103>>,
   (<<97>> \o M!AUX) :> <<104, 105>> @@ <<65, 46>> :> <<106>> @@ <<97, 46>> :> <<>>
     @@ <<65>> :> <<107, 108, 109, 110, 111>>}
Typed == {<<>>, <<65>>, <<97>>, <<97>> \o M!AUX}

AboutData ==
       {[of |-> "numbers", a |-> a, b |-> b] : a \in Numbers, b \in Numbers}
  \cup {[of |-> "shifts", a |-> a, n |-> n] : a \in Numbers, n \in 1..15}
  \cup {[of |-> "branch", distance |-> d, on |-> on, flag |-> f] :
          d \in Distances, on \in BOOLEAN, f \in BOOLEAN}
  \cup {[of |-> "difference", at |-> s] : s \in {s \in SUBSET Places : s \cap {0, 2, 131} # {}}}
  \cup {[of |-> "dictionary", v |-> v, words |-> W] : v \in {2, 5}, W \in Dictionary}
  \cup {[of |-> "load", story |-> s] : s \in StoryFile}
  \cup {[of |-> "verify", file |-> f, at |-> i, byte |-> b] :
          f \in [1..5 -> {0, 255}], i \in 1..5, b \in {0, 7, 255}}
  \cup {[of |-> "auxiliary", disc |-> d, n |-> n, name |-> x, to |-> t, m |-> m, other |-> y,
          typed |-> z] :
          d \in AuxiliaryDisc, n \in {1, 4}, x \in Name, t \in {0, 3}, m \in {0, 1, 4},
          y \in Name, z \in Typed}
AboutText ==
       {[of |-> "zscii", c |-> c] : c \in (32..126) \cup (155..223) \cup (252..254)}
  \cup {[of |-> "word", v |-> v, word |-> w] : v \in Versions, w \in Word}
  \cup {[of |-> "line", line |-> l, room |-> n] : l \in Line, n \in {0, 2, 5}}
  \cup {[of |-> "scans", line |-> l, first |-> f, second |-> s] :
          l \in SeqOf({97, 32, 44}, 3), f \in Dictionaries, s \in Dictionaries}
  \cup {[of |-> "form", pieces |-> p, width |-> n] : p \in SeqOf(Piece, 4), n \in 1..4}
  \cup {[of |-> "unicode", c |-> c] : c \in 0..300}
  \cup {[of |-> "name", v |-> v, object |-> o, name |-> n] :
          v \in Versions, o \in {1, 255, 32768},
          n \in {<<>>, <<5, 5, 5>>, <<6, 5, 5>>, <<5, 5, 5, 5, 5, 5>>}}

Pure == [of |-> "nothing"]

MCInit ==
  /\ part \in {"objects", "properties", "tables", "random", "data", "text"}
  /\ question = Pure
  /\ Init /\ (part # "objects" => h_version = 3)
  /\ P!Init /\ (part # "properties" => release = 3)
  /\ M!Init
  /\ A!Init

Ask(questions) ==
  /\ question = Pure /\ question' \in questions
  /\ UNCHANGED <<part, vars, lists, tables, numbers>>

MCNext ==
  \/ part = "objects" /\ Next /\ UNCHANGED <<part, question, lists, tables, numbers>>
  \/ part = "properties" /\ P!Next /\ UNCHANGED <<part, question, vars, tables, numbers>>
  \/ part = "tables" /\ M!Next /\ UNCHANGED <<part, question, vars, lists, numbers>>
  \/ part = "random" /\ A!Next /\ UNCHANGED <<part, question, vars, lists, tables>>
  \/ part = "data" /\ Ask(AboutData)
  \/ part = "text" /\ Ask(AboutText)

(* An opcode runs to its end.                                              *)
MCSpec == MCInit /\ [][MCNext]_all /\ WF_vars(part = "objects" /\ Search)
-----------------------------------------------------------------------------
(* A put changes one property and a table is copied whole: no byte of      *)
(* another one changes.                                                    *)
WritesOnly == P!PutChangesOne /\ M!CopiesWhole

(* The numbers that are drawn can be foretold where the game has asked for *)
(* it.                                                                     *)
Predictable == A!Predictable

(* Signed arithmetic and comparisons, shifts and branches mean what the    *)
(* Z-machine says, at the ends of their ranges too, and numbers are        *)
(* printed as they are written.  What undo takes back is what the turn     *)
(* changed, within the buffer.  A story is in memory as it is on the disk, *)
(* or there is an error; what restore puts into an area is a file of the   *)
(* disk, or there is none of that name.                                    *)
Computed ==
  /\ question.of = "numbers" =>
       A!Signed(question.a, question.b) /\ X!Printed(question.a)
  /\ question.of = "shifts" => A!Shifts(question.a, question.n)
  /\ question.of = "branch" =>
       \A short \in (IF question.distance \in 0..63 THEN BOOLEAN ELSE {FALSE}) :
         A!Branches(question.distance, question.on, short, question.flag)
  /\ question.of = "difference" =>
       LET difference == [a \in question.at |-> 1 + (a % 255)]
       IN  /\ M!DifferenceKept(difference)
           /\ \A size \in {M!Max(question.at) + 1, 40000} : M!DifferenceFits(difference, size)
  /\ question.of = "load" => M!Loaded(question.story)
  /\ question.of = "verify" => M!Verified(question.file, question.at, question.byte)
  /\ question.of = "auxiliary" =>
       M!AuxiliaryRestored(question.disc, question.n, question.name, question.to, question.m,
                           question.other, question.typed)

(* Characters, words and formatted text can be read back; a line becomes   *)
(* its words in their order.  What is looked for is found: a word of one   *)
(* dictionary or of two, sorted or not, the completion of a beginning, a   *)
(* property of a list, the first entry of a table.                         *)
TextKept ==
  /\ question.of = "zscii" => X!ZsciiKept(question.c)
  /\ question.of = "word" =>
       X!WordKept(question.v, question.word) /\ X!StringPrinted(question.v, question.word)
  /\ question.of = "line" => X!Tokenised(question.line, {44}, question.room)
  /\ question.of = "form" => X!FormKept(question.pieces, question.width)
  /\ question.of = "unicode" => X!UnicodeTold(question.c)
  /\ question.of = "name" => X!ObjectTold(question.v, question.object, question.name)
  /\ question.of = "dictionary" =>
       /\ \A word \in WordsOf(2) \cup LongWords, sorted \in BOOLEAN :
            X!Found(question.v, word, question.words, sorted)
       /\ \A typed \in WordsOf(2) : X!Completed(question.v, typed, question.words)
  /\ question.of = "scans" =>
       X!ScannedTwice(5, question.line, question.first, question.second, 2)
  /\ part = "properties" => P!ListKept
  /\ part = "tables" => M!ScanFindsFirst
=============================================================================
