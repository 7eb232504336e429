------------------------------ MODULE MCMemory ------------------------------
(***************************************************************************)
(* The heap and what lives on it, checked together: malloc, its tries at   *)
(* sizes of their own, the files of the C library, and the snapshots of    *)
(* undo, with memory of two cells, one of which restart_header sets.  One  *)
(* of them runs, the others stay where they start.  What has no state, the *)
(* strings of the C library, the way into the kernel and the tool that     *)
(* makes the image of the disk, is asked about.                            *)
(***************************************************************************)
EXTENDS Undo, Integers, SequencesExt, TLC

VARIABLES
  part,                                    \* which part runs
  question,                                \* what a part without state is asked
  m, blocks, ops,                          \* of Heap
  tree,                                    \* of TreeBins
  fp, answer, saved, crashed, calls        \* of Files

undo == vars
files == <<fp, answer, saved, crashed, calls>>
heap == <<m, blocks, ops>>
memory == <<part, question, heap, tree, files, undo>>

Record(name, contents) == [name |-> name, contents |-> contents]
Directory ==
  <<Record("story", <<1, 200, 1>>), Record("old", <<200>>), Record("", <<>>), Record("lost", <<1>>)>>

B == INSTANCE TreeBins WITH
  Chunk <- {1, 2, 3, 4}, Size <- {256, 264, 288, 320, 352, 640}
H == INSTANCE Heap WITH
  ROOT <- 256, HEAP_ADDR <- 4096, HEAP_ADDR_MAX <- 12288, PAGE <- 1024, TRIM <- 2048,
  Requests <- {20, 300, 40000}, Resizes <- {40, 2000}, Callocs <- {<<300, 220>>},
  Alignments <- {<<64, 260>>}, Groups <- {<<60, 20>>, <<300, 20>>}, Pads <- {0},
  MaxBlocks <- 5, MaxOps <- 5
F == INSTANCE Files WITH
  Handle <- {1}, Name <- {"story", "lost"}, Byte <- {1, 200}, JUNK <- 0, BUFFER <- 1,
  Offset <- {-1, 0, 1, 2}, Items <- {<<1, 2>>, <<3, 1>>}, MaxLength <- 5, MaxSteps <- 6

S == INSTANCE System WITH WORD <- 256, SECTOR <- 8, BESIDE <- 2, ENTRY <- 1, END <- 2

ASSUME B!TreeBinsAssumption /\ H!HeapAssumption /\ F!FilesAssumption /\ S!IzoAssumption

(* A word has eight bits here: the numbers are those at its ends.          *)
Conversion == [type : {"d", "u", "x", "X", "o"}, left : BOOLEAN, zero : BOOLEAN,
               width : {0, 1, 2, 3, 4, 6}, arg : {0, 1, 9, 10, 127, 128, 129, 200, 255}]
Text == SeqOf({97, 98, 200}, 3)
Named(name, len) == [name |-> name, id_len |-> len]
Disc == {d \in {S!Disc(<<Named("a", 1), Named("bc", 2), Named("d", 1)>>, order, lengths, first) :
                 order \in Permutations(1..3), lengths \in [1..3 -> {0, 1, 5, 6, 7, 8, 13}],
                 first \in {2, 3}} :
          \A j, k \in DOMAIN d : j # k => d[j].data_sector # d[k].data_sector}
Question ==
       {[of |-> "exception", vector |-> v] : v \in 0..31}
  \cup {[of |-> "request", request |-> r, by |-> "master"] : r \in 0..7 \ {2}}
  \cup {[of |-> "request", request |-> r, by |-> "slave"] : r \in 0..7}
  \cup {[of |-> "format", conversion |-> c, room |-> n] : c \in Conversion, n \in {1, 3, 20}}
  \cup {[of |-> "move", to |-> d, from |-> f, n |-> n] : d \in 1..5, f \in 1..5, n \in 0..4}
  \cup {[of |-> "strings", a |-> a, b |-> b, n |-> n] : a \in Text, b \in Text, n \in {0, 2, 4}}
  \cup {[of |-> "image", disc |-> d] : d \in Disc}
Nothing == [of |-> "nothing"]

MCInit ==
  /\ part \in {"heap", "bins", "files", "undo", "questions"} /\ question = Nothing
  /\ H!Init /\ B!Init /\ F!Init /\ Init
  /\ part # "undo" => /\ zmp = {} /\ regs = CHOOSE r \in Regs : TRUE
                      /\ undo_slots = SLOTS

MCNext ==
  \/ part = "heap" /\ H!Next /\ UNCHANGED <<part, question, tree, files, undo>>
  \/ part = "bins" /\ B!Next /\ UNCHANGED <<part, question, heap, files, undo>>
  \/ part = "files" /\ F!Next /\ UNCHANGED <<part, question, heap, tree, undo>>
  \/ part = "undo" /\ Next /\ UNCHANGED <<part, question, heap, tree, files>>
  \/ /\ part = "questions" /\ question = Nothing /\ question' \in Question
     /\ UNCHANGED <<part, heap, tree, files, undo>>

MCSpec == MCInit /\ [][MCNext]_memory /\ WF_undo(part = "undo" /\ SaveStep)
-----------------------------------------------------------------------------
(* The heap is made of chunks that know their neighbours, and every free   *)
(* one is found by its size; the tries of large chunks are well formed,    *)
(* and give the best fit.                                                  *)
Consistent == (part = "heap" => H!Consistent) /\ (part = "bins" => B!BestFit)

(* malloc and its relatives give out blocks that lie apart and are kept.   *)
Allocates == H!Allocates

(* Files are read and written as stdio.h's callers expect.                 *)
ImplementsFiles == F!ImplementsFiles

(* Strings are copied, moved, compared and formatted as they are; the      *)
(* handlers of exceptions and interrupts get what their parameters name,   *)
(* and leave the program and the controllers as they were; the image of    *)
(* the disk that is also an archive is both.                               *)
Computed ==
  /\ question.of = "exception" => S!ExceptionKept(question.vector)
  /\ question.of = "request" => S!RequestKept(question.request, question.by)
  /\ question.of = "format" => S!Formatted(question.conversion, question.room)
  /\ question.of = "move" =>
       S!Moved([i \in 1..9 |-> i], question.to, question.from, question.n)
  /\ question.of = "strings" => S!StringsKept(question.a, question.b, question.n)
  /\ question.of = "image" => S!Zipped(question.disc)

(* A file that was written and closed is found again.                      *)
Flushed == F!Flushed
=============================================================================
