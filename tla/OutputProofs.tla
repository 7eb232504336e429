---------------------------- MODULE OutputProofs ----------------------------
(***************************************************************************)
(* Text output: the lock of flush_buffer and the stack of tables are in    *)
(* order whatever the game does; and if newline routines do not print,     *)
(* words are wrapped and not broken, the widths of tables are right, and   *)
(* nothing is held back while a key is read: for every size of the buffer, *)
(* the window, the tables and their nesting.  Output implements Streams.   *)
(*                                                                         *)
(* The second part is about Doing, the opcode that handles text: the one   *)
(* under way or, while a routine runs in the middle of its newline, the    *)
(* suspended one.  Such a routine changes nothing that Doing uses.  The    *)
(* third is about the numbers of the characters in a text, and shows for   *)
(* each step that what Streams sees either stays or grows by one.          *)
(***************************************************************************)
EXTENDS Output, FiniteSetTheorems, SequenceTheorems, TLAPS

Opcodes ==
  [name : {"char", "direct"}, kind : Kinds] \cup [name : {"line"}, kind : {"break"}]
    \cup [name : {"select"}, stream : {"screen", "script"}, value : BOOLEAN]
    \cup [name : {"open"}, xsize : XSIZES \cup {Unformatted}, table : Table]
    \cup [name : {"close"}] \cup [name : {"read"}, printed : Nat]
    \cup [name : {"style"}, value : BOOLEAN] \cup [name : {"countdown"}, value : 1..2]
    \cup {Nothing}

Resumed == {"wrapped", "newlined", "read"}
Call == [at : Resumed, todo : Opcodes, s : {0, 1}, width : 0..TEXT_BUFFER_SIZE]

WordPlaces == {"wrap", "wrapped", "display", "transcript"}

(* The opcodes that can be at a place.                                     *)
Fits(place, name) ==
  /\ place = "idle" <=> name = "nothing"
  /\ place = "direct" => name = "direct"
  /\ place \in {"flush", "finish"} => name # "direct"
  /\ place \in {"newline", "newlined"} => name = "line"
  /\ place = "read" => name = "read"

Letters == [id : Nat, kind : Kinds]
Redirection == [table : Table, xsize : XSIZES \cup {Unformatted}, width : Nat, total : Nat]

WordsTyped ==
  /\ buffer \in [0..(TEXT_BUFFER_SIZE - 1) -> Letters \cup {NUL}]
  /\ bufpos \in 0..TEXT_BUFFER_SIZE /\ locked \in BOOLEAN
  /\ prev_c \in Kinds \cup {"nul"}
  /\ \A i \in 0..(bufpos - 1) : buffer[i] \in Letters
TablesTyped ==
  /\ ostream_memory \in BOOLEAN /\ depth \in Nat \cup {-1}
  /\ redirect \in [0..(MAX_NESTING - 1) -> Redirection]
  /\ memory \in [Table -> Seq(Item)] /\ h_line_width \in Nat
StreamsTyped == screen \in Seq(Item) /\ script \in Seq(Item) /\ x \in Nat
ModesTyped ==
  /\ on \in [screen : BOOLEAN, script : BOOLEAN]
  /\ enable_buffering \in BOOLEAN /\ nl_countdown \in 0..2
ControlTyped ==
  /\ at \in Places /\ todo \in Opcodes /\ Fits(at, todo.name)
  /\ s \in {0, 1} /\ width \in 0..TEXT_BUFFER_SIZE
  /\ calls \in Seq(Call)
  /\ \A i \in 1..Len(calls) : Fits(calls[i].at, calls[i].todo.name)
CountsTyped ==
  /\ printed \in Nat /\ switches \in 0..MaxSwitches
  /\ Len(calls) <= MaxCalls
  /\ nl_countdown > 0 \/ todo.name = "countdown" => Len(calls) < MaxCalls

Typed ==
  /\ WordsTyped /\ TablesTyped /\ StreamsTyped
  /\ ModesTyped /\ ControlTyped /\ CountsTyped

(* There is at most one flush, and it holds the lock.                      *)
Suspends(i) == InFlush(calls[i].at, calls[i].todo)
OneFlush ==
  at # "overrun" =>
    /\ InFlush(at, todo) => \A i \in 1..Len(calls) : ~Suspends(i)
    /\ \A i, j \in 1..Len(calls) : Suspends(i) /\ Suspends(j) => i = j
    /\ locked <=> InFlush(at, todo) \/ \E i \in 1..Len(calls) : Suspends(i)

MemoryOpened == ostream_memory <=> depth >= 0

IInv == Typed /\ OneFlush /\ MemoryOpened
-----------------------------------------------------------------------------
LEMMA Sizes ==
  /\ TEXT_BUFFER_SIZE \in Nat /\ TEXT_BUFFER_SIZE > 0
  /\ MAX_NESTING \in Nat /\ MAX_NESTING > 0
  /\ WIDTH \in Nat /\ WIDTH > 0
  /\ \A size \in XSIZES : size \in Nat /\ size > 0
  /\ Table # {} /\ Reentrant \in BOOLEAN
  /\ MaxPrinted \in Nat /\ MaxSwitches \in Nat /\ MaxCalls \in Nat
BY OutputAssumption DEF OutputAssumption

(* Which actions change what.                                              *)
LEMMA WordsChange ==
  ASSUME [Next]_vars
  PROVE  \/ words' = words \/ FlushToTable \/ FlushToStreams \/ Deliver \/ Insert
BY DEF Next, vars, PrintChar, NewLine, BeginSwitch, Begin, Flush, SkipFlush, DirectChar,
   Wrap, ScreenNewLine, Countdown, Return, FinishOpcode, Finish, NewLineToTable,
   NewLineOnScreen, EndNewLine, Select, MemoryOpen, MemoryClose, WindowStyle,
   SetCountdown, Read, Timeout, Key, Overrun

LEMMA TablesChange ==
  ASSUME [Next]_vars
  PROVE  tables' = tables \/ FlushToTable \/ NewLineToTable \/ MemoryOpen \/ MemoryClose
BY DEF Next, vars, PrintChar, NewLine, BeginSwitch, Begin, Flush, SkipFlush, DirectChar,
   Wrap, ScreenNewLine, Countdown, Return, FinishOpcode, Finish, FlushToStreams, Deliver,
   Insert, NewLineOnScreen, EndNewLine, Select, WindowStyle,
   SetCountdown, Read, Timeout, Key, Overrun

LEMMA StreamsChange ==
  ASSUME [Next]_vars
  PROVE  streams' = streams \/ Deliver \/ EndNewLine
BY DEF Next, vars, PrintChar, NewLine, BeginSwitch, Begin, Flush, SkipFlush, DirectChar,
   Wrap, ScreenNewLine, Countdown, Return, FinishOpcode, Finish, FlushToTable,
   FlushToStreams, Insert, NewLineToTable, NewLineOnScreen, Select, MemoryOpen,
   MemoryClose, WindowStyle, SetCountdown, Read, Timeout, Key, Overrun

LEMMA ModesChange ==
  ASSUME [Next]_vars
  PROVE  modes' = modes \/ Wrap \/ ScreenNewLine \/ Select \/ WindowStyle \/ SetCountdown
BY DEF Next, vars, PrintChar, NewLine, BeginSwitch, Begin, Flush, SkipFlush, DirectChar,
   Return, FinishOpcode, Finish, FlushToTable, FlushToStreams, Deliver, Insert,
   NewLineToTable, NewLineOnScreen, EndNewLine, MemoryOpen, MemoryClose, Read, Timeout,
   Key, Overrun
-----------------------------------------------------------------------------
(* What an opcode carries.                                                 *)
LEMMA OpcodeFacts ==
  ASSUME NEW opcode \in Opcodes
  PROVE  /\ opcode.name \in {"char", "direct", "line", "select", "open", "close", "read",
                             "style", "countdown", "nothing"}
         /\ opcode.name \in {"char", "direct"} => opcode.kind \in Kinds
         /\ opcode.name = "select" => /\ opcode.stream \in {"screen", "script"}
                                      /\ opcode.value \in BOOLEAN
         /\ opcode.name = "open" => /\ opcode.xsize \in XSIZES \cup {Unformatted}
                                    /\ opcode.table \in Table
         /\ opcode.name = "read" => opcode.printed \in Nat
         /\ opcode.name = "style" => opcode.value \in BOOLEAN
         /\ opcode.name = "countdown" => opcode.value \in 1..2
         /\ opcode.name = "nothing" => opcode = Nothing
BY DEF Opcodes, Nothing

LEMMA ItemFacts ==
  /\ Letters \subseteq Item /\ NUL \notin Letters /\ NUL.kind = "nul"
  /\ \A item \in Letters \cup {NUL} :
       Break(item) \in Item /\ Break(item).kind = "break"
  /\ \A item \in Letters : item.kind \in Kinds /\ item.id \in Nat /\ item.kind # "break"
BY DEF Letters, Item, NUL, Break, Kinds

LEMMA CharTyped ==
  ASSUME CountsTyped, NEW kind
  PROVE  /\ kind \in Kinds => Char(kind) \in Letters
         /\ kind \in Kinds \cup {"break"} => Char(kind) \in Item
         /\ Char(kind).kind = kind /\ Char(kind).id = printed + 1
BY DEF CountsTyped, Char, Letters, Item

LEMMA LeastNumber ==
  ASSUME NEW T \in SUBSET Nat, T # {}
  PROVE  \E j \in T : \A k \in T : j <= k
<1>1. PICK j \in T : \A k \in T : <<k, j>> \notin OpToRel(<, Nat)
  BY WFMin, NatLessThanWellFounded
<1>2. \A k \in T : ~(k < j)
  BY <1>1 DEF OpToRel
<1> QED BY <1>2

(* The string that starts in the buffer at i.                              *)
LEMMA TerminatorIsFirst ==
  ASSUME Typed, NEW i \in Nat, Terminators(i) # {}
  PROVE  /\ Terminator(i) \in i..(TEXT_BUFFER_SIZE - 1) /\ buffer[Terminator(i)] = NUL
         /\ \A j \in i..(Terminator(i) - 1) : buffer[j] # NUL
<1>1. Terminators(i) \subseteq Nat
  BY Sizes DEF Terminators
<1>2. \E j \in Terminators(i) : \A k \in Terminators(i) : j <= k
  BY <1>1, LeastNumber
<1>3. Terminator(i) \in Terminators(i) /\ \A k \in Terminators(i) : Terminator(i) <= k
  BY <1>2 DEF Terminator
<1> QED BY <1>3, <1>1, Sizes DEF Terminators

LEMMA TextTyped ==
  ASSUME Typed, NEW i \in Nat, Terminators(i) # {}
  PROVE  /\ Text(i) \in Seq(Letters) /\ Text(i) \in Seq(Item)
         /\ Len(Text(i)) = Terminator(i) - i
<1> DEFINE n == Terminator(i) - i
<1>1. /\ Terminator(i) \in i..(TEXT_BUFFER_SIZE - 1)
      /\ \A j \in i..(Terminator(i) - 1) : buffer[j] # NUL
  BY TerminatorIsFirst
<1>2. n \in Nat
  BY <1>1, Sizes
<1>3. \A j \in 1..n : buffer[i + j - 1] \in Letters
  BY <1>1, Sizes DEF Typed, WordsTyped
<1>4. Text(i) = [j \in 1..n |-> buffer[i + j - 1]]
  BY DEF Text
<1> HIDE DEF n
<1>5. Text(i) \in [1..n -> Letters]
  BY <1>3, <1>4, Zenon
<1>6. Text(i) \in Seq(Letters) /\ Len(Text(i)) = n
  BY <1>2, <1>5, SeqDef, IsASeq, LenProperties
<1> QED BY <1>6, ItemFacts, SeqMonotonic DEF n

LEMMA WordTyped ==
  ASSUME Typed
  PROVE  Word \in Seq(Letters) /\ Word \in Seq(Item) /\ Len(Word) = bufpos
<1>1. \A j \in 1..bufpos : buffer[j - 1] \in Letters
  BY Sizes DEF Typed, WordsTyped
<1>2. Word \in [1..bufpos -> Letters] /\ bufpos \in Nat
  BY <1>1, Sizes DEF Word, Typed, WordsTyped
<1>3. Word \in Seq(Letters) /\ Len(Word) = bufpos
  BY <1>2, SeqDef, IsASeq, LenProperties
<1> QED BY <1>3, ItemFacts, SeqMonotonic

LEMMA ShownTyped ==
  ASSUME Typed, CanRead, NEW i \in {0, s}, at \in WordPlaces
  PROVE  Shown(i) \in Seq(Item)
<1>1. CASE Direct
  <2>1. Char(todo.kind) \in Item
    BY <1>1, OpcodeFacts, CharTyped DEF Direct, Typed, ControlTyped
  <2> QED BY <1>1, <2>1 DEF Shown
<1>2. CASE ~Direct
  BY <1>2, TextTyped DEF Shown, CanRead, Typed, ControlTyped
<1> QED BY <1>1, <1>2

(* Text is added to the innermost table.                                   *)
LEMMA AppendTyped ==
  ASSUME Typed, depth \in 0..(MAX_NESTING - 1), NEW items \in Seq(Item), NEW n \in Nat,
         NEW total \in Nat, AppendToTable(items, n, total)
  PROVE  /\ memory' \in [Table -> Seq(Item)]
         /\ redirect' \in [0..(MAX_NESTING - 1) -> Redirection]
<1>1. redirect[depth] \in Redirection /\ redirect[depth].table \in Table
  BY Sizes DEF Typed, TablesTyped, Redirection
<1>2. memory[redirect[depth].table] \o items \in Seq(Item)
  BY <1>1 DEF Typed, TablesTyped
<1>3. memory' \in [Table -> Seq(Item)]
  BY <1>1, <1>2 DEF AppendToTable, Typed, TablesTyped
<1>4. [[redirect[depth] EXCEPT !.width = n] EXCEPT !.total = total] \in Redirection
  BY <1>1 DEF Redirection
<1>5. redirect' \in [0..(MAX_NESTING - 1) -> Redirection]
  BY <1>1, <1>4 DEF AppendToTable, Typed, TablesTyped, Redirection
<1> QED BY <1>3, <1>5
-----------------------------------------------------------------------------
LEMMA WordsStayTyped ==
  ASSUME IInv, [Next]_vars
  PROVE  WordsTyped'
<1> USE DEF IInv
<1>1. /\ buffer \in [0..(TEXT_BUFFER_SIZE - 1) -> Letters \cup {NUL}]
      /\ bufpos \in 0..TEXT_BUFFER_SIZE /\ locked \in BOOLEAN
      /\ prev_c \in Kinds \cup {"nul"}
      /\ \A i \in 0..(bufpos - 1) : buffer[i] \in Letters
  BY DEF Typed, WordsTyped
<1>2. CASE words' = words
  BY <1>1, <1>2 DEF words, WordsTyped
<1>3. CASE FlushToTable
  <2>1. /\ bufpos < TEXT_BUFFER_SIZE /\ buffer' = [buffer EXCEPT ![bufpos] = NUL]
        /\ bufpos' = 0 /\ prev_c' = "nul" /\ locked' = locked
    BY <1>3 DEF FlushToTable, Flushing, Terminated, Emptied
  <2>2. buffer' \in [0..(TEXT_BUFFER_SIZE - 1) -> Letters \cup {NUL}]
    BY <1>1, <2>1
  <2> QED BY <1>1, <2>1, <2>2, Sizes DEF WordsTyped
<1>4. CASE FlushToStreams
  <2>1. bufpos < TEXT_BUFFER_SIZE /\ buffer' = [buffer EXCEPT ![bufpos] = NUL]
    BY <1>4 DEF FlushToStreams, Flushing, Terminated
  <2>2. bufpos' = bufpos /\ prev_c' = prev_c /\ locked' = TRUE
    BY <1>4 DEF FlushToStreams
  <2> QED BY <1>1, <2>1, <2>2, Sizes DEF WordsTyped
<1>5. CASE Deliver
  <2>1. CASE words' = words
    BY <1>1, <2>1 DEF words, WordsTyped
  <2>2. CASE bufpos' = 0 /\ prev_c' = "nul" /\ locked' = FALSE /\ buffer' = buffer
    <3>1. \A i \in 0..(bufpos' - 1) : buffer'[i] \in Letters
      BY <2>2
    <3>2. bufpos' \in 0..TEXT_BUFFER_SIZE
      BY <2>2, Sizes
    <3>3. buffer' \in [0..(TEXT_BUFFER_SIZE - 1) -> Letters \cup {NUL}]
      BY <1>1, <2>2, Zenon
    <3>4. locked' \in BOOLEAN /\ prev_c' \in Kinds \cup {"nul"}
      BY <2>2, Zenon
    <3> QED BY <3>1, <3>2, <3>3, <3>4, Zenon DEF WordsTyped
  <2>3. \/ words' = words
        \/ bufpos' = 0 /\ prev_c' = "nul" /\ locked' = FALSE /\ buffer' = buffer
    BY <1>5 DEF Deliver, Emptied
  <2> QED BY <2>1, <2>2, <2>3
<1>6. CASE Insert
  <2>1. todo.kind \in Kinds /\ Char(todo.kind) \in Letters
    BY <1>6, OpcodeFacts, CharTyped DEF Insert, Finish, Typed, ControlTyped
  <2>2. /\ bufpos < TEXT_BUFFER_SIZE /\ bufpos' = bufpos + 1 /\ prev_c' = todo.kind
        /\ buffer' = [buffer EXCEPT ![bufpos] = Char(todo.kind)] /\ locked' = locked
    BY <1>6 DEF Insert
  <2> QED BY <1>1, <2>1, <2>2, Sizes DEF WordsTyped
<1> QED BY <1>2, <1>3, <1>4, <1>5, <1>6, WordsChange

LEMMA TablesStayTyped ==
  ASSUME IInv, [Next]_vars
  PROVE  TablesTyped'
<1> USE DEF IInv
<1>1. /\ ostream_memory \in BOOLEAN /\ depth \in Nat \cup {-1}
      /\ redirect \in [0..(MAX_NESTING - 1) -> Redirection]
      /\ memory \in [Table -> Seq(Item)] /\ h_line_width \in Nat
  BY DEF Typed, TablesTyped
<1>2. \A d \in 0..(MAX_NESTING - 1) :
        redirect[d].width \in Nat /\ redirect[d].total \in Nat /\ redirect[d].table \in Table
  BY <1>1 DEF Redirection
<1>3. CASE tables' = tables
  BY <1>1, <1>3 DEF tables, TablesTyped
<1>4. CASE FlushToTable
  <2>1. depth \in 0..(MAX_NESTING - 1)
    BY <1>1, <1>4, Sizes DEF FlushToTable, MemoryOpened
  <2>2. Word \in Seq(Letters) /\ Word \in Seq(Item) /\ Len(Word) = bufpos /\ bufpos \in Nat
        /\ bufpos # 0
    BY <1>4, WordTyped, Sizes DEF FlushToTable, Flushing, NothingToFlush, Typed, WordsTyped
  <2> DEFINE drop == TableOverflows(redirect[depth], Word) /\ Word[1].kind = "space"
             rest == IF drop THEN Tail(Word) ELSE Word
             first == Break(IF drop THEN Word[1] ELSE NUL)
  <2>3. rest \in Seq(Item) /\ Len(rest) \in Nat
    BY <2>2, HeadTailProperties
  <2>4. first \in Item
    <3>1. Word[1] \in Letters
      BY <2>2
    <3> QED BY <3>1, ItemFacts
  <2>5. <<first>> \o rest \in Seq(Item)
    BY <2>3, <2>4
  <2>6. \/ AppendToTable(<<first>> \o rest, Len(rest),
                         redirect[depth].total + redirect[depth].width)
        \/ AppendToTable(Word, redirect[depth].width + Len(Word), redirect[depth].total)
    BY <1>4 DEF FlushToTable
  <2>7. /\ memory' \in [Table -> Seq(Item)]
        /\ redirect' \in [0..(MAX_NESTING - 1) -> Redirection]
    <3> HIDE DEF rest, first
    <3>1. redirect[depth].total + redirect[depth].width \in Nat
          /\ redirect[depth].width + Len(Word) \in Nat /\ redirect[depth].total \in Nat
      BY <1>2, <2>1, <2>2
    <3>2. CASE AppendToTable(<<first>> \o rest, Len(rest),
                         redirect[depth].total + redirect[depth].width)
      BY <2>1, <2>3, <2>5, <3>1, <3>2, AppendTyped
    <3>3. CASE AppendToTable(Word, redirect[depth].width + Len(Word), redirect[depth].total)
      BY <2>1, <2>2, <3>1, <3>3, AppendTyped
    <3> QED BY <2>6, <3>2, <3>3
  <2>8. UNCHANGED <<ostream_memory, depth, h_line_width>>
    BY <1>4 DEF FlushToTable
  <2> QED BY <1>1, <2>7, <2>8 DEF TablesTyped
<1>5. CASE NewLineToTable
  <2>1. depth \in 0..(MAX_NESTING - 1)
    BY <1>1, <1>5, Sizes DEF NewLineToTable, MemoryOpened
  <2>2. <<Char("break")>> \in Seq(Item)
    BY CharTyped DEF Typed
  <2>3. redirect[depth].total + redirect[depth].width \in Nat
    BY <1>2, <2>1
  <2>4. AppendToTable(<<Char("break")>>, 0, redirect[depth].total + redirect[depth].width)
        /\ UNCHANGED <<ostream_memory, depth, h_line_width>>
    BY <1>5 DEF NewLineToTable
  <2>5. /\ memory' \in [Table -> Seq(Item)]
        /\ redirect' \in [0..(MAX_NESTING - 1) -> Redirection]
    BY <2>1, <2>2, <2>3, <2>4, AppendTyped
  <2> QED BY <1>1, <2>4, <2>5 DEF TablesTyped
<1>6. CASE MemoryOpen
  <2>1. todo.table \in Table /\ todo.xsize \in XSIZES \cup {Unformatted}
    BY <1>6, OpcodeFacts DEF MemoryOpen, Finish, Typed, ControlTyped
  <2>2. [table |-> todo.table, xsize |-> todo.xsize, width |-> 0, total |-> 0] \in Redirection
    BY <2>1 DEF Redirection
  <2>3. depth' = depth + 1 /\ h_line_width' = h_line_width
    BY <1>6 DEF MemoryOpen
  <2>4. CASE depth' < MAX_NESTING
    <3>1. /\ memory' = [memory EXCEPT ![todo.table] = <<>>]
          /\ redirect' = [redirect EXCEPT ![depth'] =
               [table |-> todo.table, xsize |-> todo.xsize, width |-> 0, total |-> 0]]
          /\ ostream_memory' = TRUE
      BY <1>6, <2>4 DEF MemoryOpen
    <3>2. memory' \in [Table -> Seq(Item)]
      BY <1>1, <3>1, EmptySeq
    <3>3. redirect' \in [0..(MAX_NESTING - 1) -> Redirection]
      BY <1>1, <2>2, <3>1
    <3> QED BY <1>1, <2>3, <3>1, <3>2, <3>3 DEF TablesTyped
  <2>5. CASE ~(depth' < MAX_NESTING)
    <3>1. UNCHANGED <<memory, redirect, ostream_memory>>
      BY <1>6, <2>5 DEF MemoryOpen
    <3> QED BY <1>1, <2>3, <3>1 DEF TablesTyped
  <2> QED BY <2>4, <2>5
<1>7. CASE MemoryClose
  <2>1. CASE depth < 0
    BY <1>1, <1>7, <2>1 DEF MemoryClose, tables, TablesTyped
  <2>2. CASE ~(depth < 0)
    <3>1. depth \in 0..(MAX_NESTING - 1)
      BY <1>1, <1>7, <2>2, Sizes DEF MemoryClose
    <3>2. WidthInAll(redirect[depth]) \in Nat /\ redirect[depth].width \in Nat
      BY <1>2, <3>1 DEF WidthInAll
    <3>3. depth' = depth - 1 /\ ostream_memory' = StillOpen
      BY <1>7, <2>2 DEF MemoryClose
    <3>4. <<Break(NUL)>> \in Seq(Item)
      BY ItemFacts
    <3>5. \/ h_line_width' = redirect[depth].width /\ UNCHANGED <<memory, redirect>>
          \/ /\ h_line_width' = WidthInAll(redirect[depth])
             /\ AppendToTable(<<Break(NUL)>>, 0, WidthInAll(redirect[depth]))
      BY <1>7, <2>2 DEF MemoryClose
    <3>6. /\ memory' \in [Table -> Seq(Item)]
          /\ redirect' \in [0..(MAX_NESTING - 1) -> Redirection]
          /\ h_line_width' \in Nat
      BY <1>1, <3>1, <3>2, <3>4, <3>5, AppendTyped
    <3> QED BY <1>1, <3>1, <3>3, <3>6 DEF TablesTyped, StillOpen
  <2> QED BY <2>1, <2>2
<1> QED BY <1>3, <1>4, <1>5, <1>6, <1>7, TablesChange

LEMMA StreamsStayTyped ==
  ASSUME IInv, [Next]_vars
  PROVE  StreamsTyped'
<1> USE DEF IInv
<1>1. screen \in Seq(Item) /\ script \in Seq(Item) /\ x \in Nat /\ width \in Nat
  BY Sizes DEF Typed, StreamsTyped, ControlTyped
<1>2. CASE streams' = streams
  BY <1>1, <1>2 DEF streams, StreamsTyped
<1>3. CASE Deliver
  <2>1. at \in WordPlaces /\ CanRead
    BY <1>3 DEF Deliver, WordPlaces
  <2>2. Shown(s) \in Seq(Item) /\ Shown(0) \in Seq(Item)
    BY <2>1, ShownTyped
  <2>3. <<LineBreak>> \in Seq(Item)
    BY ItemFacts, Sizes DEF LineBreak, Typed, WordsTyped
  <2>4. \/ screen' = screen \o <<LineBreak>> \o Shown(s) /\ x' = width
        \/ screen' = screen \o Shown(s) /\ x' = x + width
        \/ screen' = screen /\ x' = x
    BY <1>3 DEF Deliver
  <2>5. script' = script \o Shown(0) \/ script' = script
    BY <1>3 DEF Deliver
  <2>6. screen \o <<LineBreak>> \in Seq(Item)
    BY <1>1, <2>3
  <2>7. screen' \in Seq(Item) /\ x' \in Nat
    <3>1. CASE screen' = screen \o <<LineBreak>> \o Shown(s) /\ x' = width
      BY <1>1, <2>2, <2>6, <3>1, ConcatProperties
    <3>2. CASE screen' = screen \o Shown(s) /\ x' = x + width
      BY <1>1, <2>2, <3>2, ConcatProperties
    <3> QED BY <1>1, <2>4, <3>1, <3>2
  <2>8. script' \in Seq(Item)
    BY <1>1, <2>2, <2>5, ConcatProperties
  <2> QED BY <2>7, <2>8 DEF StreamsTyped
<1>4. CASE EndNewLine
  <2>1. Char("break") \in Item
    BY CharTyped DEF Typed
  <2>2. Append(screen, Char("break")) \in Seq(Item) /\ Append(script, Char("break")) \in Seq(Item)
    BY <1>1, <2>1, AppendProperties
  <2>3. \/ screen' = Append(screen, Char("break")) /\ x' = 0
        \/ screen' = screen /\ x' = x
    BY <1>4 DEF EndNewLine
  <2>4. script' = Append(script, Char("break")) \/ script' = script
    BY <1>4 DEF EndNewLine
  <2>5. screen' \in Seq(Item)
    BY <1>1, <2>2, <2>3, Zenon
  <2>6. script' \in Seq(Item)
    BY <1>1, <2>2, <2>4, Zenon
  <2>7. x' \in Nat
    BY <1>1, <2>3
  <2> QED BY <2>5, <2>6, <2>7 DEF StreamsTyped
<1> QED BY <1>2, <1>3, <1>4, StreamsChange

LEMMA ModesStayTyped ==
  ASSUME IInv, [Next]_vars
  PROVE  ModesTyped'
<1> USE DEF IInv
<1>1. /\ on \in [screen : BOOLEAN, script : BOOLEAN]
      /\ enable_buffering \in BOOLEAN /\ nl_countdown \in 0..2 /\ todo \in Opcodes
  BY DEF Typed, ModesTyped, ControlTyped
<1>2. CASE modes' = modes
  BY <1>1, <1>2 DEF modes, ModesTyped
<1>3. CASE Wrap \/ ScreenNewLine
  BY <1>1, <1>3 DEF Wrap, ScreenNewLine, Countdown, Decreased, ModesTyped
<1>4. CASE Select
  <2>1. todo.stream \in {"screen", "script"} /\ todo.value \in BOOLEAN
    BY <1>1, <1>4, OpcodeFacts DEF Select, Finish
  <2> QED BY <1>1, <1>4, <2>1 DEF Select, ModesTyped
<1>5. CASE WindowStyle
  BY <1>1, <1>5, OpcodeFacts DEF WindowStyle, Finish, ModesTyped
<1>6. CASE SetCountdown
  BY <1>1, <1>6, OpcodeFacts DEF SetCountdown, Finish, ModesTyped
<1> QED BY <1>2, <1>3, <1>4, <1>5, <1>6, ModesChange
-----------------------------------------------------------------------------
(* The steps of an opcode, told by what they do to the control.            *)
Starts(opcode) ==
  /\ at = "idle" /\ opcode \in Opcodes /\ opcode.name # "nothing"
  /\ todo' = opcode
  /\ at' \in {"flush", "finish", "direct"} /\ (at' = "direct" <=> opcode.name = "direct")
  /\ opcode.name = "countdown" => Len(calls) < MaxCalls
  /\ UNCHANGED <<s, width, calls, locked, nl_countdown, printed>>
  /\ switches' \in {switches, switches + 1} \cap 0..MaxSwitches

Moves ==
  /\ \/ at = "flush" /\ at' = "finish" /\ UNCHANGED <<s, width, locked>>
     \/ /\ at = "flush" /\ at' \in {"wrap", "display", "transcript"} /\ ~locked /\ locked' = TRUE
        /\ s' \in {0, 1} /\ width' \in 0..TEXT_BUFFER_SIZE
     \/ /\ at = "direct" /\ at' \in {"wrap", "display", "transcript"} /\ UNCHANGED locked
        /\ s' = 0 /\ width' = 1
     \/ /\ \/ at = "finish" /\ todo.name = "line" /\ at' = "newline"
           \/ at = "finish" /\ todo.name = "read" /\ at' = "read"
           \/ at = "wrap" /\ at' = "wrapped"
           \/ at = "newline" /\ at' = "newlined"
           \/ at # "idle" /\ at' = "overrun"
        /\ UNCHANGED <<s, width, locked>>
     \/ /\ at \in {"wrapped", "display", "transcript"} /\ todo.name # "direct"
        /\ at' = "finish" /\ s' = 0 /\ width' = 0 /\ locked' = FALSE
  /\ UNCHANGED <<todo, calls, printed, switches>>
  /\ nl_countdown' \in {nl_countdown, Decreased}

Ends ==
  /\ at' = "idle" /\ todo' = Nothing
  /\ UNCHANGED <<calls, switches, locked>>
  /\ \/ at \in WordPlaces /\ todo.name = "direct"
     \/ at \in {"finish", "newlined", "read"}
  /\ \/ UNCHANGED <<s, width>>
     \/ s' = 0 /\ width' = 0
  /\ printed' \in {printed, printed + 1}
  /\ \/ nl_countdown' = nl_countdown
     \/ todo.name = "countdown" /\ nl_countdown' \in 1..2

Calls(place) ==
  /\ \/ at = "wrap" /\ place = "wrapped"
     \/ at = "newline" /\ place = "newlined"
     \/ at = "read" /\ place = "read"
  /\ calls' = Append(calls, Suspended(place))
  /\ at' = "idle" /\ todo' = Nothing
  /\ \/ UNCHANGED <<s, width>>
     \/ s' = 0 /\ width' = 0
  /\ UNCHANGED <<printed, switches, locked>>
  /\ \/ nl_countdown = 1 /\ nl_countdown' = 0
     \/ /\ Len(calls) + (IF nl_countdown > 0 THEN 1 ELSE 0) < MaxCalls
        /\ nl_countdown' = nl_countdown

Begins == \/ \E kind \in Kinds : PrintChar(kind)
          \/ NewLine
          \/ \E opcode \in Switches : BeginSwitch(opcode)

LEMMA StartStep ==
  ASSUME IInv, Begins
  PROVE  \E opcode : Starts(opcode)
<1>1. Reentrant \in BOOLEAN /\ switches \in 0..MaxSwitches /\ printed \in Nat
      /\ MaxSwitches \in Nat
  BY Sizes DEF IInv, Typed, CountsTyped
<1>2. ASSUME NEW kind \in Kinds, PrintChar(kind)
      PROVE  \E opcode : Starts(opcode)
  <2>1. [name |-> "char", kind |-> kind] \in Opcodes /\ [name |-> "direct", kind |-> kind] \in Opcodes
    BY DEF Opcodes
  <2>2. CASE todo' = [name |-> "char", kind |-> kind] /\ at' \in {"flush", "finish"}
    <3>1. Starts([name |-> "char", kind |-> kind])
      BY <1>1, <1>2, <2>1, <2>2 DEF PrintChar, Begin, words, modes, Starts
    <3> QED BY <3>1
  <2>3. CASE todo' = [name |-> "direct", kind |-> kind] /\ at' = "direct"
    <3>1. Starts([name |-> "direct", kind |-> kind])
      BY <1>1, <1>2, <2>1, <2>3 DEF PrintChar, Begin, words, modes, Starts
    <3> QED BY <3>1
  <2> QED BY <1>2, <2>2, <2>3 DEF PrintChar, Begin
<1>3. ASSUME NewLine
      PROVE  \E opcode : Starts(opcode)
  <2>1. [name |-> "line", kind |-> "break"] \in Opcodes
    BY DEF Opcodes
  <2>2. Starts([name |-> "line", kind |-> "break"])
    BY <1>1, <1>3, <2>1 DEF NewLine, Begin, words, modes, Starts
  <2> QED BY <2>2
<1>4. ASSUME NEW opcode \in Switches, BeginSwitch(opcode)
      PROVE  \E new : Starts(new)
  <2>1. /\ todo' = IF opcode.name = "read" THEN [name |-> "read", printed |-> printed] ELSE opcode
        /\ at = "idle" /\ at' = "flush"
    BY <1>4 DEF BeginSwitch, Begin
  <2>2. todo' \in Opcodes /\ todo'.name \notin {"nothing", "direct"} /\ todo'.name = opcode.name
    BY <1>1, <2>1 DEF Switches, Opcodes
  <2>3. switches' = switches + 1 /\ switches < MaxSwitches
    BY <1>4 DEF BeginSwitch
  <2>4. opcode.name = "countdown" => Len(calls) < MaxCalls
    BY <1>4 DEF BeginSwitch
  <2>5. UNCHANGED <<s, width, calls, locked, nl_countdown, printed>>
    BY <1>4 DEF BeginSwitch, Begin, words, modes
  <2>6. Starts(todo')
    BY <1>1, <2>1, <2>2, <2>3, <2>4, <2>5 DEF Starts
  <2> QED BY <2>6
<1> QED BY <1>2, <1>3, <1>4 DEF Begins

LEMMA WhereToFacts ==
  ASSUME NEW full
  PROVE  /\ WhereTo(full) \in {"wrap", "display", "transcript"}
         /\ WhereTo(full) = "wrap" => full
         /\ WhereTo(full) = "display" => on.screen /\ ~full
BY DEF WhereTo

LEMMA LaterStep ==
  ASSUME IInv, Next, ~Begins
  PROVE  Moves \/ Ends \/ Return \/ \E place \in Resumed : Calls(place)
<1>1. /\ todo \in Opcodes /\ Fits(at, todo.name) /\ nl_countdown \in 0..2
      /\ bufpos \in 0..TEXT_BUFFER_SIZE
  BY DEF IInv, Typed, ControlTyped, ModesTyped, WordsTyped
<1>2. CASE SkipFlush
  BY <1>2 DEF SkipFlush, Moves, modes, words
<1>3. CASE FlushToTable
  BY <1>3 DEF FlushToTable, Flushing, Moves, modes
<1>4. CASE FlushToStreams
  <2>1. at = "flush" /\ at' \in {"wrap", "display", "transcript"} /\ s' \in {0, 1}
    BY <1>4, WhereToFacts DEF FlushToStreams, Flushing
  <2>2. width' \in {bufpos, bufpos - 1} /\ bufpos # 0
    BY <1>4 DEF FlushToStreams, Flushing, NothingToFlush
  <2>3. width' \in 0..TEXT_BUFFER_SIZE
    BY <1>1, <2>2, Sizes
  <2>4. UNCHANGED <<todo, calls, printed, switches, nl_countdown>> /\ ~locked /\ locked' = TRUE
    BY <1>4 DEF FlushToStreams, Flushing, NothingToFlush, modes
  <2> QED BY <2>1, <2>3, <2>4 DEF Moves
<1>5. CASE Deliver
  <2>1. CASE Direct
    BY <1>5, <2>1 DEF Deliver, Direct, WordPlaces, Ends, modes, words
  <2>2. CASE ~Direct
    BY <1>5, <2>2 DEF Deliver, Direct, Moves, modes
  <2> QED BY <2>1, <2>2
<1>6. CASE DirectChar
  BY <1>6, WhereToFacts DEF DirectChar, Moves, modes, words
<1>7. CASE Wrap \/ ScreenNewLine
  <2>1. PICK place \in {"wrapped", "newlined"} :
          /\ \/ at = "wrap" /\ place = "wrapped"
             \/ at = "newline" /\ place = "newlined"
          /\ Countdown(place)
    BY <1>7 DEF Wrap, ScreenNewLine
  <2>2. CASE nl_countdown = 1
    <3>1. Calls(place)
      BY <2>1, <2>2 DEF Countdown, Decreased, Calls, words
    <3> QED BY <3>1 DEF Resumed
  <2>3. CASE nl_countdown # 1
    BY <2>1, <2>3 DEF Countdown, Moves, words
  <2> QED BY <2>2, <2>3
<1>8. CASE Insert \/ NewLineToTable \/ Select \/ MemoryOpen \/ MemoryClose \/ WindowStyle
  BY <1>8 DEF Insert, NewLineToTable, Select, MemoryOpen, MemoryClose, WindowStyle, Finish,
     Ends, modes, words
<1>9. CASE SetCountdown
  BY <1>1, <1>9, OpcodeFacts DEF SetCountdown, Finish, Ends, words
<1>10. CASE EndNewLine
  BY <1>10 DEF EndNewLine, Ends, modes, words
<1>11. CASE Key
  BY <1>11 DEF Key, Ends, modes, words
<1>12. CASE NewLineOnScreen \/ Read
  BY <1>12 DEF NewLineOnScreen, Read, Moves, modes, words
<1>13. CASE Timeout
  <2>1. Calls("read")
    BY <1>13 DEF Timeout, Calls, modes, words
  <2> QED BY <2>1 DEF Resumed
<1>14. CASE Overrun
  BY <1>1, <1>14 DEF Overrun, Flushing, Moves, modes, words
<1> QED BY <1>2, <1>3, <1>4, <1>5, <1>6, <1>7, <1>8, <1>9, <1>10, <1>11, <1>12, <1>13, <1>14
        DEF Next, Begins, Flush, FinishOpcode

LEMMA ReturnStep ==
  ASSUME IInv, Return
  PROVE  /\ at = "idle" /\ Len(calls) \in Nat /\ Len(calls) > 0
         /\ calls[Len(calls)] \in Call
         /\ at' = calls[Len(calls)].at /\ todo' = calls[Len(calls)].todo
         /\ s' = calls[Len(calls)].s /\ width' = calls[Len(calls)].width
         /\ calls' \in Seq(Call) /\ Len(calls') = Len(calls) - 1
         /\ \A i \in 1..Len(calls') : calls'[i] = calls[i]
         /\ words' = words /\ tables' = tables /\ streams' = streams /\ modes' = modes
         /\ UNCHANGED <<printed, switches>>
<1>1. calls \in Seq(Call) /\ calls # <<>>
  BY DEF IInv, Typed, ControlTyped, Return
<1>2. Len(calls) \in Nat /\ Len(calls) > 0 /\ calls[Len(calls)] \in Call
  BY <1>1, EmptySeq, ElementOfSeq
<1>3. calls' = SubSeq(calls, 1, Len(calls) - 1)
  BY DEF Return
<1>4. /\ calls' \in Seq(Call) /\ Len(calls') = Len(calls) - 1
      /\ \A i \in 1..Len(calls') : calls'[i] = calls[i]
  <2>1. PICK n \in Nat : n = Len(calls) - 1
    BY <1>2
  <2>2. calls' = SubSeq(calls, 1, n) /\ \A i \in 1..n : calls[i] \in Call
    BY <1>1, <1>2, <1>3, <2>1, ElementOfSeq
  <2>3. /\ calls' \in Seq(Call) /\ Len(calls') = n
        /\ \A i \in 1..n : calls'[i] = calls[i]
    BY <2>2, SubSeqProperties
  <2> QED BY <2>1, <2>3
<1> QED BY <1>2, <1>4 DEF Return

LEMMA CallStep ==
  ASSUME IInv, NEW place \in Resumed, Calls(place)
  PROVE  /\ Suspended(place) \in Call /\ Fits(place, todo.name)
         /\ Len(calls) \in Nat /\ calls' \in Seq(Call) /\ Len(calls') = Len(calls) + 1
         /\ calls'[Len(calls')] = Suspended(place)
         /\ \A i \in 1..Len(calls) : calls'[i] = calls[i]
<1>1. calls \in Seq(Call) /\ Suspended(place) \in Call /\ Fits(at, todo.name)
  BY DEF IInv, Typed, ControlTyped, Suspended, Call
<1>2. calls' = Append(calls, Suspended(place))
  BY DEF Calls
<1> HIDE DEF Suspended
<1>3. /\ Len(calls) \in Nat /\ calls' \in Seq(Call) /\ Len(calls') = Len(calls) + 1
      /\ calls'[Len(calls')] = Suspended(place)
      /\ \A i \in 1..Len(calls) : calls'[i] = calls[i]
  BY <1>1, <1>2, AppendProperties
<1>4. Fits(place, todo.name)
  BY <1>1 DEF Calls, Fits
<1> QED BY <1>1, <1>3, <1>4

LEMMA ControlStaysTyped ==
  ASSUME IInv, [Next]_vars
  PROVE  ControlTyped'
<1>1. /\ at \in Places /\ todo \in Opcodes /\ Fits(at, todo.name)
      /\ s \in {0, 1} /\ width \in 0..TEXT_BUFFER_SIZE
      /\ calls \in Seq(Call)
      /\ \A i \in 1..Len(calls) : Fits(calls[i].at, calls[i].todo.name)
  BY DEF IInv, Typed, ControlTyped
<1>2. Nothing \in Opcodes /\ Fits("idle", Nothing.name) /\ "idle" \in Places
  BY DEF Opcodes, Nothing, Fits, Places
<1>3. CASE vars' = vars
  BY <1>1, <1>3 DEF vars, control, ControlTyped
<1>4. CASE Begins
  <2>1. PICK opcode : Starts(opcode)
    BY <1>4, StartStep
  <2>2. at' \in Places /\ Fits(at', todo'.name)
    BY <2>1 DEF Starts, Fits, Places
  <2>3. todo' \in Opcodes /\ UNCHANGED <<s, width, calls>>
    BY <2>1 DEF Starts
  <2> QED BY <1>1, <2>2, <2>3 DEF ControlTyped
<1>5. CASE Moves
  <2>1. at' \in Places /\ Fits(at', todo.name)
    BY <1>1, <1>5 DEF Moves, Fits, Places
  <2>2. s' \in {0, 1} /\ width' \in 0..TEXT_BUFFER_SIZE
    BY <1>1, <1>5, Sizes DEF Moves
  <2>3. UNCHANGED <<todo, calls>>
    BY <1>5 DEF Moves
  <2> QED BY <1>1, <2>1, <2>2, <2>3 DEF ControlTyped
<1>6. CASE Ends
  <2>1. at' = "idle" /\ todo' = Nothing /\ calls' = calls
    BY <1>6 DEF Ends
  <2>2. s' \in {0, 1} /\ width' \in 0..TEXT_BUFFER_SIZE
    BY <1>1, <1>6, Sizes DEF Ends
  <2> QED BY <1>1, <1>2, <2>1, <2>2 DEF ControlTyped
<1>7. CASE Return
  <2>1. calls[Len(calls)] \in Call /\ Fits(at', todo'.name)
    BY <1>1, <1>7, ReturnStep
  <2>2. /\ at' \in Places /\ todo' \in Opcodes /\ s' \in {0, 1}
        /\ width' \in 0..TEXT_BUFFER_SIZE
    BY <1>7, <2>1, ReturnStep DEF Call, Resumed, Places
  <2>3. /\ calls' \in Seq(Call)
        /\ \A i \in 1..Len(calls') : Fits(calls'[i].at, calls'[i].todo.name)
    BY <1>1, <1>7, ReturnStep
  <2> QED BY <2>1, <2>2, <2>3 DEF ControlTyped
<1>8. ASSUME NEW place \in Resumed, Calls(place)
      PROVE  ControlTyped'
  <2>1. at' = "idle" /\ todo' = Nothing
    BY <1>8 DEF Calls
  <2>2. s' \in {0, 1} /\ width' \in 0..TEXT_BUFFER_SIZE
    BY <1>1, <1>8, Sizes DEF Calls
  <2>3. /\ Len(calls) \in Nat /\ calls' \in Seq(Call) /\ Len(calls') = Len(calls) + 1
        /\ calls'[Len(calls')] = Suspended(place) /\ Fits(place, todo.name)
        /\ \A i \in 1..Len(calls) : calls'[i] = calls[i]
    BY <1>8, CallStep
  <2>4. Suspended(place).at = place /\ Suspended(place).todo = todo
    BY DEF Suspended
  <2>5. \A i \in 1..Len(calls') : Fits(calls'[i].at, calls'[i].todo.name)
    BY <1>1, <2>3, <2>4
  <2> QED BY <1>2, <2>1, <2>2, <2>3, <2>5 DEF ControlTyped
<1> QED BY <1>3, <1>4, <1>5, <1>6, <1>7, <1>8, LaterStep

LEMMA CountsStayTyped ==
  ASSUME IInv, [Next]_vars
  PROVE  CountsTyped'
<1>1. /\ printed \in Nat /\ switches \in 0..MaxSwitches
      /\ Len(calls) <= MaxCalls /\ Len(calls) \in Nat
      /\ nl_countdown > 0 \/ todo.name = "countdown" => Len(calls) < MaxCalls
      /\ nl_countdown \in 0..2
  BY DEF IInv, Typed, ControlTyped, CountsTyped, ModesTyped
<1>2. Nothing.name = "nothing"
  BY DEF Nothing
<1>3. CASE vars' = vars
  BY <1>1, <1>3 DEF vars, control, modes, CountsTyped
<1>4. CASE Begins
  <2>1. PICK opcode : Starts(opcode)
    BY <1>4, StartStep
  <2> QED BY <1>1, <2>1 DEF Starts, CountsTyped
<1>5. CASE Moves
  <2>1. nl_countdown' > 0 => nl_countdown > 0
    BY <1>1, <1>5 DEF Moves, Decreased
  <2> QED BY <1>1, <1>5, <2>1 DEF Moves, CountsTyped
<1>6. CASE Ends
  <2>1. todo'.name = "nothing" /\ printed' \in Nat
    BY <1>1, <1>2, <1>6 DEF Ends
  <2> QED BY <1>1, <1>6, <2>1 DEF Ends, CountsTyped
<1>7. CASE Return
  <2>1. nl_countdown' = nl_countdown
    BY <1>7, ReturnStep DEF modes
  <2> QED BY <1>1, <1>7, <2>1, ReturnStep, Sizes DEF CountsTyped
<1>8. ASSUME NEW place \in Resumed, Calls(place)
      PROVE  CountsTyped'
  <2>1. todo'.name = "nothing" /\ UNCHANGED <<printed, switches>>
    BY <1>2, <1>8 DEF Calls
  <2>2. Len(calls') = Len(calls) + 1
    BY <1>8, CallStep
  <2>3. Len(calls') <= MaxCalls /\ (nl_countdown' > 0 => Len(calls') < MaxCalls)
    BY <1>1, <1>8, <2>2, Sizes DEF Calls
  <2> QED BY <1>1, <2>1, <2>3 DEF CountsTyped
<1> QED BY <1>3, <1>4, <1>5, <1>6, <1>7, <1>8, LaterStep

(* A second flush never starts, and a routine leaves the lock alone.       *)
LEMMA FlushStaysOne ==
  ASSUME IInv, [Next]_vars
  PROVE  OneFlush'
<1>1. /\ todo \in Opcodes /\ Fits(at, todo.name) /\ Len(calls) \in Nat
      /\ \A i \in 1..Len(calls) : Fits(calls[i].at, calls[i].todo.name)
  BY DEF IInv, Typed, ControlTyped
<1>2. Nothing.name = "nothing" /\ \A opcode : ~InFlush("idle", opcode)
  BY DEF Nothing, InFlush
<1>3. ASSUME at # "overrun"
      PROVE  /\ InFlush(at, todo) => \A i \in 1..Len(calls) : ~Suspends(i)
             /\ \A i, j \in 1..Len(calls) : Suspends(i) /\ Suspends(j) => i = j
             /\ locked <=> InFlush(at, todo) \/ \E i \in 1..Len(calls) : Suspends(i)
  BY <1>3 DEF IInv, OneFlush
<1>4. CASE vars' = vars
  BY <1>3, <1>4 DEF vars, control, words, OneFlush, Suspends
<1>5. ASSUME at # "overrun", calls' = calls, locked' = locked,
             InFlush(at', todo') <=> InFlush(at, todo)
      PROVE  OneFlush'
  <2>1. \A i : Suspends(i)' <=> Suspends(i)
    BY <1>5 DEF Suspends
  <2> QED BY <1>3, <1>5, <2>1 DEF OneFlush
<1>6. CASE Begins
  <2>1. PICK opcode : Starts(opcode)
    BY <1>6, StartStep
  <2>2. ~InFlush(at, todo) /\ ~InFlush(at', todo') /\ at # "overrun"
    BY <2>1 DEF Starts, InFlush
  <2> QED BY <1>5, <2>1, <2>2 DEF Starts
<1>7. CASE Moves
  <2>1. CASE at' = "overrun"
    BY <2>1 DEF OneFlush
  <2>2. CASE at' # "overrun"
    <3>1. calls' = calls /\ todo' = todo /\ at # "overrun"
      BY <1>7, <2>2 DEF Moves
    <3>2. CASE at = "flush" /\ at' \in {"wrap", "display", "transcript"} /\ ~locked /\ locked' = TRUE
      <4>1. InFlush(at', todo')
        BY <1>1, <3>1, <3>2 DEF Fits, InFlush
      <4>2. \A i \in 1..Len(calls) : ~Suspends(i)
        BY <1>3, <3>1, <3>2
      <4>3. \A i \in 1..Len(calls') : ~Suspends(i)'
        BY <3>1, <4>2 DEF Suspends
      <4> QED BY <3>2, <4>1, <4>3 DEF OneFlush
    <3>3. CASE at \in {"wrapped", "display", "transcript"} /\ todo.name # "direct"
                 /\ at' = "finish" /\ locked' = FALSE
      <4>1. InFlush(at, todo) /\ ~InFlush(at', todo')
        BY <3>3 DEF InFlush
      <4>2. \A i \in 1..Len(calls) : ~Suspends(i)
        BY <1>3, <3>1, <4>1
      <4>3. \A i \in 1..Len(calls') : ~Suspends(i)'
        BY <3>1, <4>2 DEF Suspends
      <4> QED BY <3>3, <4>1, <4>3 DEF OneFlush
    <3>4. CASE ~(at = "flush" /\ at' \in {"wrap", "display", "transcript"})
                 /\ ~(at \in {"wrapped", "display", "transcript"})
      <4>1. locked' = locked
        BY <1>7, <2>2, <3>4 DEF Moves
      <4>2. InFlush(at', todo') <=> InFlush(at, todo)
        BY <1>1, <1>7, <2>2, <3>1, <3>4 DEF Moves, InFlush, Fits
      <4> QED BY <1>5, <3>1, <4>1, <4>2
    <3> QED BY <1>7, <2>2, <3>2, <3>3, <3>4 DEF Moves
  <2> QED BY <2>1, <2>2
<1>8. CASE Ends
  <2>1. at # "overrun" /\ calls' = calls /\ locked' = locked /\ at' = "idle"
    BY <1>8 DEF Ends, WordPlaces
  <2>2. ~InFlush(at, todo) /\ ~InFlush(at', todo')
    BY <1>2, <1>8, <2>1 DEF Ends, InFlush
  <2> QED BY <1>5, <2>1, <2>2
<1>9. CASE Return
  <2> DEFINE n == Len(calls)
  <2>1. /\ at = "idle" /\ n \in Nat /\ n > 0 /\ Len(calls') = n - 1
        /\ at' = calls[n].at /\ todo' = calls[n].todo /\ locked' = locked
        /\ \A i \in 1..(n - 1) : calls'[i] = calls[i]
    BY <1>9, ReturnStep DEF words
  <2>2. InFlush(at', todo') <=> Suspends(n)
    BY <2>1 DEF Suspends
  <2>3. \A i \in 1..(n - 1) : Suspends(i)' <=> Suspends(i)
    BY <2>1 DEF Suspends
  <2>4. /\ \A i, j \in 1..n : Suspends(i) /\ Suspends(j) => i = j
        /\ locked <=> \E i \in 1..n : Suspends(i)
    BY <1>2, <1>3, <2>1
  <2> HIDE DEF n
  <2>5. /\ InFlush(at', todo') => \A i \in 1..(n - 1) : ~Suspends(i)'
        /\ \A i, j \in 1..(n - 1) : Suspends(i)' /\ Suspends(j)' => i = j
    BY <2>1, <2>2, <2>3, <2>4
  <2>6. locked <=> InFlush(at', todo') \/ \E i \in 1..(n - 1) : Suspends(i)'
    BY <2>1, <2>2, <2>3, <2>4
  <2> QED BY <2>1, <2>5, <2>6 DEF OneFlush
<1>10. ASSUME NEW place \in Resumed, Calls(place)
       PROVE  OneFlush'
  <2>0. PICK n \in Nat : n = Len(calls)
    BY <1>1
  <2>1. /\ Len(calls') = n + 1 /\ calls'[n + 1] = Suspended(place)
        /\ \A i \in 1..n : calls'[i] = calls[i]
    BY <1>10, <2>0, CallStep
  <2>2. at # "overrun" /\ at' = "idle" /\ locked' = locked
    BY <1>10 DEF Calls
  <2>3. ~InFlush(at', todo')
    BY <1>2, <2>2
  <2>4. Suspends(n + 1)' <=> InFlush(place, todo)
    BY <2>1 DEF Suspends, Suspended
  <2>5. InFlush(place, todo) <=> InFlush(at, todo)
    BY <1>10 DEF Calls, InFlush
  <2>6. \A i \in 1..n : Suspends(i)' <=> Suspends(i)
    BY <2>1 DEF Suspends
  <2>7. /\ InFlush(at, todo) => \A i \in 1..n : ~Suspends(i)
        /\ \A i, j \in 1..n : Suspends(i) /\ Suspends(j) => i = j
        /\ locked <=> InFlush(at, todo) \/ \E i \in 1..n : Suspends(i)
    BY <1>3, <2>0, <2>2
  <2>8. \A i, j \in 1..(n + 1) : Suspends(i)' /\ Suspends(j)' => i = j
    <3>1. \A i \in 1..(n + 1) : i \in 1..n \/ i = n + 1
      OBVIOUS
    <3> QED BY <2>4, <2>5, <2>6, <2>7, <3>1
  <2>9. locked <=> \E i \in 1..(n + 1) : Suspends(i)'
    BY <2>1, <2>4, <2>5, <2>6, <2>7
  <2> QED BY <2>1, <2>2, <2>3, <2>8, <2>9 DEF OneFlush
<1> QED BY <1>4, <1>6, <1>7, <1>8, <1>9, <1>10, LaterStep

LEMMA MemoryStaysOpened ==
  ASSUME IInv, [Next]_vars
  PROVE  MemoryOpened'
<1>1. /\ ostream_memory \in BOOLEAN /\ depth \in Nat \cup {-1}
      /\ ostream_memory <=> depth >= 0
  BY DEF IInv, Typed, TablesTyped, MemoryOpened
<1>2. CASE tables' = tables
  BY <1>1, <1>2 DEF tables, MemoryOpened
<1>3. CASE FlushToTable \/ NewLineToTable
  BY <1>1, <1>3 DEF FlushToTable, NewLineToTable, MemoryOpened
<1>4. CASE MemoryOpen
  <2>1. /\ depth' = depth + 1
        /\ ostream_memory' = TRUE \/ (~(depth' < MAX_NESTING) /\ ostream_memory' = ostream_memory)
    BY <1>4 DEF MemoryOpen
  <2>2. depth' >= 0 /\ (~(depth' < MAX_NESTING) => depth >= 0)
    BY <1>1, <2>1, Sizes
  <2> QED BY <1>1, <2>1, <2>2 DEF MemoryOpened
<1>5. CASE MemoryClose
  <2>1. CASE depth < 0
    BY <1>1, <1>5, <2>1 DEF MemoryClose, tables, MemoryOpened
  <2>2. CASE ~(depth < 0)
    <3>1. depth' = depth - 1 /\ (ostream_memory' <=> ostream_memory /\ depth # 0)
      BY <1>5, <2>2 DEF MemoryClose, StillOpen
    <3> QED BY <1>1, <2>2, <3>1 DEF MemoryOpened
  <2> QED BY <2>1, <2>2
<1> QED BY <1>2, <1>3, <1>4, <1>5, TablesChange

LEMMA InitIInv ==
  ASSUME Init
  PROVE  IInv
<1>1. Closed \in Redirection
  BY Sizes DEF Closed, Redirection
<1>2. WordsTyped
  <2>1. buffer \in [0..(TEXT_BUFFER_SIZE - 1) -> Letters \cup {NUL}]
    BY DEF Init
  <2>2. bufpos \in 0..TEXT_BUFFER_SIZE /\ \A i \in 0..(bufpos - 1) : buffer[i] \in Letters
    BY Sizes DEF Init
  <2>3. locked \in BOOLEAN /\ prev_c \in Kinds \cup {"nul"}
    BY DEF Init
  <2> QED BY <2>1, <2>2, <2>3, Zenon DEF WordsTyped
<1>3. TablesTyped
  BY <1>1, EmptySeq, Sizes DEF Init, TablesTyped
<1>4. StreamsTyped
  BY EmptySeq DEF Init, StreamsTyped
<1>5. ModesTyped
  BY DEF Init, ModesTyped
<1>6. ControlTyped
  BY EmptySeq, Sizes DEF Init, ControlTyped, Places, Opcodes, Nothing, Fits
<1>7. CountsTyped
  BY EmptySeq, Sizes DEF Init, CountsTyped, Nothing
<1>8. OneFlush
  BY EmptySeq DEF Init, OneFlush, InFlush
<1>9. MemoryOpened
  BY DEF Init, MemoryOpened
<1> QED BY <1>2, <1>3, <1>4, <1>5, <1>6, <1>7, <1>8, <1>9 DEF IInv, Typed

LEMMA NextIInv ==
  ASSUME IInv, [Next]_vars
  PROVE  IInv'
BY WordsStayTyped, TablesStayTyped, StreamsStayTyped, ModesStayTyped, ControlStaysTyped,
   CountsStayTyped, FlushStaysOne, MemoryStaysOpened DEF IInv, Typed

LEMMA IInvTypeOK ==
  ASSUME IInv
  PROVE  TypeOK
<1>1. /\ WordsTyped /\ TablesTyped /\ StreamsTyped
      /\ ModesTyped /\ ControlTyped /\ CountsTyped
  BY DEF IInv, Typed
<1>2. buffer \in [0..(TEXT_BUFFER_SIZE - 1) -> Item \cup {NUL}]
  BY <1>1, ItemFacts DEF WordsTyped
<1>3. bufpos \in 0..TEXT_BUFFER_SIZE /\ locked \in BOOLEAN /\ prev_c \in Kinds \cup {"nul"}
  BY <1>1 DEF WordsTyped
<1>4. on \in [screen : BOOLEAN, script : BOOLEAN] /\ nl_countdown \in 0..2
  BY <1>1 DEF ModesTyped
<1>5. {ostream_memory, enable_buffering} \subseteq BOOLEAN
  BY <1>1 DEF ModesTyped, TablesTyped
<1>6. /\ depth \in Nat \cup {-1} /\ memory \in [Table -> Seq(Item)] /\ h_line_width \in Nat
      /\ redirect \in [0..(MAX_NESTING - 1) ->
            [table : Table, xsize : XSIZES \cup {Unformatted}, width : Nat, total : Nat]]
  BY <1>1, Zenon DEF TablesTyped, Redirection
<1>7. screen \in Seq(Item) /\ script \in Seq(Item) /\ x \in Nat
  BY <1>1 DEF StreamsTyped
<1>8. at \in Places /\ s \in {0, 1} /\ width \in 0..TEXT_BUFFER_SIZE
  BY <1>1 DEF ControlTyped
<1>9. Len(calls) <= MaxCalls /\ printed \in Nat /\ switches \in 0..MaxSwitches
  BY <1>1 DEF CountsTyped
<1> QED BY <1>2, <1>3, <1>4, <1>5, <1>6, <1>7, <1>8, <1>9, Zenon DEF TypeOK

LEMMA IInvLockHeld ==
  ASSUME IInv
  PROVE  LockHeld
<1>1. PICK n \in Nat : n = Len(calls)
  BY DEF IInv, Typed, ControlTyped
<1>2. DOMAIN calls = 1..n
  BY <1>1, LenProperties DEF IInv, Typed, ControlTyped
<1>3. Flushes = {i \in 1..n : Suspends(i)}
  BY <1>2 DEF Flushes, Suspends
<1> SUFFICES ASSUME at # "overrun"
             PROVE  Cardinality(Flushes) + (IF InFlush(at, todo) THEN 1 ELSE 0)
                      = IF locked THEN 1 ELSE 0
  BY DEF LockHeld
<1>4. /\ InFlush(at, todo) => Flushes = {}
      /\ \A i, j \in Flushes : i = j
      /\ locked <=> InFlush(at, todo) \/ Flushes # {}
  BY <1>1, <1>3 DEF IInv, OneFlush
<1>5. CASE Flushes = {}
  BY <1>4, <1>5, FS_EmptySet
<1>6. CASE Flushes # {}
  <2>1. PICK i : Flushes = {i}
    BY <1>4, <1>6
  <2>2. Cardinality(Flushes) = 1
    BY <2>1, FS_Singleton
  <2> QED BY <1>4, <1>6, <2>2
<1> QED BY <1>5, <1>6

(* Whatever is printed, switched, suspended and resumed, the lock is held  *)
(* exactly while there is a flush, never two, and the text goes to memory  *)
(* exactly while a table is open.                                          *)
THEOREM Consistency == Spec => []Consistent
<1>1. Init => IInv
  BY InitIInv
<1>2. IInv /\ [Next]_vars => IInv'
  BY NextIInv
<1>3. IInv => Consistent
  BY IInvTypeOK, IInvLockHeld DEF Consistent, IInv, MemoryOpened
<1> QED BY <1>1, <1>2, <1>3, PTL DEF Spec
-----------------------------------------------------------------------------
(***************************************************************************)
(* If newline routines neither print nor switch streams, the opcode that   *)
(* was suspended by one finds everything as it was.                        *)
(***************************************************************************)
Barred == calls # <<>> /\ calls[Len(calls)].at # "read"
Current == [at |-> at, todo |-> todo, s |-> s, width |-> width]
Doing == IF Barred THEN calls[Len(calls)] ELSE Current

Quiet ==
  /\ \A i \in 1..(Len(calls) - 1) : calls[i].at = "read"
  /\ Barred => /\ at \in {"idle", "flush", "finish"}
               /\ todo.name \in {"nothing", "countdown"}
               /\ locked \/ bufpos = 0

(* When the buffer is empty, and that a word is not begun within a word.   *)
Settled(d) ==
  /\ ~(ostream_memory \/ enable_buffering) => bufpos = 0
  /\ d.todo.name = "char" => ostream_memory \/ enable_buffering
  /\ d.todo.name = "direct" => ~(ostream_memory \/ enable_buffering)
  /\ d.at \in {"newline", "newlined"} => bufpos = 0
  /\ d.at = "finish" /\ bufpos # 0 => d.todo.name = "char" /\ ~BreaksBefore(d.todo.kind)

WordHeld ==
  /\ \A i \in 1..(bufpos - 1) :
       /\ buffer[i].kind # "space"
       /\ buffer[i - 1].kind = "hyphen" => buffer[i].kind = "hyphen"
  /\ bufpos > 0 => prev_c = buffer[bufpos - 1].kind

(* What screen_word has prepared.                                          *)
Prepared(d) ==
  /\ d.at \in WordPlaces /\ d.todo.name = "direct" => d.s = 0 /\ d.width = 1
  /\ InFlush(d.at, d.todo) =>
       /\ bufpos \in 1..(TEXT_BUFFER_SIZE - 1) /\ buffer[bufpos] = NUL
       /\ d.s \in {0, 1} /\ d.width = bufpos - d.s
       /\ d.at \in {"wrap", "wrapped"} => (d.s = 1 <=> buffer[0].kind = "space")
  /\ d.at = "display" => x + d.width <= WIDTH

(* The last line of a text holds n characters.                             *)
LastLine(text, n) ==
  /\ n <= Len(text)
  /\ \A i \in (Len(text) - n + 1)..Len(text) : text[i].kind # "break"
  /\ n < Len(text) => text[Len(text) - n].kind = "break"

ScreenHeld == LinesFit(screen, WIDTH) /\ LastLine(screen, x)

TextOf(d) == memory[redirect[d].table]
TablesApart == \A d, e \in 0..depth : redirect[d].table = redirect[e].table => d = e
WidthsCounted ==
  \A d \in 0..depth : Units(TextOf(d)) = redirect[d].total + redirect[d].width
TablesFit ==
  \A d \in 0..depth : redirect[d].xsize # Unformatted =>
    LinesFit(TextOf(d), redirect[d].xsize) /\ LastLine(TextOf(d), redirect[d].width)
OpensAnother(d) ==
  d.todo.name = "open" /\ depth < MAX_NESTING - 1 => d.todo.table \notin OpenTables
TablesHeld(d) ==
  depth < MAX_NESTING => TablesApart /\ WidthsCounted /\ TablesFit /\ OpensAnother(d)

(* What the buffer holds while a key is read was printed since.            *)
Asked(call) ==
  call.todo.name = "read" =>
    /\ call.todo.printed <= printed
    /\ call.at = "read" => \A i \in 0..(bufpos - 1) : buffer[i].id > call.todo.printed
Answered == Asked(Current) /\ \A i \in 1..Len(calls) : Asked(calls[i])

(* A routine called from a newline may set the countdown, and return.      *)
LEMMA BarredStep ==
  ASSUME ~Reentrant, IInv, Quiet, Barred, [Next]_vars
  PROVE  /\ words' = words /\ tables' = tables /\ streams' = streams
         /\ UNCHANGED <<on, enable_buffering, printed>>
         /\ Doing' = Doing /\ Quiet'
<1>1. /\ at \in {"idle", "flush", "finish"} /\ todo.name \in {"nothing", "countdown"}
      /\ locked \/ bufpos = 0
      /\ \A i \in 1..(Len(calls) - 1) : calls[i].at = "read"
  BY DEF Quiet
<1>2. calls \in Seq(Call) /\ Fits(at, todo.name) /\ todo \in Opcodes
  BY DEF IInv, Typed, ControlTyped
<1>3. ASSUME words' = words, calls' = calls, at' \in {"idle", "flush", "finish"},
             todo'.name \in {"nothing", "countdown"}
      PROVE  Doing' = Doing /\ Quiet'
  <2>1. Barred'
    BY <1>3 DEF Barred
  <2> QED BY <1>1, <1>3, <2>1 DEF Doing, Quiet, words
<1>4. CASE vars' = vars
  <2>1. Doing' = Doing /\ Quiet'
    BY <1>1, <1>3, <1>4 DEF vars, control
  <2> QED BY <1>4, <2>1 DEF vars, modes
<1>5. CASE Begins
  <2>1. ~MayPrint
    BY DEF MayPrint, Barred
  <2>2. PICK opcode \in Switches : BeginSwitch(opcode)
    BY <1>5, <2>1 DEF Begins, PrintChar, NewLine
  <2>3. /\ opcode.name = "countdown" /\ todo' = opcode /\ at' = "flush" /\ calls' = calls
        /\ words' = words /\ tables' = tables /\ streams' = streams
        /\ UNCHANGED <<on, enable_buffering, printed>>
    BY <2>1, <2>2 DEF BeginSwitch, Begin, modes
  <2> QED BY <1>3, <2>3
<1>6. CASE SkipFlush
  <2>1. /\ at' = "finish" /\ todo' = todo /\ calls' = calls
        /\ words' = words /\ tables' = tables /\ streams' = streams
        /\ UNCHANGED <<on, enable_buffering, printed>>
    BY <1>6 DEF SkipFlush, modes
  <2> QED BY <1>1, <1>3, <2>1
<1>7. CASE SetCountdown
  <2>1. /\ at' = "idle" /\ todo'.name = "nothing" /\ calls' = calls
        /\ words' = words /\ tables' = tables /\ streams' = streams
        /\ UNCHANGED <<on, enable_buffering, printed>>
    BY <1>7 DEF SetCountdown, Finish, Nothing
  <2> QED BY <1>3, <2>1
<1>8. CASE Return
  <2>1. PICK n \in Nat : n = Len(calls) /\ n > 0
    BY <1>8, ReturnStep
  <2>2. /\ calls[n] \in Call /\ at' = calls[n].at /\ todo' = calls[n].todo
        /\ s' = calls[n].s /\ width' = calls[n].width
        /\ calls' \in Seq(Call) /\ Len(calls') = n - 1
        /\ \A i \in 1..(n - 1) : calls'[i] = calls[i]
        /\ words' = words /\ tables' = tables /\ streams' = streams /\ modes' = modes
        /\ printed' = printed
    BY <1>8, <2>1, ReturnStep
  <2>3. \A i \in 1..(n - 1) : calls'[i].at = "read"
    BY <1>1, <2>1, <2>2
  <2>4. ~Barred'
    <3>1. CASE n = 1
      BY <2>2, <3>1, EmptySeq DEF Barred
    <3>2. CASE n # 1
      BY <2>1, <2>2, <2>3, <3>2 DEF Barred
    <3> QED BY <3>1, <3>2
  <2>5. Doing' = [at |-> calls[n].at, todo |-> calls[n].todo, s |-> calls[n].s,
                  width |-> calls[n].width]
    BY <2>2, <2>4 DEF Doing, Current
  <2>6. Doing = calls[n]
    BY <2>1 DEF Doing
  <2>7. Doing' = Doing
    BY <2>2, <2>5, <2>6 DEF Call
  <2>8. Quiet'
    BY <2>2, <2>3, <2>4 DEF Quiet
  <2> QED BY <2>2, <2>7, <2>8 DEF modes
<1>9. ASSUME Next, ~Begins, ~SkipFlush, ~SetCountdown, ~Return
      PROVE  FALSE
  <2>1. ~Flushing /\ bufpos \in Nat
    BY <1>1, Sizes DEF Flushing, NothingToFlush, IInv, Typed, WordsTyped
  <2>2. ~FlushToTable /\ ~FlushToStreams /\ ~Deliver /\ ~DirectChar
    BY <1>1, <2>1 DEF FlushToTable, FlushToStreams, Deliver, DirectChar
  <2>3. ~Wrap /\ ~ScreenNewLine /\ ~Timeout /\ ~Key
    BY <1>1 DEF Wrap, ScreenNewLine, Timeout, Key
  <2>4. ~(FinishOpcode /\ ~SetCountdown)
    BY <1>1 DEF FinishOpcode, Insert, NewLineToTable, NewLineOnScreen, EndNewLine, Select,
       MemoryOpen, MemoryClose, WindowStyle, Read, Finish
  <2>5. ~Overrun
    BY <1>1, <2>1, Sizes DEF Overrun
  <2> QED BY <1>9, <2>2, <2>3, <2>4, <2>5 DEF Next, Flush, Begins
<1> QED BY <1>4, <1>5, <1>6, <1>7, <1>8, <1>9

LEMMA NotBarred ==
  ASSUME IInv, Quiet, ~Barred
  PROVE  /\ \A i \in 1..Len(calls) : calls[i].at = "read" /\ ~Suspends(i)
         /\ at \notin WordPlaces \cup {"overrun"} => ~locked
         /\ Doing = Current
<1>1. calls \in Seq(Call) /\ Len(calls) \in Nat
  BY DEF IInv, Typed, ControlTyped
<1>2. \A i \in 1..Len(calls) : calls[i].at = "read"
  BY <1>1, EmptySeq DEF Quiet, Barred
<1>3. \A i \in 1..Len(calls) : ~Suspends(i)
  BY <1>2 DEF Suspends, InFlush
<1> QED BY <1>2, <1>3 DEF IInv, OneFlush, InFlush, WordPlaces, Doing

CallsRoutine == Wrap \/ ScreenNewLine

LEMMA DoingStep ==
  ASSUME ~Reentrant, IInv, Quiet, Settled(Doing), ~Barred, [Next]_vars
  PROVE  /\ CallsRoutine =>
              /\ \/ at = "wrap" /\ Doing'.at = "wrapped"
                 \/ at = "newline" /\ Doing'.at = "newlined"
              /\ Doing'.todo = todo /\ Doing'.s = s /\ Doing'.width = width
         /\ ~CallsRoutine => Doing' = Current'
         /\ Quiet'
<1>1. /\ calls \in Seq(Call) /\ Fits(at, todo.name) /\ todo \in Opcodes
      /\ \A i \in 1..Len(calls) : calls[i].at = "read" /\ ~Suspends(i)
      /\ Doing = Current
  BY NotBarred DEF IInv, Typed, ControlTyped
<1>2. ASSUME calls' = calls
      PROVE  ~Barred' /\ Doing' = Current' /\ Quiet'
  BY <1>1, <1>2 DEF Barred, Doing, Quiet
<1>3. CASE CallsRoutine
  <2>1. PICK place \in {"wrapped", "newlined"} :
          /\ \/ at = "wrap" /\ place = "wrapped"
             \/ at = "newline" /\ place = "newlined"
          /\ Countdown(place)
    BY <1>3 DEF CallsRoutine, Wrap, ScreenNewLine
  <2>2. CASE nl_countdown # 1
    <3>1. calls' = calls /\ at' = place /\ UNCHANGED <<todo, s, width>>
      BY <2>1, <2>2 DEF Countdown
    <3>2. Doing' = Current' /\ Quiet'
      BY <1>2, <3>1
    <3> QED BY <1>3, <2>1, <3>1, <3>2 DEF Current
  <2>3. CASE nl_countdown = 1
    <3>1. Calls(place) /\ words' = words /\ place \in Resumed
      BY <2>1, <2>3 DEF Countdown, Decreased, Calls, words, Resumed
    <3>2. /\ Len(calls) \in Nat /\ calls' \in Seq(Call) /\ Len(calls') = Len(calls) + 1
          /\ calls'[Len(calls')] = Suspended(place)
          /\ \A i \in 1..Len(calls) : calls'[i] = calls[i]
      BY <3>1, CallStep
    <3>3. at' = "idle" /\ todo'.name = "nothing"
      BY <3>1 DEF Calls, Nothing
    <3>4. Suspended(place).at # "read"
      BY <2>1 DEF Suspended
    <3>5. Barred' /\ Doing' = Suspended(place)
      BY <3>2, <3>4, EmptySeq DEF Barred, Doing
    <3>6. locked \/ bufpos = 0
      <4>1. CASE at = "newline"
        BY <1>1, <4>1 DEF Settled, Current
      <4>2. CASE at = "wrap" /\ todo.name = "direct"
        BY <1>1, <4>2 DEF Settled, Current
      <4>3. CASE at = "wrap" /\ todo.name # "direct"
        BY <4>3 DEF IInv, OneFlush, InFlush
      <4> QED BY <2>1, <4>1, <4>2, <4>3
    <3>7. \A i \in 1..(Len(calls') - 1) : calls'[i].at = "read"
      BY <1>1, <3>2
    <3>8. Quiet'
      BY <3>1, <3>3, <3>6, <3>7 DEF Quiet, words
    <3> QED BY <1>3, <2>1, <3>5, <3>8 DEF Suspended
  <2> QED BY <2>2, <2>3
<1>4. CASE Timeout
  <2>1. Calls("read") /\ "read" \in Resumed
    BY <1>4 DEF Timeout, Calls, modes, words, Resumed
  <2>2. /\ Len(calls) \in Nat /\ calls' \in Seq(Call) /\ Len(calls') = Len(calls) + 1
        /\ calls'[Len(calls')] = Suspended("read")
        /\ \A i \in 1..Len(calls) : calls'[i] = calls[i]
    BY <2>1, CallStep
  <2>3. Suspended("read").at = "read"
    BY DEF Suspended
  <2>4. ~Barred'
    BY <2>2, <2>3 DEF Barred
  <2>5. \A i \in 1..(Len(calls') - 1) : calls'[i].at = "read"
    BY <1>1, <2>2
  <2>6. ~CallsRoutine
    BY <1>4 DEF Timeout, CallsRoutine, Wrap, ScreenNewLine
  <2> QED BY <2>4, <2>5, <2>6 DEF Doing, Quiet
<1>5. CASE Return
  <2>1. /\ calls' \in Seq(Call) /\ Len(calls') = Len(calls) - 1 /\ Len(calls) \in Nat
        /\ \A i \in 1..Len(calls') : calls'[i] = calls[i]
        /\ at = "idle"
    BY <1>5, ReturnStep
  <2>2. \A i \in 1..Len(calls') : calls'[i].at = "read"
    BY <1>1, <2>1
  <2>3. ~Barred'
    <3>1. CASE Len(calls') = 0
      BY <2>1, <3>1, EmptySeq DEF Barred
    <3>2. CASE Len(calls') # 0
      BY <2>1, <2>2, <3>2 DEF Barred
    <3> QED BY <3>1, <3>2
  <2>4. ~CallsRoutine
    BY <2>1 DEF CallsRoutine, Wrap, ScreenNewLine
  <2> QED BY <2>1, <2>2, <2>3, <2>4 DEF Doing, Quiet
<1>6. CASE ~CallsRoutine /\ ~Timeout /\ ~Return
  <2>1. calls' = calls
    BY <1>6 DEF CallsRoutine, Next, vars, control, PrintChar, NewLine, BeginSwitch, Begin, Flush,
       SkipFlush, DirectChar, FlushToTable, FlushToStreams, Deliver, FinishOpcode, Finish,
       Insert, NewLineToTable, NewLineOnScreen, EndNewLine, Select, MemoryOpen, MemoryClose,
       WindowStyle, SetCountdown, Read, Key, Overrun
  <2> QED BY <1>2, <1>6, <2>1
<1> QED BY <1>3, <1>4, <1>5, <1>6

LEMMA SettledStays ==
  ASSUME ~Reentrant, IInv, Quiet, Settled(Doing), [Next]_vars
  PROVE  Settled(Doing)'
<1>1. CASE Barred
  BY <1>1, BarredStep DEF words, tables, Settled, BreaksBefore
<1>2. CASE ~Barred
  <2>1. /\ Fits(at, todo.name) /\ Doing = Current /\ bufpos \in Nat
        /\ \A i \in 1..Len(calls) : calls[i].at = "read"
        /\ at \notin WordPlaces \cup {"overrun"} => ~locked
    BY <1>2, NotBarred, Sizes DEF IInv, Typed, ControlTyped, WordsTyped
  <2>2. /\ ~(ostream_memory \/ enable_buffering) => bufpos = 0
        /\ todo.name = "char" => ostream_memory \/ enable_buffering
        /\ todo.name = "direct" => ~(ostream_memory \/ enable_buffering)
        /\ at \in {"newline", "newlined"} => bufpos = 0
        /\ at = "finish" /\ bufpos # 0 => todo.name = "char" /\ ~BreaksBefore(todo.kind)
    BY <2>1 DEF Settled, Current
  <2>3. CASE CallsRoutine
    <3>1. UNCHANGED <<bufpos, prev_c, ostream_memory, enable_buffering>>
      BY <2>3 DEF CallsRoutine, Wrap, ScreenNewLine, Countdown, words, tables
    <3>2. /\ \/ at = "wrap" /\ Doing'.at = "wrapped"
             \/ at = "newline" /\ Doing'.at = "newlined"
          /\ Doing'.todo = todo
      BY <1>2, <2>3, DoingStep
    <3> QED BY <2>2, <3>1, <3>2 DEF Settled
  <2>4. CASE ~CallsRoutine
    <3>1. Doing'.at = at' /\ Doing'.todo = todo'
      BY <1>2, <2>4, DoingStep DEF Current
    <3> HIDE DEF Doing
    <3>2. ASSUME ~(ostream_memory' \/ enable_buffering') => bufpos' = 0,
                 todo'.name = "char" => ostream_memory' \/ enable_buffering',
                 todo'.name = "direct" => ~(ostream_memory' \/ enable_buffering'),
                 at' \in {"newline", "newlined"} => bufpos' = 0,
                 at' = "finish" /\ bufpos' # 0 =>
                   todo'.name = "char" /\ ~BreaksBefore(todo.kind)' /\ todo' = todo
          PROVE  Settled(Doing)'
      BY <3>1, <3>2 DEF Settled, BreaksBefore
    <3>3. CASE vars' = vars
      BY <2>2, <3>2, <3>3 DEF vars, words, tables, modes, control, BreaksBefore
    <3>4. CASE Begins
      <4>1. UNCHANGED <<bufpos, prev_c, ostream_memory, enable_buffering>> /\ at' # "newline"
            /\ at' # "newlined"
        BY <3>4 DEF Begins, PrintChar, NewLine, BeginSwitch, Begin, words, tables, modes
      <4>2. ASSUME NEW kind \in Kinds, PrintChar(kind)
            PROVE  Settled(Doing)'
        <5>1. /\ todo'.name = "char" => /\ ostream_memory \/ enable_buffering
                                        /\ at' = "finish" => ~BreaksBefore(kind)
              /\ todo'.name = "direct" => ~(ostream_memory \/ enable_buffering) /\ at' = "direct"
              /\ todo'.name \in {"char", "direct"} /\ todo'.kind = kind
          BY <4>2 DEF PrintChar, Begin
        <5>2. ~(ostream_memory' \/ enable_buffering') => bufpos' = 0
          BY <2>2, <4>1
        <5>3. ~BreaksBefore(kind) => ~BreaksBefore(todo.kind)'
          BY <4>1, <5>1 DEF BreaksBefore
        <5> QED BY <3>1, <4>1, <5>1, <5>2, <5>3 DEF Settled, BreaksBefore
      <4>3. ASSUME NewLine \/ \E opcode \in Switches : BeginSwitch(opcode)
            PROVE  Settled(Doing)'
        <5>1. todo'.name \notin {"char", "direct"} /\ at' = "flush"
          BY <4>3 DEF NewLine, BeginSwitch, Begin, Switches
        <5> QED BY <2>2, <3>2, <4>1, <5>1
      <4> QED BY <3>4, <4>2, <4>3 DEF Begins
    <3>5. CASE SkipFlush
      <4>1. bufpos = 0
        BY <2>1, <3>5 DEF SkipFlush, NothingToFlush, WordPlaces
      <4> QED BY <2>2, <3>2, <3>5, <4>1 DEF SkipFlush, words, tables, modes
    <3>6. CASE FlushToTable
      BY <2>2, <3>2, <3>6 DEF FlushToTable, Emptied, modes
    <3>7. CASE FlushToStreams
      <4>1. at' \in {"wrap", "display", "transcript"} /\ bufpos' = bufpos /\ todo' = todo
            /\ UNCHANGED <<ostream_memory, enable_buffering>>
        BY <3>7, WhereToFacts DEF FlushToStreams, tables, modes
      <4> QED BY <2>2, <3>2, <4>1
    <3>8. CASE Deliver
      <4>1. UNCHANGED <<ostream_memory, enable_buffering>>
        BY <3>8 DEF Deliver, tables, modes
      <4>2. \/ at' = "idle" /\ todo' = Nothing /\ bufpos' = bufpos
            \/ at' = "finish" /\ todo' = todo /\ bufpos' = 0
        BY <3>8 DEF Deliver, Emptied, words
      <4> QED BY <2>2, <3>2, <4>1, <4>2 DEF Nothing
    <3>9. CASE DirectChar
      <4>1. at' \in {"wrap", "display", "transcript"} /\ bufpos' = bufpos /\ todo' = todo
            /\ UNCHANGED <<ostream_memory, enable_buffering>>
        BY <3>9, WhereToFacts DEF DirectChar, words, tables, modes
      <4> QED BY <2>2, <3>2, <4>1
    <3>10. CASE NewLineOnScreen \/ Read
      <4>1. /\ UNCHANGED <<bufpos, ostream_memory, enable_buffering, todo>> /\ bufpos = 0
            /\ at' \in {"newline", "read"}
        BY <2>2, <3>10 DEF NewLineOnScreen, Read, words, tables, modes
      <4> QED BY <2>2, <3>2, <4>1
    <3>11. CASE Overrun
      BY <2>2, <3>2, <3>11 DEF Overrun, words, tables, modes
    <3>12. CASE Return
      <4>1. at' = "read" /\ todo'.name = "read"
        BY <2>1, <3>12, ReturnStep DEF IInv, Typed, ControlTyped, Fits
      <4>2. UNCHANGED <<bufpos, ostream_memory, enable_buffering>>
        BY <3>12 DEF Return, words, tables, modes
      <4> QED BY <2>2, <3>2, <4>1, <4>2
    <3>13. ASSUME at' = "idle", todo' = Nothing,
                  ~(ostream_memory' \/ enable_buffering') => bufpos' = 0
           PROVE  Settled(Doing)'
      BY <3>2, <3>13 DEF Nothing
    <3>14. CASE Insert
      <4>1. UNCHANGED <<ostream_memory, enable_buffering>> /\ todo.name = "char"
            /\ at' = "idle" /\ todo' = Nothing
        BY <3>14 DEF Insert, Finish, tables, modes
      <4> QED BY <2>2, <3>13, <4>1
    <3>15. CASE MemoryOpen
      <4>1. /\ ostream_memory' = TRUE \/ ostream_memory' = ostream_memory
            /\ UNCHANGED <<bufpos, enable_buffering>> /\ at' = "idle" /\ todo' = Nothing
        BY <3>15 DEF MemoryOpen, Finish, words, modes
      <4> QED BY <2>2, <3>13, <4>1
    <3>16. CASE MemoryClose \/ WindowStyle
      <4>1. bufpos = 0 /\ bufpos' = bufpos /\ at' = "idle" /\ todo' = Nothing
        BY <2>2, <3>16 DEF MemoryClose, WindowStyle, Finish, words
      <4> QED BY <3>13, <4>1
    <3>17. CASE NewLineToTable \/ EndNewLine \/ Select \/ SetCountdown \/ Timeout \/ Key
      <4>1. UNCHANGED <<bufpos, ostream_memory, enable_buffering>>
        BY <3>17 DEF NewLineToTable, EndNewLine, Select, SetCountdown, Timeout, Key, Finish,
           words, tables, modes
      <4>2. at' = "idle" /\ todo' = Nothing
        BY <3>17 DEF NewLineToTable, EndNewLine, Select, SetCountdown, Timeout, Key, Finish
      <4> QED BY <2>2, <3>13, <4>1, <4>2
    <3> QED BY <2>4, <3>3, <3>4, <3>5, <3>6, <3>7, <3>8, <3>9, <3>10, <3>11, <3>12, <3>14,
               <3>15, <3>16, <3>17 DEF Next, Begins, Flush, FinishOpcode, CallsRoutine
  <2> QED BY <2>3, <2>4
<1> QED BY <1>1, <1>2

LEMMA WordStaysHeld ==
  ASSUME ~Reentrant, IInv, Quiet, Settled(Doing), WordHeld, [Next]_vars
  PROVE  WordHeld'
<1>1. /\ bufpos \in Nat /\ bufpos <= TEXT_BUFFER_SIZE /\ TEXT_BUFFER_SIZE \in Nat
      /\ buffer \in [0..(TEXT_BUFFER_SIZE - 1) -> Letters \cup {NUL}]
  BY Sizes DEF IInv, Typed, WordsTyped
<1>2. CASE words' = words
  BY <1>2 DEF words, WordHeld
<1>3. ASSUME bufpos' = 0
      PROVE  WordHeld'
  BY <1>3 DEF WordHeld
<1>4. CASE FlushToTable
  BY <1>3, <1>4 DEF FlushToTable, Emptied
<1>5. CASE Deliver
  <2>1. words' = words \/ bufpos' = 0
    BY <1>5 DEF Deliver, Emptied
  <2> QED BY <1>2, <1>3, <2>1
<1>6. CASE FlushToStreams
  <2>1. /\ bufpos < TEXT_BUFFER_SIZE /\ buffer' = [buffer EXCEPT ![bufpos] = NUL]
        /\ bufpos' = bufpos /\ prev_c' = prev_c
    BY <1>6 DEF FlushToStreams, Flushing, Terminated
  <2>2. \A i \in 0..(bufpos - 1) : buffer'[i] = buffer[i]
    BY <1>1, <2>1
  <2> QED BY <1>1, <2>1, <2>2 DEF WordHeld
<1>7. CASE Insert
  <2>1. ~Barred
    BY <1>7, BarredStep, Zenon DEF Insert, Finish, Quiet
  <2>2. Doing = Current
    BY <2>1 DEF Doing
  <2>3. /\ bufpos < TEXT_BUFFER_SIZE /\ buffer' = [buffer EXCEPT ![bufpos] = Char(todo.kind)]
        /\ bufpos' = bufpos + 1 /\ prev_c' = todo.kind /\ at = "finish"
    BY <1>7 DEF Insert, Finish
  <2>4. bufpos > 0 => ~BreaksBefore(todo.kind)
    BY <1>1, <2>2, <2>3 DEF Settled, Current
  <2>5. bufpos > 0 => /\ todo.kind # "space"
                      /\ buffer[bufpos - 1].kind = "hyphen" => todo.kind = "hyphen"
    BY <2>4 DEF BreaksBefore, WordHeld
  <2>6. /\ \A i \in 0..(bufpos - 1) : buffer'[i] = buffer[i]
        /\ buffer'[bufpos].kind = todo.kind
    BY <1>1, <2>3 DEF Char
  <2>7. ASSUME NEW i \in 1..bufpos
        PROVE  /\ buffer'[i].kind # "space"
               /\ buffer'[i - 1].kind = "hyphen" => buffer'[i].kind = "hyphen"
    <3>1. CASE i = bufpos
      BY <1>1, <2>5, <2>6, <3>1
    <3>2. CASE i \in 1..(bufpos - 1)
      BY <1>1, <2>6, <3>2 DEF WordHeld
    <3> QED BY <1>1, <3>1, <3>2
  <2> QED BY <1>1, <2>3, <2>6, <2>7 DEF WordHeld
<1> QED BY <1>2, <1>4, <1>5, <1>6, <1>7, WordsChange

LEMMA PreparedStays ==
  ASSUME ~Reentrant, IInv, Quiet, Settled(Doing), Prepared(Doing), [Next]_vars
  PROVE  Prepared(Doing)'
<1>1. CASE Barred
  BY <1>1, BarredStep DEF words, streams, Prepared
<1>2. CASE ~Barred
  <2>1. /\ Fits(at, todo.name) /\ Doing = Current /\ s \in {0, 1} /\ x \in Nat
        /\ bufpos \in Nat /\ TEXT_BUFFER_SIZE \in Nat /\ WIDTH \in Nat
        /\ buffer \in [0..(TEXT_BUFFER_SIZE - 1) -> Letters \cup {NUL}]
        /\ \A i \in 1..Len(calls) : calls[i].at = "read"
    BY <1>2, NotBarred, Sizes DEF IInv, Typed, ControlTyped, WordsTyped, StreamsTyped
  <2>2. CASE CallsRoutine
    <3>1. words' = words /\ streams' = streams
      BY <2>2 DEF CallsRoutine, Wrap, ScreenNewLine, Countdown
    <3>2. /\ \/ at = "wrap" /\ Doing'.at = "wrapped"
             \/ at = "newline" /\ Doing'.at = "newlined"
          /\ Doing'.todo = todo /\ Doing'.s = s /\ Doing'.width = width
      BY <1>2, <2>2, DoingStep
    <3>3. CASE at = "newline"
      BY <3>2, <3>3 DEF Prepared, InFlush, WordPlaces
    <3>4. CASE at = "wrap"
      BY <2>1, <3>1, <3>2, <3>4 DEF Prepared, InFlush, WordPlaces, Current, words
    <3> QED BY <3>2, <3>3, <3>4
  <2>3. CASE ~CallsRoutine
    <3>1. /\ Doing'.at = at' /\ Doing'.todo = todo' /\ Doing'.s = s' /\ Doing'.width = width'
      BY <1>2, <2>3, DoingStep DEF Current
    <3> HIDE DEF Doing
    <3>2. ASSUME at' \notin WordPlaces
          PROVE  Prepared(Doing)'
      BY <3>1, <3>2 DEF Prepared, InFlush, WordPlaces
    <3>3. CASE vars' = vars
      BY <2>1, <3>1, <3>3 DEF vars, words, streams, control, Prepared, Current
    <3>4. CASE FlushToStreams
      <4>1. /\ at = "flush" /\ bufpos > 0 /\ bufpos < TEXT_BUFFER_SIZE /\ bufpos' = bufpos
            /\ buffer' = [buffer EXCEPT ![bufpos] = NUL] /\ x' = x /\ todo' = todo
        BY <2>1, <3>4 DEF FlushToStreams, Flushing, NothingToFlush, Terminated, streams
      <4>2. buffer'[bufpos] = NUL /\ buffer'[0] = buffer[0] /\ Word[1] = buffer[0]
        BY <2>1, <4>1 DEF Word
      <4> DEFINE full == on.screen /\ WIDTH - x < bufpos
                 drop == full /\ Word[1].kind = "space"
      <4>3. /\ s' = IF drop THEN 1 ELSE 0
            /\ width' = IF drop THEN bufpos - 1 ELSE bufpos
            /\ at' = WhereTo(full)
        BY <3>4 DEF FlushToStreams
      <4>4. todo.name # "direct"
        BY <2>1, <4>1 DEF Fits
      <4>5. /\ at' = "wrap" => (s' = 1 <=> buffer[0].kind = "space")
            /\ at' # "wrapped" /\ width' = bufpos - s' /\ s' \in {0, 1}
        <5>1. at' \in {"wrap", "display", "transcript"} /\ (at' = "wrap" => full)
          BY <4>3, WhereToFacts
        <5> HIDE DEF full
        <5>2. drop <=> full /\ buffer[0].kind = "space"
          BY <4>2
        <5>3. \/ drop /\ s' = 1 /\ width' = bufpos - 1
              \/ ~drop /\ s' = 0 /\ width' = bufpos
          BY <4>3
        <5> HIDE DEF drop
        <5> QED BY <2>1, <5>1, <5>2, <5>3
      <4>6. at' = "display" => x + width' <= WIDTH
        <5>1. CASE at' = "display"
          <6>1. on.screen /\ ~(WIDTH - x < bufpos) /\ width' = bufpos
            BY <4>3, <5>1, WhereToFacts
          <6> QED BY <2>1, <6>1
        <5> QED BY <5>1
      <4> HIDE DEF full, drop
      <4>7. InFlush(at', todo') =>
              /\ bufpos' \in 1..(TEXT_BUFFER_SIZE - 1) /\ buffer'[bufpos'] = NUL
              /\ s' \in {0, 1} /\ width' = bufpos' - s'
              /\ at' \in {"wrap", "wrapped"} => (s' = 1 <=> buffer'[0].kind = "space")
        BY <2>1, <4>1, <4>2, <4>5
      <4> QED BY <3>1, <4>1, <4>4, <4>6, <4>7 DEF Prepared
    <3>5. CASE DirectChar
      <4>1. /\ s' = 0 /\ width' = 1 /\ todo' = todo /\ at = "direct" /\ x' = x
            /\ at' = "display" => ~(WIDTH - x < 1)
        BY <3>5, WhereToFacts DEF DirectChar, streams
      <4>2. todo.name = "direct"
        BY <2>1, <4>1 DEF Fits
      <4>3. at' = "display" => x + 1 <= WIDTH
        BY <2>1, <4>1
      <4> QED BY <3>1, <4>1, <4>2, <4>3 DEF Prepared, InFlush
    <3>6. CASE Begins
      BY <3>2, <3>6 DEF Begins, PrintChar, NewLine, BeginSwitch, Begin, WordPlaces
    <3>7. CASE SkipFlush \/ FlushToTable \/ Deliver
      BY <3>2, <3>7 DEF SkipFlush, FlushToTable, Deliver, WordPlaces
    <3>8. CASE FinishOpcode
      BY <3>2, <3>8 DEF FinishOpcode, Finish, Insert, NewLineToTable, NewLineOnScreen, EndNewLine,
         Select, MemoryOpen, MemoryClose, WindowStyle, SetCountdown, Read, WordPlaces
    <3>9. CASE Timeout \/ Key \/ Overrun
      BY <3>2, <3>9 DEF Timeout, Key, Overrun, WordPlaces
    <3>10. CASE Return
      <4>1. at' = "read"
        BY <2>1, <3>10, ReturnStep
      <4> QED BY <3>2, <4>1 DEF WordPlaces
    <3> QED BY <2>3, <3>3, <3>4, <3>5, <3>6, <3>7, <3>8, <3>9, <3>10
            DEF Next, Begins, Flush, CallsRoutine
  <2> QED BY <2>2, <2>3
<1> QED BY <1>1, <1>2

(* What the screen gets: the word without the space at which it is broken. *)
LEMMA ShownWord ==
  ASSUME IInv, Quiet, WordHeld, Prepared(Doing), ~Barred, InFlush(at, todo)
  PROVE  /\ CanRead
         /\ Shown(s) \in Seq(Item) /\ Len(Shown(s)) = width
         /\ \A k \in 1..width : Shown(s)[k].kind # "break"
         /\ at = "wrapped" => OneWord(Shown(s))
<1>1. /\ bufpos \in 1..(TEXT_BUFFER_SIZE - 1) /\ buffer[bufpos] = NUL
      /\ s \in {0, 1} /\ width = bufpos - s
      /\ at = "wrapped" => (s = 1 <=> buffer[0].kind = "space")
      /\ ~Direct /\ at \in WordPlaces
  BY NotBarred DEF Prepared, Current, InFlush, Direct, WordPlaces
<1>2. bufpos \in Nat /\ \A i \in 0..(bufpos - 1) : buffer[i] \in Letters /\ buffer[i] # NUL
  BY <1>1, Sizes, ItemFacts DEF IInv, Typed, WordsTyped
<1>3. ASSUME NEW i \in {0, 1}, i = 0 \/ i = s
      PROVE  Terminators(i) # {} /\ Terminator(i) = bufpos
  <2>1. i <= bufpos
    BY <1>1, <1>2
  <2>2. bufpos \in Terminators(i)
    BY <1>1, <1>2, <1>3, <2>1, Sizes DEF Terminators
  <2>3. /\ Terminator(i) \in i..(TEXT_BUFFER_SIZE - 1) /\ buffer[Terminator(i)] = NUL
        /\ \A j \in i..(Terminator(i) - 1) : buffer[j] # NUL
    BY <2>2, TerminatorIsFirst DEF IInv
  <2>4. ~(Terminator(i) < bufpos)
    BY <1>2, <2>3, Sizes
  <2>5. ~(bufpos < Terminator(i))
    BY <1>1, <1>2, <2>1, <2>3, Sizes
  <2> QED BY <1>2, <2>2, <2>3, <2>4, <2>5, Sizes
<1>4. Terminators(s) # {} /\ Terminators(0) # {} /\ Terminator(s) = bufpos
  BY <1>1, <1>3
<1>5. CanRead
  BY <1>4 DEF CanRead
<1>6. Shown(s) = Text(s) /\ Text(s) \in Seq(Letters) /\ Text(s) \in Seq(Item)
      /\ Len(Text(s)) = width
  BY <1>1, <1>4, TextTyped DEF Shown, IInv
<1>7. Text(s) = [k \in 1..width |-> buffer[s + k - 1]]
  BY <1>1, <1>4 DEF Text
<1>8. width \in Nat
  BY <1>1, <1>2
<1>9. \A k \in 1..width : Text(s)[k] = buffer[s + k - 1]
  BY <1>7
<1>10. \A k \in 1..width : Text(s)[k].kind # "break"
  BY <1>6, <1>8, ItemFacts
<1>11. ASSUME at = "wrapped"
       PROVE  OneWord(Text(s))
  <2>1. ASSUME NEW k \in 1..width
        PROVE  Text(s)[k].kind # "space"
    <3>1. CASE s + k - 1 = 0
      <4>1. s = 0
        BY <1>1, <1>8, <3>1
      <4> QED BY <1>1, <1>9, <1>11, <3>1, <4>1
    <3>2. CASE s + k - 1 # 0
      <4>1. s + k - 1 \in 1..(bufpos - 1)
        BY <1>1, <1>2, <1>8, <3>2
      <4> QED BY <1>9, <4>1 DEF WordHeld
    <3> QED BY <3>1, <3>2
  <2>2. ASSUME NEW k \in 1..width, Text(s)[k].kind = "hyphen", k < width
        PROVE  Text(s)[k + 1].kind = "hyphen"
    <3>1. s + k \in 1..(bufpos - 1) /\ k + 1 \in 1..width
      BY <1>1, <1>2, <1>8, <2>2
    <3>2. Text(s)[k] = buffer[s + k - 1] /\ Text(s)[k + 1] = buffer[s + k]
      BY <1>1, <1>8, <1>9, <2>2, <3>1
    <3>3. buffer[(s + k) - 1].kind = "hyphen"
      BY <1>1, <1>8, <2>2, <3>2
    <3> QED BY <3>1, <3>2, <3>3 DEF WordHeld
  <2>3. DOMAIN Text(s) = 1..width
    BY <1>7
  <2> QED BY <1>6, <2>1, <2>2, <2>3 DEF OneWord
<1> QED BY <1>5, <1>6, <1>10, <1>11
-----------------------------------------------------------------------------
(* Lines of a text, by places instead of subsequences.                     *)
Unbroken(text, i, j) == \A k \in i..j : text[k].kind # "break"
WordIn(text, i, j) ==
  \A k \in i..j : /\ text[k].kind # "space"
                  /\ text[k].kind = "hyphen" /\ k < j => text[k + 1].kind = "hyphen"
LongAreWords(text, size) ==
  \A i, j \in 1..Len(text) : j - i >= size /\ Unbroken(text, i, j) => WordIn(text, i, j)

LEMMA OneWordIn ==
  ASSUME NEW text \in Seq(Item), NEW i \in 1..Len(text), NEW j \in 1..Len(text), i <= j
  PROVE  OneWord(SubSeq(text, i, j)) <=> WordIn(text, i, j)
<1> DEFINE line == SubSeq(text, i, j)
           n == j - i + 1
<1>1. n \in Nat /\ n > 0 /\ i \in Nat /\ j \in Nat
  OBVIOUS
<1>2. /\ line \in Seq(Item) /\ Len(line) = n
      /\ \A k \in 1..n : line[k] = text[i + k - 1]
  BY SubSeqProperties, ElementOfSeq
<1> HIDE DEF line
<1>3. DOMAIN line = 1..n
  BY <1>2, LenProperties
<1>4. ASSUME OneWord(line), NEW k \in i..j
      PROVE  /\ text[k].kind # "space"
             /\ text[k].kind = "hyphen" /\ k < j => text[k + 1].kind = "hyphen"
  <2>1. k - i + 1 \in 1..n /\ line[k - i + 1] = text[k]
    BY <1>1, <1>2
  <2>2. k < j => (k - i + 1) + 1 \in 1..n /\ line[(k - i + 1) + 1] = text[k + 1] /\ k - i + 1 < n
    BY <1>1, <1>2
  <2> QED BY <1>2, <1>3, <1>4, <2>1, <2>2 DEF OneWord
<1>5. ASSUME WordIn(text, i, j), NEW k \in 1..n
      PROVE  /\ line[k].kind # "space"
             /\ line[k].kind = "hyphen" /\ k < n => line[k + 1].kind = "hyphen"
  <2>1. i + k - 1 \in i..j /\ line[k] = text[i + k - 1]
    BY <1>1, <1>2
  <2>2. k < n => i + k - 1 < j /\ line[k + 1] = text[(i + k - 1) + 1]
    BY <1>1, <1>2
  <2> QED BY <1>5, <2>1, <2>2 DEF WordIn
<1>6. OneWord(line) => WordIn(text, i, j)
  BY <1>4 DEF WordIn
<1>7. WordIn(text, i, j) => OneWord(line)
  BY <1>2, <1>3, <1>5 DEF OneWord
<1> QED BY <1>6, <1>7 DEF line

LEMMA LinesFitPlaces ==
  ASSUME NEW text \in Seq(Item), NEW size \in Nat
  PROVE  LinesFit(text, size) <=> LongAreWords(text, size)
<1>1. DOMAIN text = 1..Len(text) /\ Len(text) \in Nat
  BY LenProperties
<1>2. \A i, j \in 1..Len(text) : j - i >= size => i <= j
  BY <1>1
<1>3. \A i, j \in 1..Len(text) : j - i >= size =>
        (OneWord(SubSeq(text, i, j)) <=> WordIn(text, i, j))
  BY <1>1, <1>2, OneWordIn
<1> QED BY <1>1, <1>3, Zenon DEF LinesFit, LongAreWords, Unbroken

(* The last line grows, but not beyond the size.                           *)
LEMMA LineGrows ==
  ASSUME NEW text \in Seq(Item), NEW size \in Nat, NEW n \in Nat, NEW word \in Seq(Item),
         LinesFit(text, size), LastLine(text, n), n + Len(word) <= size,
         \A k \in 1..Len(word) : word[k].kind # "break"
  PROVE  LinesFit(text \o word, size) /\ LastLine(text \o word, n + Len(word))
<1>1. PICK a \in Nat, b \in Nat : a = Len(text) /\ b = Len(word)
  BY LenProperties
<1>2. PICK new : new = text \o word
  OBVIOUS
<1>3. /\ new \in Seq(Item) /\ Len(new) = a + b
      /\ \A k \in 1..a : new[k] = text[k]
      /\ \A k \in (a + 1)..(a + b) : new[k] = word[k - a]
  <2>1. new \in Seq(Item) /\ Len(new) = a + b
    BY <1>1, <1>2, ConcatProperties
  <2>2. \A k \in 1..(a + b) : new[k] = IF k <= a THEN text[k] ELSE word[k - a]
    BY <1>1, <1>2, ConcatProperties
  <2>3. \A k \in 1..a : new[k] = text[k]
    BY <2>2
  <2>4. \A k \in (a + 1)..(a + b) : new[k] = word[k - a]
    BY <2>2
  <2> QED BY <2>1, <2>3, <2>4
<1>4. n <= a /\ (\A i \in (a - n + 1)..a : text[i].kind # "break")
      /\ (n < a => text[a - n].kind = "break")
  BY <1>1 DEF LastLine
<1>5. \A k \in (a + 1)..(a + b) : new[k].kind # "break"
  <2>1. \A k \in (a + 1)..(a + b) : k - a \in 1..b
    OBVIOUS
  <2> QED BY <1>1, <1>3, <2>1
<1>6. LastLine(new, n + b)
  <2>1. n + b <= a + b
    BY <1>4
  <2>2. ASSUME NEW i \in ((a + b) - (n + b) + 1)..(a + b)
        PROVE  new[i].kind # "break"
    <3>1. i \in (a - n + 1)..a \/ i \in (a + 1)..(a + b)
      OBVIOUS
    <3>2. i \in (a - n + 1)..a => i \in 1..a
      BY <1>4
    <3> QED BY <1>3, <1>4, <1>5, <3>1, <3>2
  <2>3. n + b < a + b => new[(a + b) - (n + b)].kind = "break"
    <3>1. CASE n < a
      <4>1. (a + b) - (n + b) = a - n /\ a - n \in 1..a
        BY <3>1
      <4> QED BY <1>3, <1>4, <3>1, <4>1
    <3>2. CASE ~(n < a)
      BY <3>2
    <3> QED BY <3>1, <3>2
  <2> QED BY <1>3, <2>1, <2>2, <2>3 DEF LastLine
<1>7. ASSUME NEW i \in 1..(a + b), NEW j \in 1..(a + b), j - i >= size, Unbroken(new, i, j)
      PROVE  WordIn(new, i, j)
  <2>1. CASE j <= a
    <3>1. i \in 1..a /\ j \in 1..a
      BY <1>7, <2>1
    <3>2. \A k \in i..j : k \in 1..a
      BY <3>1
    <3>3. \A k \in i..j : new[k] = text[k]
      BY <1>3, <3>2
    <3>4. \A k \in i..j : k < j => new[k + 1] = text[k + 1]
      BY <3>1, <3>3
    <3>5. WordIn(text, i, j)
      BY <1>1, <1>7, <3>1, <3>3, LinesFitPlaces DEF LongAreWords, Unbroken
    <3> QED BY <3>3, <3>4, <3>5 DEF WordIn
  <2>2. CASE ~(j <= a)
    <3>1. b <= size - n
      BY <1>1
    <3>2. i <= a - n
      BY <1>7, <3>1
    <3>3. n < a /\ a - n \in i..j /\ a - n \in 1..a
      BY <2>2, <3>2
    <3>4. new[a - n].kind = "break"
      BY <1>3, <1>4, <3>3
    <3> QED BY <1>7, <3>3, <3>4 DEF Unbroken
  <2> QED BY <2>1, <2>2
<1>8. LongAreWords(new, size)
  BY <1>3, <1>7 DEF LongAreWords
<1> QED BY <1>1, <1>2, <1>3, <1>6, <1>8, LinesFitPlaces

(* A new line is begun, with a word that fits or that fills it alone.      *)
LEMMA LineStarts ==
  ASSUME NEW text \in Seq(Item), NEW size \in Nat, NEW word \in Seq(Item), NEW break \in Item,
         LinesFit(text, size), break.kind = "break",
         \A k \in 1..Len(word) : word[k].kind # "break",
         Len(word) <= size \/ OneWord(word)
  PROVE  /\ LinesFit(text \o <<break>> \o word, size)
         /\ LastLine(text \o <<break>> \o word, Len(word))
<1>1. PICK a \in Nat, b \in Nat : a = Len(text) /\ b = Len(word)
  BY LenProperties
<1>2. PICK mid : mid = text \o <<break>>
  OBVIOUS
<1>3. mid \in Seq(Item) /\ Len(mid) = a + 1 /\ mid[a + 1] = break
      /\ \A k \in 1..a : mid[k] = text[k]
  <2>1. <<break>> \in Seq(Item) /\ Len(<<break>>) = 1 /\ <<break>>[1] = break
    OBVIOUS
  <2> QED BY <1>1, <1>2, <2>1, ConcatProperties
<1>4. PICK new : new = mid \o word
  OBVIOUS
<1>5. /\ new \in Seq(Item) /\ Len(new) = a + b + 1
      /\ \A k \in 1..a : new[k] = text[k]
      /\ new[a + 1] = break
      /\ \A k \in (a + 2)..(a + b + 1) : new[k] = word[k - (a + 1)]
  <2> HIDE <1>2
  <2>0. /\ mid \o word \in Seq(Item) /\ Len(mid \o word) = Len(mid) + Len(word)
        /\ \A k \in 1..(Len(mid) + Len(word)) :
             (mid \o word)[k] = IF k <= Len(mid) THEN mid[k] ELSE word[k - Len(mid)]
    BY <1>3, ConcatProperties, Zenon
  <2>1. new \in Seq(Item) /\ Len(new) = (a + 1) + b
    BY <1>1, <1>3, <1>4, <2>0, Zenon
  <2>2. \A k \in 1..((a + 1) + b) : new[k] = IF k <= a + 1 THEN mid[k] ELSE word[k - (a + 1)]
    BY <1>1, <1>3, <1>4, <2>0, Zenon
  <2>a. PICK n \in Nat : n = (a + 1) + b
    OBVIOUS
  <2>b. \A k \in 1..n : new[k] = IF k <= a + 1 THEN mid[k] ELSE word[k - (a + 1)]
    BY <2>2, <2>a, Zenon
  <2>3. \A k \in 1..a : new[k] = text[k]
    <3>1. \A k \in 1..a : k \in 1..n /\ k <= a + 1
      BY <2>a
    <3> QED BY <3>1, <1>3, <2>b, Zenon
  <2>4. new[a + 1] = break
    <3>1. a + 1 \in 1..n /\ a + 1 <= a + 1
      BY <2>a
    <3> QED BY <3>1, <1>3, <2>b, Zenon
  <2>5. \A k \in (a + 2)..(a + b + 1) : new[k] = word[k - (a + 1)]
    <3>1. \A k \in (a + 2)..(a + b + 1) : k \in 1..n /\ ~(k <= a + 1)
      BY <2>a
    <3> QED BY <3>1, <2>b, Zenon
  <2>6. Len(new) = a + b + 1
    BY <2>1
  <2> QED BY <2>1, <2>3, <2>4, <2>5, <2>6, Zenon
<1>6. \A k \in (a + 2)..(a + b + 1) : k - (a + 1) \in 1..b
  OBVIOUS
<1>7. LastLine(new, b)
  <2>1. \A k \in (a + 2)..(a + b + 1) : new[k].kind # "break"
    BY <1>1, <1>5, <1>6
  <2>2. b <= Len(new) /\ Len(new) - b = a + 1 /\ Len(new) - b + 1 = a + 2
    BY <1>5
  <2> QED BY <1>5, <2>1, <2>2 DEF LastLine
<1>8. ASSUME NEW i \in 1..(a + b + 1), NEW j \in 1..(a + b + 1), j - i >= size,
             Unbroken(new, i, j)
      PROVE  WordIn(new, i, j)
  <2>1. CASE j <= a
    <3>1. i \in 1..a /\ j \in 1..a
      BY <1>8, <2>1
    <3>2. \A k \in i..j : k \in 1..a
      BY <3>1
    <3>3. \A k \in i..j : new[k] = text[k]
      BY <1>5, <3>2
    <3>4. \A k \in i..j : k < j => new[k + 1] = text[k + 1]
      BY <3>1, <3>3
    <3>5. WordIn(text, i, j)
      BY <1>1, <1>8, <3>1, <3>3, LinesFitPlaces DEF LongAreWords, Unbroken
    <3> QED BY <3>3, <3>4, <3>5 DEF WordIn
  <2>2. CASE j > a /\ i <= a + 1
    <3>1. a + 1 \in i..j
      BY <2>2
    <3> QED BY <1>5, <1>8, <3>1 DEF Unbroken
  <2>3. CASE i > a + 1
    <3>1. j - i < b
      BY <2>3
    <3>2. ~(b <= size)
      BY <1>8, <3>1
    <3>3. OneWord(word) /\ DOMAIN word = 1..b
      BY <1>1, <3>2, LenProperties
    <3>4. \A k \in i..j : k \in (a + 2)..(a + b + 1) /\ k - (a + 1) \in 1..b
      BY <2>3
    <3>5. \A k \in i..j : new[k] = word[k - (a + 1)]
      BY <1>5, <3>4
    <3>6. ASSUME NEW k \in i..j, k < j
          PROVE  new[k + 1] = word[(k - (a + 1)) + 1] /\ k - (a + 1) < b
      <4>1. k + 1 \in i..j /\ (k + 1) - (a + 1) = (k - (a + 1)) + 1 /\ k - (a + 1) < b
        BY <2>3, <3>6
      <4>2. new[k + 1] = word[(k + 1) - (a + 1)]
        BY <3>5, <4>1
      <4> QED BY <4>1, <4>2
    <3>7. ASSUME NEW k \in i..j
          PROVE  /\ new[k].kind # "space"
                 /\ new[k].kind = "hyphen" /\ k < j => new[k + 1].kind = "hyphen"
      BY <1>1, <3>3, <3>4, <3>5, <3>6 DEF OneWord
    <3> QED BY <3>7 DEF WordIn
  <2> QED BY <2>1, <2>2, <2>3
<1>9. LongAreWords(new, size)
  BY <1>5, <1>8 DEF LongAreWords
<1> QED BY <1>1, <1>2, <1>4, <1>5, <1>7, <1>9, LinesFitPlaces

LEMMA LineEnds ==
  ASSUME NEW text \in Seq(Item), NEW size \in Nat, NEW break \in Item,
         LinesFit(text, size), break.kind = "break"
  PROVE  /\ LinesFit(Append(text, break), size) /\ LastLine(Append(text, break), 0)
         /\ Append(text, break) = text \o <<break>>
<1>1. <<>> \in Seq(Item) /\ Len(<<>>) = 0
  BY EmptySeq
<1>2. Append(text, break) = text \o <<break>> /\ text \o <<break>> \in Seq(Item)
  BY AppendIsConcat, AppendProperties
<1>3. text \o <<break>> \o <<>> = text \o <<break>>
  BY <1>2, ConcatEmptySeq
<1>4. PICK none \in Seq(Item) : none = <<>> /\ Len(none) = 0
  BY <1>1
<1>5. \A k \in 1..Len(none) : none[k].kind # "break"
  BY <1>4
<1>6. Len(none) <= size
  BY <1>4
<1>7. /\ LinesFit(text \o <<break>> \o none, size)
      /\ LastLine(text \o <<break>> \o none, Len(none))
  <2> HIDE <1>4
  <2> QED BY <1>5, <1>6, LineStarts, Zenon
<1> QED BY <1>2, <1>3, <1>4, <1>7, Zenon

(* A word is broken at the width of the window, or displayed where it fits.*)
LEMMA ScreenStaysHeld ==
  ASSUME ~Reentrant, IInv, Quiet, Settled(Doing), WordHeld, Prepared(Doing), ScreenHeld, [Next]_vars
  PROVE  ScreenHeld'
<1>1. /\ screen \in Seq(Item) /\ x \in Nat /\ WIDTH \in Nat /\ WIDTH > 0 /\ todo \in Opcodes
      /\ LinesFit(screen, WIDTH) /\ LastLine(screen, x)
  BY Sizes DEF IInv, Typed, StreamsTyped, ControlTyped, ScreenHeld
<1>2. CASE streams' = streams
  BY <1>1, <1>2 DEF streams, ScreenHeld
<1>3. CASE Barred
  BY <1>2, <1>3, BarredStep
<1>4. CASE ~Barred /\ EndNewLine
  <2>1. Char("break") \in Item /\ Char("break").kind = "break"
    BY CharTyped DEF IInv, Typed
  <2>2. LinesFit(Append(screen, Char("break")), WIDTH) /\ LastLine(Append(screen, Char("break")), 0)
    BY <1>1, <2>1, LineEnds
  <2>3. \/ screen' = Append(screen, Char("break")) /\ x' = 0
        \/ screen' = screen /\ x' = x
    BY <1>4 DEF EndNewLine
  <2> QED BY <1>1, <2>2, <2>3, Zenon DEF ScreenHeld
<1>5. CASE ~Barred /\ Deliver
  <2>1. /\ at \in {"wrapped", "display", "transcript"}
        /\ at = "wrapped" => screen' = screen \o <<LineBreak>> \o Shown(s) /\ x' = width
        /\ at = "display" => screen' = screen \o Shown(s) /\ x' = x + width
        /\ at = "transcript" => screen' = screen /\ x' = x
    BY <1>5 DEF Deliver
  <2>2. PICK word : word = Shown(s)
    OBVIOUS
  <2>3. /\ word \in Seq(Item) /\ Len(word) = width /\ width \in Nat
        /\ \A k \in 1..width : word[k].kind # "break"
        /\ at = "wrapped" => width <= WIDTH \/ OneWord(word)
    <3>1. CASE todo.name = "direct"
      <4>1. width = 1
        BY <1>5, <2>1, <3>1, NotBarred DEF Prepared, Current, WordPlaces
      <4>2. Char(todo.kind) \in Item /\ Char(todo.kind).kind # "break"
        BY <1>1, <3>1, OpcodeFacts, CharTyped DEF IInv, Typed, Kinds
      <4>3. word = <<Char(todo.kind)>>
        BY <2>2, <3>1 DEF Shown, Direct
      <4> QED BY <1>1, <4>1, <4>2, <4>3
    <3>2. CASE todo.name # "direct"
      <4>1. InFlush(at, todo)
        BY <2>1, <3>2 DEF InFlush
      <4>2. width \in Nat
        BY Sizes DEF IInv, Typed, ControlTyped
      <4> QED BY <1>5, <2>2, <4>1, <4>2, ShownWord
    <3> QED BY <3>1, <3>2
  <2>4. CASE at = "wrapped"
    <3>1. LineBreak \in Item /\ LineBreak.kind = "break"
      BY ItemFacts, Sizes DEF LineBreak, IInv, Typed, WordsTyped
    <3>2. /\ LinesFit(screen \o <<LineBreak>> \o word, WIDTH)
          /\ LastLine(screen \o <<LineBreak>> \o word, Len(word))
      <4> HIDE <2>2
      <4> QED BY <1>1, <2>3, <2>4, <3>1, LineStarts
    <3> QED BY <2>1, <2>2, <2>3, <2>4, <3>2, Zenon DEF ScreenHeld
  <2>5. CASE at = "display"
    <3>1. x + width <= WIDTH
      BY <1>5, <2>5, NotBarred DEF Prepared, Current
    <3>2. /\ LinesFit(screen \o word, WIDTH) /\ LastLine(screen \o word, x + Len(word))
      <4> HIDE <2>2
      <4> QED BY <1>1, <2>3, <3>1, LineGrows
    <3> QED BY <2>1, <2>2, <2>3, <2>5, <3>2, Zenon DEF ScreenHeld
  <2>6. CASE at = "transcript"
    BY <1>1, <2>1, <2>6 DEF ScreenHeld
  <2> QED BY <2>1, <2>4, <2>5, <2>6
<1> QED BY <1>2, <1>3, <1>4, <1>5, StreamsChange

-----------------------------------------------------------------------------
(* The characters of a text without its breaks.                            *)
Marks(text) == {i \in 1..Len(text) : text[i].kind # "break"}

LEMMA UnitsMarks ==
  ASSUME NEW text \in Seq(Item)
  PROVE  Units(text) = Cardinality(Marks(text)) /\ IsFiniteSet(Marks(text)) /\ Units(text) \in Nat
<1>1. DOMAIN text = 1..Len(text) /\ Len(text) \in Nat
  BY LenProperties
<1>2. Units(text) = Cardinality(Marks(text))
  BY <1>1 DEF Units, Marks
<1>3. IsFiniteSet(1..Len(text)) /\ Marks(text) \subseteq 1..Len(text)
  BY <1>1, FS_Interval DEF Marks
<1>4. IsFiniteSet(Marks(text))
  BY <1>3, FS_Subset
<1> QED BY <1>2, <1>4, FS_CardinalityType

LEMMA UnitsConcat ==
  ASSUME NEW text \in Seq(Item), NEW more \in Seq(Item)
  PROVE  Units(text \o more) = Units(text) + Units(more)
<1>1. PICK a \in Nat, b \in Nat : a = Len(text) /\ b = Len(more)
  BY LenProperties
<1>2. PICK new : new = text \o more
  OBVIOUS
<1>3. new \in Seq(Item) /\ Len(new) = a + b
  BY <1>1, <1>2, ConcatProperties
<1>4. \A k \in 1..(a + b) : new[k] = IF k <= a THEN text[k] ELSE more[k - a]
  BY <1>1, <1>2, ConcatProperties
<1> HIDE <1>2
<1> DEFINE Shifted == {k \in (a + 1)..(a + b) : more[k - a].kind # "break"}
<1>5. Marks(new) = Marks(text) \cup Shifted
  <2>1. ASSUME NEW k \in 1..(a + b)
        PROVE  k \in Marks(new) <=> k \in Marks(text) \cup Shifted
    <3>1. CASE k <= a
      BY <1>1, <1>3, <1>4, <3>1 DEF Marks
    <3>2. CASE ~(k <= a)
      BY <1>1, <1>3, <1>4, <3>2 DEF Marks
    <3> QED BY <3>1, <3>2
  <2>2. Marks(new) \subseteq 1..(a + b) /\ Marks(text) \subseteq 1..(a + b)
        /\ Shifted \subseteq 1..(a + b)
    BY <1>1, <1>3 DEF Marks
  <2> HIDE DEF Shifted
  <2> QED BY <2>1, <2>2
<1>6. Marks(text) \cap Shifted = {}
  BY <1>1 DEF Marks
<1>7. Cardinality(Shifted) = Cardinality(Marks(more)) /\ IsFiniteSet(Shifted)
  <2> DEFINE f == [k \in Marks(more) |-> k + a]
  <2>1. \A k \in Marks(more) : k \in 1..b /\ more[k].kind # "break"
    BY <1>1 DEF Marks
  <2>2. \A k \in Marks(more) : k + a \in Shifted
    <3>1. ASSUME NEW k \in Marks(more)
          PROVE  k + a \in (a + 1)..(a + b) /\ (k + a) - a = k
      BY <2>1
    <3> QED BY <2>1, <3>1
  <2>3. ASSUME NEW k \in Shifted
        PROVE  k - a \in Marks(more) /\ (k - a) + a = k
    <3>1. k \in (a + 1)..(a + b) /\ more[k - a].kind # "break"
      OBVIOUS
    <3>2. k - a \in 1..b /\ (k - a) + a = k
      BY <3>1
    <3> QED BY <1>1, <3>1, <3>2 DEF Marks
  <2> HIDE DEF Shifted
  <2>4. f \in [Marks(more) -> Shifted]
    BY <2>2
  <2>5. \A j, k \in Marks(more) : f[j] = f[k] => j = k
    BY <2>1
  <2>6. \A k \in Shifted : \E j \in Marks(more) : f[j] = k
    <3>1. ASSUME NEW k \in Shifted
          PROVE  f[k - a] = k
      BY <2>3, <3>1
    <3> QED BY <2>3, <3>1
  <2> HIDE DEF f
  <2>7. f \in Bijection(Marks(more), Shifted)
    BY <2>4, <2>5, <2>6 DEF Bijection, Injection, Surjection, IsInjective
  <2>8. IsFiniteSet(Marks(more))
    BY UnitsMarks
  <2>9. ExistsBijection(Marks(more), Shifted)
    BY <2>7 DEF ExistsBijection
  <2> QED BY <2>8, <2>9, FS_Bijection
<1> HIDE DEF Shifted
<1>8. IsFiniteSet(Marks(text)) /\ IsFiniteSet(Shifted) /\ Cardinality({}) = 0
  BY <1>7, UnitsMarks, FS_EmptySet
<1>9. Cardinality(Marks(new)) = Cardinality(Marks(text)) + Cardinality(Shifted) - 0
  <2>1. Cardinality(Marks(text) \cup Shifted)
          = Cardinality(Marks(text)) + Cardinality(Shifted) - Cardinality(Marks(text) \cap Shifted)
    BY <1>8, FS_Union
  <2> QED BY <1>5, <1>6, <1>8, <2>1
<1>10. /\ Units(new) = Cardinality(Marks(new)) /\ Units(text) = Cardinality(Marks(text))
       /\ Units(more) = Cardinality(Marks(more))
       /\ Units(text) \in Nat /\ Units(more) \in Nat
  BY <1>3, UnitsMarks
<1>11. Units(new) = Units(text) + Units(more)
  BY <1>7, <1>9, <1>10
<1> QED BY <1>2, <1>11

LEMMA UnitsWord ==
  ASSUME NEW word \in Seq(Item), \A k \in 1..Len(word) : word[k].kind # "break"
  PROVE  Units(word) = Len(word)
<1>1. Len(word) \in Nat
  BY LenProperties
<1>2. Marks(word) = 1..Len(word)
  BY DEF Marks
<1>3. Cardinality(1..Len(word)) = Len(word)
  BY <1>1, FS_Interval
<1> QED BY <1>2, <1>3, UnitsMarks

LEMMA UnitsBreak ==
  ASSUME NEW break \in Item, break.kind = "break"
  PROVE  <<break>> \in Seq(Item) /\ Units(<<break>>) = 0
<1>1. <<break>> \in Seq(Item) /\ Len(<<break>>) = 1 /\ <<break>>[1] = break
  OBVIOUS
<1>2. PICK one \in Seq(Item) : one = <<break>> /\ Len(one) = 1 /\ one[1].kind = "break"
  BY <1>1
<1>3. Marks(one) = {}
  BY <1>2 DEF Marks
<1>4. Units(one) = 0
  BY <1>3, UnitsMarks, FS_EmptySet
<1> QED BY <1>1, <1>2, <1>4
-----------------------------------------------------------------------------
(* The tables that are open.                                               *)
LEMMA TextAdded ==
  ASSUME IInv, depth \in 0..(MAX_NESTING - 1), TablesApart, WidthsCounted, TablesFit,
         NEW items \in Seq(Item), NEW n \in Nat, NEW total \in Nat,
         AppendToTable(items, n, total), depth' = depth,
         NEW text \in Seq(Item), text = TextOf(depth) \o items,
         Units(text) = total + n,
         redirect[depth].xsize # Unformatted =>
           LinesFit(text, redirect[depth].xsize) /\ LastLine(text, n)
  PROVE  TablesApart' /\ WidthsCounted' /\ TablesFit' /\ OpenTables' = OpenTables
<1>1. PICK e \in 0..(MAX_NESTING - 1) : e = depth
  OBVIOUS
<1>2. PICK r \in [0..(MAX_NESTING - 1) -> Redirection], m \in [Table -> Seq(Item)] :
        r = redirect /\ m = memory
  BY DEF IInv, Typed, TablesTyped
<1>3. PICK r2, m2 : r2 = redirect' /\ m2 = memory'
  OBVIOUS
<1>4. /\ m2 = [m EXCEPT ![r[e].table] = m[r[e].table] \o items]
      /\ r2 = [r EXCEPT ![e].width = n, ![e].total = total]
  BY <1>1, <1>2, <1>3 DEF AppendToTable
<1>5. \A d \in 0..(MAX_NESTING - 1) : r2[d].table = r[d].table /\ r2[d].xsize = r[d].xsize
  BY <1>4 DEF Redirection
<1>6. r2[e].width = n /\ r2[e].total = total
  BY <1>4 DEF Redirection
<1>7. \A d \in 0..(MAX_NESTING - 1) : d # e => r2[d] = r[d]
  BY <1>4
<1>8. \A d \in 0..(MAX_NESTING - 1) : r[d].table \in Table
  BY DEF Redirection
<1>9. m2[r[e].table] = text
  BY <1>1, <1>2, <1>4, <1>8 DEF TextOf
<1>10. e \in Nat /\ \A d \in 0..e : d \in 0..(MAX_NESTING - 1)
  BY Sizes
<1>11. \A d, f \in 0..e : r[d].table = r[f].table => d = f
  BY <1>1, <1>2 DEF TablesApart
<1>12. ASSUME NEW d \in 0..e, d # e
       PROVE  m2[r[d].table] = m[r[d].table]
  <2>1. e \in 0..e
    BY <1>10
  <2>2. r[d].table # r[e].table /\ r[d].table \in Table
    BY <1>8, <1>10, <1>11, <1>12, <2>1
  <2>3. m2 = [m EXCEPT ![r[e].table] = m[r[e].table] \o items]
    BY <1>4
  <2> QED BY <2>2, <2>3
<1>13. \A d \in 0..e : TextOf(d)' = m2[r[d].table] /\ TextOf(d) = m[r[d].table]
  BY <1>2, <1>3, <1>5, <1>10 DEF TextOf
<1>14. TablesApart'
  BY <1>1, <1>3, <1>5, <1>10, <1>11 DEF TablesApart
<1>15. WidthsCounted'
  <2>1. ASSUME NEW d \in 0..e
        PROVE  Units(TextOf(d)') = r2[d].total + r2[d].width
    <3>1. CASE d = e
      BY <1>6, <1>9, <1>13, <3>1
    <3>2. CASE d # e
      <4>1. Units(TextOf(d)) = r[d].total + r[d].width
        BY <1>1, <1>2 DEF WidthsCounted
      <4> QED BY <1>7, <1>10, <1>12, <1>13, <3>2, <4>1
    <3> QED BY <3>1, <3>2
  <2> QED BY <1>1, <1>3, <2>1 DEF WidthsCounted, Units
<1>16. TablesFit'
  <2>1. ASSUME NEW d \in 0..e, r2[d].xsize # Unformatted
        PROVE  LinesFit(TextOf(d)', r2[d].xsize) /\ LastLine(TextOf(d)', r2[d].width)
    <3>1. CASE d = e
      BY <1>1, <1>2, <1>5, <1>6, <1>9, <1>10, <1>13, <2>1, <3>1
    <3>2. CASE d # e
      <4>1. LinesFit(TextOf(d), r[d].xsize) /\ LastLine(TextOf(d), r[d].width)
        BY <1>1, <1>2, <1>5, <1>10, <2>1 DEF TablesFit
      <4> QED BY <1>7, <1>10, <1>12, <1>13, <3>2, <4>1
    <3> QED BY <3>1, <3>2
  <2> QED BY <1>1, <1>3, <2>1 DEF TablesFit, LinesFit, LastLine, OneWord
<1>17. OpenTables' = OpenTables
  <2>1. OpenTables = {r[d].table : d \in 0..e} /\ OpenTables' = {r2[d].table : d \in 0..e}
    BY <1>1, <1>2, <1>3 DEF OpenTables
  <2> QED BY <1>5, <1>10, <2>1
<1> QED BY <1>14, <1>15, <1>16, <1>17

LEMMA WordIsOne ==
  ASSUME IInv, WordHeld, bufpos > 0
  PROVE  /\ Word \in Seq(Item) /\ Len(Word) = bufpos /\ Word[1] \in Letters
         /\ \A k \in 1..bufpos : Word[k].kind # "break"
         /\ Word[1].kind # "space" => OneWord(Word)
         /\ Tail(Word) \in Seq(Item) /\ Len(Tail(Word)) = bufpos - 1 /\ OneWord(Tail(Word))
         /\ \A k \in 1..(bufpos - 1) : Tail(Word)[k].kind # "break"
<1>1. bufpos \in Nat /\ \A k \in 0..(bufpos - 1) : buffer[k] \in Letters
  BY Sizes DEF IInv, Typed, WordsTyped
<1>2. Word \in Seq(Item) /\ Len(Word) = bufpos /\ Word[1] \in Letters
  BY <1>1, WordTyped DEF IInv
<1>3. \A k \in 1..bufpos : Word[k] = buffer[k - 1]
  BY DEF Word
<1>4. \A k \in 1..bufpos : Word[k].kind # "break"
  BY <1>1, <1>3, ItemFacts
<1>5. \A k \in 2..bufpos : Word[k].kind # "space"
  BY <1>1, <1>3 DEF WordHeld
<1>6. ASSUME NEW k \in 1..bufpos, k < bufpos, Word[k].kind = "hyphen"
      PROVE  Word[k + 1].kind = "hyphen"
  <2>1. k \in 1..(bufpos - 1) /\ k + 1 \in 1..bufpos /\ (k + 1) - 1 = k
    BY <1>1, <1>6
  <2>2. buffer[k - 1].kind = "hyphen" /\ Word[k + 1] = buffer[k]
    BY <1>3, <1>6, <2>1
  <2> QED BY <2>1, <2>2 DEF WordHeld
<1>7. DOMAIN Word = 1..bufpos
  BY DEF Word
<1>8. Word[1].kind # "space" => OneWord(Word)
  <2>1. Word[1].kind # "space" => \A k \in 1..bufpos : Word[k].kind # "space"
    BY <1>1, <1>5
  <2> QED BY <1>2, <1>6, <1>7, <2>1 DEF OneWord
<1>9. PICK word \in Seq(Item) : word = Word /\ word # <<>>
  BY <1>1, <1>2, EmptySeq
<1>10. PICK tail \in Seq(Item) : tail = Tail(Word)
  BY <1>9, HeadTailProperties
<1>11. Len(tail) = bufpos - 1 /\ \A k \in 1..(bufpos - 1) : tail[k] = Word[k + 1]
  BY <1>2, <1>9, <1>10, HeadTailProperties
<1>12. DOMAIN tail = 1..(bufpos - 1)
  BY <1>11, LenProperties
<1>13. \A k \in 1..(bufpos - 1) : k + 1 \in 2..bufpos /\ k + 1 \in 1..bufpos
  BY <1>1
<1>14. ASSUME NEW k \in 1..(bufpos - 1)
       PROVE  /\ tail[k].kind # "space"
              /\ tail[k].kind = "hyphen" /\ k < bufpos - 1 => tail[k + 1].kind = "hyphen"
  <2>1. tail[k].kind # "space"
    BY <1>5, <1>11, <1>13
  <2>2. ASSUME tail[k].kind = "hyphen", k < bufpos - 1
        PROVE  tail[k + 1].kind = "hyphen"
    <3>1. k + 1 \in 1..(bufpos - 1) /\ k + 1 < bufpos /\ k + 1 \in 1..bufpos
      BY <1>1, <2>2
    <3>2. Word[k + 1].kind = "hyphen"
      BY <1>11, <2>2
    <3>3. Word[(k + 1) + 1].kind = "hyphen"
      BY <1>6, <3>1, <3>2
    <3> QED BY <1>11, <3>1, <3>3
  <2> QED BY <2>1, <2>2
<1>15. OneWord(tail)
  BY <1>11, <1>12, <1>14 DEF OneWord
<1>16. \A k \in 1..(bufpos - 1) : tail[k].kind # "break"
  BY <1>4, <1>11, <1>13
<1> QED BY <1>2, <1>4, <1>8, <1>10, <1>11, <1>15, <1>16

LEMMA EmptyText ==
  ASSUME NEW size \in Nat
  PROVE  <<>> \in Seq(Item) /\ Units(<<>>) = 0 /\ LinesFit(<<>>, size) /\ LastLine(<<>>, 0)
<1>1. PICK none \in Seq(Item) : none = <<>> /\ Len(none) = 0
  BY EmptySeq
<1>2. DOMAIN none = {} /\ Marks(none) = {}
  BY <1>1, LenProperties DEF Marks
<1>3. Units(none) = 0
  BY <1>2, UnitsMarks, FS_EmptySet
<1>4. LinesFit(none, size)
  BY <1>2 DEF LinesFit
<1>5. LastLine(none, 0)
  BY <1>1 DEF LastLine
<1> QED BY <1>1, <1>3, <1>4, <1>5

(* A word in a table.                                                      *)
LEMMA WordInTable ==
  ASSUME IInv, WordHeld, FlushToTable, depth \in 0..(MAX_NESTING - 1),
         TablesApart, WidthsCounted, TablesFit
  PROVE  TablesApart' /\ WidthsCounted' /\ TablesFit' /\ OpenTables' = OpenTables
<1>1. PICK r \in Redirection : r = redirect[depth]
  BY DEF IInv, Typed, TablesTyped
<1>2. PICK text \in Seq(Item) : text = TextOf(depth)
  BY <1>1 DEF TextOf, IInv, Typed, TablesTyped, Redirection
<1>3. r.width \in Nat /\ r.total \in Nat /\ (r.xsize # Unformatted => r.xsize \in Nat)
  BY <1>1, Sizes DEF Redirection
<1>4. depth \in 0..depth
  OBVIOUS
<1>5. /\ Units(text) = r.total + r.width
      /\ r.xsize # Unformatted => LinesFit(text, r.xsize) /\ LastLine(text, r.width)
  BY <1>1, <1>2, <1>4 DEF WidthsCounted, TablesFit
<1>6. bufpos > 0 /\ bufpos \in Nat /\ depth' = depth
  BY Sizes DEF FlushToTable, Flushing, NothingToFlush, IInv, Typed, WordsTyped
<1>7. PICK word \in Seq(Item), n \in Nat : word = Word /\ n = bufpos
  BY <1>6, WordIsOne
<1>8. /\ Len(word) = n /\ n > 0 /\ word[1] \in Letters
      /\ \A k \in 1..n : word[k].kind # "break"
      /\ word[1].kind # "space" => OneWord(word)
      /\ Tail(word) \in Seq(Item) /\ Len(Tail(word)) = n - 1 /\ OneWord(Tail(word))
      /\ \A k \in 1..(n - 1) : Tail(word)[k].kind # "break"
  BY <1>6, <1>7, WordIsOne
<1>9. PICK full \in BOOLEAN : full <=> TableOverflows(r, word)
  OBVIOUS
<1>10. PICK drop \in BOOLEAN : drop <=> full /\ word[1].kind = "space"
  OBVIOUS
<1>11. PICK rest : rest = IF drop THEN Tail(word) ELSE word
  OBVIOUS
<1>12. PICK break : break = Break(IF drop THEN word[1] ELSE NUL)
  OBVIOUS
<1>13. IF full THEN AppendToTable(<<break>> \o rest, Len(rest), r.total + r.width)
               ELSE AppendToTable(word, r.width + n, r.total)
  BY <1>1, <1>7, <1>8, <1>9, <1>10, <1>11, <1>12 DEF FlushToTable
<1>14. break \in Item /\ break.kind = "break"
  BY <1>8, <1>12, ItemFacts
<1>15. CASE full
  <2>1. /\ rest \in Seq(Item) /\ Len(rest) \in Nat /\ OneWord(rest)
        /\ \A k \in 1..Len(rest) : rest[k].kind # "break"
    BY <1>8, <1>10, <1>11, <1>15
  <2> HIDE <1>11, <1>12, <1>10, <1>9
  <2>2. PICK items : items = <<break>> \o rest
    OBVIOUS
  <2>3. <<break>> \in Seq(Item) /\ Units(<<break>>) = 0
    BY <1>14, UnitsBreak
  <2>4. PICK first \in Seq(Item) : first = <<break>> /\ Units(first) = 0
    BY <2>3
  <2>5. items = first \o rest /\ items \in Seq(Item)
    BY <2>1, <2>2, <2>4, ConcatProperties
  <2>6. PICK new : new = text \o items
    OBVIOUS
  <2>7. new = (text \o first) \o rest /\ text \o first \in Seq(Item) /\ new \in Seq(Item)
    <3>1. new = text \o (first \o rest)
      BY <2>5, <2>6
    <3>2. (text \o first) \o rest = text \o (first \o rest)
      BY <2>1, ConcatAssociative
    <3>3. text \o first \in Seq(Item)
      BY ConcatProperties
    <3>4. (text \o first) \o rest \in Seq(Item)
      BY <2>1, <3>3, ConcatProperties, Zenon
    <3> QED BY <3>1, <3>2, <3>3, <3>4, Zenon
  <2>8. Units(new) = (r.total + r.width) + Len(rest)
    <3>1. Units(new) = Units(text) + Units(items)
      BY <2>5, <2>6, UnitsConcat, Zenon
    <3>2. Units(items) = Units(first) + Units(rest)
      BY <2>1, <2>5, UnitsConcat, Zenon
    <3>3. Units(rest) = Len(rest)
      BY <2>1, UnitsWord
    <3> QED BY <1>3, <1>5, <2>1, <2>4, <3>1, <3>2, <3>3
  <2>9. r.xsize # Unformatted => LinesFit(new, r.xsize) /\ LastLine(new, Len(rest))
    <3>1. ASSUME r.xsize # Unformatted
          PROVE  LinesFit(new, r.xsize) /\ LastLine(new, Len(rest))
      <4>1. r.xsize \in Nat /\ LinesFit(text, r.xsize)
        BY <1>3, <1>5, <3>1
      <4>2. /\ LinesFit(text \o <<break>> \o rest, r.xsize)
            /\ LastLine(text \o <<break>> \o rest, Len(rest))
        BY <1>14, <2>1, <4>1, LineStarts
      <4> QED BY <2>4, <2>7, <4>2
    <3> QED BY <3>1
  <2>10. AppendToTable(items, Len(rest), r.total + r.width) /\ r.total + r.width \in Nat
    BY <1>3, <1>13, <1>15, <2>2
  <2> QED
    BY <1>1, <1>2, <1>6, <2>1, <2>5, <2>6, <2>7, <2>8, <2>9, <2>10, TextAdded
<1>16. CASE ~full
  <2>1. r.xsize # Unformatted => r.width + n <= r.xsize
    BY <1>3, <1>8, <1>9, <1>16 DEF TableOverflows
  <2> HIDE <1>11, <1>12, <1>10, <1>9
  <2>2. PICK new : new = text \o word
    OBVIOUS
  <2>3. new \in Seq(Item)
    BY <2>2, ConcatProperties
  <2>4. Units(new) = r.total + (r.width + n)
    <3>1. Units(new) = Units(text) + Units(word)
      BY <2>2, UnitsConcat, Zenon
    <3>2. Units(word) = n
      BY <1>8, UnitsWord
    <3> QED BY <1>3, <1>5, <3>1, <3>2
  <2>5. r.xsize # Unformatted => LinesFit(new, r.xsize) /\ LastLine(new, r.width + n)
    <3>1. ASSUME r.xsize # Unformatted
          PROVE  LinesFit(text \o word, r.xsize) /\ LastLine(text \o word, r.width + Len(word))
      BY <1>3, <1>5, <1>8, <2>1, <3>1, LineGrows
    <3> QED BY <1>8, <2>2, <3>1
  <2>6. AppendToTable(word, r.width + n, r.total) /\ r.width + n \in Nat
    BY <1>3, <1>13, <1>16
  <2> QED
    BY <1>1, <1>2, <1>3, <1>6, <2>2, <2>3, <2>4, <2>5, <2>6, TextAdded
<1> QED BY <1>15, <1>16

LEMMA NewLineInTable ==
  ASSUME IInv, NewLineToTable, depth \in 0..(MAX_NESTING - 1),
         TablesApart, WidthsCounted, TablesFit
  PROVE  TablesApart' /\ WidthsCounted' /\ TablesFit' /\ OpenTables' = OpenTables
<1>1. PICK r \in Redirection : r = redirect[depth]
  BY DEF IInv, Typed, TablesTyped
<1>2. PICK text \in Seq(Item) : text = TextOf(depth)
  BY <1>1 DEF TextOf, IInv, Typed, TablesTyped, Redirection
<1>3. r.width \in Nat /\ r.total \in Nat /\ (r.xsize # Unformatted => r.xsize \in Nat)
  BY <1>1, Sizes DEF Redirection
<1>4. depth \in 0..depth
  OBVIOUS
<1>5. /\ Units(text) = r.total + r.width
      /\ r.xsize # Unformatted => LinesFit(text, r.xsize)
  BY <1>1, <1>2, <1>4 DEF WidthsCounted, TablesFit
<1>6. PICK break \in Item : break = Char("break") /\ break.kind = "break"
  BY CharTyped DEF IInv, Typed
<1>7. AppendToTable(<<break>>, 0, r.total + r.width) /\ depth' = depth
  BY <1>1, <1>6 DEF NewLineToTable
<1> HIDE <1>6
<1>8. PICK one \in Seq(Item) : one = <<break>> /\ Units(one) = 0
  BY <1>6, UnitsBreak
<1>9. PICK new : new = text \o one
  OBVIOUS
<1>10. new \in Seq(Item)
  BY <1>9, ConcatProperties
<1>11. Units(new) = (r.total + r.width) + 0
  <2>1. Units(new) = Units(text) + Units(one)
    BY <1>9, UnitsConcat, Zenon
  <2> QED BY <1>3, <1>5, <1>8, <2>1
<1>12. r.xsize # Unformatted => LinesFit(new, r.xsize) /\ LastLine(new, 0)
  <2>1. ASSUME r.xsize # Unformatted
        PROVE  /\ LinesFit(Append(text, break), r.xsize) /\ LastLine(Append(text, break), 0)
               /\ Append(text, break) = text \o <<break>>
    BY <1>3, <1>5, <1>6, <2>1, LineEnds
  <2> QED BY <1>8, <1>9, <2>1
<1>13. r.total + r.width \in Nat /\ AppendToTable(one, 0, r.total + r.width)
  BY <1>3, <1>7, <1>8
<1> QED BY <1>1, <1>2, <1>7, <1>9, <1>10, <1>11, <1>12, <1>13, TextAdded

LEMMA TableOpened ==
  ASSUME IInv, MemoryOpen, TablesHeld(Current), depth + 1 < MAX_NESTING
  PROVE  TablesApart' /\ WidthsCounted' /\ TablesFit'
<1>1. PICK e \in Nat : e = depth + 1 /\ e \in 0..(MAX_NESTING - 1)
  BY Sizes DEF IInv, Typed, TablesTyped
<1>2. PICK r \in [0..(MAX_NESTING - 1) -> Redirection], m \in [Table -> Seq(Item)] :
        r = redirect /\ m = memory
  BY DEF IInv, Typed, TablesTyped
<1>3. PICK r2, m2 : r2 = redirect' /\ m2 = memory'
  OBVIOUS
<1>4. todo \in Opcodes /\ todo.name = "open" /\ depth' = e /\ depth = e - 1
  BY <1>1, Sizes DEF MemoryOpen, Finish, IInv, Typed, ControlTyped, TablesTyped
<1>5. PICK t \in Table, size \in XSIZES \cup {Unformatted} : t = todo.table /\ size = todo.xsize
  BY <1>4, OpcodeFacts
<1>6. /\ m2 = [m EXCEPT ![t] = <<>>]
      /\ r2 = [r EXCEPT ![e] = [table |-> t, xsize |-> size, width |-> 0, total |-> 0]]
  BY <1>1, <1>2, <1>3, <1>4, <1>5 DEF MemoryOpen
<1>7. r2[e].table = t /\ r2[e].xsize = size /\ r2[e].width = 0 /\ r2[e].total = 0
  BY <1>1, <1>6
<1>8. \A d \in 0..(e - 1) : d \in 0..(MAX_NESTING - 1) /\ d # e
  BY <1>1, Sizes
<1>9. \A d \in 0..(e - 1) : r2[d] = r[d]
  BY <1>6, <1>8
<1>10. \A d \in 0..e : d = e \/ d \in 0..(e - 1)
  BY <1>1
<1>11. \A d \in 0..(e - 1) : r[d].table # t /\ r[d].table \in Table
  <2>1. depth < MAX_NESTING - 1
    BY <1>1, <1>4, Sizes
  <2>2. OpensAnother(Current)
    BY <1>1, <1>4, Sizes DEF TablesHeld
  <2>3. t \notin OpenTables
    BY <1>4, <1>5, <2>1, <2>2 DEF OpensAnother, Current
  <2>4. \A d \in 0..(e - 1) : r[d].table \in Table
    BY <1>8 DEF Redirection
  <2> QED BY <1>2, <1>4, <2>3, <2>4 DEF OpenTables
<1>12. m2[t] = <<>> /\ \A d \in 0..(e - 1) : m2[r[d].table] = m[r[d].table]
  <2>1. m2[t] = <<>>
    BY <1>6
  <2>2. ASSUME NEW d \in 0..(e - 1)
        PROVE  m2[r[d].table] = m[r[d].table]
    BY <1>6, <1>11
  <2> QED BY <2>1, <2>2
<1>13. /\ TextOf(e)' = <<>>
       /\ \A d \in 0..(e - 1) : TextOf(d)' = TextOf(d) /\ TextOf(d) = m[r[d].table]
  BY <1>2, <1>3, <1>7, <1>9, <1>12 DEF TextOf
<1>14. TablesApart /\ WidthsCounted /\ TablesFit
  BY <1>1, <1>4, Sizes DEF TablesHeld
<1>15. TablesApart'
  <2>1. \A d, f \in 0..(e - 1) : r[d].table = r[f].table => d = f
    BY <1>2, <1>4, <1>14 DEF TablesApart
  <2>2. \A d, f \in 0..e : r2[d].table = r2[f].table => d = f
    BY <1>7, <1>9, <1>10, <1>11, <2>1
  <2> QED BY <1>3, <1>4, <2>2 DEF TablesApart
<1>16. WidthsCounted'
  <2>1. ASSUME NEW d \in 0..e
        PROVE  Units(TextOf(d)') = r2[d].total + r2[d].width
    <3>1. CASE d = e
      BY <1>7, <1>13, <3>1, EmptyText, Sizes
    <3>2. CASE d \in 0..(e - 1)
      <4>1. Units(TextOf(d)) = r[d].total + r[d].width
        BY <1>2, <1>4, <1>14, <3>2 DEF WidthsCounted
      <4> QED BY <1>9, <1>13, <3>2, <4>1
    <3> QED BY <1>10, <3>1, <3>2
  <2> QED BY <1>3, <1>4, <2>1 DEF WidthsCounted, Units
<1>17. TablesFit'
  <2>1. ASSUME NEW d \in 0..e, r2[d].xsize # Unformatted
        PROVE  LinesFit(TextOf(d)', r2[d].xsize) /\ LastLine(TextOf(d)', r2[d].width)
    <3>1. CASE d = e
      <4>1. size \in Nat
        BY <1>7, <2>1, <3>1, Sizes
      <4> QED BY <1>7, <1>13, <3>1, <4>1, EmptyText
    <3>2. CASE d \in 0..(e - 1)
      <4>1. LinesFit(TextOf(d), r[d].xsize) /\ LastLine(TextOf(d), r[d].width)
        BY <1>2, <1>4, <1>9, <1>14, <2>1, <3>2 DEF TablesFit
      <4> QED BY <1>9, <1>13, <3>2, <4>1
    <3> QED BY <1>10, <3>1, <3>2
  <2> QED BY <1>3, <1>4, <2>1 DEF TablesFit, LinesFit, LastLine, OneWord
<1> QED BY <1>15, <1>16, <1>17

(* The tables that stay open are not the one that is closed.               *)
LEMMA TableClosed ==
  ASSUME IInv, MemoryClose, depth \in 0..(MAX_NESTING - 1),
         TablesApart, WidthsCounted, TablesFit
  PROVE  TablesApart' /\ WidthsCounted' /\ TablesFit'
<1>1. PICK e \in Nat : e = depth /\ e \in 0..(MAX_NESTING - 1)
  BY Sizes
<1>2. PICK r \in [0..(MAX_NESTING - 1) -> Redirection], m \in [Table -> Seq(Item)] :
        r = redirect /\ m = memory
  BY DEF IInv, Typed, TablesTyped
<1>3. PICK r2, m2 : r2 = redirect' /\ m2 = memory'
  OBVIOUS
<1>4. depth' = e - 1
  BY <1>1 DEF MemoryClose
<1>5. \/ r2 = r /\ m2 = m
      \/ \E items, n, total :
           /\ m2 = [m EXCEPT ![r[e].table] = m[r[e].table] \o items]
           /\ r2 = [r EXCEPT ![e].width = n, ![e].total = total]
  <2>1. \/ UNCHANGED <<memory, redirect>>
        \/ AppendToTable(<<Break(NUL)>>, 0, WidthInAll(redirect[depth]))
    BY <1>1 DEF MemoryClose
  <2>2. CASE UNCHANGED <<memory, redirect>>
    BY <1>2, <1>3, <2>2
  <2>3. CASE AppendToTable(<<Break(NUL)>>, 0, WidthInAll(redirect[depth]))
    <3>1. PICK items, n, total : AppendToTable(items, n, total)
      BY <2>3, Zenon
    <3>2. /\ m2 = [m EXCEPT ![r[e].table] = m[r[e].table] \o items]
          /\ r2 = [r EXCEPT ![e].width = n, ![e].total = total]
      BY <1>1, <1>2, <1>3, <3>1 DEF AppendToTable
    <3> QED BY <3>2, Zenon
  <2> QED BY <2>1, <2>2, <2>3
<1>6. \A d \in 0..(e - 1) : d \in 0..(MAX_NESTING - 1) /\ d # e /\ d \in 0..e
  BY <1>1, Sizes
<1>7. \A d \in 0..(e - 1) : r2[d] = r[d] /\ r[d].table \in Table
  BY <1>5, <1>6 DEF Redirection
<1>8. \A d, f \in 0..e : r[d].table = r[f].table => d = f
  BY <1>1, <1>2 DEF TablesApart
<1>9. ASSUME NEW d \in 0..(e - 1)
      PROVE  m2[r[d].table] = m[r[d].table]
  <2>1. r[d].table # r[e].table /\ r[d].table \in Table
    BY <1>1, <1>6, <1>7, <1>8
  <2> QED BY <1>5, <2>1
<1>10. \A d \in 0..(e - 1) : TextOf(d)' = TextOf(d) /\ TextOf(d) = m[r[d].table]
  BY <1>2, <1>3, <1>7, <1>9 DEF TextOf
<1>11. TablesApart'
  BY <1>3, <1>4, <1>6, <1>7, <1>8 DEF TablesApart
<1>12. WidthsCounted'
  <2>1. ASSUME NEW d \in 0..(e - 1)
        PROVE  Units(TextOf(d)') = r2[d].total + r2[d].width
    <3>1. Units(TextOf(d)) = r[d].total + r[d].width
      BY <1>1, <1>2, <1>6 DEF WidthsCounted
    <3> QED BY <1>7, <1>10, <3>1
  <2> QED BY <1>3, <1>4, <2>1 DEF WidthsCounted, Units
<1>13. TablesFit'
  <2>1. ASSUME NEW d \in 0..(e - 1), r2[d].xsize # Unformatted
        PROVE  LinesFit(TextOf(d)', r2[d].xsize) /\ LastLine(TextOf(d)', r2[d].width)
    <3>1. LinesFit(TextOf(d), r[d].xsize) /\ LastLine(TextOf(d), r[d].width)
      BY <1>1, <1>2, <1>6, <1>7, <2>1 DEF TablesFit
    <3> QED BY <1>7, <1>10, <3>1
  <2> QED BY <1>3, <1>4, <2>1 DEF TablesFit, LinesFit, LastLine, OneWord
<1> QED BY <1>11, <1>12, <1>13

LEMMA TablesStayHeld ==
  ASSUME ~Reentrant, IInv, Quiet, Settled(Doing), WordHeld, TablesHeld(Doing), [Next]_vars
  PROVE  TablesHeld(Doing)'
<1>1. ASSUME tables' = tables, OpensAnother(Doing)'
      PROVE  TablesHeld(Doing)'
  BY <1>1 DEF tables, TablesHeld, TablesApart, WidthsCounted, TablesFit, TextOf
<1>2. ASSUME tables' = tables, Doing'.todo = Doing.todo
      PROVE  TablesHeld(Doing)'
  <2>1. depth < MAX_NESTING - 1 => depth < MAX_NESTING
    BY Sizes DEF IInv, Typed, TablesTyped
  <2>2. OpensAnother(Doing)'
    BY <1>2, <2>1 DEF tables, TablesHeld, OpensAnother, OpenTables
  <2> QED BY <1>1, <1>2, <2>2
<1>3. CASE Barred
  BY <1>2, <1>3, BarredStep
<1>4. CASE ~Barred
  <2>1. Doing = Current /\ depth \in Nat \cup {-1} /\ \A i \in 1..Len(calls) : calls[i].at = "read"
    BY <1>4, NotBarred DEF IInv, Typed, TablesTyped
  <2>2. CASE CallsRoutine
    <3>1. tables' = tables
      BY <2>2 DEF CallsRoutine, Wrap, ScreenNewLine, Countdown
    <3>2. Doing'.todo = todo
      BY <1>4, <2>2, DoingStep
    <3> QED BY <1>2, <2>1, <3>1, <3>2 DEF Current
  <2>3. CASE ~CallsRoutine
    <3>1. Doing' = Current' /\ Doing'.todo = todo'
      BY <1>4, <2>3, DoingStep DEF Current
    <3> HIDE DEF Doing
    <3>2. ASSUME tables' = tables, todo' = todo
          PROVE  TablesHeld(Doing)'
      BY <1>2, <2>1, <3>1, <3>2 DEF Current
    <3>3. ASSUME todo'.name # "open"
          PROVE  OpensAnother(Doing)'
      BY <3>1, <3>3 DEF OpensAnother
    <3>4. CASE vars' = vars
      BY <3>2, <3>4 DEF vars, control
    <3>5. CASE Begins
      <4>1. tables' = tables
        BY <3>5 DEF Begins, PrintChar, NewLine, BeginSwitch, Begin
      <4>2. CASE \E kind \in Kinds : PrintChar(kind)
        BY <1>1, <3>3, <4>1, <4>2 DEF PrintChar, Begin
      <4>3. CASE NewLine
        BY <1>1, <3>3, <4>1, <4>3 DEF NewLine, Begin
      <4>4. ASSUME NEW opcode \in Switches, BeginSwitch(opcode)
            PROVE  OpensAnother(Doing)'
        <5>1. CASE opcode.name = "open"
          <6>1. todo' = opcode
            BY <4>4, <5>1 DEF BeginSwitch, Begin
          <6>2. depth < MAX_NESTING - 1 => opcode.table \notin OpenTables
            BY <2>1, <4>4, <5>1, Sizes DEF Switches
          <6> QED BY <3>1, <4>1, <6>1, <6>2 DEF OpensAnother, OpenTables, tables
        <5>2. CASE opcode.name # "open"
          <6>1. todo'.name # "open"
            BY <4>4, <5>2 DEF BeginSwitch, Begin
          <6> QED BY <3>3, <6>1
        <5> QED BY <5>1, <5>2
      <4> QED BY <1>1, <3>5, <4>1, <4>2, <4>3, <4>4 DEF Begins
    <3>6. CASE FlushToTable
      <4>1. todo' = todo /\ depth' = depth /\ depth < MAX_NESTING /\ depth \in 0..(MAX_NESTING - 1)
        BY <2>1, <3>6, Sizes DEF FlushToTable, IInv, MemoryOpened
      <4>2. TablesApart' /\ WidthsCounted' /\ TablesFit' /\ OpenTables' = OpenTables
        BY <3>6, <4>1, WordInTable DEF TablesHeld
      <4>3. OpensAnother(Doing)'
        BY <2>1, <3>1, <4>1, <4>2 DEF TablesHeld, OpensAnother, Current
      <4> QED BY <4>2, <4>3 DEF TablesHeld
    <3>7. CASE NewLineToTable
      <4>1. todo'.name # "open" /\ depth < MAX_NESTING /\ depth \in 0..(MAX_NESTING - 1)
        BY <2>1, <3>7, Sizes DEF NewLineToTable, Finish, Nothing, IInv, MemoryOpened
      <4>2. TablesApart' /\ WidthsCounted' /\ TablesFit'
        BY <3>7, <4>1, NewLineInTable DEF TablesHeld
      <4> QED BY <3>3, <4>1, <4>2 DEF TablesHeld
    <3>8. CASE MemoryOpen
      <4>1. todo'.name # "open" /\ depth' = depth + 1
        BY <3>8 DEF MemoryOpen, Finish, Nothing
      <4>2. depth + 1 < MAX_NESTING => TablesApart' /\ WidthsCounted' /\ TablesFit'
        BY <2>1, <3>8, TableOpened
      <4> QED BY <3>3, <4>1, <4>2 DEF TablesHeld
    <3>9. CASE MemoryClose
      <4>1. todo'.name # "open" /\ depth < MAX_NESTING
        BY <3>9 DEF MemoryClose, Finish, Nothing
      <4>2. CASE depth < 0
        <5>1. tables' = tables
          BY <3>9, <4>2 DEF MemoryClose
        <5> QED BY <1>1, <3>3, <4>1, <5>1
      <4>3. CASE ~(depth < 0)
        <5>1. depth \in 0..(MAX_NESTING - 1)
          BY <2>1, <4>1, <4>3, Sizes
        <5>2. TablesApart' /\ WidthsCounted' /\ TablesFit'
          BY <3>9, <4>1, <5>1, TableClosed DEF TablesHeld
        <5> QED BY <3>3, <4>1, <5>2 DEF TablesHeld
      <4> QED BY <4>2, <4>3
    <3>10. CASE Return
      <4>1. tables' = tables /\ at' = "read"
        BY <2>1, <3>10, ReturnStep
      <4>2. todo'.name = "read"
        BY <4>1, ControlStaysTyped DEF ControlTyped, Fits
      <4> QED BY <1>1, <3>3, <4>1, <4>2
    <3>11. CASE SkipFlush \/ FlushToStreams \/ DirectChar \/ NewLineOnScreen \/ Read \/ Overrun
      BY <3>2, <3>11 DEF SkipFlush, FlushToStreams, DirectChar, NewLineOnScreen, Read, Overrun
    <3>12. CASE Deliver
      <4>1. tables' = tables /\ (todo' = todo \/ todo' = Nothing)
        BY <3>12 DEF Deliver
      <4> QED BY <1>1, <3>2, <3>3, <4>1 DEF Nothing
    <3>13. CASE \/ Insert \/ EndNewLine \/ Select \/ WindowStyle \/ SetCountdown
                \/ Timeout \/ Key
      <4>1. tables' = tables
        BY <3>13 DEF Insert, EndNewLine, Select, WindowStyle, SetCountdown, Timeout, Key
      <4>2. todo' = Nothing
        BY <3>13 DEF Insert, EndNewLine, Select, WindowStyle, SetCountdown, Timeout, Key, Finish
      <4> QED BY <1>1, <3>3, <4>1, <4>2 DEF Nothing
    <3> QED BY <2>3, <3>4, <3>5, <3>6, <3>7, <3>8, <3>9, <3>10, <3>11, <3>12, <3>13
            DEF Next, Begins, Flush, FinishOpcode, CallsRoutine
  <2> QED BY <2>2, <2>3
<1> QED BY <1>3, <1>4
-----------------------------------------------------------------------------
(* A key is waited for when the buffer was flushed.                        *)
LEMMA AnsweredStays ==
  ASSUME ~Reentrant, IInv, Quiet, Settled(Doing), Answered, [Next]_vars
  PROVE  Answered'
<1>1. /\ bufpos \in Nat /\ printed \in Nat /\ Fits(at, todo.name) /\ todo \in Opcodes
      /\ calls \in Seq(Call) /\ TEXT_BUFFER_SIZE \in Nat /\ bufpos <= TEXT_BUFFER_SIZE
      /\ buffer \in [0..(TEXT_BUFFER_SIZE - 1) -> Letters \cup {NUL}]
  BY Sizes DEF IInv, Typed, WordsTyped, ControlTyped, CountsTyped
<1>2. PICK n \in Nat : n = Len(calls)
  BY <1>1, LenProperties
<1>3. printed' \in Nat /\ printed <= printed'
  BY <1>1 DEF Next, vars, PrintChar, NewLine, BeginSwitch, Begin, Flush, SkipFlush, DirectChar,
     FlushToTable, FlushToStreams, Deliver, Wrap, ScreenNewLine, Countdown, Return, FinishOpcode,
     Finish, Insert, NewLineToTable, NewLineOnScreen, EndNewLine, Select, MemoryOpen,
     MemoryClose, WindowStyle, SetCountdown, Read, Timeout, Key, Overrun
<1>4. ASSUME NEW bound \in Nat, bound <= printed, \A i \in 0..(bufpos - 1) : buffer[i].id > bound
      PROVE  \A i \in 0..(bufpos' - 1) : buffer'[i].id > bound
  <2>1. CASE words' = words
    BY <1>4, <2>1 DEF words
  <2>2. CASE bufpos' = 0
    BY <2>2
  <2>3. CASE FlushToTable \/ Deliver
    BY <2>1, <2>2, <2>3 DEF FlushToTable, Deliver, Emptied
  <2>4. CASE FlushToStreams
    <3>1. bufpos < TEXT_BUFFER_SIZE /\ buffer' = [buffer EXCEPT ![bufpos] = NUL] /\ bufpos' = bufpos
      BY <2>4 DEF FlushToStreams, Flushing, Terminated
    <3>2. \A i \in 0..(bufpos - 1) : buffer'[i] = buffer[i]
      BY <1>1, <3>1
    <3> QED BY <1>4, <3>1, <3>2
  <2>5. CASE Insert
    <3>1. /\ bufpos < TEXT_BUFFER_SIZE /\ buffer' = [buffer EXCEPT ![bufpos] = Char(todo.kind)]
          /\ bufpos' = bufpos + 1
      BY <2>5 DEF Insert
    <3>2. Char(todo.kind).id = printed + 1
      BY DEF Char
    <3> HIDE DEF Char
    <3>3. \A i \in 0..(bufpos - 1) : buffer'[i] = buffer[i]
      BY <1>1, <3>1
    <3>4. buffer'[bufpos].id = printed + 1
      BY <1>1, <3>1, <3>2
    <3>5. \A i \in 0..(bufpos' - 1) : i = bufpos \/ i \in 0..(bufpos - 1)
      BY <1>1, <3>1
    <3>6. printed + 1 > bound
      BY <1>1, <1>4
    <3> QED BY <1>4, <3>3, <3>4, <3>5, <3>6
  <2> QED BY <2>1, <2>3, <2>4, <2>5, WordsChange
<1>5. ASSUME NEW call, call.todo \in Opcodes, Asked(call)
      PROVE  Asked(call)'
  <2>1. CASE call.todo.name = "read"
    <3>1. call.todo.printed \in Nat /\ call.todo.printed <= printed
      BY <1>5, <2>1, OpcodeFacts DEF Asked
    <3>2. call.todo.printed <= printed'
      BY <1>1, <1>3, <3>1
    <3>3. ASSUME call.at = "read"
          PROVE  \A i \in 0..(bufpos' - 1) : buffer'[i].id > call.todo.printed
      BY <1>4, <1>5, <2>1, <3>1, <3>3 DEF Asked
    <3> QED BY <3>2, <3>3 DEF Asked
  <2>2. CASE call.todo.name # "read"
    BY <2>2 DEF Asked
  <2> QED BY <2>1, <2>2
<1>6. \A i \in 1..n : calls[i] \in Call /\ calls[i].todo \in Opcodes /\ Asked(calls[i])
  <2>1. \A i \in 1..n : calls[i] \in Call
    BY <1>1, <1>2, ElementOfSeq
  <2>2. \A i \in 1..n : calls[i].todo \in Opcodes
    BY <2>1 DEF Call
  <2>3. \A i \in 1..n : Asked(calls[i])
    BY <1>2, Zenon DEF Answered
  <2> QED BY <2>1, <2>2, <2>3
<1>7. Asked(Current)
  BY DEF Answered
<1>8. ASSUME Len(calls') \in Nat,
             \A i \in 1..Len(calls') : i <= n /\ calls'[i] = calls[i],
             Asked(Current)'
      PROVE  Answered'
  <2>1. ASSUME NEW i \in 1..Len(calls')
        PROVE  Asked(calls[i])'
    <3>1. PICK call : call = calls[i]
      OBVIOUS
    <3>2. i \in 1..n
      BY <1>8
    <3>3. call.todo \in Opcodes /\ Asked(call)
      BY <1>6, <3>1, <3>2
    <3>4. Asked(call)'
      BY <1>5, <3>3
    <3>5. calls'[i] = call
      BY <1>8, <3>1
    <3> QED BY <3>4, <3>5, Zenon DEF Asked
  <2> QED BY <1>8, <2>1, Zenon DEF Answered
<1>9. ASSUME calls' = calls, Asked(Current)'
      PROVE  Answered'
  BY <1>2, <1>8, <1>9
<1>10. ASSUME todo' = todo, at' = at \/ at' # "read"
       PROVE  Asked(Current)'
  <2>1. PICK call : call = Current
    OBVIOUS
  <2>2. call.todo = todo /\ call.at = at
    BY <2>1 DEF Current
  <2>3. Asked(call)'
    BY <1>1, <1>5, <1>7, <2>1, <2>2
  <2>4. Current'.todo = call.todo /\ Current'.at = at'
    BY <1>10, <2>2 DEF Current
  <2> QED BY <1>10, <2>2, <2>3, <2>4 DEF Asked
<1>11. ASSUME todo'.name # "read"
       PROVE  Asked(Current)'
  BY <1>11 DEF Asked, Current
<1>12. CASE vars' = vars
  BY <1>9, <1>10, <1>12 DEF vars, control
<1>13. CASE Begins
  <2>1. calls' = calls /\ printed' = printed /\ at' # "read"
    BY <1>13 DEF Begins, PrintChar, NewLine, BeginSwitch, Begin
  <2>2. todo'.name = "read" => todo' = [name |-> "read", printed |-> printed]
    BY <1>13 DEF Begins, PrintChar, NewLine, BeginSwitch, Begin
  <2>3. todo'.name = "read" => todo'.printed <= printed'
    BY <1>1, <2>1, <2>2
  <2>4. Asked(Current)'
    BY <2>1, <2>3 DEF Asked, Current
  <2> QED BY <1>9, <2>1, <2>4
<1>14. CASE Moves
  <2>1. todo' = todo /\ calls' = calls /\ printed' = printed
    BY <1>14 DEF Moves
  <2>2. CASE at = "finish" /\ todo.name = "read" /\ at' = "read"
    <3>1. ~Barred
      BY <2>2 DEF Quiet
    <3>2. bufpos = 0
      BY <1>1, <2>2, <3>1, NotBarred DEF Settled, Current
    <3>3. bufpos' = 0
      <4>1. ~FlushToTable /\ ~FlushToStreams /\ ~Deliver /\ ~Insert
        BY <2>2 DEF FlushToTable, FlushToStreams, Flushing, Deliver, Insert, Finish
      <4> QED BY <3>2, <4>1, WordsChange DEF words
    <3>4. todo.printed <= printed
      BY <1>7, <2>2 DEF Asked, Current
    <3> QED BY <1>9, <2>1, <3>3, <3>4 DEF Asked, Current
  <2>3. CASE ~(at = "finish" /\ todo.name = "read" /\ at' = "read")
    <3>1. at' # "read"
      BY <1>14, <2>3 DEF Moves
    <3> QED BY <1>9, <1>10, <2>1, <3>1
  <2> QED BY <2>2, <2>3
<1>15. CASE Ends
  BY <1>9, <1>11, <1>15 DEF Ends, Nothing
<1>16. CASE Return
  <2>1. /\ n > 0 /\ at' = calls[n].at /\ todo' = calls[n].todo
        /\ Len(calls') = n - 1 /\ \A i \in 1..Len(calls') : calls'[i] = calls[i]
    BY <1>2, <1>16, ReturnStep
  <2>2. PICK call : call = calls[n]
    OBVIOUS
  <2>3. n \in 1..n
    BY <2>1
  <2>4. Asked(call)'
    BY <1>5, <1>6, <2>2, <2>3
  <2>5. Current'.todo = call.todo /\ Current'.at = call.at
    BY <2>1, <2>2 DEF Current
  <2>6. Asked(Current)'
    BY <2>4, <2>5 DEF Asked
  <2> QED BY <1>8, <2>1, <2>6
<1>17. ASSUME NEW place \in Resumed, Calls(place)
       PROVE  Answered'
  <2>1. /\ calls' \in Seq(Call) /\ Len(calls') = n + 1
        /\ calls'[n + 1] = Suspended(place)
        /\ \A i \in 1..n : calls'[i] = calls[i]
    BY <1>2, <1>17, CallStep
  <2>2. PICK call : call = Current
    OBVIOUS
  <2>3. call.todo = todo /\ call.at = at
    BY <2>2 DEF Current
  <2>4. Asked(call)'
    BY <1>1, <1>5, <1>7, <2>2, <2>3
  <2>5. PICK last : last = Suspended(place)
    OBVIOUS
  <2>6. last.todo = call.todo /\ (last.at = "read" => call.at = "read")
    BY <1>17, <2>3, <2>5 DEF Suspended, Calls
  <2>7. Asked(last)'
    BY <2>4, <2>6 DEF Asked
  <2>8. Asked(Current)'
    BY <1>11, <1>17 DEF Calls, Nothing
  <2>9. ASSUME NEW i \in 1..(n + 1)
        PROVE  Asked(calls[i])'
    <3>1. CASE i = n + 1
      <4>1. calls'[i] = last
        BY <2>1, <2>5, <3>1
      <4> QED BY <2>7, <4>1, Zenon DEF Asked
    <3>2. CASE i # n + 1
      <4>1. i \in 1..n
        BY <3>2
      <4>2. PICK old : old = calls[i]
        OBVIOUS
      <4>3. Asked(old)'
        BY <1>5, <1>6, <4>1, <4>2
      <4>4. calls'[i] = old
        BY <2>1, <4>1, <4>2
      <4> QED BY <4>3, <4>4, Zenon DEF Asked
    <3> QED BY <3>1, <3>2
  <2> QED BY <2>1, <2>8, <2>9, Zenon DEF Answered
<1> QED BY <1>12, <1>13, <1>14, <1>15, <1>16, <1>17, LaterStep
-----------------------------------------------------------------------------
Inside ==
  /\ IInv /\ Quiet /\ Settled(Doing) /\ WordHeld /\ Prepared(Doing)
  /\ ScreenHeld /\ TablesHeld(Doing) /\ Answered

LEMMA InitInside ==
  ASSUME Init
  PROVE  Inside
<1>1. calls = <<>> /\ Len(calls) = 0 /\ ~Barred /\ todo.name = "nothing" /\ at = "idle" /\ bufpos = 0
  BY DEF Init, Barred, Nothing
<1>2. IInv
  BY InitIInv
<1>3. Doing = Current
  BY <1>1 DEF Doing
<1>4. Quiet
  BY <1>1 DEF Quiet
<1>5. Settled(Current) /\ WordHeld /\ Prepared(Current)
  BY <1>1 DEF Settled, WordHeld, Prepared, Current, InFlush, WordPlaces
<1>6. ScreenHeld
  BY EmptyText, Sizes DEF Init, ScreenHeld
<1>7. TablesHeld(Current)
  <2>1. \A d \in 0..depth : FALSE
    BY DEF Init
  <2>2. TablesApart /\ WidthsCounted /\ TablesFit
    BY <2>1 DEF TablesApart, WidthsCounted, TablesFit
  <2>3. OpensAnother(Current)
    BY <1>1 DEF OpensAnother, Current
  <2> QED BY <2>2, <2>3 DEF TablesHeld
<1>8. Answered
  BY <1>1 DEF Answered, Asked, Current
<1> QED BY <1>2, <1>3, <1>4, <1>5, <1>6, <1>7, <1>8, Zenon DEF Inside

LEMMA NextInside ==
  ASSUME ~Reentrant, Inside, [Next]_vars
  PROVE  Inside'
<1>1. IInv /\ Quiet /\ Settled(Doing) /\ WordHeld /\ Prepared(Doing)
      /\ ScreenHeld /\ TablesHeld(Doing) /\ Answered
  BY DEF Inside
<1>2. IInv'
  BY <1>1, NextIInv
<1>3. Quiet'
  BY <1>1, BarredStep, DoingStep, Zenon
<1>4. Settled(Doing)' /\ WordHeld' /\ Prepared(Doing)'
  BY <1>1, SettledStays, WordStaysHeld, PreparedStays, Zenon
<1>5. ScreenHeld' /\ TablesHeld(Doing)' /\ Answered'
  BY <1>1, ScreenStaysHeld, TablesStayHeld, AnsweredStays, Zenon
<1> QED BY <1>2, <1>3, <1>4, <1>5, Zenon DEF Inside

LEMMA InsideWrapped ==
  ASSUME Inside
  PROVE  Wrapped
<1>1. LinesFit(screen, WIDTH)
  BY DEF Inside, ScreenHeld
<1>2. depth < MAX_NESTING => TablesFit
  BY DEF Inside, TablesHeld
<1> QED BY <1>1, <1>2 DEF Wrapped, TablesFit, TextOf

LEMMA InsidePrompted ==
  ASSUME Inside
  PROVE  Prompted
<1>1. Asked(Current) /\ Fits(at, todo.name)
  BY DEF Inside, Answered, IInv, Typed, ControlTyped
<1> QED BY <1>1 DEF Asked, Current, Prompted, Fits

Closes ==
  depth' < depth /\ redirect[depth].xsize # Unformatted
    => h_line_width' = Units(memory[redirect[depth].table])

LEMMA InsideCloses ==
  ASSUME Inside, [Next]_vars
  PROVE  Closes
<1>1. depth \in Nat \cup {-1} /\ TablesHeld(Doing)
  BY DEF Inside, IInv, Typed, TablesTyped
<1>2. CASE MemoryClose
  <2>1. CASE depth < 0
    BY <1>1, <1>2, <2>1 DEF MemoryClose, tables, Closes
  <2>2. CASE ~(depth < 0)
    <3>1. depth \in 0..depth /\ depth < MAX_NESTING
      BY <1>1, <1>2, <2>2 DEF MemoryClose
    <3>2. Units(memory[redirect[depth].table]) = redirect[depth].total + redirect[depth].width
      BY <1>1, <3>1 DEF TablesHeld, WidthsCounted, TextOf
    <3>3. redirect[depth].xsize # Unformatted =>
            h_line_width' = redirect[depth].total + redirect[depth].width
      BY <1>2, <2>2 DEF MemoryClose, WidthInAll
    <3> QED BY <3>2, <3>3 DEF Closes
  <2> QED BY <2>1, <2>2
<1>3. CASE ~MemoryClose
  <2>1. depth' = depth \/ depth' = depth + 1
    BY <1>3, TablesChange DEF tables, FlushToTable, NewLineToTable, MemoryOpen
  <2> QED BY <1>1, <2>1 DEF Closes
<1> QED BY <1>2, <1>3

(* However words, newlines, tables and switches follow each other, a line  *)
(* of the screen or of a formatted table that is longer than its width     *)
(* holds nothing but one word (screen.c:315, redirect.c:97), if newline    *)
(* routines neither print nor switch streams.                              *)
THEOREM WordsWrapped == ASSUME ~Reentrant PROVE Spec => []Wrapped
<1>1. Init => Inside
  BY InitInside
<1>2. Inside /\ [Next]_vars => Inside'
  BY NextInside
<1>3. Inside => Wrapped
  BY InsideWrapped
<1> QED BY <1>1, <1>2, <1>3, PTL DEF Spec

(* While a key is waited for, all that was printed before has been shown:  *)
(* the buffer holds only what a timeout's routine printed since            *)
(* (stream.c:290).                                                         *)
THEOREM KeysPrompted == ASSUME ~Reentrant PROVE Spec => []Prompted
<1>1. Init => Inside
  BY InitInside
<1>2. Inside /\ [Next]_vars => Inside'
  BY NextInside
<1>3. Inside => Prompted
  BY InsidePrompted
<1> QED BY <1>1, <1>2, <1>3, PTL DEF Spec

(* The width that the header tells when a formatted table is closed is     *)
(* that of all the text in it, however deep tables are nested              *)
(* (redirect.c:158).                                                       *)
THEOREM WidthsReported == ASSUME ~Reentrant PROVE Spec => WidthReported
<1>1. Init => Inside
  BY InitInside
<1>2. Inside /\ [Next]_vars => Inside'
  BY NextInside
<1>3. Inside /\ [Next]_vars => [Closes]_vars
  BY InsideCloses
<1> QED BY <1>1, <1>2, <1>3, PTL DEF Spec, WidthReported, Closes
-----------------------------------------------------------------------------
(* The numbers of a text, character by character.                          *)
NumbersOf(text, g) ==
  /\ g[0] = <<>>
  /\ \A k \in 1..Len(text) :
       g[k] = IF text[k].id = 0 THEN g[k - 1] ELSE Append(g[k - 1], text[k].id)

LEMMA IdsRecursion ==
  ASSUME NEW text, Len(text) \in Nat
  PROVE  \E g : NumbersOf(text, g) /\ Ids(text) = g[Len(text)]
<1> DEFINE Step(f, n) == IF n = 0 THEN <<>>
                       ELSE IF text[n].id = 0 THEN f[n - 1] ELSE Append(f[n - 1], text[n].id)
           Bad == {n \in Nat : ~ \E f : f = [k \in 0..n |-> Step(f, k)]}
<1>1. Bad = {}
  <2> SUFFICES ASSUME Bad # {} PROVE FALSE
    OBVIOUS
  <2>1. PICK n \in Bad : \A l \in Bad : n <= l
    BY LeastNumber
  <2>2. n \in Nat /\ n # 0
    <3>1. \E f : f = [k \in 0..0 |-> Step(f, k)]
      <4>1. PICK f : f = [k \in 0..0 |-> <<>>]
        OBVIOUS
      <4>2. f = [k \in 0..0 |-> Step(f, k)]
        BY <4>1
      <4> QED BY <4>2
    <3> QED BY <2>1, <3>1
  <2>3. n - 1 \in Nat /\ n - 1 \notin Bad
    <3> HIDE DEF Bad
    <3>1. n - 1 \in Bad => n <= n - 1
      BY <2>1
    <3> QED BY <2>2, <3>1
  <2>4. PICK f : f = [k \in 0..(n - 1) |-> Step(f, k)]
    BY <2>3
  <2>5. PICK g : g = [k \in 0..n |-> IF k = n THEN Step(f, n) ELSE f[k]]
    OBVIOUS
  <2>6. \A k \in 0..n : Step(g, k) = IF k = n THEN Step(f, n) ELSE f[k]
    <3> SUFFICES ASSUME NEW k \in 0..n PROVE Step(g, k) = IF k = n THEN Step(f, n) ELSE f[k]
      OBVIOUS
    <3>1. k # 0 => g[k - 1] = f[k - 1]
      BY <2>2, <2>5
    <3>2. Step(g, k) = Step(f, k)
      BY <3>1
    <3>3. k # n => f[k] = Step(f, k)
      <4>1. k # n => k \in 0..(n - 1)
        BY <2>2
      <4> HIDE DEF Step
      <4> QED BY <2>4, <4>1
    <3> QED BY <3>2, <3>3
  <2>7. g = [k \in 0..n |-> Step(g, k)]
    <3> HIDE DEF Step
    <3> QED BY <2>5, <2>6
  <2> QED BY <2>1, <2>7
<1>2. PICK f : f = [k \in 0..Len(text) |-> Step(f, k)]
  BY <1>1
<1> DEFINE ids == CHOOSE h : h = [k \in 0..Len(text) |-> Step(h, k)]
<1>3. ids = [k \in 0..Len(text) |-> Step(ids, k)]
  <2> HIDE DEF Step
  <2> QED BY <1>2
<1>4. Ids(text) = ids[Len(text)]
  BY DEF Ids
<1> HIDE DEF ids
<1>5. NumbersOf(text, ids)
  <2>1. \A k \in 0..Len(text) : ids[k] = Step(ids, k)
    <3> HIDE DEF Step
    <3> QED BY <1>3
  <2>2. 0 \in 0..Len(text) /\ \A k \in 1..Len(text) : k \in 0..Len(text) /\ k # 0
    OBVIOUS
  <2> QED BY <2>1, <2>2 DEF NumbersOf
<1> QED BY <1>4, <1>5

LEMMA NumbersOnce ==
  ASSUME NEW text, Len(text) \in Nat, NEW g, NumbersOf(text, g)
  PROVE  Ids(text) = g[Len(text)]
<1>1. PICK f : NumbersOf(text, f) /\ Ids(text) = f[Len(text)]
  BY IdsRecursion
<1> DEFINE Differ == {k \in 0..Len(text) : f[k] # g[k]}
<1>2. Differ = {}
  <2> SUFFICES ASSUME Differ # {} PROVE FALSE
    OBVIOUS
  <2>1. Differ \in SUBSET Nat
    OBVIOUS
  <2>2. PICK n \in Differ : \A l \in Differ : n <= l
    <3> HIDE DEF Differ
    <3> QED BY <2>1, LeastNumber
  <2>3. n # 0 /\ n \in 1..Len(text) /\ n - 1 \in 0..Len(text)
    BY <1>1, <2>2 DEF NumbersOf
  <2>4. n - 1 \notin Differ
    <3> HIDE DEF Differ
    <3>1. n - 1 \in Differ => n <= n - 1
      BY <2>2
    <3> QED BY <2>3, <3>1
  <2>5. f[n - 1] = g[n - 1]
    BY <2>3, <2>4
  <2>6. f[n] = g[n]
    BY <1>1, <2>3, <2>5 DEF NumbersOf
  <2> QED BY <2>2, <2>6
<1>3. Len(text) \in 0..Len(text)
  OBVIOUS
<1> QED BY <1>1, <1>2, <1>3

LEMMA NumbersTyped ==
  ASSUME NEW text \in Seq(Item), NEW g, NumbersOf(text, g)
  PROVE  \A k \in 0..Len(text) : g[k] \in Seq(Nat)
<1>0. Len(text) \in Nat
  BY LenProperties
<1> DEFINE Bad == {k \in 0..Len(text) : g[k] \notin Seq(Nat)}
<1> SUFFICES ASSUME Bad # {} PROVE FALSE
  OBVIOUS
<1>1. Bad \in SUBSET Nat
  BY <1>0
<1>2. PICK n \in Bad : \A l \in Bad : n <= l
  <2> HIDE DEF Bad
  <2> QED BY <1>1, LeastNumber
<1>3. n # 0 /\ n \in 1..Len(text) /\ n - 1 \in 0..Len(text) /\ n \in Nat
  <2>1. g[0] \in Seq(Nat)
    BY EmptySeq DEF NumbersOf
  <2>2. n \in 0..Len(text) /\ n # 0
    BY <1>2, <2>1
  <2> QED BY <1>0, <2>2
<1>4. n - 1 \notin Bad
  <2> HIDE DEF Bad
  <2>1. n - 1 \in Bad => n <= n - 1
    BY <1>2
  <2> QED BY <1>3, <2>1
<1>5. PICK ids \in Seq(Nat) : ids = g[n - 1]
  BY <1>3, <1>4
<1>6. PICK item \in Item : item = text[n]
  BY <1>3, ElementOfSeq
<1>7. g[n] = IF item.id = 0 THEN ids ELSE Append(ids, item.id)
  BY <1>3, <1>5, <1>6 DEF NumbersOf
<1>8. Append(ids, item.id) \in Seq(Nat)
  BY AppendProperties DEF Item
<1> QED BY <1>2, <1>7, <1>8

LEMMA IdsTyped ==
  ASSUME NEW text \in Seq(Item)
  PROVE  Ids(text) \in Seq(Nat)
<1>1. Len(text) \in Nat
  BY LenProperties
<1>2. PICK g : NumbersOf(text, g) /\ Ids(text) = g[Len(text)]
  BY <1>1, IdsRecursion
<1>3. Len(text) \in 0..Len(text)
  BY <1>1
<1> QED BY <1>2, <1>3, NumbersTyped

LEMMA IdsEmpty == Ids(<<>>) = <<>>
<1>1. Len(<<>>) = 0
  BY EmptySeq
<1>2. PICK g : NumbersOf(<<>>, g) /\ Ids(<<>>) = g[Len(<<>>)]
  BY <1>1, IdsRecursion
<1> QED BY <1>1, <1>2 DEF NumbersOf

LEMMA IdsConcat ==
  ASSUME NEW text \in Seq(Item), NEW more \in Seq(Item)
  PROVE  Ids(text \o more) = Ids(text) \o Ids(more)
<1>1. PICK m \in Nat, n \in Nat : m = Len(text) /\ n = Len(more)
  BY LenProperties
<1>2. PICK both : both = text \o more
  OBVIOUS
<1>3. /\ both \in Seq(Item) /\ Len(both) = m + n
      /\ \A k \in 1..(m + n) : both[k] = IF k <= m THEN text[k] ELSE more[k - m]
  BY <1>1, <1>2, ConcatProperties
<1>4. PICK g : NumbersOf(text, g) /\ Ids(text) = g[m]
  BY <1>1, IdsRecursion
<1>5. PICK h : NumbersOf(more, h) /\ Ids(more) = h[n]
  BY <1>1, IdsRecursion
<1>6. PICK first \in Seq(Nat) : first = g[m]
  BY <1>1, <1>4, IdsTyped
<1>7. \A k \in 0..n : h[k] \in Seq(Nat)
  BY <1>1, <1>5, NumbersTyped
<1>8. PICK w : w = [k \in 0..(m + n) |-> IF k <= m THEN g[k] ELSE first \o h[k - m]]
  OBVIOUS
<1>9. w[0] = <<>>
  BY <1>4, <1>8 DEF NumbersOf
<1>10. ASSUME NEW k \in 1..m
       PROVE  w[k] = IF both[k].id = 0 THEN w[k - 1] ELSE Append(w[k - 1], both[k].id)
  <2>1. w[k] = g[k] /\ w[k - 1] = g[k - 1]
    BY <1>8
  <2>2. both[k] = text[k]
    BY <1>3
  <2>3. g[k] = IF text[k].id = 0 THEN g[k - 1] ELSE Append(g[k - 1], text[k].id)
    BY <1>1, <1>4 DEF NumbersOf
  <2> QED BY <2>1, <2>2, <2>3
<1>11. ASSUME NEW k \in (m + 1)..(m + n)
       PROVE  w[k] = IF both[k].id = 0 THEN w[k - 1] ELSE Append(w[k - 1], both[k].id)
  <2>1. PICK j \in 1..n : j = k - m
    OBVIOUS
  <2>2. w[k] = first \o h[j] /\ both[k] = more[j]
    <3>1. k \in 0..(m + n) /\ k \in 1..(m + n) /\ ~(k <= m)
      OBVIOUS
    <3>2. w[k] = first \o h[k - m]
      BY <1>8, <3>1
    <3>3. both[k] = more[k - m]
      BY <1>3, <3>1
    <3> QED BY <2>1, <3>2, <3>3
  <2>3. j - 1 \in 0..n
    OBVIOUS
  <2>4. PICK ids \in Seq(Nat) : ids = h[j - 1]
    BY <1>7, <2>3
  <2>5. w[k - 1] = first \o ids
    <3>1. CASE j = 1
      <4>1. ids = <<>> /\ w[k - 1] = first
        BY <1>5, <1>6, <1>8, <2>1, <2>4, <3>1 DEF NumbersOf
      <4> QED BY <4>1, ConcatEmptySeq
    <3>2. CASE j # 1
      <4>1. k - 1 \in 0..(m + n) /\ ~(k - 1 <= m) /\ (k - 1) - m = j - 1
        BY <2>1, <3>2
      <4> QED BY <1>8, <2>4, <4>1
    <3> QED BY <3>1, <3>2
  <2>6. PICK item \in Item : item = more[j]
    BY <1>1, ElementOfSeq
  <2>7. h[j] = IF item.id = 0 THEN ids ELSE Append(ids, item.id)
    BY <1>1, <1>5, <2>4, <2>6 DEF NumbersOf
  <2>8. first \o Append(ids, item.id) = Append(first \o ids, item.id)
    <3>1. item.id \in Nat
      BY DEF Item
    <3> QED BY <3>1
  <2> QED BY <2>2, <2>5, <2>6, <2>7, <2>8
<1>12. NumbersOf(both, w)
  <2>1. \A k \in 1..(m + n) : k \in 1..m \/ k \in (m + 1)..(m + n)
    OBVIOUS
  <2> QED BY <1>3, <1>9, <1>10, <1>11, <2>1 DEF NumbersOf
<1>13. Ids(both) = w[m + n]
  <2>1. Len(both) \in Nat
    BY <1>3, LenProperties
  <2> QED BY <1>3, <1>12, <2>1, NumbersOnce
<1>14. w[m + n] = first \o h[n]
  <2>1. CASE n = 0
    <3>1. h[n] = <<>> /\ w[m + n] = first
      BY <1>5, <1>6, <1>8, <2>1 DEF NumbersOf
    <3> QED BY <3>1, ConcatEmptySeq
  <2>2. CASE n # 0
    BY <1>8, <2>2
  <2> QED BY <2>1, <2>2
<1> QED BY <1>2, <1>4, <1>5, <1>6, <1>13, <1>14

LEMMA IdsOne ==
  ASSUME NEW item \in Item
  PROVE  /\ <<item>> \in Seq(Item)
         /\ Ids(<<item>>) = IF item.id = 0 THEN <<>> ELSE <<item.id>>
<1>0. <<item>> \in Seq(Item) /\ Len(<<item>>) = 1 /\ <<item>>[1] = item
  OBVIOUS
<1>1. PICK one \in Seq(Item) : one = <<item>> /\ Len(one) = 1 /\ one[1] = item
  BY <1>0
<1>2. PICK g : NumbersOf(one, g) /\ Ids(one) = g[1]
  BY <1>1, IdsRecursion
<1>3. g[1] = IF item.id = 0 THEN <<>> ELSE Append(<<>>, item.id)
  <2>1. g[0] = <<>> /\ 1 \in 1..Len(one) /\ 1 - 1 = 0
    BY <1>1, <1>2 DEF NumbersOf
  <2>2. g[1] = IF one[1].id = 0 THEN g[1 - 1] ELSE Append(g[1 - 1], one[1].id)
    BY <1>2, <2>1 DEF NumbersOf
  <2> QED BY <1>1, <2>1, <2>2
<1>4. Append(<<>>, item.id) = <<item.id>>
  OBVIOUS
<1> QED BY <1>1, <1>2, <1>3, <1>4

LEMMA IdsAll ==
  ASSUME NEW text \in Seq(Item), \A k \in 1..Len(text) : text[k].id # 0
  PROVE  Ids(text) = [k \in 1..Len(text) |-> text[k].id]
<1>1. PICK n \in Nat : n = Len(text)
  BY LenProperties
<1>2. PICK g : g = [k \in 0..n |-> [i \in 1..k |-> text[i].id]]
  OBVIOUS
<1>3. g[0] = <<>>
  BY <1>2
<1>4. ASSUME NEW k \in 1..n
      PROVE  g[k] = Append(g[k - 1], text[k].id)
  <2>1. g[k] = [i \in 1..k |-> text[i].id] /\ g[k - 1] = [i \in 1..(k - 1) |-> text[i].id]
    BY <1>2
  <2>2. \A i \in 1..n : text[i].id \in Nat
    <3>1. \A i \in 1..n : text[i] \in Item
      BY <1>1, ElementOfSeq
    <3> QED BY <3>1 DEF Item
  <2>3. g[k - 1] \in [1..(k - 1) -> Nat]
    BY <2>1, <2>2
  <2>4. PICK ids \in Seq(Nat) : ids = g[k - 1] /\ Len(ids) = k - 1
    BY <2>3, SeqDef, LenProperties, IsASeq
  <2>5. Append(ids, text[k].id) = [i \in 1..k |-> IF i = k THEN text[k].id ELSE ids[i]]
    BY <2>2, <2>4
  <2>6. \A i \in 1..k : text[i].id = IF i = k THEN text[k].id ELSE ids[i]
    BY <2>1, <2>4
  <2> QED BY <2>1, <2>4, <2>5, <2>6
<1>5. NumbersOf(text, g)
  BY <1>1, <1>3, <1>4 DEF NumbersOf
<1>6. Ids(text) = g[n]
  BY <1>1, <1>5, NumbersOnce
<1> QED BY <1>1, <1>2, <1>6
-----------------------------------------------------------------------------
(* Where the opcode that handles text may be.                              *)
Selected(d) ==
  /\ d.at \in WordPlaces \cup {"newline", "newlined"} => ~ostream_memory
  /\ d.at \in {"wrap", "wrapped", "display", "newline", "newlined"} => on.screen
  /\ d.at = "transcript" => ~on.screen
  /\ d.at = "display" => d.s = 0

(* The characters in the buffer have their numbers.                        *)
Numbered == \A i \in 0..(bufpos - 1) : buffer[i].id # 0

LEMMA NumberedStays ==
  ASSUME IInv, Numbered, [Next]_vars
  PROVE  Numbered'
<1>1. /\ bufpos \in Nat /\ bufpos <= TEXT_BUFFER_SIZE /\ TEXT_BUFFER_SIZE \in Nat
      /\ buffer \in [0..(TEXT_BUFFER_SIZE - 1) -> Letters \cup {NUL}] /\ printed \in Nat
  BY Sizes DEF IInv, Typed, WordsTyped, CountsTyped
<1>2. CASE words' = words
  BY <1>2 DEF words, Numbered
<1>3. ASSUME bufpos' = 0
      PROVE  Numbered'
  BY <1>3 DEF Numbered
<1>4. CASE FlushToTable \/ Deliver
  <2>1. words' = words \/ bufpos' = 0
    BY <1>4 DEF FlushToTable, Deliver, Emptied
  <2> QED BY <1>2, <1>3, <2>1
<1>5. CASE FlushToStreams
  <2>1. /\ bufpos < TEXT_BUFFER_SIZE /\ buffer' = [buffer EXCEPT ![bufpos] = NUL]
        /\ bufpos' = bufpos
    BY <1>5 DEF FlushToStreams, Flushing, Terminated
  <2>2. \A i \in 0..(bufpos - 1) : buffer'[i] = buffer[i]
    BY <1>1, <2>1
  <2> QED BY <2>1, <2>2 DEF Numbered
<1>6. CASE Insert
  <2>1. /\ bufpos < TEXT_BUFFER_SIZE /\ buffer' = [buffer EXCEPT ![bufpos] = Char(todo.kind)]
        /\ bufpos' = bufpos + 1
    BY <1>6 DEF Insert
  <2>2. Char(todo.kind).id # 0
    BY <1>1 DEF Char
  <2> HIDE DEF Char
  <2>3. \A i \in 0..(bufpos - 1) : buffer'[i] = buffer[i]
    BY <1>1, <2>1
  <2>4. buffer'[bufpos].id # 0
    BY <1>1, <2>1, <2>2
  <2>5. \A i \in 0..(bufpos' - 1) : i = bufpos \/ i \in 0..(bufpos - 1)
    BY <1>1, <2>1
  <2> QED BY <2>3, <2>4, <2>5 DEF Numbered
<1> QED BY <1>2, <1>4, <1>5, <1>6, WordsChange

LEMMA SelectedStays ==
  ASSUME ~Reentrant, IInv, Quiet, Settled(Doing), Selected(Doing), [Next]_vars
  PROVE  Selected(Doing)'
<1>1. CASE Barred
  BY <1>1, BarredStep DEF tables, Selected
<1>2. CASE ~Barred
  <2>1. /\ Fits(at, todo.name) /\ Doing = Current
        /\ \A i \in 1..Len(calls) : calls[i].at = "read"
        /\ todo.name = "direct" => ~ostream_memory
    BY <1>2, NotBarred DEF IInv, Typed, ControlTyped, Settled, Current
  <2>2. Selected(Current)
    BY <2>1
  <2>3. CASE CallsRoutine
    <3>1. UNCHANGED <<ostream_memory, on>>
      BY <2>3 DEF CallsRoutine, Wrap, ScreenNewLine, Countdown, tables
    <3>2. \/ at = "wrap" /\ Doing'.at = "wrapped"
          \/ at = "newline" /\ Doing'.at = "newlined"
      BY <1>2, <2>3, DoingStep
    <3> QED BY <2>2, <3>1, <3>2 DEF Selected, WordPlaces, Current
  <2>4. CASE ~CallsRoutine
    <3>1. Doing'.at = at' /\ Doing'.s = s'
      BY <1>2, <2>4, DoingStep DEF Current
    <3> HIDE DEF Doing
    <3>2. ASSUME at' \notin WordPlaces, at' \notin {"newline", "newlined"}
          PROVE  Selected(Doing)'
      BY <3>1, <3>2 DEF Selected, WordPlaces
    <3>3. CASE vars' = vars
      BY <2>2, <3>1, <3>3 DEF vars, tables, modes, control, Selected, Current
    <3>4. CASE FlushToStreams
      <4>1. ~ostream_memory /\ UNCHANGED <<ostream_memory, on>>
        BY <3>4 DEF FlushToStreams, tables, modes
      <4>2. at' = WhereTo(on.screen /\ WIDTH - x < bufpos)
        BY <3>4 DEF FlushToStreams
      <4>3. /\ at' \in {"wrap", "display", "transcript"}
            /\ at' = "wrap" \/ at' = "display" => on.screen
            /\ at' = "transcript" => ~on.screen
        BY <4>2 DEF WhereTo
      <4>4. at' = "display" => s' = 0
        <5>1. at' = "display" => ~(on.screen /\ WIDTH - x < bufpos)
          BY <4>2 DEF WhereTo
        <5> QED BY <3>4, <5>1 DEF FlushToStreams
      <4> QED BY <3>1, <4>1, <4>3, <4>4 DEF Selected
    <3>5. CASE DirectChar
      <4>1. ~ostream_memory /\ UNCHANGED <<ostream_memory, on>>
        BY <2>1, <3>5 DEF DirectChar, tables, modes, Fits
      <4>2. at' = WhereTo(on.screen /\ WIDTH - x < 1)
        BY <3>5 DEF DirectChar
      <4>3. /\ at' \in {"wrap", "display", "transcript"}
            /\ at' = "wrap" \/ at' = "display" => on.screen
            /\ at' = "transcript" => ~on.screen
        BY <4>2 DEF WhereTo
      <4>4. s' = 0
        BY <3>5 DEF DirectChar
      <4> QED BY <3>1, <4>1, <4>3, <4>4 DEF Selected
    <3>6. CASE NewLineOnScreen
      <4>1. ~ostream_memory /\ on.screen /\ at' = "newline" /\ UNCHANGED <<ostream_memory, on>>
        BY <3>6 DEF NewLineOnScreen, tables, modes
      <4> QED BY <3>1, <4>1 DEF Selected
    <3>7. CASE Begins
      BY <3>2, <3>7 DEF Begins, PrintChar, NewLine, BeginSwitch, Begin, WordPlaces
    <3>8. CASE SkipFlush \/ FlushToTable \/ Deliver
      BY <3>2, <3>8 DEF SkipFlush, FlushToTable, Deliver, WordPlaces
    <3>9. CASE FinishOpcode /\ ~NewLineOnScreen
      BY <3>2, <3>9 DEF FinishOpcode, Finish, Insert, NewLineToTable, EndNewLine,
         Select, MemoryOpen, MemoryClose, WindowStyle, SetCountdown, Read, WordPlaces
    <3>10. CASE Timeout \/ Key \/ Overrun
      BY <3>2, <3>10 DEF Timeout, Key, Overrun, WordPlaces
    <3>11. CASE Return
      <4>1. at' = "read"
        BY <2>1, <3>11, ReturnStep
      <4> QED BY <3>2, <4>1 DEF WordPlaces
    <3> QED BY <2>4, <3>3, <3>4, <3>5, <3>6, <3>7, <3>8, <3>9, <3>10, <3>11
            DEF Next, Begins, Flush, CallsRoutine
  <2> QED BY <2>3, <2>4
<1> QED BY <1>1, <1>2
-----------------------------------------------------------------------------
(* The word that is pending is what the buffer holds.                      *)
LEMMA PendingTyped ==
  ASSUME IInv
  PROVE  Pending \in Seq(Nat) /\ Len(Pending) = bufpos
<1>1. bufpos \in Nat /\ \A k \in 1..bufpos : buffer[k - 1].id \in Nat
  BY Sizes DEF IInv, Typed, WordsTyped, Letters
<1>2. Pending \in [1..bufpos -> Nat]
  BY <1>1 DEF Pending
<1> QED BY <1>1, <1>2, SeqDef, IsASeq, LenProperties

LEMMA NonePending ==
  ASSUME bufpos = 0
  PROVE  Pending = <<>>
BY DEF Pending

LEMMA WholeWord ==
  ASSUME IInv, Numbered, NEW word \in Seq(Item), Len(word) = bufpos,
         \A k \in 1..bufpos : word[k] = buffer[k - 1]
  PROVE  Ids(word) = Pending
<1>1. bufpos \in Nat
  BY Sizes DEF IInv, Typed, WordsTyped
<1>2. \A k \in 1..bufpos : word[k].id # 0 /\ word[k].id = buffer[k - 1].id
  BY <1>1 DEF Numbered
<1>3. Ids(word) = [k \in 1..bufpos |-> word[k].id]
  BY <1>2, IdsAll
<1> QED BY <1>2, <1>3 DEF Pending

(* A word is shown on a new line: in place of the space before it, if there *)
(* is one.                                                                 *)
LEMMA AfterBreak ==
  ASSUME IInv, NEW word \in Seq(Item)
  PROVE  /\ <<Break(NUL)>> \o word \in Seq(Item)
         /\ Ids(<<Break(NUL)>> \o word) = Ids(word)
<1>1. PICK break \in Item : break = Break(NUL) /\ break.id = 0
  BY ItemFacts DEF Break, NUL
<1>2. PICK line \in Seq(Item) : line = <<break>> /\ Ids(line) = <<>>
  BY <1>1, IdsOne
<1>3. Ids(line \o word) = <<>> \o Ids(word) /\ line \o word \in Seq(Item)
  BY <1>2, IdsConcat, ConcatProperties
<1>4. Ids(word) \in Seq(Nat)
  BY IdsTyped
<1> QED BY <1>1, <1>2, <1>3, <1>4, ConcatEmptySeq

LEMMA InPlaceOfSpace ==
  ASSUME IInv, Numbered, bufpos > 0, NEW rest \in Seq(Item), Len(rest) = bufpos - 1,
         \A k \in 1..(bufpos - 1) : rest[k] = buffer[k]
  PROVE  /\ <<Break(buffer[0])>> \o rest \in Seq(Item)
         /\ Ids(<<Break(buffer[0])>> \o rest) = Pending
<1>1. bufpos \in Nat /\ buffer[0] \in Letters /\ buffer[0].id # 0
  BY Sizes DEF IInv, Typed, WordsTyped, Numbered
<1>2. PICK break \in Item, letter \in Item :
        break = Break(buffer[0]) /\ letter = buffer[0] /\ break.id = letter.id /\ letter.id # 0
  <2>1. Break(buffer[0]) \in Item /\ buffer[0] \in Item
    BY <1>1, ItemFacts
  <2>2. Break(buffer[0]).id = buffer[0].id
    BY <1>1 DEF Break, Letters
  <2> QED BY <1>1, <2>1, <2>2
<1>3. PICK space \in Seq(Item) : space = <<letter>> /\ Len(space) = 1 /\ space[1] = letter
  <2>1. <<letter>> \in Seq(Item) /\ Len(<<letter>>) = 1 /\ <<letter>>[1] = letter
    OBVIOUS
  <2> QED BY <2>1
<1>4. PICK line \in Seq(Item) : line = <<break>> /\ Ids(line) = Ids(space)
  BY <1>2, <1>3, IdsOne
<1>5. PICK word : word = space \o rest
  OBVIOUS
<1>6. /\ word \in Seq(Item) /\ Len(word) = bufpos
      /\ \A k \in 1..bufpos : word[k] = IF k <= 1 THEN space[k] ELSE rest[k - 1]
  BY <1>1, <1>3, <1>5, ConcatProperties
<1>7. \A k \in 1..bufpos : word[k] = buffer[k - 1]
  <2> SUFFICES ASSUME NEW k \in 1..bufpos PROVE word[k] = buffer[k - 1]
    OBVIOUS
  <2>1. CASE k = 1
    BY <1>2, <1>3, <1>6, <2>1
  <2>2. CASE k # 1
    <3>1. k - 1 \in 1..(bufpos - 1) /\ ~(k <= 1)
      BY <1>1, <2>2
    <3> QED BY <1>6, <3>1
  <2> QED BY <2>1, <2>2
<1>8. Ids(word) = Pending
  BY <1>6, <1>7, WholeWord
<1>9. Ids(line \o rest) = Ids(line) \o Ids(rest) /\ Ids(word) = Ids(space) \o Ids(rest)
      /\ line \o rest \in Seq(Item)
  BY <1>5, IdsConcat, ConcatProperties
<1> QED BY <1>2, <1>4, <1>8, <1>9

LEMMA WordEnds ==
  ASSUME IInv, Quiet, Prepared(Doing), ~Barred, InFlush(at, todo), NEW i \in {0, s}
  PROVE  /\ bufpos > 0 /\ i \in {0, 1} /\ CanRead /\ ~Direct
         /\ Text(i) \in Seq(Item) /\ Len(Text(i)) = bufpos - i
         /\ \A k \in 1..(bufpos - i) : Text(i)[k] = buffer[i + k - 1]
<1>1. /\ bufpos \in 1..(TEXT_BUFFER_SIZE - 1) /\ buffer[bufpos] = NUL
      /\ s \in {0, 1} /\ ~Direct
  BY NotBarred DEF Prepared, Current, InFlush, Direct, WordPlaces
<1>2. bufpos \in Nat /\ \A j \in 0..(bufpos - 1) : buffer[j] \in Letters /\ buffer[j] # NUL
  BY <1>1, Sizes, ItemFacts DEF IInv, Typed, WordsTyped
<1>3. ASSUME NEW j \in {0, s}
      PROVE  Terminators(j) # {} /\ Terminator(j) = bufpos
  <2>1. j <= bufpos /\ j \in Nat
    BY <1>1, <1>2
  <2>2. bufpos \in Terminators(j)
    BY <1>1, <1>2, <1>3, <2>1, Sizes DEF Terminators
  <2>3. /\ Terminator(j) \in j..(TEXT_BUFFER_SIZE - 1) /\ buffer[Terminator(j)] = NUL
        /\ \A k \in j..(Terminator(j) - 1) : buffer[k] # NUL
    BY <2>1, <2>2, TerminatorIsFirst DEF IInv
  <2>4. ~(Terminator(j) < bufpos)
    BY <1>1, <1>2, <2>1, <2>3, Sizes
  <2>5. ~(bufpos < Terminator(j))
    BY <1>1, <1>2, <2>1, <2>3, Sizes
  <2> QED BY <1>2, <2>1, <2>2, <2>3, <2>4, <2>5, Sizes
<1>4. CanRead
  BY <1>1, <1>3 DEF CanRead
<1>5. i \in {0, 1} /\ i \in Nat
  BY <1>1
<1>6. Text(i) \in Seq(Item) /\ Len(Text(i)) = bufpos - i
  BY <1>3, <1>5, TextTyped DEF IInv
<1>7. Text(i) = [k \in 1..(bufpos - i) |-> buffer[i + k - 1]]
  BY <1>3 DEF Text
<1> QED BY <1>1, <1>4, <1>5, <1>6, <1>7

(* The tables that are open, the last one innermost.                       *)
LEMMA OpenFacts ==
  ASSUME IInv, Defined
  PROVE  /\ ostream_memory => /\ depth \in 0..(MAX_NESTING - 1) /\ depth \in Nat
                              /\ redirect[depth].table \in Table
                              /\ OpenNow # <<>> /\ OpenNow \in Seq(Table)
                              /\ Len(OpenNow) = depth + 1
                              /\ OpenNow[Len(OpenNow)] = redirect[depth].table
         /\ ~ostream_memory => OpenNow = <<>> /\ depth = -1
<1>1. /\ depth \in Nat \cup {-1} /\ depth < MAX_NESTING /\ (ostream_memory <=> depth >= 0)
      /\ redirect \in [0..(MAX_NESTING - 1) -> Redirection] /\ MAX_NESTING \in Nat
  BY Sizes DEF Defined, IInv, Typed, TablesTyped, MemoryOpened
<1>2. OpenNow = [i \in 1..(depth + 1) |-> redirect[i - 1].table]
  BY DEF OpenNow
<1>3. CASE ostream_memory
  <2>1. depth \in 0..(MAX_NESTING - 1) /\ depth \in Nat
    BY <1>1, <1>3
  <2>2. \A i \in 1..(depth + 1) : redirect[i - 1].table \in Table
    BY <1>1, <2>1 DEF Redirection
  <2>3. OpenNow \in [1..(depth + 1) -> Table] /\ depth + 1 \in Nat
    BY <1>2, <2>1, <2>2
  <2>4. OpenNow \in Seq(Table) /\ Len(OpenNow) = depth + 1
    BY <2>3, SeqDef, IsASeq, LenProperties
  <2>5. OpenNow[depth + 1] = redirect[depth].table
    BY <1>2, <2>1
  <2>6. OpenNow # <<>>
    BY <2>1, <2>4, EmptySeq
  <2> QED BY <1>1, <1>3, <2>1, <2>2, <2>4, <2>5, <2>6
<1>4. CASE ~ostream_memory
  <2>1. depth = -1
    BY <1>1, <1>4
  <2> QED BY <1>2, <1>4, <2>1
<1> QED BY <1>3, <1>4

LEMMA OpenStays ==
  ASSUME IInv, Defined, Defined', depth' = depth,
         \A d \in 0..(MAX_NESTING - 1) : redirect'[d].table = redirect[d].table
  PROVE  OpenNow' = OpenNow
<1>1. depth \in Nat \cup {-1} /\ depth < MAX_NESTING /\ MAX_NESTING \in Nat
  BY Sizes DEF Defined, IInv, Typed, TablesTyped
<1>2. \A i \in 1..(depth + 1) : i - 1 \in 0..(MAX_NESTING - 1)
  BY <1>1
<1>3. /\ OpenNow = [i \in 1..(depth + 1) |-> redirect[i - 1].table]
      /\ OpenNow' = [i \in 1..(depth + 1) |-> redirect'[i - 1].table]
  BY DEF OpenNow
<1> QED BY <1>2, <1>3

LEMMA StoredText ==
  ASSUME IInv, NEW t \in Table
  PROVE  /\ Stored[t] = Ids(memory[t]) \o (IF Innermost(t) THEN Pending ELSE <<>>)
         /\ Stored'[t] = Ids(memory'[t]) \o (IF Innermost(t)' THEN Pending' ELSE <<>>)
         /\ memory[t] \in Seq(Item) /\ Ids(memory[t]) \in Seq(Nat)
         /\ Stored[t] \in Seq(Nat)
<1>1. memory[t] \in Seq(Item)
  BY DEF IInv, Typed, TablesTyped
<1>2. Ids(memory[t]) \in Seq(Nat)
  BY <1>1, IdsTyped
<1>3. Ids(memory[t]) \o Pending \in Seq(Nat) /\ Ids(memory[t]) \o <<>> \in Seq(Nat)
  BY <1>2, PendingTyped, EmptySeq, ConcatProperties
<1> QED BY <1>1, <1>2, <1>3 DEF Stored

LEMMA Texts ==
  ASSUME IInv
  PROVE  /\ Ids(screen) \in Seq(Nat) /\ Ids(script) \in Seq(Nat)
         /\ ScreenText \in Seq(Nat) /\ ScriptText \in Seq(Nat)
         /\ ~(on.screen /\ ~ostream_memory) \/ bufpos = 0 => ScreenText = Ids(screen)
         /\ ~(on.script /\ ~ostream_memory) \/ bufpos = 0 => ScriptText = Ids(script)
<1>1. screen \in Seq(Item) /\ script \in Seq(Item)
  BY DEF IInv, Typed, StreamsTyped
<1>2. PICK a \in Seq(Nat), b \in Seq(Nat) : a = Ids(screen) /\ b = Ids(script)
  BY <1>1, IdsTyped
<1>3. PICK p \in Seq(Nat) : p = Pending /\ (bufpos = 0 => p = <<>>)
  BY PendingTyped, NonePending
<1>4. a \o p \in Seq(Nat) /\ b \o p \in Seq(Nat) /\ a \o <<>> = a /\ b \o <<>> = b
  BY ConcatProperties, ConcatEmptySeq
<1> QED BY <1>2, <1>3, <1>4 DEF ScreenText, ScriptText
-----------------------------------------------------------------------------
LEMMA NothingSeen ==
  ASSUME tables' = tables, streams' = streams, on' = on, printed' = printed,
         Pending' = Pending, Defined' = Defined
  PROVE  UNCHANGED Game!vars
<1>1. /\ UNCHANGED <<ostream_memory, depth, redirect, memory, screen, script>>
  BY DEF tables, streams
<1>2. Ids(screen)' = Ids(screen) /\ Ids(script)' = Ids(script)
      /\ \A t \in Table : Ids(memory[t])' = Ids(memory[t])
  BY <1>1 DEF Ids
<1>3. ScreenText' = ScreenText /\ ScriptText' = ScriptText
  BY <1>1, <1>2 DEF ScreenText, ScriptText
<1>4. OpenNow' = OpenNow
  BY <1>1 DEF OpenNow
<1>5. Stored' = Stored
  <2>1. \A t \in Table : Innermost(t)' = Innermost(t)
    BY <1>1 DEF Innermost
  <2> QED BY <1>2, <2>1 DEF Stored
<1> QED BY <1>3, <1>4, <1>5 DEF Game!vars, Game!text

(* A word moves from the buffer to the table; ...                          *)
LEMMA TableFlushed ==
  ASSUME IInv, Numbered, Defined, Defined', FlushToTable
  PROVE  UNCHANGED Game!vars
<1>1. /\ bufpos > 0 /\ bufpos \in Nat /\ bufpos' = 0 /\ ostream_memory
      /\ UNCHANGED <<ostream_memory, depth, screen, script, on, printed>>
  BY Sizes DEF FlushToTable, Flushing, NothingToFlush, Emptied, streams, modes, IInv, Typed,
     WordsTyped
<1>2. /\ depth \in 0..(MAX_NESTING - 1) /\ redirect[depth].table \in Table
      /\ redirect \in [0..(MAX_NESTING - 1) -> Redirection]
      /\ memory \in [Table -> Seq(Item)]
  BY <1>1, OpenFacts DEF IInv, Typed, TablesTyped
<1>3. PICK word \in Seq(Item) : /\ word = Word /\ Len(word) = bufpos
                                /\ \A k \in 1..bufpos : word[k] = buffer[k - 1]
  BY WordTyped DEF Word, IInv
<1>4. PICK drop \in BOOLEAN, full \in BOOLEAN :
        /\ full <=> TableOverflows(redirect[depth], word)
        /\ drop <=> full /\ word[1].kind = "space"
  OBVIOUS
<1>5. PICK rest : rest = IF drop THEN Tail(word) ELSE word
  OBVIOUS
<1>6. PICK items, n, total :
        /\ AppendToTable(items, n, total)
        /\ items = IF full THEN <<Break(IF drop THEN word[1] ELSE NUL)>> \o rest ELSE word
  BY <1>3, <1>4, <1>5 DEF FlushToTable
<1>7. items \in Seq(Item) /\ Ids(items) = Pending
  <2>1. CASE ~full
    BY <1>3, <1>6, <2>1, WholeWord
  <2>2. CASE full /\ ~drop
    <3>1. items = <<Break(NUL)>> \o word
      BY <1>5, <1>6, <2>2
    <3> QED BY <1>3, <3>1, AfterBreak, WholeWord
  <2>3. CASE full /\ drop
    <3>1. items = <<Break(buffer[0])>> \o rest
      BY <1>1, <1>3, <1>6, <2>3
    <3>2. word # <<>>
      BY <1>1, <1>3, EmptySeq
    <3>3. rest \in Seq(Item) /\ Len(rest) = bufpos - 1
          /\ \A k \in 1..(bufpos - 1) : rest[k] = word[k + 1]
      BY <1>3, <1>5, <2>3, <3>2, HeadTailProperties
    <3>4. \A k \in 1..(bufpos - 1) : word[k + 1] = buffer[k]
      <4> SUFFICES ASSUME NEW k \in 1..(bufpos - 1) PROVE word[k + 1] = buffer[k]
        OBVIOUS
      <4>1. k + 1 \in 1..bufpos /\ (k + 1) - 1 = k
        BY <1>1
      <4> QED BY <1>3, <4>1
    <3> QED BY <1>1, <3>1, <3>3, <3>4, InPlaceOfSpace
  <2> QED BY <2>1, <2>2, <2>3
<1>8. PICK e \in 0..(MAX_NESTING - 1), u \in Table : e = depth /\ u = redirect[depth].table
  BY <1>2
<1>9. /\ memory' = [memory EXCEPT ![u] = memory[u] \o items]
      /\ redirect' = [redirect EXCEPT ![e].width = n, ![e].total = total]
  BY <1>6, <1>8 DEF AppendToTable
<1>10. \A d \in 0..(MAX_NESTING - 1) : redirect'[d].table = redirect[d].table
  BY <1>2, <1>9 DEF Redirection
<1>11. OpenNow' = OpenNow
  BY <1>1, <1>10, OpenStays
<1>12. ASSUME NEW t \in Table
       PROVE  Stored'[t] = Stored[t]
  <2>1. Innermost(t) = (t = u) /\ Innermost(t)' = (t = u)
    BY <1>1, <1>2, <1>8, <1>10 DEF Innermost
  <2>2. PICK old \in Seq(Nat), p \in Seq(Nat) : old = Ids(memory[t]) /\ p = Pending
    BY StoredText, PendingTyped
  <2>3. Pending' = <<>>
    BY <1>1 DEF Pending
  <2>4. old \o <<>> = old /\ (old \o p) \o <<>> = old \o p
    BY ConcatEmptySeq, ConcatProperties
  <2>5. CASE t = u
    <3>1. memory'[t] = memory[t] \o items /\ memory[t] \in Seq(Item)
      BY <1>2, <1>9, <2>5
    <3>2. Ids(memory'[t]) = old \o p
      BY <1>7, <2>2, <3>1, IdsConcat
    <3> QED BY <2>1, <2>2, <2>3, <2>4, <2>5, <3>2, StoredText
  <2>6. CASE t # u
    <3>1. Ids(memory'[t]) = old
      BY <1>2, <1>9, <2>2, <2>6
    <3> QED BY <2>1, <2>2, <2>6, <3>1, StoredText
  <2> QED BY <2>5, <2>6
<1>13. Stored' = Stored
  BY <1>12 DEF Stored
<1>14. ScreenText' = ScreenText /\ ScriptText' = ScriptText
  <2>1. Ids(screen)' = Ids(screen) /\ Ids(script)' = Ids(script)
    BY <1>1 DEF Ids
  <2> QED BY <1>1, <2>1 DEF ScreenText, ScriptText
<1> QED BY <1>1, <1>11, <1>13, <1>14 DEF Game!vars, Game!text
-----------------------------------------------------------------------------
(* ... or to the screen, where a break may come before it, and to the      *)
(* transcript.                                                             *)
LEMMA WordDelivered ==
  ASSUME IInv, Numbered, Quiet, Prepared(Doing), Selected(Doing), ~Barred,
         Defined, Defined', Deliver, ~Direct
  PROVE  UNCHANGED Game!vars
<1>1. /\ at \in {"wrapped", "display", "transcript"} /\ InFlush(at, todo) /\ Doing = Current
      /\ UNCHANGED <<ostream_memory, depth, redirect, memory, on, printed>>
      /\ bufpos' = 0
  BY NotBarred DEF Deliver, Direct, InFlush, tables, modes, Emptied
<1>2. /\ ~ostream_memory
      /\ at \in {"wrapped", "display"} => on.screen
      /\ at = "transcript" => ~on.screen
      /\ at = "display" => s = 0
      /\ at = "wrapped" => (s = 1 <=> buffer[0].kind = "space")
  BY <1>1 DEF Selected, Current, WordPlaces, Prepared
<1>3. PICK word \in Seq(Item) : word = Text(0) /\ word = Shown(0) /\ Ids(word) = Pending
  <2>1. /\ Text(0) \in Seq(Item) /\ Len(Text(0)) = bufpos - 0 /\ bufpos > 0
        /\ \A k \in 1..(bufpos - 0) : Text(0)[k] = buffer[0 + k - 1]
    BY <1>1, WordEnds
  <2>2. bufpos \in Nat
    BY Sizes DEF IInv, Typed, WordsTyped
  <2>3. Len(Text(0)) = bufpos /\ \A k \in 1..bufpos : Text(0)[k] = buffer[k - 1]
    BY <2>1, <2>2
  <2>4. Ids(Text(0)) = Pending
    BY <2>1, <2>3, WholeWord
  <2>5. Shown(0) = Text(0)
    BY DEF Shown
  <2> QED BY <2>1, <2>4, <2>5
<1>4. PICK a \in Seq(Item), b \in Seq(Item) : a = screen /\ b = script
  BY DEF IInv, Typed, StreamsTyped
<1>5. PICK p \in Seq(Nat) : p = Pending
  BY PendingTyped
<1>6. PICK m \in Seq(Nat), n \in Seq(Nat) : m = Ids(a) /\ n = Ids(b)
  BY IdsTyped
<1>7. on.screen => screen' \in Seq(Item) /\ Ids(screen') = m \o p
  <2>1. CASE at = "display"
    <3>1. screen' = a \o word
      BY <1>2, <1>3, <1>4, <2>1 DEF Deliver
    <3> QED BY <1>3, <1>5, <1>6, <3>1, IdsConcat, ConcatProperties
  <2>2. CASE at = "wrapped"
    <3>1. screen' = a \o <<LineBreak>> \o Shown(s) /\ Shown(s) = Text(s)
      BY <1>4, <2>2 DEF Deliver, Shown
    <3>2. LineBreak \in Item /\ Text(s) \in Seq(Item) /\ <<LineBreak>> \o Text(s) \in Seq(Item)
          /\ Ids(<<LineBreak>> \o Text(s)) = p
      <4>1. CASE s = 0
        <5>1. LineBreak = Break(NUL)
          BY <4>1 DEF LineBreak
        <5> QED BY <1>3, <1>5, <4>1, <5>1, AfterBreak, ItemFacts
      <4>2. CASE s # 0
        <5>1. /\ bufpos > 0 /\ s = 1 /\ Text(1) \in Seq(Item) /\ Len(Text(1)) = bufpos - 1
              /\ \A k \in 1..(bufpos - 1) : Text(1)[k] = buffer[1 + k - 1]
          BY <1>1, <4>2, WordEnds
        <5>2. bufpos \in Nat /\ buffer[0] \in Letters
          BY <5>1, Sizes DEF IInv, Typed, WordsTyped
        <5>3. \A k \in 1..(bufpos - 1) : Text(1)[k] = buffer[k]
          BY <5>1, <5>2
        <5>4. LineBreak = Break(buffer[0])
          BY <5>1 DEF LineBreak
        <5>5. Break(buffer[0]) \in Item
          BY <5>2, ItemFacts
        <5> QED BY <1>5, <5>1, <5>3, <5>4, <5>5, InPlaceOfSpace
      <4> QED BY <4>1, <4>2, Zenon
    <3>3. PICK line \in Seq(Item), shown \in Seq(Item) : line = <<LineBreak>> /\ shown = Text(s)
      BY <3>2, IdsOne
    <3>4. screen' = a \o (line \o shown) /\ line \o shown \in Seq(Item)
      <4>1. (a \o line) \o shown = a \o (line \o shown)
        BY ConcatAssociative, SMTT(30)
      <4> QED BY <3>1, <3>3, <4>1, ConcatProperties
    <3>5. Ids(line \o shown) = p
      BY <3>2, <3>3
    <3> QED BY <1>6, <3>4, <3>5, IdsConcat, ConcatProperties
  <2> QED BY <1>1, <1>2, <2>1, <2>2
<1>8. ~on.screen => screen' = a
  BY <1>1, <1>2, <1>4 DEF Deliver
<1>9. script' = IF on.script THEN b \o word ELSE b
  BY <1>3, <1>4 DEF Deliver
<1>10. on.script => Ids(script') = n \o p
  BY <1>3, <1>5, <1>6, <1>9, IdsConcat
<1>11. Pending' = <<>>
  BY <1>1 DEF Pending
<1>12. ScreenText' = Ids(screen') \o <<>> /\ ScriptText' = Ids(script') \o <<>>
  BY <1>11 DEF ScreenText, ScriptText
<1>13. m \o <<>> = m /\ n \o <<>> = n /\ (m \o p) \o <<>> = m \o p /\ (n \o p) \o <<>> = n \o p
  BY ConcatEmptySeq, ConcatProperties
<1>14. ScreenText' = ScreenText
  BY <1>2, <1>4, <1>5, <1>6, <1>7, <1>8, <1>12, <1>13 DEF ScreenText
<1>15. ScriptText' = ScriptText
  BY <1>2, <1>4, <1>5, <1>6, <1>9, <1>10, <1>12, <1>13 DEF ScriptText
<1>16. OpenNow' = OpenNow
  BY <1>1, OpenStays
<1>17. Stored' = Stored
  <2>1. \A t \in Table : Innermost(t) = FALSE /\ Innermost(t)' = FALSE
    BY <1>1, <1>2, OpenFacts DEF Innermost
  <2>2. \A t \in Table : Ids(memory[t])' = Ids(memory[t])
    BY <1>1 DEF Ids
  <2> QED BY <2>1, <2>2 DEF Stored
<1> QED BY <1>1, <1>14, <1>15, <1>16, <1>17 DEF Game!vars, Game!text

(* A character is printed to the streams, ...                              *)
LEMMA PutToStreams ==
  ASSUME IInv, Defined, Defined', ~ostream_memory,
         UNCHANGED <<ostream_memory, depth, redirect, memory, on>>, printed' = printed + 1,
         ScreenText' = IF on.screen THEN Append(ScreenText, printed + 1) ELSE ScreenText,
         ScriptText' = IF on.script THEN Append(ScriptText, printed + 1) ELSE ScriptText
  PROVE  Game!PutChar
<1>1. OpenNow' = OpenNow /\ OpenNow = <<>> /\ Defined' = Defined
  BY OpenStays, OpenFacts
<1>2. Stored' = Stored
  <2>1. \A t \in Table : Innermost(t) = FALSE /\ Innermost(t)' = FALSE
    BY OpenFacts DEF Innermost
  <2>2. \A t \in Table : Ids(memory[t])' = Ids(memory[t])
    BY DEF Ids
  <2> QED BY <2>1, <2>2 DEF Stored
<1> QED BY <1>1, <1>2 DEF Game!PutChar

(* ... or to the innermost table.                                          *)
LEMMA PutToTable ==
  ASSUME IInv, Defined, Defined', ostream_memory,
         UNCHANGED <<ostream_memory, depth, on, screen, script>>, printed' = printed + 1,
         \A d \in 0..(MAX_NESTING - 1) : redirect'[d].table = redirect[d].table,
         \A t \in Table :
           Stored'[t] = IF t = redirect[depth].table THEN Append(Stored[t], printed + 1)
                        ELSE Stored[t]
  PROVE  Game!PutChar
<1>1. OpenNow' = OpenNow /\ Defined' = Defined
  BY OpenStays
<1>2. /\ OpenNow # <<>> /\ OpenNow[Len(OpenNow)] = redirect[depth].table
      /\ redirect[depth].table \in Table
  BY OpenFacts
<1>3. Stored' = [Stored EXCEPT ![redirect[depth].table] = Append(@, printed + 1)]
  <2>1. Stored' = [t \in Table |-> Stored'[t]] /\ Stored = [t \in Table |-> Stored[t]]
    BY DEF Stored
  <2> QED BY <1>2, <2>1
<1>4. ScreenText' = ScreenText /\ ScriptText' = ScriptText
  <2>1. Ids(screen)' = Ids(screen) /\ Ids(script)' = Ids(script)
    BY DEF Ids
  <2> QED BY <2>1 DEF ScreenText, ScriptText
<1> QED BY <1>1, <1>2, <1>3, <1>4 DEF Game!PutChar
-----------------------------------------------------------------------------
(* A character with a number is added to a text.                           *)
LEMMA OneMore ==
  ASSUME NEW text \in Seq(Item), NEW item \in Item, item.id # 0
  PROVE  /\ text \o <<item>> = Append(text, item) /\ Append(text, item) \in Seq(Item)
         /\ Ids(Append(text, item)) = Append(Ids(text), item.id)
         /\ Ids(text \o <<item>>) = Append(Ids(text), item.id)
<1>1. PICK one \in Seq(Item) : one = <<item>> /\ Ids(one) = <<item.id>>
  BY IdsOne
<1>2. PICK ids \in Seq(Nat) : ids = Ids(text)
  BY IdsTyped
<1>3. text \o <<item>> = Append(text, item) /\ Append(text, item) \in Seq(Item)
  BY AppendProperties
<1>4. item.id \in Nat
  BY DEF Item
<1>5. ids \o <<item.id>> = Append(ids, item.id)
  BY <1>4
<1>6. Ids(text \o one) = ids \o <<item.id>>
  BY <1>1, <1>2, IdsConcat
<1> QED BY <1>1, <1>2, <1>3, <1>5, <1>6

(* A character that is not buffered.                                       *)
LEMMA DirectDelivered ==
  ASSUME IInv, Quiet, Settled(Doing), Prepared(Doing), ~Barred,
         Defined, Defined', Deliver, Direct, Selected(Doing)
  PROVE  Game!PutChar
<1>1. /\ at \in {"wrapped", "display", "transcript"} /\ todo.name = "direct" /\ Doing = Current
      /\ UNCHANGED <<ostream_memory, depth, redirect, memory, on, bufpos>>
      /\ printed' = printed + 1
  BY NotBarred DEF Deliver, Direct, tables, modes, words
<1>2. /\ ~ostream_memory /\ bufpos = 0 /\ s = 0
      /\ at \in {"wrapped", "display"} => on.screen
      /\ at = "transcript" => ~on.screen
  BY <1>1 DEF Selected, Settled, Prepared, Current, WordPlaces
<1>3. PICK c \in Item : c = Char(todo.kind) /\ c.id = printed + 1 /\ c.id # 0
  <2>1. todo.kind \in Kinds /\ printed \in Nat
    BY <1>1, OpcodeFacts DEF IInv, Typed, ControlTyped, CountsTyped
  <2> QED BY <2>1, CharTyped DEF IInv, Typed
<1>4. \A i : Shown(i) = <<c>>
  BY <1>3 DEF Shown
<1>5. PICK a \in Seq(Item), b \in Seq(Item) : a = screen /\ b = script
  BY DEF IInv, Typed, StreamsTyped
<1>c. ASSUME NEW text \in Seq(Item)
      PROVE  text \o <<c>> \in Seq(Item) /\ Ids(text \o <<c>>) = Append(Ids(text), printed + 1)
  BY <1>3, OneMore
<1>6. on.screen => Ids(screen') = Append(Ids(a), printed + 1) /\ screen' \in Seq(Item)
  <2>1. CASE at = "display"
    <3>1. screen' = a \o <<c>>
      BY <1>2, <1>4, <1>5, <2>1 DEF Deliver
    <3> QED BY <1>c, <3>1
  <2>2. CASE at = "wrapped"
    <3>1. screen' = a \o <<Break(NUL)>> \o <<c>>
      <4>1. LineBreak = Break(NUL)
        BY <1>2 DEF LineBreak
      <4>2. screen' = screen \o <<LineBreak>> \o Shown(s)
        BY <2>2 DEF Deliver
      <4> QED BY <1>4, <1>5, <4>1, <4>2
    <3>2. PICK break \in Item : break = Break(NUL) /\ break.id = 0
      BY ItemFacts DEF Break, NUL
    <3>3. PICK line \in Seq(Item) : line = <<break>> /\ Ids(line) = <<>>
      BY <3>2, IdsOne
    <3>4. PICK long \in Seq(Item) : long = a \o line
      BY ConcatProperties
    <3>5. Ids(long) = Ids(a)
      <4>1. PICK ids \in Seq(Nat) : ids = Ids(a)
        BY IdsTyped
      <4>2. Ids(long) = ids \o <<>>
        <5>1. Ids(a \o line) = Ids(a) \o Ids(line)
          BY IdsConcat
        <5> QED BY <3>3, <3>4, <4>1, <5>1, Zenon
      <4>3. ids \o <<>> = ids
        BY ConcatEmptySeq
      <4> QED BY <4>1, <4>2, <4>3, Zenon
    <3>6. screen' = long \o <<c>>
      BY <3>1, <3>2, <3>3, <3>4
    <3> QED BY <1>c, <3>5, <3>6
  <2> QED BY <1>1, <1>2, <2>1, <2>2
<1>7. ~on.screen => screen' = a
  BY <1>1, <1>2, <1>5 DEF Deliver
<1>8. script' = IF on.script THEN b \o <<c>> ELSE b
  BY <1>4, <1>5 DEF Deliver
<1>9. on.script => Ids(script') = Append(Ids(b), printed + 1)
  BY <1>c, <1>8
<1>10. ScreenText = Ids(a) /\ ScriptText = Ids(b)
  BY <1>2, <1>5, Texts
<1>11. ScreenText' = Ids(screen') /\ ScriptText' = Ids(script')
  <2>1. Pending' = <<>>
    BY <1>1, <1>2 DEF Pending
  <2>2. ScreenText' = Ids(screen') \o <<>> /\ ScriptText' = Ids(script') \o <<>>
    BY <2>1 DEF ScreenText, ScriptText
  <2>3. screen' \in Seq(Item) /\ script' \in Seq(Item)
    BY <1>5, <1>6, <1>7, <1>8, <1>c
  <2>4. PICK m \in Seq(Nat), n \in Seq(Nat) : m = Ids(screen') /\ n = Ids(script')
    BY <2>3, IdsTyped
  <2>5. m \o <<>> = m /\ n \o <<>> = n
    BY ConcatEmptySeq
  <2> QED BY <2>2, <2>4, <2>5
<1>12. /\ ScreenText' = IF on.screen THEN Append(ScreenText, printed + 1) ELSE ScreenText
       /\ ScriptText' = IF on.script THEN Append(ScriptText, printed + 1) ELSE ScriptText
  BY <1>6, <1>7, <1>8, <1>9, <1>10, <1>11
<1> QED BY <1>1, <1>2, <1>12, PutToStreams

LEMMA LineEnded ==
  ASSUME IInv, Quiet, Settled(Doing), Selected(Doing), ~Barred,
         Defined, Defined', EndNewLine
  PROVE  Game!PutChar
<1>1. /\ Doing = Current
      /\ UNCHANGED <<ostream_memory, depth, redirect, memory, on, bufpos>>
      /\ printed' = printed + 1
  BY NotBarred DEF EndNewLine, tables, modes, words
<1>2. /\ ~ostream_memory /\ bufpos = 0
      /\ at = "newlined" => on.screen
      /\ at # "newlined" => ~on.screen
  BY <1>1 DEF EndNewLine, Selected, Settled, Current
<1>3. PICK c \in Item : c = Char("break") /\ c.id = printed + 1 /\ c.id # 0
  <2>1. printed \in Nat
    BY DEF IInv, Typed, CountsTyped
  <2> QED BY <2>1, CharTyped DEF IInv, Typed
<1>4. PICK a \in Seq(Item), b \in Seq(Item) : a = screen /\ b = script
  BY DEF IInv, Typed, StreamsTyped
<1>5. /\ screen' = IF on.screen THEN Append(a, c) ELSE a
      /\ script' = IF on.script THEN Append(b, c) ELSE b
  <2>1. at = "newlined" => screen' = Append(a, c)
    BY <1>3, <1>4 DEF EndNewLine
  <2>2. at # "newlined" => screen' = a
    BY <1>4 DEF EndNewLine
  <2>3. script' = IF on.script THEN Append(b, c) ELSE b
    BY <1>3, <1>4 DEF EndNewLine
  <2> QED BY <1>2, <2>1, <2>2, <2>3
<1>6. ASSUME NEW text \in Seq(Item)
      PROVE  /\ Append(text, c) \in Seq(Item)
             /\ Ids(Append(text, c)) = Append(Ids(text), printed + 1)
  <2>1. Append(text, c) \in Seq(Item) /\ Ids(Append(text, c)) = Append(Ids(text), c.id)
    BY <1>3, OneMore, Zenon
  <2> QED BY <1>3, <2>1, Zenon
<1>7. ScreenText = Ids(a) /\ ScriptText = Ids(b)
  BY <1>2, <1>4, Texts
<1>8. ScreenText' = Ids(screen') /\ ScriptText' = Ids(script')
  <2>1. Pending' = <<>>
    BY <1>1, <1>2 DEF Pending
  <2>2. ScreenText' = Ids(screen') \o <<>> /\ ScriptText' = Ids(script') \o <<>>
    BY <2>1 DEF ScreenText, ScriptText
  <2>3. screen' \in Seq(Item) /\ script' \in Seq(Item)
    BY <1>5, <1>6
  <2>4. PICK m \in Seq(Nat), n \in Seq(Nat) : m = Ids(screen') /\ n = Ids(script')
    BY <2>3, IdsTyped
  <2>5. m \o <<>> = m /\ n \o <<>> = n
    BY ConcatEmptySeq
  <2> QED BY <2>2, <2>4, <2>5
<1>9. /\ ScreenText' = IF on.screen THEN Append(ScreenText, printed + 1) ELSE ScreenText
      /\ ScriptText' = IF on.script THEN Append(ScriptText, printed + 1) ELSE ScriptText
  BY <1>5, <1>6, <1>7, <1>8
<1> QED BY <1>1, <1>2, <1>9, PutToStreams

(* A character that goes to the buffer is printed where the buffer will go.*)
LEMMA CharBuffered ==
  ASSUME IInv, Defined, Defined', Insert
  PROVE  Game!PutChar
<1>1. /\ bufpos < TEXT_BUFFER_SIZE /\ buffer' = [buffer EXCEPT ![bufpos] = Char(todo.kind)]
      /\ bufpos' = bufpos + 1 /\ printed' = printed + 1
      /\ UNCHANGED <<ostream_memory, depth, redirect, memory, on, screen, script>>
  BY DEF Insert, tables, streams, modes
<1>2. /\ bufpos \in Nat /\ TEXT_BUFFER_SIZE \in Nat /\ printed \in Nat
      /\ buffer \in [0..(TEXT_BUFFER_SIZE - 1) -> Letters \cup {NUL}]
  BY Sizes DEF IInv, Typed, WordsTyped, CountsTyped
<1>3. PICK p \in Seq(Nat) : p = Pending /\ Len(p) = bufpos
  BY PendingTyped
<1>4. Pending' = Append(p, printed + 1)
  <2>1. Char(todo.kind).id = printed + 1
    BY DEF Char
  <2> HIDE DEF Char
  <2>2. buffer'[bufpos].id = printed + 1
    BY <1>1, <1>2, <2>1
  <2>3. \A k \in 1..bufpos : buffer'[k - 1].id = p[k]
    <3>1. \A k \in 1..bufpos : p[k] = buffer[k - 1].id
      BY <1>3 DEF Pending
    <3>2. \A k \in 1..bufpos : buffer'[k - 1] = buffer[k - 1]
      BY <1>1, <1>2
    <3> QED BY <3>1, <3>2
  <2>4. Append(p, printed + 1)
          = [k \in 1..(bufpos + 1) |-> IF k = bufpos + 1 THEN printed + 1 ELSE p[k]]
    BY <1>2, <1>3
  <2>5. Pending' = [k \in 1..(bufpos + 1) |-> buffer'[k - 1].id]
    BY <1>1 DEF Pending
  <2>6. \A k \in 1..(bufpos + 1) :
          buffer'[k - 1].id = IF k = bufpos + 1 THEN printed + 1 ELSE p[k]
    <3> SUFFICES ASSUME NEW k \in 1..(bufpos + 1)
                 PROVE  buffer'[k - 1].id = IF k = bufpos + 1 THEN printed + 1 ELSE p[k]
      OBVIOUS
    <3>1. CASE k = bufpos + 1
      BY <1>2, <2>2, <3>1
    <3>2. CASE k # bufpos + 1
      <4>1. k \in 1..bufpos
        BY <1>2, <3>2
      <4> QED BY <2>3, <3>2, <4>1
    <3> QED BY <3>1, <3>2
  <2> QED BY <2>4, <2>5, <2>6
<1>5. \A ids \in Seq(Nat) : ids \o Append(p, printed + 1) = Append(ids \o p, printed + 1)
  BY <1>2
<1>6. CASE ostream_memory
  <2>1. \A t \in Table : Innermost(t)' = Innermost(t) /\ Innermost(t) = (t = redirect[depth].table)
    BY <1>1, <1>6, OpenFacts DEF Innermost
  <2>2. ASSUME NEW t \in Table
        PROVE  Stored'[t] = IF t = redirect[depth].table THEN Append(Stored[t], printed + 1)
                            ELSE Stored[t]
    <3>1. PICK ids \in Seq(Nat) : ids = Ids(memory[t])
      BY StoredText
    <3>2. Ids(memory'[t]) = ids
      BY <1>1, <3>1
    <3>3. /\ Stored[t] = ids \o (IF Innermost(t) THEN p ELSE <<>>)
          /\ Stored'[t] = ids \o (IF Innermost(t) THEN Append(p, printed + 1) ELSE <<>>)
      BY <1>3, <1>4, <2>1, <3>1, <3>2, StoredText
    <3> QED BY <1>5, <2>1, <3>3
  <2> QED BY <1>1, <1>6, <2>2, PutToTable
<1>7. CASE ~ostream_memory
  <2>1. PICK m \in Seq(Nat), n \in Seq(Nat) : m = Ids(screen) /\ n = Ids(script)
    BY Texts
  <2>2. Ids(screen)' = m /\ Ids(script)' = n
    BY <1>1, <2>1 DEF Ids
  <2>3. /\ ScreenText = m \o (IF on.screen THEN p ELSE <<>>)
        /\ ScriptText = n \o (IF on.script THEN p ELSE <<>>)
        /\ ScreenText' = m \o (IF on.screen THEN Append(p, printed + 1) ELSE <<>>)
        /\ ScriptText' = n \o (IF on.script THEN Append(p, printed + 1) ELSE <<>>)
    BY <1>1, <1>3, <1>4, <1>7, <2>1, <2>2 DEF ScreenText, ScriptText
  <2>4. /\ ScreenText' = IF on.screen THEN Append(ScreenText, printed + 1) ELSE ScreenText
        /\ ScriptText' = IF on.script THEN Append(ScriptText, printed + 1) ELSE ScriptText
    BY <1>5, <2>1, <2>3
  <2> QED BY <1>1, <1>7, <2>4, PutToStreams
<1> QED BY <1>6, <1>7
-----------------------------------------------------------------------------
(* A newline is printed to the innermost table.                            *)
LEMMA LineInTable ==
  ASSUME IInv, Defined, Defined', NewLineToTable, bufpos = 0
  PROVE  Game!PutChar
<1>1. /\ ostream_memory /\ UNCHANGED <<ostream_memory, depth, on, screen, script, bufpos>>
      /\ printed' = printed + 1
  BY DEF NewLineToTable, streams, modes, words
<1>2. PICK e \in 0..(MAX_NESTING - 1), u \in Table : e = depth /\ u = redirect[depth].table
  BY <1>1, OpenFacts
<1>3. /\ redirect \in [0..(MAX_NESTING - 1) -> Redirection]
      /\ memory \in [Table -> Seq(Item)] /\ printed \in Nat
  BY DEF IInv, Typed, TablesTyped, CountsTyped
<1>4. PICK c \in Item : c = Char("break") /\ c.id = printed + 1 /\ c.id # 0
  BY <1>3, CharTyped DEF IInv, Typed
<1>5. PICK total :
        /\ memory' = [memory EXCEPT ![u] = memory[u] \o <<c>>]
        /\ redirect' = [redirect EXCEPT ![e].width = 0, ![e].total = total]
  BY <1>2, <1>4 DEF NewLineToTable, AppendToTable
<1>6. \A d \in 0..(MAX_NESTING - 1) : redirect'[d].table = redirect[d].table
  BY <1>3, <1>5 DEF Redirection
<1>7. ASSUME NEW t \in Table
      PROVE  Stored'[t] = IF t = u THEN Append(Stored[t], printed + 1) ELSE Stored[t]
  <2>1. PICK text \in Seq(Item), ids \in Seq(Nat) : text = memory[t] /\ ids = Ids(text)
    BY StoredText
  <2>2. Pending = <<>> /\ Pending' = <<>>
    BY <1>1 DEF Pending
  <2>3. Stored[t] = ids
    <3>1. ids \o <<>> = ids
      BY ConcatEmptySeq
    <3> QED BY <2>1, <2>2, <3>1, StoredText
  <2>4. Stored'[t] = Ids(memory'[t]) \o <<>>
    BY <2>2, StoredText
  <2>5. CASE t = u
    <3>1. memory'[t] = text \o <<c>>
      BY <1>3, <1>5, <2>1, <2>5
    <3>2. Ids(text \o <<c>>) = Append(Ids(text), c.id)
      BY <1>4, OneMore
    <3>3. PICK more \in Seq(Nat) : more = Append(ids, printed + 1)
      <4>1. printed + 1 \in Nat
        BY <1>3
      <4> QED BY <4>1, AppendProperties
    <3>4. more \o <<>> = more
      BY ConcatEmptySeq
    <3> QED BY <1>4, <2>1, <2>3, <2>4, <2>5, <3>1, <3>2, <3>3, <3>4
  <2>6. CASE t # u
    <3>1. memory'[t] = text
      BY <1>3, <1>5, <2>1, <2>6
    <3>2. ids \o <<>> = ids
      BY ConcatEmptySeq
    <3> QED BY <2>1, <2>3, <2>4, <2>6, <3>1, <3>2
  <2> QED BY <2>5, <2>6
<1> QED BY <1>1, <1>2, <1>6, <1>7, PutToTable

(* The table that is opened is empty, and the last.                        *)
LEMMA TableBegins ==
  ASSUME IInv, Defined, Defined', MemoryOpen, bufpos = 0, todo.table \in Table
  PROVE  Game!Open(todo.table)
<1>1. /\ depth' = depth + 1 /\ depth + 1 < MAX_NESTING /\ depth \in Nat \cup {-1}
      /\ MAX_NESTING \in Nat
      /\ UNCHANGED <<on, screen, script, bufpos, printed>>
  BY Sizes DEF MemoryOpen, Defined, streams, modes, words, IInv, Typed, TablesTyped
<1>2. PICK e \in 0..(MAX_NESTING - 1), u \in Table : e = depth + 1 /\ u = todo.table
  BY <1>1
<1>3. /\ redirect \in [0..(MAX_NESTING - 1) -> Redirection]
      /\ memory \in [Table -> Seq(Item)]
  BY DEF IInv, Typed, TablesTyped
<1>4. PICK r : /\ memory' = [memory EXCEPT ![u] = <<>>]
               /\ redirect' = [redirect EXCEPT ![e] = r] /\ r.table = u
  BY <1>1, <1>2 DEF MemoryOpen
<1>5. OpenNow' = Append(OpenNow, u)
  <2>1. PICK n \in Nat : n = depth + 1
    BY <1>1
  <2>2. /\ OpenNow = [i \in 1..n |-> redirect[i - 1].table]
        /\ OpenNow' = [i \in 1..(n + 1) |-> redirect'[i - 1].table]
    BY <1>1, <2>1 DEF OpenNow
  <2>3. \A i \in 1..n : redirect[i - 1].table \in Table /\ redirect'[i - 1] = redirect[i - 1]
    BY <1>1, <1>2, <1>3, <1>4, <2>1 DEF Redirection
  <2>4. redirect'[n].table = u
    <3>1. redirect'[e] = r
      BY <1>3, <1>4
    <3> QED BY <1>2, <1>4, <2>1, <3>1
  <2>5. PICK now \in Seq(Table) : now = OpenNow /\ Len(now) = n
    <3>1. OpenNow \in [1..n -> Table]
      BY <2>2, <2>3
    <3> QED BY <3>1, SeqDef, IsASeq, LenProperties
  <2>6. Append(now, u) = [i \in 1..(n + 1) |-> IF i = n + 1 THEN u ELSE now[i]]
    <3>1. PICK more \in Seq(Table) :
            /\ more = Append(now, u) /\ Len(more) = n + 1 /\ more[n + 1] = u
            /\ \A i \in 1..n : more[i] = now[i]
      <4>1. u \in Table
        BY <1>2
      <4>2. /\ Append(now, u) \in Seq(Table) /\ Append(now, u) # <<>>
            /\ Len(Append(now, u)) = Len(now) + 1 /\ Append(now, u)[Len(now) + 1] = u
            /\ \A i \in 1..Len(now) : Append(now, u)[i] = now[i]
        BY <4>1, AppendProperties
      <4> QED BY <2>5, <4>2
    <3>2. more \in [1..(n + 1) -> Table]
      BY <3>1, LenProperties
    <3>3. \A i \in 1..(n + 1) : more[i] = IF i = n + 1 THEN u ELSE now[i]
      <4>1. \A i \in 1..(n + 1) : i = n + 1 \/ i \in 1..n
        OBVIOUS
      <4> QED BY <3>1, <4>1
    <3> QED BY <3>1, <3>2, <3>3
  <2>7. \A i \in 1..(n + 1) : redirect'[i - 1].table = IF i = n + 1 THEN u ELSE now[i]
    <3> SUFFICES ASSUME NEW i \in 1..(n + 1)
                 PROVE  redirect'[i - 1].table = IF i = n + 1 THEN u ELSE now[i]
      OBVIOUS
    <3>1. CASE i = n + 1
      BY <2>4, <3>1
    <3>2. CASE i # n + 1
      <4>1. i \in 1..n
        BY <3>2
      <4> QED BY <2>2, <2>3, <2>5, <3>2, <4>1
    <3> QED BY <3>1, <3>2
  <2> QED BY <2>2, <2>5, <2>6, <2>7
<1>6. Pending = <<>> /\ Pending' = <<>>
  BY <1>1 DEF Pending
<1>7. ASSUME NEW t \in Table
      PROVE  Stored'[t] = IF t = u THEN <<>> ELSE Stored[t]
  <2>1. Stored[t] = Ids(memory[t]) \o <<>> /\ Stored'[t] = Ids(memory'[t]) \o <<>>
    BY <1>6, StoredText
  <2>2. CASE t = u
    <3>1. memory'[t] = <<>>
      BY <1>3, <1>4, <2>2
    <3> QED BY <2>1, <2>2, <3>1, IdsEmpty
  <2>3. CASE t # u
    <3>1. memory'[t] = memory[t]
      BY <1>3, <1>4, <2>3
    <3> QED BY <2>1, <2>3, <3>1
  <2> QED BY <2>2, <2>3
<1>8. Stored' = [Stored EXCEPT ![u] = <<>>]
  <2>1. Stored' = [t \in Table |-> Stored'[t]] /\ Stored = [t \in Table |-> Stored[t]]
    BY DEF Stored
  <2> QED BY <1>7, <2>1
<1>9. ScreenText' = ScreenText /\ ScriptText' = ScriptText
  <2>1. Ids(screen)' = Ids(screen) /\ Ids(script)' = Ids(script)
    BY <1>1 DEF Ids
  <2> QED BY <1>1, <1>6, <2>1 DEF ScreenText, ScriptText
<1> QED BY <1>1, <1>2, <1>5, <1>8, <1>9 DEF Game!Open

(* The innermost table is closed; the newline at its end has no number.    *)
LEMMA TableEnds ==
  ASSUME IInv, Defined, Defined', MemoryClose, bufpos = 0, depth >= 0
  PROVE  Game!Close
<1>1. /\ depth \in Nat /\ depth' = depth - 1 /\ depth < MAX_NESTING /\ ostream_memory
      /\ UNCHANGED <<on, screen, script, bufpos, printed>>
      /\ MAX_NESTING \in Nat
  BY Sizes DEF MemoryClose, streams, modes, words, IInv, Typed, TablesTyped, MemoryOpened
<1>2. PICK e \in 0..(MAX_NESTING - 1), u \in Table : e = depth /\ u = redirect[depth].table
  BY <1>1, OpenFacts
<1>3. /\ redirect \in [0..(MAX_NESTING - 1) -> Redirection]
      /\ memory \in [Table -> Seq(Item)]
  BY DEF IInv, Typed, TablesTyped
<1>4. \/ UNCHANGED <<memory, redirect>>
      \/ \E total : /\ memory' = [memory EXCEPT ![u] = memory[u] \o <<Break(NUL)>>]
                    /\ redirect' = [redirect EXCEPT ![e].width = 0, ![e].total = total]
  <2>1. ~(depth < 0)
    BY <1>1
  <2>2. \/ UNCHANGED <<memory, redirect>>
        \/ \E total : AppendToTable(<<Break(NUL)>>, 0, total)
    BY <2>1, Zenon DEF MemoryClose
  <2> QED BY <1>2, <2>2, Zenon DEF AppendToTable
<1>5. \A d \in 0..(MAX_NESTING - 1) : redirect'[d].table = redirect[d].table
  <2>1. CASE UNCHANGED <<memory, redirect>>
    BY <2>1
  <2>2. ASSUME NEW total, redirect' = [redirect EXCEPT ![e].width = 0, ![e].total = total]
        PROVE  \A d \in 0..(MAX_NESTING - 1) : redirect'[d].table = redirect[d].table
    BY <1>3, <2>2 DEF Redirection
  <2> QED BY <1>4, <2>1, <2>2
<1>6. Pending = <<>> /\ Pending' = <<>>
  BY <1>1 DEF Pending
<1>7. ASSUME NEW t \in Table
      PROVE  Stored'[t] = Stored[t]
  <2>1. PICK text \in Seq(Item), ids \in Seq(Nat) : text = memory[t] /\ ids = Ids(text)
    BY StoredText
  <2>2. Stored[t] = ids \o <<>> /\ Stored'[t] = Ids(memory'[t]) \o <<>>
    BY <1>6, <2>1, StoredText
  <2>3. memory'[t] = text \/ memory'[t] = text \o <<Break(NUL)>>
    BY <1>3, <1>4, <2>1
  <2>4. Ids(text \o <<Break(NUL)>>) = ids
    <3>1. PICK break \in Item : break = Break(NUL) /\ break.id = 0
      BY ItemFacts DEF Break, NUL
    <3>2. PICK line \in Seq(Item) : line = <<break>> /\ Ids(line) = <<>>
      BY <3>1, IdsOne
    <3>3. Ids(text \o line) = ids \o <<>>
      BY <2>1, <3>2, IdsConcat
    <3> QED BY <3>1, <3>2, <3>3, ConcatEmptySeq
  <2> QED BY <2>1, <2>2, <2>3, <2>4
<1>8. Stored' = Stored
  BY <1>7 DEF Stored
<1>9. ScreenText' = ScreenText /\ ScriptText' = ScriptText
  <2>1. Ids(screen)' = Ids(screen) /\ Ids(script)' = Ids(script)
    BY <1>1 DEF Ids
  <2> QED BY <1>1, <1>6, <2>1 DEF ScreenText, ScriptText
<1>10. OpenNow # <<>> /\ OpenNow' = SubSeq(OpenNow, 1, Len(OpenNow) - 1)
  <2>1. PICK now \in Seq(Table) : now = OpenNow /\ Len(now) = depth + 1 /\ now # <<>>
    BY <1>1, OpenFacts
  <2>2. /\ OpenNow = [i \in 1..(depth + 1) |-> redirect[i - 1].table]
        /\ OpenNow' = [i \in 1..depth |-> redirect'[i - 1].table]
    BY <1>1 DEF OpenNow
  <2>3. \A i \in 1..depth : redirect'[i - 1].table = now[i]
    BY <1>1, <1>5, <2>1, <2>2
  <2>4. (depth + 1) - 1 = depth /\ \A i \in 1..depth : 1 + i - 1 = i
    BY <1>1
  <2>5. SubSeq(now, 1, depth) = [i \in 1..depth |-> now[i]]
    BY <1>1, <2>1
  <2>6. OpenNow' = [i \in 1..depth |-> now[i]]
    BY <2>2, <2>3
  <2>7. Len(now) - 1 = depth
    BY <2>1, <2>4
  <2> QED BY <2>1, <2>5, <2>6, <2>7
<1> QED BY <1>1, <1>8, <1>9, <1>10 DEF Game!Close, Game!text
-----------------------------------------------------------------------------
(* What is undefined stays so.                                             *)
LEMMA StaysDefined ==
  ASSUME IInv, [Next]_vars, Defined'
  PROVE  Defined
<1>1. /\ Fits(at, todo.name) /\ depth \in Nat \cup {-1}
      /\ MAX_NESTING \in Nat /\ calls \in Seq(Call) /\ Nothing.name = "nothing"
  BY Sizes DEF IInv, Typed, ControlTyped, TablesTyped, Nothing
<1>2. at = "overrun" => at' = "overrun"
  <2>1. CASE vars' = vars
    BY <2>1 DEF vars, control
  <2>2. CASE Begins
    BY <2>2 DEF Begins, PrintChar, NewLine, BeginSwitch, Begin
  <2>3. CASE Moves \/ Ends
    BY <2>3 DEF Moves, Ends, WordPlaces
  <2>4. CASE Return
    BY <2>4 DEF Return
  <2>5. ASSUME NEW place \in Resumed, Calls(place)
        PROVE  at = "overrun" => at' = "overrun"
    BY <2>5 DEF Calls
  <2> QED BY <2>1, <2>2, <2>3, <2>4, <2>5, LaterStep
<1>3. depth' = depth \/ depth' = depth + 1 \/ depth < MAX_NESTING
  <2>1. CASE tables' = tables \/ FlushToTable \/ NewLineToTable \/ MemoryOpen
    BY <2>1 DEF tables, FlushToTable, NewLineToTable, MemoryOpen
  <2>2. CASE MemoryClose
    BY <2>2 DEF MemoryClose
  <2> QED BY <2>1, <2>2, TablesChange
<1> QED BY <1>1, <1>2, <1>3 DEF Defined

(* The text in the buffer stays while it is flushed.                       *)
LEMMA PendingStays ==
  ASSUME IInv, FlushToStreams
  PROVE  Pending' = Pending
<1>1. /\ bufpos \in Nat /\ bufpos < TEXT_BUFFER_SIZE /\ TEXT_BUFFER_SIZE \in Nat
      /\ buffer \in [0..(TEXT_BUFFER_SIZE - 1) -> Letters \cup {NUL}]
      /\ buffer' = [buffer EXCEPT ![bufpos] = NUL] /\ bufpos' = bufpos
  BY Sizes DEF FlushToStreams, Flushing, Terminated, IInv, Typed, WordsTyped
<1>2. \A k \in 1..bufpos : buffer'[k - 1] = buffer[k - 1]
  BY <1>1
<1> QED BY <1>1, <1>2 DEF Pending

(* A stream is selected while the buffer is empty.                         *)
LEMMA StreamSelected ==
  ASSUME IInv, [Next]_vars, Select, bufpos = 0, Defined' = Defined
  PROVE  Game!Select
<1>1. /\ UNCHANGED <<ostream_memory, depth, redirect, memory, screen, script, bufpos, printed>>
      /\ on' \in [screen : BOOLEAN, script : BOOLEAN]
  BY ModesStayTyped DEF Select, tables, streams, words, ModesTyped
<1>2. Pending = <<>> /\ Pending' = <<>>
  BY <1>1 DEF Pending
<1>3. Ids(screen)' = Ids(screen) /\ Ids(script)' = Ids(script)
      /\ \A t \in Table : Ids(memory[t])' = Ids(memory[t]) /\ Innermost(t)' = Innermost(t)
  BY <1>1 DEF Ids, Innermost
<1>4. ScreenText' = ScreenText /\ ScriptText' = ScriptText
  <2>1. /\ ScreenText = Ids(screen) \o <<>> /\ ScriptText = Ids(script) \o <<>>
        /\ ScreenText' = Ids(screen)' \o <<>> /\ ScriptText' = Ids(script)' \o <<>>
    BY <1>2 DEF ScreenText, ScriptText
  <2> QED BY <1>3, <2>1
<1>5. OpenNow' = OpenNow
  BY <1>1 DEF OpenNow
<1>6. Stored' = Stored
  BY <1>2, <1>3 DEF Stored
<1> QED BY <1>1, <1>4, <1>5, <1>6 DEF Game!Select, Game!text

LEMMA GameStep ==
  ASSUME ~Reentrant, IInv, Quiet, Settled(Doing), Prepared(Doing), Selected(Doing), Numbered,
         [Next]_vars
  PROVE  [Game!Next]_(Game!vars)
<1>1. CASE ~Defined'
  BY <1>1 DEF Game!Next, Game!Lost, Defined
<1>2. CASE Defined'
  <2>1. Defined /\ Defined' = Defined
    BY <1>2, StaysDefined
  <2>2. ASSUME tables' = tables, streams' = streams, on' = on, printed' = printed, words' = words
        PROVE  UNCHANGED Game!vars
    <3>1. Pending' = Pending
      BY <2>2 DEF words, Pending
    <3> QED BY <2>1, <2>2, <3>1, NothingSeen
  <2>3. CASE Barred
    BY <2>2, <2>3, BarredStep
  <2>4. CASE ~Barred
    <3>1. /\ Doing = Current /\ Fits(at, todo.name) /\ todo \in Opcodes
          /\ Settled(Current)
      BY <2>4, NotBarred DEF IInv, Typed, ControlTyped
    <3>2. at = "finish" /\ todo.name # "char" => bufpos = 0
      BY <3>1 DEF Settled, Current
    <3>3. CASE vars' = vars
      BY <2>2, <3>3 DEF vars, modes
    <3>4. CASE Begins
      BY <2>2, <3>4 DEF Begins, PrintChar, NewLine, BeginSwitch, Begin, modes
    <3>5. CASE SkipFlush \/ DirectChar \/ Return \/ NewLineOnScreen \/ Read \/ Timeout \/ Key
      BY <2>2, <3>5 DEF SkipFlush, DirectChar, Return, NewLineOnScreen, Read, Timeout, Key, modes
    <3>6. CASE CallsRoutine
      BY <2>2, <3>6 DEF CallsRoutine, Wrap, ScreenNewLine, Countdown
    <3>7. CASE WindowStyle \/ SetCountdown
      BY <2>2, <3>7 DEF WindowStyle, SetCountdown
    <3>8. CASE FlushToStreams
      BY <2>1, <3>8, PendingStays, NothingSeen DEF FlushToStreams, modes
    <3>9. CASE FlushToTable
      BY <2>1, <3>9, TableFlushed
    <3>10. CASE Deliver
      <4>1. Direct => Game!PutChar
        BY <2>1, <2>4, <3>10, DirectDelivered
      <4>2. ~Direct => UNCHANGED Game!vars
        BY <2>1, <2>4, <3>10, WordDelivered
      <4> QED BY <2>1, <4>1, <4>2 DEF Game!Next
    <3>11. CASE Insert
      BY <2>1, <3>11, CharBuffered DEF Game!Next
    <3>12. CASE NewLineToTable
      <4>1. bufpos = 0
        BY <3>2, <3>12 DEF NewLineToTable, Finish
      <4> QED BY <2>1, <3>12, <4>1, LineInTable DEF Game!Next
    <3>13. CASE EndNewLine
      BY <2>1, <2>4, <3>13, LineEnded DEF Game!Next
    <3>14. CASE Select
      <4>1. bufpos = 0
        BY <3>2, <3>14 DEF Select, Finish
      <4> QED BY <2>1, <3>14, <4>1, StreamSelected DEF Game!Next
    <3>15. CASE MemoryOpen
      <4>1. bufpos = 0 /\ todo.table \in Table
        BY <3>1, <3>2, <3>15, OpcodeFacts DEF MemoryOpen, Finish
      <4>2. Game!Open(todo.table)
        BY <2>1, <3>15, <4>1, TableBegins
      <4> QED BY <2>1, <4>1, <4>2 DEF Game!Next
    <3>16. CASE MemoryClose
      <4>1. bufpos = 0
        BY <3>2, <3>16 DEF MemoryClose, Finish
      <4>2. CASE depth < 0
        BY <2>2, <3>16, <4>2 DEF MemoryClose, modes
      <4>3. CASE ~(depth < 0)
        <5>1. depth >= 0
          BY <4>3 DEF IInv, Typed, TablesTyped
        <5> QED BY <2>1, <3>16, <4>1, <5>1, TableEnds DEF Game!Next
      <4> QED BY <4>2, <4>3
    <3>17. CASE Overrun
      BY <1>2, <3>17 DEF Overrun, Defined
    <3> QED BY <3>3, <3>4, <3>5, <3>6, <3>7, <3>8, <3>9, <3>10, <3>11, <3>12, <3>13, <3>14,
               <3>15, <3>16, <3>17 DEF Next, Begins, Flush, FinishOpcode, CallsRoutine
  <2> QED BY <2>3, <2>4
<1> QED BY <1>1, <1>2

LEMMA InitGame ==
  ASSUME Init
  PROVE  Game!Init
<1>1. /\ bufpos = 0 /\ depth = -1 /\ screen = <<>> /\ script = <<>> /\ ~ostream_memory
      /\ memory = [t \in Table |-> <<>>] /\ printed = 0 /\ at = "idle"
      /\ on = [screen |-> TRUE, script |-> FALSE]
  BY DEF Init
<1>2. Pending = <<>> /\ <<>> \o <<>> = <<>>
  BY <1>1 DEF Pending
<1>3. ScreenText = <<>> /\ ScriptText = <<>>
  BY <1>1, <1>2, IdsEmpty DEF ScreenText, ScriptText
<1>4. OpenNow = <<>> /\ Defined
  <2>1. Defined
    BY <1>1, Sizes DEF Defined
  <2> QED BY <1>1, <2>1 DEF OpenNow
<1>5. Stored = [t \in Table |-> <<>>]
  BY <1>1, <1>2, IdsEmpty DEF Stored
<1> QED BY <1>1, <1>3, <1>4, <1>5 DEF Game!Init

LEMMA InitSelected ==
  ASSUME Init
  PROVE  Selected(Doing) /\ Numbered
<1>1. at = "idle" /\ calls = <<>> /\ bufpos = 0
  BY DEF Init
<1>2. Doing.at = "idle"
  BY <1>1 DEF Doing, Barred, Current
<1> QED BY <1>1, <1>2 DEF Selected, WordPlaces, Numbered

(* Whatever is printed and switched, each character reaches the streams or *)
(* the table that were selected when it was printed, once and in order     *)
(* (stream.c:196, buffer.c:43, redirect.c:97), if newline routines neither *)
(* print nor switch streams.                                               *)
THEOREM StreamsImplemented == ASSUME ~Reentrant PROVE Spec => ImplementsStreams
<1> DEFINE Held == Inside /\ Selected(Doing) /\ Numbered
<1>1. Init => Held /\ Game!Init
  BY InitInside, InitSelected, InitGame
<1>2. Held /\ [Next]_vars => Held'
  BY NextInside, SelectedStays, NumberedStays, Zenon DEF Inside
<1>3. Held /\ [Next]_vars => [Game!Next]_(Game!vars)
  BY GameStep DEF Inside
<1> QED BY <1>1, <1>2, <1>3, PTL DEF Spec, ImplementsStreams, Game!Spec
=============================================================================
