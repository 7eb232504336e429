---------------------------- MODULE StoryMemory -----------------------------
(***************************************************************************)
(* The memory of a story: how it is loaded, summed up, kept in files and   *)
(* as differences, which has no state here, and after that the tables in   *)
(* it, which has.                                                          *)
(*                                                                         *)
(* A story is read into memory, its header first and then the rest in      *)
(* chunks; verify sums the file up; save and restore with operands write   *)
(* and read an area of memory; and multiple undo keeps its history as      *)
(* differences of memory.  A byte of a story is known by its place in the  *)
(* file: memory after the load tells for each address which byte is there. *)
(***************************************************************************)
EXTENDS Integers, Sequences, SequencesExt, FiniteSets, FiniteSetsExt, TLC

CONSTANTS
  WORD, HEADER, CHUNK,   \* 65536, 64 and 0x8000
  Initial, Final,        \* the addresses of the tables
  Size,                  \* sizes of a copy, as signed numbers
  Byte                   \* bytes that are stored

LoadingAssumption == {WORD, HEADER, CHUNK} \subseteq Nat \ {0}
TablesAssumption == Initial \in 1..Final /\ Final < 65536 /\ Byte \subseteq 0..255

Lesser(a, b) == IF a < b THEN a ELSE b

(* fread: what there is, from the position of the file on.                 *)
fread(load, to, n) ==
  LET there == Lesser(n, load.length - load.position)
  IN  [load EXCEPT
         !.position = @ + there,
         !.memory = [a \in to..(to + there - 1) |-> load.position + a - to] @@ @,
         !.status = IF there = n THEN @ ELSE "Story file read error"]

(* What the header says of the size, in the unit of the version; some old  *)
(* games do not say it.                                                    *)
Unit(version) == 2 * (IF version >= 4 THEN 2 ELSE 1) * (IF version >= 6 THEN 2 ELSE 1)
story_size(story) ==
  IF story.h_file_size # 0 THEN Unit(story.h_version) * story.h_file_size ELSE story.length

LeftAtEnd(load, story) ==                                            \* faulty
  IF story.h_file_size # 0 THEN load ELSE [load EXCEPT !.position = story.length]
(* Looking for the end of the file leaves it where the header ends.        *)
Measured(load, story) == [load EXCEPT !.position = HEADER]

Chunks(load, story) ==
  LET total == story_size(story)
      count == IF total > HEADER THEN (total - HEADER + CHUNK - 1) \div CHUNK ELSE 0
      Chunk(l, size) ==
        IF l.status = "loaded" THEN fread(l, size, Lesser(CHUNK, total - size)) ELSE l
  IN  FoldLeft(Chunk, Measured(load, story), [i \in 1..count |-> HEADER + CHUNK * (i - 1)])

Fatal(load, message) == [load EXCEPT !.status = message]
init_memory(story) ==
  LET header == fread([length |-> story.length, position |-> 0, memory |-> <<>>,
                       status |-> "loaded"], 0, HEADER)
  IN  IF header.status # "loaded" THEN header
      ELSE IF story.h_version \notin 1..8 THEN Fatal(header, "Unknown Z-code version")
      ELSE IF story.h_version = 3 /\ story.swapped THEN Fatal(header, "Byte swapped story file")
      ELSE Chunks(header, story)

(* The opcodes that have another meaning in later versions.                *)
op0_opcodes(version) == [x \in {9} |-> IF version <= 4 THEN "pop" ELSE "catch"]
op1_opcodes(version) == [x \in {15} |-> IF version <= 4 THEN "not" ELSE "call_n"]

(* The header extension, a table that begins with its size; before it is   *)
(* read the size is taken for 0.                                           *)
get_header_extension(table, size, entry) ==
  IF table = <<>> \/ entry > size THEN 0 ELSE table[entry + 1]
hx_table_size(table) == get_header_extension(table, 0, 0)
hx_unicode_table(table) == get_header_extension(table, hx_table_size(table), 3)

(* The file, as bytes, is summed without the header and without what may   *)
(* follow the story.                                                       *)
Summed(file, size) == SubSeq(file, HEADER + 1, size)
z_verify(file, size, h_checksum) ==
  FoldLeft(LAMBDA sum, byte : (sum + byte) % WORD, 0, Summed(file, size)) = h_checksum
-----------------------------------------------------------------------------
(* Auxiliary files: save and restore with operands.  The game suggests a   *)
(* name, or the last suggestion is made again; what is suggested, and not  *)
(* what the player then types, is remembered.  A session has the memory,   *)
(* the files of the game disk, a function from names to bytes, the         *)
(* remembered name and the value stored by the last opcode.                *)
AUX == <<46, 65, 85, 88>>                                          \* ".AUX"
DEFAULT_AUXILARY_NAME == <<115, 116, 111, 114, 121, 46, 97, 117, 120>> \* "story.aux"
LowerCase(c) == IF c \in 65..90 THEN c + 32 ELSE c
get_default_name(session, name) ==
  IF name = <<>> THEN session.auxilary_name
  ELSE LET lower == [i \in DOMAIN name |-> LowerCase(name[i])]
       IN  IF Contains(lower, 46) THEN lower ELSE lower \o AUX

Named(session, name) == [session EXCEPT !.auxilary_name = get_default_name(session, name)]

(* The buffer that is handed to the editor is not cleared: typed is        *)
(* whatever was in it, as the player has edited it.                        *)
os_read_file_name(default_fn, typed) == IF typed = <<>> THEN default_fn ELSE typed

(* Items, not bytes: the area is one item.  An area of no bytes divides by *)
(* zero, which stops the machine.                                          *)
fwrite(size, nmemb) == (size * nmemb) \div size

(* What is written stays in the buffer of the open file and goes with it:  *)
(* fclose has the code that would keep it compiled out.                    *)
z_save(session, n, name) == [Named(session, name) EXCEPT !.success = fwrite(n, 1)]

(* Only a file of the game disk is opened, under exactly its name.         *)
z_restore(session, to, n, name, typed) ==
  LET s    == Named(session, name)
      file == os_read_file_name(get_default_name(session, name), typed)
      read == IF file \in DOMAIN s.disc THEN Lesser(n, Len(s.disc[file])) ELSE 0
  IN  [s EXCEPT !.memory = [a \in DOMAIN @ |-> IF a \in to..(to + read - 1)
                                              THEN s.disc[file][a - to + 1] ELSE @[a]],
                !.success = read]
-----------------------------------------------------------------------------
(* A story is loaded if the file holds as much as its header says, and     *)
(* then every byte is at its place, to the end and no further; otherwise   *)
(* the program ends.                                                       *)
Loaded(story) ==
  LET load == init_memory(story)
  IN  (story.h_file_size = 0 \/ story_size(story) >= HEADER) =>
        /\ load.status = "loaded" <=>
             /\ story.length >= HEADER /\ story.h_version \in 1..8
             /\ ~(story.h_version = 3 /\ story.swapped)
             /\ story.length >= story_size(story)
        /\ load.status = "loaded" =>
             load.memory = [a \in 0..(story_size(story) - 1) |-> a]

(* A byte of the story that is not the one the checksum was made of is     *)
(* noticed; the header and what follows the story do not matter.           *)
Verified(file, at, byte) ==
  LET bytes == SubSeq(file, HEADER + 1, Len(file))
      sum == FoldLeft(LAMBDA total, b : total + b, 0, bytes) % WORD
      changed == [file EXCEPT ![at] = byte]
  IN  z_verify(changed \o <<1>>, Len(file), sum) <=> at <= HEADER \/ byte = file[at]

(* A save is said to succeed and keeps nothing but the suggested name; a   *)
(* restore that follows finds what the disk has under the name that is     *)
(* typed, or else under the name that is suggested, now or at the save,    *)
(* and nothing that was saved.  It fills the area as far as that file and  *)
(* the length go, changes nothing else, and stores how much it read: 0,    *)
(* with memory as it was, if the disk has no such file.  Letters in the    *)
(* game's names may be of either case, the player's are taken as they are. *)
AuxiliaryRestored(disc, n, name, to, m, other, typed) ==
  LET before == [a \in 0..7 |-> a]
      start == [memory |-> before, disc |-> disc, auxilary_name |-> DEFAULT_AUXILARY_NAME,
                success |-> 0]
      saved == z_save(start, n, name)
      back  == z_restore(saved, to, m, other, typed)
      Lower(s) == [i \in DOMAIN s |-> LowerCase(s[i])]
      last  == IF other # <<>> THEN other ELSE name
      Extension == IF Contains(last, 46) THEN <<>> ELSE AUX
      asked == IF typed # <<>> THEN typed
               ELSE IF last = <<>> THEN DEFAULT_AUXILARY_NAME ELSE Lower(last) \o Extension
      there == {f \in DOMAIN disc : f = asked}
  IN  /\ saved.memory = before /\ saved.disc = disc /\ saved.success = 1
      /\ there = {} => back.memory = before /\ back.success = 0
      /\ \A f \in there :
           /\ back.success = Lesser(m, Len(disc[f]))
           /\ \A a \in DOMAIN before :
                back.memory[a] = IF a \in to..(to + back.success - 1)
                                 THEN disc[f][a - to + 1] ELSE a
      /\ z_restore(z_save(start, n, Lower(name)), to, m, Lower(other), typed) = back
-----------------------------------------------------------------------------
(***************************************************************************)
(* The difference of two states of the dynamic memory, mem_diff and        *)
(* mem_undiff.  A difference is a function from the addresses that differ  *)
(* to the (non zero) exclusive or of their bytes; its encoding is a        *)
(* sequence of bytes, where 0 and a length stand for a run of equal bytes. *)
(***************************************************************************)
SHORT == 127
LONG == 32768

(* The encoding of j equal bytes.                                          *)
BeyondLong(j) == IF j > LONG THEN j - LONG ELSE j
Count(k) == IF k <= SHORT THEN <<k>> ELSE <<(k % 128) + 128, (k \div 128) % 256>>
Run(j) ==
  (IF j > LONG THEN <<0, 255, 255>> ELSE <<>>)
    \o IF j = 0 THEN <<>> ELSE <<0>> \o Count(BeyondLong(j) - 1)

Ascending(S) ==
  [i \in 1..Cardinality(S) |-> CHOOSE a \in S : Cardinality({b \in S : b < a}) = i - 1]

(* Equal bytes at the end are not encoded.                                 *)
mem_diff(difference) ==
  LET Step(s, a) == [next |-> a + 1, bytes |-> s.bytes \o Run(a - s.next) \o <<difference[a]>>]
  IN  FoldLeft(Step, [next |-> 0, bytes |-> <<>>],
               Ascending(DOMAIN difference)).bytes

(* What mem_undiff changes; a run that is not complete changes nothing.    *)
OneByte(s, c) ==
  CASE s.run = "no" /\ c # 0 -> [s EXCEPT !.changed = @ \cup {<<s.dest, c>>}, !.dest = @ + 1]
    [] s.run = "no" /\ c = 0 -> [s EXCEPT !.run = "short"]
    [] s.run = "short" /\ c <= SHORT -> [s EXCEPT !.run = "no", !.dest = @ + c + 1]
    [] s.run = "short" /\ c > SHORT -> [s EXCEPT !.run = "long", !.low = c - 128]
    [] s.run = "long" -> [s EXCEPT !.run = "no", !.dest = @ + s.low + 128 * c + 1]

mem_undiff(bytes) ==
  LET changed == FoldLeft(OneByte, [run |-> "no", low |-> 0, dest |-> 0, changed |-> {}],
                          bytes).changed
  IN  [a \in {c[1] : c \in changed} |-> (CHOOSE c \in changed : c[1] = a)[2]]
-----------------------------------------------------------------------------
(* What an undo takes back is what the turn changed, whatever the length   *)
(* of the runs between; and the encoding fits into the part of undo_mem    *)
(* that is left for it, one and a half times the memory and two bytes.     *)
DifferenceKept(difference) == mem_undiff(mem_diff(difference)) = difference
DifferenceFits(difference, h_dynamic_size) ==
  2 * Len(mem_diff(difference)) <= 3 * h_dynamic_size + 4
-----------------------------------------------------------------------------
(***************************************************************************)
(* The tables of bytes and words of table.c in the dynamic memory, and the *)
(* stores of fastmem.c they end in.  An opcode that writes is an action,   *)
(* one that only stores a value the operator for that value.  The          *)
(* addresses are those of a small part of the memory, away from the header *)
(* (a store into its flags also opens or closes the transcript).           *)
(***************************************************************************)
VARIABLE memory

vars == memory

Address == Initial..Final
Init == memory = [a \in Address |-> a % 256]

storeb(m, addr, value) == [m EXCEPT ![addr] = value]
storew(m, addr, value) == storeb(storeb(m, addr, value \div 256), addr + 1, value % 256)

LOW_WORD(m, addr) == 256 * m[addr] + m[addr + 1]

(* The loops of z_copy_table: what the memory is after the bytes of order  *)
(* have been copied one by one.                                            *)
Copied(from, to, order) ==
  FoldLeft(LAMBDA m, i : storeb(m, to + i, m[from + i]), memory, order)
Upwards(n) == [i \in 1..n |-> i - 1]
Downwards(n) == Reverse(Upwards(n))

AlwaysUpwards(from, to, size) == TRUE                                \* faulty
Forwards(from, to, size) == size < 0 \/ from > to

Magnitude(size) == IF size < 0 THEN -size ELSE size
Within(addr, size) == addr + Magnitude(size) - 1 \in Address

z_copy_table(from, to, size) ==
  /\ Within(from, size)
  /\ IF to = 0
     THEN /\ size > 0
          /\ memory' = FoldLeft(LAMBDA m, i : storeb(m, from + i, 0), memory, Upwards(size))
     ELSE /\ Within(to, size)
          /\ memory' = Copied(from, to, IF Forwards(from, to, size)
                                        THEN Upwards(Magnitude(size)) ELSE Downwards(size))

z_storeb(table, index, value) ==
  memory' = storeb(memory, table + index, value)
z_storew(table, index, value) ==
  memory' = storew(memory, table + 2 * index, value)
z_loadb(table, index) == memory[table + index]
z_loadw(table, index) == LOW_WORD(memory, table + 2 * index)

(* A scan over n entries of words or bytes, step bytes apart.              *)
Entry(words, addr) == IF words THEN LOW_WORD(memory, addr) ELSE memory[addr]
Entries(n) == n
z_scan_table(target, table, n, words, step) ==
  LET from[i \in 0..(n + 1)] ==
        IF i >= Entries(n) THEN 0
        ELSE IF Entry(words, table + i * step) = target THEN table + i * step
        ELSE from[i + 1]
  IN  from[0]

Next ==
  \/ \E from \in Address, to \in Address \cup {0}, size \in Size : z_copy_table(from, to, size)
  \/ \E value \in Byte :
       \/ z_storeb(Initial, Final - Initial, value)
       \/ z_storew(Initial, 1, 256 * value + Initial)

Spec == Init /\ [][Next]_vars
-----------------------------------------------------------------------------
(* A copy is safe when source and destination overlap: what arrives is     *)
(* what was there before, wherever the two lie.  A copy of negative size   *)
(* goes forwards, and with the destination just behind the source repeats  *)
(* what lies between them.  Nothing else changes.                          *)
Arrives(m, from, to, size) ==
  [a \in Address |->
     IF a \notin to..(to + Magnitude(size) - 1) THEN m[a]
     ELSE IF size < 0 /\ to > from
     THEN m[from + ((a - to) % (to - from))]
     ELSE m[from + (a - to)]]

CopiesWhole ==
  [][\A from \in Address, to \in Address, size \in Size :
       z_copy_table(from, to, size) => memory' = Arrives(memory, from, to, size)]_vars

(* A scan gives the first entry that is the target, the last of the table  *)
(* included and nothing behind it, and 0 if there is none.                 *)
ScanFindsFirst ==
  \A target \in Byte \cup {LOW_WORD(memory, a) : a \in Initial..(Final - 1)} \cup {Initial + 1},
     words \in BOOLEAN, step \in 1..2, n \in 0..2 :
       LET at == {Initial + i * step : i \in
                    {i \in 0..(n - 1) : Entry(words, Initial + i * step) = target}}
       IN  z_scan_table(target, Initial, n, words, step) = IF at = {} THEN 0 ELSE Min(at)
=============================================================================
