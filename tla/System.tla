------------------------------- MODULE System -------------------------------
(***************************************************************************)
(* What the system below the interpreter computes without keeping a state: *)
(* the strings of its C library, string.c and kprintf.c; the way into the  *)
(* kernel, int_stage0.asm; and, on the machine that builds it, iso2zip.c,  *)
(* which makes the image that it starts from an archive.                   *)
(***************************************************************************)
EXTENDS Integers, Sequences, FiniteSets, SequencesExt, FiniteSetsExt

CONSTANTS
  WORD,                 \* 2^32
  SECTOR,               \* 2048
  BESIDE, ENTRY, END    \* bytes of the headers without the name: 30, 46, 22

(***************************************************************************)
(* string.c, in a memory of bytes, a function on addresses: a string ends  *)
(* at the first zero byte.                                                 *)
(***************************************************************************)

(* The bytes are copied one at a time, in the order given.                 *)
Copied(memory, dest, src, order) ==
  FoldLeft(LAMBDA m, i : [m EXCEPT ![dest + i] = m[src + i]], memory, order)
Upwards(n) == [i \in 1..n |-> i - 1]

memcpy(memory, dest, src, n) == Copied(memory, dest, src, Upwards(n))
memmove(memory, dest, src, n) ==
  Copied(memory, dest, src, IF src < dest THEN Reverse(Upwards(n)) ELSE Upwards(n))
memset(memory, s, c, n) == [a \in DOMAIN memory |-> IF a \in s..(s + n - 1) THEN c ELSE memory[a]]

strlen(memory, s) ==
  CHOOSE n \in 0..(Len(memory) - s) : memory[s + n] = 0 /\ \A i \in 0..(n - 1) : memory[s + i] # 0
strchr(memory, s, c) ==
  LET at == {a \in s..(s + strlen(memory, s)) : memory[a] = c}
  IN  IF at = {} THEN 0 ELSE CHOOSE a \in at : \A b \in at : a <= b

strcpy(memory, dest, src) == memcpy(memory, dest, src, strlen(memory, src) + 1)
strcat(memory, dest, src) == strcpy(memory, dest + strlen(memory, dest), src)
(* Never more than n bytes, and all of them: zeroes after the string, no   *)
(* zero at all if it is longer.                                            *)
strncpy(memory, dest, src, n) ==
  LET length == strlen(memory, src)
  IN  IF n <= length THEN memcpy(memory, dest, src, n)
      ELSE memset(strcpy(memory, dest, src), dest + length + 1, 0, n - length - 1)

(* The first difference tells, within n bytes, and for strings up to the   *)
(* end.                                                                    *)
Differ(memory, a, b, n) == {i \in 0..(n - 1) : memory[a + i] # memory[b + i]}
Compared(memory, a, b, n) ==
  LET differ == Differ(memory, a, b, n)
      at == CHOOSE i \in differ : \A j \in differ : i <= j
  IN  IF differ = {} THEN 0 ELSE IF memory[a + at] < memory[b + at] THEN -1 ELSE 1
memcmp(memory, a, b, n) == Compared(memory, a, b, n)
strncmp(memory, a, b, n) ==
  LET ends == {i \in 0..(n - 1) : memory[a + i] = 0}
  IN  Compared(memory, a, b,
        IF ends = {} THEN n ELSE 1 + CHOOSE i \in ends : \A j \in ends : i <= j)
-----------------------------------------------------------------------------
(* Areas that overlap are moved whole, in both directions, and nothing     *)
(* else changes.                                                           *)
Moved(memory, dest, src, n) ==
  LET after == memmove(memory, dest, src, n)
  IN  after = [a \in DOMAIN memory |->
                 IF a \in dest..(dest + n - 1) THEN memory[src + a - dest] ELSE memory[a]]

(* Two strings, with something else behind their ends, and their copies:   *)
(* what follows an end plays no part, and a bounded copy compares equal    *)
(* within its bound and leaves what is beyond it.                          *)
Below(a, b) == \E i \in 1..(Len(a) + 1) :
  /\ i <= Len(b) /\ SubSeq(a, 1, i - 1) = SubSeq(b, 1, i - 1)
  /\ i = Len(a) + 1 \/ (i <= Len(a) /\ a[i] < b[i])
StringsKept(a, b, n) ==
  LET first == 1
      second == first + Len(a) + 3
      free  == second + Len(b) + 3
      memory == a \o <<0, 7, 7>> \o b \o <<0, 9, 9>> \o [i \in 1..12 |-> 5]
      Cut(s) == SubSeq(s, 1, IF n < Len(s) THEN n ELSE Len(s))
      copy  == strncpy(memory, free, first, n)
      both  == strcat(strcpy(memory, free, first), free, second)
  IN  /\ strncmp(memory, first, second, n)
           = (IF Below(Cut(a), Cut(b)) THEN -1 ELSE IF Below(Cut(b), Cut(a)) THEN 1 ELSE 0)
      /\ strncmp(copy, free, first, n) = 0
      /\ \A i \in DOMAIN memory : i \notin free..(free + n - 1) => copy[i] = memory[i]
      /\ n > Len(a) => strlen(copy, free) = Len(a)
      /\ strlen(both, free) = Len(a) + Len(b)
      /\ SubSeq(both, free, free + Len(a) + Len(b) - 1) = a \o b
      /\ \A c \in {0, 7, 97} : LET at == strchr(memory, first, c)
                               IN  IF Contains(Append(a, 0), c)
                                   THEN memory[at] = c /\ ~Contains(SubSeq(memory, 1, at - 1), c)
                                   ELSE at = 0
-----------------------------------------------------------------------------
(***************************************************************************)
(* vsnprintf of kprintf.c.  A format is a sequence of pieces: text that is *)
(* echoed, and conversions, with what follows the per cent sign in its     *)
(* order: a minus, a zero, a width, letters for the size, which change     *)
(* nothing on this machine, and the type.  Characters are their codes; an  *)
(* int or a long has the value it has in a word of WORD values.            *)
(***************************************************************************)
Code(digit, capital) ==
  IF digit < 10 THEN 48 + digit ELSE (IF capital THEN 55 ELSE 87) + digit
SPACE == 32
ZERO == 48
MINUS == 45

(* At least one digit, the last one first found.                           *)
Digits(num, radix, capital) ==
  LET digits[n \in 0..(WORD - 1)] ==
        (IF n < radix THEN <<>> ELSE digits[n \div radix]) \o <<Code(n % radix, capital)>>
  IN  digits[num]

Signs == {"d", "i"}
Radix(type) ==
  CASE type \in {"x", "X", "p"} -> 16 [] type \in {"d", "i", "u"} -> 10 [] type = "o" -> 8

(* The sign of a negative number is taken off: the most negative one is    *)
(* its own opposite, and is printed without a sign as it should be.        *)
Negative(c) == c.type \in Signs /\ 2 * c.arg >= WORD
NumberOf(c) == IF Negative(c) THEN WORD - c.arg ELSE c.arg

(* What is padded: characters, a string, or the digits of a number.  Only  *)
(* a number is padded with zeroes, between its sign and its digits.  What  *)
(* is put ends at a zero: the character 0 is not put, though it counts as  *)
(* one in the width.                                                       *)
Body(c) ==
  IF c.type = "c" THEN (IF c.arg = 0 THEN <<>> ELSE <<c.arg>>) ELSE IF c.type = "s" THEN c.arg
  ELSE Digits(NumberOf(c), Radix(c.type), c.type = "X")
Sign(c) == IF c.type \notin {"c", "s"} /\ Negative(c) THEN <<MINUS>> ELSE <<>>
Zeroes(c) == c.zero /\ c.type \notin {"c", "s"}

Taken(c) == IF c.type = "c" THEN 1 ELSE Len(Sign(c)) + Len(Body(c))
Pad(c, char) == [i \in 1..(IF c.width > Taken(c) THEN c.width - Taken(c) ELSE 0) |-> char]

Converted(c) ==
  LET front == IF c.left THEN <<>> ELSE Pad(c, IF Zeroes(c) THEN ZERO ELSE SPACE)
      back  == IF c.left THEN Pad(c, SPACE) ELSE <<>>
  IN  (IF Zeroes(c) THEN Sign(c) \o front ELSE front \o Sign(c)) \o Body(c) \o back

(* Each PUTCHAR may be the last one that there is room for.                *)
vsnprintf(maxsz, pieces) ==
  LET all == FlattenSeq([i \in DOMAIN pieces |->
               IF pieces[i].type = "text" THEN pieces[i].arg ELSE Converted(pieces[i])])
  IN  SubSeq(all, 1, IF Len(all) < maxsz THEN Len(all) ELSE maxsz)

(* The line to a terminal gets what fits into the buffer of kprintf, up to *)
(* the first zero: the one that kprintf puts behind it.                    *)
serial_write(s) == SubSeq(s, 1, SelectInSeq(Append(s, 0), LAMBDA char : char = 0) - 1)
kprintf(room, pieces) == serial_write(Append(vsnprintf(room, pieces), 0))
-----------------------------------------------------------------------------
(* A number that was formatted can be read back, with its sign, whatever   *)
(* the width, the side and the filling; the field is as wide as was asked, *)
(* unless the number is wider; and the text around it is where it was.  No *)
(* conversion cuts the line short: %c of 0 leaves the blanks of its field, *)
(* one less than its width, and the text behind it is printed.             *)
Value(char) == IF char <= 57 THEN char - 48 ELSE IF char <= 70 THEN char - 55 ELSE char - 87
ReadBack(text, radix) ==
  LET shown == SelectSeq(text, LAMBDA char : char \notin {SPACE, MINUS})
      size == FoldLeft(LAMBDA n, char : radix * n + Value(char), 0, shown)
  IN  IF Contains(text, MINUS) THEN WORD - size ELSE size

FormattedNumber(c) ==
  LET text == Converted(c)
      blanks == {i \in DOMAIN text : text[i] = SPACE}
  IN  /\ ReadBack(text, Radix(c.type)) = c.arg
      /\ Contains(text, MINUS) <=> Negative(c)
      /\ Len(text) = IF c.width > Taken(c) THEN c.width ELSE Len(Sign(c)) + Len(Body(c))
      /\ c.width > Len(Body(c)) + 1 => Len(text) = c.width
      /\ \A i, j \in DOMAIN text : i < j /\ (IF c.left THEN i \in blanks ELSE j \in blanks)
           => i \in blanks /\ j \in blanks
Formatted(c, maxsz) ==
  LET text == [type |-> "text", arg |-> <<33>>]
      none == [c EXCEPT !.type = "c", !.arg = 0]
      blanks == [i \in 1..(IF c.width > 0 THEN c.width - 1 ELSE 0) |-> SPACE]
      more == <<33>> \o Converted(c) \o blanks \o <<33>>
      out  == vsnprintf(maxsz, <<text, c, text>>)
      all  == <<33>> \o Converted(c) \o <<33>>
  IN  /\ FormattedNumber(c)
      /\ Len(out) <= maxsz /\ IsPrefix(out, all)
      /\ out # all => Len(out) = maxsz
      /\ kprintf(maxsz, <<text, c, text>>) = out
      /\ maxsz >= Len(more) => kprintf(maxsz, <<text, c, none, text>>) = more
-----------------------------------------------------------------------------
(***************************************************************************)
(* The way into the kernel: create_idt makes for each vector a gate and    *)
(* one of the stubs of int_stage0.asm, which makes the frame that the      *)
(* handlers in C expect and leaves it again; an interrupt of a device is   *)
(* acknowledged at one or both of the controllers.                         *)
(*                                                                         *)
(* A processor is its general registers and its stack, the top first.      *)
(* Gates are interrupt gates: no stub is interrupted by a device.          *)
(***************************************************************************)

Exceptions == 0..31
Irqs == 32..47

push(cpu, value) == [cpu EXCEPT !.stack = <<value>> \o @]
pop_eax(cpu) == [cpu EXCEPT !.regs.eax = Head(cpu.stack), !.stack = Tail(@)]
xchg_eax(cpu) ==
  [cpu EXCEPT !.regs.eax = Head(cpu.stack), !.stack = <<cpu.regs.eax>> \o Tail(@)]

Order == <<"edi", "esi", "ebp", "esp", "ebx", "edx", "ecx", "eax">>
pushad(cpu) == [cpu EXCEPT !.stack = [i \in 1..8 |-> cpu.regs[Order[i]]] \o @]
(* The stack pointer is not taken from the stack.                          *)
popad(cpu) ==
  [regs |-> [r \in DOMAIN cpu.regs |->
               IF r = "esp" THEN cpu.regs[r] ELSE cpu.stack[CHOOSE i \in 1..8 : Order[i] = r]],
   stack |-> SubSeq(cpu.stack, 9, Len(cpu.stack))]
iret(cpu) == [cpu EXCEPT !.stack = SubSeq(@, 4, Len(@))]

(* The processor pushes where it was, and for some exceptions a code.      *)
HasCode == {8, 10, 11, 12, 13, 14, 17}
Entered(cpu, vector) ==
  LET frame == push(push(push(cpu, "eflags"), "cs"), "eip")
  IN  IF vector \in HasCode THEN push(frame, "code") ELSE frame
-----------------------------------------------------------------------------
(* create_idt: the stub of a vector, and the number that is written into   *)
(* it.                                                                     *)
WithoutPageFault == {8, 10, 11, 12, 13, 17}                          \* faulty
WithCode == {8, 10, 11, 12, 13, 14, 17}
Stub(vector) ==
  IF vector \in WithCode THEN "excerr" ELSE IF vector \in Exceptions THEN "exc"
  ELSE IF vector \in Irqs THEN "irq" ELSE "none"
Number(vector) == IF vector \in Irqs THEN vector - 32 ELSE vector

(* Where the stub is, and the gate that should lead to it.  The gate adds  *)
(* the address to a word that has the selector in its upper half, so only  *)
(* the lower half of an address may be in use.  A word is its two halves.  *)
IDT_BASE == 4096
NUM_INTERRUPTS == 64
MAX_S0_LEN == 32
KERNEL_CS == 8
handler_addr(vector) ==
  [high |-> 0, low |-> IDT_BASE + 8 * NUM_INTERRUPTS + MAX_S0_LEN * vector]
set_idt_entry(addr) == [selector |-> (KERNEL_CS + addr.high) % 65536, offset |-> addr.low]

(* asm_halt is declared as a word and not as code: what goes into the gate *)
(* of a double fault is the word at asm_halt, the bytes f4, eb fd of its   *)
(* instructions and the 87 of the next one.                                *)
asm_halt == [high |-> 34813, low |-> 60404]
Gate(vector) == set_idt_entry(IF vector = 8 THEN asm_halt ELSE handler_addr(vector))

(* The processor goes through a gate into a segment of code, of which      *)
(* there is one.                                                           *)
LeadsToStub(vector) ==
  Gate(vector).selector = KERNEL_CS /\ Gate(vector).offset = handler_addr(vector).low

Numbered(cpu, vector) == push([cpu EXCEPT !.regs.eax = Number(vector)], Number(vector))
excerr_stage0(cpu, vector) ==
  LET saved == pushad(xchg_eax(cpu))
  IN  push(Numbered(push(saved, saved.regs.eax), vector), "exception_end")
exc_stage0(cpu, vector) ==
  LET saved == pushad(push(cpu, cpu.regs.eax))
  IN  push(Numbered(push(saved, saved.regs.eax), vector), "exception_end")
irq_stage0(cpu, vector) == push(Numbered(pushad(cpu), vector), "irq_end")

Called(cpu, vector) ==
  LET entered == Entered(cpu, vector)
  IN  CASE Stub(vector) = "excerr" -> excerr_stage0(entered, vector)
        [] Stub(vector) = "exc" -> exc_stage0(entered, vector)
        [] Stub(vector) = "irq" -> irq_stage0(entered, vector)

(* The handler returns, having used the registers that it may use.         *)
Returned(cpu) == [regs |-> [cpu.regs EXCEPT !.eax = "?", !.ecx = "?", !.edx = "?"],
                  stack |-> Tail(cpu.stack)]
exception_end(cpu) == iret(pop_eax(popad(pop_eax(pop_eax(cpu)))))
irq_end(cpu) == iret(popad(pop_eax(cpu)))

(* What the parameters of exception_handler name, above the return address.*)
exception_handler == <<"exc", "errcode", "edi", "esi", "ebp", "esp", "ebx", "edx", "ecx",
                       "new_eax", "eax", "eip", "cs", "eflags">>
Parameter(cpu, name) == cpu.stack[1 + CHOOSE i \in DOMAIN exception_handler :
                                            exception_handler[i] = name]
(* A page fault is handled, everything else ends the program.              *)
Handled(exc) == exc = 14
irq_handler(irq) == CASE irq = 0 -> "isr_timer" [] irq = 1 -> "isr_keyboard" [] OTHER -> "none"
-----------------------------------------------------------------------------
(* The controllers, each with the requests it has given to the processor   *)
(* and not yet seen the end of; the second one is request 2 of the first.  *)
(* Vectors are as setup_pic numbers them.                                  *)
Vector(request, of) == IF of = "master" THEN 32 + request ELSE 40 + request
Given(pic, vector) ==
  IF vector < 40 THEN [pic EXCEPT !.master = @ \cup {vector - 32}]
  ELSE [master |-> pic.master \cup {2}, slave |-> pic.slave \cup {vector - 40}]
(* An end without a number is for the one of the highest priority.         *)
Ended(requests) == requests \ {r \in requests : \A other \in requests : r <= other}

FromSlave(irq) == irq >= 8
Acknowledge(pic, irq) ==
  [master |-> Ended(pic.master),
   slave |-> IF FromSlave(irq) THEN Ended(pic.slave) ELSE pic.slave]
-----------------------------------------------------------------------------
Registers == {"eax", "ecx", "edx", "ebx", "esp", "ebp", "esi", "edi"}
Running == [regs |-> [r \in Registers |-> r], stack |-> <<"below">>]

(* An exception: its gate leads to its stub, but for a double fault, whose *)
(* gate leads to no code at all; and there the handler's parameters are    *)
(* what their names say, with the code that the processor gave, and the    *)
(* program goes on with the registers and the stack that it had.           *)
ExceptionKept(vector) ==
  LET called == Called(Running, vector)
  IN  /\ LeadsToStub(vector) <=> vector # 8
      /\ LeadsToStub(vector) =>
        /\ Parameter(called, "exc") = vector
        /\ vector \in HasCode => Parameter(called, "errcode") = "code"
        /\ \A name \in (Registers \ {"esp"}) \cup {"eip", "cs", "eflags"} :
             Parameter(called, name) = name
        /\ Handled(vector) => exception_end(Returned(called)) = Running

(* A request of a device: it comes to the handler with its number, both    *)
(* controllers can give the next one, of whatever priority, and the        *)
(* program goes on.                                                        *)
RequestKept(request, of) ==
  LET vector == Vector(request, of)
      called == Called(Running, vector)
      none   == [master |-> {}, slave |-> {}]
  IN  /\ LeadsToStub(vector)
      /\ called.stack[2] = (IF of = "master" THEN request ELSE 8 + request)
      /\ irq_end(Returned(called)) = Running
      /\ Acknowledge(Given(none, vector), called.stack[2]) = none
-----------------------------------------------------------------------------
(***************************************************************************)
(* tools/iso2zip.c, which makes of an image of the game disk one that is a *)
(* zip archive too.  The headers of the archive go where no file is: that  *)
(* of a file into what the file before it leaves of its last sector, the   *)
(* directory of the archive behind the image.                              *)
(*                                                                         *)
(* A checksum is what it is the sum of.  Sectors are never inserted, that  *)
(* code is compiled out, and so nothing is moved.                          *)
(***************************************************************************)

IzoAssumption == {SECTOR, BESIDE, ENTRY, END} \subseteq Nat \ {0} /\ BESIDE < SECTOR

(* A record of the root directory has a name of id_len bytes, "." for the  *)
(* directory itself, and says where the data is.  Bytes of the image are   *)
(* known by what they belong to.                                           *)
NoEntry == [name |-> "", id_len |-> 0, data_sector |-> 0, data_len |-> 0]
Free == <<"", 0>>
Start(entry) == entry.data_sector * SECTOR
Data(entry) == Start(entry)..(Start(entry) + entry.data_len - 1)
Image(dir) ==
  LET size == SECTOR * Max({e.data_sector + e.data_len \div SECTOR + 1 : e \in Range(dir)})
      Owner(at) == {e \in Range(dir) : at \in Data(e)}
  IN  [at \in 0..(size - 1) |->
        IF Owner(at) = {} THEN Free
        ELSE LET e == CHOOSE e \in Owner(at) : TRUE IN <<e.name, at - Start(e)>>]
-----------------------------------------------------------------------------
find_file_at_sector(dir, sector_num) ==
  LET end(e) == e.data_sector + e.data_len \div SECTOR
                  - (IF e.data_len % SECTOR = 0 THEN 1 ELSE 0)
      there == {i \in DOMAIN dir : sector_num \in dir[i].data_sector..end(dir[i])}
  IN  IF there = {} THEN NoEntry ELSE dir[Min(there)]

leftover(prev) == (SECTOR - (prev.data_len % SECTOR)) % SECTOR

(* Both headers of a file, which differ in what only the directory knows.  *)
create_zip_hdrs(entry, crc32) ==
  [name |-> entry.name, filename_len |-> entry.id_len, size |-> entry.data_len,
   crc32 |-> crc32]
Written(image, entry, header) ==
  LET from == Start(entry) - BESIDE - entry.id_len
  IN  [at \in DOMAIN image |->
        IF at \in from..(Start(entry) - 1) THEN <<"header", header, at - from>> ELSE image[at]]

(* A header that finds no room stays in its place of the directory, where  *)
(* the next file's replaces it.                                            *)
Included(dir, z, entry) ==
  LET prev   == find_file_at_sector(dir, entry.data_sector - 1)
      header == create_zip_hdrs(entry, [at \in Data(entry) |-> z.image[at]])
      ofs    == Start(entry) - BESIDE - entry.id_len
      Entries(offset) == Append(SubSeq(z.cdir_entries, 1, z.num_files),
                                [header |-> header, local_header_ofs |-> offset])
  IN  IF entry.name = "." \/ prev = NoEntry THEN z
      ELSE IF leftover(prev) < BESIDE + entry.id_len THEN [z EXCEPT !.cdir_entries = Entries(0)]
      ELSE [image |-> Written(z.image, entry, header), cdir_entries |-> Entries(ofs),
            num_files |-> z.num_files + 1]

(* The directory of the archive, its end record, and zeros up to the end   *)
(* of the sector; an assertion wants them to be one sector.                *)
main(dir) ==
  LET start == [image |-> Image(dir), cdir_entries |-> <<>>, num_files |-> 0]
      z == FoldLeft(LAMBDA y, entry : Included(dir, y, entry), start, dir)
      Longer(len, e) == len + ENTRY + e.header.filename_len
      cdir_len == FoldLeft(Longer, 0, z.cdir_entries)
      padding == SECTOR - ((cdir_len + END) % SECTOR)
  IN  [image |-> z.image, cdir_entries |-> z.cdir_entries,
       central_dir_start |-> Cardinality(DOMAIN z.image), central_dir_bytes |-> cdir_len,
       padding |-> padding, aborted |-> cdir_len + END + padding # SECTOR]
-----------------------------------------------------------------------------
(* A file has room when another one ends in the sector before it, and      *)
(* leaves enough of that sector.                                           *)
HasRoom(dir, entry) ==
  \E f \in Range(dir) :
    LET end == Start(f) + f.data_len
    IN  /\ f.data_len > 0 /\ end > Start(entry) - SECTOR
        /\ end + BESIDE + entry.id_len <= Start(entry)

(* The image is still the game disk: no byte of a file is another.  And it *)
(* is an archive of the files that have room: each entry of the directory  *)
(* leads to a header that agrees with it, with the file's data behind it.  *)
(* A last file without room is left over as an entry that leads nowhere.   *)
Zipped(dir) ==
  LET z == main(dir)
      Leads(e) == e.local_header_ofs # 0
      Name(e) == e.header.name
      names == {Name(e) : e \in {c \in Range(z.cdir_entries) : Leads(c)}}
      Whole(e) ==
        \E f \in Range(dir) :
          /\ f.name = Name(e) /\ e.header.size = f.data_len
          /\ e.local_header_ofs + BESIDE + e.header.filename_len = Start(f)
          /\ e.header.crc32 = [at \in Data(f) |-> z.image[at]]
          /\ \A at \in e.local_header_ofs..(Start(f) - 1) :
               z.image[at] = <<"header", e.header, at - e.local_header_ofs>>
  IN  /\ \A f \in Range(dir) : \A at \in Data(f) : z.image[at] = Image(dir)[at]
      /\ names = {f.name : f \in {g \in Range(dir) : g.name # "." /\ HasRoom(dir, g)}}
      /\ \A i \in DOMAIN z.cdir_entries :
           Whole(z.cdir_entries[i]) \/ (i = Len(z.cdir_entries) /\ ~Leads(z.cdir_entries[i]))
      /\ ~z.aborted => (z.central_dir_start + z.central_dir_bytes + END + z.padding) % SECTOR = 0

(* The discs asked about: the directory in a sector of its own, the files  *)
(* one after another behind it in some order, no two in one place.         *)
Disc(files, order, lengths, first) ==
  LET sectors(i) == (lengths[i] + SECTOR - 1) \div SECTOR
      before(i) == {j \in DOMAIN files : order[j] < order[i]}
      place(i) == FoldLeft(LAMBDA n, j : n + (IF j \in before(i) THEN sectors(j) ELSE 0),
                           first, [j \in DOMAIN files |-> j])
  IN  <<[name |-> ".", id_len |-> 1, data_sector |-> 1, data_len |-> SECTOR]>> \o
      [i \in DOMAIN files |->
        [name |-> files[i].name, id_len |-> files[i].id_len, data_sector |-> place(i),
         data_len |-> lengths[i]]]
=============================================================================
