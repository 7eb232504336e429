# Verification of frotzos

frotzos is a computer that does one thing: it boots from a CD or a disk and
runs one interactive-fiction game.  A boot loader starts a small 32-bit kernel
(`kmain.c`, `kvirtmem.c`, `interrupts.c`, `dev/`), on which the Frotz
Z-machine interpreter (`frotz/src/common`) runs through a thin port
(`frotz/src/frotzos`) and a small C library (`stdio.c`, `string.c`,
`malloc.c`).  There is one processor, one address space and one thread;
what is concurrent are interrupts, page faults, and the routines of the game
that the interpreter calls in the middle of an opcode.

This directory holds TLA+ models of its parts, configurations for TLC, and
proofs for TLAPS.  `PROJECT.json` lists for every definition the lines of code
it stands for, for every property a mutated definition that breaks it, and the
hazards of the code.

## 1. Inventory

| part (under `src/`) | state | operations | what is hard, and what makes it correct | modules |
|---|---|---|---|---|
| Call stack, interpreter loop: `process.c`, `variable.c` | `stack`, `sp`, `fp`, `frame_count`, `pc`, `zargs`, `finished`; globals, user stacks | `call`, `ret`, `direct_call`, `interpret`, `z_catch`, `z_throw`, `z_push`... | frame headers are ordinary words between data; `interpret` is re-entered. A callee never reaches its callers' frames; a direct call leaves no trace. | ZStack, Variables |
| Undo: `fastmem.c`, `hotkey.c` | list of blocks, `prev_zmp`, `undo_count` | `save_undo`, `restore_undo`, `free_undo`, `reset_memory` | list cut at both ends, differences relative to a moving copy, malloc failing half way. The n-th undo gives the n-th last snapshot. | Undo |
| Output: `buffer.c`, `stream.c`, `redirect.c` | `buffer`, `bufpos`, `locked`, stream flags, `redirect[]`, `depth` | `print_char`, `flush_buffer`, `new_line`, `z_output_stream` | a newline during a flush may call a routine. Text goes where the streams say, in order, once. | Output |
| Windows: `screen.c`; display: `fzos_display.c` | eight windows, `nl_countdown`, `input_redraw`; one hardware cursor, colour, style | opcodes for windows, `screen_*`, `countdown` | one display for eight windows; [more] in time; styles that wait in the buffer. | Screen, Windows |
| Input: `input.c`, `stream.c`, `fzos_input.c` | line buffer, cursor, what was read so far | `z_read`, `stream_read_input`, `os_read_line` | timeouts and hot keys interrupt a line; it must survive. | LineEditor, Commands |
| Transcript, record, replay: `files.c`; hot keys: `hotkey.c` | stream files, header bit, `script_width` | `script_*`, `record_*`, `replay_*`, `handle_hot_key` | a replay must give the game what it got; the bit lives in three places. | Transcript, Commands |
| Objects: `object.c` | parent, sibling and child of each object, property lists | `z_insert_obj`, `z_remove_obj`, `z_put_prop`... | three links per object that must stay a forest; sizes packed in bits. | Objects, Properties |
| Saved games: `quetzal.c`, `fastmem.c` | the file; all of the machine | `save_quetzal`, `restore_quetzal` | written and read piece by piece. A restore gives the saved state or leaves the present one. | SaveGame |
| Loading, verify, difference codec: `fastmem.c` | memory | `init_memory`, `z_verify`, `mem_diff`, `mem_undiff` | sizes that do not agree; run lengths in one or two bytes. | StoryMemory |
| Text, dictionary: `text.c` | none of its own | `decode_text`, `encode_text`, `tokenise_line` | shift states, abbreviations, words cut at the resolution. | Text |
| Arithmetic, tables, random numbers: `math.c`, `table.c`, `random.c` | memory; seed, counter | opcodes | 16-bit wrap; overlapping copies; a seed that starts a count. | Arithmetic, StoryMemory |
| Keyboard: `dev/kb.c` | ring queue, `depressed`, `extended` | `isr_keyboard`, `get_key` | the interrupt comes between any two steps of `get_key`. Keys arrive in order, with their shift state. | Keyboard |
| Demand paging: `kvirtmem.c`, `hdd.c` | page directory, page tables, `nextpage` | `page_fault`, `map_disk`, `get_phys_page` | page tables are themselves in pages; the handler faults. The program sees a flat memory. | VirtMem |
| Disk driver: `dev/ata.c` | registers of the drive | `init_ata`, `ata_read_lba28`, `atapi_packet` | polled; a drive may answer late, wrong or never. | Disk |
| Files: `stdio.c` over `iso9660.c` | `DiskFile` (position, length, buffer), `g_files` | `fopen`, `fread`, `fwrite`, `fseek`, `enumfiles` | positions at and beyond the end; a buffer that doubles. | Files |
| Heap: `malloc.c`, `sbrk.c` | chunks in place, bins, tries, `dv`, `top`; the break | `malloc`, `free`, `realloc`, `memalign`, `trim`... | every chunk knows its neighbours and is found by its size; `sbrk` halts at its end. | Heap, TreeBins |
| Strings and formats: `string.c`, `kprintf.c` | none | `memmove`, `strcmp`, `vsnprintf`... | overlaps, ends of buffers, signs and widths. | System |
| Interrupts: `interrupts.c`, `int_stage0.asm` | table of vectors, the frame on the stack | stubs, `irq_handler`, `exception_handler` | some exceptions push a code and some do not; acknowledging one or two controllers. | System |
| Image builder: `tools/iso2zip.c` | the image | `main` | headers of an archive put where no file is. | System |
| Sound, start-up, system calls, timer, boot, serial line | small | see section 6 | - | - |
| Other ports: `frotz/src/dos`, `curses`, `dumb` | - | not compiled | - | - |

How they interact.  The interpreter loop (ZStack) calls every other part of
Frotz from an opcode.  Input, output and sound call back into the loop through
`direct_call`.  Undo and saved games read and write the whole stack and all of
dynamic memory.  The line editor polls the keyboard queue, which the keyboard
interrupt fills.  Frotz's loads of the story file touch memory-mapped disk
pages, so that any of them may enter `page_fault`, which reads the disk by
polling; the heap's pages come from the same counter.

## 2. Modules

Detailed modules, with the abstract specification each implements where there
is one:

| detailed | abstract | run by |
|---|---|---|
| `ZStack` | `ZFrames`: a routine call is a frame of its own | `MCZStack` |
| `Variables` | `StoryValues`: separate variables and stacks | `MCZStack` |
| `Undo` | `UndoHistory`: a sequence of whole snapshots | `MCMemory` |
| `Heap`, `TreeBins` | `Allocator`: blocks that lie apart and keep their contents | `MCMemory` |
| `Files` | `StdFiles`: a sequence of bytes and a position | `MCMemory` |
| `System`: strings, entry of the kernel, image builder (no state) | what they mean, stated in the module | `MCMemory` |
| `Keyboard` | - | `MCDrivers` |
| `Disk` | - | `MCDrivers` |
| `VirtMem` | `FlatMemory`: one flat memory | `MCDrivers` |
| `Output` | `Streams`: each character goes to the selected streams or the innermost table, in order | itself |
| `Objects` | `ObjectForest`: ordered lists of children, sets of attributes | `MCStory` |
| `Properties`, the tables of `StoryMemory`, the random numbers of `Arithmetic` | - | `MCStory` |
| the rest of `Arithmetic` and `StoryMemory`, `Text` (no state) | what they mean, stated in the module | `MCStory` |
| `SaveGame` | `SavedGames`: a restore is all or nothing | `MCSaveGame` |
| `LineEditor` | `Line`: a text, a cursor, keys that change it | `MCTerminal` |
| `Commands`, `Transcript`, `Screen`, `Windows` | - | `MCTerminal` |

`ZStackProofs`, `UndoProofs`, `KeyboardProofs`, `DiskProofs`, `VirtMemProofs`,
`OutputProofs`, `ObjectsProofs` and `LineEditorProofs` hold the proofs.  An MC
module extends the module it says most about and instantiates the others, so
that the properties the theorems state are those the runs check.  One that runs several parts has a variable `part`:
one part takes steps and the others stay in one initial state, so that the
parts do not multiply.  The components do not share state
in the models.  Where one calls another, the callee's effect on the caller is
in the caller's module: `Output` suspends an opcode where ZStack would run a
routine, `Files` starts from the directory, `VirtMem` from the disk's pages.

What has no state is a set of operators.  The MC module chooses a question
from a finite set in one step and its invariant compares the answer with an
independent definition: a text that was encoded is decoded again, an exclusive
or is undone, a format is read back as a number, an image is read by the rules
of both of its formats.

### ZStack, Variables

The array `stack[]` with its two pointers is the sequence of the live words,
oldest first; `fp` counts the words at and above the frame pointer, so that
`fp[1]` is `stack[fp - 1]` and a local `*(fp - v)` is `stack[fp + v]`.  Words
below `sp` are never read.  A frame is, as in `call()`, two halves of the pc,
the caller's frame pointer as an array index, and a word packed from argument
count, local count and call type; then its locals and its evaluation stack.

Actions are the opcodes, abstracted to what they do to the stack (`Compute`,
`StoreResult`, `PopOperand`, `WriteVariable`, `Pull`, `CallRoutine`, `Return`,
`ReturnPopped`, `Catch`, `Throw`/`Unwind`/`EndThrow`, `Quit`, `Restart`), and
the re-entry of the loop: `BeginOpcode` is an opcode that may be interrupted,
`DirectCall` is `direct_call` up to the first opcode of its own loop, `Leave`
is `interpret` returning and `direct_call` popping the result, `FinishOpcode`
is the end of the interrupted opcode.  `mode` is the place in `interpret` or
`z_throw`; `calls` is what the C stack keeps for each pending `direct_call`.

The code does not stop at a full stack: the reports of `call()` are ignored in
this build, and `z_push` has none.  The model goes to `mode = "overrun"` where
the first word below the array would be written, and says nothing of what
follows.  It goes there too where `direct_call` pops a result that is not
there, which happens after a throw or a restart out of an interrupt.
`frames` is a history variable: no action reads it for the state.  The story
is assumed to be legal: no pop of an empty evaluation stack, no return from
the main routine.  `z_throw` to a frame below a direct call, `z_restart` and
`z_quit` inside an interrupt routine are switched by the constant `Abrupt`, as
the properties that hold differ.

`Variables` has the opcodes of `variable.c` within one routine, each an
action, with globals and the user stacks of version 6.  `z_push_stack`
branches on what is free after the push, so it does not branch when it takes
the last word; the model does the same.

### Undo

Memory is the set of the cells that are set, and a difference between two
memories is their symmetric difference, which is what an exclusive or is.
`StoryMemory` shows that the packing into bytes keeps it.  `save_undo` is modelled
loop by loop: `BeginSave`, `DropUndone` and `EndTrim`, `MakeDiff` (room is
made, `mem_diff` moves `prev_zmp`), `AllocFails`/`AllocAgain`, `Alloc`.
`Restore` is `restore_undo`; `Run` is everything else the game does.
`MallocFails` is TRUE for the code as written; in this kernel `sbrk` halts
before `malloc` could return NULL, so the loop is modelled as it would run
over any malloc.

### Heap, TreeBins, Files

`Heap` keeps the heads of chunks, the words in front of free ones, and the
links of free chunks.  A word that is not the head of a chunk holds anything
(`Junk`).  Small bins are sequences; large ones are modelled as their contents
in `Heap` and as tries in `TreeBins`, where insertion, removal and the searches
for the best fit are checked on every trie of four chunks.  The kernel
builds `malloc.c` without mmap, footers and locks and with one contiguous
segment; what `sbrk` cannot give halts the machine (`halted`).

`Files` follows `stdio.c`: `fgetc` returns one byte past the end before it
reports the end (the answer `BEYOND`), and `fread` behind the end computes a
negative number of bytes, which is fatal (`crashed`); `StdFiles` allows both
and nothing else.  `ungetc` compares a signed byte and so refuses those from 0x80
on, and `fwrite` returns items, not bytes.  A directory walk stops at the first record without a
length, which is also what fills up a sector: files in later sectors are not
found.

### System

`kprintf` sends a buffer of 256 bytes, and writes the terminator of a text that
fills it behind the buffer.  What a conversion puts ends at a zero, so that
`%c` of 0 prints nothing but counts as one character in its field.  A stub is run on a
processor that is registers and a stack; vectors 0x30 to 0x3f have a gate and
no handler.  A gate is a selector and an offset, as `set_idt_entry` adds them
up.  The gate of the double fault (vector 8) leads to no code: `asm_halt` is
declared as a word (`interrupts.c:91`), and the value of that word, the bytes
of the instructions, is put into the gate where the address should be (line
128), which even changes its selector.  The machine does not stop at `asm_halt`
then but is reset by the processor.  `ExceptionKept` says this of vector 8, and
that every other exception gets to its stub and keeps its frame.  `struct registers` of `x86.h` names the words in another order
than the stub pushes them, but only printing reads them.  The image builder leaves
out what `iso2zip` refuses by assertion: a directory of a sector or more.  The
last file without room gets an entry with offset 0, and empty files are left
out of the discs where two would share a sector.

### Keyboard

Each of `get_key`'s steps between two memory accesses is an action, and
`Interrupt` may come between any two.  The model is of the code as the
Makefile builds it (`-O2`): the compiler keeps both indices of the queue in
registers while `get_key` runs and writes `kqfront` back when it returns; the
variables are not volatile, and there is no call in between.  The build with
`DEBUG`, in which `kqfront` is incremented and reduced in two steps that the
handler can see, is not modelled.  The keys are a shift key, a letter, and the
two keys that share a code, one of which is sent with the prefix 0xe0.
`typed`, `returned`, `accepted`, `taken` and `dropped` are history variables.

### Disk

The driver polls: `StillBusy` counts the polls down, `TimedOut` ends them.
Devices are an environment: one that is busy may finish at any step
(`Finish`), with data, a request for data, or an error.  A device is assumed
to offer all the data of a command at once.  A device that answers IDENTIFY
after the driver gave it up keeps offering data nobody takes, and
`ata_select` polls for ever: `PollingEnds` excepts exactly this state, named
`LateAnswer`.

### VirtMem

Physical memory is a function from pages to functions from offsets to words,
and page tables are pages like all others.  The program's loads and stores are
`Begin` and `Execute`; what touches a page that is not present goes through
`TableFault` or `PageFault` (up to the point where the handler fills the page)
and `Fill`; the fill touches the page itself and may fault again, so `faults`
is the stack of activations.  `MapNext` is one turn of the loop of `map_disk`.
`Exhaust` is `get_phys_page` handing out a page beyond the memory; what
follows is undefined and not modelled.  `FillFails` is a sector that cannot be
read.  `Atapi` and `Junk` stand for a CD and for memory that is not zero at
power-on: with either changed `ImplementsFlat` fails (the last page of a CD is
not mapped; stale words of a page table map pages).  `map`, `map_phys` (which
multiplies by 4096 twice), `ksync` and what writes sectors have no callers.
The branch of `page_fault` for a write to a read-only page is never entered by
this kernel, which runs in ring 0 with CR0.WP clear.

### Output

A character is its number in the order of printing and a kind (letter, space,
hyphen); it is one unit wide, as in this port.  A line is what stands between
two breaks; where a newline replaces a space, the break keeps the space's
number.  The array `buffer` keeps the leavings of earlier words, as in the
code, and a word ends at the first zero.

An opcode begins (`PrintChar`, `NewLine`, `BeginSwitch`), flushes the buffer,
and does its own work at the place `"finish"`.  The flush is one step to a
table (`FlushToTable`), but several to the streams: `FlushToStreams` is
`flush_buffer`, `stream_word` and `screen_word` up to the newline that the word
may need, `Wrap` that newline, and `Deliver` the rest.  `Countdown` is the
newline interrupt: if it calls a routine, the opcode with its place is put on
`calls`, other opcodes run, and `Return` resumes it.  `Timeout` does the same
to an opcode that waits for a key.

Three things end in `Overrun`, after which nothing is said: a word that fills
the buffer, a word that lost its zero, and the use of a table that was refused
because of the nesting.  The code reports the first and the last of these but
goes on.  With `Reentrant` FALSE the newline routines neither print nor switch
streams; with TRUE they do, and what they print is lost or mixed with the word
that is being flushed (`ShownOnce` then fails).

### Screen, Windows

`Screen` has the cells of the text screen and windows 0, 1 and 7 up to version
5: splits, cursors, scrolling, `[more]`, lines typed, taken up again after a
timeout and replayed, messages, tables and the status line.  A cell of the
lower window knows whether the player had a pause since it was written; `lost`
records that one scrolled away before.  `Windows` has what the eight windows
keep and what the display is told in versions 5 and 6: every opcode for place,
size, margins, colours, style and attributes.  Here words wait in the buffer,
and `s.right` records whether each character came out where, and in the style
and colours in which, it was printed.

Left out: `z_put_wind_prop`, which can set any property to any number; the
questions about pictures (this port has none, so the sizes it answers are
uninitialised); the question for a file name, which is displayed past the
windows.  As the code has it, white, yellow and grey backgrounds set the blink
bit; a character that did not fit in the upper window is followed by one that
comes out in the next row (run ScreenClip; the other runs print no more than
fits); and a line that is continued after a timeout is drawn one column too
far left (`fzos_input.c:82`), a detail of the picture that LineEditor keeps and
no property is about.

### LineEditor, Commands, Transcript

`LineEditor` is `os_read_line` on an array of bytes with anything behind the
zero; the keys that need a character where there is none (transposing or
deleting at the ends) read or write beyond the text, and `Line` promises
nothing after them.  `Commands` records a session as the bytes of a file, with
hot keys and their questions, ends the recording anywhere, and plays the file
back to the same story.  A line that ended by a timeout, a hot key that is
recorded as another one, and a story that selects input stream 0 during the
replay are outside `Replayed`.  `Transcript` has the header bit in memory, in
`h_flags` and in the stream flag, lines of the file with their width, and the
input that is taken back when a line is replaced.  It assumes `Split` FALSE: no
line that is read goes over two lines of the file, where taking it back makes
`script_width` negative.

### SaveGame

`save_quetzal` writes a file of bytes in one step; `RestoreChunk` reads one
chunk, as `restore_quetzal` changes the machine while it reads.  Files of
other interpreters (plain memory, notes, chunks in another order or twice) and
spoiled files (cut off, a chunk missing, another story's) are variants.  A
stack that leaves no word free can be saved and is refused when restored; the
bounds stay below that.

### The data of a story

`Objects` and `Properties` work on the bytes of the two formats; the search in
`unlink_object` is a loop of steps.  An object may be put into what it holds,
which makes a ring that the abstract forest has too: lists of children, not
trees, are promised.  The tables of `StoryMemory` and the random numbers of
`Arithmetic`: each opcode an action.  The rest of both modules and `Text` are
operators.  Some results that
are as in the code and may surprise: `z_check_unicode` answers 3 for Latin-1
characters that ZSCII does not have; an empty line or a word wider than the
line ends `print_form` early; a header that gives a size smaller than the header itself makes memory that
small; a default name "foo" becomes "foo.AUX".

`z_save` and `z_restore` with operands are modelled as they are over this
port's `stdio.c`: what is saved goes with the `FILE` that `fclose` frees, though
the game is told of success (1, the number of items written, not of bytes), and a
restore finds only files of the game disk, under exactly their names.  `AuxiliaryRestored`
asks for that with disks that have no auxiliary file, the one first suggested,
or others.  `os_read_file_name` gives an uninitialised buffer to the editor,
which takes what is there for text to be edited: the name typed may be any.
`SaveGame` is about the bytes of a saved game and takes a file to be there
when it is restored.

## 3. Runs

| run | shows |
|---|---|
| `ZStack` | frames stay intact under all opcodes and interrupts with legal interrupt routines; a direct call is transparent; as many loops as direct frames; the array implements separate frames |
| `ZStackDeep` | the refinement holds for deeper stacks, also when an interrupt routine throws, restarts or quits out of itself; locals, globals and stacks implement separate values |
| `Memory` | heap, tries, files, undo; strings, stubs and disk images |
| `Drivers` | keys, disks and pages, with what must happen in the end |
| `Output` | whatever is switched between two characters, each reaches the right streams or table once and in order; words are not broken; a prompt is shown before a read waits |
| `Story` | objects implement a forest; puts and copies write only what they should; random numbers; arithmetic, text, dictionaries, story files compared with what they mean |
| `SaveGame` | a saved game is restored whole, from files of this and of other interpreters; other files leave the game alone or stop the interpreter |
| `Terminal` | the line editor, the file of commands, the transcript, the windows and their looks |
| `KeyboardOverlap` (violated) | a key pressed while an extended key is held may be lost |
| `NotFlushed` (violated) | what was written to a file and closed is gone |
| `SaveDamage` (violated) | a restore that answers "no damage" has changed parts of the game |
| `ScreenClip` (violated) | every second character too many of the upper window comes out in the row below |

The violated runs check one property each, which a comment of the repository
states; `PROJECT.json` quotes it under "findings".

### Bounds, and why they are enough

* `ZStack`: 10 words hold two frames of four header words and a local or a
  pushed word each, so that calls run into the end of the array; two nested
  direct calls; addresses 511 and 512, on both sides of the boundary where the
  halves of a saved pc change; one value for data, as data are told apart from
  header words by their place and compared with the history.  `ZStackDeep`: 16
  words and frames of the least size, so that four calls nest and a throw
  drops up to three of them.  `Variables`: words modulo 4, two locals, a
  global, a user stack of two; four opcodes fill and empty every stack.
* `Undo`: two slots and three blocks: the list is empty, has one block, is
  full, and a block can be reused after it was freed.  Every surgery of the
  list looks at one neighbour at most.  `Heap`: sizes on both sides of the
  boundary between small and large and one that overflows the segment; five
  calls, so that a chunk can have free neighbours on both sides and be taken
  again.  `TreeBins`: four chunks of six sizes: rings, both children, and a
  replacement from below.  `Files`: files of up to three bytes, items of up to
  three, buffers that double twice, six calls.
* `Keyboard`: a queue of 4, which holds 3 codes, so that it wraps and
  overflows with three key presses (up to 12 codes).  `SIZE` is 128 in the
  code and enters only as the modulus.  `Disk`: five machines with every kind
  of device and with none, two sectors per page, two polls before the driver
  gives up, two pages.  `VirtMem`: two words in a page, three directories, 7
  physical pages: one fixed table and kernel page, and five to hand out, so
  that a disk page crosses into a second table, the heap needs a table of its
  own, and the pages run out.
* `Output`: a buffer of four, lines of two units on the screen and in a
  formatted table, so that words wrap, exceed a line and fill the buffer; four
  characters and two other opcodes, enough to open a table and close or refuse
  another, to set a countdown and read a key, or to read in the routine of a
  read that timed out.
* `Story`: three objects at the ends of the range of a byte; property lists
  with one-byte and two-byte sizes and the lengths 1, 2, 8 and 64; a table of
  four bytes, on which copies overlap either way; numbers at the ends of the
  16-bit range; memories of 40000 bytes that differ in places that give each
  kind of run; words of up to three letters of all alphabets in six versions,
  and longer ones to be cut; story files around the end of the header and of a
  chunk.
* `SaveGame`: dynamic memory of 262 bytes, so that runs of 255, 256 and 257
  equal bytes happen; stacks of up to two frames beyond the main one.
* `Terminal`: lines of three characters; four records in a file of commands,
  with two questions by the story, an empty line or digits typed for a hot key
  and a line with a bracket and an accent for the story; a transcript four
  columns wide with three words; a screen of four rows and three columns and
  one of three by six, four opcodes each, enough to set a window, change it,
  print, and look.

### Fairness

* `Undo`: weak fairness of the steps of `save_undo`, which runs without
  waiting for anything.  None for `Run`, `BeginSave`, `Restore`: the game need
  never do anything.
* `Keyboard`: weak fairness of `Interrupt`, since interrupts are on whenever
  `get_key` runs, and of the reader, since `read_key` calls `get_key` in a loop
  until it has a key.  None for the typist.
* `Disk`: weak fairness of the driver, the processor in its polling loops.
  None for the devices, which may stay busy for ever.
* `VirtMem`: weak fairness of `Continue`, the processor going on with the
  instruction it executes.  None for beginning an instruction.
* `Objects`: weak fairness of `Search`, the loop inside one opcode.
* The other modules have no liveness property: a story file may loop.

`CHECK_DEADLOCK FALSE` is in every configuration, as each of these systems may
stop: the game ends or overruns its stack, no key is pressed any more (a
bound), the machine halts, a question was answered.

## 4. Proofs

TLC checks each property on the instance of a run; what is listed here TLAPS
proves for every value of the constants within the assumptions named.

### ZStackProofs

For every size of the array, every set of values and addresses, every bound on
calls and every choice of `Abrupt` that are within `StackAssumption`:

* `TypeCorrect`: `Spec => []TypeOK`.
* `FramesIntact`: `Spec => []FrameIntegrity`: in every state, following the
  links from `fp` visits exactly the calls in progress, and each header still
  holds what `call()` pushed.

Both follow from `Invariance`, `Spec => []IInv`, where `IInv` is their
conjunction.  Neither is inductive alone: `ret` computes the caller's `fp` and
`pc` from words of the stack, which are in range only because the headers are
intact, and headers stay intact only because every write lands at or above the
locals of the youngest frame, which needs the types.  `StackAssumption` gives
what the code relies on: the array is shorter than 2^16 (indices fit a word),
local and argument counts fit their four and eight bits.

The argument has four layers: how header words and pcs are packed and unpacked
(`HeaderRoundTrip`, `PcRoundTrip`); what a sequence keeps when words are
pushed, popped or overwritten (`BelowFacts`, `PopFacts`, `AppendFacts`,
`OverwriteFacts`); what this means for frames (`PushKeepsFrames`,
`DropKeepsFrames`, `HeaderKept`); and one lemma for each action, put together
in `StepOK`.  The conjuncts of the invariant are kept behind names (`StackOK`,
`ControlOK`) that a step opens only where it changes them.

With the hypothesis `Abrupt = {}`, that each interrupt routine ends by
returning (run ZStack; with a throw or a restart out of one the first property
is false, which ZStackDeep does not claim either):

* `LoopsMatchCalls`: `Spec => []LoopPerDirectCall`.
* `DirectCallsTransparent`: `Spec => DirectCallTransparent`.

Both look at a pending call only when it ends, so they say nothing a step
could use.  The invariant `LoopInv` adds what holds in between: each pending
call names its frame, the one above those that were there when it began, and
nothing below that frame's header has changed (`Awaits`); the frames so named
are exactly those of type 2, in the order of the calls (`Ascending`); and
while a loop is being left, the call on top has its result on the stack and no
frame any more (`Returned`).  What keeps it is `IInv`: all writes are above
the youngest header.

With no hypothesis beyond `StackAssumption` again:

* `FramesImplemented`: `Spec => ImplementsFrames`: the one array with `sp` and
  `fp` behaves as `ZFrames`, where every frame has words of its own.

The mapping of ZStack reads the frames off the array by a function that is
recursive along the links.  `Views(h, s)` cuts the array `s` into the same
frames without recursion, at the headers of a history `h` of calls, and
`FramesAreViews` shows the two equal where the headers are intact (`Holds`):
two functions with the recursion of `Down` agree, by well-founded induction on
the depth (`SameRecursion`), and the links meet the headers of the history
(`LinksFollow`).  A step then has to be followed on slices of a sequence only:
what a write at or above the youngest header leaves alone (`StepProtects`,
`ViewKept`), what `call` opens (`CallRefines`), and what `ret` leaves of the
caller's frame, with the result pushed, stored in a local or dropped
(`StoredView`, `DeliveredView`, `RetRefines`); for an interrupt routine the
result is delivered when its loop of `interpret()` is left (`LeaveRefines`).

`z_throw` needs more.  While it unwinds, ZStack's `frames` is already the
shorter list that will be left, yet the abstract frames are still there, and
become fewer when `ret` follows.  So the invariant `RInv` adds to `IInv` that
some history describes the array at every moment (`HasWitness`): normally
`frames` itself, during a throw the one it began with.  The last conjunct,
`FinishedOK`, says that loops left and returns counted in `finished` match,
without which a loop could be left that delivers nothing.

### UndoProofs

For any memory, any number of blocks and slots, and any answers of malloc:

* `ListStaysIntact`: `Spec => []ListIntact`.
* `UndoImplementsHistory`: `Spec => ImplementsHistory`: the n-th undo gives
  the n-th last snapshot, as `UndoHistory` has it.

No variable holds the list or the snapshots: blocks are chained by pointers in
two directions, and memories by differences.  `IInv` says that two sequences
exist (`Witness(c, s)`): `c`, the blocks from `first_undo` to `last_undo`, and
`s`, the snapshots that can still be brought back, of which the variables are
the encoding.  They have different lengths after an undo.  In the middle of
`save_undo` the encoding is looser, and `Phase` says how: while the end is
trimmed its last block still points to a freed one; once `mem_diff` has moved
`prev_zmp`, the latest memory is the one the difference in hand leads back to.
Every action turns the two sequences into two others (`StepWitness`): a list
loses its first block, its last, or gains one.  For the refinement, the
recursive function that rebuilds the n-th memory is shown to be `s`
(`SavedIsEncoded`), which makes each step one of `UndoHistory` or a stutter.

### KeyboardProofs

For every size of the queue, every number of keys and every interruption that
are within `KeyboardAssumption`:

* `CodesComeInOrder`: `Spec => []CodesInOrder`: what lies in the ring from the
  index the reader has reached is what was put there and not yet taken.
* `KeysComeInOrder`: `Spec => []KeysInOrder`, with the further hypothesis
  `~Overlap`: no other key is pressed while an extended one is held down.  Run
  KeyboardOverlap shows what happens otherwise.

Runs instantiate this module rather than extend it (MCDrivers states the two
properties as `InOrder`), so that the assumption is a hypothesis here.

The first is arithmetic of the ring.  The invariant `Ring` speaks of the
index the reader has reached, which while `get_key` runs is the copy in a
register: what lies from there to `kqback` is what is still to be taken, and
`kqfront`, with which `isr_keyboard` compares, lags behind and never runs ahead.
`NextPositions` and `Positions` say where a code at some distance from the
front is after the front or the back moved; `NotSame`, that the slot
`isr_keyboard` writes is not one between the two.

The second relates what `get_key` returned to keys it has not heard of yet,
because codes wait in the ring and on the wire.  `HasDecoding` says that a
sequence `d` of decoder states exists, one before each code that was sent and
one after the last (`Decodes`): each follows from the one before by what
`get_key` does with the code (`Decoded`), the state of `get_key` is the one at
the code it reads next (`Current`), and the last matches the keys that are down
and what was typed (`Matches`).  A press or a release lengthens `d`
(`SendOne`, `SendTwo`), a step of `get_key` moves along it (`DecodeDecodes`),
and an interrupt leaves it alone unless it drops a code.

### DiskProofs

For every machine, every size of disks and pages and every number of looks at
the status that are within `DiskAssumption` (a hypothesis, as for the keys):

* `PagesComeWhole`: `Spec => []PageRead`, which is the last part of `InOrder`.

`PageRead` speaks of the moment when a page is done; the invariant adds what
holds on the way there.  A command to read is given only when the search for
disks is over, so that `GameDisk` no longer changes; it is for the slot of
that disk, the sectors in `buffer` are the first of the page, and its `lba` is
the next one (`Reading`).  The device that is selected when data are taken is
the one of the command (`Commanded`): a device of the other slot may be busy
with a command that was given up, but `Issue` selects anew.  That the pages of
a disk have as many sectors as those of its device needs the types that were
found to be those of the machine (`TypeOK`), and that READ CAPACITY is sent to
packet devices only.  Steps that leave command and buffer alone are handled
together (`MovesOK`).

### VirtMemProofs

For every size of a page, of the directory, of memory and of the disk, and all
loads and stores, with up to three hypotheses that VirtMem names and that the
code takes for granted: `CleanMemory`, no word of free memory looks like an
entry at power-on (page tables are not cleared); `DiskFits`, the directory
reaches to the end of the disk; for the second theorem also `WholeDisk`,
`map_disk` maps every whole page (false for a CD, see section 3, and for a disk
of 4 GB).

* `PagesArePrivate`: `Spec => []PagesPrivate`.
* `PagingImplementsFlat`: `Spec => ImplementsFlat`.

The page tables lie in the memory they describe, so a store could change a
mapping.  All lemmas are about `Mapping(d, m, v)`, the entry of page `v` found
through directory `d` in memory `m`, and the invariant `IInv` says of the two
(`Paged`): each page handed out is one page table or mapped once, never both,
and the words of all others look like no entry.  So what is written to a mapped
page changes no mapping (`WriteData`), an entry changes one mapping
(`WriteEntry`), and a fresh table maps nothing (`NewTable`).  `BootMap` says
what is mapped before the program runs.  `Pending` says what nested faults may
be: two at most, at the same page; the outer one has found no page table, so it
clears the page too, and reads nothing from the disk.

For the refinement `View` is what the program will find at a page, with pending
faults counted in: table faults, page faults and fills keep it (`TableFaultStep`,
`PageFaultStep`, `FillStep`), a store changes one word of it (`StoreStep`), and
when boot is done it is the image of the disk (`BootSees`).

### OutputProofs

For every size of the buffer, the window and the tables, every nesting and all
opcodes:

* `Consistency`: `Spec => []Consistent`: at most one flush, the lock held
  exactly during it, text to memory exactly while a table is open.

The flush that holds the lock may be the opcode under way or any of the
suspended ones.  `OneFlush` says that it is one of them, and `Typed`, which
opcode can be at which place (`Fits`): only an opcode at its flush can begin
one, and that needs the lock.

With the hypothesis `~Reentrant`, which the run has too (newline routines that
print do break these promises, see section 2):

* `WordsWrapped`: `Spec => []Wrapped`.
* `KeysPrompted`: `Spec => []Prompted`.
* `WidthsReported`: `Spec => WidthReported`.
* `StreamsImplemented`: `Spec => ImplementsStreams`.

A newline routine comes in the middle of an opcode, so what is true of that
opcode must be said of it while it is suspended.  `Doing` is the opcode that
handles text: the one under way, or the one on top of `calls` if a newline
suspended it (`Barred`).  A routine so called changes nothing that `Doing` uses
(`BarredStep`), and it can neither print nor be interrupted itself (`Quiet`).
Of `Doing` the invariant `Inside` says when the buffer must be empty
(`Settled`), that the buffer holds one word (`WordHeld`), what `screen_word`
has prepared before the newline (`Prepared`), that `x` and `redirect[].width`
count the last line (`ScreenHeld`, `TablesFit`), that open tables are different
tables whose widths add up (`TablesApart`, `WidthsCounted`), and what was asked
of the player (`Asked`).  Below it are lemmas about texts and their lines
(`LineGrows`, `LineStarts`, `LineEnds`, `UnitsConcat`).

For the refinement, `Ids` maps a text to the numbers of the characters in it:
breaks and the characters they replaced have one number between them.  It is a
recursive function, and that it distributes over concatenation (`IdsConcat`) is
shown with a least counterexample (`LeastNumber`), which needs no induction
theorem.  To `Inside` come which streams the opcode that handles text was sent
to (`Selected`) and that every character in the buffer has a number
(`Numbered`).  A step that moves a word out of the buffer is a stutter, since
the word was counted as printed when it was put there (`TableFlushed`,
`WordDelivered`); one that buffers a character, or sends it or a newline
directly, is `PutChar` (`CharBuffered`, `DirectDelivered`, `LineEnded`,
`LineInTable`); and streams and tables are switched only while the buffer is
empty (`StreamSelected`, `TableBegins`, `TableEnds`).

### ObjectsProofs

For every set of objects and attributes in both formats that is within
`ObjectsAssumption`: numbers are those the format has room for, 255 objects and
32 attributes up to version 3, and 48 attributes later (objects up to 2000; the
bound itself matters only in that an address is computed without wrapping and
a link fits two bytes).

* `ObjectLists`: `Spec => []ListsComplete`.
* `ForestImplemented`: `Spec => ImplementsForest`.

`ListsComplete` speaks of memory between opcodes and is not inductive: an
insertion stops in the middle, with the object cut out and its neighbours still
pointing to it.  No variable holds the lists, so the invariant says that they
exist (`Present`).  Between opcodes (`Ready`) memory is a tree with lists `L`
(`Tree`): each list begins at the first child and goes from sibling to sibling
to its end (`Chained`), has no object twice (`Once`), and every object with a
parent is in that parent's list, every one without has no sibling
(`Everywhere`).  During a search (`Underway`) memory would be such a tree with
the parent and the sibling of the moving object written back, and
`younger_sibling` is an object before it in its list, which is why the loop
cannot run past it.

The proof has three layers.  `LinkSet`, `OthersKept`, `AttributeWritten`: the
bytes of a link or an attribute, and that writing one changes no other, in both
formats.  `Removing`, `Inserting`: on links as functions, cutting an object out
and putting it in front give trees again; they say nothing of ancestors, so an
object that is put into itself is no special case.  `FirstCut`, `SearchBegun`,
`SearchAhead`, `LaterCut`, `LinkedTree`: what the statements of `unlink_object`
and `z_insert_obj` do in that order.  `ChildrenAre` shows that the recursive
walk along the links gives `L`; that the list fits the walk, which is bounded
by the number of objects, is the pigeonhole fact `ListsFit`.  With it, a step
is one of `ObjectForest` when the move ends, and a stutter before
(`MoveRefines`), and an attribute changes one set (`AttributeRefines`).

### LineEditorProofs

For every size of the buffer, every text the game puts there, all characters
and columns that are within `LineEditorAssumption`:

* `EditorImplementsLine`: `Spec => ImplementsLine`.

The buffer is an array with bytes of earlier lines behind the zero.  All lemmas
are about `strlen(b)`, the first zero, and `TextOf(b)`, the text before it:
each operation on bytes, within the text, is the operation of `Line` on the
text (`TypedText`, `SwappedText`, `ErasedText`, `DroppedText`), and outside of
it leaves at least a buffer that ends (`TypedJunk`, ...).  The invariant says
that the buffer ends and the cursor is in it, and as long as the text is known
that it fits and the cursor is not beyond its end.  Typing at the end must
write a zero after the letter exactly because nothing is assumed of what lies
there.  The constants `Screen` and `Column` bound only what is drawn.

### Only model-checked

Everything under fairness (`SaveTerminates`, `KeysDelivered`, `PollingEnds`,
`AccessEnds`, `MoveEnds`), which the prover cannot reach.  What operators
without state compute: most are folds, and FoldLeft takes its operator as a
parameter, which the provers cannot instantiate in a proof by induction;
`Arithmetic` and `SaveGame` use bitwise operators, which are outside of what
they handle, and so is the recursive operator in `SaveGame`.  Heap, TreeBins, Files, Variables, Commands, Transcript,
Screen, Windows, Properties and the tables of StoryMemory have no theorems:
TLC checks their properties within the bounds above.

## 5. Plan

Proofs that would come next: `FlagTells` of Transcript, and that the values of
Variables are those of StoryValues.

To model: the end-of-sound routine, should a port have sound; the stack of
`g_psp` that system calls share.

## 6. Not modelled

* Sound: the `os_` calls are empty in this port, so that no sound ever ends.
* Start-up and options: straight-line set-up whose result is the Init of the
  modules; `getopt.c` is a vendored library that nothing here calls.
* System calls: the Forth interpreter they serve is not part of the
  repository.
* Timer: one counter, incremented by an interrupt and read by a single load.
* Boot, kernel start, serial line, text screen primitives: straight-line code
  and pure output.
* Assertions: one function that prints and halts; models end where it halts.
* Debugging messages and the reports of `err.c`, which are off in this build,
  and the functions without callers that the sections above name.
* The ports to DOS, curses and dumb terminals, and the test games: not
  compiled into frotzos.
