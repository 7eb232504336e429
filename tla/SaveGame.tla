------------------------------ MODULE SaveGame ------------------------------
(***************************************************************************)
(* Saved games: save_quetzal and restore_quetzal of quetzal.c, with        *)
(* z_save, z_restore and z_restart of fastmem.c around them.               *)
(*                                                                         *)
(* A file is a sequence of bytes; the names of chunks are numbers.  The    *)
(* file is written in one step, as nothing happens meanwhile, and restored *)
(* chunk by chunk, since restore_quetzal changes the machine as it goes.   *)
(* The stack is, as in ZStack, the sequence of the live words, oldest      *)
(* first, and fp counts the words at and above the frame pointer.          *)
(*                                                                         *)
(* Files of other interpreters and spoiled files are variants of the       *)
(* chunks that save_quetzal writes.  The port always has save_quetzal set, *)
(* so the older format that z_save and z_restore also know is left out.    *)
(***************************************************************************)
EXTENDS Integers, Sequences, FiniteSets, SequencesExt, Bitwise

CONSTANTS
  STACK_SIZE,
  Version,
  Machine(_),        \* states of the machine to start from, of a version
  Later(_),          \* a state the game may reach from any other
  Story,             \* release, serial, checksum and memory of the story file
  h_dynamic_size,    \* bytes of dynamic memory, from address 0
  HEADER,            \* addresses that restart_header sets
  Variant            \* what may become of a file

V6 == 6

VARIABLES
  h_version,
  game,              \* pc, stack, fp, frame_count, memory
  file,              \* bytes of the saved file, or <<>>
  at,                \* "play", "restore" or "fatal"
  pos, ifzslen,      \* the place in the file and the bytes left
  progress, fatal,   \* the chunks seen, and what errors return
  answer,            \* what the last opcode stored
  slot, before       \* history: what the file holds; the game before a restore

restoring == <<pos, ifzslen, progress, fatal>>
vars == <<h_version, game, file, at, restoring, answer, slot, before>>

NoGame == [pc |-> 0, stack |-> <<>>, fp |-> 0, frame_count |-> 0, memory |-> <<>>]
-----------------------------------------------------------------------------
(* Words of a file.                                                        *)
Word(w) == <<w \div 256, w % 256>>
Long(l) == Word(l \div 65536) \o Word(l % 65536)
WordAt(b, i) == 256 * b[i] + b[i + 1]
LongAt(b, i) == 65536 * WordAt(b, i) + WordAt(b, i + 2)

ID_FORM == 1
ID_IFZS == 2
ID_IFhd == 3
ID_UMem == 4
ID_CMem == 5
ID_Stks == 6
ID_ANNO == 7

NotPadded(b) == b                                                    \* faulty
Padded(b) == IF Len(b) % 2 = 1 THEN Append(b, 0) ELSE b
Chunk(id, body) == Long(id) \o Long(Len(body)) \o Padded(body)
(* A sequence in blocks: folds over them keep the recursion of TLC flat.   *)
Blocks(b) ==
  [k \in 1..((Len(b) + 15) \div 16) |->
     SubSeq(b, 16 * k - 15, IF 16 * k > Len(b) THEN Len(b) ELSE 16 * k)]
Concat(sequences) == FoldLeft(LAMBDA all, s : all \o s, <<>>, sequences)
Joined(sequences) ==
  LET blocks == Blocks(sequences)
  IN  Concat([k \in DOMAIN blocks |-> Concat(blocks[k])])
-----------------------------------------------------------------------------
(* save_quetzal.                                                           *)
HeaderChunk(g) ==
  Word(Story.release) \o Story.serial \o Word(Story.checksum)
    \o <<g.pc \div 65536>> \o Word(g.pc % 65536)

(* A run of j bytes that are those of the story file.                      *)
Runs(j) ==
  IF j = 0 THEN <<>>
  ELSE Joined([i \in 1..((j - 1) \div 256) |-> <<0, 255>>]) \o <<0, (j - 1) % 256>>

Changed(g) ==
  SelectSeq([i \in 1..h_dynamic_size |-> i - 1], LAMBDA a : g.memory[a] # Story.memory[a])

(* Each changed byte after the run before it; the last run is left out.    *)
MemoryChunk(g) ==
  LET addresses == Changed(g)
      previous(i) == IF i = 1 THEN -1 ELSE addresses[i - 1]
  IN  Joined([i \in 1..Len(addresses) |->
        LET a == addresses[i]
        IN  Append(Runs(a - previous(i) - 1), g.memory[a] ^^ Story.memory[a])])

(* The words of a frame: the pc in two parts, the caller's frame as an     *)
(* index of the array, and counts and call type; then locals and values.   *)
Link(f) == STACK_SIZE - f - 1
Caller(s, f) == STACK_SIZE - s[f - 1] - 1
FramePc(s, f) == 512 * s[f - 3] + s[f - 2]
Nvars(s, f) == (s[f] \div 256) % 16
Nargs(s, f) == s[f] % 256
CallType(s, f) == s[f] \div 4096

(* The frames from the oldest to the youngest, by following the links.     *)
Frames(g) ==
  LET most == Len(g.stack) \div 4          \* a frame has four words and more
      chain[k \in 0..most] ==
        IF k = 0 THEN g.fp ELSE IF chain[k - 1] = 0 THEN 0 ELSE Caller(g.stack, chain[k - 1])
  IN  Reverse(SelectSeq([k \in 1..(most + 1) |-> chain[k - 1]], LAMBDA f : f # 0))

Words(s) == Joined([i \in 1..Len(s) |-> Word(s[i])])

ArgumentMask(n) == 2 ^ n - 1

(* A frame, whose words end at top.  A function's saved pc points behind   *)
(* the byte that names the variable for its result.                        *)
FrameBytes(g, f, top) ==
  LET s     == g.stack
      nvars == Nvars(s, f)
      pc    == FramePc(s, f)
      lead  == IF CallType(s, f) = 0
               THEN <<(pc + 1) \div 65536>> \o Word((pc + 1) % 65536) \o <<nvars, g.memory[pc]>>
               ELSE <<pc \div 65536>> \o Word(pc % 65536) \o <<16 + nvars, 0>>
  IN  lead \o <<ArgumentMask(Nargs(s, f))>> \o Word(top - f - nvars)
           \o Words(SubSeq(s, f + 1, top))

StackChunk(g) ==
  LET frames == Frames(g)
      top(i) == IF i = Len(frames) THEN Len(g.stack) ELSE frames[i + 1] - 4
      first  == IF frames = <<>> THEN Len(g.stack) ELSE frames[1] - 4
      faked  == <<0, 0, 0, 0, 0, 0>> \o Word(first) \o Words(SubSeq(g.stack, 1, first))
  IN  (IF h_version # V6 THEN faked ELSE <<>>)
        \o Joined([i \in 1..Len(frames) |-> FrameBytes(g, frames[i], top(i))])

SavedInInterrupt(g) ==
  \E i \in DOMAIN Frames(g) : CallType(g.stack, Frames(g)[i]) = 2

Body(g) ==
  <<[id |-> ID_IFhd, body |-> HeaderChunk(g)],
    [id |-> ID_CMem, body |-> MemoryChunk(g)],
    [id |-> ID_Stks, body |-> StackChunk(g)]>>

Bytes(chunks) ==
  LET all == Joined([i \in 1..Len(chunks) |-> Chunk(chunks[i].id, chunks[i].body)])
  IN  Long(ID_FORM) \o Long(4 + Len(all)) \o Long(ID_IFZS) \o all

(* What there is when a frame of a direct call is met: no lengths yet.     *)
Unfinished(g) ==
  Long(ID_FORM) \o Long(0) \o Long(ID_IFZS) \o Chunk(ID_IFhd, HeaderChunk(g))
-----------------------------------------------------------------------------
(* Files that are not as save_quetzal writes them.                         *)
AllBytes(g) == [a \in 1..h_dynamic_size |-> g.memory[a - 1]]
Elsewhere(g) ==                          \* another machine has another header
  [g EXCEPT !.memory = [a \in DOMAIN g.memory |-> IF a \in HEADER THEN 2 ELSE @[a]]]

ChunksOf(v, g) ==
  LET c == Body(g)
      plain == [id |-> ID_UMem, body |-> AllBytes(g)]
      note  == [id |-> ID_ANNO, body |-> <<1, 2, 3>>]
      bogus == [id |-> ID_CMem, body |-> Append(MemoryChunk(g), 0)]
      other == [id |-> ID_IFhd, body |-> [HeaderChunk(g) EXCEPT ![2] = (@ + 1) % 256]]
  IN  CASE v = "plain"   -> <<c[1], plain, c[3]>>
        [] v = "noted"   -> <<c[1], note, c[2], c[3]>>
        [] v = "twice"   -> <<c[1], c[2], c[2], plain, c[3]>>
        [] v = "swapped" -> <<c[1], c[3], c[2]>>
        [] v = "late"    -> <<c[2], c[3], c[1]>>
        [] v = "spare"   -> <<c[1], bogus, plain, c[3]>>
        [] v = "foreign" -> <<other, c[2], c[3]>>
        [] v = "no IFhd" -> <<c[2], c[3]>>
        [] v = "no CMem" -> <<c[1], c[3]>>
        [] v = "no Stks" -> <<c[1], c[2]>>
        [] OTHER         -> c

Spoiled == {"foreign", "no IFhd", "no CMem", "no Stks", "cut"}

(* z_save does not look at what save_quetzal returns.                      *)
Save(v) ==
  LET from  == IF v = "abroad" THEN Elsewhere(game) ELSE game
      whole == Bytes(ChunksOf(v, from))
  IN  /\ at = "play" /\ file = <<>>          \* bound: one file
      /\ IF SavedInInterrupt(game)
         THEN file' = Unfinished(game) /\ slot' = NoGame
         ELSE /\ file' \in IF v = "cut"
                           THEN {SubSeq(whole, 1, n) : n \in 12..(Len(whole) - 1)}
                           ELSE {whole}
              /\ slot' = IF v \in Spoiled THEN NoGame ELSE game
      /\ answer' = 1
      /\ UNCHANGED <<h_version, game, at, restoring, before>>
-----------------------------------------------------------------------------
(* restart_header.                                                         *)
WithHeader(m) == [a \in DOMAIN m |-> IF a \in HEADER THEN 1 ELSE m[a]]

(* z_restart; in version 6 it calls the main routine, here without locals. *)
Restarted(v) ==
  [pc |-> 0, memory |-> WithHeader(Story.memory),
   stack |-> IF v = V6 THEN <<0, 0, Link(0), 4096>> ELSE <<>>,
   fp |-> IF v = V6 THEN 4 ELSE 0,
   frame_count |-> IF v = V6 THEN 1 ELSE 0]

Restart ==
  /\ at = "play"
  /\ game' = Restarted(h_version) /\ before' = NoGame
  /\ UNCHANGED <<h_version, file, at, restoring, answer, slot>>

Play ==
  /\ at = "play"
  /\ game' = Later(h_version) /\ before' = NoGame
  /\ UNCHANGED <<h_version, file, at, restoring, answer, slot>>
-----------------------------------------------------------------------------
(* restore_quetzal.  Return(r) is its return, and what z_restore does then. *)
Return(r, g) ==
  /\ at' = IF r = -1 THEN "fatal" ELSE "play"
  /\ answer' = r
  /\ game' = IF r = 2 THEN [g EXCEPT !.memory = WithHeader(@)] ELSE g
  /\ UNCHANGED <<h_version, file, restoring, slot, before>>

(* fgetc gives one byte more than the file has: what follows on the disk.  *)
Readable == Append(file, 0)
From(n, length) == SubSeq(Readable, n + 1, Min({n + length, Len(Readable)}))

Restore ==
  /\ at = "play" /\ file # <<>>
  /\ before' = game
  /\ LET length == LongAt(file, 5)
     IN  IF LongAt(file, 1) # ID_FORM \/ LongAt(file, 9) # ID_IFZS \/ length % 2 = 1 \/ length < 4
         THEN answer' = 0 /\ UNCHANGED <<at, restoring>>
         ELSE /\ at' = "restore" /\ pos' = 12 /\ ifzslen' = length - 4
              /\ progress' = {} /\ fatal' = 0
              /\ UNCHANGED answer
  /\ UNCHANGED <<h_version, game, file, slot>>

(* A chunk of some length is done with, after n bytes of its body.         *)
Passed(g, got, err, length, n) ==
  /\ game' = g /\ progress' = progress \cup got /\ fatal' = err
  /\ pos' = pos + 8 + n
  /\ ifzslen' = ifzslen - 8 - length - (length % 2)
  /\ UNCHANGED <<h_version, file, at, answer, slot, before>>

Done(g, got, err, length) == Passed(g, got, err, length, length + (length % 2))

PcRead(g, b) == [g EXCEPT !.pc = 65536 * b[11] + WordAt(b, 12)]

RestoreHeader(b, length) ==
  IF \/ "header" \in progress \/ length < 13 \/ Len(b) < 13
     \/ SubSeq(b, 1, 10) # SubSeq(HeaderChunk(game), 1, 10)
  THEN Return(fatal, game)
  ELSE Done(PcRead(game, b), {"header"}, -1, length)

(* The frames in the rest b of a chunk, pushed above those in m; FALSE as  *)
(* fp where one is refused.                                                *)
Refused(m) == [m EXCEPT !.fp = -1]

Count(mask) == CHOOSE i \in 0..8 : 2 ^ i = mask + 1

TooMuch(room, words) == room <= words

(* The code compares the length of a frame's words with what is left of    *)
(* the chunk, the 8 bytes before them included: words cut off there are    *)
(* read from behind the chunk.  No file here is cut off so.                *)
RECURSIVE FramesFrom(_, _)
FramesFrom(m, b) ==
  IF b = <<>> THEN m
  ELSE
  LET nvars == b[4] % 16
      count == nvars + WordAt(b, 7)
      saved == 65536 * b[1] + WordAt(b, 2)
      procedure == (b[4] \div 16) % 2 = 1
      pc    == IF procedure THEN saved ELSE saved - 1
      words == [i \in 1..count |-> WordAt(b, 7 + 2 * i)]
      header == (IF procedure THEN 4096 ELSE 0) + 256 * nvars + Count(b[6])
  IN  IF \/ Len(b) < 8
         \/ STACK_SIZE - Len(m.stack) < 4
         \/ ~procedure /\ m.memory[pc] # b[5]
         \/ \A i \in 0..8 : 2 ^ i # b[6] + 1
         \/ TooMuch(STACK_SIZE - Len(m.stack) - 4, count)
         \/ Len(b) < 8 + 2 * count
      THEN Refused(m)
      ELSE FramesFrom([m EXCEPT
                         !.stack = @ \o <<pc \div 512, pc % 512, Link(m.fp), header>> \o words,
                         !.fp = Len(m.stack) + 4,
                         !.frame_count = @ + 1],
                      SubSeq(b, 9 + 2 * count, Len(b)))

StackFrom(g, b, length) ==
  LET empty == [g EXCEPT !.stack = <<>>, !.fp = 0, !.frame_count = 0]
      first == WordAt(b, 7)
  IN  IF Len(b) < length THEN Refused(empty)
      ELSE IF h_version = V6 THEN FramesFrom(empty, b)
      ELSE IF \/ length < 8 \/ SubSeq(b, 1, 6) # <<0, 0, 0, 0, 0, 0>>
              \/ first > STACK_SIZE \/ length - 8 < 2 * first
      THEN Refused(empty)
      ELSE FramesFrom([empty EXCEPT !.stack = [i \in 1..first |-> WordAt(b, 7 + 2 * i)]],
                      SubSeq(b, 9 + 2 * first, length))

(* A second stack chunk is not passed over: its bytes are read as chunks.  *)
RestoreStack(b, length) ==
  IF "stack" \in progress THEN Passed(game, {}, fatal, length, length % 2)
  ELSE LET g == StackFrom(game, b, length)
       IN  IF g.fp = -1 THEN Return(-1, game)
           ELSE Done(g, {"stack"}, -1, length)

(* Unpacking a memory chunk: the address i, whether a run has begun, and   *)
(* the memory.  A byte too many changes the byte behind dynamic memory.    *)
OneByte(u, x) ==
  CASE u.i > h_dynamic_size -> u
    [] u.i <= h_dynamic_size /\ u.run ->
         LET last == u.i + x
         IN  [i |-> IF last < h_dynamic_size THEN last + 1
                    ELSE IF u.i < h_dynamic_size THEN h_dynamic_size ELSE u.i,
              run |-> FALSE,
              m |-> [a \in DOMAIN u.m |->
                       IF a \in u.i..last /\ a < h_dynamic_size THEN Story.memory[a] ELSE u.m[a]]]
    [] u.i <= h_dynamic_size /\ ~u.run /\ x = 0 -> [u EXCEPT !.run = TRUE]
    [] OTHER -> [i |-> u.i + 1, run |-> FALSE,
                 m |-> [u.m EXCEPT ![u.i] = x ^^ Story.memory[u.i]]]

RestNotCopied(u) == u.m                                              \* faulty
Filled(u) ==
  [a \in DOMAIN u.m |-> IF a \in u.i..(h_dynamic_size - 1) THEN Story.memory[a] ELSE u.m[a]]

OneBlock(u, block) == IF u.i > h_dynamic_size THEN u ELSE FoldLeft(OneByte, u, block)
Unpacked(m, b) == FoldLeft(OneBlock, [i |-> 0, run |-> FALSE, m |-> m], Blocks(b))

RestoreMemory(b, length) ==
  LET u == Unpacked(game.memory, b)
      with(m) == [game EXCEPT !.memory = m]
  IN  CASE Len(b) < length -> Return(fatal, with(u.m))
        [] Len(b) = length /\ u.run ->
             Passed(with(u.m), {}, fatal, length, length + (length % 2) + 1)
        [] Len(b) = length /\ ~u.run /\ u.i > h_dynamic_size ->
             Done(with(u.m), {}, fatal, length)
        [] OTHER -> Done(with(Filled(u)), {"memory"}, fatal, length)

RestorePlain(b, length) ==
  LET got == IF Len(b) < length THEN Len(b) - 1 ELSE length
      m   == [a \in DOMAIN game.memory |-> IF a < got THEN b[a + 1] ELSE game.memory[a]]
  IN  IF length # h_dynamic_size THEN Done(game, {}, fatal, length)
      ELSE Done([game EXCEPT !.memory = m], IF got = length THEN {"memory"} ELSE {}, fatal, length)

RestoreChunk ==
  /\ at = "restore" /\ ifzslen > 0
  /\ IF ifzslen < 8 \/ Len(From(pos, 8)) < 8 THEN Return(0, game)
     ELSE LET id     == LongAt(From(pos, 8), 1)
              length == LongAt(From(pos, 8), 5)
              b      == From(pos + 8, length)
          IN  IF ifzslen - 8 < length THEN Return(0, game)
              ELSE CASE id = ID_IFhd -> RestoreHeader(b, length)
                     [] id = ID_Stks -> RestoreStack(b, length)
                     [] id = ID_CMem /\ "memory" \notin progress -> RestoreMemory(b, length)
                     [] id = ID_UMem /\ "memory" \notin progress -> RestorePlain(b, length)
                     [] OTHER -> Done(game, {}, fatal, length)

RestoreEnd ==
  /\ at = "restore" /\ ifzslen = 0
  /\ Return(IF progress = {"header", "stack", "memory"} THEN 2 ELSE fatal, game)
-----------------------------------------------------------------------------
Init ==
  /\ h_version \in Version
  /\ game \in Machine(h_version)
  /\ file = <<>> /\ at = "play"
  /\ pos = 0 /\ ifzslen = 0 /\ progress = {} /\ fatal = 0
  /\ answer = 0 /\ slot = NoGame /\ before = NoGame

Next ==
  \/ \E v \in Variant : Save(v)
  \/ Restart \/ Play
  \/ Restore \/ RestoreChunk \/ RestoreEnd

Spec == Init /\ [][Next]_vars
-----------------------------------------------------------------------------
(* A game restored is the game saved, whoever wrote the file: its pc, every *)
(* word of its stack and every byte of dynamic memory but those of the     *)
(* header that tell of this interpreter.  A restore that fails leaves the  *)
(* game as it was or stops it.                                             *)
Saved == INSTANCE SavedGames WITH
           Start <- UNION {Machine(v) : v \in Version},
           Other <- UNION {{Restarted(v), Later(v)} : v \in Version},
           game <- IF at = "play" THEN game ELSE before,
           halted <- at = "fatal"
ImplementsSaved == Saved!Spec

(* A file that save_quetzal has written, on this machine or on another,    *)
(* and one that another interpreter wrote of the same game, is restored.   *)
Restored == [][at = "restore" /\ at' # "restore" /\ slot # NoGame => answer' = 2]_vars

(* quetzal.c:129: restore_quetzal returns "0 if an error occurred before   *)
(* any damage was done".                                                   *)
NoDamage == at = "play" /\ answer = 0 /\ before # NoGame => game = before
=============================================================================
