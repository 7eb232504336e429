------------------------------- MODULE Files --------------------------------
(***************************************************************************)
(* The files of the kernel's C library: stdio.c over iso9660.c.  A file to *)
(* be read lies in the memory image of the game disk; a file to be written *)
(* is a buffer of its own, which doubles when it is full.                  *)
(***************************************************************************)
EXTENDS Integers, Sequences, FiniteSets, SequencesExt, FiniteSetsExt

CONSTANTS
  Handle,          \* bound: the files open at a time
  Name,            \* the names asked for
  Directory,       \* the records of the root directory, and the zeros that
                   \* fill its sectors: [name, contents], or PADDING
  Byte, JUNK,      \* bytes, and what fresh memory holds
  BUFFER,          \* 256
  Offset,          \* offsets of fseek
  Items,           \* <<size, nmemb>> of fread and fwrite
  MaxLength, MaxSteps \* bounds: of a written file, and of the calls

PADDING == [name |-> "", contents |-> <<>>]
EOF == -1
NIL == -2
BEYOND == -3         \* the byte after the last one
NoPath == ""

FilesAssumption ==
  /\ \A i \in DOMAIN Directory :
       Directory[i] # PADDING => Directory[i].contents \in Seq(Byte)
  /\ BUFFER \in Nat \ {0} /\ Items \subseteq (Nat \ {0}) \X Nat /\ Offset \subseteq Int
  /\ Byte \subseteq 0..255 /\ JUNK \notin Byte /\ {MaxLength, MaxSteps} \subseteq Nat

VARIABLES
  fp,              \* the FILE of every handle
  answer,          \* the bytes the last call read, or <<what it returned>>
  saved,           \* the files closed after writing: <<name, bytes>>
  crashed, calls

vars == <<fp, answer, saved, crashed, calls>>

Free == [open |-> FALSE, hdr |-> NIL, path |-> NoPath, data |-> <<>>, fpos |-> 0,
         datalen |-> 0, actualsize |-> 0]

Init ==
  /\ fp = [h \in Handle |-> Free] /\ answer = <<NIL>> /\ saved = {}
  /\ crashed = FALSE /\ calls = 0

(* iso9660_enumfiles walks the records until one has no length, be it the  *)
(* last one or the filling at the end of a sector.                         *)
iso9660_enumfiles ==
  LET ends == {i \in DOMAIN Directory : Directory[i] = PADDING} \cup {Len(Directory) + 1}
  IN  SubSeq(Directory, 1, Min(ends) - 1)

Named(name) == {i \in DOMAIN iso9660_enumfiles : iso9660_enumfiles[i].name = name}
iso9660_fopen_r(name) == IF Named(name) = {} THEN NIL ELSE Min(Named(name))

Contents(f) == IF f.hdr = NIL THEN SubSeq(f.data, 1, f.actualsize) ELSE Directory[f.hdr].contents
Length(f) == IF f.hdr = NIL THEN f.actualsize ELSE Len(Contents(f))

Call(h, f, result) ==
  /\ ~crashed /\ calls < MaxSteps /\ calls' = calls + 1
  /\ fp' = [fp EXCEPT ![h] = f] /\ answer' = result
  /\ UNCHANGED <<saved, crashed>>
Crash ==
  /\ ~crashed /\ calls < MaxSteps /\ calls' = calls + 1
  /\ crashed' = TRUE /\ UNCHANGED <<fp, answer, saved>>
-----------------------------------------------------------------------------
fopen(h, path, mode) ==
  LET found == iso9660_fopen_r(path)
  IN  /\ ~fp[h].open
      /\ IF mode = "r"
         THEN IF found = NIL THEN Call(h, fp[h], <<NIL>>)
              ELSE Call(h, [Free EXCEPT !.open = TRUE, !.hdr = found], <<h>>)
         ELSE Call(h, [Free EXCEPT !.open = TRUE, !.path = path, !.datalen = BUFFER,
                                   !.data = [i \in 1..BUFFER |-> JUNK]], <<h>>)

(* The code that would write the file back is compiled out.                *)
fclose(h) ==
  /\ ~crashed /\ calls < MaxSteps /\ calls' = calls + 1
  /\ fp' = [fp EXCEPT ![h] = Free] /\ answer' = <<0>>
  /\ saved' = saved \cup {<<f.path, Contents(f)>> : f \in {g \in {fp[h]} : g.path # NoPath}}
  /\ UNCHANGED crashed

(* Only files to be read are read: the interpreter opens no file for both. *)
Reads(h) == fp[h].hdr # NIL
ByteAt(f, pos) == IF pos < Length(f) THEN Contents(f)[pos + 1] ELSE BEYOND

fgetc(h) ==
  LET f == fp[h]
  IN  /\ Reads(h)
      /\ IF f.fpos > Length(f) THEN Call(h, f, <<EOF>>)
         ELSE Call(h, [f EXCEPT !.fpos = @ + 1], <<ByteAt(f, f.fpos)>>)

(* The byte is given back only if it is the one before the position, and   *)
(* that one is read as a signed char.  What is beyond the end may be any   *)
(* byte.                                                                   *)
SignedChar(c) == IF c < 128 THEN c ELSE c - 256
ungetc(h, c) ==
  LET f == fp[h]
      before == ByteAt(f, f.fpos - 1)
      Back == Call(h, [f EXCEPT !.fpos = @ - 1], <<c>>)
  IN  /\ Reads(h) /\ f.fpos > 0
      /\ \/ before = BEYOND /\ Back
         \/ SignedChar(before) = c /\ Back
         \/ SignedChar(before) # c /\ Call(h, f, <<EOF>>)

(* Callers never go back beyond the first byte.                            *)
Target(f, offset, whence) ==
  CASE whence = "SEEK_SET" -> offset
    [] whence = "SEEK_CUR" -> f.fpos + offset
    [] whence = "SEEK_END" -> Length(f) - offset
Refused(f, offset, whence) ==
  IF whence = "SEEK_CUR" THEN f.fpos + offset > Length(f) ELSE offset > Length(f)

fseek(h, offset, whence) ==
  LET f == fp[h]
  IN  /\ Target(f, offset, whence) >= 0
      /\ IF whence = "SEEK_END" THEN offset >= 0 ELSE TRUE
      /\ IF Refused(f, offset, whence) THEN Call(h, f, <<-1>>)
         ELSE Call(h, [f EXCEPT !.fpos = Target(f, offset, whence)], <<0>>)

(* After the end was passed the number of bytes left is negative, and      *)
(* memcpy takes it for a very large one.  The answer is what was read; the *)
(* items returned are those that are whole.                                *)
fread(h, size, nmemb) ==
  LET f == fp[h]
      n == IF f.fpos + size * nmemb > Length(f) THEN Length(f) - f.fpos ELSE size * nmemb
  IN  /\ Reads(h)
      /\ IF n < 0 THEN Crash
         ELSE Call(h, [f EXCEPT !.fpos = @ + n], SubSeq(Contents(f), f.fpos + 1, f.fpos + n))

(* The buffer doubles until the bytes fit; realloc keeps what it holds.    *)
Grown(f, n) ==
  LET need == f.fpos + n
      len == Min({l \in {f.datalen * 2^k : k \in 0..need} : l >= need})
  IN  [f EXCEPT !.datalen = len,
                !.data = [i \in 1..len |-> IF i <= f.datalen THEN f.data[i] ELSE JUNK]]
EndOf(f, end) == end                              \* faulty: cut by each write
SizeWith(f, end) == Max({f.actualsize, end})

(* memcpy: what falls beyond the buffer is not kept in it.                 *)
Put(f, bytes) ==
  [f EXCEPT !.data = [i \in DOMAIN f.data |->
                        IF i - f.fpos \in DOMAIN bytes THEN bytes[i - f.fpos] ELSE f.data[i]],
            !.fpos = @ + Len(bytes),
            !.actualsize = SizeWith(f, f.fpos + Len(bytes))]

Write(h, bytes, done, refused) ==
  LET f == fp[h]
  IN  /\ f.open /\ f.fpos + Len(bytes) <= MaxLength
      /\ IF f.path = NoPath THEN Call(h, f, <<refused>>)
         ELSE Call(h, Put(Grown(f, Len(bytes)), bytes), <<done>>)

fwrite(h, size, bytes) == Write(h, bytes, Len(bytes) \div size, 0)
fputc(h, c) == Write(h, <<c>>, c, EOF)

Whence == {"SEEK_SET", "SEEK_CUR", "SEEK_END"}

Next ==
  \E h \in Handle :
    \/ \E name \in Name : fopen(h, name, "r") \/ fopen(h, name, "w")
    \/ fp[h].open /\ (fclose(h) \/ fgetc(h))
    \/ fp[h].open /\ \E c \in Byte : ungetc(h, c) \/ fputc(h, c)
    \/ fp[h].open /\ \E o \in Offset, w \in Whence : fseek(h, o, w)
    \/ fp[h].open /\ \E <<size, nmemb>> \in Items :
         \/ fread(h, size, nmemb)
         \/ \E c \in Byte : fwrite(h, size, [i \in 1..size * nmemb |-> c])

Spec == Init /\ [][Next]_vars
-----------------------------------------------------------------------------
Std == INSTANCE StdFiles WITH NULL <- NIL,
  Files <- [i \in DOMAIN iso9660_enumfiles |-> Directory[i].contents],
  MaxBytes <- Max({i[1] * i[2] : i \in Items}),
  open <- [h \in Handle |->
             [bytes |-> IF fp[h].open THEN Contents(fp[h]) ELSE <<>>,
              pos |-> Min({fp[h].fpos, Length(fp[h])}),
              writes |-> fp[h].path # NoPath, open |-> fp[h].open]]

(* Every call does to a file what its callers expect of it, however the    *)
(* buffer grows; the end of a file is not always reported, and to read on  *)
(* then is fatal.                                                          *)
ImplementsFiles == Std!Spec

(* "otherwise, fwrites realloc data and fclose flushes" (stdio.h:19): what *)
(* was written and closed is found again under its name.                   *)
Flushed ==
  \A s \in saved :
    LET f == iso9660_fopen_r(s[1]) IN f # NIL /\ Directory[f].contents = s[2]
=============================================================================
