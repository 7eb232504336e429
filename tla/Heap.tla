-------------------------------- MODULE Heap --------------------------------
(***************************************************************************)
(* malloc.c as the kernel is built: no mmap, no footers, no locks, memory  *)
(* from sbrk, which the heap alone calls, so that there is one contiguous  *)
(* segment.                                                                *)
(*                                                                         *)
(* A chunk is its address.  Of memory, the model keeps the heads of chunks *)
(* (size, cinuse, pinuse), the prev_foot words in front of a head that has *)
(* pinuse clear, and the links of free chunks, as sequences for the small  *)
(* bins and as TreeBins for the large ones.  A head that is not one of a   *)
(* chunk, in user data or inside a free chunk, holds anything: Junk.       *)
(***************************************************************************)
EXTENDS Integers, Sequences, FiniteSets, TLC, SequencesExt

CONSTANTS
  ROOT,            \* 2^16
  HEAP_ADDR, HEAP_ADDR_MAX,
  PAGE,            \* mparams.granularity
  TRIM,            \* mparams.trim_threshold
  Requests, Resizes, Callocs, Alignments, Groups, Pads,
                   \* bound: the arguments of the program's calls
  MaxBlocks, MaxOps  \* bounds of the model

WORD == ROOT * ROOT
SIZE_T_SIZE == 4
MALLOC_ALIGNMENT == 8
CHUNK_OVERHEAD == SIZE_T_SIZE
MIN_CHUNK_SIZE == 16
TOP_FOOT_SIZE == 40
SYS_ALLOC_PADDING == TOP_FOOT_SIZE + MALLOC_ALIGNMENT
NSMALLBINS == 32
MAX_SMALL_REQUEST == 255 - 7 - CHUNK_OVERHEAD
MIN_REQUEST == MIN_CHUNK_SIZE - CHUNK_OVERHEAD - 1
MAX_SIZE_T == WORD - 1
HALF_MAX_SIZE_T == MAX_SIZE_T \div 2
MAX_REQUEST == WORD - 4 * MIN_CHUNK_SIZE

HeapAssumption ==
  /\ {ROOT, HEAP_ADDR, HEAP_ADDR_MAX, PAGE, TRIM, MaxBlocks, MaxOps} \subseteq Nat
  /\ PAGE > TOP_FOOT_SIZE + 2 * MIN_CHUNK_SIZE /\ PAGE % MALLOC_ALIGNMENT = 0
  /\ HEAP_ADDR > 0 /\ HEAP_ADDR % PAGE = 0
  /\ HEAP_ADDR <= HEAP_ADDR_MAX /\ HEAP_ADDR_MAX < WORD
  /\ Requests \cup Resizes \cup Pads \subseteq 0..MAX_SIZE_T
  /\ Callocs \cup Groups \subseteq (0..MAX_SIZE_T) \X (0..MAX_SIZE_T)
  /\ \A a \in Alignments : a[1] \in {2^k : k \in 4..15} /\ a[2] \in 0..MAX_SIZE_T

VARIABLES
  m,               \* the malloc_state, sbrk's break, and what memory holds
  blocks,          \* history: the blocks the program has
  ops              \* bound: calls made

vars == <<m, blocks, ops>>

Bins == INSTANCE TreeBins WITH
  tree <- m.tree, Chunk <- HEAP_ADDR..HEAP_ADDR_MAX, Size <- {}

Nil == 0
JUNK == 2                                  \* a bit that was never written

Fresh ==
  [head |-> <<>>, foot |-> <<>>, wrote |-> {},
   small |-> [i \in 0..(NSMALLBINS - 1) |-> <<>>], tree |-> Bins!Empty,
   dv |-> Nil, dvsize |-> 0, top |-> Nil, topsize |-> 0,
   end |-> HEAP_ADDR, trim_check |-> 0, halted |-> FALSE]

Init == m = Fresh /\ blocks = <<>> /\ ops = 0
-----------------------------------------------------------------------------
(* Chunk sizes.                                                            *)
pad_request(n) == (((n + CHUNK_OVERHEAD + MALLOC_ALIGNMENT - 1) % WORD) \div MALLOC_ALIGNMENT)
                  * MALLOC_ALIGNMENT
request2size(n) == IF n < MIN_REQUEST THEN MIN_CHUNK_SIZE ELSE pad_request(n)
granularity_align(n) == (((n + PAGE - 1) % WORD) \div PAGE) * PAGE
is_small(s) == s \div 8 < NSMALLBINS

(* A rest is a chunk of its own if it has room for the links of one.       *)
AnyRest(rsize) == rsize > 0                       \* faulty
LeavesChunk(rsize) == rsize >= MIN_CHUNK_SIZE

chunk2mem(p) == p + 2 * SIZE_T_SIZE
mem2chunk(a) == a - 2 * SIZE_T_SIZE

(* Heads and feet; wrote collects the words that are written.              *)
HeadAt(h, p) ==
  IF p \in DOMAIN h.head THEN h.head[p] ELSE [size |-> 0, c |-> JUNK, p |-> JUNK]
chunksize(h, p) == HeadAt(h, p).size
prev_foot(h, p) == IF p \in DOMAIN h.foot THEN h.foot[p] ELSE 0

SetHead(h, p, s, cinuse, pinuse) ==
  [h EXCEPT !.head = (p :> [size |-> s, c |-> cinuse, p |-> pinuse]) @@ @,
            !.wrote = @ \cup {p + SIZE_T_SIZE}]
SetPinuse(h, p, pinuse) == SetHead(h, p, HeadAt(h, p).size, HeadAt(h, p).c, pinuse)
SetFoot(h, p, s) ==
  [h EXCEPT !.foot = ((p + s) :> s) @@ @, !.wrote = @ \cup {p + s}]

set_inuse(h, p, s) == SetPinuse(SetHead(h, p, s, 1, HeadAt(h, p).p), p + s, 1)
set_inuse_and_pinuse(h, p, s) == SetPinuse(SetHead(h, p, s, 1, 1), p + s, 1)
set_size_and_pinuse_of_inuse_chunk(h, p, s) == SetHead(h, p, s, 1, 1)
set_size_and_pinuse_of_free_chunk(h, p, s) == SetFoot(SetHead(h, p, s, 0, 1), p, s)
set_free_with_pinuse(h, p, s, n) ==
  set_size_and_pinuse_of_free_chunk(SetPinuse(h, n, 0), p, s)
-----------------------------------------------------------------------------
(* Bins.  The words of links that are written are at the front of a chunk. *)
Links(S) == {chunk2mem(p) : p \in S} \cup {chunk2mem(p) + SIZE_T_SIZE : p \in S}

insert_small_chunk(h, p, s) ==
  LET i == s \div 8
      first == IF h.small[i] = <<>> THEN {} ELSE {h.small[i][1]}
  IN  [h EXCEPT !.small[i] = <<p>> \o @, !.wrote = @ \cup Links({p} \cup first)]

unlink_small_chunk(h, p, s) ==
  LET i == s \div 8
      near == {h.small[i][k] : k \in {k \in DOMAIN h.small[i] :
                 \E j \in {k - 1, k + 1} : j \in DOMAIN h.small[i] /\ h.small[i][j] = p}}
  IN  [h EXCEPT !.small[i] = SelectSeq(@, LAMBDA q : q # p), !.wrote = @ \cup Links(near)]

WithTree(h, t) ==
  LET changed == {x \in DOMAIN t.node : ~(x \in DOMAIN h.tree.node /\ h.tree.node[x] = t.node[x])}
  IN  [h EXCEPT !.tree = t,
                !.wrote = @ \cup UNION {chunk2mem(x)..(chunk2mem(x) + 23) : x \in changed}]

insert_large_chunk(h, p, s) == WithTree(h, Bins!InsertAt(h.tree, p, s))
unlink_large_chunk(h, p) == WithTree(h, Bins!UnlinkFrom(h.tree, p))

insert_chunk(h, p, s) ==
  IF is_small(s) THEN insert_small_chunk(h, p, s) ELSE insert_large_chunk(h, p, s)
unlink_chunk(h, p, s) ==
  IF is_small(s) THEN unlink_small_chunk(h, p, s) ELSE unlink_large_chunk(h, p)

WithDv(h, p, s) == [h EXCEPT !.dv = p, !.dvsize = s]
replace_dv(h, p, s) ==
  WithDv(IF h.dvsize # 0 THEN insert_small_chunk(h, h.dv, h.dvsize) ELSE h, p, s)
-----------------------------------------------------------------------------
(* Memory from the system and back.                                        *)
init_top(h, p, s) ==
  SetHead(SetHead([h EXCEPT !.top = p, !.topsize = s, !.trim_check = TRIM], p, s, 0, 1),
          p + s, TOP_FOOT_SIZE, 0, 0)

Got(h, p) == [m |-> h, p |-> p]
Halt(h) == Got([h EXCEPT !.halted = TRUE], Nil)

TakeTop(h, nb) ==
  LET r == h.top + nb
      rest == SetHead([h EXCEPT !.top = r, !.topsize = @ - nb], r, h.topsize - nb, 0, 1)
  IN  Got(set_size_and_pinuse_of_inuse_chunk(rest, h.top, nb), h.top)

(* The break moves up; sbrk halts the machine rather than fail.            *)
Extend(h, size, nb) ==
  LET up == [h EXCEPT !.end = @ + size]
  IN  IF up.end > HEAP_ADDR_MAX THEN Halt(h)
      ELSE IF h.top = Nil THEN TakeTop(init_top(up, h.end, size - TOP_FOOT_SIZE), nb)
      ELSE TakeTop(init_top(up, h.top, h.topsize + size), nb)

(* What is left of top is subtracted.  An extension by half of the address *)
(* space is not asked for: the allocator aborts.                           *)
sys_alloc(h, nb) ==
  LET asize == granularity_align((nb + SYS_ALLOC_PADDING) % WORD)
      ssize == IF h.top = Nil THEN asize
               ELSE granularity_align((nb - h.topsize + SYS_ALLOC_PADDING) % WORD)
  IN  IF asize <= nb THEN Got(h, Nil)
      ELSE IF ssize < HALF_MAX_SIZE_T THEN Extend(h, ssize, nb)
      ELSE Halt(h)

sys_trim(h, pad) ==
  LET over == h.topsize - (pad + TOP_FOOT_SIZE)
      extra == ((over + PAGE - 1) \div PAGE - 1) * PAGE
  IN  IF pad >= MAX_REQUEST \/ h.top = Nil THEN h
      ELSE IF over > 0 /\ extra > 0
      THEN init_top([h EXCEPT !.end = @ - extra], h.top, h.topsize - extra)
      ELSE IF h.topsize > h.trim_check THEN [h EXCEPT !.trim_check = MAX_SIZE_T] ELSE h

TrimIf(h) == IF h.topsize > h.trim_check THEN sys_trim(h, 0) ELSE h
-----------------------------------------------------------------------------
(* dispose_chunk, and the same code in dlfree: a chunk in use joins its    *)
(* free neighbours, and then dv, top or a bin.                             *)
IntoTop(h, p, s) ==
  SetHead([h EXCEPT !.top = p, !.topsize = @ + s, !.dv = IF p = h.dv THEN Nil ELSE @,
                    !.dvsize = IF p = h.dv THEN 0 ELSE @], p, h.topsize + s, 0, 1)

JoinNext(h, p, s, next) ==
  LET nsize == chunksize(h, next)
      joined == set_size_and_pinuse_of_free_chunk(unlink_chunk(h, next, nsize), p, s + nsize)
  IN  IF p = h.dv THEN [joined EXCEPT !.dvsize = s + nsize]
      ELSE insert_chunk(joined, p, s + nsize)

Joined(h, p, s, next) ==
  IF HeadAt(h, next).c = 1
  THEN IF p = h.dv THEN set_free_with_pinuse([h EXCEPT !.dvsize = s], p, s, next)
       ELSE insert_chunk(set_free_with_pinuse(h, p, s, next), p, s)
  ELSE IF next = h.top THEN IntoTop(h, p, s)
  ELSE IF next = h.dv
  THEN set_size_and_pinuse_of_free_chunk(WithDv(h, p, h.dvsize + s), p, h.dvsize + s)
  ELSE JoinNext(h, p, s, next)

dispose_chunk(h, q, qsize) ==
  LET back == HeadAt(h, q).p = 0
      before == IF back THEN prev_foot(h, q) ELSE 0
      p == q - before
  IN  Joined(IF back /\ p # h.dv THEN unlink_chunk(h, p, before) ELSE h,
             p, before + qsize, q + qsize)

TrimAfter(h, top) == IF h.top # top THEN TrimIf(h) ELSE h
dlfree_(h, p) == TrimAfter(dispose_chunk(h, p, chunksize(h, p)), h.top)
-----------------------------------------------------------------------------
(* The ways of dlmalloc to find a chunk, in the order they are tried.      *)
Marked(h) == {i \in DOMAIN h.small : h.small[i] # <<>>}
Least(S) == CHOOSE i \in S : \A j \in S : i <= j

SplitFree(h, p, nb, rsize) ==
  set_size_and_pinuse_of_free_chunk(set_size_and_pinuse_of_inuse_chunk(h, p, nb), p + nb, rsize)

ExactBin(h, idx) ==
  LET i == Least(Marked(h) \cap {idx, idx + 1})
      p == h.small[i][1]
  IN  Got(set_inuse_and_pinuse(unlink_small_chunk(h, p, i * 8), p, i * 8), p)

NextBin(h, nb) ==
  LET i == Least({j \in Marked(h) : j > nb \div 8})
      p == h.small[i][1]
      rsize == i * 8 - nb
      split == SplitFree(unlink_small_chunk(h, p, i * 8), p, nb, rsize)
  IN  Got(replace_dv(split, p + nb, rsize), p)

(* The rest of a chunk from a tree: dv for a small request, a bin for a    *)
(* large one.                                                              *)
FromTree(h, v, nb) ==
  LET rsize == chunksize(h, v) - nb
      Cut(out) == IF ~LeavesChunk(rsize) THEN set_inuse_and_pinuse(out, v, rsize + nb)
                  ELSE IF is_small(nb) THEN replace_dv(SplitFree(out, v, nb, rsize), v + nb, rsize)
                  ELSE insert_chunk(SplitFree(out, v, nb, rsize), v + nb, rsize)
  IN  Got(Cut(unlink_large_chunk(h, v)), v)

TakeDv(h, nb) ==
  LET rsize == h.dvsize - nb
  IN  Got(IF LeavesChunk(rsize)
          THEN SplitFree(WithDv(h, h.dv + nb, rsize), h.dv, nb, rsize)
          ELSE set_inuse_and_pinuse(WithDv(h, Nil, 0), h.dv, h.dvsize), h.dv)

DvOrTop(h, nb) ==
  IF nb <= h.dvsize THEN TakeDv(h, nb)
  ELSE IF nb < h.topsize THEN TakeTop(h, nb)
  ELSE sys_alloc(h, nb)

TreeDvOrTop(h, v, nb) ==
  IF v # Nil /\ (h.dvsize >= nb => chunksize(h, v) < h.dvsize)
  THEN FromTree(h, v, nb) ELSE DvOrTop(h, nb)

Fit(h, nb) == IF is_small(nb) THEN Bins!SmallFit(h.tree) ELSE Bins!LargeFit(h.tree, nb)

dlmalloc_(h, bytes) ==
  LET small == bytes <= MAX_SMALL_REQUEST
      nb == IF small THEN request2size(bytes) ELSE pad_request(bytes)
      idx == nb \div 8
  IN  IF bytes >= MAX_REQUEST THEN DvOrTop(h, MAX_SIZE_T)
      ELSE IF small /\ Marked(h) \cap {idx, idx + 1} # {} THEN ExactBin(h, idx)
      ELSE IF small /\ nb > h.dvsize /\ (\E i \in Marked(h) : i >= idx) THEN NextBin(h, nb)
      ELSE IF small /\ nb <= h.dvsize THEN DvOrTop(h, nb)
      ELSE TreeDvOrTop(h, Fit(h, nb), nb)
-----------------------------------------------------------------------------
(* try_realloc_chunk: the chunk of a block changes its size in place.      *)
SplitUsed(h, p, nb, rsize) ==
  dispose_chunk(set_inuse(set_inuse(h, p, nb), p + nb, rsize), p + nb, rsize)

GrowIntoTop(h, p, nb) ==
  LET size == chunksize(h, p) + h.topsize
      top == p + nb
  IN  IF size > nb
      THEN Got(SetHead([set_inuse(h, p, nb) EXCEPT !.top = top, !.topsize = size - nb],
                       top, size - nb, 0, 1), p)
      ELSE Got(h, Nil)

GrowIntoDv(h, p, nb) ==
  LET size == chunksize(h, p) + h.dvsize
      dsize == size - nb
      r == p + nb
      split == set_size_and_pinuse_of_free_chunk(set_inuse(h, p, nb), r, dsize)
  IN  IF size < nb THEN Got(h, Nil)
      ELSE IF LeavesChunk(dsize)
      THEN Got(WithDv(SetPinuse(split, r + dsize, 0), r, dsize), p)
      ELSE Got(WithDv(set_inuse(h, p, size), Nil, 0), p)

GrowIntoFree(h, p, nb, next) ==
  LET size == chunksize(h, p) + chunksize(h, next)
      out == unlink_chunk(h, next, chunksize(h, next))
  IN  IF size < nb THEN Got(h, Nil)
      ELSE IF ~LeavesChunk(size - nb) THEN Got(set_inuse(out, p, size), p)
      ELSE Got(SplitUsed(out, p, nb, size - nb), p)

try_realloc_chunk(h, p, nb) ==
  LET oldsize == chunksize(h, p)
      next == p + oldsize
  IN  IF LeavesChunk(oldsize - nb) THEN Got(SplitUsed(h, p, nb, oldsize - nb), p)
      ELSE IF oldsize >= nb THEN Got(h, p)
      ELSE IF next = h.top THEN GrowIntoTop(h, p, nb)
      ELSE IF next = h.dv THEN GrowIntoDv(h, p, nb)
      ELSE IF HeadAt(h, next).c = 0 THEN GrowIntoFree(h, p, nb, next)
      ELSE Got(h, Nil)

(* internal_memalign: an aligned place in a larger chunk; what is in front *)
(* of it and behind is given back.                                         *)
GiveBackEnd(h, p, nb) ==
  LET size == chunksize(h, p)
  IN  IF size > nb + MIN_CHUNK_SIZE THEN SplitUsed(h, p, nb, size - nb) ELSE h

Aligned(got, alignment, nb) ==
  LET p == got.p
      br == mem2chunk(((chunk2mem(p) + alignment - 1) \div alignment) * alignment)
      pos == IF chunk2mem(p) % alignment = 0 THEN p
             ELSE IF LeavesChunk(br - p) THEN br ELSE br + alignment
      WithoutLead(lead) ==
        IF lead = 0 THEN got.m
        ELSE dispose_chunk(set_inuse(set_inuse(got.m, pos, chunksize(got.m, p) - lead), p, lead),
                           p, lead)
  IN  IF p = Nil THEN got ELSE Got(GiveBackEnd(WithoutLead(pos - p), pos, nb), pos)

internal_memalign(h, align, bytes) ==
  LET alignment == IF align < MIN_CHUNK_SIZE THEN MIN_CHUNK_SIZE ELSE align
      nb == request2size(bytes)
  IN  IF bytes >= MAX_REQUEST - alignment THEN Halt(h)
      ELSE Aligned(dlmalloc_(h, nb + alignment + MIN_CHUNK_SIZE - CHUNK_OVERHEAD), alignment, nb)

(* ialloc, for elements of the sizes given: one chunk, cut into elements,  *)
(* the last of which keeps what is left over, and the array of pointers.   *)
CutUp(got, at, array) ==
  LET n == Max(DOMAIN at)
      total == chunksize(got.m, got.p)
      last == IF array THEN at[n] ELSE total
      withArray == IF array
                   THEN set_size_and_pinuse_of_inuse_chunk(got.m, got.p + at[n], total - at[n])
                   ELSE got.m
      cut[i \in 0..n] ==
        IF i = 0 THEN withArray
        ELSE set_size_and_pinuse_of_inuse_chunk(cut[i - 1], got.p + at[i - 1],
               (IF i = n THEN last ELSE at[i]) - at[i - 1])
  IN  [m |-> IF got.p = Nil THEN got.m ELSE cut[n], p |-> got.p,
       elements |-> [i \in 1..n |-> got.p + at[i - 1]], array |-> got.p + at[n]]

ialloc(h, sizes, array) ==
  LET n == Len(sizes)
      array_size == IF array THEN request2size(4 * n) ELSE 0
      at[i \in 0..n] == IF i = 0 THEN 0 ELSE at[i - 1] + request2size(sizes[i])
  IN  CutUp(dlmalloc_(h, at[n] + array_size - CHUNK_OVERHEAD), at, array)

(* internal_bulk_free: a chunk that precedes the next one of the array is  *)
(* joined with it first.                                                   *)
internal_bulk_free(h, array) ==
  LET n == Len(array)
      state[i \in 0..n] ==       \* after i elements: memory, and the next one
        LET before == state[i - 1]
            p == before.p
            size == chunksize(before.m, p)
            next == IF i < n THEN mem2chunk(array[i + 1]) ELSE Nil
        IN  IF i = 0 THEN Got(h, mem2chunk(array[1]))
            ELSE IF next = p + size
            THEN Got(set_inuse(before.m, p, size + chunksize(before.m, next)), p)
            ELSE Got(dispose_chunk(before.m, p, size), next)
  IN  TrimIf(state[n].m)
-----------------------------------------------------------------------------
(* What is left of a call's writes: heads of chunks, feet of free ones.    *)
Chunks(h) ==
  LET from[p \in DOMAIN h.head] ==
        LET next == p + h.head[p].size
        IN  {p} \cup (IF next \in DOMAIN h.head /\ next > p /\ p # h.top + h.topsize
                      THEN from[next] ELSE {})
  IN  IF HEAP_ADDR \in DOMAIN h.head THEN from[HEAP_ADDR] ELSE {}

Settled(h) ==
  LET C == Chunks(h)
  IN  [h EXCEPT !.head = [p \in C |-> h.head[p]], !.wrote = {},
                !.foot = [p \in {p \in C \cap DOMAIN h.foot : h.head[p].p = 0} |-> h.foot[p]]]

Written(h, a, n) == \E w \in h.wrote : a <= w /\ w < a + n
Kept(h, A) ==
  [a \in A |-> [blocks[a] EXCEPT !.intact = @ /\ ~Written(h, a, blocks[a].bytes)]]
Held(n) == [bytes |-> n, intact |-> TRUE]

Call == ~m.halted /\ ops < MaxOps /\ ops' = ops + 1
Room(n) == Cardinality(DOMAIN blocks) + n <= MaxBlocks
Outcome(h, A, new) == m' = Settled(h) /\ blocks' = new @@ Kept(h, A)
Return(got, bytes) ==
  Outcome(got.m, DOMAIN blocks, IF got.p = Nil THEN <<>> ELSE chunk2mem(got.p) :> Held(bytes))

dlmalloc(bytes) == Call /\ Room(1) /\ Return(dlmalloc_(m, bytes), bytes)

dlfree(mem) == Call /\ Outcome(dlfree_(m, mem2chunk(mem)), DOMAIN blocks \ {mem}, <<>>)

(* The product is computed modulo the word; one with a large factor is     *)
(* divided again to see whether it is right.                               *)
Product(n, size) == (n * size) % WORD             \* faulty: not divided
CallocSize(n, size) ==
  LET req == (n * size) % WORD
  IN  IF n = 0 THEN 0
      ELSE IF (n >= ROOT \/ size >= ROOT) /\ req \div n # size THEN MAX_SIZE_T
      ELSE req
dlcalloc(n, size) ==
  /\ Call /\ Room(1)
  /\ Return(dlmalloc_(m, CallocSize(n, size)), n * size)

(* In place, or in a new block into which the contents are copied.         *)
Resized(h, mem, bytes) ==
  LET old == blocks[mem]
      n == IF old.bytes < bytes THEN old.bytes ELSE bytes
  IN  Outcome(h, DOMAIN blocks \ {mem},
              mem :> [bytes |-> bytes, intact |-> old.intact /\ ~Written(h, mem, n)])

Copied(got, h, mem, bytes) ==
  LET old == blocks[mem]
      copied == chunksize(m, mem2chunk(mem)) - CHUNK_OVERHEAD
      n == IF old.bytes < copied THEN old.bytes ELSE copied
  IN  Outcome(h, DOMAIN blocks \ {mem}, chunk2mem(got.p) :>
        [bytes |-> bytes,
         intact |-> /\ old.intact /\ ~Written(got.m, mem, n)
                    /\ copied >= bytes \/ copied >= old.bytes
                    /\ ~Written(h, chunk2mem(got.p), bytes)])

Moved(got, mem, bytes) ==
  IF got.p = Nil THEN Outcome(got.m, DOMAIN blocks, <<>>)
  ELSE Copied(got, dlfree_(got.m, mem2chunk(mem)), mem, bytes)

dlrealloc(mem, bytes) ==
  /\ Call
  /\ IF bytes >= MAX_REQUEST THEN Outcome(Halt(m).m, DOMAIN blocks, <<>>)
     ELSE \E tried \in {try_realloc_chunk(m, mem2chunk(mem), request2size(bytes))} :
            IF tried.p # Nil THEN Resized(tried.m, mem, bytes)
            ELSE Moved(dlmalloc_(m, bytes), mem, bytes)

dlrealloc_in_place(mem, bytes) ==
  /\ Call
  /\ IF bytes >= MAX_REQUEST THEN Outcome(Halt(m).m, DOMAIN blocks, <<>>)
     ELSE \E tried \in {try_realloc_chunk(m, mem2chunk(mem), request2size(bytes))} :
            IF tried.p # Nil THEN Resized(tried.m, mem, bytes)
            ELSE Outcome(m, DOMAIN blocks, <<>>)

dlmemalign(alignment, bytes) ==
  Call /\ Room(1) /\ Return(internal_memalign(m, alignment, bytes), bytes)

Independent(got, sizes, array) ==
  LET elements == {got.elements[i] : i \in DOMAIN sizes}
      new == [a \in {chunk2mem(p) : p \in elements \cup (IF array THEN {got.array} ELSE {})} |->
                IF mem2chunk(a) \in elements
                THEN Held(sizes[CHOOSE i \in DOMAIN sizes : got.elements[i] = mem2chunk(a)])
                ELSE Held(4 * Len(sizes))]
  IN  Outcome(got.m, DOMAIN blocks, IF got.p = Nil THEN <<>> ELSE new)
dlindependent_comalloc(sizes, array) ==
  /\ Call /\ Room(Len(sizes) + (IF array THEN 1 ELSE 0))
  /\ Independent(ialloc(m, sizes, array), sizes, array)

dlbulk_free(array) ==
  /\ Call
  /\ Outcome(internal_bulk_free(m, array), DOMAIN blocks \ {array[i] : i \in DOMAIN array}, <<>>)

dlmalloc_trim(pad) == Call /\ Outcome(sys_trim(m, pad), DOMAIN blocks, <<>>)

Pairs == {<<a, b>> : a, b \in DOMAIN blocks} \ {<<a, a>> : a \in DOMAIN blocks}

Next ==
  \/ \E n \in Requests : dlmalloc(n)
  \/ \E c \in Callocs : dlcalloc(c[1], c[2])
  \/ \E a \in DOMAIN blocks : dlfree(a)
  \/ \E a \in DOMAIN blocks, n \in Resizes : dlrealloc(a, n)
  \/ \E a \in DOMAIN blocks, n \in Resizes : dlrealloc_in_place(a, n)
  \/ \E c \in Alignments : dlmemalign(c[1], c[2])
  \/ \E sizes \in Groups, array \in BOOLEAN : dlindependent_comalloc(sizes, array)
  \/ \E pair \in Pairs : dlbulk_free(pair)
  \/ \E pad \in Pads : dlmalloc_trim(pad)

Spec == Init /\ [][Next]_vars
-----------------------------------------------------------------------------
(* Every byte of the heap belongs to one chunk, and the chunks know their  *)
(* neighbours.                                                             *)
Tiled ==
  LET C == Chunks(m)
      fence == m.top + m.topsize
  IN  m.top # Nil =>
        /\ {HEAP_ADDR, m.top, fence} \subseteq C /\ fence + TOP_FOOT_SIZE = m.end
        /\ m.head[HEAP_ADDR].p = 1
        /\ m.topsize > 0 /\ m.head[m.top] = [size |-> m.topsize, c |-> 0, p |-> 1]
        /\ m.head[fence].p = 0
        /\ \A p \in C \ {m.top, fence} :
             LET n == m.head[p]
             IN  /\ n.size >= MIN_CHUNK_SIZE /\ n.size % MALLOC_ALIGNMENT = 0
                 /\ n.c \in {0, 1} /\ n.p \in {0, 1}
                 /\ m.head[p + n.size].p = n.c
                 /\ n.c = 0 => n.p = 1 /\ prev_foot(m, p + n.size) = n.size

FreeChunks == {p \in Chunks(m) \ {m.top, m.top + m.topsize} : m.head[p].c = 0}

(* Every free chunk can be found, in one place, by its size.               *)
Binned ==
  /\ \A i \in DOMAIN m.small :
       /\ IsInjective(m.small[i])
       /\ \A k \in DOMAIN m.small[i] :
            m.small[i][k] \in FreeChunks \ {m.dv} /\ m.head[m.small[i][k]].size = i * 8
  /\ Bins!WellFormed(m.tree)
  /\ \A x \in DOMAIN m.tree.node :
       x \in FreeChunks \ {m.dv} /\ m.head[x].size = m.tree.node[x].size
  /\ m.dv # Nil => m.dv \in FreeChunks /\ m.head[m.dv].size = m.dvsize
  /\ m.dv = Nil <=> m.dvsize = 0
  /\ \A p \in FreeChunks \ {m.dv} :
       \/ p \in DOMAIN m.tree.node
       \/ \E i \in DOMAIN m.small : \E k \in DOMAIN m.small[i] : m.small[i][k] = p

(* The chunks in use are the blocks the program has; none wastes as much   *)
(* as a chunk of its own would take.                                       *)
Owned ==
  /\ {chunk2mem(p) : p \in {p \in Chunks(m) : m.head[p].c = 1}} = DOMAIN blocks
  /\ \A a \in DOMAIN blocks :
       LET s == m.head[mem2chunk(a)].size
       IN  /\ s - CHUNK_OVERHEAD >= blocks[a].bytes
           /\ s <= request2size(blocks[a].bytes) + MIN_CHUNK_SIZE

Consistent == ~m.halted => Tiled /\ Binned /\ Owned

(* Blocks lie apart, and keep what the program wrote into them.            *)
Abstract == INSTANCE Allocator WITH
  HeapBase <- HEAP_ADDR, HeapMax <- HEAP_ADDR_MAX, Alignment <- MALLOC_ALIGNMENT
Allocates == Abstract!Spec
=============================================================================
