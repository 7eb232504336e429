-------------------------------- MODULE Undo --------------------------------
(***************************************************************************)
(* Multiple undo of fastmem.c: init_undo, save_undo, restore_undo,         *)
(* free_undo and reset_memory.                                             *)
(*                                                                         *)
(* Snapshots are kept in a doubly linked list of blocks that hold only     *)
(* what differs from the snapshot before, as an exclusive or; prev_zmp is  *)
(* the one whole copy, that of the latest snapshot not yet undone.  Memory *)
(* is the set of its cells that are set, so that mem_diff and mem_undiff   *)
(* are symmetric differences (their encoding is left out).                 *)
(*                                                                         *)
(* save_undo runs without interruption, but is modelled loop by loop: it   *)
(* drops the blocks undone so far, makes room, and tries malloc, giving up *)
(* the oldest block each time it fails.                                    *)
(***************************************************************************)
EXTENDS Naturals, FiniteSets, Sequences

CONSTANTS
  Cell,          \* cells of dynamic memory
  Header,        \* the cells restart_header writes,
  HeaderSet,     \*   and those of them it sets
  Regs,          \* contents of the stack, sp, fp, frame_count and pc
  SLOTS,         \* f_setup.undo_slots (500 in fzos_init.c)
  Block,         \* blocks malloc can return
  NULL,
  MallocFails    \* whether malloc may return NULL

ASSUME UndoAssumption ==
  /\ HeaderSet \subseteq Header /\ Header \subseteq Cell
  /\ NULL \notin Block
  /\ SLOTS \in Nat /\ Cardinality(Block) >= SLOTS
  /\ MallocFails \in BOOLEAN

VARIABLES
  zmp,           \* dynamic memory
  prev_zmp,      \* its copy at the latest snapshot
  regs,
  undo_slots,
  live,          \* blocks in use
  block,         \* contents of the blocks: diff, registers, next, prev
  first_undo, last_undo, curr_undo, undo_count,
  undo_diff,     \* the difference being saved, else {}
  mode           \* "run", in save_undo "trim", "room", "alloc" or
                 \* "failed"; "closed" or "fault" at the end

list == <<live, block, first_undo, last_undo, curr_undo, undo_count>>
vars == <<zmp, prev_zmp, regs, undo_slots, list, undo_diff, mode>>

Memory == SUBSET Cell
Xor(a, b) == (a \ b) \cup (b \ a)
Restarted(memory) == (memory \ Header) \cup HeaderSet

EmptyBlock == [diff |-> {}, regs |-> CHOOSE r \in Regs : TRUE,
               next |-> NULL, prev |-> NULL]

(* init_undo; without memory for prev_zmp there is no undo at all.         *)
Init ==
  /\ zmp \in Memory /\ regs \in Regs
  /\ \/ undo_slots = SLOTS /\ prev_zmp = zmp
     \/ MallocFails /\ undo_slots = 0 /\ prev_zmp = {}
  /\ live = {} /\ block = [b \in Block |-> EmptyBlock]
  /\ first_undo = NULL /\ last_undo = NULL /\ curr_undo = NULL
  /\ undo_count = 0 /\ undo_diff = {} /\ mode = "run"
-----------------------------------------------------------------------------
(* The story file runs: stores, calls, z_restart, z_restore.               *)
Run ==
  /\ mode = "run"
  /\ zmp' \in Memory /\ regs' \in Regs
  /\ UNCHANGED <<prev_zmp, undo_slots, list, undo_diff, mode>>

(* free_undo(1).  What a freed block holds is lost.                        *)
FreeFirstWith(curr) ==
  LET next  == block[first_undo].next
      freed == [block EXCEPT ![first_undo] = EmptyBlock]
  IN  /\ live' = live \ {first_undo}
      /\ curr_undo' = curr
      /\ first_undo' = next
      /\ undo_count' = undo_count - 1
      /\ IF next = NULL THEN last_undo' = NULL /\ block' = freed
         ELSE block' = [freed EXCEPT ![next].prev = NULL] /\ UNCHANGED last_undo

FreeFirstKeepCurr == FreeFirstWith(curr_undo)  \* faulty: curr_undo dangles
FreeFirst ==
  FreeFirstWith(IF curr_undo = first_undo THEN block[first_undo].next ELSE curr_undo)

(* save_undo begins.                                                       *)
BeginSave ==
  /\ mode = "run" /\ undo_slots # 0
  /\ mode' = "trim"
  /\ UNCHANGED <<zmp, prev_zmp, regs, undo_slots, list, undo_diff>>

(* while (last_undo != curr_undo): a block that was undone is dropped.     *)
DropUndone ==
  /\ mode = "trim" /\ last_undo # curr_undo
  /\ last_undo' = block[last_undo].prev
  /\ live' = live \ {last_undo}
  /\ block' = [block EXCEPT ![last_undo] = EmptyBlock]
  /\ undo_count' = undo_count - 1
  /\ UNCHANGED <<zmp, prev_zmp, regs, undo_slots, first_undo, curr_undo,
                 undo_diff, mode>>

(* The list ends at the block that is current now.                         *)
EndTrim ==
  /\ mode = "trim" /\ last_undo = curr_undo
  /\ IF last_undo = NULL THEN first_undo' = NULL /\ UNCHANGED block
     ELSE block' = [block EXCEPT ![last_undo].next = NULL] /\ UNCHANGED first_undo
  /\ mode' = "room"
  /\ UNCHANGED <<zmp, prev_zmp, regs, undo_slots, live, last_undo, curr_undo,
                 undo_count, undo_diff>>

Full == undo_count = undo_slots

(* The oldest block goes if the list is full; mem_diff copies memory to    *)
(* prev_zmp as it compares them.                                           *)
MakeDiff ==
  /\ mode = "room"
  /\ IF Full THEN FreeFirst ELSE UNCHANGED list
  /\ undo_diff' = Xor(zmp, prev_zmp)
  /\ prev_zmp' = zmp
  /\ mode' = "alloc"
  /\ UNCHANGED <<zmp, regs, undo_slots>>

(* malloc returns NULL: the oldest block goes and malloc is tried again,   *)
(* until no block is left.                                                 *)
AllocFails ==
  /\ mode = "alloc" /\ MallocFails
  /\ mode' = "failed"
  /\ UNCHANGED <<zmp, prev_zmp, regs, undo_slots, list, undo_diff>>

GiveUpNever == FALSE                           \* faulty: while (!p)
GiveUp == undo_count' = 0

AllocAgain ==
  /\ mode = "failed"
  /\ IF undo_count > 0 THEN FreeFirst ELSE UNCHANGED list
  /\ IF GiveUp THEN mode' = "run" /\ undo_diff' = {}
     ELSE mode' = "alloc" /\ UNCHANGED undo_diff
  /\ UNCHANGED <<zmp, prev_zmp, regs, undo_slots>>

(* malloc succeeds: the new block becomes the last and the current one.    *)
Alloc(p) ==
  /\ mode = "alloc" /\ p \in Block \ live
  /\ LET new == [diff |-> undo_diff, regs |-> regs, next |-> NULL,
                 prev |-> IF first_undo = NULL THEN NULL ELSE last_undo]
     IN  IF first_undo = NULL
         THEN first_undo' = p /\ block' = [block EXCEPT ![p] = new]
         ELSE /\ block' = [block EXCEPT ![p] = new, ![last_undo].next = p]
              /\ UNCHANGED first_undo
  /\ last_undo' = p /\ curr_undo' = p
  /\ live' = live \cup {p}
  /\ undo_count' = undo_count + 1
  /\ undo_diff' = {} /\ mode' = "run"
  /\ UNCHANGED <<zmp, prev_zmp, regs, undo_slots>>

(* mem_undiff turns prev_zmp into the copy of the snapshot before.         *)
SameMemory == prev_zmp                         \* faulty: no mem_undiff
EarlierMemory == Xor(prev_zmp, block[curr_undo].diff)

(* restore_undo, from z_restore_undo or the hot key.  curr_undo->pc is     *)
(* read before the test for NULL: page 0 is not mapped, the machine halts. *)
Restore ==
  /\ mode = "run"
  /\ IF curr_undo = NULL
     THEN mode' = "fault" /\ UNCHANGED <<zmp, regs, prev_zmp, curr_undo>>
     ELSE /\ zmp' = Restarted(prev_zmp)
          /\ regs' = block[curr_undo].regs
          /\ prev_zmp' = EarlierMemory
          /\ curr_undo' = block[curr_undo].prev
          /\ UNCHANGED mode
  /\ UNCHANGED <<undo_slots, live, block, first_undo, last_undo, undo_count, undo_diff>>

(* reset_memory, when the game is over.                                    *)
Reset ==
  /\ mode = "run"
  /\ live' = {} /\ first_undo' = NULL /\ last_undo' = NULL /\ undo_count' = 0
  /\ curr_undo' = NULL
  /\ block' = [b \in Block |-> EmptyBlock]
  /\ mode' = "closed"
  /\ UNCHANGED <<zmp, prev_zmp, regs, undo_slots, undo_diff>>

SaveStep == DropUndone \/ EndTrim \/ MakeDiff \/ AllocFails \/ AllocAgain
            \/ (\E p \in Block : Alloc(p))

Next == Run \/ BeginSave \/ SaveStep \/ Restore \/ Reset

Spec == Init /\ [][Next]_vars

(* save_undo runs to its end: nothing in it waits.                         *)
FairSpec == Spec /\ WF_vars(SaveStep)
-----------------------------------------------------------------------------
TypeOK ==
  /\ zmp \in Memory /\ prev_zmp \in Memory /\ regs \in Regs
  /\ undo_slots \in {0, SLOTS}
  /\ live \subseteq Block
  /\ block \in [Block -> [diff : Memory, regs : Regs,
                          next : Block \cup {NULL}, prev : Block \cup {NULL}]]
  /\ {first_undo, last_undo, curr_undo} \subseteq Block \cup {NULL}
  /\ undo_count \in 0..SLOTS
  /\ undo_diff \in Memory
  /\ mode \in {"run", "trim", "room", "alloc", "failed", "closed", "fault"}

At(b) == IF b = NULL THEN EmptyBlock ELSE block[b]

(* The k-th block of the list.                                             *)
Nth[k \in 1..SLOTS] == IF k = 1 THEN first_undo ELSE At(Nth[k - 1]).next

(* Blocks are dropped at both ends of the list, and the current one may be *)
(* any of them or none: the two chains of pointers always run through the  *)
(* same undo_count blocks, which are exactly those not freed, and neither  *)
(* last_undo nor curr_undo is ever left pointing to a freed block.         *)
ListIntact ==
  /\ TypeOK
  /\ {last_undo, curr_undo} \subseteq live \cup {NULL}
  /\ undo_count = Cardinality(live)
  /\ mode # "trim" =>
       /\ {Nth[k] : k \in 1..undo_count} = live
       /\ first_undo = NULL <=> undo_count = 0
       /\ last_undo = IF undo_count = 0 THEN NULL ELSE Nth[undo_count]
       /\ At(last_undo).next = NULL
       /\ \A k \in 1..undo_count :
            block[Nth[k]].prev = IF k = 1 THEN NULL ELSE Nth[k - 1]

(* Whatever malloc answers, save_undo ends: each failure costs a snapshot, *)
(* and it gives up when none is left.                                      *)
SaveTerminates == mode \in {"trim", "room", "alloc", "failed"} ~> mode = "run"
-----------------------------------------------------------------------------
(***************************************************************************)
(* Undo implements UndoHistory.  The snapshots are not stored anywhere:    *)
(* the memory of the latest is prev_zmp, and that of each one before it    *)
(* comes from applying one more difference.                                *)
(***************************************************************************)

(* Between mem_diff and the new block, prev_zmp is ahead by undo_diff.     *)
LatestMemory == IF mode \in {"alloc", "failed"} THEN Xor(prev_zmp, undo_diff) ELSE prev_zmp

(* The k-th snapshot back from the current one: its block and its memory.  *)
Back[k \in 0..SLOTS] == IF k = 0 THEN curr_undo ELSE At(Back[k - 1]).prev
MemoryAt[k \in 0..SLOTS] ==
  IF k = 0 THEN LatestMemory ELSE Xor(MemoryAt[k - 1], At(Back[k - 1]).diff)

Depth == Cardinality({k \in 0..SLOTS : Back[k] # NULL})

Snapshot(k) == [memory |-> MemoryAt[k], regs |-> block[Back[k]].regs]

History == INSTANCE UndoHistory WITH
             memory <- zmp, saved <- [i \in 1..Depth |-> Snapshot(Depth - i)],
             MayForget <- MallocFails

(* Each restore brings back the whole state of the latest save not undone  *)
(* yet, although only differences are kept, memory has changed since in    *)
(* any way, restart_header has patched what earlier restores brought back, *)
(* and the oldest and the undone blocks have been freed.                   *)
ImplementsHistory == History!Spec
=============================================================================
