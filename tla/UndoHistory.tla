---------------------------- MODULE UndoHistory ----------------------------
(***************************************************************************)
(* What save_undo and restore_undo promise: a bounded stack of snapshots.  *)
(* A save remembers the whole state, forgetting the oldest one when there  *)
(* is no room; a restore brings back the latest one, which is then used    *)
(* up.                                                                     *)
(***************************************************************************)
EXTENDS Naturals, Sequences

CONSTANTS
  Memory,             \* contents of dynamic memory
  Regs,               \* contents of the stack, sp, fp, frame_count and pc
  Restarted(_),       \* what restart_header makes of a memory
  SLOTS,              \* most snapshots
  MayForget           \* whether memory may be too short for a snapshot

VARIABLES memory, regs, saved

Run ==
  /\ memory' \in Memory /\ regs' \in Regs
  /\ UNCHANGED saved

Save ==
  /\ Len(saved) < SLOTS
  /\ saved' = Append(saved, [memory |-> memory, regs |-> regs])
  /\ UNCHANGED <<memory, regs>>

Forget ==
  /\ saved # <<>>
  /\ Len(saved) = SLOTS \/ MayForget
  /\ saved' = Tail(saved)
  /\ UNCHANGED <<memory, regs>>

Restore ==
  /\ saved # <<>>
  /\ LET latest == saved[Len(saved)]
     IN  memory' = Restarted(latest.memory) /\ regs' = latest.regs
  /\ saved' = SubSeq(saved, 1, Len(saved) - 1)

Close == saved' = <<>> /\ UNCHANGED <<memory, regs>>

Init == memory \in Memory /\ regs \in Regs /\ saved = <<>>

Next == Run \/ Save \/ Forget \/ Restore \/ Close

Spec == Init /\ [][Next]_<<memory, regs, saved>>
=============================================================================
