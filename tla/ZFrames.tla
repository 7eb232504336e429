------------------------------ MODULE ZFrames ------------------------------
(***************************************************************************)
(* What the call stack of process.c promises to the story file, without    *)
(* an array: a routine call is a frame of its own, with its locals and its *)
(* evaluation stack, and nothing a routine does while it runs can reach    *)
(* the frames of its callers.  A return resumes the caller where it        *)
(* called and delivers the value as the call type asks; a throw does this  *)
(* for an older frame and forgets the frames above it.                     *)
(***************************************************************************)
EXTENDS Integers, Sequences

CONSTANTS MaxLocals, START_PC

VARIABLES
  frames,    \* the frames, oldest first; the first is the main routine
  pc,
  loops,     \* loops of interpret() inside the outermost one
  mode

vars == <<frames, pc, loops, mode>>

MainFrame == [pc |-> 0, ct |-> 1, argc |-> 0, locals |-> <<>>, eval |-> <<>>]

Init == frames = <<MainFrame>> /\ pc = START_PC /\ loops = 0 /\ mode = "fetch"

Running == mode \in {"fetch", "opcode"}

(* The frames below the n-th are untouched, and so is the header of the    *)
(* n-th, which becomes the youngest.                                       *)
Protects(n) ==
  /\ Len(frames') = n
  /\ \A i \in 1..(n - 1) : frames'[i] = frames[i]
  /\ \A field \in {"pc", "ct", "argc"} : frames'[n][field] = frames[n][field]
  /\ Len(frames'[n].locals) = Len(frames[n].locals)

(* An opcode works on the running routine's locals and evaluation stack.   *)
Work == Running /\ Protects(Len(frames)) /\ UNCHANGED loops

(* A call: the new frame remembers the pc and starts with an empty stack.  *)
Call ==
  /\ Running
  /\ Len(frames') = Len(frames) + 1
  /\ \A i \in 1..Len(frames) : frames'[i] = frames[i]
  /\ LET new == frames'[Len(frames')]
     IN  /\ new.pc = pc /\ new.eval = <<>>
         /\ Len(new.locals) <= MaxLocals
         /\ new.ct = 2 <=> mode = "opcode"
         /\ loops' = IF new.ct = 2 THEN loops + 1 ELSE loops

(* The value is pushed on the caller's stack, or written to one local, or  *)
(* goes to a global variable.                                              *)
Stored(old, new) ==
  \/ /\ Len(new.eval) = Len(old.eval) + 1
     /\ SubSeq(new.eval, 1, Len(old.eval)) = old.eval
     /\ new.locals = old.locals
  \/ /\ new.eval = old.eval
     /\ \E v \in DOMAIN old.locals :
          \A w \in DOMAIN old.locals \ {v} : new.locals[w] = old.locals[w]
  \/ new = old

(* Return from the k-th frame, which need not be the youngest (z_throw).   *)
ReturnFrom(k) ==
  LET callee == frames[k]
      old    == frames[k - 1]
      new    == frames'[k - 1]
  IN  /\ mode = "fetch"
      /\ Protects(k - 1)
      /\ CASE callee.ct = 0 -> Stored(old, new) /\ pc' = callee.pc + 1
           [] callee.ct = 1 -> new = old /\ pc' = callee.pc
           [] OTHER -> /\ Len(new.eval) = Len(old.eval) + 1
                       /\ SubSeq(new.eval, 1, Len(old.eval)) = old.eval
                       /\ new.locals = old.locals
                       /\ pc' = callee.pc /\ mode' = "leave"
      /\ UNCHANGED loops

(* A direct call ends: its result is popped and the opcode continues.      *)
Leave ==
  /\ mode = "leave"
  /\ UNCHANGED pc
  /\ IF loops = 0 THEN mode' = "stopped" /\ UNCHANGED <<frames, loops>>
     ELSE /\ loops' = loops - 1
          /\ \/ /\ mode' = "opcode" /\ Protects(Len(frames))
                /\ LET n == Len(frames)
                   IN  frames'[n].eval =
                         SubSeq(frames[n].eval, 1, Len(frames[n].eval) - 1)
             \/ mode' = "overrun" /\ UNCHANGED frames

Restart ==
  /\ mode = "fetch"
  /\ frames' = <<MainFrame>> /\ pc' = START_PC
  /\ UNCHANGED loops

Overrun == Running /\ mode' = "overrun" /\ UNCHANGED <<frames, pc, loops>>

Next ==
  \/ Work
  \/ Call
  \/ \E k \in 2..Len(frames) : ReturnFrom(k)
  \/ Leave
  \/ Restart
  \/ Overrun

Spec == Init /\ [][Next]_vars
=============================================================================
