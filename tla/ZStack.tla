------------------------------- MODULE ZStack -------------------------------
(***************************************************************************)
(* The call stack of the Z-machine interpreter: process.c (call, ret,      *)
(* direct_call, interpret, z_catch, z_throw), the stack operations of      *)
(* variable.c and z_restart of fastmem.c.                                  *)
(*                                                                         *)
(* The program keeps frames, locals and evaluation stacks in one array of  *)
(* zwords that grows downwards, with the pointers sp and fp.  Here the     *)
(* live words are the sequence "stack", oldest first: the array index of   *)
(* its d-th word is STACK_SIZE - d, sp is STACK_SIZE - Len(stack), and     *)
(* "fp" counts the words at and above the frame pointer, so that the C     *)
(* expressions *fp, fp[1] and *(fp - v) are stack[fp], stack[fp - 1] and   *)
(* stack[fp + v].  Words below sp are dead: the code never reads them.     *)
(*                                                                         *)
(* interpret() is re-entered by direct_call for timed input, newline and   *)
(* sound interrupts; "calls" is the part of the C stack this leaves        *)
(* behind.  Opcodes are abstracted to what they do to the stack.  The      *)
(* story file is assumed legal (routine headers, no underflow, no return   *)
(* from the main routine), but it may recurse until the array is full.     *)
(***************************************************************************)
EXTENDS Integers, Sequences, FiniteSets

CONSTANTS
  STACK_SIZE,   \* words in the array (1024 in frotz.h)
  MaxLocals,    \* largest local count of a routine (15 in the format)
  MaxArgs,      \* largest argument count of a call (7 in the format)
  MaxCalls,     \* bound: nested direct calls
  MaxEval,      \* bound: words a routine has pushed when it pushes or calls
  Word,         \* values that opcodes compute
  PC,           \* bound: byte addresses where opcodes that call end
  ROUTINES,     \* byte addresses of routine headers
  START_PC,     \* h_start_pc
  Abrupt        \* how an interrupt routine may end other than by returning

ASSUME StackAssumption ==
  /\ STACK_SIZE \in Nat /\ STACK_SIZE < 65536
  /\ MaxLocals \in 0..15
  /\ MaxArgs \in 0..7
  /\ MaxCalls \in Nat /\ MaxEval \in Nat
  /\ Word \subseteq Nat /\ Word # {}
  /\ PC \subseteq Nat /\ START_PC \in PC /\ ROUTINES \subseteq Nat
  /\ Abrupt \subseteq {"throw", "restart", "quit"}

VARIABLES
  stack,        \* live words of stack[], oldest first
  fp,           \* words at and above the frame pointer
  frame_count,
  pc,
  zargs,        \* operands of an opcode that may be interrupted, else 0
  finished,
  calls,        \* pending activations of direct_call
  mode,         \* where interpret() is, see below
  throw,        \* the z_throw being executed, and where it started
  frames        \* history: what each call in progress pushed (never read)

vars == <<stack, fp, frame_count, pc, zargs, finished, calls, mode, throw, frames>>

(* "fetch":   the loop of interpret() is about to execute an opcode,       *)
(* "opcode":  inside an opcode that may call a routine directly,           *)
(* "unwind":  inside the loop of z_throw,                                  *)
(* "leave":   the loop condition was false, interpret() returns,           *)
(* "stopped": the outermost interpret() returned to main,                  *)
(* "overrun": sp left the array, or a result was popped that the frame     *)
(*            does not hold; what follows is undefined.                    *)
Modes == {"fetch", "opcode", "unwind", "leave", "stopped", "overrun"}

Global == 16                    \* variables from 16 on are not on the stack
QUIT   == 9999                  \* z_quit's value of finished

Pop(s) == SubSeq(s, 1, Len(s) - 1)

(* The header word of a frame: argc | count << 8 | ct << 12.               *)
HeaderWord(argc, count, ct) == argc + 256 * count + 4096 * ct
LocalCount(s, f) == IF f = 0 THEN 0 ELSE (s[f] \div 256) % 16
CallType(s, f) == s[f] \div 4096

(* fp[1], the caller's frame pointer as stored by call(), and the inverse. *)
LinkNotAdjusted(f) == STACK_SIZE - f                        \* faulty: no - 1
Link(f) == STACK_SIZE - f - 1
Caller(s, f) == STACK_SIZE - (s[f - 1] + 1)
ReturnPcSwapped(s, f) == 512 * s[f - 2] + s[f - 3]    \* faulty: pop order
ReturnPc(s, f) == 512 * s[f - 3] + s[f - 2]

Variables(s, f) == {0, Global} \cup 1..LocalCount(s, f)
HasOperand == Len(stack) > fp + LocalCount(stack, fp)
Shallow(n) == Len(stack) - fp - LocalCount(stack, fp) + n <= MaxEval
RoomOffByOne(n) == Len(stack) + n <= STACK_SIZE + 1      \* faulty: bound
Room(n) == Len(stack) + n <= STACK_SIZE

(* What ret() leaves in finished for a frame of call type ct.              *)
NextFinishedNever(ct) == finished                   \* faulty: loop not left
NextFinished(ct) == IF ct = 2 THEN finished + 1 ELSE finished

(* The stack once direct_call has read its result with *sp++.              *)
ResultKept == stack                              \* faulty: *sp for *sp++
ResultPopped == Pop(stack)

(* store(): push the value or write a local of the frame f.                *)
Store(s, f, variable, value) ==
  IF variable = 0 THEN Append(s, value)
  ELSE IF variable < Global THEN [s EXCEPT ![f + variable] = value]
  ELSE s

(* The loop condition of interpret() after an opcode.                      *)
EndOpcode == mode' = IF finished' = 0 THEN "fetch" ELSE "leave"

Fetch == mode = "fetch"

NoThrow == [to |-> 0, value |-> 0, fp |-> 0, frame_count |-> 0]

Init ==
  /\ stack = <<>> /\ fp = 0 /\ frame_count = 0
  /\ pc = START_PC /\ zargs = 0
  /\ finished = 0 /\ calls = <<>> /\ mode = "fetch"
  /\ throw = NoThrow /\ frames = <<>>
-----------------------------------------------------------------------------
(* Opcodes that do not call or return.                                     *)

(* Jumps, branches and everything that leaves the stack alone.             *)
Compute(target) ==
  /\ Fetch
  /\ pc' = target /\ zargs' = 0
  /\ UNCHANGED <<stack, fp, frame_count, finished, calls, throw, frames>>
  /\ EndOpcode

(* z_push, and any opcode whose result is stored (z_load, z_add, ...).     *)
StoreResult(variable, value) ==
  /\ Fetch /\ Room(1) /\ Shallow(1)
  /\ variable \in Variables(stack, fp)
  /\ stack' = Store(stack, fp, variable, value)
  /\ zargs' = 0
  /\ UNCHANGED <<fp, frame_count, pc, finished, calls, throw, frames>>
  /\ EndOpcode

(* z_pop, and an operand taken from the stack by load_operand.             *)
PopOperand ==
  /\ Fetch /\ HasOperand
  /\ stack' = Pop(stack)
  /\ zargs' = 0
  /\ UNCHANGED <<fp, frame_count, pc, finished, calls, throw, frames>>
  /\ EndOpcode

(* z_store, z_inc, z_dec: variable 0 is overwritten in place, not pushed.  *)
WriteVariable(variable, value) ==
  /\ Fetch
  /\ variable \in Variables(stack, fp)
  /\ variable = 0 => HasOperand
  /\ stack' = IF variable = 0 THEN [stack EXCEPT ![Len(stack)] = value]
              ELSE Store(stack, fp, variable, value)
  /\ zargs' = 0
  /\ UNCHANGED <<fp, frame_count, pc, finished, calls, throw, frames>>
  /\ EndOpcode

(* z_pull: pop, then overwrite a variable; variable 0 is the new top.      *)
Pull(variable) ==
  LET value == stack[Len(stack)]
      rest  == Pop(stack)
  IN  /\ Fetch /\ HasOperand
      /\ variable \in Variables(stack, fp)
      /\ variable = 0 => Len(rest) > fp + LocalCount(stack, fp)
      /\ stack' = IF variable = 0 THEN [rest EXCEPT ![Len(rest)] = value]
                  ELSE Store(rest, fp, variable, value)
      /\ zargs' = 0
      /\ UNCHANGED <<fp, frame_count, pc, finished, calls, throw, frames>>
      /\ EndOpcode
-----------------------------------------------------------------------------
(* A routine's locals start as its arguments, and zero beyond them (as     *)
(* from version 5 on).                                                     *)
Locals(count, args) == [i \in 1..count |-> IF i <= Len(args) THEN args[i] ELSE 0]

(* call(): save pc and fp, open a frame and initialise the locals.         *)
Call(routine, count, args, ct) ==
  LET argc == Len(args)
      base == Len(stack) + 4
  IN  /\ Room(4 + count) /\ Shallow(0) /\ pc \in PC
      /\ stack' = stack \o <<pc \div 512, pc % 512, Link(fp),
                             HeaderWord(argc, count, ct)>> \o Locals(count, args)
      /\ fp' = base
      /\ frame_count' = frame_count + 1
      /\ pc' = routine + 1
      /\ frames' = Append(frames, [base |-> base, pc |-> pc, ct |-> ct,
                                   argc |-> argc, count |-> count])

(* z_call_s and z_call_n.                                                  *)
CallRoutine(routine, count, args, ct) ==
  /\ Fetch
  /\ Call(routine, count, args, ct)
  /\ zargs' = 0
  /\ UNCHANGED <<finished, calls, throw>>
  /\ EndOpcode

(* ret(): drop the current frame and everything above it, resume the       *)
(* caller and deliver the value as the call type says.                     *)
Ret(value, variable) ==
  LET ct   == CallType(stack, fp)
      rest == SubSeq(stack, 1, fp - 4)
  IN  /\ frame_count > 0
      /\ frame_count' = frame_count - 1
      /\ fp' = Caller(stack, fp)
      /\ variable \in IF ct = 0 THEN Variables(rest, fp') ELSE {Global}
      /\ pc' = IF ct = 0 THEN ReturnPc(stack, fp) + 1 ELSE ReturnPc(stack, fp)
      /\ stack' = CASE ct = 0 -> Store(rest, fp', variable, value)
                    [] ct = 1 -> rest
                    [] OTHER  -> Append(rest, value)
      /\ finished' = NextFinished(ct)
      /\ frames' = Pop(frames)
      /\ zargs' = 0
      /\ UNCHANGED calls
      /\ EndOpcode

(* z_ret, z_rtrue, z_rfalse and a branch with offset 0 or 1.               *)
Return(value, variable) == Fetch /\ Ret(value, variable) /\ UNCHANGED throw

(* z_ret_popped: the value comes off the evaluation stack.                 *)
ReturnPopped(variable) ==
  HasOperand /\ Return(stack[Len(stack)], variable)

(* z_catch: the frame's number is its catch value.                         *)
Catch(variable) == StoreResult(variable, frame_count)

(* Frames that were opened by direct_call.                                 *)
DirectFrames == {i \in DOMAIN frames : frames[i].ct = 2}

(* z_throw to the frame numbered n; a number that is too large is only     *)
(* reported, and the current routine returns.                              *)
Throw(value, n) ==
  /\ Fetch /\ n > 0 /\ frame_count > 0
  /\ "throw" \in Abrupt \/ \A i \in DirectFrames : i <= n
  /\ mode' = "unwind"
  /\ throw' = [to |-> n, value |-> value, fp |-> fp, frame_count |-> frame_count]
  /\ UNCHANGED <<stack, fp, frame_count, pc, zargs, finished, calls, frames>>

Unwind ==
  /\ mode = "unwind" /\ frame_count > throw.to
  /\ fp' = Caller(stack, fp)
  /\ frame_count' = frame_count - 1
  /\ frames' = Pop(frames)
  /\ UNCHANGED <<stack, pc, zargs, finished, calls, mode, throw>>

EndThrow(variable) ==
  /\ mode = "unwind" /\ frame_count <= throw.to
  /\ Ret(throw.value, variable)
  /\ throw' = NoThrow
-----------------------------------------------------------------------------
(* Direct calls.                                                           *)

(* z_read, z_read_char and printing may call a routine before they end.    *)
BeginOpcode(operand) ==
  /\ Fetch
  /\ mode' = "opcode" /\ zargs' = operand
  /\ UNCHANGED <<stack, fp, frame_count, pc, finished, calls, throw, frames>>

(* direct_call: save the operands and start a loop of its own.             *)
DirectCall(routine, count) ==
  /\ mode = "opcode" /\ Len(calls) < MaxCalls
  /\ Call(routine, count, <<>>, 2)
  /\ calls' = Append(calls, [zargs |-> zargs, stack |-> stack, fp |-> fp,
                             frame_count |-> frame_count, pc |-> pc])
  /\ mode' = "fetch"
  /\ UNCHANGED <<zargs, finished, throw>>

(* The opcode completes; an input opcode stores its result.                *)
FinishOpcode(variable, value) ==
  /\ mode = "opcode" /\ Room(1) /\ Shallow(1)
  /\ variable \in Variables(stack, fp)
  /\ stack' = Store(stack, fp, variable, value)
  /\ UNCHANGED <<fp, frame_count, pc, zargs, finished, calls, throw, frames>>
  /\ EndOpcode

(* interpret() returns to direct_call, which pops the result, restores the *)
(* operands and goes back into the opcode; the outermost one returns to    *)
(* main.                                                                   *)
Leave ==
  /\ mode = "leave"
  /\ finished' = finished - 1
  /\ IF calls = <<>>
     THEN /\ mode' = "stopped"
          /\ UNCHANGED <<stack, zargs, calls>>
     ELSE /\ zargs' = calls[Len(calls)].zargs
          /\ calls' = Pop(calls)
          /\ IF HasOperand
             THEN mode' = "opcode" /\ stack' = ResultPopped
             ELSE mode' = "overrun" /\ UNCHANGED stack
  /\ UNCHANGED <<fp, frame_count, pc, throw, frames>>
-----------------------------------------------------------------------------
InInterrupt == calls # <<>>

(* z_quit.                                                                 *)
Quit ==
  /\ Fetch
  /\ InInterrupt => "quit" \in Abrupt
  /\ finished' = QUIT
  /\ UNCHANGED <<stack, fp, frame_count, pc, zargs, calls, throw, frames>>
  /\ EndOpcode

(* z_restart: the stack is emptied, the loops of interpret() are not left. *)
(* Version 6, where the code then calls a main routine, is left out.       *)
Restart ==
  /\ Fetch
  /\ InInterrupt => "restart" \in Abrupt
  /\ stack' = <<>> /\ fp' = 0 /\ frame_count' = 0 /\ frames' = <<>>
  /\ pc' = START_PC
  /\ UNCHANGED <<zargs, finished, calls, throw>>
  /\ EndOpcode

(* A call or a push without room: the checks of call() only report, there  *)
(* is none in z_push, and the words below the array are overwritten.       *)
Overrun ==
  /\ mode \in {"fetch", "opcode"} /\ ~Room(4 + MaxLocals)
  /\ mode' = "overrun"
  /\ UNCHANGED <<stack, fp, frame_count, pc, zargs, finished, calls, throw, frames>>

Opcode ==
  \/ \E target \in PC : Compute(target)
  \/ \E variable \in 0..Global, value \in Word :
       \/ StoreResult(variable, value)
       \/ WriteVariable(variable, value)
       \/ Return(value, variable)
  \/ \E variable \in 0..Global :
       Pull(variable) \/ Catch(variable) \/ ReturnPopped(variable)
  \/ PopOperand
  \/ \E n \in 1..(frame_count + 1), value \in Word : Throw(value, n)
  \/ Unwind
  \/ \E variable \in 0..Global : EndThrow(variable)
  \/ \E routine \in ROUTINES, count \in 0..MaxLocals, ct \in {0, 1}, argc \in 0..MaxArgs :
       \E args \in [1..argc -> Word] : CallRoutine(routine, count, args, ct)
  \/ \E operand \in Word : BeginOpcode(operand)
  \/ Quit
  \/ Restart

Interrupt ==
  \/ \E routine \in ROUTINES, count \in 0..MaxLocals : DirectCall(routine, count)
  \/ \E variable \in 0..Global, value \in Word : FinishOpcode(variable, value)
  \/ Leave

Next == Opcode \/ Interrupt \/ Overrun

Spec == Init /\ [][Next]_vars
-----------------------------------------------------------------------------
CallRecord == [zargs : Nat, stack : Seq(Nat), fp : Nat, frame_count : Nat, pc : Nat]
FrameRecord == [base : Nat, pc : Nat, ct : 0..2, argc : 0..MaxArgs, count : 0..MaxLocals]

TypeOK ==
  /\ stack \in Seq(Nat) /\ Len(stack) <= STACK_SIZE
  /\ fp \in Nat /\ frame_count \in Nat
  /\ pc \in Nat /\ zargs \in Nat
  /\ finished \in Int
  /\ calls \in Seq(CallRecord)
  /\ mode \in Modes
  /\ throw \in [to : Nat, value : Nat, fp : Nat, frame_count : Nat]
  /\ frames \in Seq(FrameRecord)

FrameBase(i) == IF i = 0 THEN 0 ELSE frames[i].base
FrameTop(i)  == IF i = 0 THEN 0 ELSE frames[i].base + frames[i].count

FramesDisjoint ==
  \A i \in 1..frame_count : \A j \in 0..(i - 1) :
    FrameTop(j) + 4 <= frames[i].base

HeaderIntact(i) ==
  LET f == frames[i].base
  IN  /\ Caller(stack, f) = FrameBase(i - 1)
      /\ ReturnPc(stack, f) = frames[i].pc
      /\ stack[f] = HeaderWord(frames[i].argc, frames[i].count, frames[i].ct)

(* Whatever is pushed, popped, stored, returned or thrown, the headers on  *)
(* the stack are those of the calls in progress: following fp[1] from fp   *)
(* visits exactly frame_count frames, each lies above the locals of those  *)
(* below it, and each still holds the caller's pc, the argument and local  *)
(* counts and the call type that call() pushed.  ret(), z_throw,           *)
(* z_check_arg_count and save_quetzal rely on it.                          *)
FrameIntegrity ==
  /\ Len(frames) = frame_count
  /\ fp = FrameBase(frame_count)
  /\ FrameTop(frame_count) <= Len(stack)
  /\ FramesDisjoint
  /\ \A i \in 1..frame_count : HeaderIntact(i)

(* ret() ends a loop of interpret() for each direct call that finishes     *)
(* (process.c:394-399): while the game runs, there are as many loops       *)
(* inside the outermost one as frames opened by direct_call.               *)
LoopPerDirectCall == finished = 0 => Cardinality(DirectFrames) = Len(calls)

(* The opcode that direct_call interrupts cannot tell that a routine ran:  *)
(* when direct_call returns, the whole stack, fp, frame_count, the pc and  *)
(* the operands are what they were when it was called.                     *)
DirectCallTransparent ==
  [][Len(calls') < Len(calls) =>
       LET saved == calls[Len(calls)]
       IN  saved = [zargs |-> zargs', stack |-> stack', fp |-> fp',
                    frame_count |-> frame_count', pc |-> pc']]_vars
-----------------------------------------------------------------------------
(***************************************************************************)
(* ZStack implements ZFrames: the frames are read off the array by         *)
(* following the links from fp, as z_throw and save_quetzal do.            *)
(***************************************************************************)

(* While z_throw unwinds, nothing has happened yet for the story file.     *)
Unwinding == mode = "unwind"
TopFrame  == IF Unwinding THEN throw.fp ELSE fp
Depth     == IF Unwinding THEN throw.frame_count ELSE frame_count

(* The frame pointer k links down from the top.                            *)
Down[k \in 0..Depth] == IF k = 0 THEN TopFrame ELSE Caller(stack, Down[k - 1])

(* The position of frame i's header word, the main routine being frame 0.  *)
HeaderAt(i) == IF i = 0 THEN 0 ELSE Down[Depth - i]

(* The last word of frame i: the next frame's header starts four words on. *)
EndOf(i) == IF i = Depth THEN Len(stack) ELSE HeaderAt(i + 1) - 4

FrameOnStack(i) ==
  LET f == HeaderAt(i)
      n == LocalCount(stack, f)
  IN  [pc     |-> IF i = 0 THEN 0 ELSE ReturnPc(stack, f),
       ct     |-> IF i = 0 THEN 1 ELSE CallType(stack, f),
       argc   |-> IF i = 0 THEN 0 ELSE stack[f] % 256,
       locals |-> SubSeq(stack, f + 1, f + n),
       eval   |-> SubSeq(stack, f + n + 1, EndOf(i))]

FramesOnStack == [i \in 1..(Depth + 1) |-> FrameOnStack(i - 1)]

Frames == INSTANCE ZFrames WITH
            frames <- FramesOnStack, loops <- Len(calls),
            mode <- IF Unwinding THEN "fetch" ELSE mode

(* The array of zwords with its two pointers behaves as separate frames:   *)
(* a callee never touches a caller's locals or evaluation stack, a return  *)
(* or a throw to frame k resumes the caller of frame k with its stack as   *)
(* it left it, and a direct call's result is the only trace it leaves.     *)
ImplementsFrames == Frames!Spec
=============================================================================
