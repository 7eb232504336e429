----------------------------- MODULE Variables -----------------------------
(***************************************************************************)
(* The opcodes of variable.c, in a routine: locals and the values that it  *)
(* pushes share one array, which grows downwards from the frame, and a     *)
(* user stack is a table in memory that begins with the number of its free *)
(* words.  An operand that names variable 0 means the top of the stack and *)
(* neither pushes nor pops.                                                *)
(*                                                                         *)
(* The story takes no more from a stack than there is: nothing here checks *)
(* that, and it would get its own locals, or the words after the table.    *)
(***************************************************************************)
EXTENDS Integers, Sequences

CONSTANTS
  WORD,              \* 65536
  STACK_SIZE,        \* the words of the stack below this frame
  NumLocals,         \* how many the routine has
  Globals,           \* numbers of global variables, from 16 on
  Capacity,          \* the words of the user stack
  MaxOps             \* bound: opcodes

VariablesAssumption ==
  /\ WORD \in Nat \ {0} /\ MaxOps \in Nat /\ Capacity \in 1..(WORD - 1)
  /\ NumLocals \in 0..15 /\ NumLocals < STACK_SIZE
  /\ \A g \in Globals : g \in 16..255

VARIABLES
  h_version, stack, sp,
  globals,           \* the words of memory at h_globals
  table,             \* those of the user stack, at 0 the number of free ones
  answer,            \* what the opcode stored, or whether it branched
  ops

vars == <<h_version, stack, sp, globals, table, answer, ops>>

fp == STACK_SIZE
zword == 0..(WORD - 1)
branch(flag) == IF flag THEN <<1>> ELSE <<0>>
short(w) == IF 2 * w >= WORD THEN w - WORD ELSE w

Init ==
  /\ h_version \in {4, 6}
  /\ stack = [a \in 0..(STACK_SIZE - 1) |-> a % WORD] /\ sp = fp - NumLocals
  /\ globals = [g \in Globals |-> 0]
  /\ table = [a \in 0..Capacity |-> IF a = 0 THEN Capacity ELSE 0]
  /\ answer = <<>> /\ ops = 0

Pushed == fp - NumLocals - sp
Free == table[0]
-----------------------------------------------------------------------------
Variable == {0} \cup 1..NumLocals \cup Globals
Local(v) == fp - v

Value(v) ==
  IF v = 0 THEN stack[sp] ELSE IF v < 16 THEN stack[Local(v)] ELSE globals[v]

(* The stack pointer is at top when the variable is written.               *)
Write(top, v, x) ==
  /\ stack' = IF v = 0 THEN [stack EXCEPT ![top] = x]
              ELSE IF v < 16 THEN [stack EXCEPT ![Local(v)] = x] ELSE stack
  /\ globals' = IF v < 16 THEN globals ELSE [globals EXCEPT ![v] = x]
  /\ sp' = top

Opcode(result) == ops < MaxOps /\ ops' = ops + 1 /\ answer' = result /\ UNCHANGED h_version
Readable(v) == v = 0 => Pushed > 0
Kept == UNCHANGED <<stack, sp, globals>>

Stepped(v, by) == (Value(v) + by) % WORD
Count(v, by) == Readable(v) /\ Write(sp, v, Stepped(v, by)) /\ UNCHANGED table
z_inc(v) == Count(v, 1) /\ Opcode(<<>>)
z_dec(v) == Count(v, -1) /\ Opcode(<<>>)
z_inc_chk(v, x) == Count(v, 1) /\ Opcode(branch(short(Stepped(v, 1)) > short(x)))
z_dec_chk(v, x) == Count(v, -1) /\ Opcode(branch(short(Stepped(v, -1)) < short(x)))

z_load(v) == Readable(v) /\ Kept /\ UNCHANGED table /\ Opcode(<<Value(v)>>)
z_store(v, x) == Readable(v) /\ Write(sp, v, x) /\ UNCHANGED table /\ Opcode(<<>>)

z_push(x) ==
  /\ sp > 0 /\ Write(sp - 1, 0, x)
  /\ UNCHANGED table /\ Opcode(<<>>)
z_pop ==
  /\ h_version <= 4 /\ Pushed > 0 /\ sp' = sp + 1
  /\ UNCHANGED <<stack, globals, table>> /\ Opcode(<<>>)

(* The game stack, or a user stack.                                        *)
z_pop_stack(n, user) ==
  /\ h_version = 6 /\ n <= (IF user THEN Capacity - Free ELSE Pushed)
  /\ sp' = IF user THEN sp ELSE sp + n
  /\ table' = IF user THEN [table EXCEPT ![0] = @ + n] ELSE table
  /\ UNCHANGED <<stack, globals>> /\ Opcode(<<>>)

z_pull_into(v) ==
  /\ h_version # 6 /\ Pushed > (IF v = 0 THEN 1 ELSE 0)
  /\ Write(sp + 1, v, stack[sp])
  /\ UNCHANGED table /\ Opcode(<<>>)

SlotAfter(size) == size                                              \* faulty
Slot(size) == size + 1
z_pull(user) ==
  /\ h_version = 6 /\ (IF user THEN Free < Capacity ELSE Pushed > 0)
  /\ sp' = IF user THEN sp ELSE sp + 1
  /\ table' = IF user THEN [table EXCEPT ![0] = @ + 1] ELSE table
  /\ UNCHANGED <<stack, globals>>
  /\ Opcode(<<IF user THEN table[Slot(Free)] ELSE stack[sp]>>)

(* It branches on what is left after the push: not if that took the last   *)
(* free word.                                                              *)
z_push_stack(x) ==
  /\ h_version = 6
  /\ table' = IF Free = 0 THEN table ELSE [table EXCEPT ![Free] = x, ![0] = @ - 1]
  /\ Kept /\ Opcode(branch(table'[0] # 0))

Next ==
  \/ \E v \in Variable : z_inc(v) \/ z_dec(v) \/ z_load(v) \/ z_pull_into(v)
  \/ \E v \in Variable, x \in zword : z_inc_chk(v, x) \/ z_dec_chk(v, x) \/ z_store(v, x)
  \/ \E x \in zword : z_push(x) \/ z_push_stack(x)
  \/ z_pop
  \/ \E n \in 0..2, user \in BOOLEAN : z_pop_stack(n, user)
  \/ \E user \in BOOLEAN : z_pull(user)

Spec == Init /\ [][Next]_vars
-----------------------------------------------------------------------------
(* The array, the memory of the globals and the table cannot be told from  *)
(* separate variables and stacks: an opcode changes the variable that it   *)
(* names, and what is pulled is what was pushed last and not yet pulled.   *)
Values == INSTANCE StoryValues WITH
  Variable <- Variable \ {0},
  variable <- [v \in Variable \ {0} |-> Value(v)],
  game <- SubSeq([i \in 1..STACK_SIZE |-> stack[i - 1]], sp + 1, fp - NumLocals),
  user <- SubSeq([i \in 1..Capacity |-> table[i]], Free + 1, Capacity)
ImplementsValues == Values!Spec
=============================================================================
