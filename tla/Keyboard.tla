------------------------------ MODULE Keyboard ------------------------------
(***************************************************************************)
(* The keyboard driver, dev/kb.c: isr_keyboard puts scancodes in a ring    *)
(* queue, get_key takes them out and decodes them.                         *)
(*                                                                         *)
(* An interrupt may come between any two steps of get_key; the handler     *)
(* itself runs with interrupts off.  As it is built, with -O2, get_key     *)
(* (get_scancode is inlined) reads both indices once, walks the queue, and *)
(* writes kqfront when it returns.                                         *)
(*                                                                         *)
(* Four keys stand for all: a shift key, a letter, and the two keys that   *)
(* share a code, one of them sent with the prefix 0xe0.                    *)
(***************************************************************************)
EXTENDS Naturals, Sequences

CONSTANTS
  SIZE,          \* sizeof(keyqueue), 128 in kb.c
  Overlap,       \* may keys be pressed while an extended one is held down
  MaxPresses     \* bound: make codes sent, counting typematic repeats

KeyboardAssumption ==
  /\ SIZE \in Nat /\ SIZE > 1
  /\ Overlap \in BOOLEAN
  /\ MaxPresses \in Nat

Keys == {"shift", "letter", "pad8", "up"}

(* Scancodes: kind "e0" is the prefix of an extended key.                  *)
Code(key) == IF key = "up" THEN "pad8" ELSE key
Prefix == [kind |-> "e0", code |-> "none"]
Codes(key, kind) ==
  IF key = "up" THEN <<Prefix, [kind |-> kind, code |-> Code(key)]>>
  ELSE <<[kind |-> kind, code |-> Code(key)]>>

VARIABLES
  down,          \* keys held down
  presses,       \* make codes sent
  wire,          \* codes sent that the processor has not been interrupted for
  keyqueue, kqfront, kqback,
  phase,         \* where get_key is: "idle" (not called), "test", "decode"
  front, back,   \* the indices get_key works with
  scancode,
  depressed, extended,
  typed,         \* history: keys pressed that are to be reported
  returned,      \* history: keys get_key returned
  accepted,      \* history: codes put in the queue
  taken,         \* history: number of codes taken out
  dropped        \* history: was a code dropped

keyboard == <<down, presses, wire, typed>>
queue    == <<keyqueue, kqback, accepted, dropped>>
decoder  == <<depressed, extended, returned>>
vars == <<keyboard, queue, decoder, kqfront, phase, front, back, scancode, taken>>

Shifted == "shift" \in depressed

Init ==
  /\ down = {} /\ presses = 0 /\ wire = <<>> /\ typed = <<>>
  /\ keyqueue = [i \in 0..(SIZE - 1) |-> Prefix]
  /\ kqfront = 0 /\ kqback = 0 /\ accepted = <<>> /\ dropped = FALSE
  /\ phase = "idle" /\ front = 0 /\ back = 0 /\ scancode = Prefix
  /\ depressed = {} /\ extended = FALSE /\ returned = <<>> /\ taken = 0
-----------------------------------------------------------------------------
(* The keyboard: a key held down may repeat its make code.                 *)
Press(key) ==
  /\ wire = <<>> /\ presses < MaxPresses
  /\ Overlap \/ "up" \notin down \/ key = "up"
  /\ wire' = Codes(key, "make")
  /\ down' = down \cup {key}
  /\ presses' = presses + 1
  /\ typed' = IF key = "shift" THEN typed
              ELSE Append(typed, [key |-> key, shift |-> "shift" \in down])
  /\ UNCHANGED <<queue, decoder, kqfront, phase, front, back, scancode, taken>>

Release(key) ==
  /\ wire = <<>> /\ key \in down
  /\ wire' = Codes(key, "break")
  /\ down' = down \ {key}
  /\ UNCHANGED <<presses, typed, queue, decoder, kqfront, phase, front, back, scancode, taken>>

NextIndex(i) == (i + 1) % SIZE
Full == NextIndex(kqback) = kqfront

(* isr_keyboard.                                                           *)
Interrupt ==
  /\ wire # <<>>
  /\ wire' = Tail(wire)
  /\ IF Full THEN dropped' = TRUE /\ UNCHANGED <<keyqueue, kqback, accepted>>
     ELSE /\ keyqueue' = [keyqueue EXCEPT ![kqback] = Head(wire)]
          /\ kqback' = NextIndex(kqback)
          /\ accepted' = Append(accepted, Head(wire))
          /\ UNCHANGED dropped
  /\ UNCHANGED <<down, presses, typed, decoder, kqfront, phase, front, back, scancode, taken>>
-----------------------------------------------------------------------------
(* get_key is called, and reads the indices.                               *)
GetKey ==
  /\ phase = "idle"
  /\ phase' = "test"
  /\ front' = kqfront /\ back' = kqback
  /\ UNCHANGED <<keyboard, queue, decoder, kqfront, scancode, taken>>

(* get_key returns, and writes kqfront.                                    *)
Leave ==
  /\ phase' = "idle"
  /\ kqfront' = front
  /\ front' = 0 /\ back' = 0

(* The queue is empty: get_key returns 0.                                  *)
Empty ==
  /\ phase = "test" /\ back = front
  /\ Leave
  /\ UNCHANGED <<keyboard, queue, decoder, scancode, taken>>

(* get_scancode.                                                           *)
Take ==
  /\ phase = "test" /\ back # front
  /\ scancode' = keyqueue[front]
  /\ front' = NextIndex(front)
  /\ taken' = taken + 1
  /\ phase' = "decode"
  /\ UNCHANGED <<keyboard, queue, decoder, kqfront, back>>

(* What the code now decoded means; no key for shift and unknown codes.    *)
Meaning ==
  IF extended THEN IF scancode.code = "pad8" THEN "up" ELSE "none"
  ELSE IF scancode.code = "shift" THEN "none" ELSE scancode.code

LiftNone(code) == depressed                      \* faulty: shift sticks
Lift(code) == depressed \ {code}

ExtendedKept == extended                         \* faulty: prefix sticks
ExtendedAfterBreak == FALSE

Decode ==
  /\ phase = "decode"
  /\ CASE scancode.kind = "e0" ->
            /\ extended' = TRUE
            /\ phase' = "test"
            /\ UNCHANGED <<depressed, returned, kqfront, front, back>>
       [] scancode.kind = "break" ->
            /\ depressed' = Lift(scancode.code)
            /\ extended' = ExtendedAfterBreak
            /\ phase' = "test"
            /\ UNCHANGED <<returned, kqfront, front, back>>
       [] scancode.kind = "make" ->
            /\ depressed' = depressed \cup {scancode.code}
            /\ IF Meaning = "none"
               THEN phase' = "test" /\ UNCHANGED <<returned, kqfront, front, back>>
               ELSE /\ returned' = Append(returned, [key |-> Meaning, shift |-> Shifted])
                    /\ Leave
            /\ UNCHANGED extended
  /\ scancode' = Prefix
  /\ UNCHANGED <<keyboard, queue, taken>>

Reader == GetKey \/ Empty \/ Take \/ Decode

Next ==
  \/ \E key \in Keys : Press(key) \/ Release(key)
  \/ Interrupt
  \/ Reader

Spec == Init /\ [][Next]_vars

(* Interrupts are on whenever get_key runs, and read_key calls it again    *)
(* and again until it returns a key.                                       *)
FairSpec == Spec /\ WF_vars(Interrupt) /\ WF_vars(Reader)
-----------------------------------------------------------------------------
Scancodes == [kind : {"e0", "make", "break"}, code : {"shift", "letter", "pad8", "none"}]
Reports == [key : Keys, shift : BOOLEAN]

TypeOK ==
  /\ down \subseteq Keys /\ presses \in 0..MaxPresses
  /\ wire \in Seq(Scancodes) /\ Len(wire) <= 2
  /\ keyqueue \in [0..(SIZE - 1) -> Scancodes]
  /\ kqfront \in 0..(SIZE - 1) /\ kqback \in 0..(SIZE - 1)
  /\ phase \in {"idle", "test", "decode"}
  /\ front \in 0..(SIZE - 1) /\ back \in 0..(SIZE - 1)
  /\ scancode \in Scancodes
  /\ depressed \subseteq {"shift", "letter", "pad8"} /\ extended \in BOOLEAN
  /\ typed \in Seq(Reports) /\ returned \in Seq(Reports)
  /\ accepted \in Seq(Scancodes) /\ taken \in Nat /\ dropped \in BOOLEAN

(* "classic ring queue": (kqback - kqfront) modulo its size is the number  *)
(* of codes waiting, whatever interrupts get_key and wherever.             *)
SizeIsDifference ==
  phase = "idle" => Len(accepted) - taken = (SIZE + kqback - kqfront) % SIZE

(* No code that was accepted is overwritten, lost or taken twice: those    *)
(* get_key has not reached are in the queue, in the order they came, and   *)
(* as many as its indices say.                                             *)
Reached == IF phase = "idle" THEN kqfront ELSE front
CodesInOrder ==
  /\ TypeOK /\ SizeIsDifference
  /\ \A i \in 1..(Len(accepted) - taken) :
       keyqueue[(Reached + i - 1) % SIZE] = accepted[taken + i]

(* As long as the queue never filled up, get_key returns the keys that     *)
(* were pressed, in order, each with the shift state it was pressed in.    *)
KeysInOrder ==
  ~dropped => /\ Len(returned) <= Len(typed)
              /\ \A i \in 1..Len(returned) : returned[i] = typed[i]

(* And every one of them is returned in the end (kb.h:25-29).              *)
KeysDelivered ==
  \A n \in 1..MaxPresses :
    Len(typed) >= n ~> (Len(returned) >= n \/ dropped)
=============================================================================
