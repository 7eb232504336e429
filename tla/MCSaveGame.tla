----------------------------- MODULE MCSaveGame -----------------------------
(* Instances of SaveGame for TLC.  Dynamic memory ends at 262, so that     *)
(* runs of 255, 256 and 257 equal bytes happen; saved addresses lie on     *)
(* both sides of 512, where a frame's pc is divided, and code is in static *)
(* memory.                                                                 *)
EXTENDS SaveGame

MCSize == 262
Addresses == 0..MCSize \cup {511, 512}
MCStory ==
  [release |-> 300, serial |-> <<56, 52, 48, 55, 50, 54>>, checksum |-> 65535,
   memory |-> [a \in Addresses |-> a % 4]]

MemoryWith(changed) ==
  [a \in Addresses |-> IF a \in changed THEN 200 + (a % 4) ELSE IF a = 0 THEN 1 ELSE a % 4]
Memories == {MemoryWith(c) : c \in {{}, {257}, {1, 258}, {256, 257, 261}}}

FrameOf(pc, type, nargs, words, nvars) ==
  [pc |-> pc, type |-> type, nargs |-> nargs, words |-> words, nvars |-> nvars]
Callees ==
  {FrameOf(512, 0, 2, <<7, 65535, 258>>, 2), FrameOf(511, 0, 0, <<>>, 0),
   FrameOf(511, 1, 7, <<1, 2, 3, 4, 5, 6, 7>>, 7), FrameOf(3, 1, 0, <<1>>, 1)}
Interrupts == {FrameOf(260, 2, 0, <<9>>, 0)}

Pushed(g, f) ==
  [g EXCEPT !.stack = @ \o <<f.pc \div 512, f.pc % 512, STACK_SIZE - g.fp - 1,
                             4096 * f.type + 256 * f.nvars + f.nargs>> \o f.words,
            !.fp = Len(g.stack) + 4,
            !.frame_count = @ + 1]

Calls == {<<>>} \cup {<<f>> : f \in Callees \cup Interrupts}
           \cup {<<f, h>> : f, h \in Callees}
Outside(v) == IF v = 6 THEN {<<>>} ELSE {<<>>, <<256, 1>>}
Main == FrameOf(0, 1, 0, <<>>, 0)

MCMachine(v) ==
  {FoldLeft(Pushed, [pc |-> pc, stack |-> words, fp |-> 0, frame_count |-> 0, memory |-> m],
            IF v = 6 THEN <<Main>> \o calls ELSE calls) :
     pc \in {513}, words \in Outside(v), m \in Memories, calls \in Calls}
MCLater(v) ==
  FoldLeft(Pushed, [pc |-> 260, stack |-> <<>>, fp |-> 0, frame_count |-> 0,
                    memory |-> MemoryWith({a \in 1..(MCSize - 1) : a % 8 = 1 \/ a > 250})],
           <<Main, FrameOf(512, 0, 1, <<3, 3, 3>>, 1)>>)
=============================================================================
