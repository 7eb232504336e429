---------------------------- MODULE ZStackProofs ----------------------------
(***************************************************************************)
(* Type correctness of ZStack and the integrity of the frames on the       *)
(* stack, for every array size, every story file (Word, PC, ROUTINES) and  *)
(* every way an interrupt routine may end.  The two invariants are proved  *)
(* together: a frame is popped within the array only because its header is *)
(* intact, and a header is intact only because the words are well typed.   *)
(* From them, the pairing of direct calls with loops of interpret().       *)
(* Last, that ZStack implements ZFrames.                                   *)
(***************************************************************************)
EXTENDS ZStack, SequenceTheorems, FiniteSetTheorems, WellFoundedInduction, TLAPS

IInv == TypeOK /\ FrameIntegrity

(* The fields packed in a header word by call() are those unpacked by      *)
(* ret() and by the readers of the local count.                            *)
LEMMA HeaderRoundTrip ==
  ASSUME NEW argc \in 0..7, NEW count \in 0..15, NEW ct \in 0..2
  PROVE  /\ HeaderWord(argc, count, ct) \in Nat
         /\ (HeaderWord(argc, count, ct) \div 256) % 16 = count
         /\ HeaderWord(argc, count, ct) \div 4096 = ct
BY SMT DEF HeaderWord

(* The pc survives its split into two words.                               *)
LEMMA PcRoundTrip ==
  ASSUME NEW p \in Nat
  PROVE  p \div 512 \in Nat /\ p % 512 \in Nat /\ 512 * (p \div 512) + (p % 512) = p
BY SMT

(* A frame that ends four words below another one starts below it.         *)
LEMMA FitsBelow ==
  ASSUME NEW b \in Nat, NEW c \in Nat, NEW f \in Nat, NEW d \in Nat, NEW m \in Nat,
         b + c + 4 <= f, f + d <= m
  PROVE  b <= f /\ f <= m
OBVIOUS

(* Every frame in progress lies at or below fp, within the stack, and its  *)
(* header still tells the local count and the call type.                   *)
LEMMA FrameFacts ==
  ASSUME TypeOK, FrameIntegrity, NEW i \in 1..frame_count
  PROVE  /\ frames[i] \in FrameRecord
         /\ frames[i].base \in 4..fp
         /\ fp <= Len(stack)
         /\ LocalCount(stack, frames[i].base) = frames[i].count
         /\ CallType(stack, frames[i].base) = frames[i].ct
<1>0. frame_count \in Nat /\ frame_count \in 1..frame_count /\ i \in Nat
  BY DEF TypeOK
<1>a. fp \in Nat /\ Len(stack) \in Nat
  BY LenProperties DEF TypeOK
<1>1. \A k \in 1..frame_count : frames[k] \in FrameRecord
  BY ElementOfSeq DEF TypeOK, FrameIntegrity
<1>2. \A k \in 1..frame_count :
        /\ frames[k].base \in Nat /\ frames[k].argc \in 0..7
        /\ frames[k].count \in 0..15 /\ frames[k].ct \in 0..2
        /\ FrameTop(k) = frames[k].base + frames[k].count
  <2> SUFFICES ASSUME NEW k \in 1..frame_count
               PROVE  /\ frames[k].base \in Nat /\ frames[k].argc \in 0..7
                      /\ frames[k].count \in 0..15 /\ frames[k].ct \in 0..2
                      /\ FrameTop(k) = frames[k].base + frames[k].count
    OBVIOUS
  <2>1. frames[k] \in FrameRecord
    BY <1>1
  <2>2. /\ frames[k].base \in Nat /\ frames[k].ct \in 0..2
        /\ frames[k].argc \in 0..MaxArgs /\ frames[k].count \in 0..MaxLocals
    BY <2>1 DEF FrameRecord
  <2>3. MaxArgs \in 0..7 /\ MaxLocals \in 0..15
    BY StackAssumption
  <2>4. k # 0
    BY <1>0
  <2> QED BY <2>2, <2>3, <2>4 DEF FrameTop
<1>3. frames[i].base >= 4
  <2>1. FrameTop(0) + 4 <= frames[i].base
    BY <1>0 DEF FrameIntegrity, FramesDisjoint
  <2> QED BY <2>1, <1>2 DEF FrameTop
<1>4. frames[i].base <= fp /\ fp <= Len(stack)
  <2>1. /\ fp = frames[frame_count].base
        /\ FrameTop(frame_count) = fp + frames[frame_count].count
        /\ FrameTop(frame_count) <= Len(stack)
    BY <1>0, <1>2 DEF FrameIntegrity, FrameBase
  <2>2. CASE i = frame_count
    <3>1. frames[frame_count].count \in Nat /\ frames[frame_count].base \in Nat
      BY <1>0, <1>2
    <3> QED BY <3>1, <2>1, <2>2, <1>a
  <2>3. CASE i < frame_count
    <3>1. FrameTop(i) + 4 <= frames[frame_count].base
      BY <1>0, <2>3 DEF FrameIntegrity, FramesDisjoint
    <3>2. /\ FrameTop(i) = frames[i].base + frames[i].count
          /\ frames[i].count \in Nat /\ frames[i].base \in Nat
          /\ frames[frame_count].count \in Nat
      BY <1>0, <1>2
    <3>3. frames[i].base + frames[i].count + 4 <= fp
      BY <3>1, <3>2, <2>1
    <3>4. fp + frames[frame_count].count <= Len(stack)
      BY <2>1
    <3>5. frames[i].count \in Nat /\ frames[i].base \in Nat /\ frames[frame_count].count \in Nat
      BY <3>2
    <3> QED BY <3>3, <3>4, <3>5, <1>a, FitsBelow, Zenon
  <2> QED BY <2>2, <2>3, <1>0
<1>5. stack[frames[i].base] = HeaderWord(frames[i].argc, frames[i].count, frames[i].ct)
  BY DEF FrameIntegrity, HeaderIntact
<1>6. LocalCount(stack, frames[i].base) = frames[i].count
      /\ CallType(stack, frames[i].base) = frames[i].ct
  <2>1. /\ frames[i].base \in Nat /\ frames[i].argc \in 0..7
        /\ frames[i].count \in 0..15 /\ frames[i].ct \in 0..2
    BY <1>2
  <2>2. /\ (stack[frames[i].base] \div 256) % 16 = frames[i].count
        /\ stack[frames[i].base] \div 4096 = frames[i].ct
    <3> HIDE DEF HeaderWord
    <3>1. /\ (HeaderWord(frames[i].argc, frames[i].count, frames[i].ct) \div 256) % 16
                = frames[i].count
          /\ HeaderWord(frames[i].argc, frames[i].count, frames[i].ct) \div 4096
                = frames[i].ct
      BY <2>1, HeaderRoundTrip, SMTT(30)
    <3> QED BY <3>1, <1>5
  <2>3. frames[i].base # 0
    BY <2>1, <1>3
  <2> QED BY <2>2, <2>3 DEF LocalCount, CallType
<1> QED BY <1>a, <1>1, <1>2, <1>3, <1>4, <1>6

(* The locals of the running routine end where the frame says.             *)
LEMMA TopFacts ==
  ASSUME TypeOK, FrameIntegrity
  PROVE  /\ LocalCount(stack, fp) \in 0..15
         /\ fp + LocalCount(stack, fp) = FrameTop(frame_count)
         /\ fp + LocalCount(stack, fp) <= Len(stack)
         /\ fp \in Nat /\ Len(stack) \in Nat
<1>0. fp \in Nat /\ Len(stack) \in Nat /\ frame_count \in Nat
  BY LenProperties DEF TypeOK
<1>1. CASE frame_count = 0
  BY <1>0, <1>1 DEF FrameIntegrity, FrameBase, FrameTop, LocalCount
<1>2. CASE frame_count # 0
  <2>1. frame_count \in 1..frame_count
    BY <1>0, <1>2
  <2>2. fp = frames[frame_count].base /\ FrameTop(frame_count) = fp + frames[frame_count].count
    BY <1>2 DEF FrameIntegrity, FrameBase, FrameTop
  <2>3. LocalCount(stack, fp) = frames[frame_count].count /\ frames[frame_count] \in FrameRecord
    BY <2>1, <2>2, FrameFacts
  <2>4. frames[frame_count].count \in 0..MaxLocals
    BY <2>3 DEF FrameRecord
  <2>5. MaxLocals \in 0..15
    BY StackAssumption
  <2>6. FrameTop(frame_count) <= Len(stack)
    BY DEF FrameIntegrity
  <2>7. LocalCount(stack, fp) \in 0..15
    BY <2>2, <2>3, <2>4, <2>5
  <2>8. fp + LocalCount(stack, fp) = FrameTop(frame_count)
    BY <2>2, <2>3
  <2> QED BY <1>0, <2>6, <2>7, <2>8
<1> QED BY <1>1, <1>2

(* A step that only touches words above fp, and leaves the running         *)
(* routine's locals on the stack, keeps every frame.                       *)
LEMMA KeepFrames ==
  ASSUME TypeOK, FrameIntegrity,
         fp' = fp, frame_count' = frame_count, frames' = frames,
         FrameTop(frame_count) <= Len(stack'),
         \A j \in 1..fp : stack'[j] = stack[j]
  PROVE  FrameIntegrity'
<1>1. \A i : FrameTop(i)' = FrameTop(i) /\ FrameBase(i)' = FrameBase(i)
  BY DEF FrameTop, FrameBase
<1>2. ASSUME NEW i \in 1..frame_count
      PROVE  HeaderIntact(i)'
  <2>1. frames[i].base \in 4..fp /\ fp \in Nat
    BY FrameFacts DEF TypeOK
  <2>2. /\ frames[i].base \in 1..fp /\ frames[i].base - 1 \in 1..fp
        /\ frames[i].base - 2 \in 1..fp /\ frames[i].base - 3 \in 1..fp
    <3>1. PICK f \in Nat : f = frames[i].base
      BY <2>1
    <3>2. f >= 4 /\ f <= fp
      BY <2>1, <3>1
    <3>3. f \in 1..fp /\ f - 1 \in 1..fp /\ f - 2 \in 1..fp /\ f - 3 \in 1..fp
      BY <2>1, <3>2
    <3> QED BY <3>1, <3>3, Zenon
  <2>3. /\ stack'[frames[i].base] = stack[frames[i].base]
        /\ stack'[frames[i].base - 1] = stack[frames[i].base - 1]
        /\ stack'[frames[i].base - 2] = stack[frames[i].base - 2]
        /\ stack'[frames[i].base - 3] = stack[frames[i].base - 3]
    BY <2>2
  <2>4. HeaderIntact(i)
    BY DEF FrameIntegrity
  <2> QED BY <1>1, <2>3, <2>4 DEF HeaderIntact, Caller, ReturnPc
<1> QED BY <1>1, <1>2 DEF FrameIntegrity, FramesDisjoint
-----------------------------------------------------------------------------
(* The part of a stack below a frame header.                               *)
LEMMA BelowFacts ==
  ASSUME NEW S, NEW s \in Seq(S), NEW n \in Nat, n <= Len(s)
  PROVE  /\ SubSeq(s, 1, n) \in Seq(S)
         /\ Len(SubSeq(s, 1, n)) = n
         /\ \A j \in 1..n : SubSeq(s, 1, n)[j] = s[j]
OBVIOUS

(* Sequences without their last element.                                   *)
LEMMA PopFacts ==
  ASSUME NEW S, NEW s \in Seq(S), Len(s) > 0
  PROVE  /\ Pop(s) \in Seq(S)
         /\ Len(Pop(s)) = Len(s) - 1
         /\ \A j \in 1..(Len(s) - 1) : Pop(s)[j] = s[j]
<1>1. Len(s) - 1 \in Nat /\ Len(s) - 1 <= Len(s)
  OBVIOUS
<1>2. PICK n : n = Len(s) - 1
  OBVIOUS
<1>3. /\ SubSeq(s, 1, n) \in Seq(S) /\ Len(SubSeq(s, 1, n)) = n
      /\ \A j \in 1..n : SubSeq(s, 1, n)[j] = s[j]
  BY <1>1, <1>2, BelowFacts
<1> QED BY <1>2, <1>3 DEF Pop

(* Append leaves the words of a stack where they are.                      *)
LEMMA AppendFacts ==
  ASSUME NEW S, NEW s \in Seq(S), NEW e \in S
  PROVE  /\ Append(s, e) \in Seq(S)
         /\ Len(Append(s, e)) = Len(s) + 1
         /\ \A j \in 1..Len(s) : Append(s, e)[j] = s[j]
         /\ Append(s, e)[Len(s) + 1] = e
OBVIOUS

(* So does overwriting one, but for that one.                              *)
LEMMA OverwriteFacts ==
  ASSUME NEW S, NEW s \in Seq(S), NEW e \in S, NEW k \in 1..Len(s)
  PROVE  /\ [s EXCEPT ![k] = e] \in Seq(S)
         /\ Len([s EXCEPT ![k] = e]) = Len(s)
         /\ \A j \in 1..Len(s) : j # k => [s EXCEPT ![k] = e][j] = s[j]
OBVIOUS

(* What call() pushes: a header of four words, then the locals.            *)
PushResult(s, a, b, c, d, l) ==
  /\ s \o <<a, b, c, d>> \o l \in Seq(Nat)
  /\ Len(s \o <<a, b, c, d>> \o l) = Len(s) + 4 + Len(l)
  /\ \A j \in 1..Len(s) : (s \o <<a, b, c, d>> \o l)[j] = s[j]
  /\ (s \o <<a, b, c, d>> \o l)[Len(s) + 1] = a
  /\ (s \o <<a, b, c, d>> \o l)[Len(s) + 2] = b
  /\ (s \o <<a, b, c, d>> \o l)[Len(s) + 3] = c
  /\ (s \o <<a, b, c, d>> \o l)[Len(s) + 4] = d

(* The words call() pushes leave those below them where they are.          *)
LEMMA PushFacts ==
  ASSUME NEW s \in Seq(Nat), NEW a \in Nat, NEW b \in Nat, NEW c \in Nat,
         NEW d \in Nat, NEW l \in Seq(Nat)
  PROVE  PushResult(s, a, b, c, d, l)
<1>1. <<a, b, c, d>> \in Seq(Nat) /\ Len(<<a, b, c, d>>) = 4
  OBVIOUS
<1> DEFINE h == <<a, b, c, d>>
<1>2. h[1] = a /\ h[2] = b /\ h[3] = c /\ h[4] = d
  OBVIOUS
<1> HIDE DEF h
<1>3. /\ s \o h \in Seq(Nat) /\ Len(s \o h) = Len(s) + 4
      /\ \A j \in 1..Len(s) : (s \o h)[j] = s[j]
      /\ (s \o h)[Len(s) + 1] = a /\ (s \o h)[Len(s) + 2] = b
      /\ (s \o h)[Len(s) + 3] = c /\ (s \o h)[Len(s) + 4] = d
  BY <1>1, <1>2 DEF h
<1>4. \A t \in Seq(Nat) : /\ t \o l \in Seq(Nat) /\ Len(t \o l) = Len(t) + Len(l)
                          /\ \A j \in 1..Len(t) : (t \o l)[j] = t[j]
  OBVIOUS
<1>5. Len(s) \in Nat
  OBVIOUS
<1>6. /\ (s \o h) \o l \in Seq(Nat) /\ Len((s \o h) \o l) = Len(s) + 4 + Len(l)
      /\ \A j \in 1..(Len(s) + 4) : ((s \o h) \o l)[j] = (s \o h)[j]
  BY <1>3, <1>4
<1>7. /\ \A j \in 1..Len(s) : ((s \o h) \o l)[j] = s[j]
      /\ ((s \o h) \o l)[Len(s) + 1] = a /\ ((s \o h) \o l)[Len(s) + 2] = b
      /\ ((s \o h) \o l)[Len(s) + 3] = c /\ ((s \o h) \o l)[Len(s) + 4] = d
  <2>1. /\ Len(s) + 1 \in 1..(Len(s) + 4) /\ Len(s) + 2 \in 1..(Len(s) + 4)
        /\ Len(s) + 3 \in 1..(Len(s) + 4) /\ Len(s) + 4 \in 1..(Len(s) + 4)
        /\ \A j \in 1..Len(s) : j \in 1..(Len(s) + 4)
    BY <1>5
  <2> QED BY <1>3, <1>6, <2>1, Zenon
<1> QED BY <1>6, <1>7 DEF h, PushResult

(* store() leaves the words at and below the frame header alone, and adds  *)
(* at most one word.                                                       *)
LEMMA StoreFacts ==
  ASSUME NEW s \in Seq(Nat), NEW f \in Nat, LocalCount(s, f) \in 0..15,
         f + LocalCount(s, f) <= Len(s),
         NEW variable \in Variables(s, f), NEW value \in Nat
  PROVE  /\ Store(s, f, variable, value) \in Seq(Nat)
         /\ Len(Store(s, f, variable, value)) \in {Len(s), Len(s) + 1}
         /\ variable # 0 => Len(Store(s, f, variable, value)) = Len(s)
         /\ \A j \in 1..f : Store(s, f, variable, value)[j] = s[j]
<1>1. Len(s) \in Nat
  OBVIOUS
<1>2. PICK k \in Nat : k = LocalCount(s, f) /\ k <= 15 /\ f + k <= Len(s)
  OBVIOUS
<1>3. CASE variable = 0
  BY <1>1, <1>2, <1>3, AppendFacts DEF Store
<1>4. CASE variable = Global
  BY <1>1, <1>4 DEF Store, Global
<1>5. CASE variable \in 1..k
  <2>1. variable \in Nat /\ variable > 0 /\ variable < 16 /\ variable <= k
    BY <1>2, <1>5
  <2>2. f + variable \in 1..Len(s) /\ \A j \in 1..f : j # f + variable /\ j \in 1..Len(s)
    BY <1>1, <1>2, <2>1
  <2>3. Store(s, f, variable, value) = [s EXCEPT ![f + variable] = value]
    BY <2>1 DEF Store, Global
  <2> QED BY <2>1, <2>2, <2>3, OverwriteFacts
<1> QED BY <1>2, <1>3, <1>4, <1>5 DEF Variables
-----------------------------------------------------------------------------
(* The tops of the frames in progress, the last one being the highest.     *)
LEMMA TopsBelow ==
  ASSUME TypeOK, FrameIntegrity, NEW j \in 0..frame_count
  PROVE  FrameTop(j) \in Nat /\ FrameTop(j) <= FrameTop(frame_count)
<1>1. frame_count \in Nat /\ j \in Nat /\ j <= frame_count
  BY DEF TypeOK
<1>2. \A i \in 1..frame_count : frames[i].base \in Nat /\ frames[i].count \in Nat
  <2> SUFFICES ASSUME NEW i \in 1..frame_count
               PROVE  frames[i].base \in Nat /\ frames[i].count \in Nat
    OBVIOUS
  <2>1. frames[i] \in FrameRecord
    BY FrameFacts
  <2>2. MaxLocals \in 0..15
    BY StackAssumption
  <2> QED BY <2>1, <2>2 DEF FrameRecord
<1>3. \A i \in 0..frame_count : FrameTop(i) \in Nat
  BY <1>1, <1>2 DEF FrameTop
<1>4. CASE j = frame_count
  BY <1>1, <1>3, <1>4
<1>5. CASE j < frame_count
  <2>1. frame_count \in 1..frame_count /\ j \in 0..(frame_count - 1)
    BY <1>1, <1>5
  <2>2. FrameTop(j) + 4 <= frames[frame_count].base
    BY <2>1 DEF FrameIntegrity, FramesDisjoint
  <2>3. FrameTop(frame_count) = frames[frame_count].base + frames[frame_count].count
    BY <2>1 DEF FrameTop
  <2>4. /\ FrameTop(j) \in Nat /\ frames[frame_count].base \in Nat
        /\ frames[frame_count].count \in Nat
    BY <1>1, <1>2, <1>3, <2>1
  <2> QED BY <2>2, <2>3, <2>4
<1> QED BY <1>1, <1>4, <1>5

(* A header stays intact when its four words and the frame below it do.    *)
LEMMA HeaderKept ==
  ASSUME NEW i \in Nat, HeaderIntact(i), frames'[i] = frames[i],
         FrameBase(i - 1)' = FrameBase(i - 1),
         NEW n \in Nat, \A j \in 1..n : stack'[j] = stack[j],
         frames[i].base \in Nat, frames[i].base >= 4, frames[i].base <= n
  PROVE  HeaderIntact(i)'
<1>1. PICK b \in Nat : b = frames[i].base /\ b >= 4 /\ b <= n
  OBVIOUS
<1>2. b \in 1..n /\ b - 1 \in 1..n /\ b - 2 \in 1..n /\ b - 3 \in 1..n
  BY <1>1
<1>3. /\ stack'[b] = stack[b] /\ stack'[b - 1] = stack[b - 1]
      /\ stack'[b - 2] = stack[b - 2] /\ stack'[b - 3] = stack[b - 3]
  BY <1>2
<1>4. Caller(stack', b) = Caller(stack, b) /\ ReturnPc(stack', b) = ReturnPc(stack, b)
  BY <1>3, Zenon DEF Caller, ReturnPc
<1>5. /\ Caller(stack, b) = FrameBase(i - 1) /\ ReturnPc(stack, b) = frames[i].pc
      /\ stack[b] = HeaderWord(frames[i].argc, frames[i].count, frames[i].ct)
  BY <1>1, Zenon DEF HeaderIntact
<1>6. (LET f == frames'[i].base
       IN  /\ Caller(stack', f) = FrameBase(i - 1)'
           /\ ReturnPc(stack', f) = frames'[i].pc
           /\ stack'[f] = HeaderWord(frames'[i].argc, frames'[i].count, frames'[i].ct))
  BY <1>1, <1>3, <1>4, <1>5, Zenon
<1> QED BY <1>6, Zenon DEF HeaderIntact

(* The words that call() writes lead back to the caller.                   *)
LEMMA LinkWritten ==
  ASSUME NEW s, NEW n \in Nat, NEW f \in Nat, s[n + 3] = Link(f)
  PROVE  Caller(s, n + 4) = f
<1>1. (n + 4) - 1 = n + 3
  BY SMT
<1>2. STACK_SIZE - ((STACK_SIZE - f - 1) + 1) = f
  BY StackAssumption, SMT
<1>3. Caller(s, n + 4) = STACK_SIZE - (Link(f) + 1)
  BY <1>1, Zenon DEF Caller
<1> QED BY <1>2, <1>3, Zenon DEF Link

(* ret() reads back the pc that was pushed in two halves.                  *)
LEMMA PcWritten ==
  ASSUME NEW s, NEW n \in Nat, NEW p, NEW hi, NEW lo, 512 * hi + lo = p,
         s[n + 1] = hi, s[n + 2] = lo
  PROVE  ReturnPc(s, n + 4) = p
<1>1. (n + 4) - 3 = n + 1 /\ (n + 4) - 2 = n + 2
  BY SMT
<1>2. ReturnPc(s, n + 4) = 512 * s[n + 1] + s[n + 2]
  BY <1>1, Zenon DEF ReturnPc
<1> QED BY <1>2, Zenon

(* A frame pushed above the first n words, with the header of call().      *)
Pushed(n, argc, count, ct) ==
  /\ n + 4 + count <= Len(stack') /\ Len(stack') \in Nat
  /\ fp' = n + 4 /\ frame_count' = frame_count + 1
  /\ \A j \in 1..n : stack'[j] = stack[j]
  /\ stack'[n + 1] = pc \div 512 /\ stack'[n + 2] = pc % 512
  /\ stack'[n + 3] = Link(fp) /\ stack'[n + 4] = HeaderWord(argc, count, ct)
  /\ Len(frames') = frame_count + 1
  /\ \A i \in 1..frame_count : frames'[i] = frames[i]
  /\ frames'[frame_count + 1] =
       [base |-> n + 4, pc |-> pc, ct |-> ct, argc |-> argc, count |-> count]

(* It leaves the frames below it intact if it lies above their locals.     *)
LEMMA PushKeepsFrames ==
  ASSUME TypeOK, FrameIntegrity,
         NEW n \in Nat, NEW argc \in Nat, NEW count \in Nat, NEW ct \in Nat,
         FrameTop(frame_count) <= n, Pushed(n, argc, count, ct)
  PROVE  FrameIntegrity'
<1>1. /\ frame_count \in Nat /\ fp \in Nat /\ pc \in Nat /\ frame_count + 1 # 0
      /\ frame_count + 1 \in Nat /\ (frame_count + 1) - 1 = frame_count
  BY DEF TypeOK
<1>2. /\ frames'[frame_count + 1].base = n + 4 /\ frames'[frame_count + 1].pc = pc
      /\ frames'[frame_count + 1].argc = argc /\ frames'[frame_count + 1].ct = ct
      /\ frames'[frame_count + 1].count = count
  BY DEF Pushed
<1>3. \A i \in 1..frame_count : frames'[i] = frames[i]
  BY DEF Pushed
<1>4. \A i \in 0..frame_count : FrameBase(i)' = FrameBase(i) /\ FrameTop(i)' = FrameTop(i)
  BY <1>1, <1>3 DEF FrameBase, FrameTop
<1>5. /\ fp' = n + 4 /\ frame_count' = frame_count + 1 /\ Len(frames') = frame_count + 1
      /\ n + 4 + count <= Len(stack')
  BY DEF Pushed
<1>6. FrameBase(frame_count)' = n + 4 /\ FrameTop(frame_count)' = n + 4 + count
  BY <1>1, <1>2, <1>5 DEF FrameBase, FrameTop
<1>7. FramesDisjoint'
  <2> SUFFICES ASSUME NEW i \in 1..(frame_count + 1), NEW j \in 0..(i - 1)
               PROVE  FrameTop(j)' + 4 <= frames'[i].base
    BY <1>5 DEF FramesDisjoint
  <2>1. j \in 0..frame_count
    BY <1>1
  <2>2. FrameTop(j)' = FrameTop(j)
    BY <1>4, <2>1
  <2>3. CASE i = frame_count + 1
    <3>1. FrameTop(j) \in Nat /\ FrameTop(j) <= FrameTop(frame_count)
      BY <2>1, TopsBelow
    <3>2. FrameTop(frame_count) \in Nat
      BY <1>1, TopsBelow
    <3>3. frames'[i].base = n + 4
      BY <1>2, <2>3
    <3> QED BY <2>2, <3>1, <3>2, <3>3
  <2>4. CASE i # frame_count + 1
    <3>1. i \in 1..frame_count
      BY <1>1, <2>4
    <3>2. FrameTop(j) + 4 <= frames[i].base
      BY <3>1 DEF FrameIntegrity, FramesDisjoint
    <3>3. frames'[i] = frames[i]
      BY <1>3, <3>1
    <3> QED BY <2>2, <3>2, <3>3
  <2> QED BY <2>3, <2>4
<1>8. fp <= n
  <2>1. fp + LocalCount(stack, fp) = FrameTop(frame_count) /\ LocalCount(stack, fp) \in 0..15
    BY TopFacts
  <2>2. PICK k \in Nat : k = LocalCount(stack, fp)
    BY <2>1
  <2>3. fp + k <= n
    BY <2>1, <2>2
  <2> QED BY <1>1, <2>2, <2>3
<1>9. ASSUME NEW i \in 1..frame_count
      PROVE  HeaderIntact(i)'
  <2>1. frames[i].base \in 4..fp /\ HeaderIntact(i) /\ frames'[i] = frames[i]
    BY <1>3, FrameFacts DEF FrameIntegrity
  <2>2. frames[i].base \in Nat /\ frames[i].base >= 4 /\ frames[i].base <= n
    BY <1>1, <1>8, <2>1
  <2>3. i \in Nat /\ i - 1 \in 0..frame_count
    BY <1>1
  <2>4. FrameBase(i - 1)' = FrameBase(i - 1)
    BY <1>4, <2>3
  <2>5. \A j \in 1..n : stack'[j] = stack[j]
    BY DEF Pushed
  <2> QED BY <2>1, <2>2, <2>3, <2>4, <2>5, HeaderKept
<1>10. ASSUME NEW i \in Nat, i = frame_count + 1
       PROVE  HeaderIntact(i)'
  <2>1. FrameBase(i - 1)' = fp
    <3>1. i - 1 \in 0..frame_count /\ i - 1 = frame_count
      BY <1>1, <1>10
    <3>2. FrameBase(i - 1)' = FrameBase(i - 1)
      BY <1>4, <3>1
    <3>3. FrameBase(i - 1) = FrameBase(frame_count)
      BY <3>1
    <3> QED BY <3>2, <3>3 DEF FrameIntegrity
  <2>2. Caller(stack', n + 4) = fp /\ ReturnPc(stack', n + 4) = pc
    <3>1. /\ stack'[n + 1] = pc \div 512 /\ stack'[n + 2] = pc % 512
          /\ stack'[n + 3] = Link(fp)
      BY DEF Pushed
    <3>2. Caller(stack', n + 4) = fp
      BY <1>1, <3>1, LinkWritten
    <3>3. PICK hi, lo : hi = pc \div 512 /\ lo = pc % 512
      OBVIOUS
    <3>4. 512 * hi + lo = pc
      BY <1>1, <3>3, PcRoundTrip
    <3>5. stack'[n + 1] = hi /\ stack'[n + 2] = lo
      BY <3>1, <3>3, Zenon
    <3>6. ReturnPc(stack', n + 4) = pc
      BY <3>4, <3>5, PcWritten
    <3> QED BY <3>2, <3>6
  <2>3. stack'[n + 4] = HeaderWord(argc, count, ct)
    BY DEF Pushed
  <2>4. /\ frames'[i].base = n + 4 /\ frames'[i].pc = pc
        /\ frames'[i].argc = argc /\ frames'[i].ct = ct /\ frames'[i].count = count
    BY <1>2, <1>10
  <2>5. (LET f == frames'[i].base
         IN  /\ Caller(stack', f) = FrameBase(i - 1)'
             /\ ReturnPc(stack', f) = frames'[i].pc
             /\ stack'[f] = HeaderWord(frames'[i].argc, frames'[i].count, frames'[i].ct))
    BY <2>1, <2>2, <2>3, <2>4, Zenon
  <2> QED BY <2>5, Zenon DEF HeaderIntact
<1>11. \A i \in 1..(frame_count + 1) : HeaderIntact(i)'
  <2> SUFFICES ASSUME NEW i \in 1..(frame_count + 1)
               PROVE  HeaderIntact(i)'
    OBVIOUS
  <2>1. CASE i = frame_count + 1
    BY <1>1, <1>10, <2>1
  <2>2. CASE i # frame_count + 1
    <3>1. i \in 1..frame_count
      BY <1>1, <2>2
    <3> QED BY <1>9, <3>1
  <2> QED BY <2>1, <2>2
<1> QED BY <1>5, <1>6, <1>7, <1>11 DEF FrameIntegrity

(* z_throw and ret() drop the running frame: the link in its header leads  *)
(* to the frame below it, whose locals the step leaves on the stack.       *)
LEMMA DropFacts ==
  ASSUME TypeOK, FrameIntegrity, frame_count > 0
  PROVE  /\ fp >= 4 /\ fp <= Len(stack) /\ fp \in Nat /\ Len(stack) \in Nat
         /\ Caller(stack, fp) = FrameBase(frame_count - 1)
         /\ FrameBase(frame_count - 1) \in Nat
         /\ FrameTop(frame_count - 1) \in Nat
         /\ FrameTop(frame_count - 1) <= fp - 4
         /\ FrameBase(frame_count - 1) <= FrameTop(frame_count - 1)
         /\ ReturnPc(stack, fp) = frames[frame_count].pc
         /\ frames[frame_count].pc \in Nat
         /\ CallType(stack, fp) \in 0..2
         /\ FrameTop(frame_count - 1) - FrameBase(frame_count - 1) =
              LocalCount(stack, FrameBase(frame_count - 1))
         /\ LocalCount(stack, FrameBase(frame_count - 1)) \in 0..15
<1>1. /\ frame_count \in Nat /\ frame_count \in 1..frame_count /\ fp \in Nat
      /\ frame_count - 1 \in 0..frame_count /\ Len(stack) \in Nat
  BY DEF TypeOK
<1>2. fp = frames[frame_count].base
  BY <1>1 DEF FrameIntegrity, FrameBase
<1>3. /\ frames[frame_count] \in FrameRecord /\ fp \in 4..fp /\ fp <= Len(stack)
      /\ CallType(stack, fp) = frames[frame_count].ct
  BY <1>1, <1>2, FrameFacts
<1>4. HeaderIntact(frame_count)
  BY <1>1 DEF FrameIntegrity
<1>5. frames[frame_count].pc \in Nat /\ frames[frame_count].ct \in 0..2
  BY <1>3 DEF FrameRecord
<1>6. FrameTop(frame_count - 1) + 4 <= fp /\ FrameTop(frame_count - 1) \in Nat
  BY <1>1, <1>2, TopsBelow DEF FrameIntegrity, FramesDisjoint
<1>7. /\ FrameBase(frame_count - 1) \in Nat
      /\ FrameTop(frame_count - 1) - FrameBase(frame_count - 1) =
           LocalCount(stack, FrameBase(frame_count - 1))
      /\ LocalCount(stack, FrameBase(frame_count - 1)) \in 0..15
  <2>1. CASE frame_count - 1 = 0
    BY <2>1 DEF FrameBase, FrameTop, LocalCount
  <2>2. CASE frame_count - 1 # 0
    <3>1. PICK i \in 1..frame_count : i = frame_count - 1 /\ i # 0
      BY <1>1, <2>2
    <3>2. /\ frames[i] \in FrameRecord
          /\ LocalCount(stack, frames[i].base) = frames[i].count
      BY FrameFacts
    <3>3. MaxLocals \in 0..15
      BY StackAssumption
    <3>4. frames[i].base \in Nat /\ frames[i].count \in 0..15
      BY <3>2, <3>3 DEF FrameRecord
    <3> QED BY <3>1, <3>2, <3>4 DEF FrameBase, FrameTop
  <2> QED BY <2>1, <2>2
<1>8. PICK t \in Nat : t = FrameTop(frame_count - 1)
  BY <1>6
<1>9. PICK b \in Nat, k \in Nat : b = FrameBase(frame_count - 1) /\ b + k = t
  <2>1. PICK k \in Nat : k = LocalCount(stack, FrameBase(frame_count - 1))
    BY <1>7
  <2> QED BY <1>7, <1>8, <2>1
<1>10. t <= fp - 4 /\ fp >= 4
  BY <1>1, <1>6, <1>8
<1>11. FrameBase(frame_count - 1) <= t
  BY <1>9
<1> QED BY <1>1, <1>2, <1>3, <1>4, <1>5, <1>7, <1>8, <1>10, <1>11 DEF HeaderIntact

(* The frames below the running one start at or below its caller's fp.     *)
LEMMA BaseBelow ==
  ASSUME TypeOK, FrameIntegrity, NEW i \in 1..(frame_count - 1)
  PROVE  frames[i].base <= FrameBase(frame_count - 1)
<1>0. frame_count \in Nat
  BY DEF TypeOK
<1>1. i \in 1..frame_count /\ i \in Nat /\ frame_count > 0
  BY <1>0
<1>2. frames[i] \in FrameRecord
  BY <1>1, FrameFacts
<1>3. CASE i = frame_count - 1
  BY <1>1, <1>2, <1>3 DEF FrameBase, FrameRecord
<1>4. CASE i # frame_count - 1
  <2>1. /\ frame_count - 1 \in 1..frame_count /\ i \in 0..((frame_count - 1) - 1)
        /\ frame_count - 1 # 0 /\ i # 0
    BY <1>0, <1>1, <1>4
  <2>2. FrameTop(i) + 4 <= frames[frame_count - 1].base
    BY <2>1 DEF FrameIntegrity, FramesDisjoint
  <2>3. frames[i].base \in Nat /\ frames[i].count \in Nat
    <3>1. MaxLocals \in 0..15
      BY StackAssumption
    <3> QED BY <3>1, <1>2 DEF FrameRecord
  <2>4. FrameTop(i) = frames[i].base + frames[i].count
    BY <2>1 DEF FrameTop
  <2>5. FrameBase(frame_count - 1) = frames[frame_count - 1].base
    BY <2>1 DEF FrameBase
  <2>6. FrameBase(frame_count - 1) \in Nat
    BY <1>1, DropFacts
  <2> QED BY <2>2, <2>3, <2>4, <2>5, <2>6
<1> QED BY <1>3, <1>4

(* Dropping the youngest frame keeps all others, as ret() and a step of    *)
(* z_throw do, if the words below its base are kept.                       *)
LEMMA DropKeepsFrames ==
  ASSUME TypeOK, FrameIntegrity, frame_count > 0,
         fp' = Caller(stack, fp), frame_count' = frame_count - 1,
         frames' = Pop(frames),
         FrameTop(frame_count - 1) <= Len(stack'),
         \A j \in 1..FrameBase(frame_count - 1) : stack'[j] = stack[j]
  PROVE  FrameIntegrity' /\ frames' \in Seq(FrameRecord)
<1>1. /\ frame_count \in Nat /\ frame_count - 1 \in Nat
      /\ frames \in Seq(FrameRecord) /\ Len(frames) = frame_count
  BY DEF TypeOK, FrameIntegrity
<1>2. /\ frames' \in Seq(FrameRecord) /\ Len(frames') = frame_count - 1
      /\ \A i \in 1..(frame_count - 1) : frames'[i] = frames[i]
  BY <1>1, PopFacts
<1>3. \A i \in 0..(frame_count - 1) : FrameBase(i)' = FrameBase(i) /\ FrameTop(i)' = FrameTop(i)
  BY <1>1, <1>2 DEF FrameBase, FrameTop
<1>4. fp' = FrameBase(frame_count - 1)
  BY DropFacts
<1>5. FrameBase(frame_count)' = FrameBase(frame_count - 1)
  BY <1>1, <1>2 DEF FrameBase
<1>6. FrameTop(frame_count)' = FrameTop(frame_count - 1)
  BY <1>1, <1>2 DEF FrameTop
<1>7. ASSUME NEW i \in 1..(frame_count - 1)
      PROVE  HeaderIntact(i)'
  <2>1. i \in 1..frame_count /\ i \in Nat /\ i - 1 \in 0..(frame_count - 1)
    BY <1>1
  <2>2. frames[i].base \in 4..fp /\ HeaderIntact(i) /\ frames[i] \in FrameRecord
    BY <2>1, FrameFacts DEF FrameIntegrity
  <2>3. frames[i].base <= FrameBase(frame_count - 1)
    BY BaseBelow
  <2>4. FrameBase(frame_count - 1) \in Nat /\ fp \in Nat
    BY DropFacts
  <2>5. frames[i].base \in Nat /\ frames[i].base >= 4
    BY <2>2, <2>4
  <2>6. FrameBase(i - 1)' = FrameBase(i - 1) /\ frames'[i] = frames[i]
    BY <1>2, <1>3, <2>1
  <2> QED BY <2>1, <2>2, <2>3, <2>4, <2>5, <2>6, HeaderKept
<1>8. FramesDisjoint'
  <2> SUFFICES ASSUME NEW i \in 1..(frame_count - 1), NEW j \in 0..(i - 1)
               PROVE  FrameTop(j)' + 4 <= frames'[i].base
    BY DEF FramesDisjoint
  <2>1. i \in 1..frame_count /\ j \in 0..(frame_count - 1)
    BY <1>1
  <2>2. FrameTop(j) + 4 <= frames[i].base
    BY <2>1 DEF FrameIntegrity, FramesDisjoint
  <2> QED BY <2>1, <2>2, <1>2, <1>3
<1> QED BY <1>2, <1>4, <1>5, <1>6, <1>7, <1>8 DEF FrameIntegrity
-----------------------------------------------------------------------------
(* The part of the state that is not on the stack.                         *)
ControlOK ==
  /\ pc \in Nat /\ zargs \in Nat /\ finished \in Int
  /\ calls \in Seq(CallRecord) /\ mode \in Modes
  /\ throw \in [to : Nat, value : Nat, fp : Nat, frame_count : Nat]

(* The invariant gives the types of everything that is not on the stack.   *)
LEMMA ControlFacts == ASSUME IInv PROVE ControlOK
BY Zenon DEF IInv, TypeOK, ControlOK

(* The loop of interpret() goes on, or is left.                            *)
LEMMA EndOpcodeFacts == ASSUME EndOpcode PROVE mode' \in Modes
BY DEF EndOpcode, Modes

(* The stack part of the invariant.                                        *)
StackOK ==
  /\ stack \in Seq(Nat) /\ Len(stack) <= STACK_SIZE
  /\ fp \in Nat /\ frame_count \in Nat
  /\ frames \in Seq(FrameRecord)
  /\ FrameIntegrity

(* The two parts make the invariant.                                       *)
LEMMA Assemble == ASSUME StackOK', ControlOK' PROVE IInv'
BY Zenon DEF StackOK, ControlOK, IInv, TypeOK

(* What the invariant says of the stack and its pointers.                  *)
LEMMA StackFacts ==
  ASSUME IInv
  PROVE  /\ TypeOK /\ FrameIntegrity /\ StackOK
         /\ stack \in Seq(Nat) /\ Len(stack) \in Nat /\ Len(stack) <= STACK_SIZE
         /\ STACK_SIZE \in Nat /\ fp \in Nat /\ frame_count \in Nat
         /\ FrameTop(frame_count) \in Nat
<1>1. TypeOK /\ FrameIntegrity
  BY Zenon DEF IInv
<1>2. stack \in Seq(Nat) /\ Len(stack) <= STACK_SIZE /\ StackOK
      /\ fp \in Nat /\ frame_count \in Nat
  BY <1>1, Zenon DEF TypeOK, StackOK
<1>3. Len(stack) \in Nat
  BY <1>2, LenProperties
<1>4. STACK_SIZE \in Nat
  BY StackAssumption
<1>5. frame_count \in 0..frame_count
  BY <1>2
<1>6. FrameTop(frame_count) \in Nat
  BY <1>1, <1>5, TopsBelow
<1> QED BY <1>1, <1>2, <1>3, <1>4, <1>6, Zenon

(* Steps that leave the stack alone, and steps that only write above fp.   *)
LEMMA StackUntouched ==
  ASSUME IInv, UNCHANGED <<stack, fp, frame_count, frames>>
  PROVE  StackOK'
<1>1. StackOK
  BY StackFacts
<1> QED BY <1>1 DEF StackOK, FrameIntegrity, FramesDisjoint, HeaderIntact,
           FrameBase, FrameTop, Caller, ReturnPc

WritesAbove(s) ==
  /\ s \in Seq(Nat) /\ Len(s) <= STACK_SIZE
  /\ FrameTop(frame_count) <= Len(s)
  /\ \A j \in 1..fp : s[j] = stack[j]

(* An opcode that writes above all headers only keeps the frames intact.   *)
LEMMA StackWritten ==
  ASSUME IInv, UNCHANGED <<fp, frame_count, frames>>, WritesAbove(stack')
  PROVE  StackOK'
<1>1. StackOK /\ TypeOK /\ FrameIntegrity
  BY StackFacts
<1>2. FrameIntegrity'
  <2>1. /\ fp' = fp /\ frame_count' = frame_count /\ frames' = frames
        /\ FrameTop(frame_count) <= Len(stack')
        /\ \A j \in 1..fp : stack'[j] = stack[j]
    BY Zenon DEF WritesAbove
  <2> QED BY <1>1, <2>1, KeepFrames, Zenon
<1>3. fp' \in Nat /\ frame_count' \in Nat /\ frames' \in Seq(FrameRecord)
  BY <1>1, Zenon DEF StackOK
<1> QED BY <1>2, <1>3, Zenon DEF StackOK, WritesAbove

(* A result stored by the running routine.                                 *)
LEMMA StoreWrites ==
  ASSUME IInv, Room(1), NEW variable \in Variables(stack, fp), NEW value \in Nat
  PROVE  WritesAbove(Store(stack, fp, variable, value))
<1>1. /\ stack \in Seq(Nat) /\ Len(stack) \in Nat /\ fp \in Nat
      /\ FrameTop(frame_count) \in Nat /\ STACK_SIZE \in Nat
      /\ TypeOK /\ FrameIntegrity
  BY StackFacts
<1>2. LocalCount(stack, fp) \in 0..15 /\ fp + LocalCount(stack, fp) <= Len(stack)
  BY <1>1, TopFacts
<1>3. FrameTop(frame_count) <= Len(stack)
  BY <1>1 DEF FrameIntegrity
<1> DEFINE s == Store(stack, fp, variable, value)
<1>4. /\ s \in Seq(Nat) /\ Len(s) \in {Len(stack), Len(stack) + 1}
      /\ \A j \in 1..fp : s[j] = stack[j]
  BY <1>1, <1>2, StoreFacts, Zenon
<1> HIDE DEF s
<1>5. Len(s) <= STACK_SIZE /\ FrameTop(frame_count) <= Len(s)
  <2>1. PICK n \in Nat, m \in Nat, t \in Nat :
          n = Len(stack) /\ m = STACK_SIZE /\ t = FrameTop(frame_count)
    BY <1>1
  <2>2. t <= n /\ n + 1 <= m
    BY <1>3, <2>1 DEF Room
  <2>3. Len(s) = n \/ Len(s) = n + 1
    BY <1>4, <2>1, Zenon
  <2>4. CASE Len(s) = n
    BY <2>1, <2>2, <2>4
  <2>5. CASE Len(s) = n + 1
    BY <2>1, <2>2, <2>5
  <2> QED BY <2>3, <2>4, <2>5
<1> QED BY <1>4, <1>5 DEF s, WritesAbove

(* With an operand on the evaluation stack, it lies above the locals.      *)
LEMMA OperandFacts ==
  ASSUME IInv, HasOperand
  PROVE  /\ Len(stack) > 0 /\ Len(stack) \in 1..Len(stack) /\ Len(stack) > fp
         /\ FrameTop(frame_count) <= Len(stack) - 1
         /\ stack[Len(stack)] \in Nat
         /\ WritesAbove(Pop(stack))
<1>1. /\ stack \in Seq(Nat) /\ Len(stack) \in Nat /\ fp \in Nat
      /\ FrameTop(frame_count) \in Nat /\ STACK_SIZE \in Nat
      /\ TypeOK /\ FrameIntegrity /\ Len(stack) <= STACK_SIZE
  BY StackFacts
<1>2. /\ LocalCount(stack, fp) \in 0..15
      /\ fp + LocalCount(stack, fp) = FrameTop(frame_count)
  BY <1>1, TopFacts
<1>3. PICK n \in Nat, k \in Nat :
        n = Len(stack) /\ k = LocalCount(stack, fp) /\ fp + k = FrameTop(frame_count)
  BY <1>1, <1>2
<1>4. n > fp + k
  BY <1>3 DEF HasOperand
<1>5. n > 0 /\ n \in 1..n /\ n > fp /\ fp + k <= n - 1 /\ 1..fp \subseteq 1..(n - 1)
  BY <1>1, <1>3, <1>4
<1>6. /\ Pop(stack) \in Seq(Nat) /\ Len(Pop(stack)) = n - 1
      /\ \A j \in 1..(n - 1) : Pop(stack)[j] = stack[j]
  BY <1>1, <1>3, <1>5, PopFacts, Zenon
<1>7. stack[n] \in Nat
  BY <1>1, <1>3, <1>5, ElementOfSeq
<1>8. /\ n - 1 <= STACK_SIZE /\ FrameTop(frame_count) <= n - 1
  BY <1>1, <1>3, <1>5
<1> QED BY <1>3, <1>5, <1>6, <1>7, <1>8, Zenon DEF WritesAbove

(* z_store, z_inc, z_dec and z_pull on the top of the evaluation stack.    *)
LEMMA OverwriteTop ==
  ASSUME IInv, NEW s, WritesAbove(s), Len(s) > fp, NEW value \in Nat
  PROVE  WritesAbove([s EXCEPT ![Len(s)] = value])
<1>1. s \in Seq(Nat) /\ fp \in Nat
  BY StackFacts, Zenon DEF WritesAbove
<1>2. Len(s) \in Nat
  BY <1>1, LenProperties
<1>3. PICK n \in Nat : n = Len(s)
  BY <1>2
<1>4. n \in 1..n /\ n > fp
  BY <1>1, <1>3
<1>5. /\ [s EXCEPT ![n] = value] \in Seq(Nat) /\ Len([s EXCEPT ![n] = value]) = n
      /\ \A j \in 1..n : j # n => [s EXCEPT ![n] = value][j] = s[j]
  BY <1>1, <1>3, <1>4, OverwriteFacts
<1>6. \A j \in 1..fp : j \in 1..n /\ j # n
  BY <1>1, <1>4
<1>7. \A j \in 1..fp : [s EXCEPT ![n] = value][j] = s[j]
  BY <1>5, <1>6, Zenon
<1> QED BY <1>3, <1>5, <1>7, Zenon DEF WritesAbove

(* z_store, z_inc and z_dec on a local variable or a global one.           *)
LEMMA OverwriteLocal ==
  ASSUME IInv, NEW s, WritesAbove(s),
         NEW variable \in Variables(stack, fp), variable # 0, NEW value \in Nat
  PROVE  WritesAbove(Store(s, fp, variable, value))
<1>1. /\ s \in Seq(Nat) /\ fp \in Nat /\ FrameTop(frame_count) \in Nat
      /\ TypeOK /\ FrameIntegrity /\ FrameTop(frame_count) <= Len(s)
  BY StackFacts, Zenon DEF WritesAbove
<1>2. Len(s) \in Nat
  BY <1>1, LenProperties
<1>3. PICK k \in Nat, n \in Nat :
        /\ k = LocalCount(stack, fp) /\ k <= 15 /\ n = Len(s)
        /\ fp + k = FrameTop(frame_count)
  <2>1. /\ LocalCount(stack, fp) \in 0..15
        /\ fp + LocalCount(stack, fp) = FrameTop(frame_count)
    BY <1>1, TopFacts, Zenon
  <2>2. LocalCount(stack, fp) \in Nat /\ LocalCount(stack, fp) <= 15
    BY <2>1
  <2> QED BY <1>2, <2>1, <2>2, Zenon
<1>4. fp + k <= n
  BY <1>1, <1>3
<1>5. CASE variable = Global
  <2>1. Store(s, fp, variable, value) = s
    BY <1>5 DEF Store, Global
  <2> QED BY <2>1, Zenon
<1>6. CASE variable \in 1..k
  <2>1. /\ variable \in Nat /\ variable < 16
        /\ fp + variable \in 1..n
        /\ \A j \in 1..fp : j # fp + variable /\ j \in 1..n
    BY <1>1, <1>3, <1>4, <1>6
  <2>2. Store(s, fp, variable, value) = [s EXCEPT ![fp + variable] = value]
    BY <2>1 DEF Store, Global
  <2>3. PICK x \in 1..Len(s) : x = fp + variable
    BY <1>3, <2>1
  <2>4. /\ [s EXCEPT ![x] = value] \in Seq(Nat)
        /\ Len([s EXCEPT ![x] = value]) = Len(s)
        /\ \A j \in 1..Len(s) : j # x => [s EXCEPT ![x] = value][j] = s[j]
    BY <1>1, OverwriteFacts
  <2>5. \A j \in 1..fp : [s EXCEPT ![x] = value][j] = s[j]
    BY <1>3, <2>1, <2>3, <2>4, Zenon
  <2> QED BY <2>2, <2>3, <2>4, <2>5, Zenon DEF WritesAbove
<1>7. variable = Global \/ variable \in 1..k
  BY <1>3 DEF Variables
<1> QED BY <1>5, <1>6, <1>7
-----------------------------------------------------------------------------
ArgsOK(args) == args \in Seq(Nat) /\ Len(args) \in 0..MaxArgs

(* The locals that call() pushes.                                          *)
LEMMA LocalsFacts ==
  ASSUME NEW count \in Nat, NEW args, ArgsOK(args)
  PROVE  Locals(count, args) \in Seq(Nat) /\ Len(Locals(count, args)) = count
<1>1. args \in Seq(Nat)
  BY DEF ArgsOK
<1>2. Len(args) \in Nat /\ \A i \in 1..Len(args) : args[i] \in Nat
  BY <1>1
<1>3. Locals(count, args) \in [1..count -> Nat]
  BY <1>2 DEF Locals
<1> QED BY <1>3

(* call() opens a frame whose header is intact, and keeps the others.      *)
LEMMA CallStep ==
  ASSUME IInv, NEW routine \in Nat, NEW count \in 0..MaxLocals,
         NEW args, ArgsOK(args), NEW ct \in 0..2,
         Call(routine, count, args, ct)
  PROVE  /\ StackOK' /\ pc' \in Nat
         /\ Len(stack') = Len(stack) + 4 + count
         /\ \A j \in 1..Len(stack) : stack'[j] = stack[j]
<1>1. /\ TypeOK /\ FrameIntegrity /\ stack \in Seq(Nat) /\ Len(stack) \in Nat
      /\ fp \in Nat /\ frame_count \in Nat /\ STACK_SIZE \in Nat
      /\ FrameTop(frame_count) <= Len(stack)
  BY StackFacts, Zenon DEF FrameIntegrity
<1>2. pc \in Nat /\ pc' = routine + 1 /\ pc' \in Nat
  <2>1. pc' = routine + 1
    BY DEF Call
  <2> QED BY <2>1, <1>1 DEF TypeOK
<1>3. PICK argc \in Nat : argc = Len(args) /\ argc \in 0..MaxArgs
  BY StackAssumption, SMT DEF ArgsOK
<1>4. MaxLocals \in 0..15 /\ MaxArgs \in 0..7
  BY StackAssumption
<1>5. argc \in 0..7 /\ count \in 0..15 /\ count \in Nat
  <2>1. count <= MaxLocals /\ count >= 0 /\ count \in Int
    OBVIOUS
  <2>2. argc <= MaxArgs
    BY <1>3
  <2> QED BY <1>4, <2>1, <2>2
<1>6. PICK n \in Nat : n = Len(stack)
  BY <1>1
<1>7. PICK l : l = Locals(count, args)
  OBVIOUS
<1>8. l \in Seq(Nat) /\ Len(l) = count
  BY <1>5, <1>7, LocalsFacts, Zenon
<1>9. n + 4 + count <= STACK_SIZE
  <2>1. n + (4 + count) <= STACK_SIZE
    BY <1>6 DEF Call, Room
  <2> QED BY <2>1, <1>5
<1>10. PICK a, b, c, d :
         /\ a = pc \div 512 /\ b = pc % 512 /\ c = Link(fp)
         /\ d = HeaderWord(argc, count, ct)
  OBVIOUS
<1>11. a \in Nat /\ b \in Nat
  BY <1>2, <1>10, PcRoundTrip
<1>12. d \in Nat
  <2>1. HeaderWord(argc, count, ct) \in Nat
    BY <1>5, HeaderRoundTrip, SMTT(30)
  <2> QED BY <1>10, <2>1, Zenon
<1>13. c \in Nat
  <2>0. LocalCount(stack, fp) \in 0..15 /\ fp + LocalCount(stack, fp) <= n
    BY <1>1, <1>6, TopFacts, Zenon
  <2>1. PICK k \in Nat : k = LocalCount(stack, fp) /\ fp + k <= n
    BY <2>0
  <2>2. STACK_SIZE - fp - 1 \in Nat
    BY <1>1, <1>5, <1>9, <2>1
  <2> QED BY <1>10, <2>2, Zenon DEF Link
<1>14. stack' = stack \o <<a, b, c, d>> \o l
  <2>1. HeaderWord(Len(args), count, ct) = d
    BY <1>3, <1>10, Zenon
  <2>2. stack' = stack \o <<pc \div 512, pc % 512, Link(fp), HeaderWord(Len(args), count, ct)>>
                   \o Locals(count, args)
    BY Zenon DEF Call
  <2>3. <<pc \div 512, pc % 512, Link(fp), HeaderWord(Len(args), count, ct)>> = <<a, b, c, d>>
    BY <1>10, <2>1
  <2>4. stack' = stack \o <<a, b, c, d>> \o Locals(count, args)
    BY <2>2, <2>3, SMTT(30)
  <2> QED BY <1>7, <2>4, Zenon
<1>15. /\ stack' \in Seq(Nat) /\ Len(stack') = n + 4 + count
       /\ \A j \in 1..n : stack'[j] = stack[j]
       /\ stack'[n + 1] = a /\ stack'[n + 2] = b /\ stack'[n + 3] = c /\ stack'[n + 4] = d
  <2>1. PICK s \in Seq(Nat) : s = stack
    BY <1>1
  <2>2. PushResult(s, a, b, c, d, l)
    BY <1>8, <1>11, <1>12, <1>13, PushFacts
  <2> QED BY <1>6, <1>8, <1>14, <2>1, <2>2, Zenon DEF PushResult
<1>16. PICK new : new = [base |-> n + 4, pc |-> pc, ct |-> ct, argc |-> argc, count |-> count]
  OBVIOUS
<1>17. new \in FrameRecord
  BY <1>2, <1>3, <1>16 DEF FrameRecord
<1>18. frames \in Seq(FrameRecord) /\ Len(frames) = frame_count
  BY <1>1 DEF TypeOK, FrameIntegrity
<1>19. /\ fp' = n + 4 /\ frame_count' = frame_count + 1 /\ frames' = Append(frames, new)
  BY <1>3, <1>6, <1>16, Zenon DEF Call
<1>20. /\ frames' \in Seq(FrameRecord) /\ Len(frames') = frame_count + 1
       /\ \A i \in 1..frame_count : frames'[i] = frames[i]
       /\ frames'[frame_count + 1] = new
  BY <1>17, <1>18, <1>19, AppendFacts
<1>21. n + 4 + count \in Nat /\ n + 4 \in Nat /\ frame_count + 1 \in Nat
       /\ n + 4 + count <= n + 4 + count
  BY <1>1, <1>5
<1>22. Pushed(n, argc, count, ct)
  BY <1>10, <1>15, <1>16, <1>19, <1>20, <1>21, ZenonT(40) DEF Pushed
<1>23. FrameIntegrity'
  <2>1. ct \in Nat
    OBVIOUS
  <2>2. FrameTop(frame_count) <= n
    BY <1>1, <1>6
  <2> QED BY <1>1, <1>5, <1>22, <2>1, <2>2, PushKeepsFrames, Zenon
<1> QED BY <1>2, <1>6, <1>9, <1>15, <1>19, <1>20, <1>21, <1>23, Zenon DEF StackOK

(* z_throw drops a frame but leaves its words.                             *)
LEMMA UnwindStep ==
  ASSUME IInv, Unwind
  PROVE  StackOK'
<1>1. /\ TypeOK /\ FrameIntegrity /\ StackOK /\ frame_count \in Nat /\ Len(stack) \in Nat
  BY StackFacts
<1>2. throw.to \in Nat
  BY <1>1 DEF TypeOK
<1>3. /\ fp' = Caller(stack, fp) /\ frame_count' = frame_count - 1
      /\ frames' = Pop(frames) /\ stack' = stack /\ frame_count > throw.to
  BY DEF Unwind
<1>4. frame_count > 0
  BY <1>1, <1>2, <1>3
<1>5. /\ fp \in Nat /\ fp <= Len(stack) /\ FrameTop(frame_count - 1) <= fp - 4
      /\ FrameTop(frame_count - 1) \in Nat /\ FrameBase(frame_count - 1) \in Nat
      /\ Caller(stack, fp) = FrameBase(frame_count - 1)
  BY <1>1, <1>4, DropFacts, Zenon
<1>6. FrameTop(frame_count - 1) <= Len(stack)
  BY <1>1, <1>5
<1>7. FrameIntegrity' /\ frames' \in Seq(FrameRecord)
  BY <1>1, <1>3, <1>4, <1>6, DropKeepsFrames, Zenon
<1>8. frame_count' \in Nat /\ fp' \in Nat
  BY <1>1, <1>3, <1>4, <1>5
<1> QED BY <1>1, <1>3, <1>7, <1>8, Zenon DEF StackOK

(* ret() resumes the caller below the frame, and delivers the result.      *)
LEMMA RetStep ==
  ASSUME IInv, NEW value \in Nat, NEW variable, Ret(value, variable)
  PROVE  /\ StackOK'
         /\ pc' \in Nat /\ zargs' \in Nat /\ finished' \in Int
         /\ calls' = calls /\ mode' \in Modes
         /\ \A j \in 1..FrameBase(frame_count - 1) : stack'[j] = stack[j]
<1>1. /\ TypeOK /\ FrameIntegrity /\ stack \in Seq(Nat) /\ Len(stack) <= STACK_SIZE
      /\ frame_count \in Nat /\ STACK_SIZE \in Nat
  BY StackFacts
<1>2. frame_count > 0 /\ frame_count' = frame_count - 1 /\ fp' = Caller(stack, fp)
      /\ frames' = Pop(frames) /\ zargs' = 0 /\ calls' = calls /\ EndOpcode
      /\ finished' = NextFinished(CallType(stack, fp))
  BY DEF Ret
<1>3. /\ fp >= 4 /\ fp <= Len(stack) /\ fp \in Nat /\ Len(stack) \in Nat
      /\ Caller(stack, fp) = FrameBase(frame_count - 1)
      /\ FrameBase(frame_count - 1) \in Nat
      /\ FrameTop(frame_count - 1) \in Nat
      /\ FrameTop(frame_count - 1) <= fp - 4
      /\ FrameBase(frame_count - 1) <= FrameTop(frame_count - 1)
      /\ ReturnPc(stack, fp) = frames[frame_count].pc
      /\ frames[frame_count].pc \in Nat
      /\ CallType(stack, fp) \in 0..2
      /\ FrameTop(frame_count - 1) - FrameBase(frame_count - 1) =
           LocalCount(stack, FrameBase(frame_count - 1))
      /\ LocalCount(stack, FrameBase(frame_count - 1)) \in 0..15
  BY <1>1, <1>2, DropFacts, Zenon
<1>4. PICK b \in Nat, t \in Nat, n \in Nat, m \in Nat :
        /\ b = FrameBase(frame_count - 1) /\ t = FrameTop(frame_count - 1)
        /\ n = fp - 4 /\ m = Len(stack)
  <2>1. fp - 4 \in Nat
    BY <1>3
  <2> QED BY <1>3, <2>1, Zenon
<1>5. b <= t /\ t <= n /\ n <= m /\ n + 1 <= m
  BY <1>3, <1>4
<1>6. PICK rest : rest = SubSeq(stack, 1, n)
  OBVIOUS
<1>7. rest \in Seq(Nat) /\ Len(rest) = n /\ \A j \in 1..n : rest[j] = stack[j]
  <2>1. n <= Len(stack)
    BY <1>4, <1>5
  <2>2. /\ SubSeq(stack, 1, n) \in Seq(Nat) /\ Len(SubSeq(stack, 1, n)) = n
        /\ \A j \in 1..n : SubSeq(stack, 1, n)[j] = stack[j]
    BY <1>1, <2>1, BelowFacts, ZenonT(40)
  <2> QED BY <1>6, <2>2, Zenon
<1>8. \A j \in 1..b : j \in 1..n
  BY <1>5
<1>9. LocalCount(rest, b) = LocalCount(stack, b)
  <2>1. CASE b = 0
    BY <2>1 DEF LocalCount
  <2>2. CASE b # 0
    <3>1. b \in 1..n
      BY <1>5, <2>2
    <3>2. rest[b] = stack[b]
      BY <1>7, <3>1, Zenon
    <3> QED BY <3>2, Zenon DEF LocalCount
  <2> QED BY <2>1, <2>2
<1>10. LocalCount(rest, b) \in 0..15 /\ b + LocalCount(rest, b) <= Len(rest)
  <2>1. LocalCount(stack, b) \in 0..15 /\ t - b = LocalCount(stack, b)
    BY <1>3, <1>4, Zenon
  <2>2. PICK k \in Nat : k = LocalCount(stack, b) /\ t - b = k
    BY <2>1
  <2>3. b + k <= n
    BY <1>5, <2>2
  <2> QED BY <1>7, <1>9, <2>1, <2>2, <2>3, Zenon
<1> DEFINE ct == CallType(stack, fp)
<1>11. /\ stack' = CASE ct = 0 -> Store(rest, b, variable, value)
                     [] ct = 1 -> rest
                     [] OTHER  -> Append(rest, value)
       /\ ct = 0 => variable \in Variables(rest, b)
  <2>1. fp' = b
    BY <1>2, <1>3, <1>4, Zenon
  <2>2. fp - 4 = n
    BY <1>4
  <2> QED BY <1>6, <2>1, <2>2 DEF Ret
<1>12. /\ stack' \in Seq(Nat)
       /\ Len(stack') = n \/ Len(stack') = n + 1
       /\ \A j \in 1..b : stack'[j] = stack[j]
  <2>1. CASE ct = 0
    <3>1. stack' = Store(rest, b, variable, value) /\ variable \in Variables(rest, b)
      BY <1>11, <2>1
    <3>2. PICK s : s = Store(rest, b, variable, value)
      OBVIOUS
    <3>3. /\ s \in Seq(Nat) /\ Len(s) \in {Len(rest), Len(rest) + 1}
          /\ \A j \in 1..b : s[j] = rest[j]
      BY <1>7, <1>10, <3>1, <3>2, StoreFacts, ZenonT(40)
    <3> QED BY <1>7, <1>8, <3>1, <3>2, <3>3, Zenon
  <2>2. CASE ct = 1
    <3>1. stack' = rest
      BY <1>11, <2>2
    <3> QED BY <1>7, <1>8, <3>1, Zenon
  <2>3. CASE ct \notin {0, 1}
    <3>1. stack' = Append(rest, value)
      BY <1>11, <2>3
    <3>2. /\ Append(rest, value) \in Seq(Nat) /\ Len(Append(rest, value)) = Len(rest) + 1
          /\ \A j \in 1..Len(rest) : Append(rest, value)[j] = rest[j]
      BY <1>7, AppendFacts
    <3> QED BY <1>7, <1>8, <3>1, <3>2, Zenon
  <2> QED BY <2>1, <2>2, <2>3, Zenon
<1>13. Len(stack') <= STACK_SIZE /\ t <= Len(stack')
  <2>1. n + 1 <= STACK_SIZE /\ n <= STACK_SIZE
    BY <1>1, <1>4, <1>5
  <2> QED BY <1>5, <1>12, <2>1
<1>14. FrameIntegrity' /\ frames' \in Seq(FrameRecord)
  BY <1>1, <1>2, <1>4, <1>12, <1>13, DropKeepsFrames, Zenon
<1>15. frame_count' \in Nat /\ fp' \in Nat
  BY <1>1, <1>2, <1>3
<1>16. StackOK'
  BY <1>12, <1>13, <1>14, <1>15, Zenon DEF StackOK
<1>17. pc' \in Nat
  <2>1. pc' = ReturnPc(stack, fp) + 1 \/ pc' = ReturnPc(stack, fp)
    BY DEF Ret
  <2> QED BY <1>3, <2>1
<1>18. finished' \in Int
  BY <1>1, <1>2 DEF NextFinished, TypeOK
<1>19. zargs' \in Nat /\ mode' \in Modes
  BY <1>2, EndOpcodeFacts
<1>20. \A j \in 1..FrameBase(frame_count - 1) : stack'[j] = stack[j]
  BY <1>4, <1>12, Zenon
<1> QED BY <1>2, <1>16, <1>17, <1>18, <1>19, <1>20
-----------------------------------------------------------------------------
(* Before the first opcode the stack is empty.                             *)
LEMMA InitOK == ASSUME Init PROVE IInv
<1>1. /\ stack = <<>> /\ fp = 0 /\ frame_count = 0 /\ pc = START_PC /\ zargs = 0
      /\ finished = 0 /\ calls = <<>> /\ mode = "fetch" /\ throw = NoThrow
      /\ frames = <<>>
  BY DEF Init
<1>2. FrameIntegrity
  BY <1>1 DEF FrameIntegrity, FrameBase, FrameTop, FramesDisjoint
<1>3. stack \in Seq(Nat) /\ Len(stack) <= STACK_SIZE
  BY <1>1, StackAssumption
<1>4. calls \in Seq(CallRecord) /\ frames \in Seq(FrameRecord)
  BY <1>1
<1>5. throw \in [to : Nat, value : Nat, fp : Nat, frame_count : Nat] /\ mode \in Modes
  BY <1>1 DEF NoThrow, Modes
<1>6. pc \in Nat
  BY <1>1, StackAssumption
<1>7. fp \in Nat /\ frame_count \in Nat /\ zargs \in Nat /\ finished \in Int
  BY <1>1
<1> QED BY <1>2, <1>3, <1>4, <1>5, <1>6, <1>7, Zenon DEF IInv, TypeOK

(* A fetched opcode that writes words above fp.                            *)
LEMMA WriteStep ==
  ASSUME IInv, WritesAbove(stack'),
         UNCHANGED <<fp, frame_count, pc, finished, calls, throw, frames>>,
         zargs' \in Nat, mode' \in Modes
  PROVE  IInv'
<1>1. StackOK'
  BY StackWritten
<1>2. ControlOK'
  BY ControlFacts, Zenon DEF ControlOK
<1> QED BY <1>1, <1>2, Assemble

(* A step that leaves the stack alone.                                     *)
LEMMA QuietStep ==
  ASSUME IInv, UNCHANGED <<stack, fp, frame_count, frames>>, ControlOK'
  PROVE  IInv'
BY StackUntouched, Assemble

(* z_push, z_catch and every opcode that stores its result.                *)
LEMMA StoreResultStep ==
  ASSUME IInv, NEW variable, NEW value \in Nat, StoreResult(variable, value)
  PROVE  IInv' /\ WritesAbove(stack')
<1>1. /\ Room(1) /\ variable \in Variables(stack, fp)
      /\ stack' = Store(stack, fp, variable, value)
      /\ UNCHANGED <<fp, frame_count, pc, finished, calls, throw, frames>>
      /\ zargs' = 0 /\ EndOpcode
  BY DEF StoreResult
<1>2. WritesAbove(stack')
  BY <1>1, StoreWrites
<1>3. mode' \in Modes /\ zargs' \in Nat
  BY <1>1, EndOpcodeFacts
<1> QED BY <1>1, <1>2, <1>3, WriteStep

(* z_store, z_inc and z_dec.                                               *)
LEMMA WriteVariableStep ==
  ASSUME IInv, NEW variable, NEW value \in Nat, WriteVariable(variable, value)
  PROVE  IInv' /\ WritesAbove(stack')
<1>1. /\ variable \in Variables(stack, fp)
      /\ variable = 0 => HasOperand
      /\ stack' = IF variable = 0 THEN [stack EXCEPT ![Len(stack)] = value]
                  ELSE Store(stack, fp, variable, value)
      /\ UNCHANGED <<fp, frame_count, pc, finished, calls, throw, frames>>
      /\ zargs' = 0 /\ EndOpcode
  BY DEF WriteVariable
<1>2. WritesAbove(stack)
  BY StackFacts DEF WritesAbove, FrameIntegrity
<1>3. WritesAbove(stack')
  <2>1. CASE variable = 0
    <3>0. HasOperand
      BY <1>1, <2>1, Zenon
    <3>1. Len(stack) > fp
      BY <3>0, OperandFacts, Zenon
    <3>2. WritesAbove([stack EXCEPT ![Len(stack)] = value])
      BY <1>2, <3>1, OverwriteTop
    <3> QED BY <1>1, <2>1, <3>2, Zenon
  <2>2. CASE variable # 0
    <3>0. variable \in Variables(stack, fp)
      BY <1>1, Zenon
    <3>1. WritesAbove(Store(stack, fp, variable, value))
      BY <1>2, <2>2, <3>0, OverwriteLocal, Zenon
    <3> QED BY <1>1, <2>2, <3>1, Zenon
  <2> QED BY <2>1, <2>2
<1>4. mode' \in Modes /\ zargs' \in Nat
  BY <1>1, EndOpcodeFacts
<1> QED BY <1>1, <1>3, <1>4, WriteStep

(* z_pop and operands from the stack.                                      *)
LEMMA PopOperandStep ==
  ASSUME IInv, PopOperand
  PROVE  IInv' /\ WritesAbove(stack')
<1>1. /\ HasOperand /\ stack' = Pop(stack)
      /\ UNCHANGED <<fp, frame_count, pc, finished, calls, throw, frames>>
      /\ zargs' = 0 /\ EndOpcode
  BY DEF PopOperand
<1>2. WritesAbove(stack')
  BY <1>1, OperandFacts
<1>3. mode' \in Modes /\ zargs' \in Nat
  BY <1>1, EndOpcodeFacts
<1> QED BY <1>1, <1>2, <1>3, WriteStep

(* z_pull.                                                                 *)
LEMMA PullStep ==
  ASSUME IInv, NEW variable, Pull(variable)
  PROVE  IInv' /\ WritesAbove(stack')
<1>1. PICK value, rest : value = stack[Len(stack)] /\ rest = Pop(stack)
  OBVIOUS
<1>2. /\ HasOperand /\ variable \in Variables(stack, fp)
      /\ variable = 0 => Len(rest) > fp + LocalCount(stack, fp)
      /\ stack' = IF variable = 0 THEN [rest EXCEPT ![Len(rest)] = value]
                  ELSE Store(rest, fp, variable, value)
      /\ UNCHANGED <<fp, frame_count, pc, finished, calls, throw, frames>>
      /\ zargs' = 0 /\ EndOpcode
  BY <1>1 DEF Pull
<1>3. WritesAbove(rest) /\ value \in Nat
  BY <1>1, <1>2, OperandFacts
<1>4. WritesAbove(stack')
  <2>1. CASE variable = 0
    <3>1. LocalCount(stack, fp) \in 0..15 /\ fp \in Nat
      BY StackFacts, TopFacts
    <3>2. Len(rest) \in Nat
      BY <1>3, LenProperties DEF WritesAbove
    <3>3. Len(rest) > fp + LocalCount(stack, fp)
      BY <1>2, <2>1
    <3>4. Len(rest) > fp
      BY <3>1, <3>2, <3>3
    <3>5. WritesAbove([rest EXCEPT ![Len(rest)] = value])
      BY <1>3, <3>4, OverwriteTop
    <3> QED BY <1>2, <2>1, <3>5, Zenon
  <2>2. CASE variable # 0
    <3>1. WritesAbove(Store(rest, fp, variable, value))
      BY <1>2, <1>3, <2>2, OverwriteLocal
    <3> QED BY <1>2, <2>2, <3>1, Zenon
  <2> QED BY <2>1, <2>2
<1>5. mode' \in Modes /\ zargs' \in Nat
  BY <1>2, EndOpcodeFacts
<1> QED BY <1>2, <1>4, <1>5, WriteStep

(* z_ret and its like.                                                     *)
LEMMA ReturnStep ==
  ASSUME IInv, NEW value \in Nat, NEW variable, Return(value, variable)
  PROVE  IInv'
<1>1. Ret(value, variable) /\ throw' = throw
  BY DEF Return
<1>2. /\ StackOK' /\ pc' \in Nat /\ zargs' \in Nat /\ finished' \in Int
      /\ calls' = calls /\ mode' \in Modes
  BY <1>1, RetStep
<1>3. ControlOK'
  BY <1>1, <1>2, ControlFacts, Zenon DEF ControlOK
<1> QED BY <1>2, <1>3, Assemble

(* The arguments of an opcode are operands, and not too many.              *)
LEMMA ArgumentsFacts ==
  ASSUME NEW argc \in 0..MaxArgs, NEW args \in [1..argc -> Word]
  PROVE  ArgsOK(args)
<1>1. Word \subseteq Nat /\ MaxArgs \in 0..7
  BY StackAssumption
<1>2. argc \in Nat
  BY <1>1
<1>3. args \in [1..argc -> Nat]
  BY <1>1
<1>4. args \in Seq(Nat) /\ Len(args) = argc
  BY <1>2, <1>3
<1> QED BY <1>4 DEF ArgsOK

(* z_call_s and z_call_n.                                                  *)
LEMMA CallRoutineStep ==
  ASSUME IInv, NEW routine \in ROUTINES, NEW count \in 0..MaxLocals, NEW ct \in {0, 1},
         NEW argc \in 0..MaxArgs, NEW args \in [1..argc -> Word],
         CallRoutine(routine, count, args, ct)
  PROVE  IInv'
<1>1. ArgsOK(args)
  BY ArgumentsFacts
<1>2. /\ Call(routine, count, args, ct) /\ zargs' = 0
      /\ UNCHANGED <<finished, calls, throw>> /\ EndOpcode
  BY DEF CallRoutine
<1>3. routine \in Nat /\ ct \in 0..2
  BY StackAssumption
<1>4. StackOK' /\ pc' \in Nat
  BY <1>1, <1>2, <1>3, CallStep
<1>5. mode' \in Modes /\ zargs' \in Nat
  BY <1>2, EndOpcodeFacts
<1>6. ControlOK'
  BY <1>2, <1>4, <1>5, ControlFacts, Zenon DEF ControlOK
<1> QED BY <1>4, <1>6, Assemble

(* direct_call saves what the interrupted opcode must find again.          *)
LEMMA DirectCallStep ==
  ASSUME IInv, NEW routine \in ROUTINES, NEW count \in 0..MaxLocals,
         DirectCall(routine, count)
  PROVE  IInv'
<1>1. PICK saved : saved = [zargs |-> zargs, stack |-> stack, fp |-> fp,
                            frame_count |-> frame_count, pc |-> pc]
  OBVIOUS
<1>2. /\ Call(routine, count, <<>>, 2) /\ calls' = Append(calls, saved)
      /\ mode' = "fetch" /\ UNCHANGED <<zargs, finished, throw>>
  BY <1>1, Zenon DEF DirectCall
<1>3. ControlOK /\ stack \in Seq(Nat) /\ fp \in Nat /\ frame_count \in Nat
  BY ControlFacts, StackFacts
<1>4. pc \in Nat /\ zargs \in Nat /\ calls \in Seq(CallRecord)
  BY <1>3, Zenon DEF ControlOK
<1>5. saved \in CallRecord
  BY <1>1, <1>3, <1>4, Zenon DEF CallRecord
<1>6. calls' \in Seq(CallRecord)
  BY <1>2, <1>4, <1>5, AppendFacts
<1>7. ArgsOK(<<>>) /\ routine \in Nat
  BY StackAssumption DEF ArgsOK
<1>8. 2 \in 0..2
  OBVIOUS
<1>9. StackOK' /\ pc' \in Nat
  BY <1>2, <1>7, <1>8, CallStep
<1>10. mode' \in Modes
  BY <1>2 DEF Modes
<1>11. ControlOK'
  BY <1>2, <1>3, <1>6, <1>9, <1>10, Zenon DEF ControlOK
<1> QED BY <1>9, <1>11, Assemble

(* The end of an opcode that was interrupted.                              *)
LEMMA FinishOpcodeStep ==
  ASSUME IInv, NEW variable, NEW value \in Nat, FinishOpcode(variable, value)
  PROVE  IInv' /\ WritesAbove(stack')
<1>1. /\ Room(1) /\ variable \in Variables(stack, fp)
      /\ stack' = Store(stack, fp, variable, value)
      /\ UNCHANGED <<fp, frame_count, pc, zargs, finished, calls, throw, frames>>
      /\ EndOpcode
  BY DEF FinishOpcode
<1>2. WritesAbove(stack')
  BY <1>1, StoreWrites
<1>3. mode' \in Modes
  BY <1>1, EndOpcodeFacts
<1>4. zargs' \in Nat
  BY <1>1, ControlFacts DEF ControlOK
<1> QED BY <1>1, <1>2, <1>3, <1>4, WriteStep

(* The result of a direct call is popped, or the loop is the last one.     *)
LEMMA LeaveStep ==
  ASSUME IInv, Leave
  PROVE  IInv'
<1>1. /\ ControlOK /\ stack \in Seq(Nat)
  BY ControlFacts, StackFacts
<1>2. /\ finished \in Int /\ calls \in Seq(CallRecord) /\ zargs \in Nat
  BY <1>1, Zenon DEF ControlOK
<1>3. finished' = finished - 1 /\ UNCHANGED <<fp, frame_count, pc, throw, frames>>
  BY DEF Leave
<1>4. finished' \in Int
  BY <1>2, <1>3
<1>5. CASE calls = <<>>
  <2>1. mode' = "stopped" /\ UNCHANGED <<stack, zargs, calls>>
    BY <1>5 DEF Leave
  <2>2. mode' \in Modes
    BY <2>1 DEF Modes
  <2>3. ControlOK'
    BY <1>1, <1>3, <1>4, <2>1, <2>2, Zenon DEF ControlOK
  <2> QED BY <1>3, <2>1, <2>3, QuietStep
<1>6. CASE calls # <<>>
  <2>1. /\ zargs' = calls[Len(calls)].zargs /\ calls' = Pop(calls)
        /\ IF HasOperand THEN mode' = "opcode" /\ stack' = ResultPopped
           ELSE mode' = "overrun" /\ UNCHANGED stack
    BY <1>6 DEF Leave
  <2>2. Len(calls) > 0 /\ calls[Len(calls)] \in CallRecord
    BY <1>2, <1>6
  <2>3. zargs' \in Nat
    BY <2>1, <2>2 DEF CallRecord
  <2>4. calls' \in Seq(CallRecord)
    BY <1>2, <2>1, <2>2, PopFacts
  <2>5. mode' \in Modes
    BY <2>1 DEF Modes
  <2>6. ControlOK'
    BY <1>1, <1>3, <1>4, <2>3, <2>4, <2>5, Zenon DEF ControlOK
  <2>7. StackOK'
    <3>1. CASE HasOperand
      <4>1. stack' = Pop(stack)
        BY <2>1, <3>1 DEF ResultPopped
      <4>2. WritesAbove(stack')
        BY <3>1, <4>1, OperandFacts
      <4> QED BY <1>3, <4>2, StackWritten
    <3>2. CASE ~HasOperand
      BY <1>3, <2>1, <3>2, StackUntouched
    <3> QED BY <3>1, <3>2
  <2> QED BY <2>6, <2>7, Assemble
<1> QED BY <1>5, <1>6

(* z_restart.                                                              *)
LEMMA RestartStep ==
  ASSUME IInv, Restart
  PROVE  IInv'
<1>1. /\ stack' = <<>> /\ fp' = 0 /\ frame_count' = 0 /\ frames' = <<>>
      /\ pc' = START_PC /\ UNCHANGED <<zargs, finished, calls, throw>> /\ EndOpcode
  BY DEF Restart
<1>2. FrameIntegrity'
  BY <1>1 DEF FrameIntegrity, FrameBase, FrameTop, FramesDisjoint
<1>3. StackOK'
  BY <1>1, <1>2, StackAssumption DEF StackOK
<1>4. pc' \in Nat
  BY <1>1, StackAssumption
<1>5. ControlOK'
  BY <1>1, <1>4, EndOpcodeFacts, ControlFacts, Zenon DEF ControlOK
<1> QED BY <1>3, <1>5, Assemble

(* z_throw, up to its loop.                                                *)
LEMMA ThrowStep ==
  ASSUME IInv, NEW n \in 1..(frame_count + 1), NEW value \in Nat, Throw(value, n)
  PROVE  IInv'
<1>1. /\ mode' = "unwind"
      /\ throw' = [to |-> n, value |-> value, fp |-> fp, frame_count |-> frame_count]
      /\ UNCHANGED <<stack, fp, frame_count, pc, zargs, finished, calls, frames>>
  BY DEF Throw
<1>2. n \in Nat /\ fp \in Nat /\ frame_count \in Nat
  BY StackFacts
<1>3. throw' \in [to : Nat, value : Nat, fp : Nat, frame_count : Nat]
  BY <1>1, <1>2
<1>4. mode' \in Modes
  BY <1>1 DEF Modes
<1>5. ControlOK'
  BY <1>1, <1>3, <1>4, ControlFacts, Zenon DEF ControlOK
<1> QED BY <1>1, <1>5, QuietStep

(* One turn of the loop of z_throw.                                        *)
LEMMA UnwindsStep ==
  ASSUME IInv, Unwind
  PROVE  IInv'
<1>1. UNCHANGED <<stack, pc, zargs, finished, calls, mode, throw>>
  BY DEF Unwind
<1>2. ControlOK'
  BY <1>1, ControlFacts, Zenon DEF ControlOK
<1> QED BY <1>2, UnwindStep, Assemble

(* z_throw, from its loop to its end.                                      *)
LEMMA EndThrowStep ==
  ASSUME IInv, NEW variable, EndThrow(variable)
  PROVE  IInv'
<1>1. Ret(throw.value, variable) /\ throw' = NoThrow
  BY DEF EndThrow
<1>2. throw.value \in Nat
  BY ControlFacts DEF ControlOK
<1>3. /\ StackOK' /\ pc' \in Nat /\ zargs' \in Nat /\ finished' \in Int
      /\ calls' = calls /\ mode' \in Modes
  BY <1>1, <1>2, RetStep
<1>4. throw' \in [to : Nat, value : Nat, fp : Nat, frame_count : Nat]
  BY <1>1 DEF NoThrow
<1>5. ControlOK'
  BY <1>3, <1>4, ControlFacts, Zenon DEF ControlOK
<1> QED BY <1>3, <1>5, Assemble
-----------------------------------------------------------------------------
(* Every step of the interpreter preserves the invariant.                  *)
LEMMA StepOK == ASSUME IInv, [Next]_vars PROVE IInv'
<1>0. Word \subseteq Nat /\ PC \subseteq Nat
  BY StackAssumption
<1>1. ASSUME NEW target \in PC, Compute(target) PROVE IInv'
  <2>1. /\ pc' = target /\ zargs' = 0 /\ EndOpcode
        /\ UNCHANGED <<stack, fp, frame_count, finished, calls, throw, frames>>
    BY <1>1 DEF Compute
  <2>2. pc' \in Nat /\ zargs' \in Nat /\ mode' \in Modes
    BY <1>0, <1>1, <2>1, EndOpcodeFacts
  <2>3. ControlOK'
    BY <2>1, <2>2, ControlFacts, Zenon DEF ControlOK
  <2> QED BY <2>1, <2>3, QuietStep
<1>2. ASSUME NEW operand \in Word, BeginOpcode(operand) PROVE IInv'
  <2>1. /\ mode' = "opcode" /\ zargs' = operand
        /\ UNCHANGED <<stack, fp, frame_count, pc, finished, calls, throw, frames>>
    BY <1>2 DEF BeginOpcode
  <2>2. mode' \in Modes /\ zargs' \in Nat
    BY <1>0, <1>2, <2>1 DEF Modes
  <2>3. ControlOK'
    BY <2>1, <2>2, ControlFacts, Zenon DEF ControlOK
  <2> QED BY <2>1, <2>3, QuietStep
<1>3. ASSUME Quit PROVE IInv'
  <2>1. /\ finished' = QUIT /\ EndOpcode
        /\ UNCHANGED <<stack, fp, frame_count, pc, zargs, calls, throw, frames>>
    BY <1>3 DEF Quit
  <2>2. finished' \in Int
    BY <2>1 DEF QUIT
  <2>3. ControlOK'
    BY <2>1, <2>2, EndOpcodeFacts, ControlFacts, Zenon DEF ControlOK
  <2> QED BY <2>1, <2>3, QuietStep
<1>4. ASSUME Overrun PROVE IInv'
  <2>1. /\ mode' = "overrun"
        /\ UNCHANGED <<stack, fp, frame_count, pc, zargs, finished, calls, throw, frames>>
    BY <1>4 DEF Overrun
  <2>2. mode' \in Modes
    BY <2>1 DEF Modes
  <2>3. ControlOK'
    BY <2>1, <2>2, ControlFacts, Zenon DEF ControlOK
  <2> QED BY <2>1, <2>3, QuietStep
<1>5. ASSUME NEW variable, Catch(variable) PROVE IInv'
  <2>1. frame_count \in Nat
    BY StackFacts
  <2> QED BY <1>5, <2>1, StoreResultStep DEF Catch
<1>6. ASSUME NEW variable, ReturnPopped(variable) PROVE IInv'
  <2>1. HasOperand /\ Return(stack[Len(stack)], variable)
    BY <1>6 DEF ReturnPopped
  <2>2. stack[Len(stack)] \in Nat
    BY <2>1, OperandFacts
  <2> QED BY <2>1, <2>2, ReturnStep
<1>7. CASE UNCHANGED vars
  <2>1. /\ UNCHANGED <<stack, fp, frame_count, frames>>
        /\ UNCHANGED <<pc, zargs, finished, calls, mode, throw>>
    BY <1>7 DEF vars
  <2>2. ControlOK'
    BY <2>1, ControlFacts, Zenon DEF ControlOK
  <2> QED BY <2>1, <2>2, QuietStep
<1>8. CASE Opcode
  <2>1. ASSUME NEW variable \in 0..Global, NEW value \in Word,
               \/ StoreResult(variable, value)
               \/ WriteVariable(variable, value)
               \/ Return(value, variable)
        PROVE  IInv'
    BY <1>0, <2>1, StoreResultStep, WriteVariableStep, ReturnStep
  <2>2. ASSUME NEW variable \in 0..Global,
               Pull(variable) \/ Catch(variable) \/ ReturnPopped(variable)
        PROVE  IInv'
    BY <2>2, <1>5, <1>6, PullStep
  <2>3. ASSUME NEW n \in 1..(frame_count + 1), NEW value \in Word, Throw(value, n)
        PROVE  IInv'
    BY <1>0, <2>3, ThrowStep
  <2>4. ASSUME NEW routine \in ROUTINES, NEW count \in 0..MaxLocals, NEW ct \in {0, 1},
               NEW argc \in 0..MaxArgs, NEW args \in [1..argc -> Word],
               CallRoutine(routine, count, args, ct)
        PROVE  IInv'
    BY <2>4, CallRoutineStep
  <2>5. ASSUME NEW variable \in 0..Global, EndThrow(variable) PROVE IInv'
    BY <2>5, EndThrowStep
  <2> QED BY <1>1, <1>2, <1>3, <1>8, <2>1, <2>2, <2>3, <2>4, <2>5,
             PopOperandStep, UnwindsStep, RestartStep, Zenon DEF Opcode
<1>9. CASE Interrupt
  <2>1. ASSUME NEW routine \in ROUTINES, NEW count \in 0..MaxLocals,
               DirectCall(routine, count)
        PROVE  IInv'
    BY <2>1, DirectCallStep
  <2>2. ASSUME NEW variable \in 0..Global, NEW value \in Word, FinishOpcode(variable, value)
        PROVE  IInv'
    BY <1>0, <2>2, FinishOpcodeStep
  <2> QED BY <1>9, <2>1, <2>2, LeaveStep, Zenon DEF Interrupt
<1> QED BY <1>4, <1>7, <1>8, <1>9, Zenon DEF Next

(* Both invariants at once, from the initial state and from every step of  *)
(* interpret(), direct_call() and z_throw.                                 *)
THEOREM Invariance == Spec => []IInv
BY InitOK, StepOK, PTL DEF Spec

(* Every variable keeps its type, and sp stays inside the array, whatever  *)
(* the story file calls, pushes and throws until the array is full.        *)
THEOREM TypeCorrect == Spec => []TypeOK
<1>1. IInv => TypeOK
  BY Zenon DEF IInv
<1> QED BY <1>1, Invariance, PTL

(* The headers on the stack are those of the calls in progress, for every  *)
(* array size, every local and argument count and every nesting of calls.  *)
THEOREM FramesIntact == Spec => []FrameIntegrity
<1>1. IInv => FrameIntegrity
  BY Zenon DEF IInv
<1> QED BY <1>1, Invariance, PTL
-----------------------------------------------------------------------------
(***************************************************************************)
(* Direct calls: each has a loop of interpret() and a frame of its own,    *)
(* and the opcode it interrupts cannot tell that it happened; for every    *)
(* array size, every story file and every nesting of calls, as long as     *)
(* each interrupt routine ends by returning.                               *)
(*                                                                         *)
(* The two properties look at the pending calls only when one of them      *)
(* ends.  What makes them true in between is that each pending call can    *)
(* name its frame, the one above those that were there when it began, and  *)
(* that nothing below that frame's header has changed since.               *)
(***************************************************************************)

(* The call c waits for its frame, which is on the stack s with frames f.  *)
Awaits(c, s, f) ==
  LET n == c.frame_count + 1
  IN  /\ n \in 1..Len(f) /\ f[n].ct = 2 /\ c.pc = f[n].pc
      /\ c.fp = IF c.frame_count = 0 THEN 0 ELSE f[c.frame_count].base
      /\ Len(c.stack) = f[n].base - 4
      /\ \A j \in 1..Len(c.stack) : s[j] = c.stack[j]

(* The frame of the call c is gone: only its result is left.               *)
Returned(c) ==
  /\ c.frame_count = frame_count /\ c.pc = pc /\ c.fp = fp
  /\ Len(stack) = Len(c.stack) + 1
  /\ \A j \in 1..Len(c.stack) : stack[j] = c.stack[j]
  /\ FrameTop(frame_count) <= Len(c.stack)

(* The calls whose frame is on the stack.                                  *)
Open == IF mode = "leave" THEN 1..(Len(calls) - 1) ELSE 1..Len(calls)

Pairing ==
  /\ \A j \in Open : Awaits(calls[j], stack, frames)
  /\ \A n \in DirectFrames : \E j \in Open : calls[j].frame_count + 1 = n
Ascending ==
  \A j, k \in 1..Len(calls) : j < k => calls[j].frame_count < calls[k].frame_count
Loops ==
  /\ mode \in {"fetch", "opcode", "unwind"} => finished = 0
  /\ mode = "leave" /\ calls # <<>> => finished = 1 /\ Returned(calls[Len(calls)])
Throws == mode = "unwind" => \A n \in DirectFrames : n <= throw.to

LoopInv == Pairing /\ Ascending /\ Loops /\ Throws
-----------------------------------------------------------------------------
(* What a call waits for is not disturbed by a step that keeps its frame,  *)
(* those below it and the words up to its header.                          *)
LEMMA AwaitsKept ==
  ASSUME NEW c \in CallRecord, NEW s, NEW s2, NEW f, NEW f2,
         Awaits(c, s, f),
         f[c.frame_count + 1].base \in Nat,
         c.frame_count + 1 <= Len(f2), Len(f2) \in Nat,
         \A i \in 1..(c.frame_count + 1) : f2[i] = f[i],
         \A j \in 1..(f[c.frame_count + 1].base) : s2[j] = s[j]
  PROVE  Awaits(c, s2, f2)
<1>1. PICK k \in Nat : k = c.frame_count
  BY DEF CallRecord
<1>2. PICK b \in Nat : b = f[k + 1].base
  BY <1>1
<1>3. /\ k + 1 \in 1..Len(f2) /\ k + 1 \in 1..(k + 1)
      /\ k # 0 => k \in 1..(k + 1)
  BY <1>1
<1>4. /\ f[k + 1].ct = 2 /\ c.pc = f[k + 1].pc /\ Len(c.stack) = b - 4
      /\ c.fp = IF k = 0 THEN 0 ELSE f[k].base
      /\ \A j \in 1..Len(c.stack) : s[j] = c.stack[j]
  BY <1>1, <1>2, Zenon DEF Awaits
<1>5. f2[k + 1] = f[k + 1] /\ (k # 0 => f2[k] = f[k])
  BY <1>1, <1>3
<1>6. \A j \in 1..Len(c.stack) : j \in 1..b
  BY <1>2, <1>4
<1>7. \A j \in 1..Len(c.stack) : s2[j] = c.stack[j]
  BY <1>1, <1>2, <1>4, <1>6, Zenon
<1>8. c.fp = IF k = 0 THEN 0 ELSE f2[k].base
  BY <1>4, <1>5
<1> QED BY <1>1, <1>2, <1>3, <1>4, <1>5, <1>7, <1>8, Zenon DEF Awaits

(* The pending calls and the frames they wait for.                         *)
LEMMA PairFacts ==
  ASSUME IInv, LoopInv
  PROVE  /\ calls \in Seq(CallRecord) /\ Len(calls) \in Nat
         /\ frames \in Seq(FrameRecord) /\ Len(frames) = frame_count
         /\ frame_count \in Nat /\ fp \in Nat
         /\ DirectFrames = {n \in 1..frame_count : frames[n].ct = 2}
         /\ Open \subseteq 1..Len(calls)
         /\ \A j \in 1..Len(calls) : calls[j] \in CallRecord
         /\ \A j \in Open : /\ calls[j].frame_count + 1 \in DirectFrames
                            /\ calls[j].frame_count + 1 \in 1..frame_count
                            /\ frames[calls[j].frame_count + 1].base \in 4..fp
<1>1. /\ calls \in Seq(CallRecord) /\ frames \in Seq(FrameRecord)
      /\ Len(frames) = frame_count /\ frame_count \in Nat /\ fp \in Nat
      /\ TypeOK /\ FrameIntegrity
  BY Zenon DEF IInv, TypeOK, FrameIntegrity
<1>2. Len(calls) \in Nat /\ \A j \in 1..Len(calls) : calls[j] \in CallRecord
  BY <1>1, LenProperties, ElementOfSeq
<1>3. DirectFrames = {n \in 1..frame_count : frames[n].ct = 2}
  BY <1>1 DEF DirectFrames
<1>4. Open \subseteq 1..Len(calls)
  BY <1>2 DEF Open
<1>5. ASSUME NEW j \in Open
      PROVE  /\ calls[j].frame_count + 1 \in DirectFrames
             /\ calls[j].frame_count + 1 \in 1..frame_count
             /\ frames[calls[j].frame_count + 1].base \in 4..fp
  <2>1. PICK n : n = calls[j].frame_count + 1
    OBVIOUS
  <2>2. n \in 1..Len(frames) /\ frames[n].ct = 2
    BY <2>1 DEF LoopInv, Pairing, Awaits
  <2>3. n \in 1..frame_count /\ n \in DirectFrames
    BY <1>1, <1>3, <2>2
  <2>4. frames[n].base \in 4..fp
    BY <1>1, <2>3, FrameFacts
  <2> QED BY <2>1, <2>3, <2>4
<1> QED BY <1>1, <1>2, <1>3, <1>4, <1>5

(* A step above fp that leaves the frames and the calls they belong to.    *)
LEMMA PairingKept ==
  ASSUME IInv, LoopInv, frames' = frames, Open' = Open,
         \A j \in Open : calls'[j] = calls[j],
         \A j \in 1..fp : stack'[j] = stack[j]
  PROVE  Pairing'
<1>1. DirectFrames' = DirectFrames
  BY DEF DirectFrames
<1>2. ASSUME NEW j \in Open PROVE Awaits(calls[j], stack', frames)
  <2>1. /\ frames \in Seq(FrameRecord) /\ Len(frames) = frame_count
        /\ frame_count \in Nat /\ fp \in Nat /\ calls[j] \in CallRecord
        /\ calls[j].frame_count + 1 \in 1..frame_count
        /\ frames[calls[j].frame_count + 1].base \in 4..fp
    BY PairFacts
  <2>2. PICK c \in CallRecord : c = calls[j]
    BY <2>1
  <2>3. PICK b : b = frames[c.frame_count + 1].base
    OBVIOUS
  <2>4. b \in Nat /\ \A i \in 1..b : i \in 1..fp
    BY <2>1, <2>2, <2>3
  <2>5. c.frame_count + 1 <= Len(frames) /\ Len(frames) \in Nat
    BY <2>1, <2>2
  <2>6. \A i \in 1..b : stack'[i] = stack[i]
    BY <2>4
  <2>7. PICK f, s, s2 : f = frames /\ s = stack /\ s2 = stack'
    OBVIOUS
  <2>8. Awaits(c, s, f)
    BY <2>2, <2>7 DEF LoopInv, Pairing
  <2>9. Awaits(c, s2, f)
    BY <2>3, <2>4, <2>5, <2>6, <2>7, <2>8, AwaitsKept
  <2> QED BY <2>2, <2>7, <2>9
<1> QED BY <1>1, <1>2 DEF LoopInv, Pairing

(* An opcode that leaves the loops alone.                                  *)
LEMMA QuietLoop ==
  ASSUME IInv, LoopInv, UNCHANGED <<frames, calls, finished>>,
         \A j \in 1..fp : stack'[j] = stack[j],
         mode \in {"fetch", "opcode"}, mode' \in {"fetch", "opcode", "overrun"}
  PROVE  LoopInv'
<1>1. Open' = Open
  BY DEF Open
<1>2. Pairing'
  BY <1>1, PairingKept
<1>3. Ascending' /\ Loops' /\ Throws'
  BY DEF LoopInv, Ascending, Loops, Throws
<1> QED BY <1>2, <1>3 DEF LoopInv

(* The loop of interpret() goes on after an opcode that does not leave it. *)
LEMMA LoopGoesOn ==
  ASSUME LoopInv, EndOpcode, finished' = finished, mode \in {"fetch", "opcode"}
  PROVE  mode' = "fetch"
BY DEF LoopInv, Loops, EndOpcode

(* Opcodes that write above fp.                                            *)
LEMMA WriteLoop ==
  ASSUME IInv, LoopInv, WritesAbove(stack'), EndOpcode,
         UNCHANGED <<frames, calls, finished>>, mode \in {"fetch", "opcode"}
  PROVE  LoopInv'
<1>1. mode' = "fetch"
  BY LoopGoesOn
<1>2. \A j \in 1..fp : stack'[j] = stack[j]
  BY DEF WritesAbove
<1> QED BY <1>1, <1>2, QuietLoop
-----------------------------------------------------------------------------
(* A frame that is pushed disturbs no call that waits for an older one.    *)
LEMMA PushKeepsPairs ==
  ASSUME IInv, LoopInv, NEW r \in FrameRecord, frames' = Append(frames, r),
         \A j \in 1..Len(stack) : stack'[j] = stack[j]
  PROVE  /\ \A j \in Open : Awaits(calls[j], stack', frames')
         /\ DirectFrames' = IF r.ct = 2 THEN DirectFrames \cup {frame_count + 1}
                            ELSE DirectFrames
         /\ Len(frames') = frame_count + 1 /\ frames'[frame_count + 1] = r
         /\ \A i \in 1..frame_count : frames'[i] = frames[i]
<1>1. /\ frames \in Seq(FrameRecord) /\ Len(frames) = frame_count /\ frame_count \in Nat
      /\ DirectFrames = {n \in 1..frame_count : frames[n].ct = 2}
  BY PairFacts
<1>2. fp \in Nat /\ fp <= Len(stack) /\ Len(stack) \in Nat
  <2>1. /\ LocalCount(stack, fp) \in 0..15 /\ fp \in Nat /\ Len(stack) \in Nat
        /\ fp + LocalCount(stack, fp) <= Len(stack)
    BY StackFacts, TopFacts
  <2>2. PICK k \in 0..15 : k = LocalCount(stack, fp)
    BY <2>1
  <2> QED BY <2>1, <2>2
<1>3. /\ Len(frames') = frame_count + 1 /\ frames'[frame_count + 1] = r
      /\ \A i \in 1..frame_count : frames'[i] = frames[i]
  BY <1>1, AppendFacts
<1>4. ASSUME NEW j \in Open PROVE Awaits(calls[j], stack', frames')
  <2>1. /\ calls[j] \in CallRecord
        /\ calls[j].frame_count + 1 \in 1..frame_count
        /\ frames[calls[j].frame_count + 1].base \in 4..fp
    BY PairFacts
  <2>a. PICK c \in CallRecord : c = calls[j]
    BY <2>1
  <2>2. PICK f, f2, s, s2 :
          c = calls[j] /\ f = frames /\ f2 = frames' /\ s = stack /\ s2 = stack'
    BY <2>a
  <2>3. PICK b : b = f[c.frame_count + 1].base
    OBVIOUS
  <2>4. b \in Nat /\ \A i \in 1..b : i \in 1..Len(stack)
    BY <1>2, <2>1, <2>2, <2>3
  <2>5. c.frame_count + 1 <= Len(f2) /\ Len(f2) \in Nat
    BY <1>1, <1>3, <2>1, <2>2
  <2>6. \A i \in 1..(c.frame_count + 1) : i \in 1..frame_count
    BY <1>1, <2>1, <2>2
  <2>7. \A i \in 1..(c.frame_count + 1) : f2[i] = f[i]
    BY <1>3, <2>2, <2>6
  <2>8. \A i \in 1..b : s2[i] = s[i]
    BY <2>2, <2>4
  <2>9. Awaits(c, s, f)
    BY <2>2 DEF LoopInv, Pairing
  <2>10. Awaits(c, s2, f2)
    BY <2>3, <2>4, <2>5, <2>7, <2>8, <2>9, AwaitsKept
  <2> QED BY <2>2, <2>10
<1>5. DirectFrames' = {n \in 1..(frame_count + 1) : frames'[n].ct = 2}
  BY <1>1, <1>3 DEF DirectFrames
<1>6. \A n : n \in 1..(frame_count + 1) <=> n \in 1..frame_count \/ n = frame_count + 1
  BY <1>1
<1>7. DirectFrames' = IF r.ct = 2 THEN DirectFrames \cup {frame_count + 1} ELSE DirectFrames
  BY <1>1, <1>3, <1>5, <1>6
<1> QED BY <1>3, <1>4, <1>7

(* z_call_s and z_call_n.                                                  *)
LEMMA CallRoutineLoop ==
  ASSUME IInv, LoopInv, NEW routine \in ROUTINES, NEW count \in 0..MaxLocals,
         NEW ct \in {0, 1}, NEW argc \in 0..MaxArgs, NEW args \in [1..argc -> Word],
         CallRoutine(routine, count, args, ct)
  PROVE  LoopInv'
<1>1. /\ Call(routine, count, args, ct) /\ EndOpcode /\ mode = "fetch"
      /\ UNCHANGED <<finished, calls>>
  BY DEF CallRoutine, Fetch
<1>2. ArgsOK(args) /\ Len(args) \in 0..MaxArgs /\ routine \in Nat /\ ct \in 0..2
  BY ArgumentsFacts, StackAssumption DEF ArgsOK
<1>3. \A j \in 1..Len(stack) : stack'[j] = stack[j]
  BY <1>1, <1>2, CallStep
<1>4. PICK r : r = [base |-> Len(stack) + 4, pc |-> pc, ct |-> ct,
                    argc |-> Len(args), count |-> count]
  OBVIOUS
<1>5. r \in FrameRecord /\ r.ct # 2
  <2>1. Len(stack) \in Nat /\ pc \in Nat
    BY StackFacts, ControlFacts DEF ControlOK
  <2> QED BY <1>2, <1>4, <2>1 DEF FrameRecord
<1>6. frames' = Append(frames, r)
  BY <1>1, <1>4, Zenon DEF Call
<1>7. mode' = "fetch"
  BY <1>1, LoopGoesOn
<1>8. Open' = Open
  BY <1>1, <1>7 DEF Open
<1>9. Pairing'
  BY <1>1, <1>3, <1>5, <1>6, <1>8, PushKeepsPairs DEF LoopInv, Pairing
<1>10. Ascending' /\ Loops' /\ Throws'
  BY <1>1, <1>7 DEF LoopInv, Ascending, Loops, Throws
<1> QED BY <1>9, <1>10 DEF LoopInv

(* direct_call: the new call waits for the frame that was pushed.          *)
LEMMA DirectCallLoop ==
  ASSUME IInv, LoopInv, NEW routine \in ROUTINES, NEW count \in 0..MaxLocals,
         DirectCall(routine, count)
  PROVE  LoopInv'
<1>1. PICK saved : saved = [zargs |-> zargs, stack |-> stack, fp |-> fp,
                            frame_count |-> frame_count, pc |-> pc]
  OBVIOUS
<1>2. /\ Call(routine, count, <<>>, 2) /\ calls' = Append(calls, saved)
      /\ mode = "opcode" /\ mode' = "fetch" /\ finished' = finished
  BY <1>1, Zenon DEF DirectCall
<1>3. /\ calls \in Seq(CallRecord) /\ Len(calls) \in Nat
      /\ frames \in Seq(FrameRecord) /\ Len(frames) = frame_count /\ frame_count \in Nat
      /\ \A j \in 1..Len(calls) : calls[j] \in CallRecord
      /\ Open = 1..Len(calls)
      /\ \A j \in Open : calls[j].frame_count + 1 \in 1..frame_count
  BY <1>2, PairFacts DEF Open
<1>4. Len(stack) \in Nat /\ pc \in Nat /\ zargs \in Nat /\ fp \in Nat /\ stack \in Seq(Nat)
  BY StackFacts, ControlFacts DEF ControlOK
<1>5. saved \in CallRecord
  BY <1>1, <1>3, <1>4 DEF CallRecord
<1>6. /\ Len(calls') = Len(calls) + 1 /\ calls'[Len(calls) + 1] = saved
      /\ \A j \in 1..Len(calls) : calls'[j] = calls[j]
  BY <1>2, <1>3, <1>5, AppendFacts
<1>7. ArgsOK(<<>>) /\ routine \in Nat /\ 2 \in 0..2
  BY StackAssumption DEF ArgsOK
<1>8. \A j \in 1..Len(stack) : stack'[j] = stack[j]
  BY <1>2, <1>7, CallStep
<1>9. PICK r : r = [base |-> Len(stack) + 4, pc |-> pc, ct |-> 2, argc |-> 0, count |-> count]
  OBVIOUS
<1>10. r \in FrameRecord /\ r.ct = 2 /\ r.pc = pc /\ r.base = Len(stack) + 4
  BY <1>4, <1>9, StackAssumption DEF FrameRecord
<1>11. frames' = Append(frames, r)
  BY <1>2, <1>9 DEF Call
<1>12. /\ \A j \in Open : Awaits(calls[j], stack', frames')
       /\ DirectFrames' = DirectFrames \cup {frame_count + 1}
       /\ Len(frames') = frame_count + 1 /\ frames'[frame_count + 1] = r
       /\ \A i \in 1..frame_count : frames'[i] = frames[i]
  BY <1>8, <1>10, <1>11, PushKeepsPairs
<1>13. Awaits(saved, stack', frames')
  <2>1. /\ saved.frame_count = frame_count /\ saved.stack = stack
        /\ saved.fp = fp /\ saved.pc = pc
    BY <1>1
  <2>2. frame_count + 1 \in 1..Len(frames')
    BY <1>3, <1>12
  <2>3. fp = IF frame_count = 0 THEN 0 ELSE frames[frame_count].base
    BY DEF IInv, FrameIntegrity, FrameBase
  <2>4. fp = IF frame_count = 0 THEN 0 ELSE frames'[frame_count].base
    BY <1>3, <1>12, <2>3
  <2>5. Len(stack) = r.base - 4
    BY <1>4, <1>10
  <2> QED BY <1>8, <1>10, <1>12, <2>1, <2>2, <2>4, <2>5, Zenon DEF Awaits
<1>14. Open' = 1..(Len(calls) + 1)
  BY <1>2, <1>6 DEF Open
<1>15. \A j : j \in 1..(Len(calls) + 1) <=> j \in 1..Len(calls) \/ j = Len(calls) + 1
  BY <1>3
<1>16. \A j \in Open' : Awaits(calls'[j], stack', frames')
  BY <1>3, <1>6, <1>12, <1>13, <1>14, <1>15, Zenon
<1>17. ASSUME NEW n \in DirectFrames' PROVE \E j \in Open' : calls'[j].frame_count + 1 = n
  <2>1. CASE n = frame_count + 1
    BY <1>1, <1>6, <1>14, <1>15, <2>1
  <2>2. CASE n \in DirectFrames
    <3>1. PICK j \in Open : calls[j].frame_count + 1 = n
      BY <2>2 DEF LoopInv, Pairing
    <3>2. j \in Open' /\ calls'[j] = calls[j]
      BY <1>3, <1>6, <1>14, <1>15
    <3> QED BY <3>1, <3>2
  <2> QED BY <1>12, <2>1, <2>2
<1>18. Ascending'
  <2> SUFFICES ASSUME NEW j \in 1..(Len(calls) + 1), NEW k \in 1..(Len(calls) + 1), j < k
               PROVE  calls'[j].frame_count < calls'[k].frame_count
    BY <1>6 DEF Ascending
  <2>1. CASE k \in 1..Len(calls)
    <3>1. j \in 1..Len(calls)
      BY <1>3, <2>1
    <3> QED BY <1>6, <2>1, <3>1 DEF LoopInv, Ascending
  <2>2. CASE k = Len(calls) + 1
    <3>1. j \in 1..Len(calls)
      BY <1>3, <2>2
    <3>2. calls[j].frame_count + 1 \in 1..frame_count /\ calls[j] \in CallRecord
      BY <1>3, <3>1
    <3>3. PICK n \in Nat : n = calls[j].frame_count
      BY <3>2 DEF CallRecord
    <3>4. n < frame_count
      BY <1>3, <3>2, <3>3
    <3> QED BY <1>1, <1>6, <2>2, <3>1, <3>3, <3>4
  <2> QED BY <1>15, <2>1, <2>2
<1>19. Loops' /\ Throws'
  BY <1>2 DEF LoopInv, Loops, Throws
<1> QED BY <1>16, <1>17, <1>18, <1>19 DEF LoopInv, Pairing
-----------------------------------------------------------------------------
(* Dropping the youngest frame disturbs only the call that waits for it.   *)
LEMMA DropKeepsPairs ==
  ASSUME IInv, LoopInv, frame_count > 0, frames' = Pop(frames),
         \A j \in 1..FrameBase(frame_count - 1) : stack'[j] = stack[j]
  PROVE  /\ \A j \in Open : calls[j].frame_count + 1 # frame_count
                             => Awaits(calls[j], stack', frames')
         /\ DirectFrames' = DirectFrames \ {frame_count}
<1>1. /\ frames \in Seq(FrameRecord) /\ Len(frames) = frame_count /\ frame_count \in Nat
      /\ DirectFrames = {n \in 1..frame_count : frames[n].ct = 2}
  BY PairFacts
<1>2. /\ Len(frames') = frame_count - 1
      /\ \A i \in 1..(frame_count - 1) : frames'[i] = frames[i]
  BY <1>1, PopFacts
<1>3. DirectFrames' = {n \in 1..(frame_count - 1) : frames[n].ct = 2}
  BY <1>2 DEF DirectFrames
<1>4. \A n : n \in 1..(frame_count - 1) <=> n \in 1..frame_count /\ n # frame_count
  BY <1>1
<1>5. DirectFrames' = DirectFrames \ {frame_count}
  BY <1>1, <1>3, <1>4
<1>6. ASSUME NEW j \in Open, calls[j].frame_count + 1 # frame_count
      PROVE  Awaits(calls[j], stack', frames')
  <2>1. /\ calls[j] \in CallRecord
        /\ calls[j].frame_count + 1 \in 1..(frame_count - 1)
    BY <1>4, <1>6, PairFacts
  <2>a. PICK c \in CallRecord : c = calls[j]
    BY <2>1
  <2>2. PICK f, f2, s, s2 :
          c = calls[j] /\ f = frames /\ f2 = frames' /\ s = stack /\ s2 = stack'
    BY <2>a
  <2>3. PICK n \in 1..(frame_count - 1) : n = c.frame_count + 1
    BY <2>1, <2>2
  <2>4. /\ frames[n].base <= FrameBase(frame_count - 1)
        /\ FrameBase(frame_count - 1) \in Nat /\ fp \in Nat
    BY StackFacts, BaseBelow, DropFacts
  <2>5. frames[n].base \in 4..fp
    BY <2>2, <2>3, PairFacts
  <2>6. PICK b \in Nat : b = f[c.frame_count + 1].base /\ b <= FrameBase(frame_count - 1)
    BY <2>2, <2>3, <2>4, <2>5
  <2>7. \A i \in 1..b : s2[i] = s[i]
    BY <2>2, <2>4, <2>6
  <2>8. c.frame_count + 1 <= Len(f2) /\ Len(f2) \in Nat
    BY <1>1, <1>2, <2>2, <2>3
  <2>9. \A i \in 1..(c.frame_count + 1) : i \in 1..(frame_count - 1)
    BY <1>1, <2>3
  <2>10. \A i \in 1..(c.frame_count + 1) : f2[i] = f[i]
    BY <1>2, <2>2, <2>9
  <2>11. Awaits(c, s, f)
    BY <2>2 DEF LoopInv, Pairing
  <2>12. Awaits(c, s2, f2)
    BY <2>6, <2>7, <2>8, <2>10, <2>11, AwaitsKept
  <2> QED BY <2>2, <2>12
<1> QED BY <1>5, <1>6

(* A frame that was not opened by direct_call is nobody's.                 *)
LEMMA DropQuiet ==
  ASSUME IInv, LoopInv, frame_count > 0, frames' = Pop(frames), calls' = calls,
         \A j \in 1..FrameBase(frame_count - 1) : stack'[j] = stack[j],
         frame_count \notin DirectFrames, Open' = Open
  PROVE  Pairing' /\ Ascending' /\ DirectFrames' = DirectFrames
<1>1. \A j \in Open : calls[j].frame_count + 1 # frame_count
  BY PairFacts
<1>2. /\ \A j \in Open : Awaits(calls[j], stack', frames')
      /\ DirectFrames' = DirectFrames
  BY <1>1, DropKeepsPairs
<1> QED BY <1>2 DEF LoopInv, Pairing, Ascending

(* The last call waits for the youngest frame opened by direct_call.       *)
LEMMA LastAwaits ==
  ASSUME IInv, LoopInv, mode # "leave", frame_count \in DirectFrames
  PROVE  /\ Len(calls) \in Open /\ Len(calls) > 0
         /\ calls[Len(calls)].frame_count + 1 = frame_count
         /\ \A j \in 1..(Len(calls) - 1) : calls[j].frame_count + 1 # frame_count
<1>1. /\ Len(calls) \in Nat /\ Open = 1..Len(calls) /\ frame_count \in Nat
      /\ \A j \in 1..Len(calls) : calls[j] \in CallRecord
      /\ \A j \in Open : calls[j].frame_count + 1 \in 1..frame_count
  BY PairFacts DEF Open
<1>2. PICK j \in 1..Len(calls) : calls[j].frame_count + 1 = frame_count
  BY <1>1 DEF LoopInv, Pairing
<1>3. \A k \in 1..Len(calls) : calls[k].frame_count \in Nat
  BY <1>1 DEF CallRecord
<1>4. Len(calls) \in 1..Len(calls) /\ Len(calls) > 0
  BY <1>1, <1>2
<1>5. \A k \in 1..Len(calls) : k < Len(calls) =>
        calls[k].frame_count < calls[Len(calls)].frame_count
  BY <1>4 DEF LoopInv, Ascending
<1>6. calls[Len(calls)].frame_count + 1 \in 1..frame_count
  BY <1>1, <1>4
<1>7. PICK m \in Nat : m = calls[Len(calls)].frame_count
  BY <1>3, <1>4
<1>8. m + 1 <= frame_count
  BY <1>1, <1>6, <1>7
<1>9. \A k \in 1..(Len(calls) - 1) : calls[k].frame_count + 1 # frame_count
  <2> SUFFICES ASSUME NEW k \in 1..(Len(calls) - 1)
               PROVE  calls[k].frame_count + 1 # frame_count
    OBVIOUS
  <2>1. k \in 1..Len(calls) /\ k < Len(calls)
    BY <1>1
  <2>2. PICK i \in Nat : i = calls[k].frame_count
    BY <1>3, <2>1
  <2>3. i < m
    BY <1>5, <1>7, <2>1, <2>2
  <2> QED BY <1>1, <1>8, <2>2, <2>3
<1>10. j \notin 1..(Len(calls) - 1)
  BY <1>2, <1>9
<1>11. j = Len(calls)
  BY <1>1, <1>10
<1> QED BY <1>1, <1>2, <1>4, <1>9, <1>11

(* ret() of a routine that direct_call called: the loop is left with the   *)
(* result above all that the call found on the stack.                      *)
LEMMA RetEndsLoop ==
  ASSUME IInv, LoopInv, NEW value \in Nat, NEW variable, Ret(value, variable),
         mode \in {"fetch", "unwind"}, CallType(stack, fp) = 2
  PROVE  LoopInv'
<1>1. /\ frame_count > 0 /\ frame_count' = frame_count - 1 /\ frames' = Pop(frames)
      /\ fp' = Caller(stack, fp) /\ calls' = calls /\ EndOpcode
      /\ finished' = finished + 1 /\ pc' = ReturnPc(stack, fp)
      /\ stack' = Append(SubSeq(stack, 1, fp - 4), value)
  <2>1. PICK rest, ct, f2 :
          rest = SubSeq(stack, 1, fp - 4) /\ ct = CallType(stack, fp) /\ f2 = fp'
    OBVIOUS
  <2>2. /\ frame_count > 0 /\ frame_count' = frame_count - 1 /\ frames' = Pop(frames)
        /\ fp' = Caller(stack, fp) /\ calls' = calls /\ EndOpcode
        /\ finished' = NextFinished(ct)
        /\ pc' = IF ct = 0 THEN ReturnPc(stack, fp) + 1 ELSE ReturnPc(stack, fp)
        /\ stack' = CASE ct = 0 -> Store(rest, f2, variable, value)
                      [] ct = 1 -> rest
                      [] OTHER  -> Append(rest, value)
    BY <2>1, Zenon DEF Ret
  <2>3. ct = 2 /\ ct # 0 /\ ct # 1
    BY <2>1
  <2>4. stack' = Append(rest, value)
    BY <2>2, <2>3
  <2>5. finished' = finished + 1 /\ pc' = ReturnPc(stack, fp)
    BY <2>2, <2>3 DEF NextFinished
  <2> QED BY <2>1, <2>2, <2>4, <2>5, Zenon
<1>2. /\ stack \in Seq(Nat) /\ Len(stack) \in Nat /\ frame_count \in Nat
      /\ TypeOK /\ FrameIntegrity /\ fp = FrameBase(frame_count)
  BY StackFacts DEF FrameIntegrity
<1>3. /\ fp >= 4 /\ fp <= Len(stack) /\ fp \in Nat
      /\ Caller(stack, fp) = FrameBase(frame_count - 1)
      /\ FrameTop(frame_count - 1) <= fp - 4
      /\ ReturnPc(stack, fp) = frames[frame_count].pc
  BY <1>1, <1>2, DropFacts
<1>4. /\ frame_count \in 1..frame_count /\ frame_count # 0
      /\ fp = frames[frame_count].base
      /\ frame_count \in DirectFrames
  <2>1. frame_count \in 1..frame_count /\ frame_count # 0
    BY <1>1, <1>2
  <2>2. fp = frames[frame_count].base
    BY <1>2, <2>1 DEF FrameBase
  <2>3. frames[frame_count].ct = 2
    BY <1>2, <2>1, <2>2, FrameFacts
  <2> QED BY <2>1, <2>2, <2>3, PairFacts
<1>5. /\ Len(calls) \in Open /\ Len(calls) > 0
      /\ calls[Len(calls)].frame_count + 1 = frame_count
      /\ \A j \in 1..(Len(calls) - 1) : calls[j].frame_count + 1 # frame_count
  BY <1>4, LastAwaits
<1>6. /\ Len(calls) \in Nat /\ Open = 1..Len(calls)
      /\ \A j \in 1..Len(calls) : calls[j] \in CallRecord
  BY PairFacts DEF Open
<1>7. finished' = 1 /\ mode' = "leave"
  BY <1>1 DEF LoopInv, Loops, EndOpcode
<1>8. \A j \in 1..FrameBase(frame_count - 1) : stack'[j] = stack[j]
  BY RetStep
<1>9. /\ \A j \in Open : calls[j].frame_count + 1 # frame_count
                          => Awaits(calls[j], stack', frames')
      /\ DirectFrames' = DirectFrames \ {frame_count}
  BY <1>1, <1>8, DropKeepsPairs
<1>10. Open' = 1..(Len(calls) - 1)
  BY <1>1, <1>7 DEF Open
<1>11. \A j : j \in 1..Len(calls) <=> j \in 1..(Len(calls) - 1) \/ j = Len(calls)
  BY <1>5, <1>6
<1>12. Pairing'
  <2>1. \A j \in Open' : Awaits(calls'[j], stack', frames')
    BY <1>1, <1>5, <1>6, <1>9, <1>10, <1>11
  <2>2. ASSUME NEW n \in DirectFrames' PROVE \E j \in Open' : calls'[j].frame_count + 1 = n
    <3>1. n \in DirectFrames /\ n # frame_count
      BY <1>9
    <3>2. PICK j \in Open : calls[j].frame_count + 1 = n
      BY <3>1 DEF LoopInv, Pairing
    <3>3. j \in Open'
      BY <1>5, <1>6, <1>10, <1>11, <3>1, <3>2
    <3> QED BY <1>1, <3>2, <3>3
  <2> QED BY <2>1, <2>2 DEF Pairing
<1>13. Ascending'
  BY <1>1 DEF LoopInv, Ascending
<1>14. Returned(calls[Len(calls)])'
  <2>1. PICK c \in CallRecord : c = calls[Len(calls)]
    BY <1>5, <1>6
  <2>2. /\ frames[frame_count].ct = 2 /\ c.pc = frames[frame_count].pc
        /\ c.fp = IF c.frame_count = 0 THEN 0 ELSE frames[c.frame_count].base
        /\ Len(c.stack) = fp - 4 /\ c.stack \in Seq(Nat)
        /\ \A j \in 1..Len(c.stack) : stack[j] = c.stack[j]
    BY <1>4, <1>5, <2>1 DEF LoopInv, Pairing, Awaits, CallRecord
  <2>3. c.frame_count \in Nat /\ c.frame_count = frame_count - 1
    BY <1>2, <1>5, <2>1 DEF CallRecord
  <2>4. c.frame_count = frame_count' /\ c.pc = pc'
    BY <1>1, <1>3, <2>2, <2>3
  <2>5. c.fp = fp'
    BY <1>1, <1>3, <2>2, <2>3 DEF FrameBase
  <2>6. PICK n \in Nat : n = fp - 4 /\ n <= Len(stack)
    BY <1>2, <1>3
  <2>7. PICK rest \in Seq(Nat) : rest = SubSeq(stack, 1, n) /\ Len(rest) = n
                                 /\ \A j \in 1..n : rest[j] = stack[j]
    <3>1. /\ SubSeq(stack, 1, n) \in Seq(Nat) /\ Len(SubSeq(stack, 1, n)) = n
          /\ \A j \in 1..n : SubSeq(stack, 1, n)[j] = stack[j]
      BY <1>2, <2>6, BelowFacts, ZenonT(40)
    <3> QED BY <3>1, Zenon
  <2>8. stack' = Append(rest, value)
    BY <1>1, <2>6, <2>7
  <2>9. Len(stack') = n + 1 /\ \A j \in 1..n : stack'[j] = rest[j]
    BY <2>7, <2>8, AppendFacts
  <2>10. Len(stack') = Len(c.stack) + 1 /\ \A j \in 1..Len(c.stack) : stack'[j] = c.stack[j]
    BY <2>2, <2>6, <2>7, <2>9
  <2>11. FrameTop(frame_count)' = FrameTop(frame_count - 1)
    <3>1. \A i \in 1..(frame_count - 1) : frames'[i] = frames[i]
      <4>1. frames \in Seq(FrameRecord) /\ Len(frames) = frame_count
        BY PairFacts
      <4> QED BY <1>1, <4>1, PopFacts
    <3> QED BY <1>1, <1>2, <3>1 DEF FrameTop
  <2>12. FrameTop(frame_count)' <= Len(c.stack)
    BY <1>3, <2>2, <2>11
  <2>13. Returned(c)'
    BY <2>4, <2>5, <2>10, <2>12 DEF Returned
  <2> QED BY <1>1, <2>1, <2>13
<1>15. Loops' /\ Throws'
  BY <1>1, <1>7, <1>14 DEF Loops, Throws
<1> QED BY <1>12, <1>13, <1>15 DEF LoopInv

(* ret() of any other routine.                                             *)
LEMMA RetLoop ==
  ASSUME IInv, LoopInv, NEW value \in Nat, NEW variable, Ret(value, variable),
         mode \in {"fetch", "unwind"}
  PROVE  LoopInv'
<1>1. CASE CallType(stack, fp) = 2
  BY <1>1, RetEndsLoop
<1>2. CASE CallType(stack, fp) # 2
  <2>1. /\ frame_count > 0 /\ frames' = Pop(frames) /\ calls' = calls /\ EndOpcode
        /\ finished' = finished
    BY <1>2 DEF Ret, NextFinished
  <2>2. finished' = 0 /\ mode' = "fetch"
    BY <2>1 DEF LoopInv, Loops, EndOpcode
  <2>3. \A j \in 1..FrameBase(frame_count - 1) : stack'[j] = stack[j]
    BY RetStep
  <2>4. frame_count \notin DirectFrames
    <3>1. TypeOK /\ FrameIntegrity /\ frame_count \in Nat /\ frame_count # 0
      BY <2>1, StackFacts
    <3>2. fp = frames[frame_count].base /\ frame_count \in 1..frame_count
      BY <2>1, <3>1 DEF FrameIntegrity, FrameBase
    <3>3. frames[frame_count].ct # 2
      BY <1>2, <3>1, <3>2, FrameFacts
    <3> QED BY <3>3, PairFacts
  <2>5. Open' = Open
    BY <2>1, <2>2 DEF Open
  <2>6. Pairing' /\ Ascending'
    BY <2>1, <2>3, <2>4, <2>5, DropQuiet
  <2>7. Loops' /\ Throws'
    BY <2>2 DEF Loops, Throws
  <2> QED BY <2>6, <2>7 DEF LoopInv
<1> QED BY <1>1, <1>2

(* z_throw does not reach past the routine that direct_call called.        *)
LEMMA ThrowLoop ==
  ASSUME IInv, LoopInv, Abrupt = {}, NEW n, NEW value, Throw(value, n)
  PROVE  LoopInv'
<1>1. /\ mode = "fetch" /\ mode' = "unwind" /\ throw'.to = n
      /\ UNCHANGED <<stack, frames, calls, finished>>
      /\ \A i \in DirectFrames : i <= n
  BY DEF Throw, Fetch
<1>2. Open' = Open /\ DirectFrames' = DirectFrames
  BY <1>1 DEF Open, DirectFrames
<1>3. Pairing'
  BY <1>1, <1>2, PairingKept
<1>4. Ascending' /\ Loops' /\ Throws'
  BY <1>1, <1>2 DEF LoopInv, Ascending, Loops, Throws
<1> QED BY <1>3, <1>4 DEF LoopInv

(* One turn of the loop of z_throw.                                        *)
LEMMA UnwindLoop ==
  ASSUME IInv, LoopInv, Unwind
  PROVE  LoopInv'
<1>1. /\ mode = "unwind" /\ frame_count > throw.to /\ frames' = Pop(frames)
      /\ UNCHANGED <<stack, calls, finished, mode, throw>>
  BY DEF Unwind
<1>2. frame_count \in Nat /\ throw.to \in Nat
  BY StackFacts, ControlFacts DEF ControlOK
<1>3. frame_count > 0 /\ frame_count \notin DirectFrames
  BY <1>1, <1>2 DEF LoopInv, Throws
<1>4. Open' = Open
  BY <1>1 DEF Open
<1>5. Pairing' /\ Ascending' /\ DirectFrames' = DirectFrames
  BY <1>1, <1>3, <1>4, DropQuiet
<1>6. Loops' /\ Throws'
  BY <1>1, <1>5 DEF LoopInv, Loops, Throws
<1> QED BY <1>5, <1>6 DEF LoopInv
-----------------------------------------------------------------------------
(* direct_call finds its result on the stack and its frame gone.           *)
LEMMA LeaveFacts ==
  ASSUME IInv, LoopInv, Leave, calls # <<>>
  PROVE  /\ finished' = 0 /\ mode' = "opcode" /\ HasOperand
         /\ stack' = Pop(stack) /\ calls' = Pop(calls)
         /\ zargs' = calls[Len(calls)].zargs
         /\ UNCHANGED <<fp, frame_count, pc, frames>>
<1>1. /\ mode = "leave" /\ finished' = finished - 1 /\ calls' = Pop(calls)
      /\ zargs' = calls[Len(calls)].zargs
      /\ UNCHANGED <<fp, frame_count, pc, frames>>
      /\ IF HasOperand THEN mode' = "opcode" /\ stack' = ResultPopped
         ELSE mode' = "overrun" /\ UNCHANGED stack
  BY DEF Leave
<1>2. finished = 1 /\ Returned(calls[Len(calls)])
  BY <1>1 DEF LoopInv, Loops
<1>3. HasOperand
  <2>1. /\ calls \in Seq(CallRecord) /\ Len(calls) > 0
    BY PairFacts
  <2>2. PICK c \in CallRecord : c = calls[Len(calls)]
    BY <2>1
  <2>3. Len(c.stack) \in Nat
    BY <2>2 DEF CallRecord
  <2>4. Len(stack) = Len(c.stack) + 1 /\ FrameTop(frame_count) <= Len(c.stack)
    BY <1>2, <2>2 DEF Returned
  <2>5. fp + LocalCount(stack, fp) = FrameTop(frame_count) /\ FrameTop(frame_count) \in Nat
    BY StackFacts, TopFacts
  <2> QED BY <2>3, <2>4, <2>5 DEF HasOperand
<1> QED BY <1>1, <1>2, <1>3 DEF ResultPopped

(* interpret() returns.                                                    *)
LEMMA LeaveLoop ==
  ASSUME IInv, LoopInv, Leave
  PROVE  LoopInv'
<1>1. mode = "leave" /\ frames' = frames
  BY DEF Leave
<1>2. CASE calls = <<>>
  <2>1. mode' = "stopped" /\ UNCHANGED <<stack, calls>>
    BY <1>2 DEF Leave
  <2>2. Open' = Open
    BY <1>1, <1>2, <2>1 DEF Open
  <2>3. Pairing'
    BY <1>1, <2>1, <2>2, PairingKept
  <2>4. Ascending' /\ Loops' /\ Throws'
    BY <2>1 DEF LoopInv, Ascending, Loops, Throws
  <2> QED BY <2>3, <2>4 DEF LoopInv
<1>3. CASE calls # <<>>
  <2>1. /\ finished' = 0 /\ mode' = "opcode" /\ HasOperand
        /\ stack' = Pop(stack) /\ calls' = Pop(calls)
    BY <1>3, LeaveFacts
  <2>2. calls \in Seq(CallRecord) /\ Len(calls) \in Nat /\ Len(calls) > 0
    BY <1>3, PairFacts
  <2>3. /\ Len(calls') = Len(calls) - 1
        /\ \A j \in 1..(Len(calls) - 1) : calls'[j] = calls[j]
    BY <2>1, <2>2, PopFacts
  <2>4. Open = 1..(Len(calls) - 1) /\ Open' = Open
    BY <1>1, <2>1, <2>3 DEF Open
  <2>5. \A j \in 1..fp : stack'[j] = stack[j]
    BY <2>1, OperandFacts DEF WritesAbove
  <2>6. Pairing'
    BY <1>1, <2>3, <2>4, <2>5, PairingKept
  <2>7. Ascending'
    <3>1. \A j \in 1..Len(calls') : j \in 1..Len(calls) /\ j \in 1..(Len(calls) - 1)
      BY <2>2, <2>3
    <3> QED BY <2>3, <3>1 DEF LoopInv, Ascending
  <2>8. Loops' /\ Throws'
    BY <2>1 DEF Loops, Throws
  <2> QED BY <2>6, <2>7, <2>8 DEF LoopInv
<1> QED BY <1>2, <1>3

(* Without a pending call no frame is direct_call's, and the game may end. *)
LEMMA NoCalls ==
  ASSUME IInv, LoopInv, calls = <<>>
  PROVE  Open = {} /\ DirectFrames = {}
<1>1. Open = {}
  BY DEF Open
<1> QED BY <1>1 DEF LoopInv, Pairing

(* z_quit and z_restart, which no interrupt routine executes.              *)
LEMMA EndLoop ==
  ASSUME IInv, LoopInv, Abrupt = {}, Quit \/ Restart
  PROVE  LoopInv'
<1>1. /\ calls = <<>> /\ calls' = calls /\ EndOpcode /\ mode = "fetch"
      /\ \/ finished' = QUIT /\ UNCHANGED frames
         \/ finished' = finished /\ frames' = <<>>
  BY DEF Quit, Restart, Fetch, InInterrupt
<1>2. Open' = {} /\ DirectFrames' = {}
  <2>1. DirectFrames = {}
    BY <1>1, NoCalls
  <2>2. Open' = {}
    BY <1>1 DEF Open
  <2>3. DirectFrames' = {}
    BY <1>1, <2>1 DEF DirectFrames
  <2> QED BY <2>2, <2>3
<1>3. Pairing' /\ Ascending'
  BY <1>1, <1>2 DEF Pairing, Ascending
<1>4. Loops' /\ Throws'
  <2>1. mode' \in {"fetch", "leave"} /\ (mode' = "fetch" => finished' = 0)
    BY <1>1 DEF EndOpcode
  <2> QED BY <1>1, <2>1 DEF Loops, Throws
<1> QED BY <1>3, <1>4 DEF LoopInv

(* No loop but the outermost runs before the first opcode.                 *)
LEMMA InitLoop == ASSUME Init PROVE LoopInv
<1>1. /\ calls = <<>> /\ frames = <<>> /\ mode = "fetch" /\ finished = 0
  BY DEF Init
<1>2. Open = {} /\ DirectFrames = {}
  BY <1>1 DEF Open, DirectFrames
<1> QED BY <1>1, <1>2 DEF LoopInv, Pairing, Ascending, Loops, Throws

(* Every step of the interpreter keeps each call with its frame.           *)
LEMMA StepLoop == ASSUME IInv, LoopInv, Abrupt = {}, [Next]_vars PROVE LoopInv'
<1>0. Word \subseteq Nat
  BY StackAssumption
<1>1. ASSUME NEW variable, NEW value \in Nat, StoreResult(variable, value) PROVE LoopInv'
  <2>1. mode = "fetch" /\ EndOpcode /\ UNCHANGED <<frames, calls, finished>>
    BY <1>1 DEF StoreResult, Fetch
  <2> QED BY <1>1, <2>1, StoreResultStep, WriteLoop
<1>2. ASSUME NEW variable, NEW value \in Nat, WriteVariable(variable, value) PROVE LoopInv'
  <2>1. mode = "fetch" /\ EndOpcode /\ UNCHANGED <<frames, calls, finished>>
    BY <1>2 DEF WriteVariable, Fetch
  <2> QED BY <1>2, <2>1, WriteVariableStep, WriteLoop
<1>3. ASSUME NEW variable, Pull(variable) PROVE LoopInv'
  <2>1. mode = "fetch" /\ EndOpcode /\ UNCHANGED <<frames, calls, finished>>
    BY <1>3 DEF Pull, Fetch
  <2> QED BY <1>3, <2>1, PullStep, WriteLoop
<1>4. ASSUME PopOperand PROVE LoopInv'
  <2>1. mode = "fetch" /\ EndOpcode /\ UNCHANGED <<frames, calls, finished>>
    BY <1>4 DEF PopOperand, Fetch
  <2> QED BY <1>4, <2>1, PopOperandStep, WriteLoop
<1>5. ASSUME NEW variable, NEW value \in Nat, FinishOpcode(variable, value) PROVE LoopInv'
  <2>1. mode = "opcode" /\ EndOpcode /\ UNCHANGED <<frames, calls, finished>>
    BY <1>5 DEF FinishOpcode
  <2> QED BY <1>5, <2>1, FinishOpcodeStep, WriteLoop
<1>6. ASSUME NEW variable, Catch(variable) PROVE LoopInv'
  <2>1. frame_count \in Nat
    BY StackFacts
  <2> QED BY <1>1, <1>6, <2>1 DEF Catch
<1>7. ASSUME NEW variable, NEW value \in Nat, Return(value, variable) PROVE LoopInv'
  <2>1. mode = "fetch" /\ Ret(value, variable)
    BY <1>7 DEF Return, Fetch
  <2> QED BY <1>7, <2>1, RetLoop
<1>8. ASSUME NEW variable, ReturnPopped(variable) PROVE LoopInv'
  <2>1. HasOperand /\ Return(stack[Len(stack)], variable)
    BY <1>8 DEF ReturnPopped
  <2>2. stack[Len(stack)] \in Nat
    BY <2>1, OperandFacts
  <2> QED BY <1>7, <2>1, <2>2
<1>9. ASSUME NEW variable, EndThrow(variable) PROVE LoopInv'
  <2>1. mode = "unwind" /\ Ret(throw.value, variable) /\ throw.value \in Nat
    BY <1>9, ControlFacts DEF EndThrow, ControlOK
  <2> QED BY <2>1, RetLoop
<1>10. ASSUME NEW target, Compute(target) PROVE LoopInv'
  <2>1. /\ mode = "fetch" /\ EndOpcode /\ UNCHANGED <<stack, frames, calls, finished>>
    BY <1>10 DEF Compute, Fetch
  <2>2. mode' = "fetch"
    BY <2>1, LoopGoesOn
  <2> QED BY <2>1, <2>2, QuietLoop
<1>11. ASSUME NEW operand, BeginOpcode(operand) PROVE LoopInv'
  <2>1. /\ mode = "fetch" /\ mode' = "opcode"
        /\ UNCHANGED <<stack, frames, calls, finished>>
    BY <1>11 DEF BeginOpcode, Fetch
  <2> QED BY <2>1, QuietLoop
<1>12. ASSUME Overrun PROVE LoopInv'
  <2>1. /\ mode \in {"fetch", "opcode"} /\ mode' = "overrun"
        /\ UNCHANGED <<stack, frames, calls, finished>>
    BY <1>12 DEF Overrun
  <2> QED BY <2>1, QuietLoop
<1>13. CASE UNCHANGED vars
  BY <1>13 DEF vars, LoopInv, Pairing, Ascending, Loops, Throws, Open, DirectFrames,
              Awaits, Returned, FrameTop
<1>14. CASE Opcode
  <2>1. ASSUME NEW variable \in 0..Global, NEW value \in Word,
               \/ StoreResult(variable, value)
               \/ WriteVariable(variable, value)
               \/ Return(value, variable)
        PROVE  LoopInv'
    BY <1>0, <1>1, <1>2, <1>7, <2>1
  <2>2. ASSUME NEW variable \in 0..Global,
               Pull(variable) \/ Catch(variable) \/ ReturnPopped(variable)
        PROVE  LoopInv'
    BY <1>3, <1>6, <1>8, <2>2
  <2> QED BY <1>4, <1>9, <1>10, <1>11, <1>14, <2>1, <2>2, ThrowLoop, UnwindLoop,
             CallRoutineLoop, EndLoop, Zenon DEF Opcode
<1>15. CASE Interrupt
  <2>1. ASSUME NEW variable \in 0..Global, NEW value \in Word, FinishOpcode(variable, value)
        PROVE  LoopInv'
    BY <1>0, <1>5, <2>1
  <2> QED BY <1>15, <2>1, DirectCallLoop, LeaveLoop, Zenon DEF Interrupt
<1> QED BY <1>12, <1>13, <1>14, <1>15, Zenon DEF Next

(* Each pending direct call can name its frame at all times.               *)
THEOREM CallsPaired == ASSUME Abrupt = {} PROVE Spec => [](IInv /\ LoopInv)
<1>1. Init => IInv /\ LoopInv
  BY InitOK, InitLoop
<1>2. (IInv /\ LoopInv) /\ [Next]_vars => (IInv /\ LoopInv)'
  BY StepOK, StepLoop
<1> QED BY <1>1, <1>2, PTL DEF Spec

(* The pending calls are as many as the frames that direct_call opened.    *)
LEMMA CallsCounted ==
  ASSUME IInv, LoopInv
  PROVE  LoopPerDirectCall
<1> SUFFICES ASSUME finished = 0
             PROVE  Cardinality(DirectFrames) = Len(calls)
  BY DEF LoopPerDirectCall
<1>1. /\ Len(calls) \in Nat /\ \A j \in 1..Len(calls) : calls[j] \in CallRecord
  BY PairFacts
<1>2. CASE calls = <<>>
  BY <1>2, NoCalls, FS_EmptySet
<1>3. CASE calls # <<>>
  <2>1. Open = 1..Len(calls)
    BY <1>3 DEF LoopInv, Loops, Open
  <2> DEFINE frame == [j \in 1..Len(calls) |-> calls[j].frame_count + 1]
  <2>2. frame \in [1..Len(calls) -> DirectFrames]
    BY <2>1, PairFacts
  <2>3. \A j, k \in 1..Len(calls) : j < k => frame[j] # frame[k]
    <3>1. \A j \in 1..Len(calls) : calls[j].frame_count \in Nat
      BY <1>1 DEF CallRecord
    <3> SUFFICES ASSUME NEW j \in 1..Len(calls), NEW k \in 1..Len(calls), j < k
                 PROVE  frame[j] # frame[k]
      OBVIOUS
    <3>2. calls[j].frame_count < calls[k].frame_count
      BY DEF LoopInv, Ascending
    <3>3. PICK m \in Nat, n \in Nat : m = calls[j].frame_count /\ n = calls[k].frame_count
      BY <3>1
    <3> QED BY <3>2, <3>3
  <2>4. \A j, k \in 1..Len(calls) : j # k => j < k \/ k < j
    BY <1>1
  <2>5. \A n \in DirectFrames : \E j \in 1..Len(calls) : frame[j] = n
    BY <2>1 DEF LoopInv, Pairing
  <2> HIDE DEF frame
  <2>6. \A j, k \in 1..Len(calls) : frame[j] = frame[k] => j = k
    BY <2>3, <2>4
  <2>7. frame \in Bijection(1..Len(calls), DirectFrames)
    BY <2>2, <2>5, <2>6 DEF Bijection, Injection, Surjection, IsInjective
  <2>8. IsFiniteSet(1..Len(calls)) /\ Cardinality(1..Len(calls)) = Len(calls)
    BY <1>1, FS_Interval
  <2>9. ExistsBijection(1..Len(calls), DirectFrames)
    BY <2>7 DEF ExistsBijection
  <2> QED BY <2>8, <2>9, FS_Bijection
<1> QED BY <1>2, <1>3

(* As long as interrupt routines end by returning, interpret() is running  *)
(* once more for each frame that direct_call opened, so that no return     *)
(* leaves a loop too many or too few.                                      *)
THEOREM LoopsMatchCalls == ASSUME Abrupt = {} PROVE Spec => []LoopPerDirectCall
BY CallsPaired, CallsCounted, PTL

(* What direct_call leaves behind when it returns.                         *)
LEMMA LeaveRestores ==
  ASSUME IInv, LoopInv, Leave, calls # <<>>
  PROVE  calls[Len(calls)] = [zargs |-> zargs', stack |-> stack', fp |-> fp',
                              frame_count |-> frame_count', pc |-> pc']
<1>1. /\ stack' = Pop(stack) /\ zargs' = calls[Len(calls)].zargs
      /\ UNCHANGED <<fp, frame_count, pc>>
  BY LeaveFacts
<1>2. PICK c \in CallRecord : c = calls[Len(calls)]
  BY PairFacts
<1>3. /\ c.frame_count = frame_count /\ c.pc = pc /\ c.fp = fp
      /\ Len(stack) = Len(c.stack) + 1
      /\ \A j \in 1..Len(c.stack) : stack[j] = c.stack[j]
  BY <1>2 DEF Leave, LoopInv, Loops, Returned
<1>4. stack \in Seq(Nat) /\ c.stack \in Seq(Nat) /\ Len(c.stack) \in Nat
  BY <1>2, StackFacts DEF CallRecord
<1>5. PICK s \in Seq(Nat), s2 \in Seq(Nat) :
        /\ s = c.stack /\ s2 = stack' /\ Len(s2) = Len(s)
        /\ \A j \in 1..Len(s2) : s2[j] = s[j]
  <2>1. /\ Pop(stack) \in Seq(Nat) /\ Len(Pop(stack)) = Len(c.stack)
        /\ \A j \in 1..Len(c.stack) : Pop(stack)[j] = stack[j]
    BY <1>3, <1>4, PopFacts
  <2> QED BY <1>1, <1>3, <1>4, <2>1
<1>6. s2 = s
  BY <1>5, SeqEqual
<1>7. c.stack = stack' /\ c.fp = fp' /\ c.frame_count = frame_count' /\ c.pc = pc'
      /\ c.zargs = zargs'
  BY <1>1, <1>2, <1>3, <1>5, <1>6
<1> QED BY <1>2, <1>7 DEF CallRecord

(* Only Leave removes a pending call.                                      *)
LEMMA OnlyLeave ==
  ASSUME IInv, LoopInv, [Next]_vars, Len(calls') < Len(calls)
  PROVE  Leave /\ calls # <<>>
<1>1. calls \in Seq(CallRecord) /\ Len(calls) \in Nat /\ calls # <<>>
  BY PairFacts
<1>2. calls' # calls
  BY <1>1
<1>3. ASSUME NEW routine, NEW count, DirectCall(routine, count) PROVE FALSE
  <2>1. PICK c : calls' = Append(calls, c)
    BY <1>3 DEF DirectCall
  <2>2. Len(calls') = Len(calls) + 1
    BY <1>1, <2>1
  <2> QED BY <1>1, <2>2
<1>4. ~Opcode
  BY <1>2 DEF Opcode, Compute, StoreResult, WriteVariable, Return, Ret, Pull, Catch,
             ReturnPopped, PopOperand, Throw, Unwind, EndThrow, CallRoutine,
             BeginOpcode, Quit, Restart
<1>5. ~Overrun /\ ~UNCHANGED vars /\ \A variable, value : ~FinishOpcode(variable, value)
  BY <1>2 DEF Overrun, vars, FinishOpcode
<1> QED BY <1>1, <1>3, <1>4, <1>5, Zenon DEF Next, Interrupt

(* The opcode that direct_call interrupts finds the stack, fp, the frame   *)
(* count, the pc and its operands as they were, whatever the routine did   *)
(* before it returned, and however deep the interrupts were nested.        *)
THEOREM DirectCallsTransparent == ASSUME Abrupt = {} PROVE Spec => DirectCallTransparent
<1>1. IInv /\ LoopInv /\ [Next]_vars =>
        [Len(calls') < Len(calls) =>
           LET saved == calls[Len(calls)]
           IN  saved = [zargs |-> zargs', stack |-> stack', fp |-> fp',
                        frame_count |-> frame_count', pc |-> pc']]_vars
  BY OnlyLeave, LeaveRestores
<1> QED BY <1>1, CallsPaired, PTL DEF Spec, DirectCallTransparent
-----------------------------------------------------------------------------
(* ZStack implements ZFrames: the frames that are read off the array along *)
(* the links from fp behave as frames of their own.                        *)
(*                                                                         *)
(* The frames on the array are first written in terms of the history: the  *)
(* links meet the headers of the calls in progress (FrameIntegrity), so    *)
(* that frame i is the words between two positions of the history.  While  *)
(* z_throw unwinds, the history is shorter than the frames the story file  *)
(* still has; the frames at its start are then a witness of the invariant. *)

(* The positions of frame i of a history h on an array s.                  *)
Base(h, i) == IF i = 0 THEN 0 ELSE h[i].base
Top(h, i)  == IF i = 0 THEN 0 ELSE h[i].base + h[i].count
End(h, s, i) == IF i = Len(h) THEN Len(s) ELSE h[i + 1].base - 4

HeaderOf(h, s, i) ==
  /\ Caller(s, h[i].base) = Base(h, i - 1)
  /\ ReturnPc(s, h[i].base) = h[i].pc
  /\ s[h[i].base] = HeaderWord(h[i].argc, h[i].count, h[i].ct)

(* The array s holds the frames of h, see FrameIntegrity.                  *)
Holds(h, s) ==
  /\ h \in Seq(FrameRecord) /\ s \in Seq(Nat)
  /\ Top(h, Len(h)) <= Len(s)
  /\ \A i \in 1..Len(h) : \A j \in 0..(i - 1) : Top(h, j) + 4 <= h[i].base
  /\ \A i \in 1..Len(h) : HeaderOf(h, s, i)

View(h, s, i) ==
  [pc     |-> IF i = 0 THEN 0 ELSE h[i].pc,
   ct     |-> IF i = 0 THEN 1 ELSE h[i].ct,
   argc   |-> IF i = 0 THEN 0 ELSE h[i].argc,
   locals |-> SubSeq(s, Base(h, i) + 1, Top(h, i)),
   eval   |-> SubSeq(s, Top(h, i) + 1, End(h, s, i))]

Views(h, s) == [i \in 1..(Len(h) + 1) |-> View(h, s, i - 1)]
-----------------------------------------------------------------------------
(* The words from a + 1 to b of an array.                                  *)
LEMMA SliceFacts ==
  ASSUME NEW s \in Seq(Nat), NEW a \in Nat, NEW b \in Nat, a <= b, b <= Len(s)
  PROVE  /\ SubSeq(s, a + 1, b) \in Seq(Nat)
         /\ Len(SubSeq(s, a + 1, b)) = b - a
         /\ DOMAIN SubSeq(s, a + 1, b) = 1..(b - a)
         /\ \A j \in 1..(b - a) : SubSeq(s, a + 1, b)[j] = s[a + j]
<1>1. \A i \in (a + 1)..b : s[i] \in Nat
  <2>1. \A i \in (a + 1)..b : i \in 1..Len(s)
    OBVIOUS
  <2> QED BY <2>1, ElementOfSeq
<1>2. PICK m \in Nat, d \in Nat : m = a + 1 /\ d = b - a
  <2>1. a + 1 \in Nat /\ b - a \in Nat
    OBVIOUS
  <2> QED BY <2>1
<1>3. /\ m \in Int /\ b \in Int /\ m <= b + 1 /\ (b - m) + 1 = d
      /\ \A j \in 1..d : (m + j) - 1 = a + j
  BY <1>2
<1>4. \A i \in m..b : s[i] \in Nat
  BY <1>1, <1>2, Zenon
<1>5. /\ SubSeq(s, m, b) \in Seq(Nat)
      /\ Len(SubSeq(s, m, b)) = IF m <= b THEN (b - m) + 1 ELSE 0
      /\ \A j \in 1..((b - m) + 1) : SubSeq(s, m, b)[j] = s[(m + j) - 1]
  BY <1>3, <1>4, SubSeqProperties
<1>6. Len(SubSeq(s, m, b)) = d
  <2>1. m <= b \/ d = 0
    BY <1>2
  <2> QED BY <2>1, <1>3, <1>5
<1>7. DOMAIN SubSeq(s, m, b) = 1..d
  BY <1>5, <1>6, LenProperties
<1>8. \A j \in 1..d : SubSeq(s, m, b)[j] = s[a + j]
  BY <1>3, <1>5, Zenon
<1> QED BY <1>2, <1>5, <1>6, <1>7, <1>8

(* Two arrays with the same words there.                                   *)
Agree(s, t, a, b) ==
  /\ a <= b /\ b <= Len(s) /\ b <= Len(t)
  /\ \A j \in (a + 1)..b : t[j] = s[j]

LEMMA SliceSame ==
  ASSUME NEW s \in Seq(Nat), NEW t \in Seq(Nat), NEW a \in Nat, NEW b \in Nat,
         Agree(s, t, a, b)
  PROVE  SubSeq(t, a + 1, b) = SubSeq(s, a + 1, b)
<1>0. /\ a <= b /\ b <= Len(s) /\ b <= Len(t)
      /\ \A j \in (a + 1)..b : t[j] = s[j]
  BY Zenon DEF Agree
<1>1. PICK u, v : u = SubSeq(s, a + 1, b) /\ v = SubSeq(t, a + 1, b)
  OBVIOUS
<1>2. u \in Seq(Nat) /\ Len(u) = b - a /\ \A j \in 1..(b - a) : u[j] = s[a + j]
  BY <1>0, <1>1, SliceFacts, Zenon
<1>3. v \in Seq(Nat) /\ Len(v) = b - a /\ \A j \in 1..(b - a) : v[j] = t[a + j]
  BY <1>0, <1>1, SliceFacts, Zenon
<1>4. \A j \in 1..(b - a) : a + j \in (a + 1)..b
  BY <1>0
<1>5. \A j \in 1..Len(u) : v[j] = u[j]
  BY <1>0, <1>2, <1>3, <1>4, Zenon
<1>6. u = v
  BY <1>2, <1>3, <1>5, SeqEqual
<1> QED BY <1>1, <1>6

(* A part of the words that starts where they start.                       *)
LEMMA SlicePrefix ==
  ASSUME NEW s \in Seq(Nat), NEW t \in Seq(Nat), NEW a \in Nat, NEW b \in Nat,
         NEW c \in Nat, Agree(s, t, a, b), b <= c, c <= Len(t)
  PROVE  SubSeq(SubSeq(t, a + 1, c), 1, b - a) = SubSeq(s, a + 1, b)
<1>0. /\ a <= b /\ b <= Len(s) /\ b <= Len(t)
      /\ \A j \in (a + 1)..b : t[j] = s[j]
  BY Zenon DEF Agree
<1>1. PICK u, v : u = SubSeq(s, a + 1, b) /\ v = SubSeq(t, a + 1, c)
  OBVIOUS
<1>2. u \in Seq(Nat) /\ Len(u) = b - a /\ \A j \in 1..(b - a) : u[j] = s[a + j]
  BY <1>0, <1>1, SliceFacts, Zenon
<1>3. v \in Seq(Nat) /\ Len(v) = c - a /\ \A j \in 1..(c - a) : v[j] = t[a + j]
  <2>1. a <= c
    BY <1>0
  <2> QED BY <2>1, <1>0, <1>1, SliceFacts, Zenon
<1>4. PICK d \in Nat : d = b - a /\ d <= c - a
  BY <1>0
<1>5. PICK w : w = SubSeq(v, 1, d)
  OBVIOUS
<1>6. w \in Seq(Nat) /\ Len(w) = d /\ \A j \in 1..d : w[j] = v[j]
  <2>1. d <= Len(v)
    BY <1>3, <1>4
  <2> QED BY <2>1, <1>3, <1>5, BelowFacts, Zenon
<1>7. \A j \in 1..d : j \in 1..(c - a) /\ a + j \in (a + 1)..b
  BY <1>0, <1>4
<1>8. \A j \in 1..Len(u) : w[j] = u[j]
  BY <1>0, <1>2, <1>3, <1>4, <1>6, <1>7, Zenon
<1>9. u = w
  BY <1>2, <1>4, <1>6, <1>8, SeqEqual
<1> QED BY <1>1, <1>4, <1>5, <1>9, Zenon
-----------------------------------------------------------------------------
(* What is packed in a header word is read again.                          *)
CountIn(w) == (w \div 256) % 16
CallTypeIn(w) == w \div 4096
ArgcIn(w) == w % 256

LEMMA HeaderReads ==
  ASSUME NEW argc \in 0..7, NEW count \in 0..15, NEW ct \in 0..2
  PROVE  /\ CountIn(HeaderWord(argc, count, ct)) = count
         /\ CallTypeIn(HeaderWord(argc, count, ct)) = ct
         /\ ArgcIn(HeaderWord(argc, count, ct)) = argc
BY SMTT(30) DEF HeaderWord, CountIn, CallTypeIn, ArgcIn

(* The frame that a record of the history stands for.                      *)
LEMMA RecordFacts ==
  ASSUME NEW h, NEW s, Holds(h, s), NEW i \in 1..Len(h)
  PROVE  /\ h[i] \in FrameRecord
         /\ h[i].base \in Nat /\ h[i].base >= 4
         /\ h[i].count \in 0..15 /\ h[i].count <= MaxLocals /\ h[i].argc \in 0..7
         /\ h[i].ct \in 0..2 /\ h[i].pc \in Nat
         /\ Base(h, i) = h[i].base /\ Top(h, i) = h[i].base + h[i].count
         /\ CountIn(s[h[i].base]) = h[i].count
         /\ CallTypeIn(s[h[i].base]) = h[i].ct
         /\ ArgcIn(s[h[i].base]) = h[i].argc
<1>1. h[i] \in FrameRecord
  BY ElementOfSeq, Zenon DEF Holds
<1>2. MaxArgs \in 0..7 /\ MaxLocals \in 0..15
  BY StackAssumption
<1>a. /\ h[i].base \in Nat /\ h[i].pc \in Nat /\ h[i].ct \in 0..2
      /\ h[i].argc \in 0..MaxArgs /\ h[i].count \in 0..MaxLocals
  BY <1>1 DEF FrameRecord
<1>3. PICK f \in Nat, c \in 0..MaxLocals, a \in 0..MaxArgs, t \in 0..2 :
        f = h[i].base /\ c = h[i].count /\ a = h[i].argc /\ t = h[i].ct
  BY <1>a, Zenon
<1>4. c <= MaxLocals /\ c \in 0..15 /\ a \in 0..7
  BY <1>2
<1>5. i # 0 /\ i \in Nat /\ 0 \in 0..(i - 1)
  OBVIOUS
<1>6. f >= 4
  <2>1. Top(h, 0) + 4 <= h[i].base
    BY <1>5, Zenon DEF Holds
  <2>2. Top(h, 0) = 0
    BY DEF Top
  <2> QED BY <1>3, <2>1, <2>2
<1>7. s[f] = HeaderWord(a, c, t)
  <2>1. HeaderOf(h, s, i)
    BY Zenon DEF Holds
  <2> QED BY <1>3, <2>1, Zenon DEF HeaderOf
<1>8. /\ CountIn(HeaderWord(a, c, t)) = c /\ CallTypeIn(HeaderWord(a, c, t)) = t
      /\ ArgcIn(HeaderWord(a, c, t)) = a
  BY <1>4, HeaderReads, Zenon
<1>10. Base(h, i) = f /\ Top(h, i) = f + c
  BY <1>3, <1>5 DEF Base, Top
<1>11. CountIn(s[f]) = c /\ CallTypeIn(s[f]) = t /\ ArgcIn(s[f]) = a
  BY <1>7, <1>8, Zenon
<1> QED BY <1>1, <1>a, <1>3, <1>4, <1>6, <1>10, <1>11, Zenon

(* A frame starts with its locals, which end where its evaluation stack    *)
(* starts, and ends below the next one.                                    *)
LEMMA Geometry ==
  ASSUME NEW h, NEW s, Holds(h, s), NEW i \in 0..Len(h)
  PROVE  /\ Base(h, i) \in Nat /\ Top(h, i) \in Nat /\ End(h, s, i) \in Nat
         /\ Base(h, i) <= Top(h, i) /\ Top(h, i) <= End(h, s, i) /\ End(h, s, i) <= Len(s)
         /\ i < Len(h) => End(h, s, i) + 4 = Base(h, i + 1)
         /\ LocalCount(s, Base(h, i)) = Top(h, i) - Base(h, i)
<1>1. PICK n \in Nat, m \in Nat : n = Len(h) /\ m = Len(s)
  BY LenProperties, Zenon DEF Holds
<1>2. Top(h, n) <= m
  BY <1>1, Zenon DEF Holds
<1>3. \A k \in 1..n : /\ h[k].base \in Nat /\ h[k].base >= 4 /\ h[k].count \in Nat
                      /\ Base(h, k) = h[k].base /\ Top(h, k) = h[k].base + h[k].count
                      /\ LocalCount(s, h[k].base) = h[k].count
  <2> SUFFICES ASSUME NEW k \in 1..n
               PROVE  /\ h[k].base \in Nat /\ h[k].base >= 4 /\ h[k].count \in Nat
                      /\ Base(h, k) = h[k].base /\ Top(h, k) = h[k].base + h[k].count
                      /\ LocalCount(s, h[k].base) = h[k].count
    OBVIOUS
  <2>0. k \in 1..Len(h)
    BY <1>1
  <2>1. /\ h[k].base \in Nat /\ h[k].base >= 4 /\ h[k].count \in 0..15
        /\ Base(h, k) = h[k].base /\ Top(h, k) = h[k].base + h[k].count
        /\ CountIn(s[h[k].base]) = h[k].count
    BY <2>0, RecordFacts, Zenon
  <2>2. \A x : x \in 0..15 => x \in Nat
    OBVIOUS
  <2>3. \A x \in Nat : x >= 4 => x # 0
    OBVIOUS
  <2>4. LocalCount(s, h[k].base) = CountIn(s[h[k].base])
    BY <2>1, <2>3 DEF LocalCount, CountIn
  <2> QED BY <2>1, <2>2, <2>4, Zenon
<1>4. \A k \in 1..n : \A j \in 0..(k - 1) : Top(h, j) + 4 <= h[k].base
  BY <1>1, Zenon DEF Holds
<1>5. i \in Nat /\ i <= n /\ i \in 0..n
  BY <1>1
<1>6. PICK b \in Nat, c \in Nat :
        Base(h, i) = b /\ Top(h, i) = b + c /\ LocalCount(s, b) = c
  <2>1. CASE i = 0
    BY <2>1 DEF Base, Top, LocalCount
  <2>2. CASE i # 0
    <3>1. i \in 1..n
      BY <1>5, <2>2
    <3> QED BY <3>1, <1>3
  <2> QED BY <2>1, <2>2
<1>7. PICK e \in Nat : /\ e = End(h, s, i) /\ b + c <= e /\ e <= m
                       /\ i < n => e + 4 = Base(h, i + 1)
  <2>1. CASE i = n
    <3>1. End(h, s, i) = m
      BY <2>1, <1>1 DEF End
    <3>2. b + c <= m
      BY <2>1, <1>2, <1>6
    <3> QED BY <3>1, <3>2, <2>1
  <2>2. CASE i # n
    <3>1. PICK k \in 1..n : k = i + 1 /\ i \in 0..(k - 1) /\ k \in Nat /\ k # 0
      BY <1>5, <2>2
    <3>2. PICK f \in Nat, d \in Nat :
            f = h[k].base /\ d = h[k].count /\ f >= 4 /\ Base(h, k) = f /\ Top(h, k) = f + d
      BY <1>3
    <3>3. b + c + 4 <= f
      BY <1>4, <1>6, <3>1, <3>2
    <3>4. f <= m
      <4>1. CASE k = n
        <5>1. f + d <= m
          BY <4>1, <1>2, <3>2
        <5> QED BY <5>1, <3>2, <1>1
      <4>2. CASE k # n
        <5>1. n \in 1..n /\ k \in 0..(n - 1)
          BY <4>2, <3>1
        <5>2. f + d + 4 <= h[n].base
          BY <5>1, <3>2, <1>4
        <5>3. PICK g \in Nat, x \in Nat : g = h[n].base /\ x = h[n].count /\ Top(h, n) = g + x
          BY <5>1, <1>3
        <5>4. f + d + 4 <= g /\ g + x <= m
          BY <5>2, <5>3, <1>2
        <5>5. f <= g
          <6>1. \A p, q, r \in Nat : p + q + 4 <= r => p <= r
            OBVIOUS
          <6>2. f \in Nat /\ d \in Nat /\ g \in Nat
            BY <5>3, <3>2
          <6> QED BY <6>1, <6>2, <5>4, Zenon
        <5>6. g <= m
          <6>1. g + x <= m
            BY <5>4
          <6> QED BY <6>1, <5>3, <1>1
        <5>7. f \in Nat /\ g \in Nat /\ m \in Nat
          BY <5>3, <3>2, <1>1
        <5> QED BY <5>5, <5>6, <5>7
      <4> QED BY <4>1, <4>2
    <3>5. End(h, s, i) = f - 4
      BY <2>2, <3>1, <3>2, <1>1 DEF End
    <3> QED BY <3>1, <3>2, <3>3, <3>4, <3>5
  <2> QED BY <2>1, <2>2
<1> QED BY <1>1, <1>6, <1>7

(* What the story file has of frame i.                                     *)
LEMMA ViewFacts ==
  ASSUME NEW h, NEW s, Holds(h, s), NEW i \in 0..Len(h)
  PROVE  /\ View(h, s, i).pc = IF i = 0 THEN 0 ELSE h[i].pc
         /\ View(h, s, i).ct = IF i = 0 THEN 1 ELSE h[i].ct
         /\ View(h, s, i).argc = IF i = 0 THEN 0 ELSE h[i].argc
         /\ View(h, s, i).locals = SubSeq(s, Base(h, i) + 1, Top(h, i))
         /\ View(h, s, i).eval = SubSeq(s, Top(h, i) + 1, End(h, s, i))
         /\ Len(View(h, s, i).locals) = Top(h, i) - Base(h, i)
         /\ Len(View(h, s, i).eval) = End(h, s, i) - Top(h, i)
<1>1. /\ View(h, s, i).pc = IF i = 0 THEN 0 ELSE h[i].pc
      /\ View(h, s, i).ct = IF i = 0 THEN 1 ELSE h[i].ct
      /\ View(h, s, i).argc = IF i = 0 THEN 0 ELSE h[i].argc
      /\ View(h, s, i).locals = SubSeq(s, Base(h, i) + 1, Top(h, i))
      /\ View(h, s, i).eval = SubSeq(s, Top(h, i) + 1, End(h, s, i))
  BY Zenon DEF View
<1>2. PICK b \in Nat, t \in Nat, e \in Nat :
        /\ b = Base(h, i) /\ t = Top(h, i) /\ e = End(h, s, i)
        /\ b <= t /\ t <= e /\ e <= Len(s)
  BY Geometry, Zenon
<1>3. s \in Seq(Nat) /\ Len(s) \in Nat
  BY LenProperties, Zenon DEF Holds
<1>4. t <= Len(s)
  BY <1>2, <1>3
<1>5. Len(SubSeq(s, b + 1, t)) = t - b /\ Len(SubSeq(s, t + 1, e)) = e - t
  BY <1>2, <1>3, <1>4, SliceFacts, Zenon
<1> QED BY <1>1, <1>2, <1>5, Zenon

(* A frame is the same on another array with the same words.               *)
LEMMA ViewKept ==
  ASSUME NEW h, NEW s, NEW g, NEW t, Holds(h, s), Holds(g, t),
         NEW i \in 0..Len(h), i <= Len(g), i # 0 => g[i] = h[i],
         End(g, t, i) = End(h, s, i), \A j \in 1..End(h, s, i) : t[j] = s[j]
  PROVE  View(g, t, i) = View(h, s, i)
<1>1. /\ s \in Seq(Nat) /\ t \in Seq(Nat) /\ Len(s) \in Nat /\ Len(t) \in Nat
      /\ Len(g) \in Nat
  BY LenProperties, Zenon DEF Holds
<1>2. i \in 0..Len(g)
  BY <1>1
<1>3. Base(g, i) = Base(h, i) /\ Top(g, i) = Top(h, i)
  BY Zenon DEF Base, Top
<1>4. PICK b \in Nat, u \in Nat, e \in Nat :
        /\ b = Base(h, i) /\ u = Top(h, i) /\ e = End(h, s, i)
        /\ b <= u /\ u <= e /\ e <= Len(s)
  BY Geometry, Zenon
<1>5. e <= Len(t)
  BY <1>2, <1>4, Geometry, Zenon
<1>6. u <= Len(s) /\ u <= Len(t)
  BY <1>1, <1>4, <1>5
<1>7. \A j \in (b + 1)..u : t[j] = s[j]
  <2>1. \A j \in (b + 1)..u : j \in 1..e
    BY <1>4
  <2> QED BY <2>1, <1>4, Zenon
<1>8. \A j \in (u + 1)..e : t[j] = s[j]
  <2>1. \A j \in (u + 1)..e : j \in 1..e
    BY <1>4
  <2> QED BY <2>1, <1>4, Zenon
<1>9. SubSeq(t, b + 1, u) = SubSeq(s, b + 1, u)
  <2>1. b <= u
    BY <1>4
  <2>2. Agree(s, t, b, u)
    BY <2>1, <1>1, <1>4, <1>6, <1>7, Zenon DEF Agree
  <2> QED BY <1>1, <2>2, SliceSame
<1>10. SubSeq(t, u + 1, e) = SubSeq(s, u + 1, e)
  <2>1. u <= e /\ e <= Len(s)
    BY <1>4
  <2>2. Agree(s, t, u, e)
    BY <2>1, <1>1, <1>4, <1>5, <1>8, Zenon DEF Agree
  <2> QED BY <1>1, <2>2, SliceSame
<1> QED BY <1>3, <1>4, <1>9, <1>10, Zenon DEF View
-----------------------------------------------------------------------------
(* Two functions that start alike and go on alike are alike.               *)
LEMMA SameRecursion ==
  ASSUME NEW n \in Nat, NEW f, NEW g, f[0] = g[0],
         \A k \in 1..n : f[k - 1] = g[k - 1] => f[k] = g[k]
  PROVE  \A k \in 0..n : f[k] = g[k]
<1> DEFINE T == {k \in 0..n : f[k] # g[k]}
<1> SUFFICES ASSUME T # {} PROVE FALSE
  OBVIOUS
<1>1. T \subseteq Nat
  OBVIOUS
<1>2. PICK k \in T : \A l \in T : ~(<<l, k>> \in OpToRel(<, Nat))
  BY <1>1, WFMin, NatLessThanWellFounded
<1>3. k # 0 /\ k \in 1..n /\ k - 1 \in 0..n /\ k \in Nat /\ k - 1 \in Nat
  OBVIOUS
<1>4. <<k - 1, k>> \in OpToRel(<, Nat)
  BY <1>3 DEF OpToRel
<1>5. k - 1 \notin T
  BY <1>2, <1>4
<1> QED BY <1>3, <1>5

(* h are the frames that the story file has.                               *)
Reads(h) == Holds(h, stack) /\ Len(h) = Depth /\ TopFrame = Base(h, Depth)

(* The links in the headers lead from one frame to the one below.          *)
LEMMA LinksFollow ==
  ASSUME NEW h, Reads(h)
  PROVE  \A k \in 0..Depth : Down[k] = Base(h, Depth - k)
<1>1. PICK n \in Nat : n = Depth /\ n = Len(h)
  <2>1. Len(h) \in Nat
    BY LenProperties, Zenon DEF Reads, Holds
  <2> QED BY <2>1, Zenon DEF Reads
<1>2. PICK g : g = [k \in 0..n |-> Base(h, n - k)]
  OBVIOUS
<1>3. g[0] = TopFrame
  <2>1. 0 \in 0..n /\ n - 0 = n
    OBVIOUS
  <2>2. TopFrame = Base(h, n)
    BY <1>1, Zenon DEF Reads
  <2> QED BY <1>2, <2>1, <2>2, Zenon
<1>4. \A k \in 1..n : g[k] = Caller(stack, g[k - 1])
  <2> SUFFICES ASSUME NEW k \in 1..n PROVE g[k] = Caller(stack, g[k - 1])
    OBVIOUS
  <2>1. PICK i \in 1..n : i = n - (k - 1) /\ i - 1 = n - k /\ i # 0
    <3>1. n - (k - 1) \in 1..n /\ (n - (k - 1)) - 1 = n - k /\ n - (k - 1) # 0
      OBVIOUS
    <3> QED BY <3>1, Zenon
  <2>2. g[k] = Base(h, i - 1) /\ g[k - 1] = Base(h, i)
    <3>1. k \in 0..n /\ k - 1 \in 0..n
      OBVIOUS
    <3> QED BY <1>2, <2>1, <3>1, Zenon
  <2>3. HeaderOf(h, stack, i)
    BY <1>1, Zenon DEF Reads, Holds
  <2>4. Base(h, i) = h[i].base
    BY <2>1, Zenon DEF Base
  <2> QED BY <2>2, <2>3, <2>4, Zenon DEF HeaderOf
<1>5. \A k \in 0..n : g[k] = IF k = 0 THEN TopFrame ELSE Caller(stack, g[k - 1])
  <2>1. \A k \in 0..n : k # 0 => k \in 1..n
    OBVIOUS
  <2> QED BY <1>3, <1>4, <2>1, Zenon
<1>6. g = [k \in 0..Depth |-> IF k = 0 THEN TopFrame ELSE Caller(stack, g[k - 1])]
  BY <1>1, <1>2, <1>5, Zenon
<1>7. Down = [k \in 0..Depth |-> IF k = 0 THEN TopFrame ELSE Caller(stack, Down[k - 1])]
  BY <1>6, Zenon DEF Down
<1>8. \A k \in 0..n : Down[k] = IF k = 0 THEN TopFrame ELSE Caller(stack, Down[k - 1])
  BY <1>1, <1>7, Zenon
<1>9. Down[0] = g[0]
  <2>1. 0 \in 0..n
    OBVIOUS
  <2> QED BY <2>1, <1>3, <1>8, Zenon
<1>10. \A k \in 1..n : Down[k - 1] = g[k - 1] => Down[k] = g[k]
  <2> SUFFICES ASSUME NEW k \in 1..n, Down[k - 1] = g[k - 1] PROVE Down[k] = g[k]
    OBVIOUS
  <2>1. k \in 0..n /\ k # 0
    OBVIOUS
  <2> QED BY <2>1, <1>4, <1>8, Zenon
<1>11. \A k \in 0..n : Down[k] = g[k]
  BY <1>9, <1>10, SameRecursion
<1> QED BY <1>1, <1>2, <1>11, Zenon

(* What the refinement takes for the frames is what the history tells.     *)
LEMMA FramesAreViews ==
  \A h : Reads(h) => FramesOnStack = Views(h, stack)
<1> SUFFICES ASSUME NEW h, Reads(h) PROVE FramesOnStack = Views(h, stack)
  OBVIOUS
<1>1. PICK n \in Nat : n = Depth /\ n = Len(h)
  <2>1. Len(h) \in Nat
    BY LenProperties, Zenon DEF Reads, Holds
  <2> QED BY <2>1, Zenon DEF Reads
<1>2. Holds(h, stack)
  BY Zenon DEF Reads
<1>3. \A i \in 0..n : HeaderAt(i) = Base(h, i)
  <2> SUFFICES ASSUME NEW i \in 0..n PROVE HeaderAt(i) = Base(h, i)
    OBVIOUS
  <2>1. CASE i = 0
    BY <2>1, Zenon DEF HeaderAt, Base
  <2>2. CASE i # 0
    <3>1. n - i \in 0..n /\ n - (n - i) = i
      OBVIOUS
    <3>2. Down[n - i] = Base(h, n - (n - i))
      BY <3>1, <1>1, LinksFollow, Zenon
    <3> QED BY <2>2, <3>1, <3>2, <1>1, Zenon DEF HeaderAt
  <2> QED BY <2>1, <2>2
<1>4. \A i \in 0..n : EndOf(i) = End(h, stack, i)
  <2> SUFFICES ASSUME NEW i \in 0..n PROVE EndOf(i) = End(h, stack, i)
    OBVIOUS
  <2>1. CASE i = n
    BY <2>1, <1>1, Zenon DEF EndOf, End
  <2>2. CASE i # n
    <3>1. i + 1 \in 0..n /\ i + 1 # 0
      BY <2>2
    <3>2. HeaderAt(i + 1) = h[i + 1].base
      BY <3>1, <1>3, Zenon DEF Base
    <3> QED BY <2>2, <3>2, <1>1, Zenon DEF EndOf, End
  <2> QED BY <2>1, <2>2
<1>5. \A i \in 0..n : FrameOnStack(i) = View(h, stack, i)
  <2> SUFFICES ASSUME NEW i \in 0..n PROVE FrameOnStack(i) = View(h, stack, i)
    OBVIOUS
  <2>0. i \in 0..Len(h)
    BY <1>1
  <2>1. PICK b \in Nat, t \in Nat, e \in Nat :
          /\ b = Base(h, i) /\ t = Top(h, i) /\ e = End(h, stack, i)
          /\ LocalCount(stack, b) = t - b
    <3>1. /\ Base(h, i) \in Nat /\ Top(h, i) \in Nat /\ End(h, stack, i) \in Nat
          /\ LocalCount(stack, Base(h, i)) = Top(h, i) - Base(h, i)
      BY <2>0, <1>2, Geometry
    <3> QED BY <3>1, Zenon
  <2>2. HeaderAt(i) = b /\ EndOf(i) = e
    BY <1>3, <1>4, <2>1, Zenon
  <2>3. b + LocalCount(stack, b) = t
    BY <2>1
  <2>4. i # 0 => /\ ReturnPc(stack, b) = h[i].pc /\ CallType(stack, b) = h[i].ct
                 /\ stack[b] % 256 = h[i].argc
    <3> SUFFICES ASSUME i # 0
                 PROVE  /\ ReturnPc(stack, b) = h[i].pc /\ CallType(stack, b) = h[i].ct
                        /\ stack[b] % 256 = h[i].argc
      OBVIOUS
    <3>1. i \in 1..Len(h)
      BY <2>0, <1>1
    <3>2. HeaderOf(h, stack, i) /\ b = h[i].base
      BY <1>2, <2>1, <3>1, Zenon DEF Holds, Base
    <3>3. CallTypeIn(stack[h[i].base]) = h[i].ct /\ ArgcIn(stack[h[i].base]) = h[i].argc
      BY <1>2, <3>1, RecordFacts, Zenon
    <3>4. CallType(stack, b) = h[i].ct /\ stack[b] % 256 = h[i].argc
      BY <3>2, <3>3 DEF CallTypeIn, ArgcIn, CallType
    <3> QED BY <3>2, <3>4, Zenon DEF HeaderOf
  <2>5. FrameOnStack(i) =
          [pc     |-> IF i = 0 THEN 0 ELSE ReturnPc(stack, b),
           ct     |-> IF i = 0 THEN 1 ELSE CallType(stack, b),
           argc   |-> IF i = 0 THEN 0 ELSE stack[b] % 256,
           locals |-> SubSeq(stack, b + 1, t),
           eval   |-> SubSeq(stack, t + 1, e)]
    BY <2>2, <2>3 DEF FrameOnStack
  <2>6. CASE i = 0
    BY <2>1, <2>5, <2>6 DEF View
  <2>7. CASE i # 0
    BY <2>1, <2>4, <2>5, <2>7 DEF View
  <2> QED BY <2>6, <2>7
<1>6. \A i \in 1..(n + 1) : i - 1 \in 0..n
  OBVIOUS
<1>7. \A i \in 1..(n + 1) : FrameOnStack(i - 1) = View(h, stack, i - 1)
  BY <1>5, <1>6, Zenon
<1>8. FramesOnStack = [i \in 1..(n + 1) |-> FrameOnStack(i - 1)]
  BY <1>1, Zenon DEF FramesOnStack
<1>9. Views(h, stack) = [i \in 1..(n + 1) |-> View(h, stack, i - 1)]
  BY <1>1, Zenon DEF Views
<1> QED BY <1>7, <1>8, <1>9, Zenon
-----------------------------------------------------------------------------
(* The frames of a history as a sequence.                                  *)
LEMMA ViewsFacts ==
  ASSUME NEW h, NEW s, Holds(h, s)
  PROVE  /\ Len(h) \in Nat /\ Len(Views(h, s)) = Len(h) + 1
         /\ DOMAIN Views(h, s) = 1..(Len(h) + 1)
         /\ \A i \in 0..Len(h) : Views(h, s)[i + 1] = View(h, s, i)
<1>1. PICK n \in Nat : n = Len(h)
  BY LenProperties, Zenon DEF Holds
<1>2. PICK v : v = [i \in 1..(n + 1) |-> View(h, s, i - 1)]
  OBVIOUS
<1>3. v = Views(h, s)
  BY <1>1, <1>2, Zenon DEF Views
<1>4. DOMAIN v = 1..(n + 1) /\ n + 1 \in Nat
  BY <1>2
<1>5. Len(v) = n + 1
  BY <1>2, <1>4
<1>6. \A i \in 0..n : i + 1 \in 1..(n + 1) /\ (i + 1) - 1 = i
  OBVIOUS
<1>7. \A i \in 0..n : v[i + 1] = View(h, s, i)
  BY <1>2, <1>6, Zenon
<1> QED BY <1>1, <1>3, <1>4, <1>5, <1>7, Zenon

(* Frames lie above those below them.                                      *)
LEMMA BasesAscend ==
  ASSUME NEW h, NEW s, Holds(h, s), NEW m \in 0..Len(h), NEW i \in 0..m
  PROVE  Base(h, i) <= Base(h, m)
<1>1. Len(h) \in Nat
  BY LenProperties, Zenon DEF Holds
<1>2. i \in 0..Len(h) /\ m \in 0..Len(h)
  BY <1>1
<1>3. PICK b \in Nat, c \in Nat, t \in Nat : b = Base(h, i) /\ c = Base(h, m) /\ t = Top(h, i)
                                          /\ b <= t
  <2>1. /\ Base(h, i) \in Nat /\ Base(h, m) \in Nat /\ Top(h, i) \in Nat
        /\ Base(h, i) <= Top(h, i)
    BY <1>2, Geometry, Zenon
  <2> QED BY <2>1, Zenon
<1>4. CASE i = m
  BY <1>3, <1>4
<1>5. CASE i # m
  <2>1. m \in 1..Len(h) /\ i \in 0..(m - 1) /\ m # 0
    BY <1>1, <1>5
  <2>2. t + 4 <= c
    BY <1>3, <2>1, Zenon DEF Holds, Base
  <2> QED BY <1>3, <2>2
<1> QED BY <1>4, <1>5

(* The frames that two histories have in common are those of both, but for *)
(* the last one, which may go on.                                          *)
LEMMA CommonKept ==
  ASSUME NEW h, NEW s, NEW g, NEW t, Holds(h, s), Holds(g, t),
         NEW m \in Nat, m <= Len(h), m <= Len(g),
         \A j \in 1..m : g[j] = h[j],
         \A j \in 1..Base(h, m) : t[j] = s[j]
  PROVE  \A i \in 1..m : Views(g, t)[i] = Views(h, s)[i]
<1>1. PICK n \in Nat, l \in Nat : n = Len(h) /\ l = Len(g) /\ m <= n /\ m <= l
  <2>1. Len(g) \in Nat /\ Len(h) \in Nat
    BY ViewsFacts, Zenon
  <2> QED BY <2>1, Zenon
<1>2. \A i \in 0..l : Views(g, t)[i + 1] = View(g, t, i)
  BY <1>1, ViewsFacts, Zenon
<1>3. \A i \in 0..n : Views(h, s)[i + 1] = View(h, s, i)
  BY <1>1, ViewsFacts, Zenon
<1>5. \A i \in 0..(m - 1) : View(g, t, i) = View(h, s, i)
  <2> SUFFICES ASSUME NEW i \in 0..(m - 1) PROVE View(g, t, i) = View(h, s, i)
    OBVIOUS
  <2>1. /\ i \in 0..n /\ i \in 0..m /\ i + 1 \in 0..m /\ i + 1 \in 1..m /\ i + 1 \in 0..n
        /\ i <= l /\ i < m /\ i < n /\ i # l /\ i # n /\ m \in 0..n
    BY <1>1
  <2>2. i # 0 => g[i] = h[i]
    <3>1. i # 0 => i \in 1..m
      BY <2>1
    <3> QED BY <3>1, Zenon
  <2>3. g[i + 1] = h[i + 1]
    BY <2>1, Zenon
  <2>5. End(g, t, i) = End(h, s, i)
    BY <1>1, <2>1, <2>3, Zenon DEF End
  <2>6. /\ End(h, s, i) \in Nat /\ End(h, s, i) + 4 = Base(h, i + 1)
        /\ Base(h, i + 1) \in Nat /\ Base(h, m) \in Nat /\ Base(h, i + 1) <= Base(h, m)
    <3>1. i \in 0..Len(h) /\ i + 1 \in 0..Len(h) /\ m \in 0..Len(h) /\ i < Len(h)
      BY <1>1, <2>1, Zenon
    <3>2. End(h, s, i) \in Nat /\ End(h, s, i) + 4 = Base(h, i + 1)
      BY <3>1, Geometry, Zenon
    <3>3. Base(h, i + 1) \in Nat /\ Base(h, m) \in Nat
      BY <3>1, Geometry, Zenon
    <3>4. Base(h, i + 1) <= Base(h, m)
      BY <2>1, <3>1, BasesAscend, Zenon
    <3> QED BY <3>2, <3>3, <3>4
  <2>7. \A j \in 1..End(h, s, i) : j \in 1..Base(h, m)
    BY <2>6
  <2>8. \A j \in 1..End(h, s, i) : t[j] = s[j]
    BY <2>7, Zenon
  <2>9. i \in 0..Len(h) /\ i <= Len(g)
    BY <1>1, <2>1
  <2> QED BY <2>2, <2>5, <2>8, <2>9, ViewKept
<1> SUFFICES ASSUME NEW i \in 1..m PROVE Views(g, t)[i] = Views(h, s)[i]
  OBVIOUS
<1>6. PICK k \in 0..(m - 1) : k + 1 = i
  <2>1. i - 1 \in 0..(m - 1) /\ (i - 1) + 1 = i
    OBVIOUS
  <2> QED BY <2>1, Zenon
<1>7. k \in 0..l /\ k \in 0..n
  BY <1>1
<1> QED BY <1>2, <1>3, <1>5, <1>6, <1>7, Zenon

(* The same, where g goes on after the k frames of h.                      *)
Continues(h, s, g, t, k) ==
  /\ Holds(h, s) /\ Holds(g, t)
  /\ k \in Nat /\ k <= Len(h) /\ k <= Len(g)
  /\ \A j \in 1..k : g[j] = h[j]
  /\ \A j \in 1..Base(h, k) : t[j] = s[j]

LEMMA OlderKept ==
  ASSUME NEW h, NEW s, NEW g, NEW t, NEW k, Continues(h, s, g, t, k)
  PROVE  \A i \in 1..k : Views(g, t)[i] = Views(h, s)[i]
<1>1. /\ Holds(h, s) /\ Holds(g, t)
      /\ k \in Nat /\ k <= Len(h) /\ k <= Len(g)
      /\ \A j \in 1..k : g[j] = h[j]
      /\ \A j \in 1..Base(h, k) : t[j] = s[j]
  BY Zenon DEF Continues
<1> QED BY <1>1, CommonKept

(* The frames below the youngest of g are those of h.                      *)
LEMMA OthersKept ==
  ASSUME NEW h, NEW s, NEW g, NEW t, Holds(h, s), Holds(g, t), Len(g) <= Len(h),
         \A j \in 1..Len(g) : g[j] = h[j],
         \A j \in 1..Base(h, Len(g)) : t[j] = s[j]
  PROVE  /\ Len(Views(g, t)) = Len(g) + 1
         /\ \A i \in 1..Len(g) : Views(g, t)[i] = Views(h, s)[i]
         /\ Views(g, t)[Len(g) + 1] = View(g, t, Len(g))
         /\ Views(h, s)[Len(g) + 1] = View(h, s, Len(g))
         /\ Base(g, Len(g)) = Base(h, Len(g)) /\ Top(g, Len(g)) = Top(h, Len(g))
<1>1. PICK m \in Nat, n \in Nat : m = Len(g) /\ n = Len(h) /\ m <= n
  <2>1. Len(g) \in Nat /\ Len(h) \in Nat
    BY ViewsFacts, Zenon
  <2> QED BY <2>1, Zenon
<1>2. /\ Len(Views(g, t)) = m + 1
      /\ \A i \in 0..m : Views(g, t)[i + 1] = View(g, t, i)
  BY <1>1, ViewsFacts, Zenon
<1>3. \A i \in 0..n : Views(h, s)[i + 1] = View(h, s, i)
  BY <1>1, ViewsFacts, Zenon
<1>4. m \in 0..m /\ m \in 0..n /\ m <= m
  BY <1>1
<1>5. /\ m <= Len(h) /\ m <= Len(g) /\ \A j \in 1..m : g[j] = h[j]
      /\ \A j \in 1..Base(h, m) : t[j] = s[j]
  BY <1>1, <1>4, Zenon
<1>6. \A i \in 1..m : Views(g, t)[i] = Views(h, s)[i]
  BY <1>5, CommonKept
<1>7. Views(g, t)[m + 1] = View(g, t, m) /\ Views(h, s)[m + 1] = View(h, s, m)
  BY <1>2, <1>3, <1>4, Zenon
<1>8. Base(g, m) = Base(h, m) /\ Top(g, m) = Top(h, m)
  <2>1. m # 0 => g[m] = h[m]
    <3>1. m # 0 => m \in 1..m
      OBVIOUS
    <3> QED BY <1>1, <3>1, Zenon
  <2> QED BY <2>1, Zenon DEF Base, Top
<1> QED BY <1>1, <1>2, <1>6, <1>7, <1>8, Zenon
-----------------------------------------------------------------------------
(* The same after a step.                                                  *)
LEMMA FramesAreViewsAfter ==
  ASSUME NEW g, Reads(g)'
  PROVE  FramesOnStack' = Views(g, stack')
<1>1. (\A h : Reads(h) => FramesOnStack = Views(h, stack))'
  BY FramesAreViews, PTL
<1> QED BY <1>1, Zenon

(* A step that leaves the words below the base of the youngest frame alone *)
(* protects the frames below it, and the shape of the youngest one.        *)
LEMMA StepProtects ==
  ASSUME NEW h, NEW g, Reads(h), Reads(g)', Len(g) <= Len(h),
         \A j \in 1..Len(g) : g[j] = h[j],
         \A j \in 1..Base(h, Len(g)) : stack'[j] = stack[j]
  PROVE  /\ Frames!Protects(Len(g) + 1)
         /\ FramesOnStack'[Len(g) + 1] = View(g, stack', Len(g))
         /\ FramesOnStack[Len(g) + 1] = View(h, stack, Len(g))
         /\ Base(g, Len(g)) = Base(h, Len(g)) /\ Top(g, Len(g)) = Top(h, Len(g))
<1>1. PICK s, t, u, v : /\ s = stack /\ t = stack' /\ u = FramesOnStack /\ v = FramesOnStack'
  OBVIOUS
<1>2. Holds(h, s) /\ Holds(g, t) /\ u = Views(h, s) /\ v = Views(g, t)
  BY <1>1, FramesAreViews, FramesAreViewsAfter, Zenon DEF Reads
<1>3. PICK m \in Nat : m = Len(g) /\ m \in 0..Len(h) /\ m \in 0..Len(g)
  <2>1. Len(g) \in Nat /\ Len(h) \in Nat
    BY <1>2, ViewsFacts, Zenon
  <2>2. Len(g) \in 0..Len(h) /\ Len(g) \in 0..Len(g)
    BY <2>1
  <2> QED BY <2>1, <2>2, Zenon
<1>4. \A j \in 1..Base(h, Len(g)) : t[j] = s[j]
  BY <1>1, Zenon
<1>5. /\ Len(v) = m + 1 /\ \A i \in 1..m : v[i] = u[i]
      /\ v[m + 1] = View(g, t, m) /\ u[m + 1] = View(h, s, m)
      /\ Base(g, m) = Base(h, m) /\ Top(g, m) = Top(h, m)
  <2>1. /\ Len(Views(g, t)) = Len(g) + 1
        /\ \A i \in 1..Len(g) : Views(g, t)[i] = Views(h, s)[i]
        /\ Views(g, t)[Len(g) + 1] = View(g, t, Len(g))
        /\ Views(h, s)[Len(g) + 1] = View(h, s, Len(g))
        /\ Base(g, Len(g)) = Base(h, Len(g)) /\ Top(g, Len(g)) = Top(h, Len(g))
    BY <1>2, <1>4, OthersKept
  <2> QED BY <1>2, <1>3, <2>1, Zenon
<1>6. m # 0 => g[m] = h[m]
  <2>1. m # 0 => m \in 1..m
    BY <1>3
  <2> QED BY <1>3, <2>1, Zenon
<1>7. /\ v[m + 1].pc = u[m + 1].pc /\ v[m + 1].ct = u[m + 1].ct
      /\ v[m + 1].argc = u[m + 1].argc
  BY <1>5, <1>6 DEF View
<1>8. Len(v[m + 1].locals) = Len(u[m + 1].locals)
  <2>1. Len(View(g, t, m).locals) = Top(g, m) - Base(g, m)
    BY <1>2, <1>3, ViewFacts, Zenon
  <2>2. Len(View(h, s, m).locals) = Top(h, m) - Base(h, m)
    BY <1>2, <1>3, ViewFacts, Zenon
  <2> QED BY <1>5, <2>1, <2>2, Zenon
<1>9. \A i \in 1..((m + 1) - 1) : v[i] = u[i]
  <2>1. (m + 1) - 1 = m
    BY <1>3
  <2> QED BY <1>5, <2>1, Zenon
<1>10. \A field \in {"pc", "ct", "argc"} : v[m + 1][field] = u[m + 1][field]
  BY <1>7
<1>11. Frames!Protects(m + 1)
  BY <1>1, <1>5, <1>8, <1>9, <1>10, Zenon DEF Frames!Protects
<1> QED BY <1>1, <1>3, <1>5, <1>11, Zenon
-----------------------------------------------------------------------------
(* The frames that the story file has: those of the calls in progress, and *)
(* while z_throw unwinds those it started from.                            *)
Witness(h) ==
  /\ Reads(h)
  /\ frame_count <= Len(h) /\ \A j \in 1..frame_count : frames[j] = h[j]
  /\ ~Unwinding => h = frames

(* The loops of interpret() count down from what z_quit or ret() set.      *)
FinishedOK == finished \in Nat /\ (mode = "leave" => finished # 0)

HasWitness == \E h : Witness(h)

RInv == IInv /\ FinishedOK /\ HasWitness

(* Outside z_throw the history is the witness.                             *)
LEMMA HistoryReads == IInv /\ ~Unwinding => Reads(frames)
<1> SUFFICES ASSUME IInv, ~Unwinding PROVE Reads(frames)
  OBVIOUS
<1>1. PICK n \in Nat : n = frame_count /\ n = Len(frames)
  BY StackFacts, Zenon DEF FrameIntegrity
<1>2. Depth = n /\ TopFrame = fp
  BY <1>1, Zenon DEF Depth, TopFrame
<1>3. TypeOK /\ FrameIntegrity
  BY StackFacts
<1>4. \A i : FrameTop(i) = Top(frames, i) /\ FrameBase(i) = Base(frames, i)
  BY Zenon DEF FrameTop, FrameBase, Top, Base
<1>5. fp = Base(frames, n)
  BY <1>1, <1>3, <1>4, Zenon DEF FrameIntegrity
<1>6. frames \in Seq(FrameRecord) /\ stack \in Seq(Nat)
  BY <1>3, Zenon DEF TypeOK
<1>7. Top(frames, n) <= Len(stack)
  BY <1>1, <1>3, <1>4, Zenon DEF FrameIntegrity
<1>8. \A i \in 1..n : \A j \in 0..(i - 1) : Top(frames, j) + 4 <= frames[i].base
  BY <1>1, <1>3, <1>4, Zenon DEF FrameIntegrity, FramesDisjoint
<1>9. \A i \in 1..n : HeaderOf(frames, stack, i)
  BY <1>1, <1>3, <1>4, Zenon DEF FrameIntegrity, HeaderIntact, HeaderOf
<1> QED BY <1>1, <1>2, <1>5, <1>6, <1>7, <1>8, <1>9, Zenon DEF Reads, Holds

LEMMA HistoryWitness == IInv /\ ~Unwinding => Witness(frames)
<1> SUFFICES ASSUME IInv, ~Unwinding PROVE Witness(frames)
  OBVIOUS
<1>1. Reads(frames)
  BY HistoryReads
<1>2. Len(frames) = frame_count /\ frame_count \in Nat
  BY StackFacts, Zenon DEF FrameIntegrity
<1>3. frame_count <= Len(frames)
  BY <1>2
<1> QED BY <1>1, <1>3, Zenon DEF Witness

(* A step outside z_throw, from one history to the next.                   *)
LEMMA HistoryStep ==
  ASSUME IInv, IInv', ~Unwinding, ~Unwinding'
  PROVE  /\ Reads(frames) /\ Reads(frames)'
         /\ FramesOnStack = Views(frames, stack) /\ FramesOnStack' = Views(frames', stack')
         /\ fp = Base(frames, Len(frames))
<1>1. Reads(frames)
  BY HistoryReads
<1>2. (IInv /\ ~Unwinding => Reads(frames))'
  BY HistoryReads, PTL
<1>3. Reads(frames)'
  BY <1>2
<1>4. FramesOnStack = Views(frames, stack)
  BY <1>1, FramesAreViews, Zenon
<1>5. (\A h : Reads(h) => FramesOnStack = Views(h, stack))'
  BY FramesAreViews, PTL
<1>6. PICK g : g = frames'
  OBVIOUS
<1>7. Reads(g)'
  BY <1>3, <1>6, Zenon DEF Reads, Holds
<1>8. FramesOnStack' = Views(frames', stack')
  BY <1>5, <1>6, <1>7, Zenon
<1>9. fp = Base(frames, Len(frames))
  BY <1>1, Zenon DEF Reads, TopFrame, Depth
<1> QED BY <1>1, <1>3, <1>4, <1>8, <1>9

(* An opcode that works on the words above fp.                             *)
LEMMA WorkRefines ==
  ASSUME IInv, IInv', ~Unwinding, ~Unwinding', mode \in {"fetch", "opcode"},
         frames' = frames, calls' = calls, \A j \in 1..fp : stack'[j] = stack[j]
  PROVE  Frames!Work
<1>1. PICK h : h = frames
  OBVIOUS
<1>2. /\ Reads(frames) /\ Reads(frames)' /\ FramesOnStack = Views(frames, stack)
      /\ fp = Base(frames, Len(frames))
  BY HistoryStep
<1>3. Reads(h) /\ fp = Base(h, Len(h)) /\ Holds(h, stack)
  BY <1>1, <1>2, Zenon DEF Reads
<1>4. Reads(h)'
  BY <1>1, <1>2, Zenon DEF Reads, Holds
<1>5. Len(h) \in Nat /\ Len(FramesOnStack) = Len(h) + 1
  BY <1>1, <1>2, <1>3, ViewsFacts, Zenon
<1>6. Len(h) <= Len(h)
  BY <1>5
<1>7. Frames!Protects(Len(h) + 1)
  BY <1>3, <1>4, <1>6, StepProtects, Zenon
<1>8. Frames!Protects(Len(FramesOnStack))
  BY <1>5, <1>7, Zenon
<1>9. Frames!Running
  BY Zenon DEF Frames!Running
<1> QED BY <1>8, <1>9, Zenon DEF Frames!Work
-----------------------------------------------------------------------------
(* A call opens a frame above all others.                                  *)
LEMMA CallRefines ==
  ASSUME IInv, IInv', ~Unwinding, ~Unwinding', mode \in {"fetch", "opcode"},
         NEW routine \in Nat, NEW count \in 0..MaxLocals,
         NEW args, ArgsOK(args), NEW ct \in 0..2,
         Call(routine, count, args, ct), ct = 2 <=> mode = "opcode",
         Len(calls') = IF ct = 2 THEN Len(calls) + 1 ELSE Len(calls)
  PROVE  Frames!Call
<1>1. PICK h, g, s, t, u, v :
        /\ h = frames /\ g = frames' /\ s = stack /\ t = stack'
        /\ u = FramesOnStack /\ v = FramesOnStack'
  OBVIOUS
<1>2. Holds(h, s) /\ Holds(g, t) /\ u = Views(h, s) /\ v = Views(g, t)
  <2>1. /\ Reads(frames) /\ Reads(frames)'
        /\ FramesOnStack = Views(frames, stack) /\ FramesOnStack' = Views(frames', stack')
    BY HistoryStep
  <2> QED BY <1>1, <2>1, Zenon DEF Reads
<1>3. PICK n \in Nat, m \in Nat : n = Len(h) /\ m = Len(s)
  BY <1>2, LenProperties, Zenon DEF Holds
<1>4. Len(t) = m + 4 + count /\ \A j \in 1..m : t[j] = s[j]
  BY <1>1, <1>3, CallStep, Zenon
<1>5. PICK r : r = [base |-> m + 4, pc |-> pc, ct |-> ct, argc |-> Len(args), count |-> count]
  OBVIOUS
<1>6. r.base = m + 4 /\ r.pc = pc /\ r.ct = ct /\ r.count = count
  BY <1>5
<1>7. g = Append(h, r)
  BY <1>1, <1>3, <1>5, Zenon DEF Call
<1>8. r \in FrameRecord
  <2>1. pc \in Nat
    BY StackFacts, Zenon DEF TypeOK
  <2>2. Len(args) \in 0..MaxArgs /\ m + 4 \in Nat
    BY <1>3 DEF ArgsOK
  <2> QED BY <2>1, <2>2, <1>5, Zenon DEF FrameRecord
<1>9. Len(g) = n + 1 /\ g[n + 1] = r /\ \A j \in 1..n : g[j] = h[j]
  <2>1. h \in Seq(FrameRecord)
    BY <1>2, Zenon DEF Holds
  <2>2. /\ Len(Append(h, r)) = Len(h) + 1 /\ Append(h, r)[Len(h) + 1] = r
        /\ \A j \in 1..Len(h) : Append(h, r)[j] = h[j]
    BY <1>8, <2>1, AppendFacts
  <2> QED BY <1>3, <1>7, <2>2, Zenon
<1>10. MaxLocals \in 0..15 /\ count \in Nat /\ count <= MaxLocals
  BY StackAssumption
<1>11. n <= Len(g) /\ n \in 0..Len(g) /\ n + 1 \in 0..Len(g) /\ n \in 0..n
  BY <1>9
<1>12. Base(g, n) = Base(h, n) /\ Top(g, n) = Top(h, n)
  <2>1. n # 0 => n \in 1..n
    OBVIOUS
  <2> QED BY <1>9, <2>1, Zenon DEF Base, Top
<1>13. \A j \in 1..Base(h, n) : t[j] = s[j]
  <2>1. Base(h, n) \in Nat /\ Base(h, n) <= m
    <3>0. n \in 0..Len(h)
      BY <1>3
    <3>1. /\ Base(h, n) \in Nat /\ Top(h, n) \in Nat /\ End(h, s, n) \in Nat
          /\ Base(h, n) <= Top(h, n) /\ Top(h, n) <= End(h, s, n) /\ End(h, s, n) <= m
      BY <1>2, <1>3, <3>0, Geometry, Zenon
    <3> QED BY <3>1
  <2>2. \A j \in 1..Base(h, n) : j \in 1..m
    BY <2>1
  <2> QED BY <1>4, <2>2, Zenon
<1>14. \A i \in 1..n : v[i] = u[i]
  <2>1. n <= Len(h) /\ n <= Len(g) /\ Holds(h, s) /\ Holds(g, t)
    BY <1>2, <1>3, <1>11
  <2>2. Continues(h, s, g, t, n)
    BY <2>1, <1>9, <1>13, Zenon DEF Continues
  <2>3. \A i \in 1..n : Views(g, t)[i] = Views(h, s)[i]
    BY <2>2, OlderKept
  <2> QED BY <1>2, <2>3, Zenon
<1>15. /\ Len(u) = n + 1 /\ Len(v) = n + 2
       /\ u[n + 1] = View(h, s, n) /\ v[n + 1] = View(g, t, n)
       /\ v[n + 2] = View(g, t, n + 1)
  <2>1. Len(u) = n + 1 /\ u[n + 1] = View(h, s, n)
    BY <1>2, <1>3, <1>11, ViewsFacts, Zenon
  <2>2. /\ Len(v) = (n + 1) + 1 /\ v[n + 1] = View(g, t, n)
        /\ v[(n + 1) + 1] = View(g, t, n + 1)
    BY <1>2, <1>9, <1>11, ViewsFacts, Zenon
  <2>3. (n + 1) + 1 = n + 2
    OBVIOUS
  <2> QED BY <2>1, <2>2, <2>3, Zenon
<1>16. View(g, t, n) = View(h, s, n)
  <2>1. End(h, s, n) = m
    BY <1>3, Zenon DEF End
  <2>2. End(g, t, n) = m
    BY <1>3, <1>6, <1>9 DEF End
  <2>3. n # 0 => g[n] = h[n]
    <3>1. n # 0 => n \in 1..n
      OBVIOUS
    <3> QED BY <3>1, <1>9, Zenon
  <2>4. n \in 0..Len(h) /\ n <= Len(g) /\ \A j \in 1..End(h, s, n) : t[j] = s[j]
    BY <1>3, <1>4, <1>11, <2>1, Zenon
  <2> QED BY <1>2, <2>1, <2>2, <2>3, <2>4, ViewKept
<1>17. \A i \in 1..(n + 1) : v[i] = u[i]
  <2>1. \A i \in 1..(n + 1) : i = n + 1 \/ i \in 1..n
    OBVIOUS
  <2> QED BY <1>14, <1>15, <1>16, <2>1, Zenon
<1>18. /\ v[n + 2].pc = pc /\ v[n + 2].ct = ct /\ v[n + 2].eval = <<>>
       /\ Len(v[n + 2].locals) <= MaxLocals
  <2>1. n + 1 # 0
    OBVIOUS
  <2>2. Base(g, n + 1) = m + 4 /\ Top(g, n + 1) = m + 4 + count
    BY <1>6, <1>9, <2>1, Zenon DEF Base, Top
  <2>3. End(g, t, n + 1) = m + 4 + count
    BY <1>4, <1>9, Zenon DEF End
  <2>4. /\ View(g, t, n + 1).pc = r.pc /\ View(g, t, n + 1).ct = r.ct
        /\ View(g, t, n + 1).eval = SubSeq(t, (m + 4 + count) + 1, m + 4 + count)
        /\ Len(View(g, t, n + 1).locals) = (m + 4 + count) - (m + 4)
    <3>1. n + 1 \in 0..Len(g) /\ Holds(g, t)
      BY <1>2, <1>11, Zenon
    <3>2. /\ View(g, t, n + 1).pc = IF n + 1 = 0 THEN 0 ELSE g[n + 1].pc
          /\ View(g, t, n + 1).ct = IF n + 1 = 0 THEN 1 ELSE g[n + 1].ct
          /\ View(g, t, n + 1).eval = SubSeq(t, Top(g, n + 1) + 1, End(g, t, n + 1))
          /\ Len(View(g, t, n + 1).locals) = Top(g, n + 1) - Base(g, n + 1)
      BY <3>1, ViewFacts
    <3> QED BY <1>9, <2>1, <2>2, <2>3, <3>2, Zenon
  <2>5. SubSeq(t, (m + 4 + count) + 1, m + 4 + count) = <<>>
    <3>1. PICK x \in Int, y \in Int : /\ x = (m + 4 + count) + 1 /\ y = m + 4 + count
                                     /\ y < x
      BY <1>10
    <3>2. SubSeq(t, x, y) = <<>>
      BY <3>1, SubSeqEmpty
    <3> QED BY <3>1, <3>2, Zenon
  <2>6. (m + 4 + count) - (m + 4) <= MaxLocals
    BY <1>10
  <2> QED BY <1>6, <1>15, <2>4, <2>5, <2>6, Zenon
<1>19. Frames!Running
  BY Zenon DEF Frames!Running
<1>20. /\ Len(FramesOnStack') = Len(FramesOnStack) + 1
       /\ \A i \in 1..Len(FramesOnStack) : FramesOnStack'[i] = FramesOnStack[i]
  <2>1. (n + 1) + 1 = n + 2
    OBVIOUS
  <2> QED BY <1>1, <1>15, <1>17, <2>1, Zenon
<1>21. /\ FramesOnStack'[Len(FramesOnStack')].pc = pc
       /\ FramesOnStack'[Len(FramesOnStack')].ct = ct
       /\ FramesOnStack'[Len(FramesOnStack')].eval = <<>>
       /\ Len(FramesOnStack'[Len(FramesOnStack')].locals) <= MaxLocals
  BY <1>1, <1>15, <1>18, Zenon
<1>22. ct = 2 <=> (IF Unwinding THEN "fetch" ELSE mode) = "opcode"
  OBVIOUS
<1> QED BY <1>19, <1>20, <1>21, <1>22, Zenon DEF Frames!Call
-----------------------------------------------------------------------------
(* What becomes of the youngest frame of g, which is frame p of h: a word  *)
(* is pushed on its evaluation stack, or one of its locals is written.     *)
Resumes(h, s, g, t, p) ==
  /\ Holds(h, s) /\ Holds(g, t)
  /\ p \in Nat /\ p <= Len(h) /\ p = Len(g)
  /\ p # 0 => g[p] = h[p]

Pushes(old, new) ==
  /\ Len(new.eval) = Len(old.eval) + 1
  /\ SubSeq(new.eval, 1, Len(old.eval)) = old.eval
  /\ new.locals = old.locals

Writes(old, new) ==
  /\ new.eval = old.eval
  /\ \E v \in DOMAIN old.locals :
       \A w \in DOMAIN old.locals \ {v} : new.locals[w] = old.locals[w]

(* The words of that frame before and after.                               *)
Slices(h, s, g, t, p, b, c, n) ==
  /\ b \in Nat /\ c \in Nat /\ n \in Nat
  /\ b <= c /\ c <= n /\ n <= Len(s) /\ c <= Len(t)
  /\ s \in Seq(Nat) /\ t \in Seq(Nat) /\ Len(s) \in Nat /\ Len(t) \in Nat
  /\ b = Base(h, p) /\ c = Top(h, p) /\ n = End(h, s, p)
  /\ View(h, s, p).locals = SubSeq(s, b + 1, c)
  /\ View(h, s, p).eval = SubSeq(s, c + 1, n)
  /\ View(g, t, p).locals = SubSeq(t, b + 1, c)
  /\ View(g, t, p).eval = SubSeq(t, c + 1, Len(t))

LEMMA ResumedFacts ==
  ASSUME NEW h, NEW s, NEW g, NEW t, NEW p, Resumes(h, s, g, t, p)
  PROVE  \E b, c, n : Slices(h, s, g, t, p, b, c, n)
<1>1. Holds(h, s) /\ Holds(g, t) /\ p \in Nat /\ p <= Len(h) /\ p = Len(g)
      /\ (p # 0 => g[p] = h[p])
  BY Zenon DEF Resumes
<1>2. p \in 0..Len(h) /\ p \in 0..Len(g)
  <2>1. Len(h) \in Nat /\ Len(g) \in Nat
    BY <1>1, ViewsFacts, Zenon
  <2> QED BY <1>1, <2>1
<1>3. Base(g, p) = Base(h, p) /\ Top(g, p) = Top(h, p)
  BY <1>1, Zenon DEF Base, Top
<1>4. End(g, t, p) = Len(t)
  BY <1>1, Zenon DEF End
<1>5. /\ Base(h, p) \in Nat /\ Top(h, p) \in Nat /\ End(h, s, p) \in Nat
      /\ Base(h, p) <= Top(h, p) /\ Top(h, p) <= End(h, s, p) /\ End(h, s, p) <= Len(s)
  BY <1>1, <1>2, Geometry, Zenon
<1>6. Top(g, p) <= End(g, t, p)
  BY <1>1, <1>2, Geometry, Zenon
<1>7. /\ View(h, s, p).locals = SubSeq(s, Base(h, p) + 1, Top(h, p))
      /\ View(h, s, p).eval = SubSeq(s, Top(h, p) + 1, End(h, s, p))
  BY Zenon DEF View
<1>8. /\ View(g, t, p).locals = SubSeq(t, Base(g, p) + 1, Top(g, p))
      /\ View(g, t, p).eval = SubSeq(t, Top(g, p) + 1, End(g, t, p))
  BY Zenon DEF View
<1>9. s \in Seq(Nat) /\ t \in Seq(Nat) /\ Len(s) \in Nat /\ Len(t) \in Nat
  BY <1>1, LenProperties DEF Holds
<1>10. PICK b \in Nat, c \in Nat, n \in Nat : b = Base(h, p) /\ c = Top(h, p) /\ n = End(h, s, p)
  BY <1>5
<1>11. b <= c /\ c <= n /\ n <= Len(s) /\ c <= Len(t)
  BY <1>3, <1>4, <1>5, <1>6, <1>10, Zenon
<1>12. /\ View(h, s, p).locals = SubSeq(s, b + 1, c)
       /\ View(h, s, p).eval = SubSeq(s, c + 1, n)
       /\ View(g, t, p).locals = SubSeq(t, b + 1, c)
       /\ View(g, t, p).eval = SubSeq(t, c + 1, Len(t))
  BY <1>3, <1>4, <1>7, <1>8, <1>10, Zenon
<1>13. Slices(h, s, g, t, p, b, c, n)
  BY <1>9, <1>10, <1>11, <1>12, Zenon DEF Slices
<1> QED BY <1>13

LEMMA PushedView ==
  ASSUME NEW h, NEW s, NEW g, NEW t, NEW p, Resumes(h, s, g, t, p),
         Len(t) = End(h, s, p) + 1, \A j \in 1..End(h, s, p) : t[j] = s[j]
  PROVE  Pushes(View(h, s, p), View(g, t, p))
<1>0. PICK b, c, n : Slices(h, s, g, t, p, b, c, n)
  BY ResumedFacts
<1>1. b \in Nat /\ c \in Nat /\ n \in Nat /\ b <= c /\ c <= n
  BY <1>0, Zenon DEF Slices
<1>b. b = Base(h, p) /\ c = Top(h, p) /\ n = End(h, s, p)
  BY <1>0, Zenon DEF Slices
<1>c. /\ n <= Len(s) /\ c <= Len(t)
      /\ s \in Seq(Nat) /\ t \in Seq(Nat) /\ Len(s) \in Nat /\ Len(t) \in Nat
  BY <1>0, Zenon DEF Slices
<1>a. /\ View(h, s, p).locals = SubSeq(s, b + 1, c)
      /\ View(h, s, p).eval = SubSeq(s, c + 1, n)
      /\ View(g, t, p).locals = SubSeq(t, b + 1, c)
      /\ View(g, t, p).eval = SubSeq(t, c + 1, Len(t))
  BY <1>0, Zenon DEF Slices
<1>2. PICK l \in Nat : l = Len(t) /\ l = n + 1 /\ c <= l
  BY <1>b, <1>c, Zenon
<1>3. \A j \in 1..n : t[j] = s[j]
  BY <1>b, Zenon
<1>4. /\ \A j \in (b + 1)..c : j \in 1..n
      /\ \A j \in (c + 1)..n : j \in 1..n
      /\ n <= l /\ l - c = (n - c) + 1
  BY <1>1, <1>2
<1>d. c <= Len(s) /\ n <= Len(t) /\ l <= Len(t)
  BY <1>1, <1>2, <1>c
<1>5. SubSeq(t, b + 1, c) = SubSeq(s, b + 1, c)
  <2>1. \A j \in (b + 1)..c : t[j] = s[j]
    BY <1>3, <1>4, Zenon
  <2>2. Agree(s, t, b, c)
    BY <1>1, <1>c, <1>d, <2>1, Zenon DEF Agree
  <2> QED BY <1>1, <1>c, <2>2, SliceSame
<1>6. SubSeq(SubSeq(t, c + 1, l), 1, n - c) = SubSeq(s, c + 1, n)
  <2>1. \A j \in (c + 1)..n : t[j] = s[j]
    BY <1>3, <1>4, Zenon
  <2>2. Agree(s, t, c, n)
    BY <1>1, <1>c, <1>d, <2>1, Zenon DEF Agree
  <2>3. n <= l /\ l <= Len(t) /\ s \in Seq(Nat) /\ t \in Seq(Nat) /\ c \in Nat /\ n \in Nat
    BY <1>1, <1>c, <1>d, <1>4, Zenon
  <2> QED BY <2>2, <2>3, SlicePrefix
<1>7. Len(SubSeq(s, c + 1, n)) = n - c
  BY <1>1, <1>c, SliceFacts, Zenon
<1>8. Len(SubSeq(t, c + 1, l)) = l - c
  BY <1>1, <1>2, <1>c, <1>d, SliceFacts, Zenon
<1>9. Len(View(g, t, p).eval) = Len(View(h, s, p).eval) + 1
  BY <1>a, <1>2, <1>4, <1>7, <1>8, Zenon
<1>10. SubSeq(View(g, t, p).eval, 1, Len(View(h, s, p).eval)) = View(h, s, p).eval
  BY <1>a, <1>2, <1>6, <1>7, Zenon
<1>11. View(g, t, p).locals = View(h, s, p).locals
  BY <1>a, <1>5, Zenon
<1> QED BY <1>9, <1>10, <1>11, Zenon DEF Pushes

LEMMA WrittenView ==
  ASSUME NEW h, NEW s, NEW g, NEW t, NEW p, Resumes(h, s, g, t, p),
         Len(t) = End(h, s, p), NEW w \in Nat, w > Base(h, p), w <= Top(h, p),
         \A j \in 1..End(h, s, p) : j # w => t[j] = s[j]
  PROVE  Writes(View(h, s, p), View(g, t, p))
<1>0. PICK b, c, n : Slices(h, s, g, t, p, b, c, n)
  BY ResumedFacts
<1>1. b \in Nat /\ c \in Nat /\ n \in Nat /\ b <= c /\ c <= n
  BY <1>0, Zenon DEF Slices
<1>b. b = Base(h, p) /\ c = Top(h, p) /\ n = End(h, s, p)
  BY <1>0, Zenon DEF Slices
<1>c. /\ n <= Len(s) /\ c <= Len(t)
      /\ s \in Seq(Nat) /\ t \in Seq(Nat) /\ Len(s) \in Nat /\ Len(t) \in Nat
  BY <1>0, Zenon DEF Slices
<1>a. /\ View(h, s, p).locals = SubSeq(s, b + 1, c)
      /\ View(h, s, p).eval = SubSeq(s, c + 1, n)
      /\ View(g, t, p).locals = SubSeq(t, b + 1, c)
      /\ View(g, t, p).eval = SubSeq(t, c + 1, Len(t))
  BY <1>0, Zenon DEF Slices
<1>2. Len(t) = n /\ \A j \in 1..n : j # w => t[j] = s[j]
  BY <1>b, Zenon
<1>d. b < w /\ w <= c
  BY <1>b, <1>1
<1>3. PICK v \in Nat, d \in Nat : b + v = w /\ d = c - b /\ v \in 1..d
  <2>1. w - b \in Nat /\ c - b \in Nat /\ b + (w - b) = w /\ w - b \in 1..(c - b)
    BY <1>1, <1>d
  <2> QED BY <2>1
<1>4. PICK old, new : old = SubSeq(s, b + 1, c) /\ new = SubSeq(t, b + 1, c)
  OBVIOUS
<1>5. DOMAIN old = 1..d /\ \A j \in 1..d : old[j] = s[b + j]
  <2>1. c <= Len(s)
    BY <1>1, <1>c
  <2>2. /\ DOMAIN SubSeq(s, b + 1, c) = 1..(c - b)
        /\ \A j \in 1..(c - b) : SubSeq(s, b + 1, c)[j] = s[b + j]
    BY <1>1, <1>c, <2>1, SliceFacts, Zenon
  <2> QED BY <1>3, <1>4, <2>2, Zenon
<1>6. \A j \in 1..d : new[j] = t[b + j]
  <2>1. \A j \in 1..(c - b) : SubSeq(t, b + 1, c)[j] = t[b + j]
    BY <1>1, <1>c, SliceFacts, Zenon
  <2> QED BY <1>3, <1>4, <2>1, Zenon
<1>7. \A j \in 1..d : b + j \in 1..n /\ (b + j = w => j = v)
  BY <1>1, <1>3
<1>8. \A j \in DOMAIN old \ {v} : new[j] = old[j]
  BY <1>2, <1>5, <1>6, <1>7, Zenon
<1>9. SubSeq(t, c + 1, n) = SubSeq(s, c + 1, n)
  <2>1. \A j \in (c + 1)..n : j \in 1..n /\ j # w
    BY <1>1, <1>d
  <2>2. \A j \in (c + 1)..n : t[j] = s[j]
    BY <1>2, <2>1, Zenon
  <2>3. n <= Len(t)
    BY <1>2
  <2>4. Agree(s, t, c, n)
    BY <1>1, <1>c, <2>2, <2>3, Zenon DEF Agree
  <2> QED BY <1>1, <1>c, <2>4, SliceSame
<1>10. View(g, t, p).eval = View(h, s, p).eval
  BY <1>a, <1>2, <1>9, Zenon
<1>11. old = View(h, s, p).locals /\ new = View(g, t, p).locals
  BY <1>a, <1>4, Zenon
<1> QED BY <1>3, <1>5, <1>8, <1>10, <1>11, Zenon DEF Writes

(* What store() may make of an array r whose youngest frame is at b.       *)
Grown(r, t) == Len(t) = Len(r) + 1 /\ \A j \in 1..Len(r) : t[j] = r[j]
Overwritten(r, t, w) == Len(t) = Len(r) /\ \A j \in 1..Len(r) : j # w => t[j] = r[j]

LEMMA StoreShapes ==
  ASSUME NEW r \in Seq(Nat), NEW b \in Nat, LocalCount(r, b) \in 0..15,
         b + LocalCount(r, b) <= Len(r),
         NEW variable \in Variables(r, b), NEW value \in Nat,
         NEW t, t = Store(r, b, variable, value)
  PROVE  \/ Grown(r, t)
         \/ \E w \in Nat : b < w /\ w <= b + LocalCount(r, b) /\ Overwritten(r, t, w)
         \/ t = r
<1>1. PICK k \in Nat : k = LocalCount(r, b) /\ k <= 15 /\ b + k <= Len(r)
  <2>1. \A k \in 0..15 : k \in Nat /\ k <= 15
    OBVIOUS
  <2> QED BY <2>1, Zenon
<1>2. CASE variable = 0
  <2>1. t = Append(r, value)
    BY <1>2, Zenon DEF Store
  <2>2. Grown(r, Append(r, value))
    BY AppendFacts DEF Grown
  <2> QED BY <2>1, <2>2, Zenon
<1>3. CASE variable = Global
  BY <1>3 DEF Store, Global
<1>4. CASE variable \in 1..k
  <2>1. PICK w \in Nat : w = b + variable /\ b < w /\ w <= b + k /\ w \in 1..Len(r)
    BY <1>1, <1>4
  <2>2. variable # 0 /\ variable < 16
    BY <1>1, <1>4
  <2>3. t = [r EXCEPT ![w] = value]
    BY <2>1, <2>2, Zenon DEF Store, Global
  <2>4. Overwritten(r, [r EXCEPT ![w] = value], w)
    BY <2>1, OverwriteFacts DEF Overwritten
  <2> QED BY <1>1, <2>1, <2>3, <2>4, Zenon
<1> QED BY <1>1, <1>2, <1>3, <1>4 DEF Variables

(* The words r that a return leaves on the array: those of the frames from *)
(* 0 to p.                                                                 *)
Remains(h, s, p, r) ==
  r \in Seq(Nat) /\ Len(r) = End(h, s, p) /\ \A j \in 1..Len(r) : r[j] = s[j]

LEMMA GrownView ==
  ASSUME NEW h, NEW s, NEW g, NEW t, NEW p, Resumes(h, s, g, t, p),
         NEW r, Remains(h, s, p, r), Grown(r, t)
  PROVE  Pushes(View(h, s, p), View(g, t, p))
<1>1. Len(t) = End(h, s, p) + 1 /\ \A j \in 1..End(h, s, p) : t[j] = s[j]
  BY Zenon DEF Remains, Grown
<1> QED BY <1>1, PushedView, Zenon

LEMMA OverwrittenView ==
  ASSUME NEW h, NEW s, NEW g, NEW t, NEW p, Resumes(h, s, g, t, p),
         NEW r, Remains(h, s, p, r),
         NEW w \in Nat, Base(h, p) < w, w <= Top(h, p), Overwritten(r, t, w)
  PROVE  Writes(View(h, s, p), View(g, t, p))
<1>1. Len(t) = End(h, s, p) /\ \A j \in 1..End(h, s, p) : j # w => t[j] = s[j]
  BY Zenon DEF Remains, Overwritten
<1>2. w > Base(h, p)
  OBVIOUS
<1> QED BY <1>1, <1>2, WrittenView, Zenon

LEMMA SameView ==
  ASSUME NEW h, NEW s, NEW g, NEW t, NEW p, Resumes(h, s, g, t, p), Remains(h, s, p, t)
  PROVE  View(g, t, p) = View(h, s, p)
<1>1. /\ Holds(h, s) /\ Holds(g, t) /\ p \in Nat /\ p <= Len(h) /\ p = Len(g)
      /\ (p # 0 => g[p] = h[p])
  BY Zenon DEF Resumes
<1>2. p \in 0..Len(h) /\ p <= Len(g)
  <2>1. Len(h) \in Nat
    BY <1>1, ViewsFacts, Zenon
  <2> QED BY <1>1, <2>1
<1>3. End(g, t, p) = End(h, s, p) /\ \A j \in 1..End(h, s, p) : t[j] = s[j]
  BY <1>1, Zenon DEF End, Remains
<1> QED BY <1>1, <1>2, <1>3, ViewKept

LEMMA StoredView ==
  ASSUME NEW h, NEW s, NEW g, NEW t, NEW p, Resumes(h, s, g, t, p),
         NEW r, Remains(h, s, p, r), NEW variable \in Variables(r, Base(h, p)),
         NEW value \in Nat, t = Store(r, Base(h, p), variable, value)
  PROVE  \/ Pushes(View(h, s, p), View(g, t, p))
         \/ Writes(View(h, s, p), View(g, t, p))
         \/ View(g, t, p) = View(h, s, p)
<1>0. PICK b, c, n : Slices(h, s, g, t, p, b, c, n)
  BY ResumedFacts
<1>1. /\ b \in Nat /\ c \in Nat /\ n \in Nat /\ b <= c /\ c <= n
      /\ b = Base(h, p) /\ c = Top(h, p) /\ n = End(h, s, p)
  BY <1>0, Zenon DEF Slices
<1>2. r \in Seq(Nat) /\ Len(r) = n /\ \A j \in 1..n : r[j] = s[j]
  BY <1>1, Zenon DEF Remains
<1>3. LocalCount(s, b) = c - b /\ LocalCount(s, b) \in 0..15
  <2>1. Holds(h, s) /\ p \in 0..Len(h)
    <3>1. Holds(h, s) /\ p \in Nat /\ p <= Len(h)
      BY Zenon DEF Resumes
    <3>2. Len(h) \in Nat
      BY <3>1, ViewsFacts, Zenon
    <3> QED BY <3>1, <3>2
  <2>2. LocalCount(s, Base(h, p)) = Top(h, p) - Base(h, p)
    BY <2>1, Geometry, Zenon
  <2>3. c - b \in 0..15
    <3>1. CASE p = 0
      BY <3>1, <1>1 DEF Base, Top
    <3>2. CASE p # 0
      <4>1. p \in 1..Len(h)
        BY <2>1, <3>2
      <4>2. /\ h[p].base \in Nat /\ h[p].count \in 0..15
            /\ b = h[p].base /\ c = h[p].base + h[p].count
        BY <1>1, <2>1, <4>1, RecordFacts, Zenon
      <4> QED BY <4>2
    <3> QED BY <3>1, <3>2
  <2> QED BY <1>1, <2>2, <2>3, Zenon
<1>4. LocalCount(r, b) = LocalCount(s, b)
  <2>1. b # 0 => b \in 1..n
    BY <1>1
  <2>2. b # 0 => r[b] = s[b]
    BY <1>2, <2>1, Zenon
  <2> QED BY <2>2, Zenon DEF LocalCount
<1>5. LocalCount(r, b) \in 0..15 /\ b + LocalCount(r, b) = c /\ c <= Len(r)
  <2>1. PICK k \in Nat : k = LocalCount(r, b) /\ k = c - b /\ k \in 0..15
    BY <1>3, <1>4
  <2>2. b + k = c
    BY <1>1, <2>1
  <2> QED BY <1>1, <1>2, <2>1, <2>2, Zenon
<1>6. variable \in Variables(r, b) /\ t = Store(r, b, variable, value)
  BY <1>1, Zenon
<1>7. \/ Grown(r, t)
      \/ \E w \in Nat : b < w /\ w <= b + LocalCount(r, b) /\ Overwritten(r, t, w)
      \/ t = r
  BY <1>1, <1>2, <1>5, <1>6, StoreShapes
<1>8. CASE Grown(r, t)
  BY <1>8, GrownView, Zenon
<1>9. CASE \E w \in Nat : b < w /\ w <= b + LocalCount(r, b) /\ Overwritten(r, t, w)
  <2>1. PICK w \in Nat : b < w /\ w <= b + LocalCount(r, b) /\ Overwritten(r, t, w)
    BY <1>9, Zenon
  <2>2. Base(h, p) < w /\ w <= Top(h, p)
    BY <1>1, <1>5, <2>1, Zenon
  <2> QED BY <2>1, <2>2, OverwrittenView, Zenon
<1>10. CASE t = r
  <2>1. Remains(h, s, p, t)
    BY <1>10, Zenon
  <2>2. View(g, t, p) = View(h, s, p)
    BY <2>1, SameView
  <2> QED BY <2>2
<1> QED BY <1>7, <1>8, <1>9, <1>10, Zenon

-----------------------------------------------------------------------------
(* What ret() leaves in the frame it resumes: the value as the call type   *)
(* asks for it.                                                            *)
Delivered(ct, variable, value, r, b, t) ==
  /\ ct = 0 => t = Store(r, b, variable, value) /\ variable \in Variables(r, b)
  /\ ct = 1 => t = r
  /\ ct = 2 => t = Append(r, value)

LEMMA DeliveredView ==
  ASSUME NEW h, NEW s, NEW g, NEW t, NEW p, Resumes(h, s, g, t, p),
         NEW r, Remains(h, s, p, r), NEW ct \in 0..2, NEW variable, NEW value \in Nat,
         Delivered(ct, variable, value, r, Base(h, p), t)
  PROVE  /\ ct = 0 => Frames!Stored(View(h, s, p), View(g, t, p))
         /\ ct = 1 => View(g, t, p) = View(h, s, p)
         /\ ct = 2 => Pushes(View(h, s, p), View(g, t, p))
<1>1. CASE ct = 0
  <2>1. t = Store(r, Base(h, p), variable, value) /\ variable \in Variables(r, Base(h, p))
    BY <1>1, Zenon DEF Delivered
  <2>2. \/ Pushes(View(h, s, p), View(g, t, p))
        \/ Writes(View(h, s, p), View(g, t, p))
        \/ View(g, t, p) = View(h, s, p)
    BY <2>1, StoredView
  <2>3. Frames!Stored(View(h, s, p), View(g, t, p))
    BY <2>2, Zenon DEF Frames!Stored, Pushes, Writes
  <2> QED BY <1>1, <2>3
<1>2. CASE ct = 1
  <2>1. Remains(h, s, p, t)
    BY <1>2, Zenon DEF Delivered
  <2>2. View(g, t, p) = View(h, s, p)
    BY <2>1, SameView
  <2> QED BY <1>2, <2>2
<1>3. CASE ct = 2
  <2>1. t = Append(r, value) /\ r \in Seq(Nat)
    BY <1>3, Zenon DEF Delivered, Remains
  <2>2. Grown(r, t)
    BY <2>1, AppendFacts DEF Grown
  <2>3. Pushes(View(h, s, p), View(g, t, p))
    BY <2>2, GrownView, Zenon
  <2> QED BY <1>3, <2>3
<1> QED BY <1>1, <1>2, <1>3

(* ret() in terms of the history.                                          *)
LEMMA RetDelivers ==
  ASSUME IInv, NEW value \in Nat, NEW variable, Ret(value, variable)
  PROVE  \E p \in Nat : \E r :
           /\ frame_count = p + 1 /\ Len(frames) = p + 1 /\ Len(frames') = p
           /\ \A j \in 1..p : frames'[j] = frames[j]
           /\ fp = frames[p + 1].base /\ frames[p + 1].base >= 4
           /\ r = SubSeq(stack, 1, fp - 4)
           /\ frames[p + 1].ct \in 0..2 /\ frames[p + 1].pc \in Nat
           /\ Delivered(frames[p + 1].ct, variable, value, r, Base(frames, p), stack')
           /\ pc' = IF frames[p + 1].ct = 0 THEN frames[p + 1].pc + 1 ELSE frames[p + 1].pc
           /\ finished' = NextFinished(frames[p + 1].ct)
<1>1. /\ TypeOK /\ FrameIntegrity /\ frame_count \in Nat /\ frames \in Seq(FrameRecord)
      /\ Len(frames) = frame_count
  BY StackFacts, Zenon DEF FrameIntegrity, StackOK
<1>2. frame_count > 0 /\ frames' = Pop(frames)
  BY DEF Ret
<1>3. PICK p \in Nat : frame_count = p + 1 /\ p + 1 # 0 /\ p = frame_count - 1
                       /\ p + 1 \in 1..frame_count
  <2>1. frame_count - 1 \in Nat /\ frame_count = (frame_count - 1) + 1
    BY <1>1, <1>2
  <2> QED BY <2>1
<1>4. /\ Len(frames') = p /\ \A j \in 1..p : frames'[j] = frames[j]
  <2>1. /\ Len(Pop(frames)) = Len(frames) - 1
        /\ \A j \in 1..(Len(frames) - 1) : Pop(frames)[j] = frames[j]
    BY <1>1, <1>2, PopFacts
  <2> QED BY <1>1, <1>2, <1>3, <2>1, Zenon
<1>5. fp = frames[p + 1].base
  BY <1>1, <1>3, Zenon DEF FrameIntegrity, FrameBase
<1>6. /\ frames[p + 1] \in FrameRecord
      /\ CallType(stack, fp) = frames[p + 1].ct /\ frames[p + 1].base \in 4..fp
  BY <1>1, <1>3, <1>5, FrameFacts, Zenon
<1>7. frames[p + 1].ct \in 0..2 /\ frames[p + 1].pc \in Nat /\ frames[p + 1].base >= 4
  BY <1>6 DEF FrameRecord
<1>8. /\ ReturnPc(stack, fp) = frames[p + 1].pc
      /\ Caller(stack, fp) = FrameBase(p)
  BY <1>1, <1>2, <1>3, DropFacts, Zenon
<1>9. FrameBase(p) = Base(frames, p)
  BY Zenon DEF FrameBase, Base
<1>10. PICK ct, r, b : ct = CallType(stack, fp) /\ r = SubSeq(stack, 1, fp - 4)
                       /\ b = Base(frames, p)
  OBVIOUS
<1>11. fp' = b
  BY <1>8, <1>9, <1>10, Zenon DEF Ret
<1>12. Delivered(ct, variable, value, r, b, stack')
  <2>1. stack' = CASE ct = 0 -> Store(r, b, variable, value)
                   [] ct = 1 -> r
                   [] OTHER  -> Append(r, value)
    BY <1>10, <1>11, Zenon DEF Ret
  <2>2. variable \in IF ct = 0 THEN Variables(r, b) ELSE {Global}
    BY <1>10, <1>11, Zenon DEF Ret
  <2>3. ct = 0 => stack' = Store(r, b, variable, value) /\ variable \in Variables(r, b)
    BY <2>1, <2>2
  <2>4. ct = 1 => stack' = r
    BY <2>1
  <2>5. ct = 2 => stack' = Append(r, value)
    BY <2>1
  <2> QED BY <2>3, <2>4, <2>5, Zenon DEF Delivered
<1>13. /\ pc' = IF ct = 0 THEN ReturnPc(stack, fp) + 1 ELSE ReturnPc(stack, fp)
       /\ finished' = NextFinished(ct)
  BY <1>10, Zenon DEF Ret
<1>14. ct = frames[p + 1].ct
  BY <1>6, <1>10
<1> QED BY <1>1, <1>3, <1>4, <1>5, <1>7, <1>8, <1>10, <1>12, <1>13, <1>14, Zenon

(* A return, at once or at the end of z_throw, resumes the frame below the *)
(* one it returns from.                                                    *)
LEMMA RetRefines ==
  ASSUME IInv, IInv', FinishedOK, ~Unwinding', mode \in {"fetch", "unwind"},
         NEW h, Witness(h),
         NEW value \in Nat, NEW variable, Ret(value, variable)
  PROVE  \E k \in 2..Len(FramesOnStack) : Frames!ReturnFrom(k)
<1>1. PICK p \in Nat : \E r :
           /\ frame_count = p + 1 /\ Len(frames) = p + 1 /\ Len(frames') = p
           /\ \A j \in 1..p : frames'[j] = frames[j]
           /\ fp = frames[p + 1].base /\ frames[p + 1].base >= 4
           /\ r = SubSeq(stack, 1, fp - 4)
           /\ frames[p + 1].ct \in 0..2 /\ frames[p + 1].pc \in Nat
           /\ Delivered(frames[p + 1].ct, variable, value, r, Base(frames, p), stack')
           /\ pc' = IF frames[p + 1].ct = 0 THEN frames[p + 1].pc + 1 ELSE frames[p + 1].pc
           /\ finished' = NextFinished(frames[p + 1].ct)
  BY RetDelivers
<1>2. PICK r :
           /\ frame_count = p + 1 /\ Len(frames) = p + 1 /\ Len(frames') = p
           /\ \A j \in 1..p : frames'[j] = frames[j]
           /\ fp = frames[p + 1].base /\ frames[p + 1].base >= 4
           /\ r = SubSeq(stack, 1, fp - 4)
           /\ frames[p + 1].ct \in 0..2 /\ frames[p + 1].pc \in Nat
           /\ Delivered(frames[p + 1].ct, variable, value, r, Base(frames, p), stack')
           /\ pc' = IF frames[p + 1].ct = 0 THEN frames[p + 1].pc + 1 ELSE frames[p + 1].pc
           /\ finished' = NextFinished(frames[p + 1].ct)
  BY <1>1
<1>3. /\ Reads(h) /\ Holds(h, stack) /\ p + 1 <= Len(h)
      /\ \A j \in 1..(p + 1) : h[j] = frames[j]
  BY <1>2, Zenon DEF Witness, Reads
<1>4. PICK n \in Nat : n = Len(h) /\ p + 1 <= n
  <2>1. Len(h) \in Nat
    BY <1>3, ViewsFacts, Zenon
  <2> QED BY <1>3, <2>1, Zenon
<1>5. /\ p <= n /\ p # n /\ p + 1 \in 1..(p + 1) /\ p + 1 \in 1..n /\ p \in 0..n
      /\ p + 1 \in 0..n /\ (p # 0 => p \in 1..p) /\ p + 1 # 0
      /\ \A j \in 1..p : j \in 1..(p + 1)
  BY <1>4
<1>6. PICK g : g = frames'
  OBVIOUS
<1>7. Reads(g)' /\ Holds(g, stack')
  <2>1. (IInv /\ ~Unwinding => Reads(frames))'
    BY HistoryReads, PTL
  <2>2. Reads(frames)'
    BY <2>1
  <2> QED BY <1>6, <2>2, Zenon DEF Reads, Holds
<1>8. /\ Len(g) = p /\ \A j \in 1..p : g[j] = h[j]
  BY <1>2, <1>3, <1>5, <1>6, Zenon
<1>9. h[p + 1] = frames[p + 1] /\ Base(h, p) = Base(frames, p)
  BY <1>3, <1>5, Zenon DEF Base
<1>10. \A j \in 1..Base(h, p) : stack'[j] = stack[j]
  <2>1. \A j \in 1..FrameBase(frame_count - 1) : stack'[j] = stack[j]
    BY RetStep, Zenon
  <2>2. frame_count - 1 = p
    BY <1>2
  <2>3. FrameBase(p) = Base(frames, p)
    BY Zenon DEF FrameBase, Base
  <2> QED BY <1>9, <2>1, <2>2, <2>3, Zenon
<1>11. /\ Frames!Protects(p + 1)
       /\ FramesOnStack'[p + 1] = View(g, stack', p)
       /\ FramesOnStack[p + 1] = View(h, stack, p)
  <2>1. Len(g) <= Len(h) /\ \A j \in 1..Len(g) : g[j] = h[j]
    BY <1>4, <1>5, <1>8, Zenon
  <2>2. \A j \in 1..Base(h, Len(g)) : stack'[j] = stack[j]
    BY <1>8, <1>10, Zenon
  <2>3. /\ Frames!Protects(Len(g) + 1)
        /\ FramesOnStack'[Len(g) + 1] = View(g, stack', Len(g))
        /\ FramesOnStack[Len(g) + 1] = View(h, stack, Len(g))
    BY <1>3, <1>7, <2>1, <2>2, StepProtects
  <2> QED BY <1>8, <2>3, Zenon
<1>12. /\ Len(FramesOnStack) = n + 1
       /\ FramesOnStack[(p + 1) + 1] = View(h, stack, p + 1)
  <2>1. FramesOnStack = Views(h, stack)
    BY <1>3, FramesAreViews, Zenon
  <2> QED BY <1>3, <1>4, <1>5, <2>1, ViewsFacts, Zenon
<1>13. View(h, stack, p + 1).pc = frames[p + 1].pc /\ View(h, stack, p + 1).ct = frames[p + 1].ct
  <2>1. /\ View(h, stack, p + 1).pc = IF p + 1 = 0 THEN 0 ELSE h[p + 1].pc
        /\ View(h, stack, p + 1).ct = IF p + 1 = 0 THEN 1 ELSE h[p + 1].ct
    BY <1>3, <1>4, <1>5, ViewFacts
  <2> QED BY <1>5, <1>9, <2>1, Zenon
<1>14. Resumes(h, stack, g, stack', p)
  <2>1. p # 0 => g[p] = h[p]
    BY <1>5, <1>8, Zenon
  <2> QED BY <1>3, <1>4, <1>5, <1>7, <1>8, <2>1, Zenon DEF Resumes
<1>15. Remains(h, stack, p, r)
  <2>1. End(h, stack, p) = fp - 4
    BY <1>2, <1>4, <1>5, <1>9, Zenon DEF End
  <2>2. stack \in Seq(Nat) /\ fp - 4 \in Nat /\ fp - 4 <= Len(stack)
    <3>1. End(h, stack, p) \in Nat /\ End(h, stack, p) <= Len(stack)
      BY <1>3, <1>4, <1>5, Geometry, Zenon
    <3> QED BY <1>3, <2>1, <3>1, Zenon DEF Holds
  <2>3. PICK m \in Nat : m = fp - 4 /\ m <= Len(stack)
    BY <2>2
  <2>4. /\ SubSeq(stack, 1, m) \in Seq(Nat) /\ Len(SubSeq(stack, 1, m)) = m
        /\ \A j \in 1..m : SubSeq(stack, 1, m)[j] = stack[j]
    BY <2>2, <2>3, BelowFacts
  <2>5. r = SubSeq(stack, 1, m)
    BY <1>2, <2>3, Zenon
  <2> QED BY <2>1, <2>3, <2>4, <2>5, Zenon DEF Remains
<1>16. PICK ct, old, new :
         ct = frames[p + 1].ct /\ old = View(h, stack, p) /\ new = View(g, stack', p)
  OBVIOUS
<1>17. /\ ct = 0 => Frames!Stored(old, new)
       /\ ct = 1 => new = old
       /\ ct = 2 => Pushes(old, new)
  <2>1. ct \in 0..2 /\ Delivered(ct, variable, value, r, Base(h, p), stack')
    BY <1>2, <1>9, <1>16, Zenon
  <2> QED BY <1>14, <1>15, <1>16, <2>1, DeliveredView
<1>18. pc' = (IF ct = 0 THEN frames[p + 1].pc + 1 ELSE frames[p + 1].pc)
       /\ finished' = NextFinished(ct)
  BY <1>2, <1>16, Zenon
<1>19. ct = 2 => mode' = "leave"
  <2> SUFFICES ASSUME ct = 2 PROVE mode' = "leave"
    OBVIOUS
  <2>1. finished' = finished + 1
    BY <1>18 DEF NextFinished
  <2>2. finished' # 0
    BY <2>1 DEF FinishedOK
  <2>3. mode' = IF finished' = 0 THEN "fetch" ELSE "leave"
    BY DEF Ret, EndOpcode
  <2> QED BY <2>2, <2>3
<1>20. PICK k : k = (p + 1) + 1 /\ k - 1 = p + 1 /\ k \in 2..(n + 1)
  <2>1. ((p + 1) + 1) - 1 = p + 1 /\ (p + 1) + 1 \in 2..(n + 1)
    BY <1>4
  <2> QED BY <2>1
<1>21. PICK callee : /\ callee = FramesOnStack[k] /\ callee.ct = ct
                     /\ callee.pc = frames[p + 1].pc
  BY <1>12, <1>13, <1>16, <1>20, Zenon
<1>22. old = FramesOnStack[k - 1] /\ new = FramesOnStack'[k - 1] /\ Frames!Protects(k - 1)
  BY <1>11, <1>16, <1>20, Zenon
<1>23. ct \in 0..2
  BY <1>2, <1>16
<1>24. (IF Unwinding THEN "fetch" ELSE mode) = "fetch"
  BY DEF Unwinding
<1>25. calls' = calls
  BY DEF Ret
<1>26. CASE ct = 0
  <2>1. Frames!Stored(old, new) /\ pc' = callee.pc + 1
    BY <1>17, <1>18, <1>21, <1>26, Zenon
  <2>2. Frames!ReturnFrom(k)
    BY <1>21, <1>22, <1>24, <1>25, <1>26, <2>1 DEF Frames!ReturnFrom
  <2> QED BY <1>12, <1>20, <2>2, Zenon
<1>27. CASE ct = 1
  <2>1. new = old /\ pc' = callee.pc /\ ct # 0
    BY <1>17, <1>18, <1>21, <1>27
  <2>2. Frames!ReturnFrom(k)
    BY <1>21, <1>22, <1>24, <1>25, <1>27, <2>1 DEF Frames!ReturnFrom
  <2> QED BY <1>12, <1>20, <2>2, Zenon
<1>28. CASE ct = 2
  <2>1. Pushes(old, new) /\ pc' = callee.pc /\ ct # 0 /\ ct # 1
    BY <1>17, <1>18, <1>21, <1>28
  <2>2. (IF Unwinding' THEN "fetch" ELSE mode') = "leave"
    BY <1>19, <1>28
  <2>3. Frames!ReturnFrom(k)
    BY <1>21, <1>22, <1>24, <1>25, <2>1, <2>2 DEF Frames!ReturnFrom, Pushes
  <2> QED BY <1>12, <1>20, <2>3, Zenon
<1> QED BY <1>23, <1>26, <1>27, <1>28
-----------------------------------------------------------------------------
(* A step that leaves the array alone, and the frames the story file has.  *)
LEMMA KeepsReading ==
  ASSUME NEW h, Reads(h), stack' = stack, Depth' = Depth, TopFrame' = TopFrame
  PROVE  Reads(h)' /\ FramesOnStack' = FramesOnStack
<1>1. Reads(h)'
  BY Zenon DEF Reads, Holds
<1>2. FramesOnStack = Views(h, stack)
  BY FramesAreViews, Zenon
<1>3. FramesOnStack' = Views(h, stack')
  BY <1>1, FramesAreViewsAfter, Zenon
<1> QED BY <1>1, <1>2, <1>3, Zenon

(* The same outside z_throw.                                               *)
LEMMA StaysOnStack ==
  ASSUME IInv, ~Unwinding, ~Unwinding', UNCHANGED <<stack, fp, frame_count, frames>>
  PROVE  FramesOnStack' = FramesOnStack
<1>1. PICK h : h = frames
  OBVIOUS
<1>2. Reads(h)
  BY <1>1, HistoryReads, Zenon
<1>3. Depth' = Depth /\ TopFrame' = TopFrame
  BY DEF Depth, TopFrame
<1> QED BY <1>2, <1>3, KeepsReading, Zenon

(* The loop that direct_call started is left, or the outermost one.        *)
LEMMA LeaveRefines ==
  ASSUME IInv, IInv', Leave
  PROVE  Frames!Leave
<1>1. /\ mode = "leave" /\ pc' = pc /\ fp' = fp /\ frame_count' = frame_count
      /\ frames' = frames
  BY DEF Leave
<1>2. mode' \in {"stopped", "opcode", "overrun"}
  BY DEF Leave
<1>3. ~Unwinding /\ ~Unwinding'
  BY <1>1, <1>2 DEF Unwinding
<1>4. (IF Unwinding THEN "fetch" ELSE mode) = "leave" /\ (IF Unwinding' THEN "fetch" ELSE mode') = mode'
  BY <1>1, <1>3
<1>5. calls \in Seq(CallRecord)
  BY StackFacts, Zenon DEF TypeOK
<1>6. PICK l \in Nat : l = Len(calls)
  BY <1>5, LenProperties
<1>7. CASE calls = <<>>
  <2>1. l = 0 /\ mode' = "stopped" /\ stack' = stack /\ calls' = calls
    BY <1>6, <1>7 DEF Leave
  <2>2. FramesOnStack' = FramesOnStack
    BY <1>1, <1>3, <2>1, StaysOnStack, Zenon
  <2> QED BY <1>1, <1>4, <1>6, <2>1, <2>2 DEF Frames!Leave
<1>8. CASE calls # <<>>
  <2>1. calls' = Pop(calls) /\ l > 0 /\ l # 0
    <3>1. Len(calls) # 0
      BY <1>5, <1>8
    <3> QED BY <1>6, <1>8, <3>1 DEF Leave
  <2>2. Len(calls') = l - 1
    <3>1. Len(Pop(calls)) = Len(calls) - 1
      BY <1>5, <1>6, <2>1, PopFacts
    <3> QED BY <1>6, <2>1, <3>1, Zenon
  <2>3. CASE ~HasOperand
    <3>1. mode' = "overrun" /\ stack' = stack
      BY <1>8, <2>3 DEF Leave
    <3>2. FramesOnStack' = FramesOnStack
      BY <1>1, <1>3, <3>1, StaysOnStack, Zenon
    <3> QED BY <1>1, <1>4, <1>6, <2>1, <2>2, <3>1, <3>2 DEF Frames!Leave
  <2>4. CASE HasOperand
    <3>1. mode' = "opcode" /\ stack' = Pop(stack)
      BY <1>8, <2>4 DEF Leave, ResultPopped
    <3>2. /\ stack \in Seq(Nat) /\ Len(stack) > 0 /\ Len(stack) \in Nat
          /\ \A j \in 1..fp : stack'[j] = stack[j]
      BY <2>4, <3>1, OperandFacts, StackFacts, Zenon DEF WritesAbove
    <3>3. PICK h, n : h = frames /\ n = Len(h)
      OBVIOUS
    <3>4. /\ Reads(frames) /\ Reads(frames)' /\ FramesOnStack = Views(frames, stack)
          /\ fp = Base(frames, Len(frames))
      BY <1>3, HistoryStep
    <3>5. /\ Reads(h) /\ Holds(h, stack) /\ Holds(h, stack') /\ fp = Base(h, n)
      BY <1>1, <3>3, <3>4, Zenon DEF Reads
    <3>6. Reads(h)'
      BY <1>1, <3>3, <3>4, Zenon DEF Reads, Holds
    <3>7. n \in Nat /\ Len(FramesOnStack) = n + 1 /\ Len(h) <= Len(h) /\ n <= Len(h)
          /\ n \in 0..Len(h)
      <4>1. Len(h) \in Nat /\ Len(Views(h, stack)) = Len(h) + 1
        BY <3>5, ViewsFacts, Zenon
      <4>2. FramesOnStack = Views(h, stack)
        BY <3>3, <3>4, Zenon
      <4>3. n \in Nat
        BY <3>3, <4>1, Zenon
      <4>4. n <= n /\ n \in 0..n
        BY <4>3
      <4> QED BY <3>3, <4>1, <4>2, <4>4, Zenon
    <3>8. \A j \in 1..Base(h, Len(h)) : stack'[j] = stack[j]
      BY <3>2, <3>3, <3>5, Zenon
    <3>9. /\ Frames!Protects(n + 1)
          /\ FramesOnStack'[n + 1] = View(h, stack', n)
          /\ FramesOnStack[n + 1] = View(h, stack, n)
      <4>1. /\ Frames!Protects(Len(h) + 1)
            /\ FramesOnStack'[Len(h) + 1] = View(h, stack', Len(h))
            /\ FramesOnStack[Len(h) + 1] = View(h, stack, Len(h))
        BY <3>5, <3>6, <3>7, <3>8, StepProtects
      <4> QED BY <3>3, <4>1, Zenon
    <3>10. Resumes(h, stack', h, stack, n)
      BY <3>3, <3>5, <3>7, Zenon DEF Resumes
    <3>11. /\ Len(Pop(stack)) = Len(stack) - 1
           /\ \A j \in 1..(Len(stack) - 1) : Pop(stack)[j] = stack[j]
      BY <3>2, PopFacts
    <3>12. End(h, stack', n) = Len(stack) - 1
      BY <3>1, <3>3, <3>11, Zenon DEF End
    <3>13. Len(stack) = End(h, stack', n) + 1
      BY <3>2, <3>12
    <3>14. \A j \in 1..End(h, stack', n) : stack[j] = stack'[j]
      BY <3>1, <3>11, <3>12, Zenon
    <3>15. Pushes(View(h, stack', n), View(h, stack, n))
      BY <3>10, <3>13, <3>14, PushedView
    <3>16. Len(View(h, stack', n).eval) \in Nat
      <4>1. Holds(h, stack') /\ n \in 0..Len(h)
        BY <3>5, <3>7
      <4>2. /\ Top(h, n) \in Nat /\ End(h, stack', n) \in Nat
            /\ Top(h, n) <= End(h, stack', n)
        BY <4>1, Geometry, Zenon
      <4>3. Len(View(h, stack', n).eval) = End(h, stack', n) - Top(h, n)
        BY <4>1, ViewFacts, Zenon
      <4> QED BY <4>2, <4>3
    <3>17. PICK u, v : u = FramesOnStack[n + 1] /\ v = FramesOnStack'[n + 1]
      OBVIOUS
    <3>18. v.eval = SubSeq(u.eval, 1, Len(u.eval) - 1)
      <4>1. Len(u.eval) = Len(v.eval) + 1 /\ SubSeq(u.eval, 1, Len(v.eval)) = v.eval
        BY <3>9, <3>15, <3>17, Zenon DEF Pushes
      <4>2. Len(v.eval) \in Nat
        BY <3>9, <3>16, <3>17, Zenon
      <4>3. Len(u.eval) - 1 = Len(v.eval)
        BY <4>1, <4>2
      <4> QED BY <4>1, <4>3, Zenon
    <3>19. /\ Frames!Protects(Len(FramesOnStack))
           /\ FramesOnStack'[Len(FramesOnStack)].eval =
                SubSeq(FramesOnStack[Len(FramesOnStack)].eval, 1,
                       Len(FramesOnStack[Len(FramesOnStack)].eval) - 1)
      BY <3>7, <3>9, <3>17, <3>18, Zenon
    <3> QED BY <1>1, <1>4, <1>6, <2>1, <2>2, <3>1, <3>19 DEF Frames!Leave
  <2> QED BY <2>3, <2>4
<1> QED BY <1>7, <1>8

(* An empty array holds the frame of the main routine.                     *)
LEMMA EmptyViews == Views(<<>>, <<>>) = <<Frames!MainFrame>>
<1>1. View(<<>>, <<>>, 0) = Frames!MainFrame
  <2>1. SubSeq(<<>>, 0 + 1, 0) = <<>>
    <3>1. 0 + 1 \in Int /\ 0 \in Int /\ 0 + 1 > 0
      OBVIOUS
    <3> QED BY <3>1, SubSeqEmpty
  <2>2. Base(<<>>, 0) = 0 /\ Top(<<>>, 0) = 0 /\ End(<<>>, <<>>, 0) = 0
    BY DEF Base, Top, End
  <2> QED BY <2>1, <2>2, Zenon DEF View, Frames!MainFrame
<1>2. Views(<<>>, <<>>) = [i \in 1..1 |-> View(<<>>, <<>>, i - 1)]
  BY DEF Views
<1>3. \A i \in 1..1 : View(<<>>, <<>>, i - 1) = Frames!MainFrame
  <2>1. \A i \in 1..1 : i - 1 = 0
    OBVIOUS
  <2> QED BY <1>1, <2>1, Zenon
<1>4. [i \in 1..1 |-> View(<<>>, <<>>, i - 1)] = [i \in 1..1 |-> Frames!MainFrame]
  BY <1>3, Zenon
<1>5. [i \in 1..1 |-> Frames!MainFrame] = <<Frames!MainFrame>>
  OBVIOUS
<1> QED BY <1>2, <1>4, <1>5

(* z_restart empties the array.                                            *)
LEMMA RestartRefines ==
  ASSUME IInv, IInv', ~Unwinding, ~Unwinding', Restart
  PROVE  Frames!Restart
<1>1. /\ mode = "fetch" /\ stack' = <<>> /\ frames' = <<>> /\ pc' = START_PC /\ calls' = calls
  BY DEF Restart, Fetch
<1>2. FramesOnStack' = Views(frames', stack')
  BY HistoryStep
<1>3. FramesOnStack' = <<Frames!MainFrame>>
  BY <1>1, <1>2, EmptyViews, Zenon
<1> QED BY <1>1, <1>3, Zenon DEF Frames!Restart
-----------------------------------------------------------------------------
(* A step of ZStack is a step of ZFrames or leaves it where it is.         *)
Simulates == Frames!Next \/ UNCHANGED Frames!vars

LEMMA NotUnwinding == ASSUME EndOpcode PROVE ~Unwinding'
<1>1. mode' = "fetch" \/ mode' = "leave"
  BY DEF EndOpcode
<1> QED BY <1>1 DEF Unwinding

LEMMA WorkSimulates ==
  ASSUME IInv, IInv', mode \in {"fetch", "opcode"}, ~Unwinding',
         frames' = frames, calls' = calls, \A j \in 1..fp : stack'[j] = stack[j]
  PROVE  Simulates
<1>1. ~Unwinding
  BY DEF Unwinding
<1>2. Frames!Work
  BY <1>1, WorkRefines
<1> QED BY <1>2, Zenon DEF Frames!Next, Simulates

LEMMA WriteSimulates ==
  ASSUME IInv, IInv', mode \in {"fetch", "opcode"}, ~Unwinding',
         frames' = frames, calls' = calls, WritesAbove(stack')
  PROVE  Simulates
<1>1. \A j \in 1..fp : stack'[j] = stack[j]
  BY Zenon DEF WritesAbove
<1> QED BY <1>1, WorkSimulates

LEMMA RetSimulates ==
  ASSUME IInv, IInv', FinishedOK, mode \in {"fetch", "unwind"},
         NEW h, Witness(h), NEW value \in Nat, NEW variable, Ret(value, variable)
  PROVE  Simulates
<1>1. EndOpcode
  BY DEF Ret
<1>2. ~Unwinding'
  BY <1>1, NotUnwinding
<1>3. \E k \in 2..Len(FramesOnStack) : Frames!ReturnFrom(k)
  BY <1>2, RetRefines
<1> QED BY <1>3, Zenon DEF Frames!Next, Simulates

LEMMA CallRoutineSimulates ==
  ASSUME IInv, IInv', NEW routine \in ROUTINES, NEW count \in 0..MaxLocals,
         NEW ct \in {0, 1}, NEW argc \in 0..MaxArgs, NEW args \in [1..argc -> Word],
         CallRoutine(routine, count, args, ct)
  PROVE  Simulates
<1>1. /\ Call(routine, count, args, ct) /\ calls' = calls /\ EndOpcode /\ mode = "fetch"
  BY DEF CallRoutine, Fetch
<1>2. ArgsOK(args) /\ routine \in Nat /\ ct \in 0..2 /\ ct # 2
  BY ArgumentsFacts, StackAssumption
<1>3. ~Unwinding /\ ~Unwinding'
  BY <1>1, NotUnwinding DEF Unwinding
<1>4. /\ mode \in {"fetch", "opcode"} /\ (ct = 2 <=> mode = "opcode")
      /\ Len(calls') = IF ct = 2 THEN Len(calls) + 1 ELSE Len(calls)
  BY <1>1, <1>2
<1>5. Frames!Call
  BY <1>1, <1>2, <1>3, <1>4, CallRefines, Zenon
<1> QED BY <1>5, Zenon DEF Frames!Next, Simulates

LEMMA DirectCallSimulates ==
  ASSUME IInv, IInv', NEW routine \in ROUTINES, NEW count \in 0..MaxLocals,
         DirectCall(routine, count)
  PROVE  Simulates
<1>1. PICK saved : saved = [zargs |-> zargs, stack |-> stack, fp |-> fp,
                            frame_count |-> frame_count, pc |-> pc]
  OBVIOUS
<1>2. /\ Call(routine, count, <<>>, 2) /\ calls' = Append(calls, saved)
      /\ mode = "opcode" /\ mode' = "fetch"
  BY <1>1, Zenon DEF DirectCall
<1>3. ArgsOK(<<>>) /\ routine \in Nat /\ 2 \in 0..2
  BY StackAssumption DEF ArgsOK
<1>4. ~Unwinding /\ ~Unwinding'
  BY <1>2 DEF Unwinding
<1>5. Len(calls') = Len(calls) + 1
  <2>2. calls \in Seq(CallRecord)
    BY StackFacts, Zenon DEF TypeOK
  <2>3. saved \in CallRecord
    <3>1. pc \in Nat /\ zargs \in Nat
      BY StackFacts, Zenon DEF TypeOK
    <3> QED BY <1>1, <3>1, StackFacts, Zenon DEF CallRecord
  <2> QED BY <1>2, <2>2, <2>3, AppendFacts
<1>6. /\ mode \in {"fetch", "opcode"} /\ (2 = 2 <=> mode = "opcode")
      /\ Len(calls') = IF 2 = 2 THEN Len(calls) + 1 ELSE Len(calls)
  BY <1>2, <1>5
<1>7. Frames!Call
  BY <1>2, <1>3, <1>4, <1>6, CallRefines, Zenon
<1> QED BY <1>7, Zenon DEF Frames!Next, Simulates

(* A step that leaves the frames, the loops and the phase as they are.     *)
LEMMA NothingSimulates ==
  ASSUME NEW h, Reads(h), stack' = stack, Depth' = Depth, TopFrame' = TopFrame,
         pc' = pc, calls' = calls,
         (IF Unwinding THEN "fetch" ELSE mode)' = (IF Unwinding THEN "fetch" ELSE mode)
  PROVE  Simulates /\ Reads(h)'
<1>1. Reads(h)' /\ FramesOnStack' = FramesOnStack
  BY KeepsReading
<1>2. UNCHANGED Frames!vars
  BY <1>1, Zenon DEF Frames!vars
<1> QED BY <1>1, <1>2, Zenon DEF Simulates

(* z_throw starts: the story file still has all its frames.                *)
LEMMA ThrowSimulates ==
  ASSUME IInv, NEW n, NEW value, Throw(value, n)
  PROVE  Simulates /\ Witness(frames)'
<1>1. /\ mode = "fetch" /\ mode' = "unwind" /\ stack' = stack /\ pc' = pc /\ calls' = calls
      /\ frame_count' = frame_count /\ frames' = frames
      /\ throw' = [to |-> n, value |-> value, fp |-> fp, frame_count |-> frame_count]
  BY DEF Throw, Fetch
<1>2. ~Unwinding /\ Unwinding'
  BY <1>1 DEF Unwinding
<1>3. throw'.fp = fp /\ throw'.frame_count = frame_count
  BY <1>1
<1>4. Depth' = Depth /\ TopFrame' = TopFrame
  BY <1>2, <1>3 DEF Depth, TopFrame
<1>5. (IF Unwinding THEN "fetch" ELSE mode)' = (IF Unwinding THEN "fetch" ELSE mode)
  BY <1>1, <1>2
<1>6. PICK h : h = frames
  OBVIOUS
<1>7. Witness(h) /\ Reads(h)
  BY <1>2, <1>6, HistoryWitness, Zenon DEF Witness
<1>8. Simulates /\ Reads(h)'
  BY <1>1, <1>4, <1>5, <1>7, NothingSimulates, Zenon
<1>9. Reads(frames)'
  BY <1>1, <1>6, <1>8, Zenon DEF Reads, Holds
<1>10. frame_count' <= Len(frames')
  BY <1>1, <1>6, <1>7, Zenon DEF Witness
<1> QED BY <1>2, <1>8, <1>9, <1>10, Zenon DEF Witness

(* A turn of its loop: they are those of the witness.                      *)
LEMMA UnwindSimulates ==
  ASSUME IInv, NEW h, Witness(h), Unwind
  PROVE  Simulates /\ Witness(h)'
<1>1. /\ mode' = mode /\ stack' = stack /\ pc' = pc /\ calls' = calls /\ throw' = throw
      /\ frame_count' = frame_count - 1 /\ frames' = Pop(frames)
      /\ mode = "unwind" /\ frame_count > throw.to
  BY DEF Unwind
<1>2. Unwinding /\ Unwinding'
  BY <1>1 DEF Unwinding
<1>3. Depth' = Depth /\ TopFrame' = TopFrame
  BY <1>1, <1>2 DEF Depth, TopFrame
<1>4. (IF Unwinding THEN "fetch" ELSE mode)' = (IF Unwinding THEN "fetch" ELSE mode)
  BY <1>1, <1>2
<1>5. Reads(h) /\ frame_count <= Len(h) /\ \A j \in 1..frame_count : frames[j] = h[j]
  BY Zenon DEF Witness
<1>6. Simulates /\ Reads(h)'
  BY <1>1, <1>3, <1>4, <1>5, NothingSimulates, Zenon
<1>7. PICK m \in Nat : m = frame_count /\ Len(frames) = m /\ m > 0
  <2>1. frame_count \in Nat /\ Len(frames) = frame_count
    BY StackFacts, Zenon DEF FrameIntegrity
  <2>2. throw.to \in Nat
    BY ControlFacts DEF ControlOK
  <2>3. frame_count > 0
    BY <1>1, <2>1, <2>2
  <2> QED BY <2>1, <2>3
<1>8. \A j \in 1..(m - 1) : frames'[j] = frames[j] /\ j \in 1..m
  <2>1. frames \in Seq(FrameRecord)
    BY StackFacts, Zenon DEF TypeOK
  <2>2. \A j \in 1..(Len(frames) - 1) : Pop(frames)[j] = frames[j]
    BY <1>7, <2>1, PopFacts
  <2>3. \A j \in 1..(m - 1) : j \in 1..m
    BY <1>7
  <2> QED BY <1>1, <1>7, <2>2, <2>3, Zenon
<1>9. Len(h) \in Nat
  BY <1>5, ViewsFacts, Zenon DEF Reads
<1>10. m - 1 <= Len(h)
  BY <1>5, <1>7, <1>9
<1>11. frame_count' = m - 1
  BY <1>1, <1>7
<1>12. \A j \in 1..frame_count' : frames'[j] = h[j]
  BY <1>5, <1>7, <1>8, <1>11, Zenon
<1>13. frame_count' <= Len(h)
  BY <1>10, <1>11, Zenon
<1> QED BY <1>2, <1>6, <1>12, <1>13, Zenon DEF Witness

LEMMA StutterSimulates ==
  ASSUME NEW h, Witness(h), UNCHANGED vars
  PROVE  Simulates /\ Witness(h)'
<1>1. /\ mode' = mode /\ stack' = stack /\ pc' = pc /\ calls' = calls /\ throw' = throw
      /\ frame_count' = frame_count /\ frames' = frames /\ fp' = fp
  BY DEF vars
<1>2. Unwinding' = Unwinding
  BY <1>1 DEF Unwinding
<1>3. Depth' = Depth /\ TopFrame' = TopFrame
  BY <1>1, <1>2, Zenon DEF Depth, TopFrame
<1>4. (IF Unwinding THEN "fetch" ELSE mode)' = (IF Unwinding THEN "fetch" ELSE mode)
  BY <1>1, <1>2, Zenon
<1>5. Reads(h)
  BY Zenon DEF Witness
<1>6. Simulates /\ Reads(h)'
  BY <1>1, <1>3, <1>4, <1>5, NothingSimulates, Zenon
<1> QED BY <1>1, <1>2, <1>6, Zenon DEF Witness

LEMMA OverrunSimulates ==
  ASSUME IInv, Overrun
  PROVE  Simulates
<1>1. /\ mode \in {"fetch", "opcode"} /\ mode' = "overrun" /\ pc' = pc /\ calls' = calls
      /\ UNCHANGED <<stack, fp, frame_count, frames>>
  BY DEF Overrun
<1>2. ~Unwinding /\ ~Unwinding'
  BY <1>1 DEF Unwinding
<1>3. FramesOnStack' = FramesOnStack
  BY <1>1, <1>2, StaysOnStack
<1>4. /\ (IF Unwinding THEN "fetch" ELSE mode) \in {"fetch", "opcode"}
      /\ (IF Unwinding' THEN "fetch" ELSE mode') = "overrun"
  BY <1>1, <1>2
<1>5. Frames!Overrun
  BY <1>1, <1>3, <1>4, Zenon DEF Frames!Overrun, Frames!Running
<1> QED BY <1>5, Zenon DEF Frames!Next, Simulates

(* Every step of the interpreter is a step of the frames.                  *)
LEMMA StepSimulates ==
  ASSUME IInv, IInv', FinishedOK, NEW h, Witness(h), Next
  PROVE  Simulates
<1>0. Word \subseteq Nat /\ PC \subseteq Nat
  BY StackAssumption
<1>1. ASSUME NEW target \in PC, Compute(target) PROVE Simulates
  <2>1. /\ mode = "fetch" /\ EndOpcode /\ frames' = frames /\ calls' = calls /\ stack' = stack
    BY <1>1 DEF Compute, Fetch
  <2>2. mode \in {"fetch", "opcode"} /\ ~Unwinding' /\ \A j \in 1..fp : stack'[j] = stack[j]
    BY <2>1, NotUnwinding
  <2> QED BY <2>1, <2>2, WorkSimulates
<1>2. ASSUME NEW operand \in Word, BeginOpcode(operand) PROVE Simulates
  <2>1. /\ mode = "fetch" /\ mode' = "opcode" /\ frames' = frames /\ calls' = calls
        /\ stack' = stack
    BY <1>2 DEF BeginOpcode, Fetch
  <2>2. mode \in {"fetch", "opcode"} /\ ~Unwinding' /\ \A j \in 1..fp : stack'[j] = stack[j]
    BY <2>1 DEF Unwinding
  <2> QED BY <2>1, <2>2, WorkSimulates
<1>3. ASSUME Quit PROVE Simulates
  <2>1. /\ mode = "fetch" /\ EndOpcode /\ frames' = frames /\ calls' = calls /\ stack' = stack
    BY <1>3 DEF Quit, Fetch
  <2>2. mode \in {"fetch", "opcode"} /\ ~Unwinding' /\ \A j \in 1..fp : stack'[j] = stack[j]
    BY <2>1, NotUnwinding
  <2> QED BY <2>1, <2>2, WorkSimulates
<1>4. ASSUME NEW variable, NEW value \in Nat, StoreResult(variable, value) PROVE Simulates
  <2>1. /\ mode = "fetch" /\ EndOpcode /\ frames' = frames /\ calls' = calls
    BY <1>4 DEF StoreResult, Fetch
  <2>2. WritesAbove(stack')
    BY <1>4, StoreResultStep
  <2>3. mode \in {"fetch", "opcode"} /\ ~Unwinding'
    BY <2>1, NotUnwinding
  <2> QED BY <2>1, <2>2, <2>3, WriteSimulates
<1>5. ASSUME NEW variable, NEW value \in Nat, WriteVariable(variable, value) PROVE Simulates
  <2>1. /\ mode = "fetch" /\ EndOpcode /\ frames' = frames /\ calls' = calls
    BY <1>5 DEF WriteVariable, Fetch
  <2>2. WritesAbove(stack')
    BY <1>5, WriteVariableStep
  <2>3. mode \in {"fetch", "opcode"} /\ ~Unwinding'
    BY <2>1, NotUnwinding
  <2> QED BY <2>1, <2>2, <2>3, WriteSimulates
<1>6. ASSUME PopOperand PROVE Simulates
  <2>1. /\ mode = "fetch" /\ EndOpcode /\ frames' = frames /\ calls' = calls
    BY <1>6 DEF PopOperand, Fetch
  <2>2. WritesAbove(stack')
    BY <1>6, PopOperandStep
  <2>3. mode \in {"fetch", "opcode"} /\ ~Unwinding'
    BY <2>1, NotUnwinding
  <2> QED BY <2>1, <2>2, <2>3, WriteSimulates
<1>7. ASSUME NEW variable, Pull(variable) PROVE Simulates
  <2>1. /\ mode = "fetch" /\ EndOpcode /\ frames' = frames /\ calls' = calls
    BY <1>7 DEF Pull, Fetch
  <2>2. WritesAbove(stack')
    BY <1>7, PullStep
  <2>3. mode \in {"fetch", "opcode"} /\ ~Unwinding'
    BY <2>1, NotUnwinding
  <2> QED BY <2>1, <2>2, <2>3, WriteSimulates
<1>8. ASSUME NEW variable, NEW value \in Nat, FinishOpcode(variable, value) PROVE Simulates
  <2>1. /\ mode = "opcode" /\ EndOpcode /\ frames' = frames /\ calls' = calls
    BY <1>8 DEF FinishOpcode
  <2>2. WritesAbove(stack')
    BY <1>8, FinishOpcodeStep
  <2>3. mode \in {"fetch", "opcode"} /\ ~Unwinding'
    BY <2>1, NotUnwinding
  <2> QED BY <2>1, <2>2, <2>3, WriteSimulates
<1>9. ASSUME NEW variable, Catch(variable) PROVE Simulates
  <2>1. frame_count \in Nat
    BY StackFacts
  <2> QED BY <1>4, <1>9, <2>1 DEF Catch
<1>10. ASSUME NEW value \in Nat, NEW variable, Return(value, variable) PROVE Simulates
  <2>1. mode \in {"fetch", "unwind"} /\ Ret(value, variable)
    BY <1>10 DEF Return, Fetch
  <2> QED BY <2>1, RetSimulates
<1>11. ASSUME NEW variable, ReturnPopped(variable) PROVE Simulates
  <2>1. HasOperand /\ Return(stack[Len(stack)], variable)
    BY <1>11 DEF ReturnPopped
  <2>2. stack[Len(stack)] \in Nat
    BY <2>1, OperandFacts
  <2> QED BY <1>10, <2>1, <2>2
<1>12. ASSUME NEW variable, EndThrow(variable) PROVE Simulates
  <2>1. mode \in {"fetch", "unwind"} /\ Ret(throw.value, variable)
    BY <1>12 DEF EndThrow
  <2>2. throw.value \in Nat
    BY ControlFacts DEF ControlOK
  <2> QED BY <2>1, <2>2, RetSimulates
<1>13. ASSUME Leave PROVE Simulates
  BY <1>13, LeaveRefines, Zenon DEF Frames!Next, Simulates
<1>14. ASSUME Restart PROVE Simulates
  <2>1. mode = "fetch" /\ EndOpcode
    BY <1>14 DEF Restart, Fetch
  <2>2. ~Unwinding /\ ~Unwinding'
    BY <2>1, NotUnwinding DEF Unwinding
  <2>3. Frames!Restart
    BY <1>14, <2>2, RestartRefines
  <2> QED BY <2>3, Zenon DEF Frames!Next, Simulates
<1>15. CASE Opcode
  <2>1. ASSUME NEW variable \in 0..Global, NEW value \in Word,
               \/ StoreResult(variable, value)
               \/ WriteVariable(variable, value)
               \/ Return(value, variable)
        PROVE  Simulates
    BY <1>0, <2>1, <1>4, <1>5, <1>10
  <2>2. ASSUME NEW variable \in 0..Global,
               Pull(variable) \/ Catch(variable) \/ ReturnPopped(variable)
        PROVE  Simulates
    BY <2>2, <1>7, <1>9, <1>11
  <2>3. ASSUME NEW n \in 1..(frame_count + 1), NEW value \in Word, Throw(value, n)
        PROVE  Simulates
    BY <2>3, ThrowSimulates
  <2>4. ASSUME Unwind PROVE Simulates
    BY <2>4, UnwindSimulates
  <2>5. ASSUME NEW routine \in ROUTINES, NEW count \in 0..MaxLocals, NEW ct \in {0, 1},
               NEW argc \in 0..MaxArgs, NEW args \in [1..argc -> Word],
               CallRoutine(routine, count, args, ct)
        PROVE  Simulates
    BY <2>5, CallRoutineSimulates
  <2> QED BY <1>1, <1>2, <1>3, <1>6, <1>12, <1>14, <1>15, <2>1, <2>2, <2>3, <2>4, <2>5,
             Zenon DEF Opcode
<1>16. CASE Interrupt
  <2>1. ASSUME NEW routine \in ROUTINES, NEW count \in 0..MaxLocals,
               DirectCall(routine, count)
        PROVE  Simulates
    BY <2>1, DirectCallSimulates
  <2>2. ASSUME NEW variable \in 0..Global, NEW value \in Word, FinishOpcode(variable, value)
        PROVE  Simulates
    BY <1>0, <1>8, <2>2
  <2> QED BY <1>13, <1>16, <2>1, <2>2, Zenon DEF Interrupt
<1> QED BY <1>15, <1>16, OverrunSimulates, Zenon DEF Next
-----------------------------------------------------------------------------
(* The loops that are still to be left never become negative.              *)
LEMMA EndFinished == ASSUME EndOpcode, finished' \in Nat PROVE FinishedOK'
BY DEF EndOpcode, FinishedOK

LEMMA RetFinished ==
  ASSUME FinishedOK, NEW value, NEW variable, Ret(value, variable)
  PROVE  FinishedOK'
<1>1. finished' = NextFinished(CallType(stack, fp)) /\ EndOpcode
  BY DEF Ret
<1>2. finished' \in Nat
  BY <1>1 DEF NextFinished, FinishedOK
<1> QED BY <1>1, <1>2, EndFinished

LEMMA LoopsFinished ==
  ASSUME FinishedOK, [Next]_vars
  PROVE  FinishedOK'
<1>1. finished \in Nat
  BY DEF FinishedOK
<1>2. ASSUME EndOpcode, finished' = finished PROVE FinishedOK'
  BY <1>1, <1>2, EndFinished
<1>3. ASSUME finished' = finished, mode' # "leave" PROVE FinishedOK'
  BY <1>1, <1>3 DEF FinishedOK
<1>4. ASSUME Quit PROVE FinishedOK'
  <2>1. finished' = 9999 /\ EndOpcode
    BY <1>4 DEF Quit, QUIT
  <2> QED BY <2>1, EndFinished
<1>5. ASSUME Leave PROVE FinishedOK'
  <2>1. mode = "leave" /\ finished' = finished - 1 /\ mode' # "leave"
    BY <1>5 DEF Leave
  <2>2. finished' \in Nat
    BY <2>1 DEF FinishedOK
  <2> QED BY <2>1, <2>2 DEF FinishedOK
<1>6. ASSUME Unwind PROVE FinishedOK'
  BY <1>3, <1>6 DEF Unwind
<1>7. ASSUME Restart PROVE FinishedOK'
  BY <1>2, <1>7 DEF Restart
<1>8. ASSUME PopOperand PROVE FinishedOK'
  BY <1>2, <1>8 DEF PopOperand
<1>9. CASE Opcode
  <2>1. ASSUME NEW variable \in 0..Global, NEW value \in Word,
               \/ StoreResult(variable, value)
               \/ WriteVariable(variable, value)
               \/ Return(value, variable)
        PROVE  FinishedOK'
    BY <2>1, <1>2, RetFinished DEF StoreResult, WriteVariable, Return
  <2>2. ASSUME NEW variable \in 0..Global,
               Pull(variable) \/ Catch(variable) \/ ReturnPopped(variable)
        PROVE  FinishedOK'
    BY <2>2, <1>2, RetFinished DEF Pull, Catch, StoreResult, ReturnPopped, Return
  <2>3. ASSUME NEW n \in 1..(frame_count + 1), NEW value \in Word, Throw(value, n)
        PROVE  FinishedOK'
    BY <1>3, <2>3 DEF Throw
  <2>4. ASSUME NEW target \in PC, Compute(target) PROVE FinishedOK'
    BY <1>2, <2>4 DEF Compute
  <2>5. ASSUME NEW routine \in ROUTINES, NEW count \in 0..MaxLocals, NEW ct \in {0, 1},
               NEW argc \in 0..MaxArgs, NEW args \in [1..argc -> Word],
               CallRoutine(routine, count, args, ct)
        PROVE  FinishedOK'
    BY <1>2, <2>5 DEF CallRoutine
  <2>6. ASSUME NEW variable \in 0..Global, EndThrow(variable) PROVE FinishedOK'
    BY <2>6, RetFinished DEF EndThrow
  <2>7. ASSUME NEW operand \in Word, BeginOpcode(operand) PROVE FinishedOK'
    BY <1>3, <2>7 DEF BeginOpcode
  <2> QED BY <1>4, <1>6, <1>7, <1>8, <1>9, <2>1, <2>2, <2>3, <2>4, <2>5, <2>6, <2>7,
             Zenon DEF Opcode
<1>10. CASE Interrupt
  <2>1. ASSUME NEW routine \in ROUTINES, NEW count \in 0..MaxLocals,
               DirectCall(routine, count)
        PROVE  FinishedOK'
    BY <1>3, <2>1 DEF DirectCall
  <2>2. ASSUME NEW variable \in 0..Global, NEW value \in Word, FinishOpcode(variable, value)
        PROVE  FinishedOK'
    BY <1>2, <2>2 DEF FinishOpcode
  <2> QED BY <1>5, <1>10, <2>1, <2>2, Zenon DEF Interrupt
<1>11. CASE Overrun
  BY <1>3, <1>11 DEF Overrun
<1>12. CASE UNCHANGED vars
  BY <1>12 DEF vars, FinishedOK
<1> QED BY <1>9, <1>10, <1>11, <1>12, Zenon DEF Next

(* Only z_throw unwinds.                                                   *)
LEMMA OnlyThrowUnwinds ==
  ASSUME Next, Unwinding'
  PROVE  Unwind \/ \E n, value : Throw(value, n)
<1>1. ~EndOpcode
  BY NotUnwinding
<1>2. mode' = "unwind"
  BY DEF Unwinding
<1>3. ASSUME NEW variable, NEW value, Ret(value, variable) PROVE FALSE
  BY <1>1, <1>3 DEF Ret
<1>4. CASE Opcode
  <2>1. ASSUME NEW variable \in 0..Global, NEW value \in Word,
               \/ StoreResult(variable, value)
               \/ WriteVariable(variable, value)
               \/ Return(value, variable)
        PROVE  FALSE
    BY <2>1, <1>1, <1>3 DEF StoreResult, WriteVariable, Return
  <2>2. ASSUME NEW variable \in 0..Global,
               Pull(variable) \/ Catch(variable) \/ ReturnPopped(variable)
        PROVE  FALSE
    BY <2>2, <1>1, <1>3 DEF Pull, Catch, StoreResult, ReturnPopped, Return
  <2>3. ASSUME NEW target \in PC, Compute(target) PROVE FALSE
    BY <1>1, <2>3 DEF Compute
  <2>4. ASSUME NEW routine \in ROUTINES, NEW count \in 0..MaxLocals, NEW ct \in {0, 1},
               NEW argc \in 0..MaxArgs, NEW args \in [1..argc -> Word],
               CallRoutine(routine, count, args, ct)
        PROVE  FALSE
    BY <1>1, <2>4 DEF CallRoutine
  <2>5. ASSUME NEW variable \in 0..Global, EndThrow(variable) PROVE FALSE
    BY <1>3, <2>5 DEF EndThrow
  <2>6. ASSUME NEW operand \in Word, BeginOpcode(operand) PROVE FALSE
    BY <1>2, <2>6 DEF BeginOpcode
  <2>7. ASSUME PopOperand \/ Quit \/ Restart PROVE FALSE
    BY <1>1, <2>7 DEF PopOperand, Quit, Restart
  <2> QED BY <1>4, <2>1, <2>2, <2>3, <2>4, <2>5, <2>6, <2>7, Zenon DEF Opcode
<1>5. CASE Interrupt
  <2>1. ASSUME NEW routine \in ROUTINES, NEW count \in 0..MaxLocals,
               DirectCall(routine, count)
        PROVE  FALSE
    BY <1>2, <2>1 DEF DirectCall
  <2>2. ASSUME NEW variable \in 0..Global, NEW value \in Word, FinishOpcode(variable, value)
        PROVE  FALSE
    BY <1>1, <2>2 DEF FinishOpcode
  <2>3. ASSUME Leave PROVE FALSE
    BY <1>2, <2>3 DEF Leave
  <2> QED BY <1>5, <2>1, <2>2, <2>3, Zenon DEF Interrupt
<1>6. CASE Overrun
  BY <1>2, <1>6 DEF Overrun
<1> QED BY <1>4, <1>5, <1>6, Zenon DEF Next

(* There is a witness after every step.                                    *)
LEMMA WitnessExists == IInv /\ ~Unwinding => HasWitness
BY HistoryWitness, Zenon DEF HasWitness

LEMMA WitnessStep ==
  ASSUME IInv, IInv', NEW h, Witness(h), [Next]_vars
  PROVE  HasWitness'
<1>1. CASE ~Unwinding'
  <2>1. (IInv /\ ~Unwinding => HasWitness)'
    BY WitnessExists, PTL
  <2> QED BY <1>1, <2>1
<1>2. CASE Unwinding' /\ Next
  <2>1. Unwind \/ \E n, value : Throw(value, n)
    BY <1>2, OnlyThrowUnwinds
  <2>2. CASE Unwind
    <3>1. Witness(h)'
      BY <2>2, UnwindSimulates
    <3> QED BY <3>1, Zenon DEF HasWitness
  <2>3. CASE \E n, value : Throw(value, n)
    <3>1. PICK n, value : Throw(value, n)
      BY <2>3
    <3>2. Witness(frames)'
      BY <3>1, ThrowSimulates
    <3>3. PICK g : g = frames'
      OBVIOUS
    <3>4. Witness(g)'
      BY <3>2, <3>3, Zenon DEF Witness, Reads, Holds
    <3> QED BY <3>4, Zenon DEF HasWitness
  <2> QED BY <2>1, <2>2, <2>3
<1>3. CASE UNCHANGED vars
  <2>1. Witness(h)'
    BY <1>3, StutterSimulates
  <2> QED BY <2>1, Zenon DEF HasWitness
<1> QED BY <1>1, <1>2, <1>3

(* The frames of the array start as the main routine's alone.              *)
LEMMA InitSimulates == ASSUME Init PROVE RInv /\ Frames!Init
<1>1. /\ IInv /\ finished = 0 /\ mode = "fetch" /\ stack = <<>> /\ frames = <<>>
      /\ calls = <<>> /\ pc = START_PC
  BY InitOK DEF Init
<1>2. ~Unwinding
  BY <1>1 DEF Unwinding
<1>3. HasWitness
  BY <1>1, <1>2, WitnessExists, Zenon
<1>4. FinishedOK
  BY <1>1 DEF FinishedOK
<1>5. FramesOnStack = <<Frames!MainFrame>>
  <2>1. Reads(frames)
    BY <1>1, <1>2, HistoryReads, Zenon
  <2>2. PICK h : h = frames
    OBVIOUS
  <2>3. FramesOnStack = Views(h, stack)
    BY <2>1, <2>2, FramesAreViews, Zenon
  <2> QED BY <1>1, <2>2, <2>3, EmptyViews, Zenon
<1>6. Len(calls) = 0 /\ (IF Unwinding THEN "fetch" ELSE mode) = "fetch"
  BY <1>1
<1>7. Frames!Init
  BY <1>1, <1>5, <1>6, Zenon DEF Frames!Init
<1> QED BY <1>1, <1>3, <1>4, <1>7, Zenon DEF RInv

LEMMA StepRefines == ASSUME RInv, [Next]_vars PROVE RInv' /\ Simulates
<1>1. IInv /\ FinishedOK
  BY Zenon DEF RInv
<1>2. PICK h : Witness(h)
  BY Zenon DEF RInv, HasWitness
<1>3. IInv'
  BY <1>1, StepOK
<1>4. FinishedOK'
  BY <1>1, LoopsFinished
<1>5. HasWitness'
  BY <1>1, <1>2, <1>3, WitnessStep
<1>6. Simulates
  <2>1. CASE Next
    BY <1>1, <1>2, <1>3, <2>1, StepSimulates
  <2>2. CASE UNCHANGED vars
    BY <1>2, <2>2, StutterSimulates
  <2> QED BY <2>1, <2>2
<1> QED BY <1>3, <1>4, <1>5, <1>6, Zenon DEF RInv

(* The array of zwords with sp and fp behaves as frames of their own: a    *)
(* callee never touches its callers' locals and evaluation stacks, a       *)
(* return or a throw resumes the caller with its stack as it left it, and  *)
(* leaving a loop of interpret() pops one result.  For every array size,   *)
(* every story file and every way an interrupt routine may end.            *)
THEOREM FramesImplemented == Spec => ImplementsFrames
<1>1. Init => RInv /\ Frames!Init
  BY InitSimulates
<1>2. RInv /\ [Next]_vars => RInv' /\ Simulates
  BY StepRefines
<1>3. Simulates => [Frames!Next]_(Frames!vars)
  BY Zenon DEF Simulates
<1> QED BY <1>1, <1>2, <1>3, PTL DEF Spec, ImplementsFrames, Frames!Spec
=============================================================================
