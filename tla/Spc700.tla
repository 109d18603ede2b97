------------------------------- MODULE Spc700 -------------------------------
(***************************************************************************)
(* The instruction handlers of class Spc700 (core/src/audio/Spc700.cpp) as *)
(* the bus cycles they make, and ExecuteInstructions and StepCycle, which  *)
(* make one of them at a time.  A cycle the bus stretches (ExecuteBusCycle *)
(* returns false) stays pending: a stuttering step.                        *)
(*                                                                         *)
(* Addresses are bytes and words of a small size and formed as the code    *)
(* forms them.  What a read delivers is any byte: most of the handlers can *)
(* be pointed at a timer, a port or the DSP.  A, the results and the flags *)
(* other than P are in Spc700Alu; the program counter is left out.         *)
(***************************************************************************)
EXTENDS Integers, Sequences

Seqs == INSTANCE SequencesExt

CONSTANTS
  ByteSize,  \* 256
  BitSpace   \* $2000: what a bit instruction addresses

\* What the constants are to satisfy.
ASSUME Spc700Assumption ==
  /\ ByteSize \in Nat \ {0, 1}
  /\ BitSpace \in 1 .. ByteSize * ByteSize

VARIABLES
  reg,      \* x, y, s, the P flag, wait or stop
  instr,    \* the instruction in progress
  todo,     \* its cycles still to come: the first is pendingCycle_
  operands, \* the operand bytes it has fetched, the last two of them
  loaded,   \* the bytes it has read for a pointer, the last two of them
  trace,    \* history: its data and stack accesses
  frame     \* history: what a call or BRK has pushed, until it is followed by another
             \* instruction than a return

spcVars == <<reg, instr, todo, operands, loaded, trace, frame>>

Bytes == 0 .. ByteSize - 1

RegisterSets == [x : Bytes, y : Bytes, s : Bytes, p : BOOLEAN, halted : BOOLEAN]

-----------------------------------------------------------------------------
(***************************************************************************)
(* Bus cycles: what they do, and the place they do it at.                  *)
(***************************************************************************)
F == [does |-> "fetch", at |-> "pc"]
I == [does |-> "idle", at |-> "none"]
R(at) == [does |-> "read", at |-> at]
W(at) == [does |-> "write", at |-> at]
Push(what) == [does |-> "push", at |-> what]
Pull(what) == [does |-> "pull", at |-> what]

PushPC == <<Push("pcHigh"), Push("pcLow")>>
PullPC == <<Pull("pcLow"), Pull("pcHigh")>>

Index == IF instr.index = "none" THEN 0 ELSE reg[instr.index]

Last(s) == s[Len(s)]

Word(bytes) == Last(bytes) * ByteSize + bytes[1]

\* Load and Store.
Direct(byte) == (IF reg.p THEN ByteSize ELSE 0) + (byte % ByteSize)

Absolute(word) == word % (ByteSize * ByteSize)

StackCell(s) == ByteSize + s

CellOf(at) ==
  IF at = "dp" THEN Direct(Last(operands))
  ELSE IF at = "dp+1" THEN Direct(Last(operands) + 1)
  ELSE IF at = "dp+i" THEN Direct(Last(operands) + Index)
  ELSE IF at = "dp+i+1" THEN Direct(Last(operands) + Index + 1)
  ELSE IF at = "x" THEN Direct(reg.x)
  ELSE IF at = "y" THEN Direct(reg.y)
  ELSE IF at = "abs" THEN Absolute(Word(operands))
  ELSE IF at = "abs+i" THEN Absolute(Word(operands) + Index)
  ELSE IF at = "abs+i+1" THEN Absolute(Word(operands) + Index + 1)
  ELSE IF at = "bit" THEN Word(operands) % BitSpace
  ELSE IF at = "ptr" THEN Absolute(Word(loaded))
  ELSE IF at = "ptr+i" THEN Absolute(Word(loaded) + Index)
  ELSE -1 \* a vector, which no property looks at

-----------------------------------------------------------------------------
(***************************************************************************)
(* The handlers: one operand.  They read it, and unless they only read,    *)
(* write to where they have read.                                          *)
(***************************************************************************)
At(place, does) == <<R(place)>> \o (IF does = "read" THEN <<>> ELSE <<W(place)>>)

\* Mutant: a write to dp+X forgets the index.
DirectFormsUnindexed(does) ==
  [immediate     |-> <<F>>,
   direct        |-> <<F>> \o At("dp", does),
   directIndexed |-> <<F, I, R("dp+i")>> \o (IF does = "read" THEN <<>> ELSE <<W("dp")>>)]

DirectForms(does) ==
  [immediate     |-> <<F>>,
   direct        |-> <<F>> \o At("dp", does),
   directIndexed |-> <<F, I>> \o At("dp+i", does)]

AbsoluteForms(does) ==
  [absolute        |-> <<F, F>> \o At("abs", does),
   absoluteIndexed |-> <<F, F, I>> \o At("abs+i", does)]

IndirectForms(does) ==
  [indexedIndirect |-> <<F, I, R("dp+i"), R("dp+i+1")>> \o At("ptr", does),
   indirectIndexed |-> <<F, R("dp"), R("dp+1"), I>> \o At("ptr+i", does),
   indirectX       |-> <<I>> \o At("x", does)]

\* MOV A,(X)+ and MOV (X)+,A.
IncrementForms(does) == IF does = "read" THEN <<I, R("x")>> ELSE <<I, I, W("x")>>

Data(o) ==
  IF o.mode \in DOMAIN DirectForms("read") THEN DirectForms(o.does)[o.mode]
  ELSE IF o.mode \in DOMAIN AbsoluteForms("read") THEN AbsoluteForms(o.does)[o.mode]
  ELSE IF o.mode \in DOMAIN IndirectForms("read") THEN IndirectForms(o.does)[o.mode]
  ELSE IncrementForms(o.does)

(***************************************************************************)
(* Two operands, words and bits.                                           *)
(***************************************************************************)
TwoOperands ==
  [compareXY      |-> <<I, R("y"), R("x")>>,
   modifyXY       |-> <<I, R("y"), R("x"), W("x")>>,
   compareDirect  |-> <<F, R("dp"), F, R("dp")>>,
   modifyDirect   |-> <<F, R("dp"), F, R("dp"), W("dp")>>,
   moveDirect     |-> <<F, R("dp"), F, W("dp")>>,
   compareImmediate |-> <<F, F, R("dp")>>,
   modifyImmediate  |-> <<F, F, R("dp"), W("dp")>>,
   moveImmediate    |-> <<F, F, R("dp"), W("dp")>>]

WordOperands ==
  [compareWord |-> <<F, R("dp"), R("dp+1")>>,
   readWord    |-> <<F, R("dp"), I, R("dp+1")>>,
   modifyWord  |-> <<F, R("dp"), W("dp"), R("dp+1"), W("dp+1")>>,
   writeWord   |-> <<F, R("dp"), W("dp"), W("dp+1")>>]

Bits ==
  [orBit    |-> <<F, F, R("bit"), I>>,
   andBit   |-> <<F, F, R("bit")>>,
   eorBit   |-> <<F, F, R("bit"), I>>,
   loadBit  |-> <<F, F, R("bit")>>,
   storeBit |-> <<F, F, R("bit"), I, W("bit")>>,
   notBit   |-> <<F, F, R("bit"), W("bit")>>,
   setBit   |-> <<F, R("dp"), W("dp")>>,
   testSet  |-> <<F, F, R("abs"), R("abs"), W("abs")>>]

(***************************************************************************)
(* Control flow.  A branch is taken or not.                                *)
(***************************************************************************)
Taken(yes) == IF yes THEN <<I, I>> ELSE <<>>

Branches(yes) ==
  [branch           |-> <<F>> \o Taken(yes),
   branchBit        |-> <<F, R("dp"), I, F>> \o Taken(yes),
   branchNot        |-> <<F, R("dp"), I, F>> \o Taken(yes),
   branchNotIndexed |-> <<F, I, R("dp+i"), I, F>> \o Taken(yes),
   decrementDirect  |-> <<F, R("dp"), W("dp"), F>> \o Taken(yes),
   decrementY       |-> <<I, I, F>> \o Taken(yes)]

Calls ==
  [call  |-> <<F, F, I>> \o PushPC \o <<I, I>>,
   pcall |-> <<F, I>> \o PushPC \o <<I>>,
   tcall |-> <<I, I>> \o PushPC \o <<I, R("vector"), R("vector")>>,
   break |-> <<R("vector"), R("vector"), I>> \o PushPC \o <<Push("flags"), I>>]

Returns ==
  [return          |-> <<I, I>> \o PullPC,
   returnInterrupt |-> <<I, I, Pull("flags")>> \o PullPC]

Jumps ==
  [jump         |-> <<F, F>>,
   jumpIndirect |-> <<F, F, I, R("abs+i"), R("abs+i+1")>>]

(***************************************************************************)
(* The rest: registers, flags and the stack.                               *)
(***************************************************************************)
Idle(n) == [i \in 1 .. n |-> I]

Implied ==
  [transfer  |-> Idle(1), implied |-> Idle(1), nop |-> Idle(1),
   push      |-> <<I, I, Push("data")>>, pushFlags |-> <<I, I, Push("flags")>>,
   pull      |-> <<I, I, Pull("data")>>, pullFlags |-> <<I, I, Pull("flags")>>,
   setP      |-> Idle(2), clearP |-> Idle(2), setFlag |-> Idle(2), adjust |-> Idle(2),
   sleep     |-> Idle(2), stop |-> Idle(2), exchange |-> Idle(4),
   multiply  |-> Idle(9), divide |-> Idle(12)]

-----------------------------------------------------------------------------
(***************************************************************************)
(* The opcodes.  target: the register an instruction loads.                *)
(***************************************************************************)
Ops(does, modes, indexes, targets) ==
  [does : does, mode : modes, index : indexes, target : targets]

Indexed == {<<"x", "a">>, <<"y", "x">>, <<"x", "y">>}

LoadOps ==
  Ops({"read"}, {"immediate", "direct", "absolute"}, {"none"}, {"a", "x", "y"})
    \cup {o \in Ops({"read", "write"}, {"directIndexed"}, {"x", "y"}, {"a", "x", "y"}) :
            <<o.index, o.target>> \in Indexed}
    \cup Ops({"read", "write"}, {"absoluteIndexed"}, {"x", "y"}, {"a"})
    \cup Ops({"read", "write"}, {"indexedIndirect"}, {"x"}, {"a"})
    \cup Ops({"read", "write"}, {"indirectIndexed"}, {"y"}, {"a"})
    \cup Ops({"read", "write"}, {"indirectX", "increment"}, {"none"}, {"a"})

StoreOps ==
  Ops({"write", "modify"}, {"direct", "absolute"}, {"none"}, {"a"})
    \cup Ops({"modify"}, {"directIndexed"}, {"x"}, {"a"})

PlainOps(modes) == Ops({"other"}, modes, {"none"}, {"a"})

OtherOps ==
  PlainOps(UNION {DOMAIN TwoOperands, DOMAIN WordOperands, DOMAIN Bits, DOMAIN Calls, DOMAIN Returns,
               DOMAIN Branches(TRUE) \ {"branchNotIndexed"}, {"jump"},
               DOMAIN Implied \ {"transfer", "implied", "pull"}})
    \cup Ops({"other"}, {"branchNotIndexed", "jumpIndirect"}, {"x"}, {"a"})
    \cup Ops({"other"}, {"implied", "pull"}, {"none"}, {"a", "x", "y"})
    \cup Ops({"other"}, {"transfer"}, {"none"}, {"a", "x", "y", "s"})

NoOp == CHOOSE o \in PlainOps({"nop"}) : TRUE

Opcodes == LoadOps \cup StoreOps \cup OtherOps

Body(o, yes) ==
  IF o.does # "other" THEN Data(o)
  ELSE IF o.mode \in DOMAIN TwoOperands THEN TwoOperands[o.mode]
  ELSE IF o.mode \in DOMAIN WordOperands THEN WordOperands[o.mode]
  ELSE IF o.mode \in DOMAIN Bits THEN Bits[o.mode]
  ELSE IF o.mode \in DOMAIN Calls THEN Calls[o.mode]
  ELSE IF o.mode \in DOMAIN Returns THEN Returns[o.mode]
  ELSE IF o.mode \in DOMAIN Jumps THEN Jumps[o.mode]
  ELSE IF o.mode \in DOMAIN Implied THEN Implied[o.mode]
  ELSE Branches(yes)[o.mode]

-----------------------------------------------------------------------------
SpcInit ==
  /\ reg = [x |-> 0, y |-> 0, s |-> ByteSize - 1, p |-> FALSE, halted |-> FALSE]
  /\ instr = NoOp /\ todo = <<>> /\ operands = <<>> /\ loaded = <<>>
  /\ trace = <<>> /\ frame = <<>>

Boundary == todo = <<>>

\* BeginInstruction, to the end of the opcode's fetch.
Dispatch ==
  /\ Boundary /\ ~reg.halted
  /\ \E o \in Opcodes, yes \in BOOLEAN :
       /\ instr' = o
       /\ todo' = Body(o, yes)
       /\ frame' = IF o.mode \in DOMAIN Returns THEN frame ELSE <<>>
  /\ UNCHANGED <<reg, operands, loaded, trace>>

LastTwo(s) == IF Len(s) > 2 THEN Tail(s) ELSE s

\* The registers after a cycle: Push and Pull move s when they are called.
Moved(cycle) ==
  IF cycle.does = "push" THEN {[reg EXCEPT !.s = (@ + ByteSize - 1) % ByteSize]}
  ELSE IF cycle.does = "pull" THEN
    {[reg EXCEPT !.s = (@ + 1) % ByteSize, !.p = p] :
       p \in IF cycle.at = "flags" THEN BOOLEAN ELSE {reg.p}}
  ELSE {reg}

Accessed(cycle) ==
  IF cycle.does \in {"read", "write"} THEN <<[cycle EXCEPT !.at = CellOf(cycle.at)]>>
  ELSE IF cycle.does = "push" THEN <<[at |-> StackCell(reg.s), does |-> cycle.at]>>
  ELSE IF cycle.does = "pull"
    THEN <<[at |-> StackCell((reg.s + 1) % ByteSize), does |-> cycle.at]>>
  ELSE <<>>

Trace == trace \o Accessed(Head(todo))

Pushed(cycle) ==
  IF cycle.does = "push" /\ instr.mode \in DOMAIN Calls THEN frame \o Accessed(cycle) ELSE frame

SpcStepCycle ==
  /\ Len(todo) > 1
  /\ todo' = Tail(todo)
  /\ reg' \in Moved(Head(todo))
  /\ trace' = Trace
  /\ \E byte \in Bytes :
       /\ operands' = IF Head(todo).does = "fetch" THEN LastTwo(Append(operands, byte))
                                                  ELSE operands
       /\ loaded' = IF Head(todo).does = "read" /\ Head(todo).at \notin {"ptr", "ptr+i"}
                    THEN LastTwo(Append(loaded, byte)) ELSE loaded
  /\ frame' = Pushed(Head(todo))
  /\ UNCHANGED instr

\* What the handler assigns after its last cycle: any value is as good as another.
Target(r, t) == IF t = "a" THEN {r} ELSE {[r EXCEPT ![t] = b] : b \in Bytes}

Effect(r) ==
  IF instr.mode \in {"sleep", "stop"} THEN {[r EXCEPT !.halted = TRUE]}
  ELSE IF instr.mode \in {"setP", "clearP"} THEN {[r EXCEPT !.p = instr.mode = "setP"]}
  ELSE IF instr.mode = "increment" THEN {[r EXCEPT !.x = (@ + 1) % ByteSize]}
  ELSE IF instr.mode = "decrementY" THEN {[r EXCEPT !.y = (@ + ByteSize - 1) % ByteSize]}
  ELSE IF instr.mode = "transfer" /\ instr.target = "s" THEN {[r EXCEPT !.s = r.x]}
  ELSE IF instr.mode \in {"readWord", "multiply", "divide"} THEN Target(r, "y")
  ELSE IF instr.does # "write" THEN Target(r, instr.target)
  ELSE {r}

\* The last cycle, after which the executor is at the next boundary.
LastCycle ==
  /\ Len(todo) = 1
  /\ \E r \in Moved(Head(todo)) : reg' \in Effect(r)
  /\ todo' = <<>> /\ operands' = <<>> /\ loaded' = <<>> /\ trace' = <<>> /\ instr' = NoOp
  /\ frame' = IF instr.mode \in DOMAIN Calls THEN Pushed(Head(todo)) ELSE <<>>

\* SLEEP and STOP: idle cycles, each followed by a boundary.
Halted == Boundary /\ reg.halted /\ UNCHANGED spcVars

\* Spc700::Power.
Power ==
  /\ reg' = [x |-> 0, y |-> 0, s |-> ByteSize - 1, p |-> FALSE, halted |-> FALSE]
  /\ instr' = NoOp /\ todo' = <<>> /\ operands' = <<>> /\ loaded' = <<>>
  /\ trace' = <<>> /\ frame' = <<>>

SpcNext == Dispatch \/ SpcStepCycle \/ LastCycle \/ Halted \/ Power

SpcSpec == SpcInit /\ [][SpcNext]_spcVars

-----------------------------------------------------------------------------

Unread == {"increment", "moveDirect", "writeWord"}

WritesWhereItRead ==
  (SpcStepCycle \/ LastCycle) /\ Head(todo).does = "write" /\ instr.mode \notin Unread
    => trace # <<>> /\ Last(trace) = [does |-> "read", at |-> CellOf(Head(todo).at)]

ReturnTakesFrame ==
  LastCycle /\ frame # <<>> /\ instr.mode = (IF Len(frame) = 3 THEN "returnInterrupt" ELSE "return")
    => Trace = Seqs!Reverse(frame) /\ StackCell(reg'.s) = frame[1].at

\* "Dummy read (bus timing)": whatever its addressing mode, index and wrap in the page,
\* an instruction writes only to a location it has read just before, no other data
\* access between; except MOV (X)+,A, MOV dp,dp and the second byte of MOVW dp,YA.
\* And RET after a call, or RETI after BRK, pulls from the cells pushed to what was
\* pushed there, last one first, and leaves s as it was, also across the page's end.
AccessesPair == [][WritesWhereItRead /\ ReturnTakesFrame]_spcVars
=============================================================================
