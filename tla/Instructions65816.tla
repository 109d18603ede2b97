-------------------------- MODULE Instructions65816 --------------------------
(***************************************************************************)
(* The instruction handlers of class Processor65816                        *)
(* (core/src/cpu/Processor65816.cpp) as the bus cycles they make, with the *)
(* place of lastCycle among them, and SnesCpu::Step that runs one after    *)
(* the other (core/src/cpu/SnesCpu.cpp).                                   *)
(*                                                                         *)
(* Of the registers there is what decides the cycles and what the handlers *)
(* must keep consistent: the E, M and X flags, whether an index register   *)
(* has a high byte, and the stack pointer.  Addresses other than the       *)
(* stack's, operands and the other flags are choices: D may have a low     *)
(* byte, an index may cross a page, a branch may be taken.                 *)
(***************************************************************************)
EXTENDS Integers, Sequences

Seqs == INSTANCE SequencesExt

CONSTANTS
  PageSize,  \* 256
  Pages      \* 256: the stack pointer has two bytes

ASSUME StackAssumption == PageSize \in Nat \ {0} /\ Pages \in Nat \ (0 .. 1)

VARIABLES
  reg,     \* the registers
  halt,    \* r.wai and r.stp
  op,      \* the instruction being executed
  todo,    \* its cycles and its call of lastCycle still to come
  sample,  \* history: its calls of lastCycle, and cycles since the last one
  from,    \* history: the stack pointer it began with
  touched, \* history: the stack addresses it has pushed to or pulled from
  frames   \* history: the last calls and interrupts that have not returned, newest
           \* first; forgotten when an instruction that is neither begins

history == <<sample, from, touched, frames>>
vars == <<reg, halt, op, todo, history>>

Indexes == {"x", "y"}

Size == PageSize * Pages

Stack == 0 .. Size - 1

Page1 == PageSize .. 2 * PageSize - 1

Registers == [e : BOOLEAN, m : BOOLEAN, x : BOOLEAN, high : [Indexes -> BOOLEAN], s : Stack]

PowerOn == [e |-> TRUE, m |-> TRUE, x |-> TRUE, high |-> [i \in Indexes |-> FALSE],
            s |-> 2 * PageSize - 1]

Opt(b, cycle) == IF b THEN <<cycle>> ELSE <<>>

-----------------------------------------------------------------------------
(***************************************************************************)
(* Instructions that access data.                                          *)
(***************************************************************************)
\* idle4 in reads; writes and modifications always idle.
IndexIdle(does, crosses) == Opt(does # "read" \/ ~reg.x \/ crosses, "idle")

DirectModes ==
  {"direct", "directIndexed", "indirect", "indexedIndirect", "indirectIndexed", "indirectLong"}

\* What follows the operand and idle2.
DirectAddress(index) ==
  [direct          |-> <<>>,
   directIndexed   |-> <<"idle">>,
   indirect        |-> <<"read", "read">>,
   indexedIndirect |-> <<"idle", "read", "read">>,
   indirectIndexed |-> <<"read", "read">> \o index,
   indirectLong    |-> <<"read", "read", "read">>]

OtherAddress(index) ==
  [immediate     |-> <<>>,
   bank          |-> <<"fetch", "fetch">>,
   bankIndexed   |-> <<"fetch", "fetch">> \o index,
   long          |-> <<"fetch", "fetch", "fetch">>,
   stack         |-> <<"fetch", "idle">>,
   indirectStack |-> <<"fetch", "idle", "read", "read", "idle">>]

\* The cycles that form the address; low: D has a low byte, crosses: the index
\* crosses a page.
Address(mode, does, low, crosses) ==
  LET index == IndexIdle(does, crosses)
  IN  IF mode \in DirectModes
      THEN <<"fetch">> \o Opt(low, "idle") \o DirectAddress(index)[mode]
      ELSE OtherAddress(index)[mode]

\* One cycle or two of a kind, with the sample before the last.
Access(kind, narrow) ==
  IF narrow THEN <<"sample", kind>> ELSE <<kind, "sample", kind>>

\* Mutant: the wide form samples before its first write, as the narrow one does.
ModifySampledEarly(narrow) ==
  IF narrow THEN <<"read", "idle", "sample", "write">>
            ELSE <<"read", "read", "idle", "sample", "write", "write">>

Modify(narrow) ==
  IF narrow THEN <<"read", "idle", "sample", "write">>
            ELSE <<"read", "read", "idle", "write", "sample", "write">>

\* Width "a" is the one M gives (or none), "x" and "y" the one X gives.
Narrow(width) == IF width = "a" THEN reg.m ELSE reg.x

Data(o, low, crosses) ==
  Address(o.mode, o.does, low, crosses) \o
    (IF o.does = "modify" THEN Modify(Narrow(o.width))
     ELSE Access(IF o.mode = "immediate" THEN "fetch" ELSE o.does, Narrow(o.width)))

-----------------------------------------------------------------------------
(***************************************************************************)
(* Program counter control.  The cycles "push" and "pull" keep the stack   *)
(* in its page in emulation mode; "pushN" and "pullN" do not.              *)
(***************************************************************************)
Jump(crosses) ==
  [branchNot       |-> <<"sample", "fetch">>,
   branch          |-> <<"fetch">> \o Opt(reg.e /\ crosses, "idle") \o <<"sample", "idle">>,
   branchLong      |-> <<"fetch", "fetch", "sample", "idle">>,
   short           |-> <<"fetch", "sample", "fetch">>,
   long            |-> <<"fetch", "fetch", "sample", "fetch">>,
   indirect        |-> <<"fetch", "fetch", "read", "sample", "read">>,
   indexedIndirect |-> <<"fetch", "fetch", "idle", "read", "sample", "read">>,
   indirectLong    |-> <<"fetch", "fetch", "read", "read", "sample", "read">>]

Call ==
  [short   |-> <<"fetch", "fetch", "idle", "push", "sample", "push">>,
   long    |-> <<"fetch", "fetch", "pushN", "idle", "fetch", "pushN", "sample", "pushN">>,
   indexed |-> <<"fetch", "pushN", "pushN", "fetch", "idle", "read", "sample", "read">>]

\* Mutant: RTI pulls the program bank in both modes.
ReturnWithBank ==
  [interrupt |-> <<"idle", "idle", "pullP", "pull", "pull", "sample", "pull">>,
   short     |-> <<"idle", "idle", "pull", "pull", "sample", "idle">>,
   long      |-> <<"idle", "idle", "pullN", "pullN", "sample", "pullN">>]

Return ==
  [interrupt |-> <<"idle", "idle", "pullP", "pull">> \o Opt(~reg.e, "pull")
                   \o <<"sample", "pull">>,
   short     |-> <<"idle", "idle", "pull", "pull", "sample", "idle">>,
   long      |-> <<"idle", "idle", "pullN", "pullN", "sample", "pullN">>]

\* BRK and COP, and the entry into NMI and IRQ.
Interrupt(mode) ==
  (IF mode = "software" THEN <<"fetch">> ELSE <<"read", "idle">>)
    \o Opt(~reg.e, "pushN")
    \o <<"push", "push", "push", "read", "sample", "read">>

-----------------------------------------------------------------------------
(***************************************************************************)
(* The other instructions.                                                 *)
(***************************************************************************)
Push(width, low) ==
  [register  |-> <<"idle">> \o Access("push", Narrow(width)),
   byte      |-> <<"idle", "sample", "push">>,
   direct    |-> <<"idle", "pushN", "sample", "pushN">>,
   effective |-> <<"fetch", "fetch", "pushN", "sample", "pushN">>,
   effectiveIndirect |-> <<"fetch">> \o Opt(low, "idle")
                           \o <<"read", "read", "pushN", "sample", "pushN">>,
   effectiveRelative |-> <<"fetch", "fetch", "idle", "pushN", "sample", "pushN">>]

Pull(width) ==
  [register |-> <<"idle", "idle">> \o Access("pull", Narrow(width)),
   flags    |-> <<"idle", "idle", "sample", "pullP">>,
   bank     |-> <<"idle", "idle", "sample", "pullN">>,
   direct   |-> <<"idle", "idle", "pullN", "sample", "pullN">>]

\* The shifts and steps of a register, its transfers to another (to the one the width
\* names), NOP and the flag instructions.
Implied == {"implied", "TSX", "TCS", "TXS", "XCE"}

Other(mode) ==
  IF mode \in Implied THEN <<"sample", "idleIRQ">>
  ELSE [WDM       |-> <<"sample", "fetch">>,
        XBA       |-> <<"idle", "sample", "idle">>,
        REP       |-> <<"fetch", "sample", "idle">>,
        SEP       |-> <<"fetch", "sample", "idle">>,
        blockMove |-> <<"fetch", "fetch", "read", "write", "idle", "sample", "idle">>,
        STP       |-> <<"idle", "idle">>,
        WAI       |-> <<"sample", "idle", "idle">>][mode]

-----------------------------------------------------------------------------
(***************************************************************************)
(* The instruction set: what instruction() dispatches to.                  *)
(***************************************************************************)
Kind(does, modes, widths) == [does : {does}, mode : modes, width : widths]

AddressModes ==
  DirectModes \cup {"bank", "bankIndexed", "long", "stack", "indirectStack"}

AnyWidth == {"a", "x", "y"}

ReadOps ==
  Kind("read", AddressModes \cup {"immediate"}, {"a"})
    \cup Kind("read", {"immediate", "bank", "bankIndexed", "direct", "directIndexed"}, Indexes)

WriteOps ==
  Kind("write", AddressModes, {"a"})
    \cup Kind("write", {"bank", "direct", "directIndexed"}, Indexes)

ModifyOps == Kind("modify", {"bank", "bankIndexed", "direct", "directIndexed"}, {"a"})

StackOps ==
  Kind("call", {"short", "long", "indexed"}, {"a"})
    \cup Kind("return", {"short", "long", "interrupt"}, {"a"})
    \cup Kind("push", {"register"}, AnyWidth)
    \cup Kind("push", {"byte", "direct", "effective", "effectiveIndirect",
                       "effectiveRelative"}, {"a"})
    \cup Kind("pull", {"register"}, AnyWidth)
    \cup Kind("pull", {"flags", "bank", "direct"}, {"a"})

OtherOps ==
  Kind("jump", {"branchNot", "branch", "branchLong", "short", "long", "indirect",
                "indexedIndirect", "indirectLong"}, {"a"})
    \cup Kind("other", {"implied"}, AnyWidth)
    \cup Kind("other", Implied \cup {"WDM", "XBA", "REP", "SEP", "blockMove", "STP", "WAI"},
             {"a"})

SoftwareInterrupt == [does |-> "interrupt", mode |-> "software", width |-> "a"]
HardwareInterrupt == [does |-> "interrupt", mode |-> "hardware", width |-> "a"]

Dispatched ==
  ReadOps \cup WriteOps \cup ModifyOps \cup StackOps \cup OtherOps \cup {SoftwareInterrupt}

Body(o, low, crosses) ==
  IF o.does = "jump" THEN Jump(crosses)[o.mode]
  ELSE IF o.does = "call" THEN Call[o.mode]
  ELSE IF o.does = "return" THEN Return[o.mode]
  ELSE IF o.does = "interrupt" THEN Interrupt(o.mode)
  ELSE IF o.does = "push" THEN Push(o.width, low)[o.mode]
  ELSE IF o.does = "pull" THEN Pull(o.width)[o.mode]
  ELSE IF o.does = "other" THEN Other(o.mode)
  ELSE Data(o, low, crosses)

-----------------------------------------------------------------------------
(***************************************************************************)
(* What the handlers do to the registers.                                  *)
(***************************************************************************)
\* The stack pointer after one cycle.
InPage(s) == PageSize + (s % PageSize)

Pushes == {"push", "pushN"}
Pulls == {"pull", "pullN", "pullP"}

By(cycle) == IF cycle \in Pushes THEN -1 ELSE IF cycle \in Pulls THEN 1 ELSE 0

Moved(cycle, s) ==
  IF reg.e /\ cycle \in {"push", "pull", "pullP"} THEN InPage(s + By(cycle))
  ELSE (s + By(cycle)) % Size

\* Where a push writes, and where a pull reads.
Touched(cycle) ==
  IF cycle \in Pushes THEN <<reg.s>>
  ELSE IF cycle \in Pulls THEN <<Moved(cycle, reg.s)>>
  ELSE <<>>

\* A new P.  Mutant: index registers keep their high bytes.
WithPKeepingHigh(r, m, x) == [r EXCEPT !.m = m \/ r.e, !.x = x \/ r.e]

WithP(r, m, x) ==
  [r EXCEPT !.m = m \/ r.e, !.x = x \/ r.e,
            !.high = [i \in Indexes |-> r.high[i] /\ ~(x \/ r.e)]]

PulledP(r) == {WithP(r, m, x) : m \in BOOLEAN, x \in BOOLEAN}

\* A new value of an index register, or of both.
Loaded(r, indexes) ==
  IF r.x THEN {r}
         ELSE {[r EXCEPT !.high = h] : h \in {g \in [Indexes -> BOOLEAN] :
                                                 \A i \in Indexes \ indexes : g[i] = r.high[i]}}

\* The instructions that repair the page of the stack when they are done.
Repairs(o) ==
  \/ o.does = "call" /\ o.mode \in {"long", "indexed"}
  \/ o.does = "return" /\ o.mode = "long"
  \/ o.does = "push" /\ o.mode \notin {"register", "byte"}
  \/ o.does = "pull" /\ o.mode \in {"bank", "direct"}

SetS(r, s) == [r EXCEPT !.s = IF r.e THEN InPage(s) ELSE s]

SetE(r, e) ==
  IF e THEN [WithP([r EXCEPT !.e = TRUE], TRUE, TRUE) EXCEPT !.s = InPage(r.s)]
       ELSE [r EXCEPT !.e = FALSE]

\* TXS: without a high byte in X, S is in page 0.
FromX(r) == {s \in Stack : (s >= PageSize) <=> r.high["x"]}

OtherEffect(o, r) ==
  IF o.mode = "TSX" THEN {[r EXCEPT !.high["x"] = ~r.x /\ r.s >= PageSize]}
  ELSE IF o.mode = "TCS" THEN {SetS(r, s) : s \in Stack}
  ELSE IF o.mode = "TXS" THEN {SetS(r, s) : s \in FromX(r)}
  ELSE IF o.mode = "XCE" THEN {SetE(r, e) : e \in BOOLEAN}
  ELSE IF o.mode = "REP" THEN {WithP(r, r.m /\ m, r.x /\ x) : m \in BOOLEAN, x \in BOOLEAN}
  ELSE IF o.mode = "SEP" THEN {WithP(r, r.m \/ m, r.x \/ x) : m \in BOOLEAN, x \in BOOLEAN}
  ELSE IF o.mode = "blockMove" THEN Loaded(r, Indexes)
  ELSE Loaded(r, {o.width} \cap Indexes)

\* The registers the instruction may leave, those after its last cycle being r.
Effect(o, r) ==
  IF o.does = "other" THEN OtherEffect(o, r)
  ELSE IF o.does = "read" \/ (o.does = "pull" /\ o.mode = "register")
    THEN Loaded(r, {o.width} \cap Indexes)
  ELSE IF Repairs(o) THEN {SetS(r, r.s)}
  ELSE {r}

\* The registers after a cycle.
AfterCycle(cycle) ==
  LET r == [reg EXCEPT !.s = Moved(cycle, @)]
  IN  IF cycle = "pullP" THEN PulledP(r) ELSE {r}

-----------------------------------------------------------------------------
(***************************************************************************)
(* Frames: what a call or an interrupt has pushed, until a return takes it *)
(* back.  Only the history knows them.                                     *)
(***************************************************************************)
FrameKind(o) ==
  IF o.does = "interrupt" THEN "interrupt" ELSE IF o.mode = "long" THEN "long" ELSE "short"

\* An instruction that does not keep to the page, in emulation mode, at its border.
Straddles(o, s, n) == reg.e /\ Repairs(o) /\ s - n < PageSize

Frame(o, s, cells) ==
  [kind |-> FrameKind(o), e |-> reg.e, from |-> from, cells |-> cells, left |-> s,
   straddles |-> Straddles(o, from, Len(cells))]

\* The return o, begun with S = s, takes the newest frame.
Takes(o, s) ==
  /\ o.does = "return" /\ frames # <<>>
  /\ Head(frames).kind = o.mode /\ Head(frames).e = reg.e /\ Head(frames).left = s

Newest(f) == SubSeq(f, 1, IF Len(f) > 2 THEN 2 ELSE Len(f))

FramesAfter(s, cells) ==
  IF op.does \in {"call", "interrupt"} THEN Newest(<<Frame(op, s, cells)>> \o frames)
  ELSE IF Takes(op, from) THEN Tail(frames)
  ELSE frames

-----------------------------------------------------------------------------
NoOp == [does |-> "other", mode |-> "implied", width |-> "a"]

NoSample == [calls |-> 0, since |-> 0]

Init ==
  /\ reg = PowerOn
  /\ halt = "no" /\ op = NoOp /\ todo = <<>>
  /\ sample = NoSample /\ from = 0 /\ touched = <<>> /\ frames = <<>>

Between == todo = <<>>

Begin(o) ==
  /\ op' = o
  /\ from' = reg.s
  /\ frames' = IF o.does \in {"call", "return", "interrupt"} THEN frames ELSE <<>>
  /\ UNCHANGED <<reg, sample, touched>>

\* Step: instruction().
Fetch ==
  /\ Between /\ halt = "no"
  /\ \E o \in Dispatched, low, crosses \in BOOLEAN :
       /\ todo' = <<"fetch">> \o Body(o, low, crosses)
       /\ Begin(o)
       /\ halt' = IF o.mode = "WAI" THEN "wai" ELSE IF o.mode = "STP" THEN "stp" ELSE "no"

\* Step: enterInterrupt, when the last sample has found something.
EnterInterrupt ==
  /\ Between /\ halt # "stp"
  /\ todo' = Body(HardwareInterrupt, FALSE, FALSE)
  /\ Begin(HardwareInterrupt)
  /\ halt' = "no"

LastCycle ==
  /\ todo # <<>> /\ Head(todo) = "sample"
  /\ todo' = Tail(todo)
  /\ sample' = [calls |-> sample.calls + 1, since |-> 0]
  /\ UNCHANGED <<reg, halt, op, from, touched, frames>>

AllTouched == touched \o Touched(Head(todo))

Cycle ==
  /\ Len(todo) > 1 /\ Head(todo) # "sample"
  /\ todo' = Tail(todo)
  /\ reg' \in AfterCycle(Head(todo))
  /\ sample' = [sample EXCEPT !.since = @ + 1]
  /\ touched' = AllTouched
  /\ UNCHANGED <<halt, op, from, frames>>

\* The last cycle, with what the handler does after it.
End ==
  /\ Len(todo) = 1 /\ Head(todo) # "sample"
  /\ todo' = <<>> /\ op' = NoOp
  /\ \E r \in AfterCycle(Head(todo)) : reg' \in Effect(op, r)
  /\ frames' = FramesAfter(reg'.s, AllTouched)
  /\ sample' = NoSample /\ from' = 0 /\ touched' = <<>>
  /\ UNCHANGED halt

\* Step with wai set: an idle cycle and a sample, which may end the wait.
Waiting ==
  /\ Between /\ halt = "wai"
  /\ halt' \in {"wai", "no"}
  /\ UNCHANGED <<reg, op, todo, history>>

\* Step with stp set.
Stopped == Between /\ halt = "stp" /\ UNCHANGED vars

\* SnesCpu::Reset.
Reset ==
  /\ Between
  /\ reg' = PowerOn /\ halt' = "no"
  /\ frames' = <<>>
  /\ UNCHANGED <<op, todo, sample, from, touched>>

Next == Fetch \/ EnterInterrupt \/ LastCycle \/ Cycle \/ End \/ Waiting \/ Stopped \/ Reset

Spec == Init /\ [][Next]_vars

-----------------------------------------------------------------------------
Cycles == {"fetch", "read", "write", "idle", "idleIRQ", "push", "pushN", "pull", "pullN",
           "pullP", "sample"}

Ops == Dispatched \cup {HardwareInterrupt}

Frames ==
  [kind : {"short", "long", "interrupt"}, e : BOOLEAN, from : Stack, cells : Seq(Stack),
   left : Stack, straddles : BOOLEAN]

TypeOK ==
  /\ reg \in Registers /\ halt \in {"no", "wai", "stp"}
  /\ op \in Ops /\ todo \in Seq(Cycles)
  /\ sample \in [calls : Nat, since : Nat]
  /\ from \in Stack /\ touched \in Seq(Stack)
  /\ frames \in Seq(Frames)

\* The flags and the widths agree whenever a handler may look at them: emulation
\* mode has both flags set, a set X flag means index registers without a high
\* byte, and in emulation mode the stack is in page 1 between any two
\* instructions, however far one of them took it out.
ModesAgree ==
  /\ reg.e => reg.m /\ reg.x
  /\ reg.x => \A i \in Indexes : ~reg.high[i]
  /\ reg.e /\ Between => reg.s \in Page1

\* The comment on lastCycle in SnesCpu.cpp: handlers call it before their final bus
\* or idle cycle.  Every instruction and interrupt entry does so exactly once, in
\* every mode and width, so that an interrupt is taken after the instruction in
\* whose last cycle but one it came up.  WAI idles once more and STP never calls it.
SampledOnce ==
  [][End /\ op.mode \notin {"WAI", "STP"} => sample = [calls |-> 1, since |-> 0]]_vars

\* A return that begins where the call or interrupt entry has left the stack pulls
\* the very bytes that were pushed, last one first, and leaves the stack as it was
\* before, in both modes and at any border of the stack; except in emulation mode
\* after JSL, JSR (abs,X), whose pushes leave page 1.
ReturnTakesFrame ==
  [][End /\ Takes(op, from) /\ ~Head(frames).straddles
       => AllTouched = Seqs!Reverse(Head(frames).cells) /\ reg'.s = Head(frames).from]_vars
=============================================================================
