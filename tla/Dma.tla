--------------------------------- MODULE Dma ---------------------------------
(***************************************************************************)
(* General DMA, HDMA and the scheduler that lets them take the bus from    *)
(* the CPU: DmaController (core/src/dma/Dma.cpp) with the part of Emulator *)
(* that arms and services it (BeginCpuCycle, ServicePendingHdma and the    *)
(* callbacks wired in InitSubsystems, core/src/system/Emulator.cpp).       *)
(*                                                                         *)
(* The code is one thread, but every call of DmaController::Clock runs the *)
(* rest of the machine, so the two HDMA requests of Timing arrive at any   *)
(* clock of a DMA.  A step here is the code between two such points, and   *)
(* pc is the point the call stack has reached:                             *)
(*   begin    between two CPU bus cycles                                   *)
(*   svc      BeginCpuCycle, armed, in ServicePendingHdma                  *)
(*   head     RunDma, after its own overhead, at onBoundary                *)
(*   chHead   RunChannelDma(gp), after the channel's overhead, ditto       *)
(*   byte     RunChannelDma(gp), after a byte, ditto                       *)
(*   resume   RunDma, in ResumeCpu                                         *)
(*   access   the CPU's own bus access                                     *)
(* An HDMA runs on top of the three boundaries and of svc; hop is the pass *)
(* it is in and hc the channel that pass has reached.                      *)
(***************************************************************************)
EXTENDS DmaChannel, FiniteSets

CONSTANTS
  NumChannels,  \* 8
  Bus,          \* Bus[c][a]: the bytes a read of a in the bank of c may return
  Lines,        \* visible lines: the HDMA transfer points of a frame
  Setups,       \* channel registers as a program left them, nothing enabled
  Masks,        \* what the program writes to $420B and $420C
  Pokes,        \* what it writes to $43x2-$43xA: <<channel, register, byte>>
  ControlPokes, \* and to $43x0: <<channel, control>>
  MaxWrites     \* bound on those writes

Channels == 0 .. NumChannels - 1

ChannelRegisters == {"srcLow", "srcHigh", "sizeLow", "sizeHigh", "tabLow",
                     "tabHigh", "line"}

Controls == [ind : BOOLEAN, len : TransferLengths, step : Steps]

ASSUME DmaAssumption ==
  /\ NumChannels \in Nat \ {0}
  /\ Bus \in [Channels -> [Word -> (SUBSET Byte) \ {{}}]]
  /\ Lines \in Nat \ {0}
  /\ Setups \subseteq [Channels -> Channel]
  /\ \A s \in Setups, c \in Channels :
       ~s[c].dma /\ ~s[c].hdma /\ ~s[c].done /\ ~s[c].xfer
  /\ Masks \subseteq SUBSET Channels
  /\ Pokes \subseteq Channels \X ChannelRegisters \X Byte
  /\ ControlPokes \subseteq Channels \X Controls
  /\ MaxWrites \in Nat

VARIABLES
  ch,         \* the channels
  pc, gp,     \* where the CPU or RunDma is; the channel RunDma has reached
  hop, hc,    \* pass of the HDMA in progress ("none" if none), its channel
  pendSetup, pendRun,   \* pendingHdmaSetup_, pendingHdmaRun_
  armed,      \* dmaArmed_
  beam,       \* the next HDMA point of the frame: 0 setup, 1 .. Lines transfers
  moving,     \* whether the CPU or a general DMA has used clocks since the last one
  writes,     \* register writes so far, bounded by MaxWrites
  xfers,      \* history, per channel: the general DMA it last started
  walk,       \* history, per channel: the HDMA table entry it is in
  req         \* history of the last write to $420B

machine == <<ch, pc, gp, hop, hc, pendSetup, pendRun, armed>>
history == <<xfers, walk, req>>
vars == <<ch, pc, gp, hop, hc, pendSetup, pendRun, armed, beam, moving,
          writes, xfers, walk, req>>

AnyDma == \E c \in Channels : ch[c].dma
AnyHdmaEnabled == \E c \in Channels : ch[c].hdma
AnyHdmaActive == \E c \in Channels : Active(ch[c])
Pending == pendSetup \/ pendRun

\* HdmaFinished: no channel after c is still active.
HdmaFinished(c) == \A d \in Channels : d > c => ~Active(ch[d])

Boundaries == {"svc", "head", "chHead", "byte"}

\* Where the machine is inside a Clock call, or about to leave one.
Clocked == {"begin", "head", "chHead", "byte", "resume"}

\* General DMA of a channel: bytes asked for and moved, and whether an HDMA of
\* the same channel has stopped it.  Table entry: its byte, lines since it was
\* loaded, lines that moved data, and whether only HDMA has touched it since.
NoTransfer == [want |-> 0, moved |-> 0, cut |-> FALSE]
NoEntry == [entry |-> 0, ran |-> 0, fired |-> 0, clean |-> FALSE]

Init ==
  /\ ch \in Setups
  /\ pc = "begin" /\ gp = 0
  /\ hop = "none" /\ hc = 0
  /\ pendSetup = FALSE /\ pendRun = FALSE /\ armed = FALSE
  /\ beam = 0 /\ moving = TRUE /\ writes = 0
  /\ xfers = [c \in Channels |-> NoTransfer]
  /\ walk = [c \in Channels |-> NoEntry]
  /\ req = [cold |-> FALSE, since |-> 0]

-----------------------------------------------------------------------------
(***************************************************************************)
(* The beam.  An HDMA takes less than a line (Timing gives a line 1364     *)
(* clocks; at most 8 * (4 + 3) bytes of 8 clocks each, two bus cycles of   *)
(* delay and a refresh are 556), so each request is served before the next *)
(* one, and between two of them the CPU or a general DMA gets clocks; that *)
(* is the guard.                                                           *)
(***************************************************************************)
BeamFree == pc \in Clocked /\ hop = "none" /\ ~Pending /\ moving

\* onHdmaSetup: HdmaReset, and a request if a channel is enabled.
HdmaSetupPoint ==
  /\ BeamFree /\ beam = 0
  /\ ch' = [c \in Channels |-> [ch[c] EXCEPT !.done = FALSE, !.xfer = FALSE]]
  /\ pendSetup' = AnyHdmaEnabled
  /\ walk' = [c \in Channels |-> NoEntry]
  /\ beam' = 1
  /\ moving' = FALSE
  /\ UNCHANGED <<pc, gp, hop, hc, pendRun, armed, writes, xfers, req>>

\* onHdmaTransfer.
HdmaRunPoint ==
  /\ BeamFree /\ beam > 0
  /\ pendRun' = AnyHdmaActive
  /\ beam' = IF beam = Lines THEN 0 ELSE beam + 1
  /\ moving' = FALSE
  /\ UNCHANGED <<ch, pc, gp, hop, hc, pendSetup, armed, writes, history>>

-----------------------------------------------------------------------------
(***************************************************************************)
(* The CPU: BeginCpuCycle, then one bus access.                            *)
(***************************************************************************)
\* What arms the controller.  Mutant: DMA is forgotten.
RequestedHdma == Pending

Requested == Pending \/ AnyDma

\* Where the cycle that arms goes on.
AfterArming == "access"

\* Not armed: the request arms the controller and the CPU gets its cycle.
BeginCycle ==
  /\ pc = "begin" /\ ~armed
  /\ armed' = Requested
  /\ pc' = AfterArming
  /\ UNCHANGED <<ch, gp, hop, hc, pendSetup, pendRun, beam, moving, writes, history>>

BeginArmedCycle ==
  /\ pc = "begin" /\ armed
  /\ pc' = "svc"
  /\ UNCHANGED <<ch, gp, hop, hc, pendSetup, pendRun, armed, beam, moving, writes, history>>

\* ServicePendingHdma has returned; RunDma, or on to the CPU's access.
EndService ==
  /\ pc = "svc" /\ hop = "none" /\ ~Pending
  /\ IF AnyDma THEN pc' = "head" /\ UNCHANGED armed
               ELSE pc' = "access" /\ armed' = FALSE
  /\ UNCHANGED <<ch, gp, hop, hc, pendSetup, pendRun, beam, moving, writes, history>>

\* RunDma has returned the bus.  A request raised by its last clocks arms again.
EndDma ==
  /\ pc = "resume" /\ hop = "none"
  /\ armed' = (Pending \/ AnyDma)
  /\ pc' = "access"
  /\ UNCHANGED <<ch, gp, hop, hc, pendSetup, pendRun, beam, moving, writes, history>>

Aged == [req EXCEPT !.since = IF @ < 2 THEN @ + 1 ELSE @]

Access ==
  /\ pc = "access"
  /\ pc' = "begin"
  /\ req' = Aged
  /\ moving' = TRUE
  /\ UNCHANGED <<ch, gp, hop, hc, pendSetup, pendRun, armed, beam, writes, xfers, walk>>

\* $420B: EnableDma sets or clears every channel.
WriteDmaEnable(m) ==
  /\ pc = "access" /\ writes < MaxWrites
  /\ ch' = [c \in Channels |-> [ch[c] EXCEPT !.dma = (c \in m)]]
  /\ req' = [cold |-> ~armed, since |-> 0]
  /\ pc' = "begin" /\ writes' = writes + 1
  /\ moving' = TRUE
  /\ UNCHANGED <<gp, hop, hc, pendSetup, pendRun, armed, beam, xfers, walk>>

\* $420C: EnableHdma.
WriteHdmaEnable(m) ==
  /\ pc = "access" /\ writes < MaxWrites
  /\ ch' = [c \in Channels |-> [ch[c] EXCEPT !.hdma = (c \in m)]]
  /\ walk' = [c \in Channels |-> [walk[c] EXCEPT !.clean = FALSE]]
  /\ pc' = "begin" /\ writes' = writes + 1
  /\ req' = Aged
  /\ moving' = TRUE
  /\ UNCHANGED <<gp, hop, hc, pendSetup, pendRun, armed, beam, xfers>>

\* $43xy: DmaController::Write, the control byte and the others.
WriteControl(c, k) == [c EXCEPT !.ind = k.ind, !.len = k.len, !.step = k.step]

Write(c, r, b) ==
  CASE r = "srcLow"   -> [c EXCEPT !.src = SetByte(@, "low", b)]
    [] r = "srcHigh"  -> [c EXCEPT !.src = SetByte(@, "high", b)]
    [] r = "sizeLow"  -> [c EXCEPT !.size = SetByte(@, "low", b)]
    [] r = "sizeHigh" -> [c EXCEPT !.size = SetByte(@, "high", b)]
    [] r = "tabLow"   -> [c EXCEPT !.tab = SetByte(@, "low", b)]
    [] r = "tabHigh"  -> [c EXCEPT !.tab = SetByte(@, "high", b)]
    [] r = "line"     -> [c EXCEPT !.line = b]

WriteChannel(c, d) ==
  /\ pc = "access" /\ writes < MaxWrites
  /\ ch' = [ch EXCEPT ![c] = d]
  /\ walk' = [walk EXCEPT ![c].clean = FALSE]
  /\ pc' = "begin" /\ writes' = writes + 1
  /\ req' = Aged
  /\ moving' = TRUE
  /\ UNCHANGED <<gp, hop, hc, pendSetup, pendRun, armed, beam, xfers>>

-----------------------------------------------------------------------------
(***************************************************************************)
(* General DMA: RunDma and RunChannelDma.                                  *)
(***************************************************************************)
AtBoundary(p) == pc = p /\ hop = "none" /\ ~Pending

\* The loop of RunDma goes on after channel c - 1, on the channels chs.
NextEnabled(chs, c) ==
  LET later == {d \in Channels : d >= c /\ chs[d].dma}
  IN  \/ later = {} /\ pc' = "resume" /\ UNCHANGED gp
      \/ \E d \in later :
           (\A e \in later : d <= e) /\ pc' = "chHead" /\ gp' = d

StartDma ==
  /\ AtBoundary("head")
  /\ NextEnabled(ch, 0)
  /\ UNCHANGED <<ch, hop, hc, pendSetup, pendRun, armed, beam, moving, writes, history>>

\* A size of 0 asks for WordSize bytes.
Asked(w) == IF w = 0 THEN WordSize ELSE w

\* Its own overhead let an HDMA cancel the channel; or its first byte moves.
StartChannel ==
  /\ AtBoundary("chHead")
  /\ IF ~ch[gp].dma
     THEN NextEnabled(ch, gp + 1) /\ UNCHANGED <<ch, xfers>>
     ELSE /\ ch' = [ch EXCEPT ![gp] = AfterByte(@)]
          /\ xfers' = [xfers EXCEPT
               ![gp] = [want |-> Asked(ch[gp].size), moved |-> 1, cut |-> FALSE]]
          /\ pc' = "byte"
          /\ UNCHANGED gp
  /\ moving' = TRUE
  /\ UNCHANGED <<hop, hc, pendSetup, pendRun, armed, beam, writes, walk, req>>

\* Mutant: the loop does not look at the enable bit.
MoreBySize(c) == c.size # 0

More(c) == c.dma /\ c.size # 0

NextByte ==
  /\ AtBoundary("byte") /\ More(ch[gp])
  /\ ch' = [ch EXCEPT ![gp] = AfterByte(@)]
  /\ xfers' = [xfers EXCEPT ![gp].moved = @ + 1]
  /\ moving' = TRUE
  /\ UNCHANGED <<pc, gp, hop, hc, pendSetup, pendRun, armed, beam, writes, walk, req>>

EndChannel ==
  /\ AtBoundary("byte") /\ ~More(ch[gp])
  /\ ch' = [ch EXCEPT ![gp].dma = FALSE]
  /\ NextEnabled(ch', gp + 1)
  /\ UNCHANGED <<hop, hc, pendSetup, pendRun, armed, beam, moving, writes, history>>

-----------------------------------------------------------------------------
(***************************************************************************)
(* HDMA: ServicePendingHdma, HdmaSetup and HdmaRun.                        *)
(***************************************************************************)
\* One turn of the loop of ServicePendingHdma; setup goes first.  The request
\* is dropped if the program has meanwhile disabled the channels.
StartHdmaSetup ==
  /\ pc \in Boundaries /\ hop = "none" /\ pendSetup
  /\ pendSetup' = FALSE
  /\ hop' = IF AnyHdmaEnabled THEN "setup" ELSE "none"
  /\ hc' = 0
  /\ UNCHANGED <<ch, pc, gp, pendRun, armed, beam, moving, writes, history>>

StartHdmaRun ==
  /\ pc \in Boundaries /\ hop = "none" /\ pendRun /\ ~pendSetup
  /\ pendRun' = FALSE
  /\ hop' = IF AnyHdmaActive THEN "transfer" ELSE "none"
  /\ hc' = 0
  /\ UNCHANGED <<ch, pc, gp, pendSetup, armed, beam, moving, writes, history>>

\* The pass goes to the next channel, or the HDMA to the pass then.
PassTo(then) ==
  IF hc + 1 \in Channels THEN hc' = hc + 1 /\ UNCHANGED hop
                         ELSE hc' = 0 /\ hop' = then

\* The bytes a Reload of channel c may find, its table pointer being t.
TableBytes(c, t) == Bus[c][t] \X Bus[c][Inc(t)] \X Bus[c][Inc(Inc(t))]

Cut(c) == [xfers EXCEPT ![c].cut = TRUE]

\* The history of channel c when it has become d.
Loaded(d) == [entry |-> d.line, ran |-> 0, fired |-> 0, clean |-> TRUE]

SetupChannel ==
  /\ hop = "setup"
  /\ \E b \in TableBytes(hc, ch[hc].src) :
       LET d == Setup(ch[hc], HdmaFinished(hc), b[1], b[2], b[3])
       IN  /\ ch' = [ch EXCEPT ![hc] = d]
           /\ walk' = IF d.hdma THEN [walk EXCEPT ![hc] = Loaded(d)] ELSE walk
  /\ xfers' = IF ch[hc].hdma THEN Cut(hc) ELSE xfers
  /\ PassTo("none")
  /\ UNCHANGED <<pc, gp, pendSetup, pendRun, armed, beam, moving, writes, req>>

TransferChannel ==
  /\ hop = "transfer"
  /\ ch' = [ch EXCEPT ![hc] = Transfer(@)]
  /\ xfers' = IF Active(ch[hc]) THEN Cut(hc) ELSE xfers
  /\ walk' = IF Active(ch[hc]) /\ ch[hc].xfer
             THEN [walk EXCEPT ![hc].fired = IF @ < ByteSize THEN @ + 1 ELSE @]
             ELSE walk
  /\ PassTo("advance")
  /\ UNCHANGED <<pc, gp, pendSetup, pendRun, armed, beam, moving, writes, req>>

AdvanceChannel ==
  /\ hop = "advance"
  /\ \E b \in TableBytes(hc, ch[hc].tab) :
       LET c == ch[hc]
           d == Advance(c, HdmaFinished(hc), b[1], b[2], b[3])
       IN  /\ ch' = [ch EXCEPT ![hc] = d]
           /\ walk' = IF ~Active(c) THEN walk
                      ELSE IF Expired(DecLine(c.line)) THEN [walk EXCEPT ![hc] = Loaded(d)]
                      ELSE [walk EXCEPT ![hc].ran = IF @ < ByteSize THEN @ + 1 ELSE @]
  /\ PassTo("none")
  /\ UNCHANGED <<pc, gp, pendSetup, pendRun, armed, beam, moving, writes, xfers, req>>

-----------------------------------------------------------------------------
Cpu == BeginCycle \/ BeginArmedCycle \/ EndService \/ EndDma \/ Access

Program ==
  \/ \E m \in Masks : WriteDmaEnable(m) \/ WriteHdmaEnable(m)
  \/ \E p \in Pokes : WriteChannel(p[1], Write(ch[p[1]], p[2], p[3]))
  \/ \E p \in ControlPokes : WriteChannel(p[1], WriteControl(ch[p[1]], p[2]))

GeneralDma == StartDma \/ StartChannel \/ NextByte \/ EndChannel

Hdma == StartHdmaSetup \/ StartHdmaRun \/ SetupChannel \/ TransferChannel \/ AdvanceChannel

Beam == HdmaSetupPoint \/ HdmaRunPoint

Next == Beam \/ Cpu \/ Program \/ GeneralDma \/ Hdma

\* StepFrame runs the CPU, and everything it calls, without end.
Fairness == WF_vars(Cpu \/ GeneralDma \/ Hdma)

Spec == Init /\ [][Next]_vars /\ Fairness

-----------------------------------------------------------------------------
TypeOK ==
  /\ ch \in [Channels -> Channel]
  /\ pc \in Boundaries \cup Clocked \cup {"access"}
  /\ gp \in Channels /\ hc \in Channels
  /\ hop \in {"none", "setup", "transfer", "advance"}
  /\ pendSetup \in BOOLEAN /\ pendRun \in BOOLEAN /\ armed \in BOOLEAN
  /\ beam \in 0 .. Lines /\ moving \in BOOLEAN
  /\ writes \in 0 .. MaxWrites
  /\ xfers \in [Channels -> [want : 0 .. WordSize, moved : Nat, cut : BOOLEAN]]
  /\ walk \in [Channels -> [entry : Byte, ran : 0 .. ByteSize,
                            fired : 0 .. ByteSize, clean : BOOLEAN]]
  /\ req \in [cold : BOOLEAN, since : 0 .. 2]

\* Between two bytes of a general DMA no HDMA has cut, what was moved and what
\* is left add up to what the program asked for, a size of 0 asking for a whole
\* bank: interruptions on other channels neither lose nor repeat a byte.
ByteAccounting ==
  pc = "byte" /\ ~xfers[gp].cut
    => xfers[gp].moved + ch[gp].size = xfers[gp].want

\* A channel that HDMA took over moves no further byte of that general DMA, and
\* one that it left alone ends with every byte moved and its size at 0.
CutIsFinal ==
  [][\A c \in Channels :
       /\ xfers[c].cut /\ xfers'[c].cut => xfers'[c].moved = xfers[c].moved
       /\ EndChannel /\ c = gp /\ ~xfers[c].cut
            => xfers[c].moved = xfers[c].want /\ ch'[c].size = 0]_vars

\* How many lines a table entry lasts; $80 lasts as long as its counter.
LinesOf(b) == IF b <= RepeatBit THEN b ELSE b - RepeatBit

\* Between two HDMAs, a channel no one has meddled with is inside its table
\* entry: fewer lines have passed than the entry says, and it has moved data on
\* each of them if the repeat bit is set, else on the first only.
TableWalk ==
  hop = "none" =>
    \A c \in Channels :
      walk[c].clean /\ Active(ch[c]) /\ ~pendSetup =>
        LET w == walk[c]
        IN  /\ w.ran < LinesOf(w.entry)
            /\ w.fired = IF w.entry > RepeatBit THEN w.ran
                         ELSE IF w.ran = 0 THEN 0 ELSE 1
            /\ ch[c].xfer <=> (w.entry > RepeatBit \/ w.ran = 0)

\* A request made while the controller was not armed takes the bus after exactly
\* one complete CPU cycle (BeginCpuCycle).
ColdRequestWaits ==
  [][pc = "svc" /\ pc' = "head" /\ req.cold => req.since = 1]_vars

\* What the comment in BeginCpuCycle says of every request, armed or not: one
\* complete CPU cycle runs before the controller takes the bus.
RequestWaits ==
  [][pc = "svc" /\ pc' = "head" => req.since >= 1]_vars

\* Every request for the bus is served, and none early that found the controller
\* idle: a channel enabled in $420B is run or cancelled, and an HDMA the beam asked
\* for is done.
AllServed ==
  /\ ColdRequestWaits
  /\ \A c \in Channels : ch[c].dma ~> ~ch[c].dma
  /\ Pending ~> (~Pending /\ hop = "none")
=============================================================================
