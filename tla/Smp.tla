--------------------------------- MODULE Smp ---------------------------------
(***************************************************************************)
(* The sound processor's side of the bus: class Smp                        *)
(* (core/src/audio/Smp.cpp) with its timers, its communication ports and   *)
(* the accesses TEST stretches, driven clock by clock by the executor of   *)
(* Spc700 (StepCycle) and run up to a deadline by Emulator::AdvanceClocks. *)
(*                                                                         *)
(* What the sound program does is a sequence of bus accesses of its own    *)
(* choice.  An access to nothing that is modelled here is "internal" or    *)
(* "external", which is all TEST tells apart.  The console accesses the    *)
(* ports only when RunUntil has returned, and that is between any two      *)
(* clocks: an SMP clock takes 21 of the console's.                         *)
(***************************************************************************)
EXTENDS Naturals

CONSTANTS
  Timers,
  Frequency,   \* Frequency[t]: 128, 128 and 16 timer ticks
  TargetSize,  \* 256: the divider has eight bits,
  OutSize,     \* 16: and the output four
  Targets,     \* what the program writes to $FA-$FC
  Ports,
  Values,      \* bytes on the ports
  Clears,      \* ports CONTROL clears at once: {0, 1} and {2, 3}
  Tests,       \* what it writes to TEST: [gate, internal, external]
  Batches      \* clocks a call of RunUntil is to run

\* timersEnable and not timersDisable, and the two wait settings.
Test == [gate : BOOLEAN, internal : 0 .. 3, external : 0 .. 3]

ASSUME SmpAssumption ==
  /\ Frequency \in [Timers -> Nat] /\ \A t \in Timers : Frequency[t] >= 2
  /\ TargetSize \in Nat /\ OutSize \in Nat /\ TargetSize > 1 /\ OutSize > 1
  /\ Targets \subseteq 0 .. TargetSize - 1
  /\ 0 \in Values
  /\ Clears \subseteq SUBSET Ports
  /\ Tests \subseteq Test
  /\ Batches \subseteq Nat

VARIABLES
  owed,     \* clocks until the target of RunUntil: targetCycles - cycles_
  access,   \* pendingCycle_
  wait,     \* busWait_
  halted,   \* r.wait or r.stop
  timer,    \* the timers
  test,     \* TEST
  input,    \* apuInput_
  output,   \* cpuOutput_
  got,      \* history: what the port read that has just ended delivered
  allowed,  \* history: what its port has held in the first half of a port read
  ticks,    \* history, per timer: the ticks of all accesses ended, modulo its period
  run       \* history, per timer: edges since it was enabled or the target was
            \* written, less those the program has read; not steady from a write
            \* of the target until the output next counts

history == <<got, allowed, ticks, run>>
vars == <<owed, access, wait, halted, timer, test, input, output, history>>

-----------------------------------------------------------------------------
(***************************************************************************)
(* The accesses of the program.                                            *)
(***************************************************************************)
Plain == [op : {"idle", "internal", "external"}]
PortReads == [op : {"readPort"}, port : Ports]
PortWrites == [op : {"writePort"}, port : Ports, value : Values]
OutReads == [op : {"readOut"}, timer : Timers]
TargetWrites == [op : {"writeTarget"}, timer : Timers, target : Targets]
ControlWrites == [op : {"control"}, enable : SUBSET Timers, clear : Clears]
TestWrites == [op : {"test"}, test : Tests]

NoAccess == [op |-> "none"]

Accesses == Plain \cup PortReads \cup PortWrites \cup OutReads \cup TargetWrites
            \cup ControlWrites \cup TestWrites

-----------------------------------------------------------------------------
(***************************************************************************)
(* A timer: [stage0, stage1, stage2, stage3, line, enable, target].        *)
(***************************************************************************)
Level(tm, gate) == tm.stage1 = 1 /\ gate

\* Stages 2 and 3: a target of 0 is the whole range of the divider.
Wrap(n, size) == IF n = size THEN 0 ELSE n

Counted(tm) ==
  LET n == Wrap(tm.stage2 + 1, TargetSize)
  IN  IF n = tm.target
      THEN [tm EXCEPT !.stage2 = 0, !.stage3 = Wrap(@ + 1, OutSize)]
      ELSE [tm EXCEPT !.stage2 = n]

\* SynchronizeStage1
Synchronized(tm, gate) ==
  LET new == [tm EXCEPT !.line = Level(tm, gate)]
  IN  IF tm.line /\ ~new.line /\ tm.enable THEN Counted(new) ELSE new

\* What is left in stage 0 after an overflow.  Mutant: nothing.
CarriedNone(n, f) == 0

Carried(n, f) == n - f

\* Step.  A clock is at most two ticks, so stage 0 overflows once at most.
Step(tm, f, n, gate) ==
  IF tm.stage0 + n < f THEN [tm EXCEPT !.stage0 = @ + n]
  ELSE Synchronized([tm EXCEPT !.stage0 = Carried(@ + n, f), !.stage1 = 1 - @], gate)

\* Bits 0-2 of CONTROL: only a rise resets.  Mutant: every write does.
EnabledAnew(tm, on) ==
  IF on THEN [tm EXCEPT !.enable = TRUE, !.stage2 = 0, !.stage3 = 0]
        ELSE [tm EXCEPT !.enable = FALSE]

Enabled(tm, on) ==
  IF on /\ ~tm.enable THEN [tm EXCEPT !.enable = TRUE, !.stage2 = 0, !.stage3 = 0]
                      ELSE [tm EXCEPT !.enable = on]

-----------------------------------------------------------------------------
(***************************************************************************)
(* History of a timer.                                                     *)
(***************************************************************************)
Period(tm) == IF tm.target = 0 THEN TargetSize ELSE tm.target

\* The history r when the timer has gone from a under gate g to b under gate h.
Followed(r, a, g, b, h) ==
  IF ~(a.enable /\ Level(a, g) /\ ~Level(b, h)) THEN r
  ELSE IF r.steady THEN [r EXCEPT !.edges = Wrap(@ + 1, Period(b) * OutSize)]
  ELSE IF b.stage2 = 0 THEN [edges |-> Period(b) * b.stage3, steady |-> TRUE]
  ELSE [r EXCEPT !.edges = @ + 1]

Run == [edges : Nat, steady : BOOLEAN]

NewRun == [edges |-> 0, steady |-> TRUE]

-----------------------------------------------------------------------------
\* Power
NewTimer == [stage0 |-> 0, stage1 |-> 0, stage2 |-> 0, stage3 |-> 0,
             line |-> FALSE, enable |-> FALSE, target |-> 0]

NoWait == [elapsed |-> 0, duration |-> 0, ticks |-> 0, sampled |-> FALSE, value |-> 0]

Init ==
  /\ owed = 0 /\ access = NoAccess /\ wait = NoWait /\ halted = FALSE
  /\ timer = [t \in Timers |-> NewTimer]
  /\ test = [gate |-> TRUE, internal |-> 0, external |-> 0]
  /\ input = [p \in Ports |-> 0] /\ output = [p \in Ports |-> 0]
  /\ got = 0 /\ allowed = {}
  /\ ticks = [t \in Timers |-> 0] /\ run = [t \in Timers |-> NewRun]

\* RunUntil is called; MemoryBus hands a console write to PortWrite.
RunUntil(n) ==
  /\ owed = 0
  /\ owed' = n
  /\ UNCHANGED <<access, wait, halted, timer, test, input, output, history>>

InFirstHalf(p) ==
  access.op = "readPort" /\ access.port = p /\ 2 * wait.elapsed < wait.duration

PortWrite(p, d) ==
  /\ owed = 0
  /\ input' = [input EXCEPT ![p] = d]
  /\ allowed' = IF InFirstHalf(p) THEN allowed \cup {d} ELSE allowed
  /\ UNCHANGED <<owed, access, wait, halted, timer, test, output, got, ticks, run>>

-----------------------------------------------------------------------------
(***************************************************************************)
(* ClockBusCycle.                                                          *)
(***************************************************************************)
Durations == <<1, 2, 5, 10>>
TimerTicks == <<2, 4, 8, 16>>

\* An access begins, its length set by the TEST of this moment.  A halted
\* processor goes on idling.
Begin(a) ==
  LET setting == IF a.op = "external" THEN test.external ELSE test.internal
  IN  /\ owed > 0 /\ access = NoAccess
      /\ halted => a.op = "idle"
      /\ access' = a
      /\ wait' = [wait EXCEPT !.duration = Durations[setting + 1],
                              !.ticks = TimerTicks[setting + 1]]
      /\ got' = 0
      /\ allowed' = IF a.op = "readPort" THEN {input[a.port]} ELSE {}
      /\ UNCHANGED <<owed, halted, timer, test, input, output, ticks, run>>

\* Every clock of an access counts.  Mutant: a halted processor counts none.
ClockedAwake(n) == IF halted THEN n ELSE n - 1

Clocked(n) == n - 1

\* Ticks of the first n clocks of the access, and of its next clock.
TicksBy(n) == (n * wait.ticks) \div wait.duration

Due == TicksBy(wait.elapsed + 1) - TicksBy(wait.elapsed)

\* The timers and their history after StepTimers.
Stepped == [t \in Timers |-> Step(timer[t], Frequency[t], Due, test.gate)]

SteppedRun == [t \in Timers |-> Followed(run[t], timer[t], test.gate, Stepped[t], test.gate)]

\* A port is sampled at the first clock in the second half of the access.
Sampled ==
  IF access.op = "readPort" /\ ~wait.sampled /\ 2 * (wait.elapsed + 1) >= wait.duration
  THEN [wait EXCEPT !.sampled = TRUE, !.value = input[access.port]]
  ELSE wait

Stretch ==
  /\ owed > 0 /\ access # NoAccess
  /\ wait.elapsed + 1 < wait.duration
  /\ owed' = Clocked(owed)
  /\ wait' = [Sampled EXCEPT !.elapsed = @ + 1]
  /\ timer' = Stepped /\ run' = SteppedRun
  /\ UNCHANGED <<access, halted, test, input, output, got, allowed, ticks>>

\* The last clock of the access, and what is left of the wait.
\* Mutant: the sample stays.
RestedSampled == [Sampled EXCEPT !.elapsed = 0, !.duration = 0, !.ticks = 0]

Rested == NoWait

LastClock ==
  /\ owed > 0 /\ access # NoAccess
  /\ wait.elapsed + 1 = wait.duration
  /\ owed' = Clocked(owed)
  /\ wait' = Rested
  /\ access' = NoAccess
  /\ ticks' = [t \in Timers |-> (ticks[t] + wait.ticks) % (2 * Frequency[t])]
  /\ allowed' = {}

\* An access that touches neither the timers nor their gate.
Ordinary(ops) ==
  /\ LastClock /\ access.op \in ops
  /\ timer' = Stepped /\ run' = SteppedRun
  /\ UNCHANGED test

\* A TEST write is one of these while the P flag is set.
FinishPlain ==
  /\ Ordinary({"internal", "external"})
  /\ UNCHANGED <<halted, input, output, got>>

\* SLEEP and STOP end with an idle cycle.
FinishIdle ==
  /\ Ordinary({"idle"})
  /\ halted' \in {halted, TRUE}
  /\ UNCHANGED <<input, output, got>>

FinishPortRead ==
  /\ Ordinary({"readPort"})
  /\ got' = Sampled.value
  /\ UNCHANGED <<halted, input, output>>

FinishPortWrite ==
  /\ Ordinary({"writePort"})
  /\ output' = [output EXCEPT ![access.port] = access.value]
  /\ UNCHANGED <<halted, input, got>>

Quiet == UNCHANGED <<halted, input, output, got>>

\* $FD-$FF: the output is read and cleared.
FinishOutRead ==
  /\ LastClock /\ access.op = "readOut"
  /\ LET t == access.timer
         read == Period(Stepped[t]) * Stepped[t].stage3
     IN  /\ timer' = [Stepped EXCEPT ![t].stage3 = 0]
         /\ run' = [SteppedRun EXCEPT ![t].edges = IF SteppedRun[t].steady THEN @ - read ELSE @]
  /\ UNCHANGED test /\ Quiet

FinishTarget ==
  /\ LastClock /\ access.op = "writeTarget"
  /\ timer' = [Stepped EXCEPT ![access.timer].target = access.target]
  /\ run' = [SteppedRun EXCEPT ![access.timer] = [edges |-> 0, steady |-> FALSE]]
  /\ UNCHANGED test /\ Quiet

\* CONTROL: it clears ports and enables timers.
FinishControl ==
  /\ LastClock /\ access.op = "control"
  /\ input' = [p \in Ports |-> IF p \in access.clear THEN 0 ELSE input[p]]
  /\ timer' = [t \in Timers |-> Enabled(Stepped[t], t \in access.enable)]
  /\ run' = [t \in Timers |->
       IF t \in access.enable /\ ~timer[t].enable THEN NewRun ELSE SteppedRun[t]]
  /\ UNCHANGED <<test, halted, output, got>>

\* What a TEST write does to a timer.
AfterGate(tm, gate) == Synchronized(tm, gate)

FinishTest ==
  /\ LastClock /\ access.op = "test"
  /\ test' = access.test
  /\ timer' = [t \in Timers |-> AfterGate(Stepped[t], access.test.gate)]
  /\ run' = [t \in Timers |->
       Followed(SteppedRun[t], Stepped[t], test.gate, timer'[t], access.test.gate)]
  /\ Quiet

-----------------------------------------------------------------------------
Console == (\E n \in Batches : RunUntil(n)) \/ (\E p \in Ports, d \in Values : PortWrite(p, d))

Finish ==
  \/ FinishPlain
  \/ FinishIdle
  \/ FinishPortRead
  \/ FinishPortWrite
  \/ FinishOutRead
  \/ FinishTarget
  \/ FinishControl
  \/ FinishTest

StepCycle == (\E a \in Accesses : Begin(a)) \/ Stretch \/ Finish

Next == Console \/ StepCycle

\* RunUntil steps until its target is reached.
Spec == Init /\ [][Next]_vars /\ WF_vars(StepCycle)

-----------------------------------------------------------------------------
Timer(f) ==
  [stage0 : 0 .. f - 1, stage1 : {0, 1}, stage2 : 0 .. TargetSize - 1,
   stage3 : 0 .. OutSize - 1, line : BOOLEAN, enable : BOOLEAN,
   target : 0 .. TargetSize - 1]

TypeOK ==
  /\ owed \in Nat
  /\ access \in Accesses \cup {NoAccess}
  /\ wait \in [elapsed : 0 .. 9, duration : {0, 1, 2, 5, 10}, ticks : {0, 2, 4, 8, 16},
               sampled : BOOLEAN, value : Values]
  /\ access # NoAccess => wait.elapsed < wait.duration
  /\ halted \in BOOLEAN
  /\ DOMAIN timer = Timers /\ \A t \in Timers : timer[t] \in Timer(Frequency[t])
  /\ test \in Test
  /\ input \in [Ports -> Values] /\ output \in [Ports -> Values]
  /\ got \in Values /\ allowed \subseteq Values
  /\ ticks \in [Timers -> Nat]
  /\ run \in [Timers -> Run]

\* The edge detector of every timer holds its gated signal, so no edge is seen
\* twice or missed when TEST opens or shuts the gate in the middle of a pulse.
LineIsGated == \A t \in Timers : timer[t].line <=> Level(timer[t], test.gate)

\* Every access gives every timer the ticks its wait setting stands for, however
\* the clocks of RunUntil divide it and whatever the remainders of the divider.
AccessTakesItsTicks ==
  access = NoAccess =>
    \A t \in Timers : timer[t].stage0 + Frequency[t] * timer[t].stage1 = ticks[t]

\* A running timer counts each edge: those since it was enabled are in its
\* divider and its output, or were read, whichever writes to CONTROL and TEST
\* fall between.  After a write of its target it may take the whole range of the
\* divider to count, but no more.
CountsEdges ==
  \A t \in Timers :
    LET r == run[t]
    IN  IF r.steady
        THEN r.edges = timer[t].stage2 + Period(timer[t]) * timer[t].stage3
        ELSE r.edges < TargetSize

\* A port read delivers what the port held in the first half of this access:
\* nothing older, and nothing the console wrote once it had been sampled.
PortReadHolds ==
  [][FinishPortRead => got' \in allowed]_vars

\* RunUntil returns, at any wait setting and with the processor halted too.
RunReturns == owed > 0 ~> owed = 0
=============================================================================
