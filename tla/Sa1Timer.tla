------------------------------ MODULE Sa1Timer ------------------------------
(***************************************************************************)
(* The timer of the SA-1: AdvanceTimer of                                  *)
(* core/src/cartridge/Sa1Arithmetic.cpp and registers $2210-$2215 and bit  *)
(* 6 of $220B.  It is clocked by whatever the processor, a transfer or a   *)
(* held chip spends at once, from one bus cycle to several lines.          *)
(***************************************************************************)
EXTENDS Integers

CONSTANTS
  Geometries, \* [width, height] in dots and lines of the video and the linear mode
  Batches,    \* master clocks of one call
  HTargets, VTargets

Dot == 4

TimerModes == {"video", "linear"}

\* What the constants are to satisfy.
ASSUME Sa1TimerAssumption ==
  /\ Geometries \in [TimerModes -> [width : Nat \ (0 .. 1), height : Nat \ (0 .. 1)]]
  /\ Batches \subseteq Nat \ {0}
  /\ HTargets \subseteq Nat /\ VTargets \subseteq Nat

VARIABLES
  hClocks, vCounter,
  timerMatch,   \* timerMatch_: the comparator matched when the last call ended
  timer,        \* $2210, $2212-$2215
  raised        \* bit 6 of sa1Flags_

timerVars == <<hClocks, vCounter, timerMatch, timer, raised>>

TimerInit ==
  /\ hClocks = 0 /\ vCounter = 0 /\ timerMatch = FALSE /\ raised = FALSE
  /\ timer = [h |-> FALSE, v |-> FALSE, mode |-> "video", hTarget |-> 0, vTarget |-> 0]

LineWidth == Geometries[timer.mode].width
Height == Geometries[timer.mode].height

Matches(h, v) ==
  /\ timer.h \/ timer.v
  /\ timer.h => h = timer.hTarget
  /\ timer.v => v = timer.vTarget

Position == vCounter * LineWidth + hClocks \div Dot

\* Dots from the position to the next entry into the matching interval.
Period == IF timer.v THEN LineWidth * Height ELSE LineWidth

TargetDot ==
  (IF timer.v THEN timer.vTarget * LineWidth ELSE 0) + (IF timer.h THEN timer.hTarget ELSE 0)

\* Mutant: at the target itself the distance is none.
DistanceFromHere == (TargetDot + Period - (Position % Period)) % Period

Distance ==
  LET d == (TargetDot + Period - (Position % Period)) % Period
  IN  IF d = 0 THEN Period ELSE d

Reachable ==
  /\ timer.h \/ timer.v
  /\ timer.h => timer.hTarget < LineWidth
  /\ timer.v => timer.vTarget < Height

Dots(n) == ((hClocks % Dot) + n) \div Dot

AdvanceTimer(n) ==
  LET next == (Position + Dots(n)) % (LineWidth * Height)
  IN  /\ raised' = \/ raised
                   \/ ~timerMatch /\ Matches(hClocks \div Dot, vCounter)
                   \/ Reachable /\ Dots(n) >= Distance
      /\ vCounter' = next \div LineWidth
      /\ hClocks' = (next % LineWidth) * Dot + ((hClocks + n) % Dot)
      /\ timerMatch' = Matches(hClocks' \div Dot, vCounter')
      /\ UNCHANGED timer

\* $2210: another geometry wraps the counters.
WriteTimerControl(h, v, mode) ==
  /\ timer' = [timer EXCEPT !.h = h, !.v = v, !.mode = mode]
  /\ hClocks' = hClocks % (Geometries[mode].width * Dot)
  /\ vCounter' = vCounter % Geometries[mode].height
  /\ timerMatch' = FALSE
  /\ UNCHANGED raised

\* $2211.
Restart ==
  /\ hClocks' = 0 /\ vCounter' = 0 /\ timerMatch' = FALSE
  /\ UNCHANGED <<timer, raised>>

\* $2212-$2215.
WriteTarget(h, v) ==
  /\ timer' = [timer EXCEPT !.hTarget = h, !.vTarget = v]
  /\ timerMatch' = FALSE
  /\ UNCHANGED <<hClocks, vCounter, raised>>

\* $220B.
AcknowledgeTimer ==
  /\ raised' = FALSE
  /\ UNCHANGED <<hClocks, vCounter, timerMatch, timer>>

ClockTimer == \E n \in Batches : AdvanceTimer(n)

TimerNext ==
  \/ ClockTimer
  \/ \E h, v \in BOOLEAN, mode \in TimerModes : WriteTimerControl(h, v, mode)
  \/ Restart
  \/ \E h \in HTargets, v \in VTargets : WriteTarget(h, v)
  \/ AcknowledgeTimer

TimerSpec == TimerInit /\ [][TimerNext]_timerVars

-----------------------------------------------------------------------------
\* The comparator k dots from here.
MatchesAfter(k) ==
  LET p == (Position + k) % (LineWidth * Height)
  IN  Matches(p % LineWidth, p \div LineWidth)

OnEntry ==
  \A n \in Batches :
    ~raised /\ AdvanceTimer(n) =>
      (raised' <=> \/ ~timerMatch /\ MatchesAfter(0)
                   \/ \E k \in 1 .. Dots(n) : MatchesAfter(k) /\ ~MatchesAfter(k - 1))

\* The comment in AdvanceTimer: an acknowledged timer is raised again exactly when the
\* counters, dot by dot, come into the matching interval anew, however many lines
\* or frames one call crosses, or when a register was written while they were in
\* it; within the matching line an acknowledged interrupt stays down.
TimerOnEntry == [][OnEntry]_timerVars
=============================================================================
