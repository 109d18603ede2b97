------------------------------ MODULE SmpProofs ------------------------------
(***************************************************************************)
(* For every number of timers and ports, whatever their sizes and periods: *)
(* the types of Smp, that the edge detectors hold the gated signals, that  *)
(* the timers count every edge, that a port read is of its first half, and *)
(* that every access gives the ticks of its wait setting.  For bytes of    *)
(* every size: that an instruction of the SPC700 writes where it has read, *)
(* that a return takes what the call pushed, and that its arithmetic is    *)
(* that of words, quotients and decimal numbers.  And for every set of     *)
(* voices of the S-DSP: that the latches they share are in order.          *)
(***************************************************************************)
EXTENDS Smp, Spc700, Spc700Alu, DspVoices, SequenceTheorems, TLAPS

(***************************************************************************)
(* The operations of one timer.                                            *)
(***************************************************************************)
\* Edges until the output counts.
Distance(tm) ==
  IF tm.stage2 < tm.target THEN tm.target - tm.stage2
  ELSE TargetSize - tm.stage2 + tm.target

\* What CountsEdges says of one timer, with what makes it inductive.
EdgesOf(tm, r) ==
  IF r.steady
  THEN tm.stage2 < Period(tm) /\ r.edges = tm.stage2 + Period(tm) * tm.stage3
  ELSE r.edges + Distance(tm) <= TargetSize

TimerInv(tm, r, gate, f) ==
  /\ tm \in Timer(f) /\ r \in Run
  /\ tm.line <=> Level(tm, gate)
  /\ EdgesOf(tm, r)

LEMMA PeriodType ==
  ASSUME NEW f, NEW tm \in Timer(f)
  PROVE  Period(tm) \in 1 .. TargetSize
BY SmpAssumption DEF Period, Timer

\* The two stages an edge may change, set to x and y.
Turned(tm, x, y) == [tm EXCEPT !.stage2 = x, !.stage3 = y]

LEMMA TurnedType ==
  ASSUME NEW f \in Nat, NEW tm \in Timer(f),
         NEW x \in 0 .. TargetSize - 1, NEW y \in 0 .. OutSize - 1
  PROVE  /\ Turned(tm, x, y) \in Timer(f)
         /\ Turned(tm, x, y).stage1 = tm.stage1 /\ Turned(tm, x, y).target = tm.target
         /\ Turned(tm, x, y).stage2 = x /\ Turned(tm, x, y).stage3 = y
         /\ Turned(tm, x, y).line <=> tm.line
         /\ Turned(tm, x, y).enable <=> tm.enable
BY DEF Turned, Timer

LEMMA CountedMoves ==
  ASSUME NEW f \in Nat, NEW tm \in Timer(f)
  PROVE  LET n == Wrap(tm.stage2 + 1, TargetSize)
         IN  /\ n \in 0 .. TargetSize - 1
             /\ Wrap(tm.stage3 + 1, OutSize) \in 0 .. OutSize - 1
             /\ n = tm.target => Counted(tm) = Turned(tm, 0, Wrap(tm.stage3 + 1, OutSize))
             /\ n # tm.target => Counted(tm) = Turned(tm, n, tm.stage3)
<1> DEFINE n == Wrap(tm.stage2 + 1, TargetSize)
<1>1. n \in 0 .. TargetSize - 1 /\ Wrap(tm.stage3 + 1, OutSize) \in 0 .. OutSize - 1
  BY SmpAssumption DEF Wrap, Timer
<1> HIDE DEF n
<1>2. n = tm.target => Counted(tm) = Turned(tm, 0, Wrap(tm.stage3 + 1, OutSize))
  BY DEF Counted, Turned, n
<1>3. n # tm.target => Counted(tm) = Turned(tm, n, tm.stage3)
  BY DEF Counted, Turned, Timer, n
<1> QED
  BY <1>1, <1>2, <1>3 DEF n

\* The product of the period and the output, one edge later.
LEMMA Product ==
  ASSUME NEW p \in Nat, NEW o \in Nat, NEW s \in 0 .. p - 1, NEW q \in 0 .. o - 1
  PROVE  /\ s + 1 < p => s + 1 + p * q # p * o
         /\ s + 1 = p /\ q + 1 < o => s + 1 + p * q = p * (q + 1) /\ p * (q + 1) # p * o
         /\ s + 1 = p /\ q + 1 = o => s + 1 + p * q = p * o
<1>1. p * (q + 1) = p * q + p
  OBVIOUS
<1>2. CASE q + 1 = o
  BY <1>1, <1>2
<1>3. CASE q + 1 < o
  <2>1. PICK d \in Nat : o = q + 1 + d /\ d > 0
    BY <1>3
  <2>2. p * o = p * (q + 1) + p * d
    BY <2>1
  <2>3. p > 0 => p * d > 0
    BY <2>1
  <2>4. p * d \in Nat /\ p * q \in Nat
    BY <2>1
  <2> QED
    BY <1>1, <1>3, <2>2, <2>3, <2>4
<1> QED
  BY <1>2, <1>3

\* An edge of an enabled timer, as the history follows it.
Later(r, b) ==
  IF r.steady THEN [r EXCEPT !.edges = Wrap(@ + 1, Period(b) * OutSize)]
  ELSE IF b.stage2 = 0 THEN [edges |-> Period(b) * b.stage3, steady |-> TRUE]
  ELSE [r EXCEPT !.edges = @ + 1]

LEMMA EdgeCounts ==
  ASSUME NEW f \in Nat, NEW tm \in Timer(f), NEW r \in Run, EdgesOf(tm, r)
  PROVE  Later(r, Counted(tm)) \in Run /\ EdgesOf(Counted(tm), Later(r, Counted(tm)))
<1> DEFINE n == Wrap(tm.stage2 + 1, TargetSize)
           m == Wrap(tm.stage3 + 1, OutSize)
           b == Counted(tm)
           p == Period(tm)
<1>1. /\ n \in 0 .. TargetSize - 1 /\ m \in 0 .. OutSize - 1
      /\ n = tm.target => b = Turned(tm, 0, m)
      /\ n # tm.target => b = Turned(tm, n, tm.stage3)
  BY CountedMoves
<1>2. p \in 1 .. TargetSize /\ p \in Nat
  BY PeriodType, SmpAssumption
<1>3. tm.stage2 \in 0 .. TargetSize - 1 /\ tm.stage3 \in 0 .. OutSize - 1
      /\ tm.target \in 0 .. TargetSize - 1 /\ r.edges \in Nat
      /\ p = (IF tm.target = 0 THEN TargetSize ELSE tm.target)
      /\ n = (IF tm.stage2 + 1 = TargetSize THEN 0 ELSE tm.stage2 + 1)
      /\ m = (IF tm.stage3 + 1 = OutSize THEN 0 ELSE tm.stage3 + 1)
  BY SmpAssumption DEF Timer, Run, Period, Wrap
<1>4. /\ b.stage2 = (IF n = tm.target THEN 0 ELSE n)
      /\ b.stage3 = (IF n = tm.target THEN m ELSE tm.stage3)
      /\ b.target = tm.target
  <2>1. CASE n = tm.target
    <3>1. 0 \in 0 .. TargetSize - 1
      BY SmpAssumption
    <3> QED
      BY <1>1, <2>1, <3>1, TurnedType
  <2>2. CASE n # tm.target
    BY <1>1, <1>3, <2>2, TurnedType
  <2> QED
    BY <2>1, <2>2
<1>5. Period(b) = p
  BY <1>4 DEF Period
<1>6. p * OutSize \in Nat /\ p * m \in Nat /\ p * tm.stage3 \in Nat
  BY <1>1, <1>2, <1>3, SmpAssumption
<1> HIDE DEF n, m, b, p
<1>7. CASE r.steady
  <2>1. tm.stage2 \in 0 .. p - 1 /\ r.edges = tm.stage2 + p * tm.stage3
    BY <1>3, <1>7 DEF EdgesOf, p
  <2> DEFINE s == tm.stage2
             q == tm.stage3
  <2>6. /\ s + 1 < p => s + 1 + p * q # p * OutSize
        /\ s + 1 = p /\ q + 1 < OutSize
             => s + 1 + p * q = p * (q + 1) /\ p * (q + 1) # p * OutSize
        /\ s + 1 = p /\ q + 1 = OutSize => s + 1 + p * q = p * OutSize
    <3>1. s \in 0 .. p - 1 /\ q \in 0 .. OutSize - 1 /\ p \in Nat /\ OutSize \in Nat
      BY <1>2, <1>3, <2>1, SmpAssumption
    <3> HIDE DEF s, q
    <3> QED
      BY <3>1, Product
  <2>2. Later(r, b) = [r EXCEPT !.edges = Wrap(@ + 1, p * OutSize)]
    BY <1>5, <1>7 DEF Later
  <2>3. Later(r, b).steady /\ Later(r, b).edges = Wrap(r.edges + 1, p * OutSize)
    BY <1>7, <2>2 DEF Run
  <2>4. Later(r, b) \in Run
    BY <1>3, <1>6, <2>2 DEF Wrap, Run
  <2>5. b.stage2 < p /\ Wrap(r.edges + 1, p * OutSize) = b.stage2 + p * b.stage3
    <3>1. CASE tm.stage2 + 1 < p
      <4>1. n = tm.stage2 + 1 /\ n # tm.target
        BY <1>2, <1>3, <3>1
      <4>2. tm.stage2 + 1 + p * tm.stage3 # p * OutSize
        BY <2>6, <3>1
      <4> QED
        BY <1>3, <1>4, <1>6, <2>1, <3>1, <4>1, <4>2 DEF Wrap
    <3>2. CASE tm.stage2 + 1 = p
      <4>1. n = tm.target
        BY <1>2, <1>3, <3>2
      <4>2. CASE tm.stage3 + 1 = OutSize
        <5>1. tm.stage2 + 1 + p * tm.stage3 = p * OutSize
          BY <2>6, <3>2, <4>2
        <5>2. m = 0 /\ p * 0 = 0
          BY <1>2, <1>3, <4>2
        <5> QED
          BY <1>2, <1>3, <1>4, <1>6, <2>1, <4>1, <5>1, <5>2 DEF Wrap
      <4>3. CASE tm.stage3 + 1 < OutSize
        <5>1. /\ tm.stage2 + 1 + p * tm.stage3 = p * (tm.stage3 + 1)
              /\ p * (tm.stage3 + 1) # p * OutSize
          BY <2>6, <3>2, <4>3
        <5>2. m = tm.stage3 + 1
          BY <1>3, <4>3
        <5> QED
          BY <1>2, <1>3, <1>4, <1>6, <2>1, <4>1, <5>1, <5>2 DEF Wrap
      <4> QED
        BY <1>3, <4>2, <4>3, SmpAssumption
    <3> QED
      BY <2>1, <1>2, <3>1, <3>2
  <2> QED
    BY <1>5, <2>3, <2>4, <2>5 DEF EdgesOf, b
<1>8. CASE ~r.steady
  <2>1. r.edges + Distance(tm) <= TargetSize
    BY <1>8 DEF EdgesOf
  <2>2. CASE b.stage2 = 0
    <3>1. Later(r, b) = [edges |-> p * b.stage3, steady |-> TRUE]
      BY <1>5, <1>8, <2>2 DEF Later
    <3>2. b.stage3 \in Nat /\ p * b.stage3 \in Nat
      BY <1>1, <1>2, <1>3, <1>4
    <3> QED
      BY <1>2, <1>5, <2>2, <3>1, <3>2 DEF EdgesOf, Run, b
  <2>3. CASE b.stage2 # 0
    <3>1. Later(r, b) = [r EXCEPT !.edges = @ + 1]
      BY <1>8, <2>3 DEF Later
    <3>2. Later(r, b).edges = r.edges + 1 /\ ~Later(r, b).steady /\ Later(r, b) \in Run
      BY <1>3, <1>8, <3>1 DEF Run
    <3>3. Distance(b) + 1 = Distance(tm)
      BY <1>3, <1>4, <2>3, SmpAssumption DEF Distance
    <3>4. Distance(b) \in Nat
      BY <1>3, <1>4, <2>3, SmpAssumption DEF Distance
    <3> QED
      BY <1>3, <2>1, <3>2, <3>3, <3>4, SmpAssumption DEF EdgesOf, b
  <2> QED
    BY <2>2, <2>3
<1> QED
  BY <1>7, <1>8 DEF b

LEMMA SameEdges ==
  ASSUME NEW a, NEW b, NEW r, EdgesOf(a, r),
         b.stage2 = a.stage2, b.stage3 = a.stage3, b.target = a.target
  PROVE  EdgesOf(b, r)
BY DEF EdgesOf, Distance, Period

\* SynchronizeStage1, after stages 0 and 1 or the gate have changed.
WithStages(a, x, y, h) == Synchronized([a EXCEPT !.stage0 = x, !.stage1 = y], h)

LEMMA SynchronizedInv ==
  ASSUME NEW f \in Nat, NEW a, NEW r, NEW g \in BOOLEAN, NEW h \in BOOLEAN,
         TimerInv(a, r, g, f), NEW x \in 0 .. f - 1, NEW y \in {0, 1}
  PROVE  /\ TimerInv(WithStages(a, x, y, h), Followed(r, a, g, WithStages(a, x, y, h), h), h, f)
         /\ WithStages(a, x, y, h).enable <=> a.enable
<1> DEFINE c == [a EXCEPT !.stage0 = x, !.stage1 = y]
           new == [c EXCEPT !.line = Level(c, h)]
           b == Synchronized(c, h)
<1> SUFFICES TimerInv(b, Followed(r, a, g, b, h), h, f) /\ (b.enable <=> a.enable)
  BY DEF WithStages
<1>1. a \in Timer(f) /\ r \in Run /\ EdgesOf(a, r) /\ (a.line <=> Level(a, g))
  BY DEF TimerInv
<1>2. /\ c \in Timer(f)
      /\ c.stage1 = y /\ c.stage2 = a.stage2 /\ c.stage3 = a.stage3 /\ c.target = a.target
      /\ c.line <=> a.line
      /\ c.enable <=> a.enable
  BY <1>1 DEF Timer
<1>3. Level(c, h) \in BOOLEAN
  BY DEF Level
<1> HIDE DEF c
<1>4. /\ new \in Timer(f)
      /\ new.stage1 = y /\ new.stage2 = a.stage2 /\ new.stage3 = a.stage3
      /\ new.target = a.target
      /\ new.line <=> Level(c, h)
      /\ new.enable <=> a.enable
  <2> DEFINE l == Level(c, h)
  <2>1. l \in BOOLEAN
    BY <1>3
  <2> HIDE DEF l
  <2> QED
    BY <1>2, <2>1 DEF Timer, l
<1> HIDE DEF new
<1>5. EdgesOf(new, r)
  BY <1>1, <1>4, SameEdges
<1>6. b = IF c.line /\ ~new.line /\ c.enable THEN Counted(new) ELSE new
  BY DEF Synchronized, new, b
<1> HIDE DEF b
<1>7. Level(c, h) <=> y = 1 /\ h
  BY <1>2 DEF Level
<1>8. CASE c.line /\ ~new.line /\ c.enable
  <2>1. b = Counted(new) /\ a.enable /\ Level(a, g) /\ new.enable /\ ~(y = 1 /\ h)
    BY <1>1, <1>2, <1>4, <1>6, <1>7, <1>8
  <2>2. b \in Timer(f) /\ b.stage1 = y /\ (b.line <=> new.line) /\ (b.enable <=> a.enable)
    <3>1. 0 \in 0 .. TargetSize - 1 /\ new.stage3 \in 0 .. OutSize - 1
      BY <1>4, SmpAssumption DEF Timer
    <3>2. new.stage2 \in Nat /\ Wrap(new.stage2 + 1, TargetSize) \in 0 .. TargetSize - 1
          /\ Wrap(new.stage3 + 1, OutSize) \in 0 .. OutSize - 1
      BY <1>4, CountedMoves, SmpAssumption DEF Timer
    <3>3. PICK u \in 0 .. TargetSize - 1, w \in 0 .. OutSize - 1 : b = Turned(new, u, w)
      BY <1>4, <2>1, <3>1, <3>2, CountedMoves
    <3>4. (b.line <=> new.line) /\ (b.enable <=> a.enable)
      BY <1>4, <3>3, TurnedType
    <3> QED
      BY <1>4, <3>3, <3>4, TurnedType
  <2>3. Level(b, h) <=> y = 1 /\ h
    BY <2>2 DEF Level
  <2>4. b.line <=> Level(b, h)
    BY <1>4, <1>7, <2>2, <2>3
  <2>5. Followed(r, a, g, b, h) = Later(r, b)
    BY <2>1, <2>3 DEF Followed, Later
  <2>6. Later(r, b) \in Run /\ EdgesOf(b, Later(r, b))
    BY <1>1, <1>4, <1>5, <2>1, EdgeCounts
  <2> QED
    BY <2>2, <2>4, <2>5, <2>6 DEF TimerInv
<1>9. CASE ~(c.line /\ ~new.line /\ c.enable)
  <2>1. b = new
    BY <1>6, <1>9
  <2>2. Level(b, h) <=> y = 1 /\ h
    BY <1>4, <2>1 DEF Level
  <2>3. ~(a.enable /\ Level(a, g) /\ ~Level(b, h))
    BY <1>1, <1>2, <1>4, <1>7, <1>9, <2>2
  <2>4. Followed(r, a, g, b, h) = r
    BY <2>3 DEF Followed
  <2>5. b.line <=> Level(b, h)
    BY <1>4, <1>7, <2>1, <2>2
  <2> QED
    BY <1>1, <1>4, <1>5, <2>1, <2>4, <2>5 DEF TimerInv
<1> QED
  BY <1>8, <1>9

\* Step, by the ticks of a clock.
LEMMA StepInv ==
  ASSUME NEW f \in Nat, f >= 2, NEW a, NEW r, NEW g \in BOOLEAN,
         TimerInv(a, r, g, f), NEW n \in 0 .. 2
  PROVE  LET b == Step(a, f, n, g)
         IN  TimerInv(b, Followed(r, a, g, b, g), g, f) /\ (b.enable <=> a.enable)
<1> DEFINE b == Step(a, f, n, g)
<1> SUFFICES TimerInv(b, Followed(r, a, g, b, g), g, f) /\ (b.enable <=> a.enable)
  OBVIOUS
<1>1. a \in Timer(f) /\ r \in Run /\ EdgesOf(a, r) /\ (a.line <=> Level(a, g))
      /\ a.stage0 \in 0 .. f - 1 /\ a.stage1 \in {0, 1}
  BY DEF TimerInv, Timer
<1>2. CASE a.stage0 + n < f
  <2>1. b = [a EXCEPT !.stage0 = a.stage0 + n]
    BY <1>2 DEF Step
  <2>2. a.stage0 + n \in 0 .. f - 1
    BY <1>1, <1>2
  <2>3. /\ b \in Timer(f)
        /\ b.stage1 = a.stage1 /\ b.stage2 = a.stage2 /\ b.stage3 = a.stage3
        /\ b.target = a.target
        /\ b.line <=> a.line
        /\ b.enable <=> a.enable
    BY <1>1, <2>1, <2>2 DEF Timer
  <2>4. Level(b, g) <=> Level(a, g)
    BY <2>3 DEF Level
  <2>5. Followed(r, a, g, b, g) = r
    BY <2>4 DEF Followed
  <2>6. EdgesOf(b, r)
    BY <1>1, <2>3, SameEdges
  <2>7. b.line <=> Level(b, g)
    BY <1>1, <2>3, <2>4
  <2> HIDE DEF b
  <2> QED
    BY <1>1, <2>3, <2>5, <2>6, <2>7 DEF TimerInv
<1>3. CASE ~(a.stage0 + n < f)
  <2> DEFINE x == a.stage0 + n - f
             y == 1 - a.stage1
  <2>1. b = Synchronized([a EXCEPT !.stage0 = Carried(a.stage0 + n, f), !.stage1 = y], g)
    BY <1>3 DEF Step
  <2>2. Carried(a.stage0 + n, f) = x
    BY <1>1 DEF Carried, x
  <2>3. x \in 0 .. f - 1 /\ y \in {0, 1}
    BY <1>1, <1>3
  <2>4. b = Synchronized([a EXCEPT !.stage0 = x, !.stage1 = y], g)
    BY <2>1, <2>2
  <2>5. b = WithStages(a, x, y, g)
    BY <2>4 DEF WithStages
  <2> HIDE DEF x, y, b
  <2>6. /\ TimerInv(WithStages(a, x, y, g), Followed(r, a, g, WithStages(a, x, y, g), g), g, f)
        /\ WithStages(a, x, y, g).enable <=> a.enable
    BY <2>3, SynchronizedInv
  <2> QED
    BY <2>5, <2>6
<1> QED
  BY <1>2, <1>3

\* $FD-$FF: what is read and cleared leaves the count.
LEMMA OutReadInv ==
  ASSUME NEW f \in Nat, NEW a, NEW r, NEW g \in BOOLEAN, TimerInv(a, r, g, f)
  PROVE  TimerInv([a EXCEPT !.stage3 = 0],
                  [r EXCEPT !.edges = IF r.steady THEN @ - Period(a) * a.stage3 ELSE @], g, f)
<1> DEFINE b == [a EXCEPT !.stage3 = 0]
           e == IF r.steady THEN r.edges - Period(a) * a.stage3 ELSE r.edges
           q == [r EXCEPT !.edges = e]
<1>1. /\ a \in Timer(f) /\ r \in Run /\ EdgesOf(a, r) /\ (a.line <=> Level(a, g))
      /\ a.stage2 \in Nat /\ a.stage3 \in Nat /\ Period(a) \in Nat
  <2>1. a \in Timer(f) /\ r \in Run /\ EdgesOf(a, r) /\ (a.line <=> Level(a, g))
    BY DEF TimerInv
  <2>2. Period(a) \in 1 .. TargetSize
    BY <2>1, PeriodType
  <2> QED
    BY <2>1, <2>2, SmpAssumption DEF Timer
<1>2. /\ b \in Timer(f) /\ b.stage3 = 0
      /\ b.stage1 = a.stage1 /\ b.stage2 = a.stage2 /\ b.target = a.target
      /\ b.line <=> a.line
  BY <1>1, SmpAssumption DEF Timer
<1>3. Level(b, g) <=> Level(a, g)
  BY <1>2 DEF Level
<1>4. Period(b) = Period(a) /\ Period(b) * 0 = 0
  BY <1>1, <1>2 DEF Period
<1> HIDE DEF b
<1>5. CASE r.steady
  <2>1. Period(a) * a.stage3 \in Nat
    BY <1>1
  <2>2. a.stage2 < Period(a) /\ e = a.stage2
    BY <1>1, <1>5, <2>1 DEF EdgesOf, Run
  <2>3. q \in Run /\ q.steady /\ q.edges = a.stage2
    BY <1>1, <1>5, <2>2 DEF Run
  <2> HIDE DEF q
  <2>4. EdgesOf(b, q)
    BY <1>1, <1>2, <1>4, <2>2, <2>3 DEF EdgesOf
  <2> QED
    BY <1>1, <1>2, <1>3, <2>3, <2>4 DEF TimerInv, b, q
<1>6. CASE ~r.steady
  <2>1. q \in Run /\ ~q.steady /\ q.edges = r.edges
    BY <1>1, <1>6 DEF Run
  <2> HIDE DEF q
  <2>2. Distance(b) = Distance(a)
    BY <1>2 DEF Distance
  <2>3. EdgesOf(b, q)
    BY <1>1, <1>6, <2>1, <2>2 DEF EdgesOf
  <2> QED
    BY <1>1, <1>2, <1>3, <2>1, <2>3 DEF TimerInv, b, q
<1> QED
  BY <1>5, <1>6

\* $FA-$FC: whatever the divider holds, the new target is in its range.
LEMMA TargetInv ==
  ASSUME NEW f \in Nat, NEW a, NEW r, NEW g \in BOOLEAN, TimerInv(a, r, g, f),
         NEW d \in 0 .. TargetSize - 1
  PROVE  TimerInv([a EXCEPT !.target = d], [edges |-> 0, steady |-> FALSE], g, f)
<1> DEFINE b == [a EXCEPT !.target = d]
           q == [edges |-> 0, steady |-> FALSE]
<1>1. a \in Timer(f) /\ (a.line <=> Level(a, g)) /\ a.stage2 \in 0 .. TargetSize - 1
  BY DEF TimerInv, Timer
<1>2. /\ b \in Timer(f) /\ b.target = d /\ b.stage1 = a.stage1 /\ b.stage2 = a.stage2
      /\ b.line <=> a.line
  BY <1>1 DEF Timer
<1> HIDE DEF b
<1>3. b.line <=> Level(b, g)
  BY <1>1, <1>2 DEF Level
<1>4. Distance(b) <= TargetSize /\ Distance(b) \in Nat
  BY <1>1, <1>2, SmpAssumption DEF Distance
<1>5. q \in Run /\ ~q.steady /\ q.edges = 0
  BY DEF Run
<1> HIDE DEF q
<1>6. EdgesOf(b, q)
  BY <1>4, <1>5, SmpAssumption DEF EdgesOf
<1> QED
  BY <1>2, <1>3, <1>5, <1>6 DEF TimerInv, b, q

\* CONTROL.
LEMMA EnabledInv ==
  ASSUME NEW f \in Nat, NEW a, NEW r, NEW g \in BOOLEAN, TimerInv(a, r, g, f),
         NEW on \in BOOLEAN
  PROVE  TimerInv(Enabled(a, on), IF on /\ ~a.enable THEN NewRun ELSE r, g, f)
<1> DEFINE b == Enabled(a, on)
<1>1. a \in Timer(f) /\ r \in Run /\ EdgesOf(a, r) /\ (a.line <=> Level(a, g))
  BY DEF TimerInv
<1>2. CASE on /\ ~a.enable
  <2>1. b = [a EXCEPT !.enable = TRUE, !.stage2 = 0, !.stage3 = 0]
    BY <1>2 DEF Enabled
  <2>2. /\ b \in Timer(f) /\ b.stage1 = a.stage1 /\ b.stage2 = 0 /\ b.stage3 = 0
        /\ b.line <=> a.line
    <3>1. 0 \in 0 .. TargetSize - 1 /\ 0 \in 0 .. OutSize - 1
      BY SmpAssumption
    <3> QED
      BY <1>1, <2>1, <3>1 DEF Timer
  <2> HIDE DEF b
  <2>3. b.line <=> Level(b, g)
    BY <1>1, <2>2 DEF Level
  <2>4. Period(b) \in 1 .. TargetSize /\ Period(b) * 0 = 0
    BY <2>2, PeriodType, SmpAssumption
  <2>5. NewRun \in Run /\ EdgesOf(b, NewRun)
    BY <2>2, <2>4, SmpAssumption DEF EdgesOf, NewRun, Run
  <2> QED
    BY <1>2, <2>2, <2>3, <2>5 DEF TimerInv, b
<1>3. CASE ~(on /\ ~a.enable)
  <2>1. b = [a EXCEPT !.enable = on]
    BY <1>3 DEF Enabled
  <2>2. /\ b \in Timer(f) /\ b.stage1 = a.stage1 /\ b.stage2 = a.stage2
        /\ b.stage3 = a.stage3 /\ b.target = a.target
        /\ b.line <=> a.line
    BY <1>1, <2>1 DEF Timer
  <2> HIDE DEF b
  <2>3. b.line <=> Level(b, g)
    BY <1>1, <2>2 DEF Level
  <2>4. EdgesOf(b, r)
    BY <1>1, <2>2, SameEdges
  <2> QED
    BY <1>1, <1>3, <2>2, <2>3, <2>4 DEF TimerInv, b
<1> QED
  BY <1>2, <1>3

-----------------------------------------------------------------------------
(***************************************************************************)
(* The inductive invariant: the types, the timers, and that an access in   *)
(* progress has one of the four rates of TEST.                             *)
(***************************************************************************)
TimersInv ==
  /\ DOMAIN timer = Timers
  /\ \A t \in Timers : TimerInv(timer[t], run[t], test.gate, Frequency[t])

Rates ==
  IF access = NoAccess THEN wait.elapsed = 0
  ELSE \/ wait.duration = 1 /\ wait.ticks = 2
       \/ wait.duration = 2 /\ wait.ticks = 4
       \/ wait.duration = 5 /\ wait.ticks = 8
       \/ wait.duration = 10 /\ wait.ticks = 16

Wait == [elapsed : 0 .. 9, duration : {0, 1, 2, 5, 10}, ticks : {0, 2, 4, 8, 16},
         sampled : BOOLEAN, value : Values]

OtherTypes ==
  /\ owed \in Nat
  /\ halted \in BOOLEAN
  /\ input \in [Ports -> Values] /\ output \in [Ports -> Values]
  /\ got \in Values /\ allowed \subseteq Values
  /\ ticks \in [Timers -> Nat]

AccessTypes ==
  /\ access \in Accesses \cup {NoAccess}
  /\ wait \in Wait
  /\ access # NoAccess => wait.elapsed < wait.duration
  /\ test \in Test
  /\ run \in [Timers -> Run]

IInv == OtherTypes /\ AccessTypes /\ Rates /\ TimersInv

LEMMA IInvTypes == IInv => TypeOK /\ LineIsGated
BY DEF IInv, OtherTypes, AccessTypes, TimersInv, TimerInv, TypeOK, LineIsGated, Wait

LEMMA IInvEdges == IInv => CountsEdges
<1> SUFFICES ASSUME IInv, NEW t \in Timers
             PROVE  IF run[t].steady
                    THEN run[t].edges = timer[t].stage2 + Period(timer[t]) * timer[t].stage3
                    ELSE run[t].edges < TargetSize
  BY DEF CountsEdges
<1>1. /\ EdgesOf(timer[t], run[t]) /\ timer[t] \in Timer(Frequency[t])
      /\ run[t].edges \in Nat
  BY DEF IInv, TimersInv, TimerInv, Run
<1>2. Distance(timer[t]) \in Nat /\ Distance(timer[t]) > 0
  BY <1>1, SmpAssumption DEF Distance, Timer
<1> QED
  BY <1>1, <1>2, SmpAssumption DEF EdgesOf

-----------------------------------------------------------------------------
(***************************************************************************)
(* One clock.                                                              *)
(***************************************************************************)
LEMMA DueType ==
  ASSUME IInv, access # NoAccess
  PROVE  Due \in 0 .. 2
<1>1. /\ wait.elapsed \in 0 .. 9 /\ wait.elapsed < wait.duration
  BY DEF IInv, AccessTypes, Wait
<1> DEFINE e == wait.elapsed
<1>2. CASE wait.duration = 1 /\ wait.ticks = 2
  <2>1. Due = (((e + 1) * 2) \div 1) - ((e * 2) \div 1)
    BY <1>2 DEF Due, TicksBy
  <2> QED
    BY <1>1, <1>2, <2>1
<1>3. CASE wait.duration = 2 /\ wait.ticks = 4
  <2>1. Due = (((e + 1) * 4) \div 2) - ((e * 4) \div 2)
    BY <1>3 DEF Due, TicksBy
  <2> QED
    BY <1>1, <1>3, <2>1
<1>4. CASE wait.duration = 5 /\ wait.ticks = 8
  <2>1. Due = (((e + 1) * 8) \div 5) - ((e * 8) \div 5)
    BY <1>4 DEF Due, TicksBy
  <2> QED
    BY <1>1, <1>4, <2>1
<1>5. CASE wait.duration = 10 /\ wait.ticks = 16
  <2>1. Due = (((e + 1) * 16) \div 10) - ((e * 16) \div 10)
    BY <1>5 DEF Due, TicksBy
  <2> QED
    BY <1>1, <1>5, <2>1
<1> QED
  BY <1>2, <1>3, <1>4, <1>5 DEF IInv, Rates

SteppedInv ==
  /\ DOMAIN Stepped = Timers
  /\ SteppedRun \in [Timers -> Run]
  /\ \A t \in Timers : /\ TimerInv(Stepped[t], SteppedRun[t], test.gate, Frequency[t])
                       /\ Stepped[t].enable <=> timer[t].enable

LEMMA ClockInv ==
  ASSUME IInv, access # NoAccess
  PROVE  SteppedInv
<1>1. Due \in 0 .. 2 /\ test.gate \in BOOLEAN
  BY DueType DEF IInv, AccessTypes, Test
<1> HIDE DEF Due
<1>2. ASSUME NEW t \in Timers
      PROVE  /\ TimerInv(Stepped[t], SteppedRun[t], test.gate, Frequency[t])
             /\ Stepped[t].enable <=> timer[t].enable
  <2> DEFINE b == Step(timer[t], Frequency[t], Due, test.gate)
             r == Followed(run[t], timer[t], test.gate, b, test.gate)
  <2>1. Frequency[t] \in Nat /\ Frequency[t] >= 2
    BY SmpAssumption
  <2>2. TimerInv(timer[t], run[t], test.gate, Frequency[t])
    BY DEF IInv, TimersInv
  <2>3. TimerInv(b, r, test.gate, Frequency[t]) /\ (b.enable <=> timer[t].enable)
    BY <1>1, <2>1, <2>2, StepInv
  <2>4. Stepped[t] = b /\ SteppedRun[t] = r
    BY DEF Stepped, SteppedRun
  <2> HIDE DEF b, r
  <2> QED
    BY <2>3, <2>4
<1>3. DOMAIN Stepped = Timers /\ DOMAIN SteppedRun = Timers
  BY DEF Stepped, SteppedRun
<1>4. \A t \in Timers : SteppedRun[t] \in Run
  BY <1>2 DEF TimerInv
<1>5. SteppedRun = [t \in Timers |-> SteppedRun[t]]
  BY DEF SteppedRun
<1>6. SteppedRun \in [Timers -> Run]
  BY <1>4, <1>5
<1> QED
  BY <1>2, <1>3, <1>6 DEF SteppedInv

LEMMA SampledType ==
  ASSUME IInv, access # NoAccess
  PROVE  /\ Sampled \in Wait
         /\ Sampled.elapsed = wait.elapsed /\ Sampled.duration = wait.duration
         /\ Sampled.ticks = wait.ticks
<1>1. wait \in Wait /\ access \in Accesses /\ input \in [Ports -> Values]
  BY DEF IInv, OtherTypes, AccessTypes
<1>2. CASE Sampled = wait
  BY <1>1, <1>2 DEF Wait
<1>3. CASE Sampled # wait
  <2>1. access.op = "readPort" /\ Sampled = [wait EXCEPT !.sampled = TRUE, !.value = input[access.port]]
    BY <1>3 DEF Sampled
  <2>2. access.port \in Ports
    BY <1>1, <2>1 DEF Accesses, Plain, PortReads, PortWrites, OutReads, TargetWrites,
                      ControlWrites, TestWrites
  <2>3. input[access.port] \in Values
    BY <1>1, <2>2
  <2> QED
    BY <1>1, <2>1, <2>3 DEF Wait
<1> QED
  BY <1>2, <1>3

\* The last clock of an access, from what it does to the timers and the rest.
LEMMA LastClockIInv ==
  ASSUME IInv, LastClock, TimersInv', run' \in [Timers -> Run], test' \in Test,
         halted' \in BOOLEAN, input' \in [Ports -> Values], output' \in [Ports -> Values],
         got' \in Values
  PROVE  IInv'
<1>1. owed' \in Nat
  BY DEF LastClock, Clocked, IInv, OtherTypes
<1>2. ticks' \in [Timers -> Nat]
  <2>1. ASSUME NEW t \in Timers
        PROVE  (ticks[t] + wait.ticks) % (2 * Frequency[t]) \in Nat
    <3>1. /\ ticks[t] \in Nat /\ wait.ticks \in Nat
          /\ 2 * Frequency[t] \in Nat /\ 2 * Frequency[t] > 0
      BY SmpAssumption DEF IInv, OtherTypes, AccessTypes, Wait
    <3> DEFINE m == 2 * Frequency[t]
               n == ticks[t] + wait.ticks
    <3>2. m \in Nat /\ m > 0 /\ n \in Nat
      BY <3>1
    <3> HIDE DEF m, n
    <3>3. n % m \in Nat
      BY <3>2
    <3> QED
      BY <3>3 DEF m, n
  <2> QED
    BY <2>1 DEF LastClock
<1>3. allowed' \subseteq Values /\ access' = NoAccess /\ wait' = NoWait
  BY DEF LastClock, Rested
<1>4. wait' \in Wait /\ wait'.elapsed = 0
  BY <1>3, SmpAssumption DEF Wait, NoWait
<1> QED
  BY <1>1, <1>2, <1>3, <1>4 DEF IInv, OtherTypes, AccessTypes, Rates

LEMMA AccessFields ==
  ASSUME access \in Accesses
  PROVE  /\ access.op = "writePort" => access.port \in Ports /\ access.value \in Values
         /\ access.op = "readOut" => access.timer \in Timers
         /\ access.op = "writeTarget" => access.timer \in Timers /\ access.target \in Targets
         /\ access.op = "control" => access.enable \in SUBSET Timers
         /\ access.op = "test" => access.test \in Tests
BY DEF Accesses, Plain, PortReads, PortWrites, OutReads, TargetWrites, ControlWrites, TestWrites

LEMMA OrdinaryIInv ==
  ASSUME IInv, NEW ops, Ordinary(ops), halted' \in BOOLEAN, input' \in [Ports -> Values],
         output' \in [Ports -> Values], got' \in Values
  PROVE  IInv'
<1>1. LastClock /\ timer' = Stepped /\ run' = SteppedRun /\ test' = test /\ access # NoAccess
  BY DEF Ordinary, LastClock
<1>2. SteppedInv /\ test \in Test
  BY <1>1, ClockInv DEF IInv, AccessTypes
<1>3. TimersInv' /\ run' \in [Timers -> Run]
  BY <1>1, <1>2 DEF SteppedInv, TimersInv
<1> QED
  BY <1>1, <1>2, <1>3, LastClockIInv

LEMMA FinishIInv == IInv /\ Finish => IInv'
<1> SUFFICES ASSUME IInv, Finish PROVE IInv'
  OBVIOUS
<1>1. /\ LastClock /\ access \in Accesses /\ test \in Test /\ SteppedInv
      /\ halted \in BOOLEAN /\ input \in [Ports -> Values] /\ output \in [Ports -> Values]
      /\ got \in Values /\ access # NoAccess
  <2>1. LastClock
    BY DEF Finish, FinishPlain, FinishIdle, FinishPortRead, FinishPortWrite, FinishOutRead,
           FinishTarget, FinishControl, FinishTest, Ordinary
  <2> QED
    BY <2>1, ClockInv DEF LastClock, IInv, OtherTypes, AccessTypes
<1>2. CASE FinishPlain
  BY <1>1, <1>2, OrdinaryIInv DEF FinishPlain
<1>3. CASE FinishIdle
  <2>1. halted' \in BOOLEAN
    BY <1>1, <1>3 DEF FinishIdle
  <2> QED
    BY <1>1, <1>3, <2>1, OrdinaryIInv DEF FinishIdle
<1>4. CASE FinishPortRead
  <2>1. got' \in Values
    BY <1>1, <1>4, SampledType DEF FinishPortRead, Wait
  <2> QED
    BY <1>1, <1>4, <2>1, OrdinaryIInv DEF FinishPortRead
<1>5. CASE FinishPortWrite
  <2>1. access.port \in Ports /\ access.value \in Values
    BY <1>1, <1>5, AccessFields DEF FinishPortWrite, Ordinary
  <2>2. output' \in [Ports -> Values]
    BY <1>1, <1>5, <2>1 DEF FinishPortWrite
  <2> QED
    BY <1>1, <1>5, <2>2, OrdinaryIInv DEF FinishPortWrite
<1>6. CASE FinishOutRead
  <2> DEFINE t == access.timer
             r == SteppedRun[t]
             q == [r EXCEPT !.edges = IF r.steady THEN @ - Period(Stepped[t]) * Stepped[t].stage3
                                      ELSE @]
  <2>1. t \in Timers /\ test' = test
    BY <1>1, <1>6, AccessFields DEF FinishOutRead
  <2>2. /\ timer' = [Stepped EXCEPT ![t] = [Stepped[t] EXCEPT !.stage3 = 0]]
        /\ run' = [SteppedRun EXCEPT ![t] = q]
    BY <1>6 DEF FinishOutRead
  <2>3. TimerInv([Stepped[t] EXCEPT !.stage3 = 0], q, test.gate, Frequency[t])
    <3>1. Frequency[t] \in Nat /\ test.gate \in BOOLEAN
          /\ TimerInv(Stepped[t], r, test.gate, Frequency[t])
      BY <1>1, <2>1, SmpAssumption DEF SteppedInv, Test
    <3> QED
      BY <3>1, OutReadInv
  <2> HIDE DEF t, q
  <2>4. q \in Run
    BY <2>3 DEF TimerInv
  <2>5. TimersInv' /\ run' \in [Timers -> Run]
    BY <1>1, <2>1, <2>2, <2>3, <2>4 DEF TimersInv, SteppedInv
  <2> QED
    BY <1>1, <1>6, <2>1, <2>5, LastClockIInv DEF FinishOutRead, Quiet
<1>7. CASE FinishTarget
  <2> DEFINE t == access.timer
             q == [edges |-> 0, steady |-> FALSE]
  <2>1. t \in Timers /\ access.target \in 0 .. TargetSize - 1 /\ test' = test
    BY <1>1, <1>7, AccessFields, SmpAssumption DEF FinishTarget
  <2>2. /\ timer' = [Stepped EXCEPT ![t] = [Stepped[t] EXCEPT !.target = access.target]]
        /\ run' = [SteppedRun EXCEPT ![t] = q]
    BY <1>7 DEF FinishTarget
  <2>3. TimerInv([Stepped[t] EXCEPT !.target = access.target], q, test.gate, Frequency[t])
    <3>1. Frequency[t] \in Nat /\ test.gate \in BOOLEAN
          /\ TimerInv(Stepped[t], SteppedRun[t], test.gate, Frequency[t])
      BY <1>1, <2>1, SmpAssumption DEF SteppedInv, Test
    <3> QED
      BY <2>1, <3>1, TargetInv
  <2> HIDE DEF t, q
  <2>4. q \in Run
    BY <2>3 DEF TimerInv
  <2>5. TimersInv' /\ run' \in [Timers -> Run]
    BY <1>1, <2>1, <2>2, <2>3, <2>4 DEF TimersInv, SteppedInv
  <2> QED
    BY <1>1, <1>7, <2>1, <2>5, LastClockIInv DEF FinishTarget, Quiet
<1>8. CASE FinishControl
  <2>1. /\ timer' = [t \in Timers |-> Enabled(Stepped[t], t \in access.enable)]
        /\ run' = [t \in Timers |->
             IF t \in access.enable /\ ~timer[t].enable THEN NewRun ELSE SteppedRun[t]]
        /\ UNCHANGED <<test, halted, output, got>>
    BY <1>8 DEF FinishControl
  <2>2. input' \in [Ports -> Values]
    BY <1>1, <1>8, SmpAssumption DEF FinishControl
  <2>3. ASSUME NEW t \in Timers
        PROVE  TimerInv(timer'[t], run'[t], test.gate, Frequency[t])
    <3> DEFINE on == t \in access.enable
               a == Stepped[t]
    <3>1. /\ Frequency[t] \in Nat /\ test.gate \in BOOLEAN /\ on \in BOOLEAN
          /\ TimerInv(a, SteppedRun[t], test.gate, Frequency[t])
          /\ a.enable <=> timer[t].enable
      BY <1>1, SmpAssumption DEF SteppedInv, Test
    <3>2. timer'[t] = Enabled(a, on)
      BY <2>1
    <3>3. run'[t] = IF on /\ ~a.enable THEN NewRun ELSE SteppedRun[t]
      BY <2>1, <3>1
    <3> HIDE DEF on, a
    <3> QED
      BY <3>1, <3>2, <3>3, EnabledInv
  <2>4. TimersInv' /\ run' \in [Timers -> Run]
    BY <2>1, <2>3 DEF TimersInv, TimerInv
  <2> QED
    BY <1>1, <2>1, <2>2, <2>4, LastClockIInv
<1>9. CASE FinishTest
  <2>1. /\ test' \in Test /\ access.test = test' /\ UNCHANGED <<halted, input, output, got>>
    BY <1>1, <1>9, AccessFields, SmpAssumption DEF FinishTest, Quiet
  <2>2. /\ timer' = [t \in Timers |-> AfterGate(Stepped[t], test'.gate)]
        /\ run' = [t \in Timers |->
             Followed(SteppedRun[t], Stepped[t], test.gate, timer'[t], test'.gate)]
    BY <1>9, <2>1 DEF FinishTest
  <2>3. ASSUME NEW t \in Timers
        PROVE  TimerInv(timer'[t], run'[t], test'.gate, Frequency[t])
    <3> DEFINE a == Stepped[t]
    <3>1. /\ Frequency[t] \in Nat /\ test.gate \in BOOLEAN /\ test'.gate \in BOOLEAN
          /\ TimerInv(a, SteppedRun[t], test.gate, Frequency[t])
      BY <1>1, <2>1, SmpAssumption DEF SteppedInv, Test
    <3>2. a.stage0 \in 0 .. Frequency[t] - 1 /\ a.stage1 \in {0, 1}
          /\ a = [a EXCEPT !.stage0 = a.stage0, !.stage1 = a.stage1]
      BY <3>1 DEF TimerInv, Timer
    <3>3. timer'[t] = WithStages(a, a.stage0, a.stage1, test'.gate)
      BY <2>2, <3>2 DEF AfterGate, WithStages
    <3>4. run'[t] = Followed(SteppedRun[t], a, test.gate, timer'[t], test'.gate)
      BY <2>2
    <3> HIDE DEF a
    <3> QED
      BY <3>1, <3>2, <3>3, <3>4, SynchronizedInv
  <2>4. TimersInv' /\ run' \in [Timers -> Run]
    BY <2>2, <2>3 DEF TimersInv, TimerInv
  <2> QED
    BY <1>1, <2>1, <2>4, LastClockIInv
<1> QED
  BY <1>2, <1>3, <1>4, <1>5, <1>6, <1>7, <1>8, <1>9 DEF Finish

-----------------------------------------------------------------------------
LEMMA InitIInv == Init => IInv
<1> SUFFICES ASSUME Init PROVE IInv
  OBVIOUS
<1>1. OtherTypes /\ Rates
  BY SmpAssumption DEF Init, OtherTypes, Rates, NoWait
<1>2. AccessTypes
  BY SmpAssumption DEF Init, AccessTypes, NoWait, Wait, Test, NewRun, Run
<1>3. ASSUME NEW t \in Timers
      PROVE  TimerInv(timer[t], run[t], test.gate, Frequency[t])
  <2>1. timer[t] = NewTimer /\ run[t] = NewRun /\ test.gate
    BY DEF Init
  <2>2. NewTimer \in Timer(Frequency[t]) /\ ~NewTimer.line /\ NewTimer.stage1 = 0
        /\ NewTimer.stage2 = 0 /\ NewTimer.stage3 = 0
    BY SmpAssumption DEF NewTimer, Timer
  <2>3. Period(NewTimer) \in 1 .. TargetSize /\ Period(NewTimer) * 0 = 0
    BY <2>2, PeriodType, SmpAssumption
  <2>4. NewRun \in Run /\ NewRun.steady /\ NewRun.edges = 0
    BY DEF NewRun, Run
  <2>5. EdgesOf(NewTimer, NewRun)
    BY <2>2, <2>3, <2>4 DEF EdgesOf
  <2>6. ~Level(NewTimer, test.gate)
    BY <2>2 DEF Level
  <2> QED
    BY <2>1, <2>2, <2>4, <2>5, <2>6 DEF TimerInv
<1> QED
  BY <1>1, <1>2, <1>3 DEF IInv, TimersInv, Init

LEMMA ConsoleIInv == IInv /\ Console => IInv'
<1> SUFFICES ASSUME IInv, Console PROVE IInv'
  OBVIOUS
<1>1. UNCHANGED <<access, wait, halted, timer, test, output, got, ticks, run>>
  BY DEF Console, RunUntil, PortWrite, history
<1>2. owed' \in Nat /\ input' \in [Ports -> Values] /\ allowed' \subseteq Values
  BY SmpAssumption DEF Console, RunUntil, PortWrite, history, IInv, OtherTypes
<1>3. OtherTypes'
  BY <1>1, <1>2 DEF IInv, OtherTypes
<1>4. AccessTypes' /\ Rates'
  BY <1>1 DEF IInv, AccessTypes, Rates
<1>5. TimersInv'
  BY <1>1 DEF IInv, TimersInv
<1> QED
  BY <1>3, <1>4, <1>5 DEF IInv

LEMMA BeginIInv ==
  ASSUME IInv, NEW a \in Accesses, Begin(a)
  PROVE  IInv'
<1> DEFINE setting == IF a.op = "external" THEN test.external ELSE test.internal
<1>1. /\ access' = a /\ UNCHANGED <<owed, halted, timer, test, input, output, ticks, run>>
      /\ wait' = [wait EXCEPT !.duration = Durations[setting + 1],
                              !.ticks = TimerTicks[setting + 1]]
      /\ got' = 0 /\ access = NoAccess
  BY DEF Begin
<1>2. setting \in 0 .. 3
  BY DEF IInv, AccessTypes, Test
<1> HIDE DEF setting
<1>3. a # NoAccess
  BY DEF Accesses, NoAccess, Plain, PortReads, PortWrites, OutReads, TargetWrites,
         ControlWrites, TestWrites
<1>4. allowed' \subseteq Values
  <2>1. a.op = "readPort" => a.port \in Ports
    BY DEF Accesses, Plain, PortReads, PortWrites, OutReads, TargetWrites, ControlWrites,
           TestWrites
  <2> QED
    BY <2>1 DEF Begin, IInv, OtherTypes
<1>5. /\ wait \in Wait /\ wait.elapsed = 0
  BY <1>1 DEF IInv, AccessTypes, Rates
<1>6. \/ Durations[setting + 1] = 1 /\ TimerTicks[setting + 1] = 2
      \/ Durations[setting + 1] = 2 /\ TimerTicks[setting + 1] = 4
      \/ Durations[setting + 1] = 5 /\ TimerTicks[setting + 1] = 8
      \/ Durations[setting + 1] = 10 /\ TimerTicks[setting + 1] = 16
  <2>1. setting = 0 \/ setting = 1 \/ setting = 2 \/ setting = 3
    BY <1>2
  <2> QED
    BY <2>1 DEF Durations, TimerTicks
<1>7. /\ wait' \in Wait /\ wait'.elapsed = 0
      /\ wait'.duration = Durations[setting + 1] /\ wait'.ticks = TimerTicks[setting + 1]
  <2>1. PICK d, t : d = Durations[setting + 1] /\ t = TimerTicks[setting + 1]
    OBVIOUS
  <2>2. d \in {0, 1, 2, 5, 10} /\ t \in {0, 2, 4, 8, 16}
    BY <1>6, <2>1
  <2>3. wait' = [wait EXCEPT !.duration = d, !.ticks = t]
    BY <1>1, <2>1
  <2> QED
    BY <1>5, <2>1, <2>2, <2>3 DEF Wait
<1>8. AccessTypes' /\ Rates'
  BY <1>1, <1>3, <1>6, <1>7 DEF IInv, AccessTypes, Rates
<1>9. OtherTypes' /\ TimersInv'
  BY <1>1, <1>4, SmpAssumption DEF IInv, OtherTypes, TimersInv
<1> QED
  BY <1>8, <1>9 DEF IInv

LEMMA StretchIInv == IInv /\ Stretch => IInv'
<1> SUFFICES ASSUME IInv, Stretch PROVE IInv'
  OBVIOUS
<1>1. /\ access # NoAccess /\ wait.elapsed + 1 < wait.duration
      /\ wait' = [Sampled EXCEPT !.elapsed = @ + 1]
      /\ timer' = Stepped /\ run' = SteppedRun
      /\ UNCHANGED <<access, halted, test, input, output, got, allowed, ticks>>
  BY DEF Stretch
<1>2. SteppedInv
  BY <1>1, ClockInv
<1>3. TimersInv' /\ run' \in [Timers -> Run]
  BY <1>1, <1>2 DEF SteppedInv, TimersInv
<1>4. owed' \in Nat
  BY DEF Stretch, Clocked, IInv, OtherTypes
<1>5. /\ Sampled \in Wait /\ Sampled.elapsed = wait.elapsed
      /\ Sampled.duration = wait.duration /\ Sampled.ticks = wait.ticks
  BY <1>1, SampledType
<1> HIDE DEF Sampled
<1>6. wait.elapsed + 1 \in 0 .. 9
  BY <1>1 DEF IInv, AccessTypes, Wait
<1>7. /\ wait' \in Wait /\ wait'.elapsed = wait.elapsed + 1
      /\ wait'.duration = wait.duration /\ wait'.ticks = wait.ticks
  BY <1>1, <1>5, <1>6 DEF Wait
<1>8. AccessTypes' /\ Rates'
  BY <1>1, <1>3, <1>7 DEF IInv, AccessTypes, Rates
<1>9. OtherTypes'
  BY <1>1, <1>4 DEF IInv, OtherTypes
<1> QED
  BY <1>3, <1>8, <1>9 DEF IInv

LEMMA NextIInv == IInv /\ [Next]_vars => IInv'
<1> SUFFICES ASSUME IInv, [Next]_vars PROVE IInv'
  OBVIOUS
<1>1. CASE UNCHANGED vars
  <2>1. OtherTypes' /\ AccessTypes' /\ Rates'
    BY <1>1 DEF vars, history, IInv, OtherTypes, AccessTypes, Rates
  <2>2. TimersInv'
    BY <1>1 DEF vars, history, IInv, TimersInv
  <2> QED
    BY <2>1, <2>2 DEF IInv
<1> QED
  BY <1>1, ConsoleIInv, BeginIInv, StretchIInv, FinishIInv DEF Next, StepCycle

LEMMA SpecIInv == Spec => []IInv
BY InitIInv, NextIInv, PTL DEF Spec

\* Every value stays in the range of its register, and no wait outlasts its access.
THEOREM TypesHold == Spec => []TypeOK
<1>1. IInv => TypeOK
  BY IInvTypes
<1> QED
  BY SpecIInv, <1>1, PTL

\* Whenever and however TEST opens and shuts the gate, the edge detector of every
\* timer holds the gated signal.
THEOREM LinesAreGated == Spec => []LineIsGated
<1>1. IInv => LineIsGated
  BY IInvTypes
<1> QED
  BY SpecIInv, <1>1, PTL

\* No timer loses or invents an edge, for any divider, output and target.
THEOREM EdgesAreCounted == Spec => []CountsEdges
BY SpecIInv, IInvEdges, PTL

-----------------------------------------------------------------------------
(***************************************************************************)
(* Port reads: what is sampled, or is still to be, was on the port in the  *)
(* first half of the access.                                               *)
(***************************************************************************)
PortInv ==
  IF access = NoAccess THEN ~wait.sampled
  ELSE access.op = "readPort" =>
         IF wait.sampled THEN wait.value \in allowed
         ELSE 2 * wait.elapsed < wait.duration /\ input[access.port] \in allowed

LEMMA PortInit == Init => PortInv
BY DEF Init, PortInv, NoWait

LEMMA PortConsole == IInv /\ PortInv /\ Console => PortInv'
<1> SUFFICES ASSUME IInv, PortInv, Console PROVE PortInv'
  OBVIOUS
<1>1. CASE \E n \in Batches : RunUntil(n)
  BY <1>1 DEF RunUntil, PortInv, history
<1>2. ASSUME NEW p \in Ports, NEW d \in Values, PortWrite(p, d) PROVE PortInv'
  <2>1. /\ UNCHANGED <<access, wait>> /\ input' = [input EXCEPT ![p] = d]
        /\ allowed' = IF InFirstHalf(p) THEN allowed \cup {d} ELSE allowed
        /\ input \in [Ports -> Values]
    BY <1>2 DEF PortWrite, IInv, OtherTypes
  <2>2. CASE access = NoAccess \/ access.op # "readPort"
    BY <2>1, <2>2 DEF PortInv
  <2>3. CASE access # NoAccess /\ access.op = "readPort" /\ wait.sampled
    BY <2>1, <2>3 DEF PortInv
  <2>4. CASE access # NoAccess /\ access.op = "readPort" /\ ~wait.sampled
    <3>1. 2 * wait.elapsed < wait.duration /\ input[access.port] \in allowed
      BY <2>4 DEF PortInv
    <3>2. input'[access.port] \in allowed'
      <4>1. CASE access.port = p
        BY <2>1, <2>4, <3>1, <4>1 DEF InFirstHalf
      <4>2. CASE access.port # p
        BY <2>1, <3>1, <4>2
      <4> QED
        BY <4>1, <4>2
    <3> QED
      BY <2>1, <2>4, <3>1, <3>2 DEF PortInv
  <2> QED
    BY <2>2, <2>3, <2>4
<1> QED
  BY <1>1, <1>2 DEF Console

LEMMA PortBegin ==
  ASSUME IInv, PortInv, NEW a \in Accesses, Begin(a)
  PROVE  PortInv'
<1> DEFINE setting == IF a.op = "external" THEN test.external ELSE test.internal
<1>1. /\ access' = a /\ input' = input /\ access = NoAccess
      /\ wait' = [wait EXCEPT !.duration = Durations[setting + 1],
                              !.ticks = TimerTicks[setting + 1]]
      /\ allowed' = IF a.op = "readPort" THEN {input[a.port]} ELSE {}
  BY DEF Begin
<1>2. setting \in 0 .. 3
  BY DEF IInv, AccessTypes, Test
<1> HIDE DEF setting
<1>3. Durations[setting + 1] \in {1, 2, 5, 10}
  <2>1. setting = 0 \/ setting = 1 \/ setting = 2 \/ setting = 3
    BY <1>2
  <2> QED
    BY <2>1 DEF Durations
<1>4. wait \in Wait /\ wait.elapsed = 0 /\ ~wait.sampled
  BY <1>1 DEF IInv, AccessTypes, Rates, PortInv
<1>5. wait'.elapsed = 0 /\ wait'.duration = Durations[setting + 1] /\ (wait'.sampled <=> wait.sampled)
  BY <1>1, <1>4 DEF Wait
<1>6. a # NoAccess
  BY DEF Accesses, NoAccess, Plain, PortReads, PortWrites, OutReads, TargetWrites,
         ControlWrites, TestWrites
<1>7. 2 * wait'.elapsed < wait'.duration
  BY <1>3, <1>5
<1> QED
  BY <1>1, <1>4, <1>5, <1>6, <1>7 DEF PortInv

\* The sample taken by the next clock.
LEMMA SampleHolds ==
  ASSUME IInv, PortInv, access # NoAccess, access.op = "readPort"
  PROVE  /\ Sampled.sampled => Sampled.value \in allowed
         /\ ~Sampled.sampled => /\ 2 * (wait.elapsed + 1) < wait.duration
                                /\ input[access.port] \in allowed
<1>1. wait \in Wait
  BY DEF IInv, AccessTypes
<1>2. wait.elapsed \in Nat /\ wait.duration \in Nat
  BY <1>1 DEF Wait
<1>3. CASE wait.sampled
  <2>1. Sampled = wait
    BY <1>3 DEF Sampled
  <2> QED
    BY <1>3, <2>1 DEF PortInv
<1>4. CASE ~wait.sampled /\ 2 * (wait.elapsed + 1) >= wait.duration
  <2>1. Sampled = [wait EXCEPT !.sampled = TRUE, !.value = input[access.port]]
    BY <1>4 DEF Sampled
  <2>2. Sampled.sampled /\ Sampled.value = input[access.port]
    BY <1>1, <2>1 DEF Wait
  <2> QED
    BY <1>4, <2>2 DEF PortInv
<1>5. CASE ~wait.sampled /\ ~(2 * (wait.elapsed + 1) >= wait.duration)
  <2>1. Sampled = wait
    BY <1>5 DEF Sampled
  <2> QED
    BY <1>2, <1>5, <2>1 DEF PortInv
<1> QED
  BY <1>3, <1>4, <1>5

LEMMA PortStretch == IInv /\ PortInv /\ Stretch => PortInv'
<1> SUFFICES ASSUME IInv, PortInv, Stretch PROVE PortInv'
  OBVIOUS
<1>1. /\ access # NoAccess /\ wait' = [Sampled EXCEPT !.elapsed = @ + 1]
      /\ UNCHANGED <<access, input, allowed>>
  BY DEF Stretch
<1>2. /\ Sampled \in Wait /\ Sampled.elapsed = wait.elapsed
      /\ Sampled.duration = wait.duration
  BY <1>1, SampledType
<1>3. /\ wait'.elapsed = wait.elapsed + 1 /\ wait'.duration = wait.duration
      /\ wait'.value = Sampled.value /\ (wait'.sampled <=> Sampled.sampled)
  <2> HIDE DEF Sampled
  <2> QED
    BY <1>1, <1>2 DEF Wait
<1>4. CASE access.op = "readPort"
  BY <1>1, <1>3, <1>4, SampleHolds DEF PortInv
<1>5. CASE access.op # "readPort"
  BY <1>1, <1>5 DEF PortInv
<1> QED
  BY <1>4, <1>5

LEMMA PortFinish == Finish => PortInv'
<1> SUFFICES ASSUME Finish PROVE PortInv'
  OBVIOUS
<1>1. LastClock
  BY DEF Finish, FinishPlain, FinishIdle, FinishPortRead, FinishPortWrite, FinishOutRead,
         FinishTarget, FinishControl, FinishTest, Ordinary
<1> QED
  BY <1>1 DEF LastClock, Rested, NoWait, PortInv

LEMMA SpecPortInv == Spec => []PortInv
<1>1. IInv /\ PortInv /\ [Next]_vars => PortInv'
  <2> SUFFICES ASSUME IInv, PortInv, [Next]_vars PROVE PortInv'
    OBVIOUS
  <2>1. CASE UNCHANGED vars
    BY <2>1 DEF vars, history, PortInv
  <2> QED
    BY <2>1, PortConsole, PortBegin, PortStretch, PortFinish DEF Next, StepCycle
<1> QED
  BY <1>1, PortInit, SpecIInv, PTL DEF Spec

\* A port read delivers what the console had on the port in the first half of this
\* very access, for any ports, values and cutting of the sound processor's time.
THEOREM PortReadsHold == Spec => PortReadHolds
<1>1. IInv /\ PortInv /\ [Next]_vars => [FinishPortRead => got' \in allowed]_vars
  <2> SUFFICES ASSUME IInv, PortInv, FinishPortRead PROVE got' \in allowed
    OBVIOUS
  <2>1. /\ access # NoAccess /\ access.op = "readPort" /\ got' = Sampled.value
        /\ wait.elapsed + 1 = wait.duration
    BY DEF FinishPortRead, Ordinary, LastClock
  <2>2. wait.elapsed \in Nat
    BY DEF IInv, AccessTypes, Wait
  <2>3. Sampled.sampled
    <3>1. CASE ~Sampled.sampled
      <4>1. 2 * (wait.elapsed + 1) < wait.duration
        BY <2>1, <3>1, SampleHolds
      <4> QED
        BY <2>1, <2>2, <4>1
    <3> QED
      BY <3>1
  <2> QED
    BY <2>1, <2>3, SampleHolds
<1> QED
  BY <1>1, SpecIInv, SpecPortInv, PTL DEF Spec, PortReadHolds
-----------------------------------------------------------------------------
(***************************************************************************)
(* Ticks: stages 0 and 1 are a counter of two pulses, and that counter is  *)
(* the ticks of the accesses ended and of the clocks of the one under way. *)
(***************************************************************************)
Phase(tm, f) == tm.stage0 + f * tm.stage1

\* Ticks given by the access under way.
Given == IF access = NoAccess THEN 0 ELSE TicksBy(wait.elapsed)

PhaseInv ==
  \A t \in Timers :
    /\ ticks[t] \in 0 .. 2 * Frequency[t] - 1
    /\ Phase(timer[t], Frequency[t]) = (ticks[t] + Given) % (2 * Frequency[t])

LEMMA DivMod ==
  ASSUME NEW a \in Nat, NEW m \in Nat \ {0}
  PROVE  a \div m \in Nat /\ (a % m) \in 0 .. m - 1 /\ a = m * (a \div m) + (a % m)
OBVIOUS

LEMMA SmallMod ==
  ASSUME NEW m \in Nat \ {0}, NEW r \in 0 .. m - 1
  PROVE  (r % m) = r
OBVIOUS

LEMMA UniqueRemainder ==
  ASSUME NEW m \in Nat \ {0}, NEW q \in Nat, NEW r \in 0 .. m - 1
  PROVE  ((m * q + r) % m) = r
OBVIOUS

LEMMA ModAdd ==
  ASSUME NEW a \in Nat, NEW b \in Nat, NEW m \in Nat \ {0}
  PROVE  (((a % m) + b) % m) = ((a + b) % m)
<1> DEFINE q == a \div m
           r == a % m
           p == (r + b) \div m
           s == (r + b) % m
<1>1. q \in Nat /\ r \in 0 .. m - 1 /\ a = m * q + r
  BY DivMod
<1>2. p \in Nat /\ s \in 0 .. m - 1 /\ r + b = m * p + s
  <2>1. r + b \in Nat
    BY <1>1
  <2> HIDE DEF r
  <2> QED
    BY <2>1, DivMod
<1> HIDE DEF q, r, p, s
<1>3. q + p \in Nat /\ a + b = m * (q + p) + s
  <2>1. m * (q + p) = m * q + m * p
    BY <1>1, <1>2
  <2>2. m * q \in Nat /\ m * p \in Nat
    BY <1>1, <1>2
  <2> QED
    BY <1>1, <1>2, <2>1, <2>2
<1>4. ((m * (q + p) + s) % m) = s
  BY <1>2, <1>3, UniqueRemainder
<1>5. ((a + b) % m) = s
  BY <1>3, <1>4
<1> QED
  BY <1>5 DEF s, r

\* An edge changes neither stage, nor do the writes and reads of registers.
LEMMA SynchronizedPhase ==
  ASSUME NEW f \in Nat, NEW tm \in Timer(f), NEW g \in BOOLEAN
  PROVE  /\ Synchronized(tm, g).stage0 = tm.stage0
         /\ Synchronized(tm, g).stage1 = tm.stage1
BY DEF Synchronized, Counted, Timer

LEMMA PhaseSteps ==
  ASSUME NEW f \in Nat, f >= 2, NEW tm \in Timer(f), NEW n \in 0 .. 2, NEW g \in BOOLEAN
  PROVE  /\ Phase(tm, f) \in Nat
         /\ Phase(Step(tm, f, n, g), f) = (Phase(tm, f) + n) % (2 * f)
<1> DEFINE m == 2 * f
           b == Step(tm, f, n, g)
<1>1. m \in Nat \ {0}
  OBVIOUS
<1>2. tm.stage0 \in 0 .. f - 1 /\ tm.stage1 \in {0, 1}
  BY DEF Timer
<1>3. Phase(tm, f) \in 0 .. m - 1
  <2>1. f * tm.stage1 = 0 \/ f * tm.stage1 = f
    BY <1>2
  <2> QED
    BY <1>2, <2>1 DEF Phase
<1>4. CASE tm.stage0 + n < f
  <2>1. b = [tm EXCEPT !.stage0 = tm.stage0 + n]
    BY <1>4 DEF Step
  <2>2. b.stage0 = tm.stage0 + n /\ b.stage1 = tm.stage1
    BY <2>1 DEF Timer
  <2> HIDE DEF b
  <2>3. f * tm.stage1 \in {0, f}
    BY <1>2
  <2>4. Phase(b, f) = Phase(tm, f) + n /\ Phase(tm, f) + n \in 0 .. m - 1
    BY <1>2, <1>4, <2>2, <2>3 DEF Phase
  <2> HIDE DEF m
  <2> QED
    BY <1>1, <1>3, <2>4, SmallMod DEF b, m
<1>5. CASE ~(tm.stage0 + n < f)
  <2> DEFINE x == tm.stage0 + n - f
             y == 1 - tm.stage1
             c == [tm EXCEPT !.stage0 = x, !.stage1 = y]
  <2>1. b = Synchronized(c, g)
    <3>1. b = Synchronized([tm EXCEPT !.stage0 = Carried(tm.stage0 + n, f), !.stage1 = y], g)
      BY <1>5 DEF Step
    <3>2. Carried(tm.stage0 + n, f) = x
      BY <1>2 DEF Carried, x
    <3> QED
      BY <3>1, <3>2
  <2>2. x \in 0 .. f - 1 /\ y \in {0, 1}
    BY <1>2, <1>5
  <2> HIDE DEF x, y
  <2>3. c \in Timer(f) /\ c.stage0 = x /\ c.stage1 = y
    BY <2>2 DEF Timer
  <2> HIDE DEF b, c
  <2>4. b.stage0 = x /\ b.stage1 = y
    BY <2>1, <2>3, SynchronizedPhase
  <2>5. CASE tm.stage1 = 0
    <3>1. Phase(b, f) = Phase(tm, f) + n /\ Phase(tm, f) + n \in 0 .. m - 1
      <4>1. y = 1 /\ f * 1 = f /\ f * 0 = 0
        BY <2>5 DEF y
      <4> QED
        BY <1>2, <2>2, <2>4, <2>5, <4>1 DEF Phase, x
    <3> HIDE DEF m
    <3> QED
      BY <1>1, <1>3, <3>1, SmallMod DEF b, m
  <2>6. CASE tm.stage1 = 1
    <3>1. Phase(tm, f) + n = m * 1 + Phase(b, f) /\ Phase(b, f) \in 0 .. m - 1
      <4>1. y = 0 /\ f * 1 = f /\ f * 0 = 0
        BY <2>6 DEF y
      <4> QED
        BY <1>2, <2>2, <2>4, <2>6, <4>1 DEF Phase, x
    <3> DEFINE p == Phase(b, f)
    <3> HIDE DEF m, p
    <3>2. ((m * 1 + p) % m) = p
      BY <1>1, <3>1, UniqueRemainder DEF p
    <3> QED
      BY <1>3, <3>1, <3>2 DEF b, m, p
  <2> QED
    BY <1>2, <2>5, <2>6
<1> QED
  BY <1>3, <1>4, <1>5

\* The ticks of all clocks of an access are those of its wait setting.
LEMMA TicksType ==
  ASSUME IInv, access # NoAccess
  PROVE  /\ TicksBy(wait.elapsed) \in Nat /\ TicksBy(wait.elapsed + 1) \in Nat
         /\ TicksBy(wait.duration) = wait.ticks
<1>1. wait.elapsed \in 0 .. 9
  BY DEF IInv, AccessTypes, Wait
<1> DEFINE e == wait.elapsed
<1>2. CASE wait.duration = 1 /\ wait.ticks = 2
  <2>1. /\ TicksBy(e) = (e * 2) \div 1 /\ TicksBy(e + 1) = ((e + 1) * 2) \div 1
        /\ TicksBy(wait.duration) = (1 * 2) \div 1
    BY <1>2 DEF TicksBy
  <2> QED
    BY <1>1, <1>2, <2>1
<1>3. CASE wait.duration = 2 /\ wait.ticks = 4
  <2>1. /\ TicksBy(e) = (e * 4) \div 2 /\ TicksBy(e + 1) = ((e + 1) * 4) \div 2
        /\ TicksBy(wait.duration) = (2 * 4) \div 2
    BY <1>3 DEF TicksBy
  <2> QED
    BY <1>1, <1>3, <2>1
<1>4. CASE wait.duration = 5 /\ wait.ticks = 8
  <2>1. /\ TicksBy(e) = (e * 8) \div 5 /\ TicksBy(e + 1) = ((e + 1) * 8) \div 5
        /\ TicksBy(wait.duration) = (5 * 8) \div 5
    BY <1>4 DEF TicksBy
  <2> QED
    BY <1>1, <1>4, <2>1
<1>5. CASE wait.duration = 10 /\ wait.ticks = 16
  <2>1. /\ TicksBy(e) = (e * 16) \div 10 /\ TicksBy(e + 1) = ((e + 1) * 16) \div 10
        /\ TicksBy(wait.duration) = (10 * 16) \div 10
    BY <1>5 DEF TicksBy
  <2> QED
    BY <1>1, <1>5, <2>1
<1> QED
  BY <1>2, <1>3, <1>4, <1>5 DEF IInv, Rates

LEMMA SteppedPhase ==
  ASSUME IInv, PhaseInv, access # NoAccess, NEW t \in Timers
  PROVE  Phase(Stepped[t], Frequency[t])
           = (ticks[t] + TicksBy(wait.elapsed + 1)) % (2 * Frequency[t])
<1> DEFINE f == Frequency[t]
           m == 2 * f
           g == TicksBy(wait.elapsed)
           h == TicksBy(wait.elapsed + 1)
           p == Phase(timer[t], f)
<1>1. f \in Nat /\ f >= 2 /\ m \in Nat \ {0}
  BY SmpAssumption
<1>2. timer[t] \in Timer(f) /\ test.gate \in BOOLEAN
  BY DEF IInv, TimersInv, TimerInv, AccessTypes, Test
<1>3. Due \in 0 .. 2 /\ Due = h - g
  BY DueType DEF Due
<1>4. g \in Nat /\ h \in Nat /\ ticks[t] \in Nat
  BY TicksType DEF IInv, OtherTypes
<1>5. p = (ticks[t] + g) % m
  BY DEF PhaseInv, Given
<1>6. Stepped[t] = Step(timer[t], f, Due, test.gate)
  BY DEF Stepped
<1> HIDE DEF f, Due
<1>7. Phase(Stepped[t], f) = (p + Due) % m
  BY <1>1, <1>2, <1>3, <1>6, PhaseSteps
<1> HIDE DEF m, g, h, p
<1>8. (((ticks[t] + g) % m) + Due) % m = ((ticks[t] + g) + Due) % m
  <2>1. ticks[t] + g \in Nat /\ Due \in Nat
    BY <1>3, <1>4
  <2> QED
    BY <1>1, <2>1, ModAdd
<1>9. (ticks[t] + g) + Due = ticks[t] + h
  BY <1>3, <1>4
<1>10. Phase(Stepped[t], f) = (ticks[t] + h) % m
  BY <1>5, <1>7, <1>8, <1>9
<1> QED
  BY <1>10 DEF f, m, h

LEMMA PhaseInit == Init => PhaseInv
<1> SUFFICES ASSUME Init, NEW t \in Timers
             PROVE  /\ ticks[t] \in 0 .. 2 * Frequency[t] - 1
                    /\ Phase(timer[t], Frequency[t]) = (ticks[t] + Given) % (2 * Frequency[t])
  BY DEF PhaseInv
<1> DEFINE m == 2 * Frequency[t]
<1>1. Frequency[t] \in Nat /\ m \in Nat \ {0} /\ Frequency[t] * 0 = 0
  BY SmpAssumption
<1>2. ticks[t] = 0 /\ Given = 0 /\ timer[t] = NewTimer
  BY DEF Init, Given
<1>3. Phase(timer[t], Frequency[t]) = 0
  BY <1>1, <1>2 DEF Phase, NewTimer
<1> HIDE DEF m
<1>4. (0 % m) = 0 /\ 0 \in 0 .. m - 1
  BY <1>1, SmallMod
<1> QED
  BY <1>2, <1>3, <1>4 DEF m

LEMMA PhaseStretch == IInv /\ PhaseInv /\ Stretch => PhaseInv'
<1> SUFFICES ASSUME IInv, PhaseInv, Stretch PROVE PhaseInv'
  OBVIOUS
<1>1. /\ access # NoAccess /\ wait' = [Sampled EXCEPT !.elapsed = @ + 1]
      /\ timer' = Stepped /\ UNCHANGED <<access, ticks>>
  BY DEF Stretch
<1>2. /\ Sampled \in Wait /\ Sampled.elapsed = wait.elapsed
      /\ Sampled.duration = wait.duration /\ Sampled.ticks = wait.ticks
  BY <1>1, SampledType
<1>3. /\ wait'.elapsed = wait.elapsed + 1
      /\ wait'.duration = wait.duration /\ wait'.ticks = wait.ticks
  <2> HIDE DEF Sampled
  <2> QED
    BY <1>1, <1>2 DEF Wait
<1>4. Given' = TicksBy(wait.elapsed + 1)
  BY <1>1, <1>3 DEF Given, TicksBy
<1> QED
  BY <1>1, <1>4, SteppedPhase DEF PhaseInv

\* Whatever the access does at its end, it leaves stages 0 and 1 alone.
LEMMA FinishPhase ==
  ASSUME IInv, Finish, NEW t \in Timers
  PROVE  timer'[t].stage0 = Stepped[t].stage0 /\ timer'[t].stage1 = Stepped[t].stage1
<1>1. access \in Accesses /\ test \in Test /\ SteppedInv
  <2>1. LastClock
    BY DEF Finish, FinishPlain, FinishIdle, FinishPortRead, FinishPortWrite, FinishOutRead,
           FinishTarget, FinishControl, FinishTest, Ordinary
  <2> QED
    BY <2>1, ClockInv DEF LastClock, IInv, AccessTypes
<1>2. DOMAIN Stepped = Timers /\ Stepped[t] \in Timer(Frequency[t]) /\ Frequency[t] \in Nat
  BY <1>1, SmpAssumption DEF SteppedInv, TimerInv
<1> HIDE DEF Stepped
<1>3. CASE timer' = Stepped
  BY <1>3
<1>4. CASE FinishOutRead
  <2>1. timer' = [Stepped EXCEPT ![access.timer].stage3 = 0]
    BY <1>4 DEF FinishOutRead
  <2>2. timer'[t] = Stepped[t] \/ timer'[t] = [Stepped[t] EXCEPT !.stage3 = 0]
    BY <1>2, <2>1
  <2> QED
    BY <1>2, <2>2 DEF Timer
<1>5. CASE FinishTarget
  <2>1. timer' = [Stepped EXCEPT ![access.timer].target = access.target]
    BY <1>5 DEF FinishTarget
  <2>2. timer'[t] = Stepped[t] \/ timer'[t] = [Stepped[t] EXCEPT !.target = access.target]
    BY <1>2, <2>1
  <2> QED
    BY <1>2, <2>2 DEF Timer
<1>6. CASE FinishControl
  <2>1. timer'[t] = Enabled(Stepped[t], t \in access.enable)
    BY <1>6 DEF FinishControl
  <2> QED
    BY <1>2, <2>1 DEF Enabled, Timer
<1>7. CASE FinishTest
  <2>1. timer'[t] = Synchronized(Stepped[t], access.test.gate)
    BY <1>7 DEF FinishTest, AfterGate
  <2>2. access.test.gate \in BOOLEAN
    BY <1>1, <1>7, AccessFields, SmpAssumption DEF FinishTest, Test
  <2> QED
    BY <1>2, <2>1, <2>2, SynchronizedPhase
<1> QED
  BY <1>3, <1>4, <1>5, <1>6, <1>7
     DEF Finish, FinishPlain, FinishIdle, FinishPortRead, FinishPortWrite, Ordinary

LEMMA PhaseFinish == IInv /\ PhaseInv /\ Finish => PhaseInv'
<1> SUFFICES ASSUME IInv, PhaseInv, Finish, NEW t \in Timers
             PROVE  /\ ticks'[t] \in 0 .. 2 * Frequency[t] - 1
                    /\ Phase(timer'[t], Frequency[t]) = (ticks'[t] + Given') % (2 * Frequency[t])
  BY DEF PhaseInv
<1> DEFINE f == Frequency[t]
           m == 2 * f
           n == ticks[t] + wait.ticks
<1>1. LastClock
  BY DEF Finish, FinishPlain, FinishIdle, FinishPortRead, FinishPortWrite, FinishOutRead,
         FinishTarget, FinishControl, FinishTest, Ordinary
<1>2. /\ access # NoAccess /\ wait.elapsed + 1 = wait.duration /\ access' = NoAccess
      /\ ticks' = [u \in Timers |-> (ticks[u] + wait.ticks) % (2 * Frequency[u])]
  BY <1>1 DEF LastClock
<1>3. m \in Nat \ {0} /\ n \in Nat
  BY SmpAssumption DEF IInv, OtherTypes, AccessTypes, Wait
<1>4. Given' = 0 /\ ticks'[t] = n % m
  BY <1>2 DEF Given
<1>5. Phase(timer'[t], f) = Phase(Stepped[t], f)
  BY FinishPhase DEF Phase
<1>6. Phase(Stepped[t], f) = n % m
  BY <1>2, SteppedPhase, TicksType
<1> HIDE DEF m, n
<1>7. (n % m) \in 0 .. m - 1
  BY <1>3, DivMod
<1> DEFINE r == n % m
<1>8. ((r + 0) % m) = r
  <2> HIDE DEF r
  <2>1. r \in 0 .. m - 1 /\ r + 0 = r
    BY <1>7 DEF r
  <2> QED
    BY <1>3, <2>1, SmallMod
<1> QED
  BY <1>4, <1>5, <1>6, <1>7, <1>8 DEF m

LEMMA PhaseBegin ==
  ASSUME IInv, PhaseInv, NEW a \in Accesses, Begin(a)
  PROVE  PhaseInv'
<1>1. IInv'
  BY BeginIInv
<1>2. access = NoAccess /\ access' = a /\ UNCHANGED <<timer, ticks>>
      /\ wait'.elapsed = 0
  BY DEF Begin, IInv, AccessTypes, Rates, Wait
<1>3. a # NoAccess
  BY DEF Accesses, NoAccess, Plain, PortReads, PortWrites, OutReads, TargetWrites,
         ControlWrites, TestWrites
<1>4. wait'.duration \in {1, 2, 5, 10} /\ wait'.ticks \in {2, 4, 8, 16}
  BY <1>1, <1>2, <1>3 DEF IInv, Rates
<1>5. TicksBy(wait.elapsed)' = (0 * wait'.ticks) \div wait'.duration
  BY <1>2 DEF TicksBy
<1>6. Given' = 0 /\ Given = 0
  BY <1>2, <1>3, <1>4, <1>5 DEF Given
<1> QED
  BY <1>2, <1>6 DEF PhaseInv

LEMMA SpecPhaseInv == Spec => []PhaseInv
<1>1. IInv /\ PhaseInv /\ [Next]_vars => PhaseInv'
  <2> SUFFICES ASSUME IInv, PhaseInv, [Next]_vars PROVE PhaseInv'
    OBVIOUS
  <2>1. CASE UNCHANGED <<access, wait, timer, ticks>>
    BY <2>1 DEF PhaseInv, Given, TicksBy
  <2>2. CASE Console
    BY <2>1, <2>2 DEF Console, RunUntil, PortWrite, history
  <2>3. CASE UNCHANGED vars
    BY <2>1, <2>3 DEF vars, history
  <2> QED
    BY <2>2, <2>3, PhaseBegin, PhaseStretch, PhaseFinish DEF Next, StepCycle
<1> QED
  BY <1>1, PhaseInit, SpecIInv, PTL DEF Spec

\* Every access gives every timer the ticks of its wait setting, for any timers,
\* settings and cutting of the sound processor's time.
THEOREM AccessesTakeTheirTicks == Spec => []AccessTakesItsTicks
<1>1. IInv /\ PhaseInv => AccessTakesItsTicks
  <2> SUFFICES ASSUME IInv, PhaseInv, access = NoAccess, NEW t \in Timers
               PROVE  timer[t].stage0 + Frequency[t] * timer[t].stage1 = ticks[t]
    BY DEF AccessTakesItsTicks
  <2> DEFINE m == 2 * Frequency[t]
             r == ticks[t]
  <2>1. m \in Nat \ {0} /\ r \in 0 .. m - 1 /\ r + Given = r
    BY SmpAssumption DEF PhaseInv, Given
  <2>2. Phase(timer[t], Frequency[t]) = (r + Given) % m
    BY DEF PhaseInv
  <2> HIDE DEF m, r
  <2>3. (r % m) = r
    BY <2>1, SmallMod
  <2> QED
    BY <2>1, <2>2, <2>3 DEF Phase, r
<1> QED
  BY <1>1, SpecIInv, SpecPhaseInv, PTL

-----------------------------------------------------------------------------
(***************************************************************************)
(* The instructions of the SPC700.  An instruction is what is left of its  *)
(* cycles; what it has read is the last access until it writes.            *)
(***************************************************************************)
Cycles ==
  [does : {"fetch", "idle", "read", "write", "push", "pull"},
   at : {"pc", "none", "dp", "dp+1", "dp+i", "dp+i+1", "x", "y", "abs", "abs+i", "abs+i+1", "bit",
         "ptr", "ptr+i", "vector", "pcHigh", "pcLow", "flags", "data"}]

Places == {"dp", "dp+1", "dp+i", "x", "y", "abs", "abs+i", "bit", "ptr", "ptr+i"}

\* The cycle before the write, or the one before an idle cycle before it, reads there.
ReadBefore(body, k) ==
  \/ k > 1 /\ body[k - 1] = R(body[k].at)
  \/ k > 2 /\ body[k - 1] = I /\ body[k - 2] = R(body[k].at)

Reads(body) ==
  /\ body \in Seq(Cycles) /\ Len(body) > 0
  /\ \A k \in 1 .. Len(body) : body[k].does = "write" => ReadBefore(body, k)

LEMMA CyclesTyped ==
  /\ F \in Cycles /\ I \in Cycles
  /\ \A place \in Places : R(place) \in Cycles /\ W(place) \in Cycles
  /\ R("vector") \in Cycles /\ R("dp+i+1") \in Cycles /\ R("abs+i+1") \in Cycles
  /\ \A what \in {"pcHigh", "pcLow", "flags", "data"} : Push(what) \in Cycles /\ Pull(what) \in Cycles
BY DEF F, I, R, W, Push, Pull, Cycles, Places

\* Cycles none of which writes, followed by one operand's.
LEMMA OperandReads ==
  ASSUME NEW before \in Seq(Cycles), NEW place \in Places, NEW does,
         \A k \in 1 .. Len(before) : before[k].does # "write"
  PROVE  Reads(before \o At(place, does))
<1> DEFINE at == At(place, does)
<1> DEFINE body == before \o at
<1>1. at \in Seq(Cycles) /\ Len(at) \in {1, 2} /\ at[1] = R(place) /\ (Len(at) = 2 => at[2] = W(place))
  <2>1. CASE does = "read"
    <3>1. at = <<R(place)>>
      BY <2>1 DEF At
    <3> QED
      BY <3>1, CyclesTyped
  <2>2. CASE does # "read"
    <3>1. at = <<R(place)>> \o <<W(place)>>
      BY <2>2 DEF At
    <3>2. <<R(place)>> \in Seq(Cycles) /\ <<W(place)>> \in Seq(Cycles)
      BY CyclesTyped
    <3> QED
      BY <3>1, <3>2, ConcatProperties
  <2> QED
    BY <2>1, <2>2
<1> HIDE DEF at
<1>2. /\ body \in Seq(Cycles) /\ Len(body) = Len(before) + Len(at)
      /\ \A k \in 1 .. Len(before) : body[k] = before[k]
      /\ \A k \in 1 .. Len(at) : body[Len(before) + k] = at[k]
  BY <1>1
<1> HIDE DEF body
<1>3. ASSUME NEW k \in 1 .. Len(body), body[k].does = "write"
      PROVE  ReadBefore(body, k)
  <2>1. k > Len(before)
    BY <1>2, <1>3
  <2>2. k = Len(before) + 2 /\ Len(at) = 2
    <3>1. k # Len(before) + 1
      BY <1>1, <1>2, <1>3 DEF R
    <3>2. PICK n \in Nat : n = Len(before)
      BY LenProperties
    <3>3. k \in Nat /\ k > n /\ k # n + 1 /\ k <= n + Len(at)
      BY <1>2, <2>1, <3>1, <3>2
    <3>4. CASE Len(at) = 1
      BY <3>3, <3>4
    <3>5. CASE Len(at) = 2
      BY <3>2, <3>3, <3>5
    <3> QED
      BY <1>1, <3>4, <3>5
  <2>3. body[k] = W(place) /\ body[k - 1] = R(place)
    BY <1>1, <1>2, <2>2
  <2> QED
    BY <2>2, <2>3 DEF ReadBefore, W
<1> QED
  <2>1. Reads(body)
    BY <1>1, <1>2, <1>3 DEF Reads
  <2> QED
    BY <2>1 DEF body, at

\* Cycles followed by those of a branch.
LEMMA TakenReads ==
  ASSUME NEW before, Reads(before), NEW yes \in BOOLEAN
  PROVE  Reads(before \o Taken(yes))
<1> DEFINE at == Taken(yes)
<1> DEFINE body == before \o at
<1>1. at \in Seq(Cycles) /\ \A k \in 1 .. Len(at) : at[k] = I
  <2>1. CASE yes
    <3>1. at = <<I, I>>
      BY <2>1 DEF Taken
    <3> QED
      BY <3>1, CyclesTyped
  <2>2. CASE ~yes
    <3>1. at = <<>>
      BY <2>2 DEF Taken
    <3> QED
      BY <3>1
  <2> QED
    BY <2>1, <2>2
<1> HIDE DEF at
<1>2. /\ body \in Seq(Cycles) /\ Len(body) = Len(before) + Len(at)
      /\ \A k \in 1 .. Len(before) : body[k] = before[k]
      /\ \A k \in 1 .. Len(at) : body[Len(before) + k] = at[k]
  BY <1>1 DEF Reads
<1> HIDE DEF body
<1>3. ASSUME NEW k \in 1 .. Len(body), body[k].does = "write"
      PROVE  ReadBefore(body, k)
  <2>1. k \in 1 .. Len(before)
    <3>1. SUFFICES ASSUME k > Len(before) PROVE FALSE
      BY <1>2 DEF Reads
    <3>2. k - Len(before) \in 1 .. Len(at)
      BY <1>1, <1>2, <3>1 DEF Reads
    <3>3. body[Len(before) + (k - Len(before))] = at[k - Len(before)] /\ at[k - Len(before)] = I
      BY <1>1, <1>2, <3>2
    <3>4. body[k] = I
      BY <3>3 DEF Reads
    <3> QED
      BY <1>3, <3>4 DEF I
  <2>2. ReadBefore(before, k)
    BY <1>2, <1>3, <2>1 DEF Reads
  <2>3. /\ body[k] = before[k]
        /\ k > 1 => body[k - 1] = before[k - 1]
        /\ k > 2 => body[k - 2] = before[k - 2]
    <3>1. Len(before) \in Nat
      BY LenProperties DEF Reads
    <3>2. (k > 1 => k - 1 \in 1 .. Len(before)) /\ (k > 2 => k - 2 \in 1 .. Len(before))
      BY <2>1, <3>1
    <3> QED
      BY <1>2, <2>1, <3>2
  <2>4. CASE k > 1 /\ before[k - 1] = R(before[k].at)
    BY <2>3, <2>4 DEF ReadBefore
  <2>5. CASE k > 2 /\ before[k - 1] = I /\ before[k - 2] = R(before[k].at)
    <3>1. k > 1
      BY <2>5
    <3> QED
      BY <2>3, <2>5, <3>1 DEF ReadBefore
  <2> QED
    BY <2>2, <2>4, <2>5 DEF ReadBefore
<1> QED
  <2>1. Reads(body)
    BY <1>1, <1>2, <1>3 DEF Reads
  <2> QED
    BY <2>1 DEF body, at

OperandModes ==
  {"immediate", "direct", "absolute", "directIndexed", "absoluteIndexed", "indexedIndirect",
   "indirectIndexed", "indirectX", "increment"}

FrameModes == {"call", "pcall", "tcall", "break", "return", "returnInterrupt"}

OtherModes ==
  FrameModes \cup
  {"compareXY", "modifyXY", "compareDirect", "modifyDirect", "moveDirect", "compareImmediate",
   "modifyImmediate", "moveImmediate", "compareWord", "readWord", "modifyWord", "writeWord",
   "orBit", "andBit", "eorBit", "loadBit", "storeBit", "notBit", "setBit", "testSet",
   "branch", "branchBit", "branchNot", "branchNotIndexed", "decrementDirect", "decrementY",
   "jump", "jumpIndirect", "transfer", "implied", "nop", "push", "pushFlags", "pull",
   "pullFlags", "setP", "clearP", "setFlag", "adjust", "sleep", "stop", "exchange", "multiply",
   "divide"}

OperandOps ==
  [does : {"read", "write", "modify"}, mode : OperandModes, index : {"none", "x", "y"},
   target : {"a", "x", "y"}]

RestOps ==
  {o \in [does : {"other"}, mode : OtherModes, index : {"none", "x"}, target : {"a", "x", "y", "s"}] :
     o.mode \in FrameModes => o.target = "a"}

LEMMA OpcodesTyped == Opcodes \subseteq OperandOps \cup RestOps
<1>1. LoadOps \subseteq OperandOps
  BY DEF LoadOps, Ops, OperandOps, OperandModes
<1>2. StoreOps \subseteq OperandOps
  BY DEF StoreOps, Ops, OperandOps, OperandModes
<1>3. OtherOps \subseteq RestOps
  <2> DEFINE plainModes ==
        UNION {DOMAIN TwoOperands, DOMAIN WordOperands, DOMAIN Bits, DOMAIN Calls, DOMAIN Returns,
               DOMAIN Branches(TRUE) \ {"branchNotIndexed"}, {"jump"},
               DOMAIN Implied \ {"transfer", "implied", "pull"}}
  <2>1. plainModes \subseteq OtherModes
    <3>1. /\ DOMAIN TwoOperands \subseteq OtherModes /\ DOMAIN WordOperands \subseteq OtherModes
          /\ DOMAIN Bits \subseteq OtherModes /\ DOMAIN Calls \subseteq OtherModes
      BY DEF TwoOperands, WordOperands, Bits, Calls, OtherModes, FrameModes
    <3>2. /\ DOMAIN Returns \subseteq OtherModes /\ DOMAIN Branches(TRUE) \subseteq OtherModes
          /\ DOMAIN Implied \subseteq OtherModes
      BY DEF Returns, Branches, Implied, OtherModes, FrameModes
    <3>3. "jump" \in OtherModes
      BY DEF OtherModes
    <3> QED
      BY <3>1, <3>2, <3>3
  <2> HIDE DEF plainModes
  <2>2. PlainOps(plainModes) \subseteq RestOps
    BY <2>1 DEF PlainOps, Ops, RestOps
  <2>3. Ops({"other"}, {"branchNotIndexed", "jumpIndirect"}, {"x"}, {"a"}) \subseteq RestOps
    BY DEF Ops, RestOps, OtherModes
  <2>4. Ops({"other"}, {"implied", "pull"}, {"none"}, {"a", "x", "y"}) \subseteq RestOps
    BY DEF Ops, RestOps, OtherModes, FrameModes
  <2>5. Ops({"other"}, {"transfer"}, {"none"}, {"a", "x", "y", "s"}) \subseteq RestOps
    BY DEF Ops, RestOps, OtherModes, FrameModes
  <2> QED
    BY <2>2, <2>3, <2>4, <2>5 DEF OtherOps, plainModes
<1> QED
  BY <1>1, <1>2, <1>3 DEF Opcodes

LEMMA NoOpTyped == NoOp \in PlainOps({"nop"}) /\ NoOp \in RestOps
<1>1. PlainOps({"nop"}) \subseteq RestOps
  BY DEF PlainOps, Ops, RestOps, OtherModes, FrameModes
<1>2. [does |-> "other", mode |-> "nop", index |-> "none", target |-> "a"] \in PlainOps({"nop"})
  BY DEF PlainOps, Ops
<1>3. NoOp \in PlainOps({"nop"})
  BY <1>2 DEF NoOp
<1> QED
  BY <1>1, <1>3

\* The data accesses of every instruction with one operand.
LEMMA DataReads ==
  ASSUME NEW o \in OperandOps, o.mode # "increment"
  PROVE  Reads(Data(o))
<1> DEFINE d == o.does
<1>1. o.mode \in OperandModes
  BY DEF OperandOps
<1> USE CyclesTyped
<1>2. CASE o.mode = "immediate"
  <2>1. Data(o) = <<F>>
    BY <1>2 DEF Data, DirectForms
  <2> QED
    BY <2>1 DEF Reads, F
<1>3. CASE o.mode = "direct"
  <2>1. Data(o) = <<F>> \o At("dp", d)
    BY <1>3 DEF Data, DirectForms
  <2> DEFINE before == <<F>>
  <2>2. before \in Seq(Cycles) /\ \A k \in 1 .. Len(before) : before[k].does # "write"
    BY DEF F
  <2>3. "dp" \in Places
    BY DEF Places
  <2> HIDE DEF before
  <2>4. Reads(before \o At("dp", d))
    BY <2>2, <2>3, OperandReads
  <2> QED
    BY <2>1, <2>4 DEF before
<1>4. CASE o.mode = "directIndexed"
  <2>1. Data(o) = <<F, I>> \o At("dp+i", d)
    BY <1>4 DEF Data, DirectForms
  <2> DEFINE before == <<F, I>>
  <2>2. before \in Seq(Cycles) /\ \A k \in 1 .. Len(before) : before[k].does # "write"
    BY DEF F, I
  <2>3. "dp+i" \in Places
    BY DEF Places
  <2> HIDE DEF before
  <2>4. Reads(before \o At("dp+i", d))
    BY <2>2, <2>3, OperandReads
  <2> QED
    BY <2>1, <2>4 DEF before
<1>5. CASE o.mode = "absolute"
  <2>1. Data(o) = <<F, F>> \o At("abs", d)
    BY <1>5 DEF Data, DirectForms, AbsoluteForms
  <2> DEFINE before == <<F, F>>
  <2>2. before \in Seq(Cycles) /\ \A k \in 1 .. Len(before) : before[k].does # "write"
    BY DEF F
  <2>3. "abs" \in Places
    BY DEF Places
  <2> HIDE DEF before
  <2>4. Reads(before \o At("abs", d))
    BY <2>2, <2>3, OperandReads
  <2> QED
    BY <2>1, <2>4 DEF before
<1>6. CASE o.mode = "absoluteIndexed"
  <2>1. Data(o) = <<F, F, I>> \o At("abs+i", d)
    BY <1>6 DEF Data, DirectForms, AbsoluteForms
  <2> DEFINE before == <<F, F, I>>
  <2>2. before \in Seq(Cycles) /\ \A k \in 1 .. Len(before) : before[k].does # "write"
    BY DEF F, I
  <2>3. "abs+i" \in Places
    BY DEF Places
  <2> HIDE DEF before
  <2>4. Reads(before \o At("abs+i", d))
    BY <2>2, <2>3, OperandReads
  <2> QED
    BY <2>1, <2>4 DEF before
<1>7. CASE o.mode = "indexedIndirect"
  <2>1. Data(o) = <<F, I, R("dp+i"), R("dp+i+1")>> \o At("ptr", d)
    BY <1>7 DEF Data, DirectForms, AbsoluteForms, IndirectForms
  <2> DEFINE before == <<F, I, R("dp+i"), R("dp+i+1")>>
  <2>2. before \in Seq(Cycles) /\ \A k \in 1 .. Len(before) : before[k].does # "write"
    <3>1. F \in Cycles /\ I \in Cycles /\ R("dp+i") \in Cycles /\ R("dp+i+1") \in Cycles
      BY CyclesTyped DEF Places
    <3>2. before \in Seq(Cycles) /\ Len(before) = 4
      BY <3>1
    <3>3. before[1].does # "write" /\ before[2].does # "write" /\ before[3].does # "write" /\ before[4].does # "write"
      BY DEF F, I, R
    <3> QED
      BY <3>2, <3>3
  <2>3. "ptr" \in Places
    BY DEF Places
  <2> HIDE DEF before
  <2>4. Reads(before \o At("ptr", d))
    BY <2>2, <2>3, OperandReads
  <2> QED
    BY <2>1, <2>4 DEF before
<1>8. CASE o.mode = "indirectIndexed"
  <2>1. Data(o) = <<F, R("dp"), R("dp+1"), I>> \o At("ptr+i", d)
    BY <1>8 DEF Data, DirectForms, AbsoluteForms, IndirectForms
  <2> DEFINE before == <<F, R("dp"), R("dp+1"), I>>
  <2>2. before \in Seq(Cycles) /\ \A k \in 1 .. Len(before) : before[k].does # "write"
    <3>1. F \in Cycles /\ R("dp") \in Cycles /\ R("dp+1") \in Cycles /\ I \in Cycles
      BY CyclesTyped DEF Places
    <3>2. before \in Seq(Cycles) /\ Len(before) = 4
      BY <3>1
    <3>3. before[1].does # "write" /\ before[2].does # "write" /\ before[3].does # "write" /\ before[4].does # "write"
      BY DEF F, I, R
    <3> QED
      BY <3>2, <3>3
  <2>3. "ptr+i" \in Places
    BY DEF Places
  <2> HIDE DEF before
  <2>4. Reads(before \o At("ptr+i", d))
    BY <2>2, <2>3, OperandReads
  <2> QED
    BY <2>1, <2>4 DEF before
<1>9. CASE o.mode = "indirectX"
  <2>1. Data(o) = <<I>> \o At("x", d)
    BY <1>9 DEF Data, DirectForms, AbsoluteForms, IndirectForms
  <2> DEFINE before == <<I>>
  <2>2. before \in Seq(Cycles) /\ \A k \in 1 .. Len(before) : before[k].does # "write"
    BY DEF I
  <2>3. "x" \in Places
    BY DEF Places
  <2> HIDE DEF before
  <2>4. Reads(before \o At("x", d))
    BY <2>2, <2>3, OperandReads
  <2> QED
    BY <2>1, <2>4 DEF before
<1> QED
  BY <1>1, <1>2, <1>3, <1>4, <1>5, <1>6, <1>7, <1>8, <1>9 DEF OperandModes

LEMMA PlaceCycles ==
  \A place \in {"dp", "dp+1", "dp+i", "dp+i+1", "x", "y", "abs", "abs+i", "abs+i+1", "bit", "vector"} :
     R(place) \in Cycles /\ W(place) \in Cycles
BY DEF R, W, Cycles

LEMMA TwoOperandsRead ==
  ASSUME NEW m \in DOMAIN TwoOperands, m \notin Unread
  PROVE  Reads(TwoOperands[m])
<1> USE CyclesTyped, PlaceCycles
<1>1. m \in {"compareXY", "modifyXY", "compareDirect", "modifyDirect", "compareImmediate", "modifyImmediate", "moveImmediate"}
  BY DEF TwoOperands, Unread
<1>2. Reads(<<I, R("y"), R("x")>>)
  BY DEF Reads, ReadBefore, I, R
<1>3. Reads(<<I, R("y"), R("x"), W("x")>>)
  BY DEF Reads, ReadBefore, I, R, W
<1>4. Reads(<<F, R("dp"), F, R("dp")>>)
  BY DEF Reads, ReadBefore, F, R
<1>5. Reads(<<F, R("dp"), F, R("dp"), W("dp")>>)
  BY DEF Reads, ReadBefore, F, R, W
<1>6. Reads(<<F, F, R("dp")>>)
  BY DEF Reads, ReadBefore, F, R
<1>7. Reads(<<F, F, R("dp"), W("dp")>>)
  BY DEF Reads, ReadBefore, F, R, W
<1>8. CASE m = "compareXY"
  BY <1>2, <1>8 DEF TwoOperands
<1>9. CASE m = "modifyXY"
  BY <1>3, <1>9 DEF TwoOperands
<1>10. CASE m = "compareDirect"
  BY <1>4, <1>10 DEF TwoOperands
<1>11. CASE m = "modifyDirect"
  BY <1>5, <1>11 DEF TwoOperands
<1>12. CASE m = "compareImmediate"
  BY <1>6, <1>12 DEF TwoOperands
<1>13. CASE m = "modifyImmediate"
  BY <1>7, <1>13 DEF TwoOperands
<1>14. CASE m = "moveImmediate"
  BY <1>7, <1>14 DEF TwoOperands
<1> QED
  BY <1>1, <1>8, <1>9, <1>10, <1>11, <1>12, <1>13, <1>14

LEMMA WordOperandsRead ==
  ASSUME NEW m \in DOMAIN WordOperands, m \notin Unread
  PROVE  Reads(WordOperands[m])
<1> USE CyclesTyped, PlaceCycles
<1>1. m \in {"compareWord", "readWord", "modifyWord"}
  BY DEF WordOperands, Unread
<1>2. Reads(<<F, R("dp"), R("dp+1")>>)
  BY DEF Reads, ReadBefore, F, R
<1>3. Reads(<<F, R("dp"), I, R("dp+1")>>)
  BY DEF Reads, ReadBefore, F, I, R
<1>4. Reads(<<F, R("dp"), W("dp"), R("dp+1"), W("dp+1")>>)
  BY DEF Reads, ReadBefore, F, R, W
<1>5. CASE m = "compareWord"
  BY <1>2, <1>5 DEF WordOperands
<1>6. CASE m = "readWord"
  BY <1>3, <1>6 DEF WordOperands
<1>7. CASE m = "modifyWord"
  BY <1>4, <1>7 DEF WordOperands
<1> QED
  BY <1>1, <1>5, <1>6, <1>7

LEMMA BitsRead ==
  ASSUME NEW m \in DOMAIN Bits
  PROVE  Reads(Bits[m])
<1> USE CyclesTyped, PlaceCycles
<1>1. m \in {"orBit", "andBit", "eorBit", "loadBit", "storeBit", "notBit", "setBit", "testSet"}
  BY DEF Bits
<1>2. Reads(<<F, F, R("bit"), I>>)
  BY DEF Reads, ReadBefore, F, I, R
<1>3. Reads(<<F, F, R("bit")>>)
  BY DEF Reads, ReadBefore, F, R
<1>4. Reads(<<F, F, R("bit"), I, W("bit")>>)
  BY DEF Reads, ReadBefore, F, I, R, W
<1>5. Reads(<<F, F, R("bit"), W("bit")>>)
  BY DEF Reads, ReadBefore, F, R, W
<1>6. Reads(<<F, R("dp"), W("dp")>>)
  BY DEF Reads, ReadBefore, F, R, W
<1>7. Reads(<<F, F, R("abs"), R("abs"), W("abs")>>)
  BY DEF Reads, ReadBefore, F, R, W
<1>8. CASE m = "orBit"
  BY <1>2, <1>8 DEF Bits
<1>9. CASE m = "andBit"
  BY <1>3, <1>9 DEF Bits
<1>10. CASE m = "eorBit"
  BY <1>2, <1>10 DEF Bits
<1>11. CASE m = "loadBit"
  BY <1>3, <1>11 DEF Bits
<1>12. CASE m = "storeBit"
  BY <1>4, <1>12 DEF Bits
<1>13. CASE m = "notBit"
  BY <1>5, <1>13 DEF Bits
<1>14. CASE m = "setBit"
  BY <1>6, <1>14 DEF Bits
<1>15. CASE m = "testSet"
  BY <1>7, <1>15 DEF Bits
<1> QED
  BY <1>1, <1>8, <1>9, <1>10, <1>11, <1>12, <1>13, <1>14, <1>15

LEMMA JumpsRead ==
  ASSUME NEW m \in DOMAIN Jumps
  PROVE  Reads(Jumps[m])
<1> USE CyclesTyped, PlaceCycles
<1>1. m \in {"jump", "jumpIndirect"}
  BY DEF Jumps
<1>2. Reads(<<F, F>>)
  BY DEF Reads, ReadBefore, F
<1>3. Reads(<<F, F, I, R("abs+i"), R("abs+i+1")>>)
  BY DEF Reads, ReadBefore, F, I, R
<1>4. CASE m = "jump"
  BY <1>2, <1>4 DEF Jumps
<1>5. CASE m = "jumpIndirect"
  BY <1>3, <1>5 DEF Jumps
<1> QED
  BY <1>1, <1>4, <1>5

LEMMA BranchesRead ==
  ASSUME NEW yes \in BOOLEAN, NEW m \in DOMAIN Branches(yes)
  PROVE  Reads(Branches(yes)[m])
<1> USE CyclesTyped, PlaceCycles
<1>1. m \in {"branch", "branchBit", "branchNot", "branchNotIndexed", "decrementDirect", "decrementY"}
  BY DEF Branches
<1>2. Reads(<<F>>)
  BY DEF Reads, ReadBefore, F
<1>3. Reads(<<F, R("dp"), I, F>>)
  BY DEF Reads, ReadBefore, F, I, R
<1>4. Reads(<<F, I, R("dp+i"), I, F>>)
  BY DEF Reads, ReadBefore, F, I, R
<1>5. Reads(<<F, R("dp"), W("dp"), F>>)
  BY DEF Reads, ReadBefore, F, R, W
<1>6. Reads(<<I, I, F>>)
  BY DEF Reads, ReadBefore, F, I
<1>7. CASE m = "branch"
  <2>1. Reads(<<F>> \o Taken(yes))
    BY <1>2, TakenReads
  <2> QED
    BY <1>7, <2>1 DEF Branches
<1>8. CASE m = "branchBit"
  <2>1. Reads(<<F, R("dp"), I, F>> \o Taken(yes))
    BY <1>3, TakenReads
  <2> QED
    BY <1>8, <2>1 DEF Branches
<1>9. CASE m = "branchNot"
  <2>1. Reads(<<F, R("dp"), I, F>> \o Taken(yes))
    BY <1>3, TakenReads
  <2> QED
    BY <1>9, <2>1 DEF Branches
<1>10. CASE m = "branchNotIndexed"
  <2>1. Reads(<<F, I, R("dp+i"), I, F>> \o Taken(yes))
    BY <1>4, TakenReads
  <2> QED
    BY <1>10, <2>1 DEF Branches
<1>11. CASE m = "decrementDirect"
  <2>1. Reads(<<F, R("dp"), W("dp"), F>> \o Taken(yes))
    BY <1>5, TakenReads
  <2> QED
    BY <1>11, <2>1 DEF Branches
<1>12. CASE m = "decrementY"
  <2>1. Reads(<<I, I, F>> \o Taken(yes))
    BY <1>6, TakenReads
  <2> QED
    BY <1>12, <2>1 DEF Branches
<1> QED
  BY <1>1, <1>7, <1>8, <1>9, <1>10, <1>11, <1>12

LEMMA IdleReads ==
  ASSUME NEW n \in Nat \ {0}
  PROVE  Reads(Idle(n))
<1>1. Idle(n) \in Seq(Cycles) /\ Len(Idle(n)) = n /\ \A k \in 1 .. n : Idle(n)[k] = I
  BY CyclesTyped DEF Idle
<1> QED
  BY <1>1 DEF Reads, I

LEMMA ImpliedRead ==
  ASSUME NEW m \in DOMAIN Implied
  PROVE  Reads(Implied[m])
<1>1. CASE m \in {"push", "pushFlags", "pull", "pullFlags"}
  <2>1. /\ Reads(<<I, I, Push("data")>>) /\ Reads(<<I, I, Push("flags")>>)
        /\ Reads(<<I, I, Pull("data")>>) /\ Reads(<<I, I, Pull("flags")>>)
    BY CyclesTyped DEF Reads, I, Push, Pull
  <2> QED
    BY <1>1, <2>1 DEF Implied
<1>2. CASE m \notin {"push", "pushFlags", "pull", "pullFlags"}
  <2>1. \E n \in {1, 2, 4, 9, 12} : Implied[m] = Idle(n)
    BY <1>2 DEF Implied
  <2> QED
    BY <2>1, IdleReads
<1> QED
  BY <1>1, <1>2

(***************************************************************************)
(* Calls and returns.                                                      *)
(***************************************************************************)
PushOrder == <<"pcHigh", "pcLow", "flags">>

\* The cycles before the first push of a call, and what a call pushes or a return pulls.
Leading(m) == IF m \in {"pcall", "tcall"} THEN 2 ELSE 3
FrameSize(m) == IF m \in {"break", "returnInterrupt"} THEN 3 ELSE 2

CallShape(m, body) ==
  /\ Len(body) > Leading(m) + FrameSize(m)
  /\ \A k \in 1 .. Len(body) :
       IF k \in Leading(m) + 1 .. Leading(m) + FrameSize(m)
       THEN body[k] = Push(PushOrder[k - Leading(m)])
       ELSE body[k].does \notin {"push", "pull"}

ReturnShape(m, body) ==
  /\ Len(body) = FrameSize(m) + 2 /\ body[1] = I /\ body[2] = I
  /\ \A k \in 3 .. FrameSize(m) + 2 : body[k] = Pull(PushOrder[FrameSize(m) + 3 - k])

LEMMA Twice ==
  ASSUME NEW a \in Seq(Cycles), NEW b \in Seq(Cycles)
  PROVE  /\ a \o b \in Seq(Cycles) /\ Len(a \o b) = Len(a) + Len(b)
         /\ \A k \in 1 .. Len(a) : (a \o b)[k] = a[k]
         /\ \A k \in 1 .. Len(b) : (a \o b)[Len(a) + k] = b[k]
BY ConcatProperties, LenProperties

LEMMA Thrice ==
  ASSUME NEW a \in Seq(Cycles), NEW b \in Seq(Cycles), NEW c \in Seq(Cycles)
  PROVE  /\ a \o b \o c \in Seq(Cycles) /\ Len(a \o b \o c) = Len(a) + Len(b) + Len(c)
         /\ \A k \in 1 .. Len(a) : (a \o b \o c)[k] = a[k]
         /\ \A k \in 1 .. Len(b) : (a \o b \o c)[Len(a) + k] = b[k]
         /\ \A k \in 1 .. Len(c) : (a \o b \o c)[Len(a) + Len(b) + k] = c[k]
<1>1. /\ a \o b \in Seq(Cycles) /\ Len(a \o b) = Len(a) + Len(b)
      /\ \A k \in 1 .. Len(a) : (a \o b)[k] = a[k]
      /\ \A k \in 1 .. Len(b) : (a \o b)[Len(a) + k] = b[k]
  BY Twice
<1> DEFINE ab == a \o b
<1> HIDE DEF ab
<1>2. ASSUME ab \in Seq(Cycles)
      PROVE  /\ ab \o c \in Seq(Cycles) /\ Len(ab \o c) = Len(ab) + Len(c)
             /\ \A k \in 1 .. Len(ab) : (ab \o c)[k] = ab[k]
             /\ \A k \in 1 .. Len(c) : (ab \o c)[Len(ab) + k] = c[k]
  BY <1>2, Twice
<1>3. /\ ab \in Seq(Cycles) /\ Len(ab) = Len(a) + Len(b)
      /\ \A k \in 1 .. Len(a) : ab[k] = a[k]
      /\ \A k \in 1 .. Len(b) : ab[Len(a) + k] = b[k]
  BY <1>1 DEF ab
<1>4. Len(a) \in Nat /\ Len(b) \in Nat
  BY LenProperties
<1>5. /\ ab \o c \in Seq(Cycles) /\ Len(ab \o c) = Len(a) + Len(b) + Len(c)
      /\ \A k \in 1 .. Len(a) : (ab \o c)[k] = a[k]
      /\ \A k \in 1 .. Len(b) : (ab \o c)[Len(a) + k] = b[k]
      /\ \A k \in 1 .. Len(c) : (ab \o c)[Len(a) + Len(b) + k] = c[k]
  BY <1>2, <1>3, <1>4
<1> QED
  BY <1>5 DEF ab

\* What a call is made of: the cycles around its pushes.
LEMMA CallIs ==
  ASSUME NEW m \in {"call", "pcall", "tcall", "break"},
         NEW a \in Seq(Cycles), NEW b \in Seq(Cycles), NEW c \in Seq(Cycles),
         Calls[m] = a \o b \o c, Len(a) = Leading(m), Len(b) = FrameSize(m), Len(c) > 0,
         \A k \in 1 .. Len(a) : a[k].does \notin {"push", "pull", "write"},
         \A k \in 1 .. Len(c) : c[k].does \notin {"push", "pull", "write"},
         \A k \in 1 .. Len(b) : b[k] = Push(PushOrder[k])
  PROVE  CallShape(m, Calls[m]) /\ Reads(Calls[m])
<1> DEFINE body == a \o b \o c
<1>1. /\ body \in Seq(Cycles) /\ Len(body) = Len(a) + Len(b) + Len(c)
      /\ \A k \in 1 .. Len(a) : body[k] = a[k]
      /\ \A k \in 1 .. Len(b) : body[Len(a) + k] = b[k]
      /\ \A k \in 1 .. Len(c) : body[Len(a) + Len(b) + k] = c[k]
  BY Thrice
<1>2. Len(a) \in Nat /\ Len(b) \in Nat /\ Len(c) \in Nat
  BY LenProperties
<1> HIDE DEF body
<1>3. ASSUME NEW k \in 1 .. Len(body)
      PROVE  /\ k <= Len(a) => body[k].does \notin {"push", "pull", "write"}
             /\ k > Len(a) + Len(b) => body[k].does \notin {"push", "pull", "write"}
             /\ Len(a) < k /\ k <= Len(a) + Len(b) => body[k] = Push(PushOrder[k - Len(a)])
  <2>1. CASE k <= Len(a)
    BY <1>1, <1>2, <2>1
  <2>2. CASE Len(a) < k /\ k <= Len(a) + Len(b)
    <3>1. PICK i \in 1 .. Len(b) : k = Len(a) + i /\ i = k - Len(a)
      <4>1. k - Len(a) \in 1 .. Len(b) /\ k = Len(a) + (k - Len(a))
        BY <1>2, <2>2
      <4> QED
        BY <4>1
    <3>2. body[k] = Push(PushOrder[i])
      BY <1>1, <3>1
    <3> QED
      BY <1>2, <2>2, <3>1, <3>2
  <2>3. CASE k > Len(a) + Len(b)
    <3>1. PICK i \in 1 .. Len(c) : k = Len(a) + Len(b) + i
      <4>1. k - (Len(a) + Len(b)) \in 1 .. Len(c) /\ k = Len(a) + Len(b) + (k - (Len(a) + Len(b)))
        BY <1>1, <1>2, <2>3
      <4> QED
        BY <4>1
    <3>2. body[k] = c[i]
      BY <1>1, <3>1
    <3> QED
      BY <1>2, <2>3, <3>1, <3>2
  <2> QED
    BY <1>2, <2>1, <2>2, <2>3
<1>4. CallShape(m, body)
  BY <1>1, <1>2, <1>3 DEF CallShape
<1>5. Reads(body)
  <2>1. ASSUME NEW k \in 1 .. Len(body)
        PROVE  body[k].does # "write"
    <3>1. k <= Len(a) \/ k > Len(a) + Len(b) \/ (Len(a) < k /\ k <= Len(a) + Len(b))
      BY <1>2
    <3>2. \A what : Push(what).does # "write"
      BY DEF Push
    <3> QED
      BY <1>3, <3>1, <3>2
  <2>2. Len(body) > 0
    BY <1>1, <1>2
  <2> QED
    BY <1>1, <2>1, <2>2 DEF Reads
<1> QED
  BY <1>4, <1>5 DEF body

LEMMA CallsShaped ==
  ASSUME NEW m \in DOMAIN Calls
  PROVE  CallShape(m, Calls[m]) /\ Reads(Calls[m])
<1> USE CyclesTyped, PlaceCycles
<1>1. /\ PushPC \in Seq(Cycles) /\ Len(PushPC) = 2
      /\ \A k \in 1 .. 2 : PushPC[k] = Push(PushOrder[k])
  BY DEF PushPC, PushOrder
<1>2. CASE m = "call"
  <2> DEFINE a == <<F, F, I>>
  <2> DEFINE c == <<I, I>>
  <2>1. a \in Seq(Cycles) /\ c \in Seq(Cycles) /\ Len(a) = Leading(m) /\ Len(PushPC) = FrameSize(m)
        /\ Len(c) > 0
    BY <1>1, <1>2 DEF Leading, FrameSize
  <2>2. /\ \A k \in 1 .. Len(a) : a[k].does \notin {"push", "pull", "write"}
        /\ \A k \in 1 .. Len(c) : c[k].does \notin {"push", "pull", "write"}
    BY DEF F, I
  <2>3. Calls[m] = a \o PushPC \o c
    BY <1>2 DEF Calls
  <2> HIDE DEF a, c
  <2>4. m \in {"call", "pcall", "tcall", "break"}
    BY <1>2
  <2> QED
    BY <1>1, <2>1, <2>2, <2>3, <2>4, CallIs
<1>3. CASE m = "pcall"
  <2> DEFINE a == <<F, I>>
  <2> DEFINE c == <<I>>
  <2>1. a \in Seq(Cycles) /\ c \in Seq(Cycles) /\ Len(a) = Leading(m) /\ Len(PushPC) = FrameSize(m)
        /\ Len(c) > 0
    BY <1>1, <1>3 DEF Leading, FrameSize
  <2>2. /\ \A k \in 1 .. Len(a) : a[k].does \notin {"push", "pull", "write"}
        /\ \A k \in 1 .. Len(c) : c[k].does \notin {"push", "pull", "write"}
    BY DEF F, I
  <2>3. Calls[m] = a \o PushPC \o c
    BY <1>3 DEF Calls
  <2> HIDE DEF a, c
  <2>4. m \in {"call", "pcall", "tcall", "break"}
    BY <1>3
  <2> QED
    BY <1>1, <2>1, <2>2, <2>3, <2>4, CallIs
<1>4. CASE m = "tcall"
  <2> DEFINE a == <<I, I>>
  <2> DEFINE c == <<I, R("vector"), R("vector")>>
  <2>1. a \in Seq(Cycles) /\ c \in Seq(Cycles) /\ Len(a) = Leading(m) /\ Len(PushPC) = FrameSize(m)
        /\ Len(c) > 0
    BY <1>1, <1>4 DEF Leading, FrameSize
  <2>2. /\ \A k \in 1 .. Len(a) : a[k].does \notin {"push", "pull", "write"}
        /\ \A k \in 1 .. Len(c) : c[k].does \notin {"push", "pull", "write"}
    BY DEF F, I, R
  <2>3. Calls[m] = a \o PushPC \o c
    BY <1>4 DEF Calls
  <2> HIDE DEF a, c
  <2>4. m \in {"call", "pcall", "tcall", "break"}
    BY <1>4
  <2> QED
    BY <1>1, <2>1, <2>2, <2>3, <2>4, CallIs
<1>5. CASE m = "break"
  <2> DEFINE a == <<R("vector"), R("vector"), I>>
  <2> DEFINE c == <<Push("flags"), I>>
  <2> DEFINE b == PushPC \o <<Push("flags")>>
  <2>1. a \in Seq(Cycles) /\ <<I>> \in Seq(Cycles) /\ Len(a) = Leading(m) /\ Len(<<I>>) > 0
    BY <1>5 DEF Leading
  <2>2. /\ \A k \in 1 .. Len(a) : a[k].does \notin {"push", "pull", "write"}
        /\ \A k \in 1 .. Len(<<I>>) : <<I>>[k].does \notin {"push", "pull", "write"}
    BY DEF I, R
  <2>3. /\ b \in Seq(Cycles) /\ Len(b) = FrameSize(m) /\ \A k \in 1 .. Len(b) : b[k] = Push(PushOrder[k])
    <3>1. <<Push("flags")>> \in Seq(Cycles) /\ Len(<<Push("flags")>>) = 1
          /\ <<Push("flags")>>[1] = Push(PushOrder[3])
      BY DEF PushOrder
    <3> HIDE DEF PushPC
    <3>2. b \in Seq(Cycles) /\ Len(b) = 3 /\ b[1] = PushPC[1] /\ b[2] = PushPC[2]
          /\ b[3] = <<Push("flags")>>[1]
      <4> DEFINE f == <<Push("flags")>>
      <4>1. f \in Seq(Cycles) /\ Len(f) = 1
        BY <3>1
      <4> HIDE DEF f
      <4>2. /\ PushPC \o f \in Seq(Cycles) /\ Len(PushPC \o f) = Len(PushPC) + Len(f)
            /\ \A k \in 1 .. Len(PushPC) : (PushPC \o f)[k] = PushPC[k]
            /\ \A k \in 1 .. Len(f) : (PushPC \o f)[Len(PushPC) + k] = f[k]
        BY ONLY <1>1, <4>1, Twice
      <4> DEFINE both == PushPC \o f
      <4> HIDE DEF both
      <4>3. both \in Seq(Cycles) /\ Len(both) = 3 /\ both[1] = PushPC[1] /\ both[2] = PushPC[2]
            /\ both[3] = f[1]
        <5>1. /\ both \in Seq(Cycles) /\ Len(both) = Len(PushPC) + Len(f)
              /\ \A k \in 1 .. Len(PushPC) : both[k] = PushPC[k]
              /\ \A k \in 1 .. Len(f) : both[Len(PushPC) + k] = f[k]
          BY <4>2 DEF both
        <5> QED
          BY <1>1, <4>1, <5>1
      <4> QED
        BY <4>3 DEF both, f
    <3>3. \A k \in 1 .. 3 : b[k] = Push(PushOrder[k])
      BY <1>1, <3>1, <3>2
    <3> QED
      BY <1>5, <3>2, <3>3 DEF FrameSize
  <2>4. Calls[m] = a \o b \o <<I>>
    <3>1. Calls[m] = a \o PushPC \o c
      BY <1>5 DEF Calls
    <3>2. <<Push("flags")>> \in Seq(Cycles) /\ c = <<Push("flags")>> \o <<I>>
      <4>1. <<Push("flags")>> \in Seq(Cycles) /\ <<I>> \in Seq(Cycles) /\ c \in Seq(Cycles)
        OBVIOUS
      <4> DEFINE t == <<Push("flags")>> \o <<I>>
      <4>2. t \in Seq(Cycles) /\ Len(t) = 2 /\ t[1] = Push("flags") /\ t[2] = I
        BY <4>1, ConcatProperties
      <4> HIDE DEF t
      <4>3. Len(c) = Len(t) /\ \A i \in 1 .. Len(c) : c[i] = t[i]
        BY <4>2
      <4>4. c = t
        BY <4>1, <4>2, <4>3, SeqEqual
      <4> QED
        BY <4>1, <4>4 DEF t
    <3>3. PushPC \o (<<Push("flags")>> \o <<I>>) = b \o <<I>>
      BY <1>1, <2>1, <3>2, ConcatAssociative
    <3>4. a \o PushPC \o c = a \o (PushPC \o c)
      BY <1>1, <2>1, <3>2, ConcatAssociative, CyclesTyped
    <3>5. a \o (b \o <<I>>) = a \o b \o <<I>>
      BY <2>1, <2>3, ConcatAssociative
    <3> QED
      BY <3>1, <3>2, <3>3, <3>4, <3>5
  <2>5. m \in {"call", "pcall", "tcall", "break"}
    BY <1>5
  <2> HIDE DEF a, b
  <2> QED
    BY <2>1, <2>2, <2>3, <2>4, <2>5, CallIs
<1> QED
  BY <1>2, <1>3, <1>4, <1>5 DEF Calls

LEMMA ReturnsShaped ==
  ASSUME NEW m \in DOMAIN Returns
  PROVE  ReturnShape(m, Returns[m]) /\ Reads(Returns[m])
<1> USE CyclesTyped
<1>1. /\ PullPC \in Seq(Cycles) /\ Len(PullPC) = 2
      /\ PullPC[1] = Pull("pcLow") /\ PullPC[2] = Pull("pcHigh")
  BY DEF PullPC
<1>2. CASE m = "return"
  <2> DEFINE a == <<I, I>>
  <2> DEFINE body == a \o PullPC
  <2>1. a \in Seq(Cycles) /\ Len(a) = 2 /\ a[1] = I /\ a[2] = I
    OBVIOUS
  <2> HIDE DEF a
  <2>2. body \in Seq(Cycles) /\ Len(body) = 4 /\ body[1] = I /\ body[2] = I
        /\ body[3] = Pull("pcLow") /\ body[4] = Pull("pcHigh")
    <3>0. /\ body \in Seq(Cycles) /\ Len(body) = Len(a) + Len(PullPC)
          /\ \A k \in 1 .. Len(a) : body[k] = a[k]
          /\ \A k \in 1 .. Len(PullPC) : body[Len(a) + k] = PullPC[k]
      BY ONLY <1>1, <2>1, Twice
    <3> HIDE DEF body
    <3>1. body \in Seq(Cycles) /\ Len(body) = 4
      BY <1>1, <2>1, <3>0
    <3>2. body[1] = a[1] /\ body[2] = a[2]
      BY <1>1, <2>1, <3>0
    <3>3. body[Len(a) + 1] = PullPC[1] /\ body[Len(a) + 2] = PullPC[2]
      BY <1>1, <2>1, <3>0
    <3> QED
      BY <1>1, <2>1, <3>1, <3>2, <3>3
  <2>3. Returns[m] = body
    BY <1>2 DEF Returns, a
  <2> HIDE DEF body
  <2>4. Reads(body)
    BY <2>2 DEF Reads, I, Pull
  <2>5. ReturnShape(m, body)
    <3>1. FrameSize(m) = 2
      BY <1>2 DEF FrameSize
    <3> QED
      BY <2>2, <3>1 DEF ReturnShape, PushOrder
  <2> QED
    BY <2>3, <2>4, <2>5
<1>3. CASE m = "returnInterrupt"
  <2> DEFINE a == <<I, I, Pull("flags")>>
  <2> DEFINE body == a \o PullPC
  <2>1. a \in Seq(Cycles) /\ Len(a) = 3 /\ a[1] = I /\ a[2] = I /\ a[3] = Pull("flags")
    OBVIOUS
  <2> HIDE DEF a
  <2>2. body \in Seq(Cycles) /\ Len(body) = 5 /\ body[1] = I /\ body[2] = I
        /\ body[3] = Pull("flags") /\ body[4] = Pull("pcLow") /\ body[5] = Pull("pcHigh")
    <3>0. /\ body \in Seq(Cycles) /\ Len(body) = Len(a) + Len(PullPC)
          /\ \A k \in 1 .. Len(a) : body[k] = a[k]
          /\ \A k \in 1 .. Len(PullPC) : body[Len(a) + k] = PullPC[k]
      BY ONLY <1>1, <2>1, Twice
    <3> HIDE DEF body
    <3>1. body \in Seq(Cycles) /\ Len(body) = 5
      BY <1>1, <2>1, <3>0
    <3>2. body[1] = a[1] /\ body[2] = a[2] /\ body[3] = a[3]
      BY <1>1, <2>1, <3>0
    <3>3. body[Len(a) + 1] = PullPC[1] /\ body[Len(a) + 2] = PullPC[2]
      BY <1>1, <2>1, <3>0
    <3> QED
      BY <1>1, <2>1, <3>1, <3>2, <3>3
  <2>3. Returns[m] = body
    BY <1>3 DEF Returns, a
  <2> HIDE DEF body
  <2>4. Reads(body)
    BY <2>2 DEF Reads, I, Pull
  <2>5. ReturnShape(m, body)
    <3>1. FrameSize(m) = 3
      BY <1>3 DEF FrameSize
    <3> QED
      BY <2>2, <3>1 DEF ReturnShape, PushOrder
  <2> QED
    BY <2>3, <2>4, <2>5
<1> QED
  BY <1>2, <1>3 DEF Returns

(***************************************************************************)
(* The cycles of every instruction.                                        *)
(***************************************************************************)
LEMMA BodyShaped ==
  ASSUME NEW o \in OperandOps \cup RestOps, NEW yes \in BOOLEAN
  PROVE  /\ Body(o, yes) \in Seq(Cycles) /\ Len(Body(o, yes)) > 0
         /\ o.mode \notin Unread => Reads(Body(o, yes))
         /\ o.mode \in DOMAIN Calls => CallShape(o.mode, Body(o, yes))
         /\ o.mode \in DOMAIN Returns => ReturnShape(o.mode, Body(o, yes))
<1> DEFINE m == o.mode
<1> USE CyclesTyped, PlaceCycles
<1>1. CASE o \in OperandOps
  <2>1. Body(o, yes) = Data(o)
    BY <1>1 DEF Body, OperandOps
  <2>2. m \notin DOMAIN Calls /\ m \notin DOMAIN Returns
    BY <1>1 DEF OperandOps, OperandModes, Calls, Returns
  <2>3. CASE m # "increment"
    <3>1. Reads(Data(o))
      BY <1>1, <2>3, DataReads
    <3> QED
      BY <2>1, <2>2, <3>1 DEF Reads
  <2>4. CASE m = "increment"
    <3>1. Data(o) = <<I, R("x")>> \/ Data(o) = <<I, I, W("x")>>
      BY <2>4 DEF Data, DirectForms, AbsoluteForms, IndirectForms, IncrementForms
    <3>2. /\ <<I, R("x")>> \in Seq(Cycles) /\ Len(<<I, R("x")>>) > 0
          /\ <<I, I, W("x")>> \in Seq(Cycles) /\ Len(<<I, I, W("x")>>) > 0
      OBVIOUS
    <3> QED
      BY <2>1, <2>2, <2>4, <3>1, <3>2 DEF Unread
  <2> QED
    BY <2>3, <2>4
<1>2. CASE o \in RestOps
  <2>1. o.does = "other" /\ m \in OtherModes
    BY <1>2 DEF RestOps
  <2>2. CASE m \in DOMAIN TwoOperands
    <3>1. Body(o, yes) = TwoOperands[m]
      BY <2>1, <2>2 DEF Body
    <3>2. m \notin DOMAIN Calls /\ m \notin DOMAIN Returns
      BY <2>2 DEF TwoOperands, Calls, Returns
    <3>3. CASE m \notin Unread
      BY <2>2, <3>1, <3>2, <3>3, TwoOperandsRead DEF Reads
    <3>4. CASE m \in Unread
      <4>1. TwoOperands[m] = <<F, R("dp"), F, W("dp")>>
        BY <2>2, <3>4 DEF TwoOperands, Unread
      <4>2. <<F, R("dp"), F, W("dp")>> \in Seq(Cycles) /\ Len(<<F, R("dp"), F, W("dp")>>) > 0
        OBVIOUS
      <4> QED
        BY <3>1, <3>2, <3>4, <4>1, <4>2
    <3> QED
      BY <3>3, <3>4
  <2>3. CASE m \in DOMAIN WordOperands
    <3>1. Body(o, yes) = WordOperands[m]
      BY <2>1, <2>3 DEF Body, TwoOperands, WordOperands
    <3>2. m \notin DOMAIN Calls /\ m \notin DOMAIN Returns
      BY <2>3 DEF WordOperands, Calls, Returns
    <3>3. CASE m \notin Unread
      BY <2>3, <3>1, <3>2, <3>3, WordOperandsRead DEF Reads
    <3>4. CASE m \in Unread
      <4>1. WordOperands[m] = <<F, R("dp"), W("dp"), W("dp+1")>>
        BY <2>3, <3>4 DEF WordOperands, Unread
      <4>2. /\ <<F, R("dp"), W("dp"), W("dp+1")>> \in Seq(Cycles)
            /\ Len(<<F, R("dp"), W("dp"), W("dp+1")>>) > 0
        OBVIOUS
      <4> QED
        BY <3>1, <3>2, <3>4, <4>1, <4>2
    <3> QED
      BY <3>3, <3>4
  <2>4. CASE m \in DOMAIN Bits
    <3>1. Body(o, yes) = Bits[m]
      BY <2>1, <2>4 DEF Body, TwoOperands, WordOperands, Bits
    <3>2. m \notin DOMAIN Calls /\ m \notin DOMAIN Returns
      BY <2>4 DEF Bits, Calls, Returns
    <3> QED
      BY <2>4, <3>1, <3>2, BitsRead DEF Reads
  <2>5. CASE m \in DOMAIN Calls
    <3>1. Body(o, yes) = Calls[m]
      BY <2>1, <2>5 DEF Body, TwoOperands, WordOperands, Bits, Calls
    <3>2. m \notin DOMAIN Returns
      BY <2>5 DEF Calls, Returns
    <3> QED
      BY <2>5, <3>1, <3>2, CallsShaped DEF Reads
  <2>6. CASE m \in DOMAIN Returns
    <3>1. Body(o, yes) = Returns[m]
      BY <2>1, <2>6 DEF Body, TwoOperands, WordOperands, Bits, Calls, Returns
    <3>2. m \notin DOMAIN Calls
      BY <2>6 DEF Calls, Returns
    <3> QED
      BY <2>6, <3>1, <3>2, ReturnsShaped DEF Reads
  <2>7. CASE m \in DOMAIN Jumps
    <3>1. Body(o, yes) = Jumps[m]
      BY <2>1, <2>7 DEF Body, TwoOperands, WordOperands, Bits, Calls, Returns, Jumps
    <3>2. m \notin DOMAIN Calls /\ m \notin DOMAIN Returns
      BY <2>7 DEF Jumps, Calls, Returns
    <3> QED
      BY <2>7, <3>1, <3>2, JumpsRead DEF Reads
  <2>8. CASE m \in DOMAIN Implied
    <3>0. /\ m \notin DOMAIN TwoOperands /\ m \notin DOMAIN WordOperands /\ m \notin DOMAIN Bits
          /\ m \notin DOMAIN Calls /\ m \notin DOMAIN Returns /\ m \notin DOMAIN Jumps
      <4>1. m \notin DOMAIN TwoOperands /\ m \notin DOMAIN WordOperands /\ m \notin DOMAIN Bits
        BY <2>8 DEF Implied, TwoOperands, WordOperands, Bits
      <4>2. m \notin DOMAIN Calls /\ m \notin DOMAIN Returns /\ m \notin DOMAIN Jumps
        BY <2>8 DEF Implied, Calls, Returns, Jumps
      <4> QED
        BY <4>1, <4>2
    <3>1. Body(o, yes) = Implied[m]
      BY <2>1, <2>8, <3>0 DEF Body
    <3>2. m \notin DOMAIN Calls /\ m \notin DOMAIN Returns
      BY <2>8 DEF Implied, Calls, Returns
    <3> QED
      BY <2>8, <3>1, <3>2, ImpliedRead DEF Reads
  <2>9. CASE m \in DOMAIN Branches(yes)
    <3>0. /\ m \notin DOMAIN TwoOperands /\ m \notin DOMAIN WordOperands /\ m \notin DOMAIN Bits
          /\ m \notin DOMAIN Calls /\ m \notin DOMAIN Returns /\ m \notin DOMAIN Jumps
          /\ m \notin DOMAIN Implied
      <4>1. m \notin DOMAIN TwoOperands /\ m \notin DOMAIN WordOperands /\ m \notin DOMAIN Bits
        BY <2>9 DEF Branches, TwoOperands, WordOperands, Bits
      <4>2. m \notin DOMAIN Calls /\ m \notin DOMAIN Returns /\ m \notin DOMAIN Jumps
        BY <2>9 DEF Branches, Calls, Returns, Jumps
      <4>3. m \notin DOMAIN Implied
        BY <2>9 DEF Branches, Implied
      <4> QED
        BY <4>1, <4>2, <4>3
    <3>1. Body(o, yes) = Branches(yes)[m]
      BY <2>1, <2>9, <3>0 DEF Body
    <3>2. m \notin DOMAIN Calls /\ m \notin DOMAIN Returns
      BY <2>9 DEF Branches, Calls, Returns
    <3> QED
      BY <2>9, <3>1, <3>2, BranchesRead DEF Reads
  <2>10. \/ m \in DOMAIN TwoOperands \/ m \in DOMAIN WordOperands \/ m \in DOMAIN Bits
         \/ m \in DOMAIN Calls \/ m \in DOMAIN Returns \/ m \in DOMAIN Jumps
         \/ m \in DOMAIN Implied \/ m \in DOMAIN Branches(yes)
    BY <2>1 DEF OtherModes, FrameModes, TwoOperands, WordOperands, Bits, Calls, Returns, Jumps,
       Implied, Branches
  <2> QED
    BY <2>2, <2>3, <2>4, <2>5, <2>6, <2>7, <2>8, <2>9, <2>10
<1> QED
  BY <1>1, <1>2

(***************************************************************************)
(* What an instruction has done when it has made some of its cycles.       *)
(***************************************************************************)
\* A sequence, of whatever it holds.
Sequence(s) == s \in Seq({s[i] : i \in 1 .. Len(s)})

LEMMA SequenceGrows ==
  ASSUME NEW s, Sequence(s), NEW e
  PROVE  /\ Sequence(s \o <<e>>) /\ Len(s) \in Nat /\ Len(s \o <<e>>) = Len(s) + 1
         /\ (s \o <<e>>)[Len(s) + 1] = e /\ s \o <<e>> # <<>>
         /\ \A i \in 1 .. Len(s) : (s \o <<e>>)[i] = s[i]
<1> DEFINE S == {s[i] : i \in 1 .. Len(s)} \cup {e}
<1> DEFINE t == s \o <<e>>
<1>1. s \in Seq(S)
  BY SeqMonotonic DEF Sequence
<1>2. <<e>> \in Seq(S) /\ Len(<<e>>) = 1 /\ <<e>>[1] = e
  <2>1. e \in S
    OBVIOUS
  <2> HIDE DEF S
  <2> QED
    BY <2>1
<1> HIDE DEF S
<1>3. /\ t \in Seq(S) /\ Len(s) \in Nat /\ Len(t) = Len(s) + 1
      /\ t[Len(s) + 1] = e /\ \A i \in 1 .. Len(s) : t[i] = s[i]
  <2> DEFINE one == <<e>>
  <2>1. one \in Seq(S) /\ Len(one) = 1 /\ one[1] = e
    BY <1>2
  <2> HIDE DEF one
  <2>2. /\ s \o one \in Seq(S) /\ Len(s \o one) = Len(s) + Len(one)
        /\ \A i \in 1 .. Len(s) + Len(one) :
             (s \o one)[i] = IF i <= Len(s) THEN s[i] ELSE one[i - Len(s)]
    BY ONLY <1>1, <2>1, ConcatProperties
  <2>3. Len(s) \in Nat
    BY <1>1, LenProperties
  <2> DEFINE u == s \o one
  <2> HIDE DEF u
  <2>4. /\ u \in Seq(S) /\ Len(u) = Len(s) + 1
        /\ u[Len(s) + 1] = e /\ \A i \in 1 .. Len(s) : u[i] = s[i]
    <3>1. /\ u \in Seq(S) /\ Len(u) = Len(s) + Len(one)
          /\ \A i \in 1 .. Len(s) + Len(one) : u[i] = IF i <= Len(s) THEN s[i] ELSE one[i - Len(s)]
      BY <2>2 DEF u
    <3> QED
      BY <2>1, <2>3, <3>1
  <2> QED
    BY <2>3, <2>4 DEF u, one
<1> HIDE DEF t
<1>4. t # <<>>
  BY <1>3
<1>5. Sequence(t)
  <2>1. DOMAIN t = 1 .. Len(t) /\ t \in [1 .. Len(t) -> S] /\ Len(t) \in Nat
    BY <1>3, LenProperties
  <2>2. t \in [1 .. Len(t) -> {t[i] : i \in 1 .. Len(t)}]
    BY <2>1
  <2> QED
    BY <2>1, <2>2, SeqDef DEF Sequence
<1> QED
  BY <1>3, <1>4, <1>5 DEF t

LEMMA SequenceEmpty == Sequence(<<>>)
BY DEF Sequence

LEMMA SequenceSame ==
  ASSUME NEW s, Sequence(s)
  PROVE  s \o <<>> = s
BY ConcatEmptySeq DEF Sequence

\* The accesses' last is a read of this place.
JustRead(at) == trace # <<>> /\ Last(trace) = [does |-> "read", at |-> CellOf(at)]

ReadMade(body, k) ==
  /\ k >= 1 /\ body[k].does = "read" => JustRead(body[k].at)
  /\ k >= 2 /\ body[k] = I /\ body[k - 1].does = "read" => JustRead(body[k - 1].at)

\* The frame lies above s.
FrameAt(s) ==
  \A i \in 1 .. Len(frame) :
    frame[i] = [at |-> StackCell((s + Len(frame) + 1 - i) % ByteSize), does |-> PushOrder[i]]

Pushes(m, k) ==
  IF k <= Leading(m) THEN 0 ELSE IF k <= Leading(m) + FrameSize(m) THEN k - Leading(m) ELSE FrameSize(m)

Pulls(k) == IF k <= 2 THEN 0 ELSE k - 2

CallMade(k) == Len(frame) = Pushes(instr.mode, k) /\ FrameAt(reg.s)

ReturnMade(k) ==
  \E base \in Bytes :
    /\ FrameAt(base) /\ Len(frame) \in {0, 2, 3}
    /\ reg.s = (base + Pulls(k)) % ByteSize /\ Len(trace) = Pulls(k)
    /\ Len(frame) = FrameSize(instr.mode) =>
         \A i \in 1 .. Pulls(k) : trace[i] = frame[Len(frame) + 1 - i]

FrameMade(k) ==
  /\ instr.mode \in DOMAIN Calls => CallMade(k)
  /\ instr.mode \in DOMAIN Returns => ReturnMade(k)
  /\ instr.mode \notin DOMAIN Calls \cup DOMAIN Returns => frame = <<>>

\* k cycles of body are made.
Made(body, k) ==
  /\ k \in Nat /\ k < Len(body)
  /\ Len(todo) = Len(body) - k /\ \A i \in 1 .. Len(todo) : todo[i] = body[k + i]
  /\ ReadMade(body, k) /\ FrameMade(k)

SpcTypes ==
  /\ reg \in RegisterSets /\ instr \in OperandOps \cup RestOps
  /\ todo \in Seq(Cycles) /\ Sequence(trace) /\ Sequence(frame)

SpcIInv ==
  /\ SpcTypes
  /\ todo = <<>> => trace = <<>> /\ Len(frame) \in {0, 2, 3} /\ FrameAt(reg.s)
  /\ todo # <<>> => \E yes \in BOOLEAN : \E body \in {Body(instr, yes)} : \E k \in Nat : Made(body, k)

LEMMA AccessedIs ==
  ASSUME NEW c \in Cycles
  PROVE  /\ c.does \in {"fetch", "idle"} => Accessed(c) = <<>>
         /\ c.does = "read" => Accessed(c) = <<[does |-> "read", at |-> CellOf(c.at)]>>
         /\ c.does = "push" => Accessed(c) = <<[at |-> StackCell(reg.s), does |-> c.at]>>
         /\ c.does = "pull" => Accessed(c) = <<[at |-> StackCell((reg.s + 1) % ByteSize), does |-> c.at]>>
<1>1. CASE c.does = "read"
  <2>1. [c EXCEPT !.at = CellOf(c.at)] = [does |-> "read", at |-> CellOf(c.at)]
    BY <1>1 DEF Cycles
  <2> QED
    BY <1>1, <2>1 DEF Accessed
<1>2. CASE c.does # "read"
  BY <1>2 DEF Accessed
<1> QED
  BY <1>1, <1>2

LEMMA AccessGrows ==
  ASSUME NEW c \in Cycles
  PROVE  Accessed(c) = <<>> \/ \E e : Accessed(c) = <<e>>
BY DEF Accessed

LEMMA MovedIs ==
  ASSUME NEW c \in Cycles, reg \in RegisterSets, NEW r \in Moved(c)
  PROVE  /\ r \in RegisterSets
         /\ c.does \notin {"push", "pull"} => r = reg
         /\ c.does = "push" => r.s = (reg.s + ByteSize - 1) % ByteSize
         /\ c.does = "pull" => r.s = (reg.s + 1) % ByteSize
<1>1. reg.s \in Nat /\ reg.s \in Bytes /\ ByteSize \in Nat \ {0}
  BY Spc700Assumption DEF RegisterSets, Bytes
<1>2. (reg.s + ByteSize - 1) % ByteSize \in Bytes /\ (reg.s + 1) % ByteSize \in Bytes
  <2>1. \A n \in Nat : n % ByteSize \in Bytes
    BY <1>1, DivMod DEF Bytes
  <2>2. reg.s + ByteSize - 1 \in Nat /\ reg.s + 1 \in Nat
    BY <1>1
  <2> QED
    BY <2>1, <2>2
<1>3. CASE c.does = "push"
  <2>1. r = [reg EXCEPT !.s = (reg.s + ByteSize - 1) % ByteSize]
    BY <1>3 DEF Moved
  <2>2. PICK b \in Bytes : b = (reg.s + ByteSize - 1) % ByteSize
    BY <1>2
  <2> QED
    BY <1>3, <2>1, <2>2 DEF RegisterSets
<1>4. CASE c.does = "pull"
  <2>1. PICK p \in BOOLEAN : r = [reg EXCEPT !.s = (reg.s + 1) % ByteSize, !.p = p]
    BY <1>4 DEF Moved, RegisterSets
  <2>2. PICK b \in Bytes : b = (reg.s + 1) % ByteSize
    BY <1>2
  <2>3. r = [reg EXCEPT !.s = b, !.p = p]
    BY <2>1, <2>2
  <2> QED
    BY <1>4, <2>2, <2>3 DEF RegisterSets
<1>5. CASE c.does \notin {"push", "pull"}
  BY <1>5 DEF Moved
<1> QED
  BY <1>3, <1>4, <1>5

\* A read moves no place: neither the registers nor the operands change, and a pointer is
\* not read through while it is being read.
LEMMA PlaceStays ==
  ASSUME SpcStepCycle, reg' = reg, NEW at,
         Head(todo).does = "idle" \/ (Head(todo).does = "read" /\ Head(todo).at = at)
  PROVE  CellOf(at)' = CellOf(at)
<1>1. operands' = operands /\ instr' = instr
  BY DEF SpcStepCycle
<1>2. at \in {"ptr", "ptr+i"} => loaded' = loaded
  BY DEF SpcStepCycle
<1>3. Index' = Index
  BY <1>1 DEF Index
<1> QED
  BY <1>1, <1>2, <1>3 DEF CellOf, Direct, Absolute, Word, Last

\* A pushed byte lies below the others.
LEMMA PushBelow ==
  ASSUME NEW s \in Bytes, NEW d \in Bytes, d = (s + ByteSize - 1) % ByteSize
  PROVE  \A j \in Nat : ((d + 1 + j) % ByteSize) = ((s + j) % ByteSize)
<1>1. ByteSize \in Nat \ {0} /\ s \in Nat /\ d \in Nat
  BY Spc700Assumption DEF Bytes
<1>2. SUFFICES ASSUME NEW j \in Nat PROVE ((d + 1 + j) % ByteSize) = ((s + j) % ByteSize)
  OBVIOUS
<1> DEFINE n == s + ByteSize - 1
<1>3. n \in Nat /\ d = n % ByteSize
  BY <1>1
<1>4. ((n % ByteSize) + (1 + j)) % ByteSize = (n + (1 + j)) % ByteSize
  <2> HIDE DEF n
  <2>1. 1 + j \in Nat
    OBVIOUS
  <2> QED
    BY <1>1, <1>3, <2>1, ModAdd
<1>5. n + (1 + j) = ByteSize + (s + j) /\ d + 1 + j = (n % ByteSize) + (1 + j)
  BY <1>1, <1>3
<1>6. ((ByteSize % ByteSize) + (s + j)) % ByteSize = (ByteSize + (s + j)) % ByteSize
  <2>1. s + j \in Nat
    BY <1>1
  <2> QED
    BY <1>1, <2>1, ModAdd
<1>7. ByteSize % ByteSize = 0
  <2>1. (ByteSize * 1 + 0) % ByteSize = 0
    BY <1>1, UniqueRemainder
  <2> QED
    BY <1>1, <2>1
<1>8. (ByteSize % ByteSize) + (s + j) = s + j
  BY <1>1, <1>7
<1> HIDE DEF n
<1> QED
  BY <1>4, <1>5, <1>6, <1>8

LEMMA PullAbove ==
  ASSUME NEW b \in Nat, NEW j \in Nat, NEW s, s = (b + j) % ByteSize
  PROVE  ((s + 1) % ByteSize) = ((b + j + 1) % ByteSize)
<1>1. ByteSize \in Nat \ {0} /\ b + j \in Nat
  BY Spc700Assumption
<1> QED
  BY <1>1, ModAdd

\* The cycle an instruction makes next, and that it then has made.
LEMMA NextCycle ==
  ASSUME NEW body \in Seq(Cycles), NEW k \in Nat, Made(body, k), SpcTypes
  PROVE  /\ todo # <<>> /\ Head(todo) = body[k + 1] /\ Head(todo) \in Cycles /\ k + 1 \in 1 .. Len(body)
         /\ Len(body) \in Nat
         /\ Len(todo) = 1 <=> k + 1 = Len(body)
         /\ Len(todo) > 1 => /\ Len(Tail(todo)) = Len(body) - (k + 1) /\ k + 1 < Len(body)
                             /\ \A i \in 1 .. Len(Tail(todo)) : Tail(todo)[i] = body[k + 1 + i]
<1>1. /\ Len(body) \in Nat /\ k < Len(body) /\ Len(todo) = Len(body) - k
      /\ \A i \in 1 .. Len(todo) : todo[i] = body[k + i]
  BY LenProperties DEF Made
<1>2. todo \in Seq(Cycles) /\ todo # <<>>
  BY <1>1 DEF SpcTypes
<1>3. Head(todo) = todo[1] /\ todo[1] \in Cycles
  BY <1>1, <1>2
<1>4. /\ Len(Tail(todo)) = Len(todo) - 1
      /\ \A i \in 1 .. Len(Tail(todo)) : Tail(todo)[i] = todo[i + 1]
  BY <1>2, HeadTailProperties
<1>5. ASSUME NEW i \in 1 .. Len(Tail(todo))
      PROVE  Tail(todo)[i] = body[k + 1 + i]
  <2>1. i + 1 \in 1 .. Len(todo) /\ k + (i + 1) = k + 1 + i
    BY <1>1, <1>4
  <2> QED
    BY <1>1, <1>4, <2>1
<1> QED
  BY <1>1, <1>2, <1>3, <1>4, <1>5

\* A cycle that only reads or idles leaves the reads before it as they were.
LEMMA ReadStep ==
  ASSUME NEW body \in Seq(Cycles), NEW k \in Nat, Made(body, k), SpcTypes, SpcStepCycle
  PROVE  ReadMade(body, k + 1)'
<1>1. /\ Head(todo) = body[k + 1] /\ Head(todo) \in Cycles /\ k + 1 \in 1 .. Len(body)
  BY NextCycle
<1> DEFINE c == Head(todo)
<1>2. reg' \in Moved(c) /\ trace' = trace \o Accessed(c) /\ reg \in RegisterSets /\ Sequence(trace)
  BY DEF SpcStepCycle, Trace, SpcTypes
<1>3. ASSUME body[k + 1].does = "read"
      PROVE  JustRead(body[k + 1].at)'
  <2>1. reg' = reg
    BY <1>1, <1>2, <1>3, MovedIs
  <2>2. CellOf(body[k + 1].at)' = CellOf(body[k + 1].at)
    BY <1>1, <1>3, <2>1, PlaceStays
  <2> DEFINE e == [does |-> "read", at |-> CellOf(body[k + 1].at)]
  <2>3. trace' = trace \o <<e>>
    BY <1>1, <1>2, <1>3, AccessedIs
  <2> HIDE DEF e
  <2>4. trace' # <<>> /\ Last(trace') = e
    <3>1. Len(trace \o <<e>>) = Len(trace) + 1 /\ (trace \o <<e>>)[Len(trace) + 1] = e
          /\ trace \o <<e>> # <<>>
      BY <1>2, SequenceGrows
    <3> QED
      BY <2>3, <3>1 DEF Last
  <2> QED
    BY <1>1, <2>2, <2>4 DEF JustRead, e
<1>4. ASSUME k + 1 >= 2, body[k + 1] = I, body[k].does = "read"
      PROVE  JustRead(body[k].at)'
  <2>1. c.does = "idle"
    BY <1>1, <1>4 DEF I
  <2>2. reg' = reg /\ Accessed(c) = <<>>
    BY <1>1, <1>2, <2>1, MovedIs, AccessedIs
  <2>3. trace' = trace
    BY <1>2, <2>2, SequenceSame
  <2>4. JustRead(body[k].at)
    BY <1>4 DEF Made, ReadMade
  <2>5. CellOf(body[k].at)' = CellOf(body[k].at)
    BY <2>1, <2>2, PlaceStays
  <2> QED
    BY <2>3, <2>4, <2>5 DEF JustRead
<1>5. (k + 1) - 1 = k
  OBVIOUS
<1> QED
  BY <1>3, <1>4, <1>5 DEF ReadMade

\* What a call, a return and the other instructions make of the frame.
LEMMA CallStep ==
  ASSUME NEW body \in Seq(Cycles), NEW k \in Nat, Made(body, k), SpcTypes,
         instr.mode \in DOMAIN Calls, CallShape(instr.mode, body),
         reg' \in Moved(Head(todo)), frame' = Pushed(Head(todo)), instr' = instr
  PROVE  CallMade(k + 1)'
<1> DEFINE m == instr.mode
           c == Head(todo)
<1>1. /\ c = body[k + 1] /\ c \in Cycles /\ k + 1 \in 1 .. Len(body) /\ reg \in RegisterSets
  BY NextCycle DEF SpcTypes
<1>2. Len(frame) = Pushes(m, k) /\ FrameAt(reg.s) /\ Sequence(frame)
  BY DEF Made, FrameMade, CallMade, SpcTypes
<1>3. Leading(m) \in 2 .. 3 /\ FrameSize(m) \in 2 .. 3
  BY DEF Leading, FrameSize
<1>4. CASE k + 1 \in Leading(m) + 1 .. Leading(m) + FrameSize(m)
  <2>1. c = Push(PushOrder[k + 1 - Leading(m)])
    <3>1. PICK n \in 1 .. Len(body) : n = k + 1
      BY <1>1
    <3>2. n \in Leading(m) + 1 .. Leading(m) + FrameSize(m)
      BY <1>4, <3>1
    <3>3. body[n] = Push(PushOrder[n - Leading(m)])
      BY <3>2 DEF CallShape
    <3> QED
      BY <1>1, <1>3, <3>1, <3>3
  <2>2. Pushes(m, k) = k - Leading(m) /\ Pushes(m, k + 1) = k + 1 - Leading(m)
    BY <1>3, <1>4 DEF Pushes
  <2> DEFINE e == [at |-> StackCell(reg.s), does |-> PushOrder[Len(frame) + 1]]
  <2>3. Accessed(c) = <<e>> /\ reg'.s = (reg.s + ByteSize - 1) % ByteSize
    <3>1. c.does = "push" /\ c.at = PushOrder[Len(frame) + 1]
      BY <1>2, <1>3, <1>4, <2>1, <2>2 DEF Push
    <3> QED
      BY <1>1, <3>1, AccessedIs, MovedIs
  <2>4. frame' = frame \o <<e>>
    <3>1. c.does = "push"
      BY <2>1 DEF Push
    <3>2. frame' = frame \o Accessed(c)
      BY <3>1 DEF Pushed
    <3> HIDE DEF e
    <3> QED
      BY <2>3, <3>2
  <2> HIDE DEF e
  <2>5. /\ Len(frame') = Len(frame) + 1 /\ frame'[Len(frame) + 1] = e /\ Len(frame) \in Nat
        /\ \A i \in 1 .. Len(frame) : frame'[i] = frame[i]
    <3>1. /\ Len(frame) \in Nat /\ Len(frame \o <<e>>) = Len(frame) + 1
          /\ (frame \o <<e>>)[Len(frame) + 1] = e
          /\ \A i \in 1 .. Len(frame) : (frame \o <<e>>)[i] = frame[i]
      <4>1. Sequence(frame)
        BY <1>2
      <4> QED
        BY ONLY <4>1, SequenceGrows
    <3> QED
      BY <2>4, <3>1
  <2>6. PICK s \in Bytes, d \in Bytes : s = reg.s /\ d = reg'.s
    <3>1. reg' \in RegisterSets
      BY <1>1, MovedIs
    <3> QED
      BY <1>1, <3>1 DEF RegisterSets
  <2>7. \A j \in Nat : ((d + 1 + j) % ByteSize) = ((s + j) % ByteSize)
    BY <2>3, <2>6, PushBelow
  <2>8. ASSUME NEW i \in 1 .. Len(frame')
        PROVE  frame'[i] = [at |-> StackCell((d + Len(frame') + 1 - i) % ByteSize), does |-> PushOrder[i]]
    <3>1. PICK n \in Nat : n = Len(frame)
      BY <2>5
    <3>2. CASE i = n + 1
      <4>1. (d + 1 + 0) % ByteSize = (s + 0) % ByteSize /\ s + 0 = s /\ d + 1 + 0 = d + (n + 1) + 1 - i
        BY <2>7, <3>2 DEF Bytes
      <4>2. s % ByteSize = s
        BY Spc700Assumption, SmallMod DEF Bytes
      <4>3. (d + (n + 1) + 1 - i) % ByteSize = s
        BY <4>1, <4>2
      <4> QED
        BY <2>5, <2>6, <3>1, <3>2, <4>3 DEF e
    <3>3. CASE i <= n
      <4>1. frame[i] = [at |-> StackCell((s + n + 1 - i) % ByteSize), does |-> PushOrder[i]]
        BY <1>2, <2>6, <3>1, <3>3 DEF FrameAt
      <4>2. PICK j \in Nat : j = n + 1 - i
        BY <3>3
      <4>3. s + n + 1 - i = s + j /\ d + (n + 1) + 1 - i = d + 1 + j
        BY <4>2, <3>1 DEF Bytes
      <4>4. (d + (n + 1) + 1 - i) % ByteSize = (s + n + 1 - i) % ByteSize
        BY <2>7, <4>3
      <4>5. frame'[i] = frame[i] /\ Len(frame') = n + 1
        BY <2>5, <3>1, <3>3
      <4> QED
        BY <4>1, <4>4, <4>5
    <3> QED
      BY <2>5, <3>1, <3>2, <3>3
  <2>9. FrameAt(reg.s)'
    BY <2>6, <2>8 DEF FrameAt
  <2> QED
    <3>1. Len(frame') = k + 1 - Leading(m)
      BY <1>2, <1>3, <2>2, <2>5
    <3>2. instr'.mode = m
      OBVIOUS
    <3>3. Len(frame') = Pushes(instr'.mode, k + 1)
      BY <2>2, <3>1, <3>2
    <3> QED
      BY <2>9, <3>3 DEF CallMade, Pushes, Leading, FrameSize
<1>5. CASE k + 1 \notin Leading(m) + 1 .. Leading(m) + FrameSize(m)
  <2>1. c.does \notin {"push", "pull"}
    BY <1>1, <1>5 DEF CallShape
  <2>2. Pushes(m, k + 1) = Pushes(m, k)
    BY <1>3, <1>5 DEF Pushes
  <2>3. reg' = reg /\ frame' = frame
    BY <1>1, <2>1, MovedIs DEF Pushed
  <2> QED
    BY <1>2, <2>2, <2>3 DEF CallMade, FrameAt
<1> QED
  BY <1>4, <1>5

LEMMA ReturnStep ==
  ASSUME NEW body \in Seq(Cycles), NEW k \in Nat, Made(body, k), SpcTypes,
         instr.mode \in DOMAIN Returns, ReturnShape(instr.mode, body)
  PROVE  \A r \in Moved(Head(todo)) : \E base \in Bytes :
           /\ FrameAt(base) /\ Len(frame) \in {0, 2, 3}
           /\ r.s = (base + Pulls(k + 1)) % ByteSize /\ Len(Trace) = Pulls(k + 1)
           /\ Len(frame) = FrameSize(instr.mode) =>
                \A i \in 1 .. Pulls(k + 1) : Trace[i] = frame[Len(frame) + 1 - i]
<1> DEFINE m == instr.mode
           c == Head(todo)
<1> SUFFICES ASSUME NEW r \in Moved(Head(todo))
             PROVE  \E base \in Bytes :
               /\ FrameAt(base) /\ Len(frame) \in {0, 2, 3}
               /\ r.s = (base + Pulls(k + 1)) % ByteSize /\ Len(Trace) = Pulls(k + 1)
               /\ Len(frame) = FrameSize(instr.mode) =>
                    \A i \in 1 .. Pulls(k + 1) : Trace[i] = frame[Len(frame) + 1 - i]
  OBVIOUS
<1>1. /\ c = body[k + 1] /\ c \in Cycles /\ k + 1 \in 1 .. Len(body) /\ reg \in RegisterSets
      /\ Sequence(trace) /\ Sequence(frame)
  BY NextCycle DEF SpcTypes
<1>2. m \notin DOMAIN Calls
  BY DEF Calls, Returns
<1>3. PICK base \in Bytes :
        /\ FrameAt(base) /\ Len(frame) \in {0, 2, 3}
        /\ reg.s = (base + Pulls(k)) % ByteSize /\ Len(trace) = Pulls(k)
        /\ Len(frame) = FrameSize(m) => \A i \in 1 .. Pulls(k) : trace[i] = frame[Len(frame) + 1 - i]
  BY DEF Made, FrameMade, ReturnMade
<1>4. FrameSize(m) \in 2 .. 3 /\ Len(body) = FrameSize(m) + 2
  BY DEF FrameSize, ReturnShape
<1>5. CASE k + 1 <= 2
  <2>1. c = I
    BY <1>1, <1>5 DEF ReturnShape
  <2>2. r = reg /\ Accessed(c) = <<>>
    BY <1>1, <2>1, MovedIs, AccessedIs DEF I
  <2>3. Trace = trace
    BY <1>1, <2>2, SequenceSame DEF Trace
  <2>4. Pulls(k + 1) = Pulls(k)
    BY <1>5 DEF Pulls
  <2> QED
    BY <1>3, <2>2, <2>3, <2>4
<1>6. CASE k + 1 > 2
  <2>1. PICK j \in Nat : j = Pulls(k) /\ j + 1 = Pulls(k + 1) /\ k = j + 2 /\ j < FrameSize(m)
    <3>1. Pulls(k) = k - 2 /\ Pulls(k + 1) = k + 1 - 2
      BY <1>6 DEF Pulls
    <3> QED
      BY <1>1, <1>4, <1>6, <3>1
  <2>2. c = Pull(PushOrder[FrameSize(m) - j])
    <3>1. k + 1 \in 3 .. FrameSize(m) + 2
      BY <1>1, <1>4, <1>6
    <3>2. FrameSize(m) + 3 - (k + 1) = FrameSize(m) - j
      BY <1>4, <2>1
    <3>3. body[k + 1] = Pull(PushOrder[FrameSize(m) + 3 - (k + 1)])
      BY <3>1 DEF ReturnShape
    <3> QED
      BY <1>1, <3>2, <3>3
  <2> DEFINE e == [at |-> StackCell((reg.s + 1) % ByteSize), does |-> PushOrder[FrameSize(m) - j]]
  <2>3. Accessed(c) = <<e>> /\ r.s = (reg.s + 1) % ByteSize
    BY <1>1, <2>2, MovedIs, AccessedIs DEF Pull
  <2>4. (reg.s + 1) % ByteSize = (base + j + 1) % ByteSize
    BY <1>3, <2>1, PullAbove DEF Bytes
  <2>5. Trace = trace \o <<e>>
    BY <2>3 DEF Trace
  <2>6. CASE Len(frame) = FrameSize(m)
    <3>1. PICK n \in 2 .. 3 : n = Len(frame) /\ n = FrameSize(m)
      BY <1>4, <2>6
    <3>2. PICK at \in 1 .. n : at = n - j
      BY <2>1, <3>1
    <3>3. frame[at] = [at |-> StackCell((base + n + 1 - at) % ByteSize), does |-> PushOrder[at]]
      BY <1>3, <3>1 DEF FrameAt
    <3>8. base + n + 1 - at = base + j + 1
      BY <3>2 DEF Bytes
    <3>4. e = frame[n - j]
      BY <2>4, <3>1, <3>2, <3>3, <3>8
    <3> HIDE DEF e
    <3>5. /\ Len(Trace) = j + 1 /\ Trace[j + 1] = e /\ \A i \in 1 .. j : Trace[i] = trace[i]
      <4>1. /\ Len(trace \o <<e>>) = Len(trace) + 1 /\ (trace \o <<e>>)[Len(trace) + 1] = e
            /\ \A i \in 1 .. Len(trace) : (trace \o <<e>>)[i] = trace[i]
        BY <1>1, SequenceGrows
      <4>2. Len(trace) = j
        BY <1>3, <2>1
      <4> QED
        BY <2>5, <4>1, <4>2
    <3>6. ASSUME NEW i \in 1 .. j + 1
          PROVE  Trace[i] = frame[n + 1 - i]
      <4>1. CASE i = j + 1
        <5>1. n + 1 - i = n - j
          BY <4>1
        <5> QED
          BY <3>4, <3>5, <4>1, <5>1
      <4>2. CASE i \in 1 .. j
        BY <1>3, <2>1, <3>1, <3>5, <4>2
      <4> QED
        BY <2>1, <4>1, <4>2
    <3>7. r.s = (base + (j + 1)) % ByteSize
      <4>1. base + j + 1 = base + (j + 1)
        BY <2>1 DEF Bytes
      <4> QED
        BY <2>3, <2>4, <4>1
    <3> QED
      BY <1>3, <2>1, <3>1, <3>5, <3>6, <3>7
  <2>7. CASE Len(frame) # FrameSize(m)
    <3> HIDE DEF e
    <3>1. Len(Trace) = j + 1
      <4>1. Len(trace \o <<e>>) = Len(trace) + 1
        BY <1>1, SequenceGrows
      <4>2. Len(trace) = j
        BY <1>3, <2>1
      <4> QED
        BY <2>5, <4>1, <4>2
    <3>2. r.s = (base + (j + 1)) % ByteSize
      <4>1. base + j + 1 = base + (j + 1)
        BY <2>1 DEF Bytes
      <4> QED
        BY <2>3, <2>4, <4>1
    <3> QED
      BY <1>3, <2>1, <2>7, <3>1, <3>2
  <2> QED
    BY <2>6, <2>7
<1> QED
  BY <1>5, <1>6

LEMMA TraceSequence ==
  ASSUME SpcTypes, NEW c \in Cycles
  PROVE  Sequence(trace \o Accessed(c)) /\ Sequence(frame \o Accessed(c))
<1>1. Sequence(trace) /\ Sequence(frame)
  BY DEF SpcTypes
<1>2. CASE Accessed(c) = <<>>
  BY <1>1, <1>2, SequenceSame
<1>3. CASE Accessed(c) # <<>>
  <2>1. PICK e : Accessed(c) = <<e>>
    BY <1>3, AccessGrows
  <2>2. Sequence(trace \o <<e>>)
    BY ONLY <1>1, SequenceGrows
  <2>3. Sequence(frame \o <<e>>)
    BY ONLY <1>1, SequenceGrows
  <2> QED
    BY <2>1, <2>2, <2>3
<1> QED
  BY <1>2, <1>3

LEMMA SpcStart ==
  ASSUME reg = [x |-> 0, y |-> 0, s |-> ByteSize - 1, p |-> FALSE, halted |-> FALSE],
         instr = NoOp, todo = <<>>, trace = <<>>, frame = <<>>
  PROVE  SpcIInv
<1>1. SpcTypes
  BY Spc700Assumption, NoOpTyped, SequenceEmpty DEF SpcTypes, RegisterSets, Bytes
<1> QED
  BY <1>1 DEF SpcIInv, FrameAt

LEMMA SpcDispatchInv == SpcIInv /\ Dispatch => SpcIInv'
<1> SUFFICES ASSUME SpcIInv, Dispatch PROVE SpcIInv'
  OBVIOUS
<1>1. PICK o \in Opcodes, yes \in BOOLEAN :
        instr' = o /\ todo' = Body(o, yes) /\ frame' = IF o.mode \in DOMAIN Returns THEN frame ELSE <<>>
  BY DEF Dispatch
<1>2. todo = <<>> /\ reg' = reg /\ trace' = trace
  BY DEF Dispatch, Boundary
<1>3. trace = <<>> /\ Len(frame) \in {0, 2, 3} /\ FrameAt(reg.s) /\ SpcTypes
  BY <1>2 DEF SpcIInv
<1>4. o \in OperandOps \cup RestOps
  BY OpcodesTyped
<1> DEFINE body == Body(o, yes)
<1>5. body \in Seq(Cycles) /\ Len(body) > 0 /\ Len(body) \in Nat
  BY <1>4, BodyShaped, LenProperties
<1>6. SpcTypes'
  BY <1>1, <1>2, <1>3, <1>4, <1>5, SequenceEmpty DEF SpcTypes
<1>7. Made(body, 0)'
  <2>1. Len(todo') = Len(body) - 0 /\ \A i \in 1 .. Len(todo') : todo'[i] = body[0 + i]
    BY <1>1, <1>5
  <2>2. ReadMade(body, 0)'
    BY DEF ReadMade
  <2>3. instr'.mode \in DOMAIN Calls => CallMade(0)'
    <3>1. ASSUME o.mode \in DOMAIN Calls PROVE frame' = <<>>
      BY <1>1, <3>1 DEF Calls, Returns
    <3>2. Pushes(o.mode, 0) = 0
      BY DEF Pushes, Leading
    <3> QED
      BY <1>1, <3>1, <3>2 DEF CallMade, FrameAt, Pushes, Leading, FrameSize
  <2>4. instr'.mode \in DOMAIN Returns => ReturnMade(0)'
    <3>1. ASSUME o.mode \in DOMAIN Returns PROVE frame' = frame
      BY <1>1, <3>1
    <3>2. PICK base \in Bytes : base = reg.s
      BY <1>3 DEF SpcTypes, RegisterSets
    <3>3. Pulls(0) = 0 /\ (base + 0) % ByteSize = base
      <4>1. base % ByteSize = base
        BY Spc700Assumption, SmallMod DEF Bytes
      <4> QED
        BY <4>1 DEF Pulls, Bytes
    <3>4. ASSUME o.mode \in DOMAIN Returns
          PROVE  /\ FrameAt(base)' /\ Len(frame') \in {0, 2, 3}
                 /\ reg'.s = (base + Pulls(0)) % ByteSize /\ Len(trace') = Pulls(0)
      BY <1>2, <1>3, <3>1, <3>2, <3>3, <3>4 DEF FrameAt
    <3> QED
      BY <1>1, <3>3, <3>4 DEF ReturnMade, Pulls
  <2>5. instr'.mode \notin DOMAIN Calls \cup DOMAIN Returns => frame' = <<>>
    BY <1>1
  <2> HIDE DEF body
  <2> QED
    BY <1>5, <2>1, <2>2, <2>3, <2>4, <2>5 DEF Made, FrameMade
<1>8. todo' # <<>>
  BY <1>1, <1>5
<1>9. body \in {Body(instr', yes)}
  BY <1>1
<1> HIDE DEF body
<1> QED
  BY <1>6, <1>7, <1>8, <1>9 DEF SpcIInv

\* The instruction in progress.
LEMMA InProgress ==
  ASSUME SpcIInv, todo # <<>>
  PROVE  \E yes \in BOOLEAN : \E body \in Seq(Cycles) : \E k \in Nat :
           /\ body = Body(instr, yes) /\ Made(body, k) /\ SpcTypes
           /\ instr.mode \notin Unread => Reads(body)
           /\ instr.mode \in DOMAIN Calls => CallShape(instr.mode, body)
           /\ instr.mode \in DOMAIN Returns => ReturnShape(instr.mode, body)
<1>1. PICK yes \in BOOLEAN : \E body \in {Body(instr, yes)} : \E k \in Nat : Made(body, k)
  BY DEF SpcIInv
<1>3. PICK body \in {Body(instr, yes)}, k \in Nat : Made(body, k)
  BY <1>1
<1>2. instr \in OperandOps \cup RestOps /\ SpcTypes
  BY DEF SpcIInv, SpcTypes
<1>4. /\ body \in Seq(Cycles)
      /\ instr.mode \notin Unread => Reads(body)
      /\ instr.mode \in DOMAIN Calls => CallShape(instr.mode, body)
      /\ instr.mode \in DOMAIN Returns => ReturnShape(instr.mode, body)
  BY <1>2, BodyShaped
<1> QED
  BY <1>2, <1>3, <1>4

LEMMA SpcStepInv == SpcIInv /\ SpcStepCycle => SpcIInv'
<1> SUFFICES ASSUME SpcIInv, SpcStepCycle PROVE SpcIInv'
  OBVIOUS
<1>1. todo # <<>> /\ Len(todo) > 1 /\ instr' = instr /\ todo' = Tail(todo)
      /\ reg' \in Moved(Head(todo)) /\ trace' = Trace /\ frame' = Pushed(Head(todo))
  BY DEF SpcStepCycle
<1>2. PICK yes \in BOOLEAN, body \in Seq(Cycles), k \in Nat :
        /\ body = Body(instr, yes) /\ Made(body, k) /\ SpcTypes
        /\ instr.mode \in DOMAIN Calls => CallShape(instr.mode, body)
        /\ instr.mode \in DOMAIN Returns => ReturnShape(instr.mode, body)
  BY <1>1, InProgress
<1>3. body = Body(instr, yes)
  BY <1>2
<1>4. Made(body, k) /\ SpcTypes
  BY <1>2
<1>5. /\ Head(todo) = body[k + 1] /\ Head(todo) \in Cycles /\ k + 1 \in 1 .. Len(body) /\ k + 1 < Len(body)
      /\ Len(Tail(todo)) = Len(body) - (k + 1)
      /\ \A i \in 1 .. Len(Tail(todo)) : Tail(todo)[i] = body[k + 1 + i]
  BY <1>1, <1>4, NextCycle
<1>6. SpcTypes'
  <2>1. Tail(todo) \in Seq(Cycles)
    BY <1>1, HeadTailProperties DEF SpcIInv, SpcTypes
  <2>2. Sequence(trace') /\ Sequence(frame')
    BY <1>1, <1>4, <1>5, TraceSequence DEF Trace, Pushed, SpcTypes
  <2>3. reg' \in RegisterSets
    BY <1>1, <1>4, <1>5, MovedIs DEF SpcTypes
  <2> QED
    BY <1>1, <1>4, <2>1, <2>2, <2>3 DEF SpcTypes
<1>7. ReadMade(body, k + 1)'
  BY <1>4, ReadStep
<1>8. FrameMade(k + 1)'
  <2>1. instr.mode \in DOMAIN Calls => CallMade(k + 1)'
    BY <1>1, <1>2, <1>3, <1>4, CallStep
  <2>2. instr.mode \in DOMAIN Returns => ReturnMade(k + 1)'
    <3> SUFFICES ASSUME instr.mode \in DOMAIN Returns PROVE ReturnMade(k + 1)'
      OBVIOUS
    <3>1. frame' = frame
      BY <1>1 DEF Pushed, Returns, Calls
    <3>2. PICK base \in Bytes :
           /\ FrameAt(base) /\ Len(frame) \in {0, 2, 3}
           /\ reg'.s = (base + Pulls(k + 1)) % ByteSize /\ Len(Trace) = Pulls(k + 1)
           /\ Len(frame) = FrameSize(instr.mode) =>
                \A i \in 1 .. Pulls(k + 1) : Trace[i] = frame[Len(frame) + 1 - i]
      BY <1>1, <1>2, <1>3, <1>4, ReturnStep
    <3>3. FrameAt(base)'
      BY <3>1, <3>2 DEF FrameAt
    <3> QED
      BY <1>1, <3>1, <3>2, <3>3 DEF ReturnMade, FrameSize, Pulls
  <2>3. instr.mode \notin DOMAIN Calls \cup DOMAIN Returns => frame' = <<>>
    BY <1>1, <1>4 DEF Pushed, Made, FrameMade
  <2> QED
    BY <1>1, <2>1, <2>2, <2>3 DEF FrameMade
<1>9. Made(body, k + 1)'
  <2>1. todo' = Tail(todo)
    BY <1>1
  <2>2. k + 1 \in Nat /\ k + 1 < Len(body)
    BY <1>5
  <2>3. /\ Len(todo') = Len(body) - (k + 1)
        /\ \A i \in 1 .. Len(todo') : todo'[i] = body[k + 1 + i]
    BY <1>5, <2>1
  <2> QED
    BY <1>7, <1>8, <2>2, <2>3 DEF Made
<1>10. body \in {Body(instr', yes)} /\ k + 1 \in Nat
  BY <1>1, <1>3
<1>11. todo' # <<>>
  <2>1. Len(body) \in Nat
    BY LenProperties
  <2>2. Len(todo') > 0
    BY <1>1, <1>5, <2>1
  <2> QED
    BY <2>2
<1> QED
  BY <1>6, <1>9, <1>10, <1>11 DEF SpcIInv

\* What an instruction does with the registers at its end leaves s to a call or a return.
LEMMA EffectIs ==
  ASSUME instr \in OperandOps \cup RestOps, NEW r \in RegisterSets, NEW e \in Effect(r)
  PROVE  /\ e \in RegisterSets
         /\ instr.mode \in DOMAIN Calls \cup DOMAIN Returns => e = r
<1>1. /\ (r.x + 1) % ByteSize \in Bytes /\ (r.y + ByteSize - 1) % ByteSize \in Bytes
  <2>1. \A n \in Nat : n % ByteSize \in Bytes
    BY Spc700Assumption, DivMod DEF Bytes
  <2>2. r.x + 1 \in Nat /\ r.y + ByteSize - 1 \in Nat
    BY Spc700Assumption DEF RegisterSets, Bytes
  <2> QED
    BY <2>1, <2>2
<1>2. \A t \in {"a", "x", "y", "s"} : \A n \in Target(r, t) : n \in RegisterSets
  BY DEF Target, RegisterSets
<1>3. instr.target \in {"a", "x", "y", "s"}
  BY DEF OperandOps, RestOps
<1>4. e \in RegisterSets
  <2>1. CASE instr.mode \in {"sleep", "stop"}
    BY <2>1 DEF Effect, RegisterSets
  <2>2. CASE instr.mode \in {"setP", "clearP"}
    BY <2>2 DEF Effect, RegisterSets
  <2>3. CASE instr.mode = "increment"
    <3>1. PICK b \in Bytes : b = (r.x + 1) % ByteSize
      BY <1>1
    <3>2. e = [r EXCEPT !.x = b]
      BY <2>3, <3>1 DEF Effect
    <3> QED
      BY <3>2 DEF RegisterSets
  <2>4. CASE instr.mode = "decrementY"
    <3>1. PICK b \in Bytes : b = (r.y + ByteSize - 1) % ByteSize
      BY <1>1
    <3>2. e = [r EXCEPT !.y = b]
      BY <2>4, <3>1 DEF Effect
    <3> QED
      BY <3>2 DEF RegisterSets
  <2>5. CASE instr.mode = "transfer" /\ instr.target = "s"
    BY <2>5 DEF Effect, RegisterSets
  <2>6. CASE /\ instr.mode \notin {"sleep", "stop", "setP", "clearP", "increment", "decrementY"}
             /\ ~(instr.mode = "transfer" /\ instr.target = "s")
    <3>1. e \in Target(r, "y") \/ e \in Target(r, instr.target) \/ e = r
      BY <2>6 DEF Effect
    <3> QED
      BY <1>2, <1>3, <3>1
  <2> QED
    BY <2>1, <2>2, <2>3, <2>4, <2>5, <2>6
<1>5. ASSUME instr.mode \in DOMAIN Calls \cup DOMAIN Returns PROVE e = r
  <2>1. instr.mode \in FrameModes
    BY <1>5 DEF Calls, Returns, FrameModes
  <2>2. instr.target = "a"
    BY <2>1 DEF OperandOps, RestOps, OperandModes, FrameModes
  <2>3. Effect(r) = {r}
    BY <2>1, <2>2 DEF Effect, Target, FrameModes
  <2> QED
    BY <2>3
<1> QED
  BY <1>4, <1>5

LEMMA SpcLastInv == SpcIInv /\ LastCycle => SpcIInv'
<1> SUFFICES ASSUME SpcIInv, LastCycle PROVE SpcIInv'
  OBVIOUS
<1> DEFINE c == Head(todo)
           m == instr.mode
<1>1. /\ Len(todo) = 1 /\ todo' = <<>> /\ trace' = <<>> /\ instr' = NoOp
      /\ frame' = IF m \in DOMAIN Calls THEN Pushed(c) ELSE <<>>
  BY DEF LastCycle
<1>2. todo # <<>>
  BY <1>1
<1>3. PICK yes \in BOOLEAN, body \in Seq(Cycles), k \in Nat :
        /\ body = Body(instr, yes) /\ Made(body, k) /\ SpcTypes
        /\ m \in DOMAIN Calls => CallShape(m, body)
  BY <1>2, InProgress
<1>4. /\ c = body[k + 1] /\ c \in Cycles /\ k + 1 = Len(body) /\ k + 1 \in 1 .. Len(body)
      /\ reg \in RegisterSets /\ instr \in OperandOps \cup RestOps
  BY <1>1, <1>3, NextCycle DEF SpcTypes
<1>5. PICK r \in Moved(c) : reg' \in Effect(r)
  BY DEF LastCycle
<1>6. r \in RegisterSets /\ reg' \in RegisterSets
  BY <1>4, <1>5, MovedIs, EffectIs
<1>7. CASE m \notin DOMAIN Calls
  <2>1. frame' = <<>>
    BY <1>1, <1>7
  <2>2. SpcTypes'
    BY <1>1, <1>6, <2>1, NoOpTyped, SequenceEmpty DEF SpcTypes
  <2> QED
    BY <1>1, <2>1, <2>2 DEF SpcIInv, FrameAt
<1>8. CASE m \in DOMAIN Calls
  <2>1. c.does \notin {"push", "pull"} /\ k + 1 > Leading(m) + FrameSize(m)
    <3>1. PICK n \in 1 .. Len(body) : n = k + 1 /\ n = Len(body)
      BY <1>4
    <3>2. n > Leading(m) + FrameSize(m) /\ Leading(m) \in 2 .. 3 /\ FrameSize(m) \in 2 .. 3
      BY <1>3, <1>8, <3>1 DEF CallShape, Leading, FrameSize
    <3>3. n \notin Leading(m) + 1 .. Leading(m) + FrameSize(m)
      BY <3>2
    <3>4. body[n].does \notin {"push", "pull"}
      BY <1>3, <1>8, <3>3 DEF CallShape
    <3> QED
      BY <1>4, <3>1, <3>2, <3>4
  <2>2. reg' = reg /\ frame' = frame
    BY <1>1, <1>4, <1>5, <1>8, <2>1, MovedIs, EffectIs DEF Pushed
  <2>3. Len(frame) = Pushes(m, k) /\ FrameAt(reg.s) /\ Sequence(frame)
    BY <1>3, <1>8 DEF Made, FrameMade, CallMade, SpcTypes
  <2>4. Pushes(m, k) \in {2, 3}
    <3>1. Leading(m) \in 2 .. 3 /\ FrameSize(m) \in 2 .. 3
      BY DEF Leading, FrameSize
    <3> QED
      BY <2>1, <3>1 DEF Pushes
  <2>5. SpcTypes'
    BY <1>1, <1>6, <2>2, <2>3, NoOpTyped, SequenceEmpty DEF SpcTypes
  <2> QED
    BY <1>1, <2>2, <2>3, <2>4, <2>5 DEF SpcIInv, FrameAt
<1> QED
  BY <1>7, <1>8

LEMMA SpcStartNext ==
  ASSUME reg' = [x |-> 0, y |-> 0, s |-> ByteSize - 1, p |-> FALSE, halted |-> FALSE],
         instr' = NoOp, todo' = <<>>, trace' = <<>>, frame' = <<>>
  PROVE  SpcIInv'
<1>1. SpcTypes'
  BY Spc700Assumption, NoOpTyped, SequenceEmpty DEF SpcTypes, RegisterSets, Bytes
<1> QED
  BY <1>1 DEF SpcIInv, FrameAt

LEMMA SpcNextInv == SpcIInv /\ [SpcNext]_spcVars => SpcIInv'
<1> SUFFICES ASSUME SpcIInv, [SpcNext]_spcVars PROVE SpcIInv'
  OBVIOUS
<1>1. CASE Dispatch
  BY <1>1, SpcDispatchInv
<1>2. CASE SpcStepCycle
  BY <1>2, SpcStepInv
<1>3. CASE LastCycle
  BY <1>3, SpcLastInv
<1>4. CASE Power
  BY <1>4, SpcStartNext DEF Power
<1>5. CASE UNCHANGED spcVars
  <2>1. SpcTypes'
    BY <1>5 DEF spcVars, SpcIInv, SpcTypes
  <2>2. todo' = <<>> => trace' = <<>> /\ Len(frame') \in {0, 2, 3} /\ FrameAt(reg.s)'
    BY <1>5 DEF spcVars, SpcIInv, FrameAt
  <2>3. ASSUME todo' # <<>>
        PROVE  (\E yes \in BOOLEAN : \E body \in {Body(instr, yes)} : \E k \in Nat : Made(body, k))'
    <3>1. PICK yes \in BOOLEAN : \E body \in {Body(instr, yes)} : \E k \in Nat : Made(body, k)
      BY <1>5, <2>3 DEF spcVars, SpcIInv
    <3>2. PICK body \in {Body(instr, yes)}, k \in Nat : Made(body, k)
      BY <3>1
    <3>3. FrameMade(k)'
      BY <1>5, <3>2 DEF spcVars, Made, FrameMade, CallMade, ReturnMade, FrameAt
    <3>4. ReadMade(body, k)'
      BY <1>5, <3>2 DEF spcVars, Made, ReadMade, JustRead, CellOf, Index, Direct, Absolute, Word, Last
    <3>5. Made(body, k)'
      BY <1>5, <3>2, <3>3, <3>4 DEF spcVars, Made
    <3>6. body \in {Body(instr', yes)}
      BY <1>5 DEF spcVars
    <3> QED
      BY <3>5, <3>6
  <2> QED
    BY <2>1, <2>2, <2>3 DEF SpcIInv
<1> QED
  BY <1>1, <1>2, <1>3, <1>4, <1>5 DEF SpcNext, Halted

LEMMA SpcKeepsInv == SpcSpec => []SpcIInv
<1>1. SpcInit => SpcIInv
  BY SpcStart DEF SpcInit
<1> QED
  BY <1>1, SpcNextInv, PTL DEF SpcSpec

LEMMA WriteFollowsRead == SpcIInv => WritesWhereItRead
<1> SUFFICES ASSUME SpcIInv, SpcStepCycle \/ LastCycle, Head(todo).does = "write",
                    instr.mode \notin Unread
             PROVE  JustRead(Head(todo).at)
  BY DEF WritesWhereItRead, JustRead
<1>1. todo # <<>>
  BY DEF SpcStepCycle, LastCycle
<1>2. PICK yes \in BOOLEAN, body \in Seq(Cycles), k \in Nat :
        body = Body(instr, yes) /\ Made(body, k) /\ SpcTypes /\ Reads(body)
  BY <1>1, InProgress
<1>3. Head(todo) = body[k + 1] /\ k + 1 \in 1 .. Len(body)
  BY <1>2, NextCycle
<1>4. ReadBefore(body, k + 1) /\ (k + 1) - 1 = k /\ (k + 1) - 2 = k - 1
  BY <1>2, <1>3 DEF Reads
<1>5. CASE k + 1 > 1 /\ body[k] = R(body[k + 1].at)
  <2>1. k >= 1 /\ body[k].does = "read" /\ body[k].at = body[k + 1].at
    BY <1>5 DEF R
  <2> QED
    BY <1>2, <1>3, <2>1 DEF Made, ReadMade
<1>6. CASE k + 1 > 2 /\ body[k] = I /\ body[k - 1] = R(body[k + 1].at)
  <2>1. k >= 2 /\ body[k - 1].does = "read" /\ body[k - 1].at = body[k + 1].at
    BY <1>6 DEF R
  <2> QED
    BY <1>2, <1>3, <1>6, <2>1 DEF Made, ReadMade
<1> QED
  BY <1>4, <1>5, <1>6 DEF ReadBefore

LEMMA ReturnFollowsCall == SpcIInv => ReturnTakesFrame
<1> SUFFICES ASSUME SpcIInv, LastCycle, frame # <<>>,
                    instr.mode = (IF Len(frame) = 3 THEN "returnInterrupt" ELSE "return")
             PROVE  Trace = Seqs!Reverse(frame) /\ StackCell(reg'.s) = frame[1].at
  BY DEF ReturnTakesFrame
<1>1. todo # <<>> /\ Len(todo) = 1
  BY DEF LastCycle
<1>2. instr.mode \in DOMAIN Returns
  BY DEF Returns
<1>3. PICK yes \in BOOLEAN, body \in Seq(Cycles), k \in Nat :
        body = Body(instr, yes) /\ Made(body, k) /\ SpcTypes /\ ReturnShape(instr.mode, body)
  BY <1>1, <1>2, InProgress
<1>4. Head(todo) \in Cycles /\ k + 1 = Len(body) /\ reg \in RegisterSets
      /\ instr \in OperandOps \cup RestOps
  BY <1>1, <1>3, NextCycle DEF SpcTypes
<1>5. PICK r \in Moved(Head(todo)) : reg' \in Effect(r)
  BY DEF LastCycle
<1>6. reg' = r
  BY <1>2, <1>4, <1>5, MovedIs, EffectIs
<1>7. PICK base \in Bytes :
        /\ FrameAt(base) /\ Len(frame) \in {0, 2, 3}
        /\ r.s = (base + Pulls(k + 1)) % ByteSize /\ Len(Trace) = Pulls(k + 1)
        /\ Len(frame) = FrameSize(instr.mode) =>
             \A i \in 1 .. Pulls(k + 1) : Trace[i] = frame[Len(frame) + 1 - i]
  BY <1>2, <1>3, <1>5, ReturnStep
<1>8. Sequence(Trace) /\ Sequence(frame)
  BY <1>3, <1>4, TraceSequence DEF Trace, SpcTypes
<1>9. PICK n \in 2 .. 3 : n = Len(frame) /\ n = FrameSize(instr.mode) /\ Pulls(k + 1) = n
  <2>1. Len(frame) # 0
    BY <1>8 DEF Sequence
  <2>2. Len(frame) = FrameSize(instr.mode)
    BY <1>7, <2>1 DEF FrameSize
  <2>3. k + 1 = Len(frame) + 2
    BY <1>3, <1>4, <2>2 DEF ReturnShape
  <2> QED
    BY <1>7, <2>1, <2>2, <2>3 DEF Pulls
<1>10. Trace = Seqs!Reverse(frame)
  <2>1. Trace = [i \in 1 .. n |-> frame[n + 1 - i]]
    <3>1. DOMAIN Trace = 1 .. n
      BY <1>7, <1>8, <1>9, LenProperties DEF Sequence
    <3>2. \A i \in 1 .. n : Trace[i] = frame[n + 1 - i]
      BY <1>7, <1>9
    <3>3. Trace = [i \in 1 .. n |-> Trace[i]]
      BY <1>7, <1>8, <1>9, <3>1, LenProperties DEF Sequence
    <3> QED
      BY <3>2, <3>3
  <2>2. \A i \in 1 .. n : n + 1 - i = (n - i) + 1
    OBVIOUS
  <2> QED
    BY <1>9, <2>1, <2>2 DEF Seqs!Reverse
<1>11. StackCell(reg'.s) = frame[1].at
  <2>1. frame[1] = [at |-> StackCell((base + Len(frame) + 1 - 1) % ByteSize), does |-> PushOrder[1]]
    BY <1>7, <1>9 DEF FrameAt
  <2>2. base + Len(frame) + 1 - 1 = base + n /\ r.s = (base + n) % ByteSize
    BY <1>7, <1>9 DEF Bytes
  <2> QED
    BY <1>6, <2>1, <2>2
<1> QED
  BY <1>10, <1>11

\* Whatever its addressing mode, index and wrap in the page, an instruction writes only to
\* a location it has read just before; and a return pulls what the call pushed from the
\* cells it pushed it to, and leaves s as it was (Spc700::ExecuteInstructions, StepCycle),
\* for bytes of every size.
THEOREM AccessesArePaired == SpcSpec => AccessesPair
<1>1. SpcIInv => WritesWhereItRead /\ ReturnTakesFrame
  BY WriteFollowsRead, ReturnFollowsCall
<1>2. SpcIInv /\ [SpcNext]_spcVars => [WritesWhereItRead /\ ReturnTakesFrame]_spcVars
  BY <1>1
<1> QED
  BY <1>2, SpcKeepsInv, PTL DEF SpcSpec, AccessesPair

-----------------------------------------------------------------------------

(***************************************************************************)
(* Numbers of two digits, for digits of any size.                          *)
(***************************************************************************)
\* A number is a quotient and a remainder,
LEMMA SplitUp ==
  ASSUME NEW n \in Nat \ {0}, NEW x \in Int
  PROVE  \E i \in Int, j \in 0 .. n - 1 : x = n * i + j /\ x % n = j /\ x \div n = i
<1>1. x \div n \in Int /\ x % n \in 0 .. n - 1
  OBVIOUS
<1>2. x = n * (x \div n) + (x % n)
  OBVIOUS
<1> QED
  BY <1>1, <1>2

\* numbers of two digits are ordered by the high one first,
LEMMA Lexical ==
  ASSUME NEW n \in Nat \ {0}, NEW i \in Int, NEW k \in Int,
         NEW j \in 0 .. n - 1, NEW l \in 0 .. n - 1
  PROVE  /\ n * i + j <= n * k + l <=> i < k \/ (i = k /\ j <= l)
         /\ n * i + j = n * k + l <=> i = k /\ j = l
<1>1. n * k - n * i = n * (k - i)
  OBVIOUS
<1>2. PICK d \in Int : d = k - i
  OBVIOUS
<1>3. PICK m \in Int : m = n * d
  OBVIOUS
<1>4. n * k - n * i = m
  BY <1>1, <1>2, <1>3
<1>5. (d >= 1 => m >= n) /\ (d <= -1 => m <= -n) /\ (d = 0 => m = 0)
  BY <1>3
<1>6. PICK e \in Int, g \in Int : e = n * i /\ g = n * k
  OBVIOUS
<1>7. g - e = m
  BY <1>4, <1>6
<1>8. /\ e + j <= g + l <=> i < k \/ (i = k /\ j <= l)
      /\ e + j = g + l <=> i = k /\ j = l
  BY <1>2, <1>5, <1>7
<1> QED
  BY <1>6, <1>8

\* their digits are the remainder and the quotient,
LEMMA TwoDigits ==
  ASSUME NEW n \in Nat \ {0}, NEW i \in Int, NEW j \in 0 .. n - 1
  PROVE  n * i + j \in Int /\ (n * i + j) % n = j /\ (n * i + j) \div n = i
<1>1. PICK x \in Int : x = n * i + j
  OBVIOUS
<1>2. PICK k \in Int, l \in 0 .. n - 1 : x = n * k + l /\ x % n = l /\ x \div n = k
  BY SplitUp
<1>3. k = i /\ l = j
  BY <1>1, <1>2, Lexical
<1> QED
  BY <1>1, <1>2, <1>3

\* and the high one is a digit when the number fits.
LEMMA InTwoDigits ==
  ASSUME NEW n \in Nat \ {0}, NEW i \in Int, NEW j \in 0 .. n - 1
  PROVE  n * i + j \in 0 .. n * n - 1 <=> i \in 0 .. n - 1
<1>1. 0 <= n * i + j <=> 0 <= i
  <2>1. n * 0 + 0 <= n * i + j <=> 0 < i \/ (0 = i /\ 0 <= j)
    BY Lexical
  <2> QED
    BY <2>1
<1>2. n * n - 1 = n * (n - 1) + (n - 1)
  OBVIOUS
<1>3. n * i + j <= n * (n - 1) + (n - 1) <=> i < n - 1 \/ (i = n - 1 /\ j <= n - 1)
  BY Lexical
<1>4. PICK x \in Int, m \in Int : x = n * i + j /\ m = n * n - 1
  OBVIOUS
<1>5. x <= m <=> i <= n - 1
  BY <1>2, <1>3, <1>4
<1>6. 0 <= x <=> 0 <= i
  BY <1>1, <1>4
<1> QED
  BY <1>4, <1>5, <1>6

\* A number of more digits keeps its lowest two.
LEMMA LowestTwo ==
  ASSUME NEW n \in Nat \ {0}, NEW i \in Int, NEW j \in 0 .. n - 1
  PROVE  (n * i + j) % (n * n) = n * (i % n) + j
<1>1. PICK k \in Int, l \in 0 .. n - 1 : i = n * k + l /\ i % n = l
  BY SplitUp
<1>2. PICK m \in Nat \ {0} : m = n * n
  <2>1. n * n >= n
    OBVIOUS
  <2> QED
    BY <2>1
<1>3. PICK low \in Int : low = n * l + j
  OBVIOUS
<1>4. low \in 0 .. m - 1
  BY <1>2, <1>3, InTwoDigits
<1>5. n * i + j = m * k + low
  BY <1>1, <1>2, <1>3
<1>6. (m * k + low) % m = low
  BY <1>4, TwoDigits
<1> QED
  BY <1>1, <1>2, <1>3, <1>5, <1>6

-----------------------------------------------------------------------------
(***************************************************************************)
(* The arithmetic of the SPC700: bytes and flags.                          *)
(***************************************************************************)
AluBytes == 0 .. AluByte - 1
AluWords == 0 .. AluWord - 1
AluFlags == [c : BOOLEAN, h : BOOLEAN, v : BOOLEAN, z : BOOLEAN, n : BOOLEAN]

\* A sum whose decimal adjustment is due: of numbers whose digits add up to u and s, or
\* whose digits differ by them, A holds what the binary instruction has made.
SumIn ==
  \E u \in 0 .. 2 * Decimal - 2, s \in 0 .. 2 * Decimal - 1 :
    /\ decimal.value = Decimal * u + s
    /\ psw.h <=> s >= Digit
    /\ psw.c <=> u + Bit(psw.h) >= Digit
    /\ aReg = Digit * ((u + Bit(psw.h)) % Digit) + (s % Digit)

DifferenceIn ==
  \E u \in 1 - Decimal .. Decimal - 1, s \in -Decimal .. Decimal - 1 :
    /\ decimal.value = Decimal * u + s
    /\ psw.h <=> s >= 0
    /\ psw.c <=> u - Bit(~psw.h) >= 0
    /\ aReg = Digit * ((u - Bit(~psw.h)) % Digit) + (s % Digit)

DecimalInv ==
  /\ decimal.adjust = "add" => SumIn
  /\ decimal.adjust = "subtract" => DifferenceIn

AluTypes ==
  /\ aReg \in AluBytes /\ yReg \in AluBytes /\ xReg \in AluBytes
  /\ psw \in AluFlags
  /\ decimal \in [adjust : {"none", "add", "subtract"}, value : Int]

AluInv == AluTypes /\ DecimalInv

\* What follows for bytes and words from a digit being even and at least 3.
LEMMA AluSizes ==
  /\ Digit \in Nat \ {0} /\ Decimal \in 2 .. Digit - 1
  /\ AluByte \in Nat \ {0} /\ AluWord \in Nat \ {0}
  /\ AluByte >= 9
  /\ \E half \in Nat \ {0} :
       /\ AluByte = 2 * half /\ AluByte \div 2 = half
       /\ AluWord \div 2 = AluByte * half
<1>1. Digit \in Nat \ {0} /\ Decimal \in 2 .. Digit - 1 /\ Digit >= 3
  BY Spc700AluAssumption
<1>2. PICK d \in Nat \ {0} : Digit = 2 * d
  <2>1. PICK i \in Int, j \in 0 .. 1 : Digit = 2 * i + j /\ Digit % 2 = j
    BY <1>1, SplitUp
  <2> QED
    BY <1>1, <2>1, Spc700AluAssumption
<1>3. AluByte \in Nat /\ AluByte >= 9
  <2>1. Digit * Digit >= 3 * Digit
    BY <1>1
  <2> QED
    BY <1>1, <2>1 DEF AluByte
<1>4. PICK half \in Nat \ {0} : half = Digit * d
  BY <1>1, <1>2
<1>5. AluByte = 2 * half
  BY <1>2, <1>4 DEF AluByte
<1>6. PICK w \in Nat : w = AluByte * half
  BY <1>3, <1>4
<1>7. AluWord = 2 * w
  BY <1>3, <1>5, <1>6 DEF AluWord
<1>8. w > 0
  BY <1>3, <1>6
<1> QED
  BY <1>1, <1>3, <1>5, <1>6, <1>7, <1>8

\* A byte is two digits, a word two bytes.
LEMMA ByteParts ==
  ASSUME NEW b \in AluBytes
  PROVE  \E i \in 0 .. Digit - 1, j \in 0 .. Digit - 1 :
           b = Digit * i + j /\ b % Digit = j /\ b \div Digit = i
<1>1. b \in Int
  BY AluSizes DEF AluBytes
<1>2. PICK i \in Int, j \in 0 .. Digit - 1 : b = Digit * i + j /\ b % Digit = j /\ b \div Digit = i
  BY <1>1, AluSizes, SplitUp
<1>3. i \in 0 .. Digit - 1
  BY <1>2, AluSizes, InTwoDigits DEF AluBytes, AluByte
<1> QED
  BY <1>2, <1>3

LEMMA WordParts ==
  ASSUME NEW w \in AluWords
  PROVE  \E i \in AluBytes, j \in AluBytes :
           w = AluByte * i + j /\ w % AluByte = j /\ w \div AluByte = i
<1>1. w \in Int
  BY AluSizes DEF AluWords
<1>2. PICK i \in Int, j \in 0 .. AluByte - 1 :
        w = AluByte * i + j /\ w % AluByte = j /\ w \div AluByte = i
  BY <1>1, AluSizes, SplitUp
<1>3. i \in 0 .. AluByte - 1
  BY <1>2, AluSizes, InTwoDigits DEF AluWords, AluWord
<1> QED
  BY <1>2, <1>3 DEF AluBytes

LEMMA ResultIs ==
  ASSUME NEW f \in AluFlags, NEW value
  PROVE  /\ Result(f, value).value = value /\ Result(f, value).flag \in AluFlags
         /\ Result(f, value).flag.c <=> f.c
         /\ Result(f, value).flag.h <=> f.h
         /\ Result(f, value).flag.v <=> f.v
         /\ Result(f, value).flag.z <=> value = 0
         /\ Result(f, value).flag.n <=> Negative(value)
<1>1. Negative(value) \in BOOLEAN
  BY DEF Negative
<1> QED
  BY <1>1 DEF Result, AluFlags

LEMMA BitIs == ASSUME NEW b \in BOOLEAN PROVE Bit(b) \in {0, 1} /\ (Bit(b) = 1 <=> b)
BY DEF Bit

\* The byte and the flags of a sum, without the remainder.
LEMMA AdcIs ==
  ASSUME NEW f \in AluFlags, NEW p \in AluBytes, NEW q \in AluBytes
  PROVE  LET r == Adc(f, p, q)
             sum == p + q + Bit(f.c)
         IN  /\ r.value \in AluBytes /\ r.value = sum % AluByte
             /\ sum >= AluByte => r.value = sum - AluByte
             /\ ~(sum >= AluByte) => r.value = sum
             /\ r.flag \in AluFlags
             /\ r.flag.c <=> sum >= AluByte
             /\ r.flag.h <=> (p % Digit) + (q % Digit) + Bit(f.c) >= Digit
             /\ r.flag.v <=> (Negative(p) <=> Negative(q)) /\ ~(Negative(p) <=> Negative(r.value))
             /\ r.flag.n <=> Negative(r.value)
<1> DEFINE sum == p + q + Bit(f.c)
           value == sum % AluByte
           carry == (p % Digit) + (q % Digit) + Bit(f.c) >= Digit
           over == (Negative(p) <=> Negative(q)) /\ (Negative(p) # Negative(value))
           f1 == [f EXCEPT !.c = sum >= AluByte, !.h = carry, !.v = over]
<1>1. Adc(f, p, q) = Result(f1, value)
  BY Zenon DEF Adc
<1>2. Bit(f.c) \in {0, 1} /\ f.c \in BOOLEAN
  BY BitIs DEF AluFlags
<1>3. sum \in Nat /\ sum < 2 * AluByte
  BY <1>2, AluSizes DEF AluBytes
<1>4. value \in AluBytes /\ value = IF sum >= AluByte THEN sum - AluByte ELSE sum
  <2>1. CASE sum >= AluByte
    <3>1. PICK low \in 0 .. AluByte - 1 : low = sum - AluByte
      BY <1>3, <2>1, AluSizes
    <3>2. sum = AluByte * 1 + low
      BY <1>3, <3>1, AluSizes
    <3>3. (AluByte * 1 + low) % AluByte = low
      BY AluSizes, TwoDigits
    <3> QED
      BY <2>1, <3>1, <3>2, <3>3 DEF AluBytes
  <2>2. CASE ~(sum >= AluByte)
    <3>1. sum = AluByte * 0 + sum /\ sum \in 0 .. AluByte - 1
      BY <1>3, <2>2, AluSizes
    <3>2. sum % AluByte = sum
      BY <3>1, AluSizes, TwoDigits
    <3> QED
      BY <2>2, <3>1, <3>2 DEF AluBytes
  <2> QED
    BY <2>1, <2>2
<1>5. f1 \in AluFlags /\ (f1.c <=> sum >= AluByte) /\ (f1.h <=> carry) /\ (f1.v <=> over)
  <2>1. (sum >= AluByte) \in BOOLEAN /\ carry \in BOOLEAN /\ over \in BOOLEAN
    BY DEF Negative
  <2> HIDE DEF carry, over, sum
  <2> QED
    BY <2>1 DEF AluFlags
<1> HIDE DEF f1, value, carry
<1>6. /\ Adc(f, p, q).value = value /\ Adc(f, p, q).flag \in AluFlags
      /\ Adc(f, p, q).flag.c <=> f1.c
      /\ Adc(f, p, q).flag.h <=> f1.h
      /\ Adc(f, p, q).flag.v <=> f1.v
      /\ Adc(f, p, q).flag.n <=> Negative(value)
  BY <1>1, <1>5, ResultIs
<1>7. over <=> (Negative(p) <=> Negative(q)) /\ ~(Negative(p) <=> Negative(value))
  BY DEF Negative
<1> HIDE DEF over
<1> QED
  BY <1>4, <1>5, <1>6, <1>7 DEF value, carry

LEMMA WrappedByte == ASSUME NEW x \in Int PROVE x % AluByte \in AluBytes
BY AluSizes DEF AluBytes

LEMMA ShiftsAre ==
  ASSUME NEW p \in AluBytes, psw \in AluFlags, NEW r \in Shifts(p)
  PROVE  r.value \in AluBytes /\ r.flag \in AluFlags
<1>1. \A b \in BOOLEAN : [psw EXCEPT !.c = b] \in AluFlags
  BY DEF AluFlags
<1>2. Bit(psw.c) \in {0, 1}
  BY BitIs DEF AluFlags
<1>3. Negative(p) \in BOOLEAN /\ (p % 2 = 1) \in BOOLEAN
  BY DEF Negative
<1>4. [psw EXCEPT !.c = Negative(p)] \in AluFlags /\ [psw EXCEPT !.c = p % 2 = 1] \in AluFlags
  BY <1>1, <1>3
<1>5. p \in Int /\ AluByte \in Int
  BY AluSizes DEF AluBytes
<1>6. \/ r = Result([psw EXCEPT !.c = Negative(p)], (2 * p) % AluByte)
      \/ r = Result([psw EXCEPT !.c = p % 2 = 1], p \div 2)
      \/ r = Result([psw EXCEPT !.c = Negative(p)], (2 * p + Bit(psw.c)) % AluByte)
      \/ r = Result([psw EXCEPT !.c = p % 2 = 1],
                    (p \div 2) + Bit(psw.c) * (AluByte \div 2))
      \/ r = Result(psw, (p + 1) % AluByte)
      \/ r = Result(psw, (p + AluByte - 1) % AluByte)
  BY Zenon DEF Shifts, Asl, Lsr, Rol, Ror, Increase, Decrease
<1>7. /\ (2 * p) % AluByte \in AluBytes /\ (2 * p + Bit(psw.c)) % AluByte \in AluBytes
      /\ (p + 1) % AluByte \in AluBytes /\ (p + AluByte - 1) % AluByte \in AluBytes
  <2>1. 2 * p \in Int /\ 2 * p + Bit(psw.c) \in Int /\ p + 1 \in Int /\ p + AluByte - 1 \in Int
    BY <1>2, <1>5
  <2> QED
    BY <2>1, WrappedByte
<1>8. p \div 2 \in AluBytes /\ (p \div 2) + Bit(psw.c) * (AluByte \div 2) \in AluBytes
  <2>1. PICK half \in Nat \ {0} : AluByte = 2 * half /\ AluByte \div 2 = half
    BY AluSizes
  <2>2. PICK i \in Int, j \in 0 .. 1 : p = 2 * i + j /\ p \div 2 = i
    BY <1>5, SplitUp
  <2>3. p \div 2 \in 0 .. half - 1
    BY <2>1, <2>2 DEF AluBytes
  <2> QED
    BY <1>2, <2>1, <2>3 DEF AluBytes
<1>9. CASE r = Result([psw EXCEPT !.c = Negative(p)], (2 * p) % AluByte)
  BY <1>4, <1>7, <1>9, ResultIs
<1>10. CASE r = Result([psw EXCEPT !.c = p % 2 = 1], p \div 2)
  BY <1>4, <1>8, <1>10, ResultIs
<1>11. CASE r = Result([psw EXCEPT !.c = Negative(p)], (2 * p + Bit(psw.c)) % AluByte)
  BY <1>4, <1>7, <1>11, ResultIs
<1>12. CASE r = Result([psw EXCEPT !.c = p % 2 = 1],
                       (p \div 2) + Bit(psw.c) * (AluByte \div 2))
  BY <1>4, <1>8, <1>12, ResultIs
<1>13. CASE r = Result(psw, (p + 1) % AluByte) \/ r = Result(psw, (p + AluByte - 1) % AluByte)
  BY <1>7, <1>13, ResultIs
<1> QED
  BY <1>6, <1>9, <1>10, <1>11, <1>12, <1>13

LEMMA YaIs ==
  ASSUME AluTypes
  PROVE  /\ YA \in AluWords /\ YA = AluByte * yReg + aReg
         /\ YA % AluByte = aReg /\ YA \div AluByte = yReg
<1>1. /\ AluByte \in Nat \ {0}
      /\ aReg \in 0 .. AluByte - 1 /\ yReg \in 0 .. AluByte - 1 /\ yReg \in Int
  BY AluSizes DEF AluTypes, AluBytes
<1>2. YA = AluByte * yReg + aReg
  BY <1>1 DEF YA
<1>3. AluByte * yReg + aReg \in 0 .. AluByte * AluByte - 1
  BY <1>1, InTwoDigits
<1>4. (AluByte * yReg + aReg) % AluByte = aReg /\ (AluByte * yReg + aReg) \div AluByte = yReg
  BY <1>1, TwoDigits
<1> QED
  BY <1>2, <1>3, <1>4 DEF AluWords, AluWord

\* A word made of two bytes goes to Y and A.
LEMMA WordToYA ==
  ASSUME AluTypes, NEW value \in AluWords, NEW f \in AluFlags, ToYA(value, f)
  PROVE  AluInv'
<1>1. value % AluByte \in AluBytes /\ value \div AluByte \in AluBytes
  BY WordParts
<1>2. aReg' \in AluBytes /\ yReg' \in AluBytes /\ xReg' \in AluBytes /\ psw' \in AluFlags
  BY <1>1 DEF ToYA, AluTypes
<1>3. decimal' = NotDecimal
  BY DEF ToYA
<1> QED
  BY <1>2, <1>3 DEF AluInv, AluTypes, DecimalInv, NotDecimal

LEMMA ByteToA ==
  ASSUME AluTypes, NEW r, r.value \in AluBytes, r.flag \in AluFlags, ToA(r), decimal' = NotDecimal
  PROVE  AluInv'
<1>1. aReg' \in AluBytes /\ yReg' \in AluBytes /\ xReg' \in AluBytes /\ psw' \in AluFlags
  BY DEF ToA, AluTypes
<1> QED
  BY <1>1 DEF AluInv, AluTypes, DecimalInv, NotDecimal

-----------------------------------------------------------------------------
(***************************************************************************)
(* Words: two bytes, chained.                                              *)
(***************************************************************************)
\* A signed byte.
Sign(b) == IF Negative(b) THEN b - AluByte ELSE b

\* The sign of a word is its high byte's,
LEMMA SignedIs ==
  ASSUME NEW i \in AluBytes, NEW j \in AluBytes
  PROVE  /\ Signed(AluByte * i + j) = AluByte * Sign(i) + j
         /\ Sign(i) \in Int
<1>1. PICK half \in Nat \ {0} :
        /\ AluByte = 2 * half /\ AluByte \div 2 = half
        /\ AluWord \div 2 = AluByte * half
  BY AluSizes
<1>2. /\ AluByte \in Nat \ {0} /\ half \in Int /\ 0 \in 0 .. AluByte - 1
      /\ i \in Int /\ j \in 0 .. AluByte - 1
  BY <1>1, AluSizes DEF AluBytes
<1>3. AluByte * half + 0 <= AluByte * i + j <=> half < i \/ (half = i /\ 0 <= j)
  BY <1>2, Lexical
<1>4. PICK w \in Int, m \in Int : w = AluByte * i + j /\ m = AluByte * half
  BY <1>2
<1>5. w >= m <=> i >= half
  BY <1>2, <1>3, <1>4
<1>6. Negative(i) <=> i >= half
  BY <1>1 DEF Negative
<1>7. w - AluWord = AluByte * (i - AluByte) + j
  BY <1>2, <1>4 DEF AluWord
<1> QED
  BY <1>1, <1>2, <1>4, <1>5, <1>6, <1>7 DEF Signed, Sign

\* and so is whether a sum of two is in range.
LEMMA InWordIs ==
  ASSUME NEW i \in Int, NEW j \in AluBytes
  PROVE  InWord(AluByte * i + j) <=> i >= -(AluByte \div 2) /\ i < AluByte \div 2
<1>1. PICK half \in Nat \ {0} :
        /\ AluByte = 2 * half /\ AluByte \div 2 = half
        /\ AluWord \div 2 = AluByte * half
  BY AluSizes
<1>2. AluByte \in Nat \ {0} /\ j \in 0 .. AluByte - 1 /\ 0 \in 0 .. AluByte - 1
      /\ -half \in Int /\ half \in Int
  BY <1>1, AluSizes DEF AluBytes
<1>3. AluByte * (-half) + 0 <= AluByte * i + j <=> -half < i \/ (-half = i /\ 0 <= j)
  BY <1>2, Lexical
<1>4. AluByte * half + 0 <= AluByte * i + j <=> half < i \/ (half = i /\ 0 <= j)
  BY <1>2, Lexical
<1>5. PICK x \in Int, m \in Int : x = AluByte * i + j /\ m = AluByte * half
  BY <1>2
<1>6. AluByte * (-half) = -m
  BY <1>2, <1>5
<1>7. (-m <= x <=> i >= -half) /\ (m <= x <=> i >= half)
  BY <1>2, <1>3, <1>4, <1>5, <1>6
<1>8. InWord(x) <=> x >= -m /\ x <= m - 1
  BY <1>1, <1>5 DEF InWord
<1> QED
  BY <1>1, <1>2, <1>5, <1>7, <1>8

\* A subtraction adds the mirrored byte.
LEMMA MirroredSign ==
  ASSUME NEW q \in AluBytes
  PROVE  Sign(AluByte - 1 - q) = -1 - Sign(q)
<1>1. PICK half \in Nat \ {0} : AluByte = 2 * half /\ AluByte \div 2 = half
  BY AluSizes
<1> QED
  BY <1>1 DEF AluBytes, Sign, Negative

\* The high byte's overflow is the signed sum's.
LEMMA OverflowIs ==
  ASSUME NEW p \in AluBytes, NEW q \in AluBytes, NEW k \in {0, 1}, NEW value \in AluBytes,
         value = IF p + q + k >= AluByte THEN p + q + k - AluByte ELSE p + q + k
  PROVE  (Negative(p) <=> Negative(q)) /\ ~(Negative(p) <=> Negative(value)) <=>
           ~(/\ Sign(p) + Sign(q) + k >= -(AluByte \div 2)
             /\ Sign(p) + Sign(q) + k < AluByte \div 2)
<1>1. PICK half \in Nat \ {0} : AluByte = 2 * half /\ AluByte \div 2 = half
  BY AluSizes
<1>2. /\ p \in 0 .. 2 * half - 1 /\ q \in 0 .. 2 * half - 1 /\ value \in 0 .. 2 * half - 1
  BY <1>1 DEF AluBytes
<1>3. \A b \in Int : (Negative(b) <=> b >= half)
                     /\ Sign(b) = IF b >= half THEN b - 2 * half ELSE b
  BY <1>1 DEF Negative, Sign
<1>4. (Negative(p) <=> p >= half) /\ (Negative(q) <=> q >= half) /\ (Negative(value) <=> value >= half)
  BY <1>2, <1>3
<1>5. /\ Sign(p) = IF p >= half THEN p - 2 * half ELSE p
      /\ Sign(q) = IF q >= half THEN q - 2 * half ELSE q
  BY <1>1, <1>2, <1>3
<1> QED
  BY <1>1, <1>2, <1>4, <1>5

LEMMA AdcSum ==
  ASSUME NEW f \in AluFlags, NEW p \in AluBytes, NEW q \in AluBytes, NEW r, r = Adc(f, p, q)
  PROVE  /\ r.value \in AluBytes /\ r.flag \in AluFlags
         /\ Bit(f.c) \in {0, 1} /\ Bit(r.flag.c) \in {0, 1}
         /\ r.value + AluByte * Bit(r.flag.c) = p + q + Bit(f.c)
         /\ r.flag.v <=> ~(/\ Sign(p) + Sign(q) + Bit(f.c) >= -(AluByte \div 2)
                           /\ Sign(p) + Sign(q) + Bit(f.c) < AluByte \div 2)
<1> DEFINE sum == p + q + Bit(f.c)
<1>1. r.value \in AluBytes /\ r.flag \in AluFlags
  BY AdcIs
<1>2. r.flag.c <=> sum >= AluByte
  BY AdcIs
<1>3. sum >= AluByte => r.value = sum - AluByte
  BY AdcIs
<1>4. ~(sum >= AluByte) => r.value = sum
  BY AdcIs
<1>5. r.flag.v <=> (Negative(p) <=> Negative(q)) /\ ~(Negative(p) <=> Negative(r.value))
  BY AdcIs
<1>6. PICK k \in {0, 1} : k = Bit(f.c)
  BY BitIs DEF AluFlags
<1>7. PICK value \in AluBytes : value = r.value
  BY <1>1
<1>8. value = IF p + q + k >= AluByte THEN p + q + k - AluByte ELSE p + q + k
  <2>1. p \in Int /\ q \in Int /\ AluByte \in Int
    BY AluSizes DEF AluBytes
  <2> QED
    BY <1>3, <1>4, <1>6, <1>7, <2>1
<1>9. (Negative(p) <=> Negative(q)) /\ ~(Negative(p) <=> Negative(value)) <=>
        ~(/\ Sign(p) + Sign(q) + k >= -(AluByte \div 2)
          /\ Sign(p) + Sign(q) + k < AluByte \div 2)
  BY <1>8, OverflowIs
<1>10. r.flag.v <=> ~(/\ Sign(p) + Sign(q) + Bit(f.c) >= -(AluByte \div 2)
                      /\ Sign(p) + Sign(q) + Bit(f.c) < AluByte \div 2)
  BY <1>5, <1>6, <1>7, <1>9
<1>11. r.flag.c \in BOOLEAN
  BY <1>1 DEF AluFlags
<1>12. Bit(r.flag.c) = IF p + q + k >= AluByte THEN 1 ELSE 0
  BY <1>2, <1>6, <1>11 DEF Bit
<1>13. r.value + AluByte * Bit(r.flag.c) = p + q + Bit(f.c)
  <2>1. p \in Int /\ q \in Int /\ AluByte \in Int /\ AluByte * 0 = 0 /\ AluByte * 1 = AluByte
    BY AluSizes DEF AluBytes
  <2> QED
    BY <1>6, <1>7, <1>8, <1>12, <2>1
<1> QED
  BY <1>1, <1>6, <1>10, <1>11, <1>13, BitIs

\* A sum of two bytes and a carry is that of the word, and so is its overflow.
SumOf(f, p1, p0, q1, q0) ==
  LET low == Adc(f, p0, q0)
      high == Adc(low.flag, p1, q1)
      value == low.value + AluByte * high.value
  IN  [value |-> value, flag |-> [high.flag EXCEPT !.z = value = 0]]

IsSum(r, f, p1, p0, q1, q0) ==
  /\ r.value \in AluWords /\ r.flag \in AluFlags
  /\ Bit(r.flag.c) * AluWord + r.value =
       (AluByte * p1 + p0) + (AluByte * q1 + q0) + Bit(f.c)
  /\ r.flag.v <=> ~InWord(AluByte * (Sign(p1) + Sign(q1)) + p0 + q0 + Bit(f.c))
  /\ r.flag.z <=> r.value = 0

\* In the words of IsSum, which keeps the multiplications from the lemmas that cite it:
\* carry, overflow, Z and value of two chained bytes.
LEMMA SumIs ==
  ASSUME NEW f \in AluFlags, NEW p1 \in AluBytes, NEW p0 \in AluBytes,
         NEW q1 \in AluBytes, NEW q0 \in AluBytes
  PROVE  IsSum(SumOf(f, p1, p0, q1, q0), f, p1, p0, q1, q0)
<1>1. PICK low : low = Adc(f, p0, q0)
  OBVIOUS
<1>2. PICK high : high = Adc(low.flag, p1, q1)
  OBVIOUS
<1>3. PICK value : value = low.value + AluByte * high.value
  OBVIOUS
<1>4. PICK last : last = [high.flag EXCEPT !.z = value = 0]
  OBVIOUS
<1>5. /\ low.value \in AluBytes /\ low.flag \in AluFlags
      /\ Bit(f.c) \in {0, 1} /\ Bit(low.flag.c) \in {0, 1}
      /\ low.value + AluByte * Bit(low.flag.c) = p0 + q0 + Bit(f.c)
  BY <1>1, AdcSum
<1>6. /\ high.value \in AluBytes /\ high.flag \in AluFlags /\ Bit(high.flag.c) \in {0, 1}
      /\ high.value + AluByte * Bit(high.flag.c) = p1 + q1 + Bit(low.flag.c)
      /\ high.flag.v <=> ~(/\ Sign(p1) + Sign(q1) + Bit(low.flag.c) >= -(AluByte \div 2)
                           /\ Sign(p1) + Sign(q1) + Bit(low.flag.c) < AluByte \div 2)
  BY <1>5, <1>2, AdcSum
<1>7. /\ last \in AluFlags /\ (last.c <=> high.flag.c) /\ (last.v <=> high.flag.v)
      /\ last.z <=> value = 0
  BY <1>6, <1>4 DEF AluFlags
<1>8. value \in AluWords
  <2>1. low.value \in 0 .. AluByte - 1 /\ high.value \in 0 .. AluByte - 1 /\ high.value \in Int
    BY <1>5, <1>6, AluSizes DEF AluBytes
  <2>2. AluByte * high.value + low.value \in 0 .. AluByte * AluByte - 1
    BY <2>1, AluSizes, InTwoDigits
  <2> QED
    BY <1>3, <2>1, <2>2, AluSizes DEF AluWords, AluWord
<1>9. PICK k \in {0, 1} : k = Bit(low.flag.c)
  BY <1>5
<1>10. PICK c \in {0, 1} : c = Bit(high.flag.c)
  BY <1>6
<1>11. PICK m \in {0, 1} : m = Bit(f.c)
  BY <1>5
<1>12. PICK r0 \in AluBytes, r1 \in AluBytes : r0 = low.value /\ r1 = high.value
  BY <1>5, <1>6
<1>13. /\ AluByte \in Int /\ r0 \in Int /\ r1 \in Int
      /\ p1 \in Int /\ p0 \in Int /\ q1 \in Int /\ q0 \in Int
      /\ Sign(p1) \in Int /\ Sign(q1) \in Int
  BY AluSizes DEF AluBytes, Sign
<1>14. r0 = p0 + q0 + m - AluByte * k /\ r1 = p1 + q1 + k - AluByte * c
  <2>1. PICK d \in Int, e \in Int : d = AluByte * k /\ e = AluByte * c
    BY <1>13
  <2>2. r0 + d = p0 + q0 + m /\ r1 + e = p1 + q1 + k
    BY <1>5, <1>6, <1>9, <1>10, <1>11, <1>12, <2>1
  <2>3. m \in Int /\ k \in Int
    BY <1>9, <1>11
  <2> QED
    BY <1>13, <2>1, <2>2, <2>3
<1>15. Bit(last.c) = c /\ last.c \in BOOLEAN
  BY <1>6, <1>7, <1>10 DEF AluFlags, Bit
<1>16. c * AluWord + (r0 + AluByte * r1) = (AluByte * p1 + p0) + (AluByte * q1 + q0) + m
  <2>1. AluByte * r1 = AluByte * p1 + AluByte * q1 + AluByte * k - AluByte * (AluByte * c)
    BY <1>13, <1>14
  <2>2. AluByte * (AluByte * c) = c * AluWord
    BY <1>13 DEF AluWord
  <2> QED
    BY <1>13, <1>14, <2>1, <2>2
<1>17. last.v <=> ~InWord(AluByte * (Sign(p1) + Sign(q1)) + p0 + q0 + m)
  <2>1. PICK i \in Int : i = Sign(p1) + Sign(q1) + k
    BY <1>13
  <2>2. AluByte * (Sign(p1) + Sign(q1)) + p0 + q0 + m = AluByte * i + r0
    BY <1>13, <1>14, <2>1
  <2>3. InWord(AluByte * i + r0) <=> i >= -(AluByte \div 2) /\ i < AluByte \div 2
    BY InWordIs
  <2>4. high.flag.v <=> ~(i >= -(AluByte \div 2) /\ i < AluByte \div 2)
    BY <1>6, <1>9, <2>1
  <2> QED
    BY <1>7, <2>2, <2>3, <2>4
<1>18. Bit(last.c) * AluWord + value =
         (AluByte * p1 + p0) + (AluByte * q1 + q0) + Bit(f.c)
  BY <1>3, <1>11, <1>12, <1>15, <1>16
<1>19. last.v <=> ~InWord(AluByte * (Sign(p1) + Sign(q1)) + p0 + q0 + Bit(f.c))
  BY <1>11, <1>17
<1> QED
  <2>1. SumOf(f, p1, p0, q1, q0) = [value |-> value, flag |-> last]
    BY <1>1, <1>2, <1>3, <1>4, Zenon DEF SumOf
  <2> QED
    BY <1>7, <1>8, <1>18, <1>19, <2>1 DEF IsSum

\* The word instructions of YA and a word.
LEMMA AdwIs ==
  ASSUME AluTypes, NEW w \in AluWords, NEW r, r = Adw(psw, YA, w)
  PROVE  /\ r.value \in AluWords /\ r.flag \in AluFlags
         /\ Bit(r.flag.c) * AluWord + r.value = YA + w
         /\ r.flag.v <=> ~InWord(Signed(YA) + Signed(w))
         /\ r.flag.z <=> r.value = 0
<1>1. PICK w1 \in AluBytes, w0 \in AluBytes :
        w = AluByte * w1 + w0 /\ w % AluByte = w0 /\ w \div AluByte = w1
  BY WordParts
<1>2. PICK f \in AluFlags : f = [psw EXCEPT !.c = FALSE]
  BY DEF AluTypes, AluFlags
<1>3. r = SumOf(f, yReg, aReg, w1, w0)
  BY <1>1, <1>2, YaIs, Zenon DEF Adw, Chained, SumOf
<1>4. aReg \in AluBytes /\ yReg \in AluBytes /\ w1 \in AluBytes /\ w0 \in AluBytes /\ f \in AluFlags
  BY <1>1, <1>2 DEF AluTypes
<1>5. /\ aReg \in AluBytes /\ yReg \in AluBytes /\ YA = AluByte * yReg + aReg
      /\ aReg \in Int /\ w0 \in Int /\ AluByte \in Int
  BY YaIs, AluSizes DEF AluTypes, AluBytes
<1>6. Bit(f.c) = 0
  BY <1>2 DEF AluTypes, AluFlags, Bit
<1>7. IsSum(r, f, yReg, aReg, w1, w0)
  BY <1>4, <1>3, SumIs
<1>8. Bit(r.flag.c) * AluWord + r.value =
        (AluByte * yReg + aReg) + (AluByte * w1 + w0) + Bit(f.c)
  BY <1>7 DEF IsSum
<1>9. r.flag.v <=> ~InWord(AluByte * (Sign(yReg) + Sign(w1)) + aReg + w0 + Bit(f.c))
  BY <1>7 DEF IsSum
<1>10. r.value \in AluWords /\ r.flag \in AluFlags /\ (r.flag.z <=> r.value = 0)
  BY <1>7 DEF IsSum
<1>11. Bit(r.flag.c) * AluWord + r.value = YA + w
  BY <1>1, <1>5, <1>6, <1>8, YaIs DEF AluWords
<1>12. AluByte * (Sign(yReg) + Sign(w1)) + aReg + w0 + 0 = Signed(YA) + Signed(w)
  <2>1. /\ Signed(YA) = AluByte * Sign(yReg) + aReg /\ Sign(yReg) \in Int
        /\ Signed(w) = AluByte * Sign(w1) + w0 /\ Sign(w1) \in Int
    BY <1>1, <1>5, SignedIs
  <2> QED
    BY <1>5, <2>1
<1> QED
  BY <1>6, <1>9, <1>10, <1>11, <1>12

LEMMA SbwIs ==
  ASSUME AluTypes, NEW w \in AluWords, NEW r, r = Sbw(psw, YA, w)
  PROVE  /\ r.value \in AluWords /\ r.flag \in AluFlags
         /\ r.value - (1 - Bit(r.flag.c)) * AluWord = YA - w
         /\ r.flag.v <=> ~InWord(Signed(YA) - Signed(w))
         /\ r.flag.z <=> r.value = 0
<1>1. PICK w1 \in AluBytes, w0 \in AluBytes :
        w = AluByte * w1 + w0 /\ w % AluByte = w0 /\ w \div AluByte = w1
  BY WordParts
<1>2. PICK f \in AluFlags : f = [psw EXCEPT !.c = TRUE]
  BY DEF AluTypes, AluFlags
<1>3. PICK q1 \in AluBytes, q0 \in AluBytes : q1 = AluByte - 1 - w1 /\ q0 = AluByte - 1 - w0
  BY AluSizes DEF AluBytes
<1>4. r = SumOf(f, yReg, aReg, q1, q0)
  BY <1>1, <1>2, <1>3, YaIs, Zenon DEF Sbw, Chained, Sbc, SumOf
<1>5. aReg \in AluBytes /\ yReg \in AluBytes /\ q1 \in AluBytes /\ q0 \in AluBytes /\ f \in AluFlags
  BY <1>2, <1>3 DEF AluTypes
<1>6. /\ aReg \in AluBytes /\ yReg \in AluBytes /\ YA = AluByte * yReg + aReg
      /\ aReg \in Int /\ w0 \in Int /\ w1 \in Int /\ AluByte \in Int
  BY YaIs, AluSizes DEF AluTypes, AluBytes
<1>7. Bit(f.c) = 1
  BY <1>2 DEF AluTypes, AluFlags, Bit
<1>8. IsSum(r, f, yReg, aReg, q1, q0)
  BY <1>5, <1>4, SumIs
<1>9. Bit(r.flag.c) * AluWord + r.value =
        (AluByte * yReg + aReg) + (AluByte * q1 + q0) + Bit(f.c)
  BY <1>8 DEF IsSum
<1>10. r.flag.v <=> ~InWord(AluByte * (Sign(yReg) + Sign(q1)) + aReg + q0 + Bit(f.c))
  BY <1>8 DEF IsSum
<1>11. r.value \in AluWords /\ r.flag \in AluFlags /\ (r.flag.z <=> r.value = 0)
  BY <1>8 DEF IsSum
<1>12. AluByte * q1 + q0 = AluWord - 1 - w
  BY <1>1, <1>3, <1>6 DEF AluWord
<1>13. r.value - (1 - Bit(r.flag.c)) * AluWord = YA - w
  <2>1. PICK b \in {0, 1} : b = Bit(r.flag.c)
    BY <1>11, BitIs DEF AluFlags
  <2>2. AluWord \in Int /\ YA \in Int /\ w \in Int /\ r.value \in Int
    BY <1>11, YaIs, AluSizes DEF AluWords
  <2>3. b * AluWord + r.value = YA + (AluWord - 1 - w) + 1
    BY <1>6, <1>7, <1>9, <1>12, <2>1
  <2>4. r.value - (1 - b) * AluWord = YA - w
    BY <2>1, <2>2, <2>3
  <2> QED
    BY <2>1, <2>4
<1>14. AluByte * (Sign(yReg) + Sign(q1)) + aReg + q0 + 1 = Signed(YA) - Signed(w)
  <2>1. /\ Signed(YA) = AluByte * Sign(yReg) + aReg /\ Sign(yReg) \in Int
        /\ Signed(w) = AluByte * Sign(w1) + w0 /\ Sign(w1) \in Int
    BY <1>1, <1>6, SignedIs
  <2>2. Sign(q1) = -1 - Sign(w1)
    BY <1>3, MirroredSign
  <2> QED
    BY <1>3, <1>6, <2>1, <2>2
<1> QED
  BY <1>7, <1>10, <1>11, <1>13, <1>14

\* A word incremented or decremented byte by byte.
LEMMA AdjustedIs ==
  ASSUME NEW w \in AluWords, NEW by \in {1, -1}
  PROVE  Adjusted(w, by) = (w + by) % AluWord /\ Adjusted(w, by) \in AluWords
<1>1. PICK i \in AluBytes, j \in AluBytes :
        w = AluByte * i + j /\ w % AluByte = j /\ w \div AluByte = i
  BY WordParts
<1>2. i \in Int /\ j \in Int /\ i \in 0 .. AluByte - 1 /\ j \in 0 .. AluByte - 1 /\ AluByte \in Nat \ {0}
  BY AluSizes DEF AluBytes
<1>3. PICK k \in Int, low \in 0 .. AluByte - 1 :
        j + by = AluByte * k + low /\ (j + by) % AluByte = low
  <2>1. j + by \in Int
    BY <1>2
  <2> DEFINE x == j + by
  <2> HIDE DEF x
  <2>2. \E k \in Int, low \in 0 .. AluByte - 1 : x = AluByte * k + low /\ x % AluByte = low
    <3>1. x \in Int
      BY <2>1 DEF x
    <3> QED
      BY <1>2, <3>1, SplitUp
  <2> QED
    BY <2>2 DEF x
<1>4. /\ k = IF by = 1 THEN Bit(low = 0) ELSE -Bit(low = AluByte - 1)
      /\ k \in Int
  <2>1. (k >= 1 => AluByte * k >= AluByte) /\ (k <= -1 => AluByte * k <= -AluByte)
        /\ (k >= 2 => AluByte * k >= 2 * AluByte) /\ (k <= -2 => AluByte * k <= -(2 * AluByte))
    BY <1>2
  <2>2. PICK m \in Int : m = AluByte * k
    BY <1>2
  <2>3. /\ (k >= 1 => m >= AluByte) /\ (k <= -1 => m <= -AluByte) /\ (k = 0 => m = 0)
        /\ (k >= 2 => m >= 2 * AluByte) /\ (k <= -2 => m <= -(2 * AluByte))
        /\ (k = 1 => m = AluByte) /\ (k = -1 => m = -AluByte)
    BY <1>2, <2>1, <2>2
  <2>4. j + by = m + low
    BY <1>3, <2>2
  <2>5. AluByte >= 9
    BY AluSizes
  <2> QED
    BY <1>2, <2>3, <2>4, <2>5 DEF Bit
<1>5. Adjusted(w, by) = low + AluByte * ((i + k) % AluByte)
  BY <1>1, <1>3, <1>4 DEF Adjusted
<1>6. w + by = AluByte * (i + k) + low
  BY <1>1, <1>2, <1>3
<1>7. PICK h \in Int : h = i + k
  BY <1>2, <1>4
<1>8. (AluByte * h + low) % (AluByte * AluByte) = AluByte * (h % AluByte) + low
  BY <1>2, LowestTwo
<1>9. h % AluByte \in 0 .. AluByte - 1 /\ h % AluByte \in Int
  BY <1>2, <1>7
<1>10. AluByte * (h % AluByte) + low \in AluWords
  BY <1>2, <1>9, InTwoDigits DEF AluWords, AluWord
<1>11. AluByte * (h % AluByte) + low = low + AluByte * (h % AluByte)
  BY <1>2, <1>9
<1> QED
  BY <1>5, <1>6, <1>7, <1>8, <1>10, <1>11 DEF AluWord

LEMMA WordsExact == AluInv => WordArithmetic
<1> SUFFICES ASSUME AluTypes, NEW w \in WordData
             PROVE  LET sum == Adw(psw, YA, w)
                        difference == Sbw(psw, YA, w)
                    IN  /\ Bit(sum.flag.c) * AluWord + sum.value = YA + w
                        /\ sum.flag.v <=> ~InWord(Signed(YA) + Signed(w))
                        /\ sum.flag.z <=> sum.value = 0
                        /\ difference.value - (1 - Bit(difference.flag.c)) * AluWord = YA - w
                        /\ difference.flag.v <=> ~InWord(Signed(YA) - Signed(w))
                        /\ difference.flag.z <=> difference.value = 0
                        /\ \A by \in {1, -1} : Adjusted(w, by) = (w + by) % AluWord
  BY DEF AluInv, WordArithmetic
<1>1. w \in AluWords
  BY Spc700AluAssumption DEF AluWords
<1>2. PICK sum : sum = Adw(psw, YA, w)
  OBVIOUS
<1>3. PICK difference : difference = Sbw(psw, YA, w)
  OBVIOUS
<1>4. /\ Bit(sum.flag.c) * AluWord + sum.value = YA + w
      /\ sum.flag.v <=> ~InWord(Signed(YA) + Signed(w))
      /\ sum.flag.z <=> sum.value = 0
  BY <1>1, <1>2, AdwIs
<1>5. /\ difference.value - (1 - Bit(difference.flag.c)) * AluWord = YA - w
      /\ difference.flag.v <=> ~InWord(Signed(YA) - Signed(w))
      /\ difference.flag.z <=> difference.value = 0
  BY <1>1, <1>3, SbwIs
<1>6. \A by \in {1, -1} : Adjusted(w, by) = (w + by) % AluWord
  BY <1>1, AdjustedIs
<1> QED
  BY <1>2, <1>3, <1>4, <1>5, <1>6, Zenon

-----------------------------------------------------------------------------
(***************************************************************************)
(* Division and multiplication.                                            *)
(***************************************************************************)
\* Up to twice the range the quotient loses its ninth bit only.
LEMMA QuotientIs ==
  ASSUME AluTypes, yReg < 2 * xReg
  PROVE  /\ Quotient \in AluBytes /\ Remainder \in AluBytes
         /\ YA = xReg * (Quotient + AluByte * Bit(Overflows)) + Remainder /\ Remainder < xReg
<1>1. /\ AluByte \in Nat \ {0} /\ xReg \in Nat \ {0} /\ xReg < AluByte
      /\ yReg \in Nat /\ aReg \in 0 .. AluByte - 1
      /\ YA \in Int /\ YA = AluByte * yReg + aReg
  BY YaIs, AluSizes DEF AluTypes, AluBytes, AluWords
<1>2. PICK q \in Int, r \in 0 .. xReg - 1 : YA = xReg * q + r /\ YA % xReg = r /\ YA \div xReg = q
  BY <1>1, SplitUp
<1>3. q >= 0 /\ q < 2 * AluByte /\ (q >= AluByte <=> yReg >= xReg)
  <2>1. PICK ya \in Int : ya = YA
    BY <1>1
  <2>2. 0 \in 0 .. xReg - 1 /\ 0 \in 0 .. AluByte - 1 /\ 2 * AluByte \in Int /\ 2 * xReg \in Int
    BY <1>1
  <2>3. xReg * 0 + 0 <= xReg * q + r <=> 0 < q \/ (0 = q /\ 0 <= r)
    BY <1>1, <1>2, <2>2, Lexical
  <2>4. xReg * AluByte + 0 <= xReg * q + r <=> AluByte < q \/ (AluByte = q /\ 0 <= r)
    BY <1>1, <1>2, <2>2, Lexical
  <2>5. xReg * (2 * AluByte) + 0 <= xReg * q + r <=> 2 * AluByte < q \/ (2 * AluByte = q /\ 0 <= r)
    BY <1>1, <1>2, <2>2, Lexical
  <2>6. AluByte * xReg + 0 <= AluByte * yReg + aReg <=> xReg < yReg \/ (xReg = yReg /\ 0 <= aReg)
    BY <1>1, <2>2, Lexical
  <2>7. AluByte * (2 * xReg) + 0 <= AluByte * yReg + aReg
          <=> 2 * xReg < yReg \/ (2 * xReg = yReg /\ 0 <= aReg)
    BY <1>1, <2>2, Lexical
  <2>8. PICK m \in Int : m = AluByte * xReg
    BY <1>1
  <2>9. xReg * AluByte = m /\ xReg * (2 * AluByte) = 2 * m /\ AluByte * (2 * xReg) = 2 * m
        /\ xReg * 0 = 0
    BY <1>1, <2>8
  <2>10. YA \in AluWords /\ YA >= 0
    BY YaIs, AluSizes DEF AluWords
  <2>11. q >= 0
    BY <1>2, <2>1, <2>3, <2>9, <2>10
  <2>12. q >= AluByte <=> m <= ya
    BY <1>1, <1>2, <2>1, <2>4, <2>9
  <2>13. q >= 2 * AluByte <=> 2 * m <= ya
    BY <1>1, <1>2, <2>1, <2>5, <2>9
  <2>14. m <= ya <=> yReg >= xReg
    BY <1>1, <2>1, <2>6, <2>8
  <2>15. ~(2 * m <= ya)
    BY <1>1, <2>1, <2>7, <2>9
  <2> QED
    BY <1>1, <2>11, <2>12, <2>13, <2>14, <2>15
<1>4. Remainder = r /\ Quotient = q % AluByte
  BY <1>2 DEF Remainder, Quotient
<1>5. Quotient \in AluBytes /\ Quotient + AluByte * Bit(Overflows) = q
  <2>1. CASE yReg >= xReg
    <3>1. PICK low \in 0 .. AluByte - 1 : low = q - AluByte
      BY <1>1, <1>3, <2>1
    <3>2. q = AluByte * 1 + low
      BY <1>1, <3>1
    <3>3. (AluByte * 1 + low) % AluByte = low
      BY <1>1, TwoDigits
    <3>4. Bit(Overflows) = 1
      BY <2>1 DEF Bit, Overflows
    <3> QED
      BY <1>1, <1>4, <3>1, <3>2, <3>3, <3>4 DEF AluBytes
  <2>2. CASE ~(yReg >= xReg)
    <3>1. q \in 0 .. AluByte - 1
      BY <1>1, <1>3, <2>2
    <3>2. (AluByte * 0 + q) % AluByte = q
      BY <1>1, <3>1, TwoDigits
    <3>3. AluByte * 0 + q = q
      BY <1>1, <3>1
    <3>4. Bit(Overflows) = 0
      BY <2>2 DEF Bit, Overflows
    <3> QED
      BY <1>1, <1>4, <3>1, <3>2, <3>3, <3>4 DEF AluBytes
  <2> QED
    BY <2>1, <2>2
<1>6. Remainder \in AluBytes /\ Remainder < xReg
  BY <1>1, <1>2, <1>4 DEF AluBytes
<1> QED
  BY <1>2, <1>4, <1>5, <1>6

\* What the shifts leave of a quotient that is too large.
LEMMA TooLarge ==
  ASSUME AluTypes, ~(yReg < 2 * xReg)
  PROVE  Quotient \in AluBytes /\ Remainder \in AluBytes
<1>1. /\ AluByte \in Nat \ {0} /\ xReg \in Nat /\ xReg < AluByte
      /\ yReg \in Nat /\ yReg < AluByte /\ aReg \in 0 .. AluByte - 1
      /\ YA \in Int /\ YA = AluByte * yReg + aReg /\ YA < AluByte * AluByte
  BY YaIs, AluSizes DEF AluTypes, AluBytes, AluWords, AluWord
<1>2. PICK n \in Nat \ {0} : n = AluByte - xReg
  BY <1>1
<1>3. PICK z \in Int : z = YA - 2 * AluByte * xReg
  BY <1>1
<1>4. PICK q \in Int, r \in 0 .. n - 1 : z = n * q + r /\ z % n = r /\ z \div n = q
  BY SplitUp
<1>5. 0 <= z /\ ~(n * AluByte + 0 <= z)
  <2>1. AluByte * (2 * xReg) + 0 <= AluByte * yReg + aReg
    <3>1. 2 * xReg \in Int /\ 0 \in 0 .. AluByte - 1
      BY <1>1
    <3>2. AluByte * (2 * xReg) + 0 <= AluByte * yReg + aReg
            <=> 2 * xReg < yReg \/ (2 * xReg = yReg /\ 0 <= aReg)
      BY <1>1, <3>1, Lexical
    <3> QED
      BY <1>1, <3>2
  <2>2. PICK m \in Nat, s \in Nat : m = AluByte * xReg /\ s = AluByte * AluByte
    BY <1>1
  <2>3. AluByte * (2 * xReg) = 2 * m /\ 2 * AluByte * xReg = 2 * m /\ n * AluByte = s - m
    BY <1>1, <1>2, <2>2
  <2> QED
    BY <1>1, <1>3, <2>1, <2>2, <2>3
<1>6. q \in 0 .. AluByte - 1
  <2>1. 0 \in 0 .. n - 1
    OBVIOUS
  <2>2. n * 0 + 0 <= n * q + r <=> 0 < q \/ (0 = q /\ 0 <= r)
    BY <1>4, <2>1, Lexical
  <2>3. n * AluByte + 0 <= n * q + r <=> AluByte < q \/ (AluByte = q /\ 0 <= r)
    BY <1>1, <1>4, <2>1, Lexical
  <2>4. n * 0 = 0
    OBVIOUS
  <2>5. q >= 0
    BY <1>4, <1>5, <2>2, <2>4
  <2>6. ~(AluByte < q \/ (AluByte = q /\ 0 <= r))
    BY <1>4, <1>5, <2>3
  <2> QED
    BY <1>1, <1>4, <2>5, <2>6
<1>7. Quotient = AluByte - 1 - q /\ Remainder = xReg + r
  BY <1>2, <1>3, <1>4 DEF Quotient, Remainder
<1> QED
  BY <1>1, <1>2, <1>4, <1>6, <1>7 DEF AluBytes

LEMMA DivisionExact == AluInv => Division
<1> SUFFICES ASSUME AluTypes PROVE Division
  BY DEF AluInv
<1>1. yReg < 2 * xReg =>
        YA = xReg * (Quotient + AluByte * Bit(Overflows)) + Remainder /\ Remainder < xReg
  BY QuotientIs
<1>2. Overflows <=> xReg = 0 \/ YA \div xReg >= AluByte
  <2>1. /\ AluByte \in Nat \ {0} /\ xReg \in Nat /\ yReg \in Nat
        /\ aReg \in 0 .. AluByte - 1 /\ 0 \in 0 .. AluByte - 1
        /\ YA \in Int /\ YA = AluByte * yReg + aReg
    BY YaIs, AluSizes DEF AluTypes, AluBytes, AluWords
  <2>2. CASE xReg = 0
    BY <2>1, <2>2 DEF Overflows
  <2>3. CASE xReg # 0
    <3>1. PICK n \in Nat \ {0} : n = xReg
      BY <2>1, <2>3
    <3>2. PICK q \in Int, r \in 0 .. n - 1 : YA = n * q + r /\ YA \div n = q
      BY <2>1, SplitUp
    <3>3. n * AluByte + 0 <= n * q + r <=> AluByte < q \/ (AluByte = q /\ 0 <= r)
      <4>1. 0 \in 0 .. n - 1 /\ AluByte \in Int
        BY <2>1
      <4> QED
        BY <3>2, <4>1, Lexical
    <3>4. AluByte * n + 0 <= AluByte * yReg + aReg <=> n < yReg \/ (n = yReg /\ 0 <= aReg)
      BY <2>1, Lexical
    <3>5. n * AluByte = AluByte * n
      BY <2>1
    <3>6. n * AluByte + 0 <= YA <=> q >= AluByte
      BY <2>1, <3>2, <3>3
    <3>7. n * AluByte + 0 <= YA <=> yReg >= n
      BY <2>1, <3>4, <3>5
    <3> QED
      BY <2>1, <2>3, <3>1, <3>2, <3>6, <3>7 DEF Overflows
  <2> QED
    BY <2>2, <2>3
<1> QED
  BY <1>1, <1>2 DEF Division

LEMMA ProductIs ==
  ASSUME AluTypes
  PROVE  yReg * aReg \in AluWords /\ (yReg * aReg) \div AluByte \in AluBytes
<1>1. /\ AluByte \in Nat \ {0} /\ yReg \in Nat /\ aReg \in Nat
      /\ yReg <= AluByte - 1 /\ aReg <= AluByte - 1
  BY AluSizes DEF AluTypes, AluBytes
<1>2. yReg * aReg <= AluByte * AluByte - 1
  <2>1. yReg * aReg <= yReg * (AluByte - 1)
    BY <1>1
  <2>2. yReg * (AluByte - 1) <= (AluByte - 1) * (AluByte - 1)
    BY <1>1
  <2>3. (AluByte - 1) * (AluByte - 1) = AluByte * AluByte - 2 * AluByte + 1
    BY <1>1
  <2> QED
    BY <1>1, <2>1, <2>2, <2>3
<1>3. yReg * aReg \in AluWords
  BY <1>1, <1>2 DEF AluWords, AluWord
<1> QED
  BY <1>3, WordParts

-----------------------------------------------------------------------------
(***************************************************************************)
(* Decimal numbers.                                                        *)
(***************************************************************************)
\* A remainder without a division.
LEMMA OnceAround ==
  ASSUME NEW n \in Nat \ {0}, NEW x \in Int, x >= -n, x < 2 * n
  PROVE  /\ x >= n => x % n = x - n
         /\ x >= 0 /\ x < n => x % n = x
         /\ x < 0 => x % n = x + n
<1>1. PICK i \in Int, j \in 0 .. n - 1 : x = n * i + j /\ x % n = j
  BY SplitUp
<1>2. PICK m \in Int : m = n * i
  OBVIOUS
<1>3. /\ i = 0 => m = 0
      /\ i = 1 => m = n
      /\ i = -1 => m = -n
      /\ i >= 2 => m >= 2 * n
      /\ i <= -2 => m <= -(2 * n)
  BY <1>2
<1> QED
  BY <1>1, <1>2, <1>3

\* r is what adding or subtracting bytes makes whose high digits add up to u and whose
\* low digits add up to s.
OfDigits(r, u, s) ==
  /\ r.flag.h <=> s >= Digit
  /\ r.flag.c <=> u + Bit(r.flag.h) >= Digit
  /\ r.value = Digit * ((u + Bit(r.flag.h)) % Digit) + (s % Digit)

\* A carry leaves each digit by itself.
LEMMA AdcDigits ==
  ASSUME NEW f \in AluFlags, NEW p1 \in 0 .. Digit - 1, NEW p0 \in 0 .. Digit - 1,
         NEW q1 \in 0 .. Digit - 1, NEW q0 \in 0 .. Digit - 1,
         NEW p, p = Digit * p1 + p0, NEW q, q = Digit * q1 + q0
  PROVE  OfDigits(Adc(f, p, q), p1 + q1, p0 + q0 + Bit(f.c))
<1>1. /\ Digit \in Nat \ {0} /\ p1 \in Int /\ p0 \in Int /\ q1 \in Int /\ q0 \in Int
      /\ Bit(f.c) \in {0, 1}
  BY AluSizes, BitIs DEF AluFlags
<1>2. p \in AluBytes /\ q \in AluBytes /\ p % Digit = p0 /\ q % Digit = q0
  <2>1. /\ Digit * p1 + p0 \in 0 .. Digit * Digit - 1
        /\ Digit * q1 + q0 \in 0 .. Digit * Digit - 1
    BY <1>1, InTwoDigits
  <2>2. (Digit * p1 + p0) % Digit = p0 /\ (Digit * q1 + q0) % Digit = q0
    BY <1>1, TwoDigits
  <2> QED
    BY <2>1, <2>2 DEF AluBytes, AluByte
<1>3. PICK r : r = Adc(f, p, q)
  OBVIOUS
<1>4. PICK s \in Int, u \in Int : s = p0 + q0 + Bit(f.c) /\ u = p1 + q1
  BY <1>1
<1>5. r.flag \in AluFlags
  BY <1>2, <1>3, AdcIs
<1>6. r.flag.h <=> (p % Digit) + (q % Digit) + Bit(f.c) >= Digit
  BY <1>2, <1>3, AdcIs
<1>7. r.flag.c <=> p + q + Bit(f.c) >= AluByte
  BY <1>2, <1>3, AdcIs
<1>8. r.value = (p + q + Bit(f.c)) % AluByte
  BY <1>2, <1>3, AdcIs
<1>9. r.flag.h <=> s >= Digit
  BY <1>2, <1>4, <1>6
<1>10. PICK b \in {0, 1} : b = Bit(r.flag.h) /\ (b = 1 <=> s >= Digit)
  BY <1>5, <1>9, BitIs DEF AluFlags
<1>11. s >= -Digit /\ s >= 0 /\ s < 2 * Digit
  BY <1>1, <1>4
<1>12. PICK s0 \in 0 .. Digit - 1 : s0 = s % Digit /\ s = Digit * b + s0
  <2>1. CASE s >= Digit
    <3>1. s % Digit = s - Digit
      BY <1>1, <1>11, <2>1, OnceAround
    <3> QED
      BY <1>1, <1>10, <1>11, <2>1, <3>1
  <2>2. CASE ~(s >= Digit)
    <3>1. s % Digit = s
      BY <1>1, <1>11, <2>2, OnceAround
    <3> QED
      BY <1>1, <1>10, <1>11, <2>2, <3>1
  <2> QED
    BY <2>1, <2>2
<1>13. PICK v \in Int : v = u + b
  OBVIOUS
<1>14. p + q + Bit(f.c) = Digit * v + s0
  <2>1. Digit * v = Digit * p1 + Digit * q1 + Digit * b
    BY <1>1, <1>4, <1>13
  <2>2. PICK x \in Int, y \in Int, z \in Int : x = Digit * p1 /\ y = Digit * q1 /\ z = Digit * b
    BY <1>1
  <2>3. PICK k \in Int : k = Bit(f.c)
    BY <1>1
  <2>4. p = x + p0 /\ q = y + q0 /\ Digit * v = x + y + z /\ p0 + q0 + k = z + s0
    BY <1>4, <1>12, <2>1, <2>2, <2>3
  <2>5. p + q + k = Digit * v + s0
    BY <1>1, <2>4
  <2> QED
    BY <2>3, <2>5
<1>15. (Digit * v + s0) % (Digit * Digit) = Digit * (v % Digit) + s0
  BY <1>1, LowestTwo
<1>16. Digit * v + s0 >= AluByte <=> v >= Digit
  <2>1. Digit * Digit + 0 <= Digit * v + s0 <=> Digit < v \/ (Digit = v /\ 0 <= s0)
    <3>1. 0 \in 0 .. Digit - 1 /\ Digit \in Int
      BY <1>1
    <3> QED
      BY <1>1, <3>1, Lexical
  <2>2. PICK x \in Int, y \in Int : x = Digit * Digit /\ y = Digit * v + s0
    BY <1>1
  <2>3. y >= x <=> v >= Digit
    BY <1>1, <2>1, <2>2
  <2> QED
    BY <2>2, <2>3 DEF AluByte
<1>17. r.flag.c <=> u + Bit(r.flag.h) >= Digit
  BY <1>7, <1>10, <1>13, <1>14, <1>16
<1>18. r.value = Digit * ((u + Bit(r.flag.h)) % Digit) + (s % Digit)
  BY <1>8, <1>10, <1>12, <1>13, <1>14, <1>15 DEF AluByte
<1> QED
  BY <1>3, <1>4, <1>9, <1>17, <1>18 DEF OfDigits

\* A decimal byte is two decimal digits, and two decimal digits are a decimal byte.
LEMMA DecimalParts ==
  ASSUME NEW b \in AluBytes, IsDecimal(b)
  PROVE  \E i \in 0 .. Decimal - 1, j \in 0 .. Decimal - 1 :
           b = Digit * i + j /\ Number(b) = Decimal * i + j
<1>1. PICK i \in 0 .. Digit - 1, j \in 0 .. Digit - 1 :
        b = Digit * i + j /\ b % Digit = j /\ b \div Digit = i
  BY ByteParts
<1>2. i \in 0 .. Decimal - 1 /\ j \in 0 .. Decimal - 1
  BY <1>1, AluSizes DEF IsDecimal
<1>3. Number(b) = Decimal * i + j
  BY <1>1, AluSizes DEF Number
<1> QED
  BY <1>1, <1>2, <1>3

LEMMA DecimalMade ==
  ASSUME NEW i \in 0 .. Decimal - 1, NEW j \in 0 .. Decimal - 1, NEW b, b = Digit * i + j
  PROVE  b \in AluBytes /\ IsDecimal(b) /\ Number(b) = Decimal * i + j
<1>1. /\ Digit \in Nat \ {0} /\ Decimal \in Int /\ Decimal < Digit
      /\ i \in 0 .. Digit - 1 /\ j \in 0 .. Digit - 1 /\ i \in Int
  BY AluSizes
<1>2. b % Digit = j /\ b \div Digit = i
  BY <1>1, TwoDigits
<1>3. b \in AluBytes
  BY <1>1, InTwoDigits DEF AluBytes, AluByte
<1> QED
  BY <1>1, <1>2, <1>3 DEF IsDecimal, Number

\* DAA of a and the flags h and c.
UpHigh(a, c) == c \/ a > Nines
UpFirst(a, c) == IF UpHigh(a, c) THEN (a + Skip * Digit) % AluByte ELSE a
UpValue(a, h, c) ==
  IF LowDigit(UpFirst(a, c), h) THEN (UpFirst(a, c) + Skip) % AluByte ELSE UpFirst(a, c)

\* Each carry has taken Digit away where Decimal was due, and each digit of Decimal or
\* more has not carried: DAA makes up for both.
LEMMA AdjustUp ==
  ASSUME NEW u \in 0 .. 2 * Decimal - 2, NEW s \in 0 .. 2 * Decimal - 1,
         NEW h \in BOOLEAN, NEW c \in BOOLEAN,
         h <=> s >= Digit, c <=> u + Bit(h) >= Digit,
         NEW a, a = Digit * ((u + Bit(h)) % Digit) + (s % Digit)
  PROVE  /\ UpValue(a, h, c) \in AluBytes /\ IsDecimal(UpValue(a, h, c))
         /\ Number(UpValue(a, h, c)) + Hundred * Bit(UpHigh(a, c)) = Decimal * u + s
<1>1. /\ Digit \in Nat \ {0} /\ Decimal \in Nat /\ Decimal >= 2 /\ Decimal < Digit
      /\ u \in Int /\ s \in Int /\ u >= 0 /\ s >= 0 /\ u <= 2 * Decimal - 2 /\ s <= 2 * Decimal - 1
      /\ Skip \in Int /\ Skip = Digit - Decimal
  BY AluSizes DEF Skip
<1>2. PICK b \in {0, 1} : b = Bit(h) /\ (b = 1 <=> h)
  BY BitIs
<1>3. PICK t \in Int : t = u + b
  BY <1>1
<1>4. PICK d1 \in 0 .. Digit - 1 :
        d1 = t % Digit /\ (c => d1 = t - Digit) /\ (~c => d1 = t)
  <2>1. t >= -Digit /\ t >= 0 /\ t < 2 * Digit
    BY <1>1, <1>3
  <2>2. (t >= Digit => t % Digit = t - Digit) /\ (t < Digit => t % Digit = t)
    BY <1>1, <2>1, OnceAround
  <2> QED
    BY <1>1, <1>2, <1>3, <2>1, <2>2
<1>5. PICK d0 \in 0 .. Digit - 1 :
        d0 = s % Digit /\ (h => d0 = s - Digit) /\ (~h => d0 = s)
  <2>1. s >= -Digit /\ s >= 0 /\ s < 2 * Digit
    BY <1>1
  <2>2. (s >= Digit => s % Digit = s - Digit) /\ (s < Digit => s % Digit = s)
    BY <1>1, <2>1, OnceAround
  <2> QED
    BY <1>1, <2>1, <2>2
<1>6. a = Digit * d1 + d0
  BY <1>2, <1>3, <1>4, <1>5
<1>7. PICK lo \in BOOLEAN : lo <=> s >= Decimal
  OBVIOUS
<1>8. PICK high \in BOOLEAN : high <=> UpHigh(a, c)
  BY DEF UpHigh
<1>9. high <=> u + Bit(lo) >= Decimal
  <2>1. Digit * d1 + d0 <= Digit * (Decimal - 1) + (Decimal - 1)
          <=> d1 < Decimal - 1 \/ (d1 = Decimal - 1 /\ d0 <= Decimal - 1)
    <3>1. Decimal - 1 \in 0 .. Digit - 1 /\ Decimal - 1 \in Int /\ d1 \in Int
      BY <1>1
    <3> QED
      BY <1>1, <3>1, Lexical
  <2>2. Nines = Digit * (Decimal - 1) + (Decimal - 1)
    BY <1>1 DEF Nines
  <2>3. PICK x \in Int, y \in Int : x = a /\ y = Nines
    BY <1>1, <1>6, <2>2
  <2>4. x > y <=> ~(d1 < Decimal - 1 \/ (d1 = Decimal - 1 /\ d0 <= Decimal - 1))
    BY <1>6, <2>1, <2>2, <2>3
  <2>5. high <=> c \/ ~(d1 < Decimal - 1 \/ (d1 = Decimal - 1 /\ d0 <= Decimal - 1))
    BY <1>8, <2>3, <2>4 DEF UpHigh
  <2> QED
    BY <1>1, <1>2, <1>3, <1>4, <1>5, <1>7, <2>5 DEF Bit
<1>10. PICK e1 \in 0 .. Digit - 1 :
         /\ UpFirst(a, c) = Digit * e1 + d0
         /\ ~high => e1 = d1
         /\ high => e1 = (IF d1 >= Decimal THEN d1 - Decimal ELSE d1 + Skip)
  <2>1. CASE ~high
    BY <1>6, <1>8, <2>1 DEF UpFirst
  <2>2. CASE high
    <3>1. PICK v \in Int : v = d1 + Skip
      BY <1>1
    <3>2. (Digit * v + d0) % (Digit * Digit) = Digit * (v % Digit) + d0
      BY <1>1, LowestTwo
    <3>3. a + Skip * Digit = Digit * v + d0
      BY <1>1, <1>6, <3>1
    <3>4. v >= -Digit /\ v >= 0 /\ v < 2 * Digit
      BY <1>1, <3>1
    <3>5. (v >= Digit => v % Digit = v - Digit) /\ (v < Digit => v % Digit = v)
      BY <1>1, <3>4, OnceAround
    <3>6. v % Digit \in 0 .. Digit - 1
          /\ v % Digit = (IF d1 >= Decimal THEN d1 - Decimal ELSE d1 + Skip)
      BY <1>1, <3>1, <3>4, <3>5
    <3>7. UpFirst(a, c) = Digit * (v % Digit) + d0
      BY <1>8, <2>2, <3>2, <3>3 DEF UpFirst, AluByte
    <3> QED
      BY <2>2, <3>6, <3>7
  <2> QED
    BY <2>1, <2>2
<1>11. UpFirst(a, c) % Digit = d0 /\ UpFirst(a, c) \in Int
  <2>1. e1 \in Int
    OBVIOUS
  <2>2. Digit * e1 + d0 \in Int /\ (Digit * e1 + d0) % Digit = d0
    BY <1>1, <2>1, TwoDigits
  <2> QED
    BY <1>10, <2>2
<1>12. LowDigit(UpFirst(a, c), h) <=> lo
  BY <1>1, <1>5, <1>7, <1>11 DEF LowDigit
<1>13. UpValue(a, h, c) =
         Digit * (u + Bit(lo) - Decimal * Bit(high)) + (s - Decimal * Bit(lo))
  <2>1. CASE ~lo
    <3>1. UpValue(a, h, c) = Digit * e1 + d0
      BY <1>10, <1>12, <2>1 DEF UpValue
    <3>2. e1 = u + Bit(lo) - Decimal * Bit(high) /\ d0 = s - Decimal * Bit(lo)
      <4>1. Decimal * 0 = 0 /\ Decimal * 1 = Decimal
        BY <1>1
      <4> QED
        BY <1>1, <1>2, <1>3, <1>4, <1>5, <1>7, <1>9, <1>10, <2>1, <4>1 DEF Bit
    <3> QED
      BY <3>1, <3>2
  <2>2. CASE lo /\ h
    <3>1. d0 + Skip \in 0 .. Digit - 1 /\ d0 + Skip = s - Decimal
      BY <1>1, <1>5, <2>2
    <3>2. PICK f0 \in 0 .. Digit - 1 : f0 = d0 + Skip
      BY <3>1
    <3>3. UpFirst(a, c) + Skip = Digit * e1 + f0
      BY <1>1, <1>10, <3>2
    <3>4. Digit * e1 + f0 \in 0 .. AluByte - 1
      BY <1>1, InTwoDigits DEF AluByte
    <3>5. PICK x \in 0 .. AluByte - 1 : x = Digit * e1 + f0
      BY <3>4
    <3>6. x % AluByte = x
      <4>1. /\ AluByte \in Nat \ {0} /\ x \in Int
            /\ x >= -AluByte /\ x >= 0 /\ x < AluByte /\ x < 2 * AluByte
        BY <3>5, AluSizes
      <4> QED
        BY <4>1, OnceAround
    <3>7. UpValue(a, h, c) = x
      BY <1>12, <2>2, <3>3, <3>5, <3>6 DEF UpValue
    <3>8. e1 = u + Bit(lo) - Decimal * Bit(high) /\ f0 = s - Decimal * Bit(lo)
      <4>1. Decimal * 0 = 0 /\ Decimal * 1 = Decimal
        BY <1>1
      <4> QED
        BY <1>1, <1>2, <1>3, <1>4, <1>5, <1>9, <1>10, <2>2, <3>1, <3>2, <4>1 DEF Bit
    <3> QED
      BY <3>5, <3>7, <3>8
  <2>3. CASE lo /\ ~h
    <3>1. d0 = s /\ s >= Decimal /\ s < Digit
      BY <1>1, <1>5, <1>7, <2>3
    <3>2. d0 - Decimal \in 0 .. Digit - 1
      BY <1>1, <3>1
    <3>3. PICK f0 \in 0 .. Digit - 1 : f0 = d0 - Decimal
      BY <3>2
    <3>4. PICK v \in Int : v = e1 + 1
      OBVIOUS
    <3>5. UpFirst(a, c) + Skip = Digit * v + f0
      BY <1>1, <1>10, <3>3, <3>4
    <3>6. (Digit * v + f0) % (Digit * Digit) = Digit * (v % Digit) + f0
      BY <1>1, LowestTwo
    <3>7. v >= -Digit /\ v >= 0 /\ v < 2 * Digit
      BY <1>1, <3>4
    <3>8. (v >= Digit => v % Digit = v - Digit) /\ (v < Digit => v % Digit = v)
      BY <1>1, <3>7, OnceAround
    <3>9. UpValue(a, h, c) = Digit * (v % Digit) + f0
      BY <1>12, <2>3, <3>5, <3>6 DEF UpValue, AluByte
    <3>10. v % Digit = u + Bit(lo) - Decimal * Bit(high) /\ f0 = s - Decimal * Bit(lo)
      <4>1. Decimal * 0 = 0 /\ Decimal * 1 = Decimal
        BY <1>1
      <4> QED
        BY <1>1, <1>2, <1>3, <1>4, <1>5, <1>9, <1>10, <2>3, <3>3, <3>4, <3>7, <3>8, <4>1 DEF Bit
    <3> QED
      BY <3>9, <3>10
  <2> QED
    BY <2>1, <2>2, <2>3
<1>14. PICK i \in 0 .. Decimal - 1, j \in 0 .. Decimal - 1 :
         i = u + Bit(lo) - Decimal * Bit(high) /\ j = s - Decimal * Bit(lo)
  <2>1. Decimal * 0 = 0 /\ Decimal * 1 = Decimal
    BY <1>1
  <2>2. /\ u + Bit(lo) - Decimal * Bit(high) \in 0 .. Decimal - 1
        /\ s - Decimal * Bit(lo) \in 0 .. Decimal - 1
    BY <1>1, <1>7, <1>9, <2>1 DEF Bit
  <2> QED
    BY <2>2
<1>15. /\ UpValue(a, h, c) \in AluBytes /\ IsDecimal(UpValue(a, h, c))
       /\ Number(UpValue(a, h, c)) = Decimal * i + j
  BY <1>13, <1>14, DecimalMade
<1>16. Decimal * i + j + Hundred * Bit(high) = Decimal * u + s
  <2>1. Bit(lo) \in {0, 1} /\ Bit(high) \in {0, 1}
    BY BitIs
  <2>2. PICK l \in {0, 1}, k \in {0, 1} : l = Bit(lo) /\ k = Bit(high)
    BY <2>1
  <2>3. i = u + l - Decimal * k /\ j = s - Decimal * l
    BY <1>14, <2>2
  <2>4. Decimal * i = Decimal * u + Decimal * l - (Decimal * Decimal) * k
    BY <1>1, <2>3
  <2> QED
    BY <1>1, <2>2, <2>3, <2>4 DEF Hundred
<1>17. Bit(UpHigh(a, c)) = Bit(high)
  BY <1>8 DEF Bit
<1> QED
  BY <1>15, <1>16, <1>17

\* DAS of a and the flags h and c.
DownHigh(a, c) == ~c \/ a > Nines
DownFirst(a, c) == IF DownHigh(a, c) THEN (a - Skip * Digit) % AluByte ELSE a
DownValue(a, h, c) ==
  IF LowDigit(DownFirst(a, c), ~h) THEN (DownFirst(a, c) - Skip) % AluByte ELSE DownFirst(a, c)

\* Each borrow has added Digit where Decimal was due: DAS takes the rest away.
LEMMA AdjustDown ==
  ASSUME NEW u \in 1 - Decimal .. Decimal - 1, NEW s \in -Decimal .. Decimal - 1,
         NEW h \in BOOLEAN, NEW c \in BOOLEAN,
         h <=> s >= 0, c <=> u - Bit(~h) >= 0,
         NEW a, a = Digit * ((u - Bit(~h)) % Digit) + (s % Digit)
  PROVE  /\ DownValue(a, h, c) \in AluBytes /\ IsDecimal(DownValue(a, h, c))
         /\ Number(DownValue(a, h, c)) - Hundred * (1 - Bit(~DownHigh(a, c))) = Decimal * u + s
<1>1. /\ Digit \in Nat \ {0} /\ Decimal \in Nat /\ Decimal >= 2 /\ Decimal < Digit
      /\ u \in Int /\ s \in Int /\ u <= Decimal - 1 /\ s <= Decimal - 1
      /\ u >= 1 - Decimal /\ s >= -Decimal
      /\ Skip \in Int /\ Skip = Digit - Decimal
      /\ AluByte \in Nat \ {0}
  BY AluSizes DEF Skip
<1>2. PICK b \in {0, 1} : b = Bit(~h) /\ (b = 1 <=> ~h)
  BY BitIs
<1>3. PICK t \in Int : t = u - b
  BY <1>1
<1>4. c <=> t >= 0
  BY <1>2, <1>3
<1>5. PICK d1 \in 0 .. Digit - 1 : d1 = t % Digit /\ (~c => d1 = t + Digit) /\ (c => d1 = t)
  <2>1. t >= -Digit /\ t < Digit /\ t < 2 * Digit
    BY <1>1, <1>3
  <2>2. (t < 0 => t % Digit = t + Digit) /\ (t >= 0 => t % Digit = t)
    BY <1>1, <2>1, OnceAround
  <2>3. t % Digit \in 0 .. Digit - 1
    BY <1>1, <2>1, <2>2
  <2> QED
    BY <1>4, <2>2, <2>3
<1>6. PICK d0 \in 0 .. Digit - 1 : d0 = s % Digit /\ (~h => d0 = s + Digit) /\ (h => d0 = s)
  <2>1. s >= -Digit /\ s < Digit /\ s < 2 * Digit
    BY <1>1
  <2>2. (s < 0 => s % Digit = s + Digit) /\ (s >= 0 => s % Digit = s)
    BY <1>1, <2>1, OnceAround
  <2>3. s % Digit \in 0 .. Digit - 1
    BY <1>1, <2>1, <2>2
  <2> QED
    BY <2>2, <2>3
<1>7. a = Digit * d1 + d0
  BY <1>2, <1>3, <1>5, <1>6
<1>8. DownHigh(a, c) <=> ~c
  <2>1. Digit * d1 + d0 <= Digit * (Decimal - 1) + (Decimal - 1)
          <=> d1 < Decimal - 1 \/ (d1 = Decimal - 1 /\ d0 <= Decimal - 1)
    <3>1. Decimal - 1 \in 0 .. Digit - 1 /\ Decimal - 1 \in Int /\ d1 \in Int
      BY <1>1
    <3> QED
      BY <1>1, <3>1, Lexical
  <2>2. Nines = Digit * (Decimal - 1) + (Decimal - 1)
    BY <1>1 DEF Nines
  <2>3. PICK x \in Int, y \in Int : x = a /\ y = Nines
    BY <1>1, <1>7, <2>2
  <2>4. x > y <=> ~(d1 < Decimal - 1 \/ (d1 = Decimal - 1 /\ d0 <= Decimal - 1))
    BY <1>7, <2>1, <2>2, <2>3
  <2>5. DownHigh(a, c) <=> ~c \/ ~(d1 < Decimal - 1 \/ (d1 = Decimal - 1 /\ d0 <= Decimal - 1))
    BY <2>3, <2>4 DEF DownHigh
  <2>6. c => d1 < Decimal - 1 \/ (d1 = Decimal - 1 /\ d0 <= Decimal - 1)
    BY <1>1, <1>2, <1>3, <1>5, <1>6
  <2> QED
    BY <2>5, <2>6
<1>9. PICK k \in {0, 1} : k = Bit(~c) /\ (k = 1 <=> ~c)
  BY BitIs
<1>10. PICK i \in 0 .. Decimal - 1 : i = t + Decimal * k
  <2>1. Decimal * 0 = 0 /\ Decimal * 1 = Decimal
    BY <1>1
  <2>2. t >= -Decimal /\ t <= Decimal - 1
    BY <1>1, <1>3
  <2>3. t + Decimal * k \in 0 .. Decimal - 1
    BY <1>1, <1>4, <1>9, <2>1, <2>2
  <2> QED
    BY <2>3
<1>11. PICK j \in 0 .. Decimal - 1 : j = s + Decimal * b
  <2>1. Decimal * 0 = 0 /\ Decimal * 1 = Decimal
    BY <1>1
  <2>2. CASE h
    BY <1>1, <1>2, <2>1, <2>2
  <2>3. CASE ~h
    BY <1>1, <1>2, <2>1, <2>3
  <2> QED
    BY <2>2, <2>3
<1>12. \A y1 \in 0 .. Decimal - 1, y0 \in 0 .. Digit - 1 :
         LET x == Digit * y1 + y0
         IN  x \in Int /\ x % Digit = y0 /\ x % AluByte = x
  <2> SUFFICES ASSUME NEW y1 \in 0 .. Decimal - 1, NEW y0 \in 0 .. Digit - 1
               PROVE  /\ Digit * y1 + y0 \in Int /\ (Digit * y1 + y0) % Digit = y0
                      /\ (Digit * y1 + y0) % AluByte = Digit * y1 + y0
    OBVIOUS
  <2>1. y1 \in Int /\ y1 \in 0 .. Digit - 1
    BY <1>1
  <2>2. PICK x \in 0 .. AluByte - 1 : x = Digit * y1 + y0
    BY <1>1, <2>1, InTwoDigits DEF AluByte
  <2>3. x >= -AluByte /\ x >= 0 /\ x < AluByte /\ x < 2 * AluByte /\ x \in Int
    BY <1>1, <2>2
  <2>4. x % AluByte = x
    BY <1>1, <2>3, OnceAround
  <2>5. (Digit * y1 + y0) % Digit = y0
    BY <1>1, <2>1, TwoDigits
  <2> QED
    BY <2>2, <2>3, <2>4, <2>5
<1>13. DownFirst(a, c) = Digit * i + d0
  <2>1. Decimal * 0 = 0 /\ Decimal * 1 = Decimal
    BY <1>1
  <2>2. CASE c
    <3>1. i = d1
      BY <1>1, <1>5, <1>9, <1>10, <2>1, <2>2
    <3> QED
      BY <1>7, <1>8, <2>2, <3>1 DEF DownFirst
  <2>3. CASE ~c
    <3>1. d1 = i + Skip
      BY <1>1, <1>5, <1>9, <1>10, <2>1, <2>3
    <3>2. Digit * d1 = Digit * i + Skip * Digit
      BY <1>1, <3>1
    <3>3. PICK x \in Int, y \in Int, z \in Int : x = Digit * d1 /\ y = Digit * i /\ z = Skip * Digit
      BY <1>1
    <3>4. a - z = y + d0
      BY <1>7, <3>2, <3>3
    <3>5. a - Skip * Digit = Digit * i + d0
      BY <3>3, <3>4
    <3> QED
      BY <1>8, <1>12, <2>3, <3>5 DEF DownFirst
  <2> QED
    BY <2>2, <2>3
<1>14. LowDigit(DownFirst(a, c), ~h) <=> ~h
  BY <1>1, <1>6, <1>12, <1>13 DEF LowDigit
<1>15. DownValue(a, h, c) = Digit * i + j
  <2>1. Decimal * 0 = 0 /\ Decimal * 1 = Decimal
    BY <1>1
  <2>2. CASE h
    <3>1. j = d0
      BY <1>1, <1>2, <1>6, <1>11, <2>1, <2>2
    <3> QED
      BY <1>13, <1>14, <2>2, <3>1 DEF DownValue
  <2>3. CASE ~h
    <3>1. d0 = j + Skip
      BY <1>1, <1>2, <1>6, <1>11, <2>1, <2>3
    <3>2. PICK y \in Int : y = Digit * i
      BY <1>1
    <3>3. DownFirst(a, c) - Skip = Digit * i + j
      BY <1>1, <1>13, <3>1, <3>2
    <3>4. j \in 0 .. Digit - 1
      BY <1>1
    <3> QED
      BY <1>12, <1>14, <2>3, <3>3, <3>4 DEF DownValue
  <2> QED
    BY <2>2, <2>3
<1>16. /\ DownValue(a, h, c) \in AluBytes /\ IsDecimal(DownValue(a, h, c))
       /\ Number(DownValue(a, h, c)) = Decimal * i + j
  BY <1>15, DecimalMade
<1>17. Decimal * i + j - Hundred * k = Decimal * u + s
  <2>1. i = u - b + Decimal * k /\ j = s + Decimal * b
    BY <1>3, <1>10, <1>11
  <2>2. Decimal * i = Decimal * u - Decimal * b + (Decimal * Decimal) * k
    BY <1>1, <2>1
  <2> QED
    BY <1>1, <2>1, <2>2 DEF Hundred
<1>18. 1 - Bit(~DownHigh(a, c)) = k
  BY <1>8, <1>9 DEF Bit
<1>19. Number(DownValue(a, h, c)) - Hundred * (1 - Bit(~DownHigh(a, c))) = Decimal * u + s
  <2>1. PICK v : v = Number(DownValue(a, h, c))
    OBVIOUS
  <2>2. PICK m : m = 1 - Bit(~DownHigh(a, c))
    OBVIOUS
  <2>3. v = Decimal * i + j
    BY <1>16, <2>1
  <2>4. m = k
    BY <1>18, <2>2
  <2>5. v - Hundred * m = Decimal * u + s
    <3>1. Hundred \in Int /\ Decimal * i \in Int
      BY <1>1 DEF Hundred
    <3> QED
      BY <1>1, <1>17, <2>3, <2>4, <3>1
  <2> QED
    BY <2>1, <2>2, <2>5
<1> QED
  BY <1>16, <1>19

-----------------------------------------------------------------------------
(***************************************************************************)
(* The steps.                                                              *)
(***************************************************************************)
\* ADC: the sum it leaves is the one a decimal adjustment expects.
LEMMA AdcStep ==
  ASSUME AluTypes, NEW m \in AluBytes, ADC(m)
  PROVE  AluInv'
<1> DEFINE r == Adc(psw, aReg, m)
<1>1. psw \in AluFlags /\ aReg \in AluBytes
  BY DEF AluTypes
<1>2. r.value \in AluBytes /\ r.flag \in AluFlags
  BY <1>1, AdcIs
<1>3. ToA(r) /\ decimal' = ExpectAdd(m)
  BY DEF ADC
<1>4. CASE ~(IsDecimal(aReg) /\ IsDecimal(m))
  <2>1. decimal' = NotDecimal
    BY <1>3, <1>4 DEF ExpectAdd
  <2> HIDE DEF r
  <2> QED
    BY <1>2, <1>3, <2>1, ByteToA
<1>5. CASE IsDecimal(aReg) /\ IsDecimal(m)
  <2>1. PICK p1 \in 0 .. Decimal - 1, p0 \in 0 .. Decimal - 1 :
          aReg = Digit * p1 + p0 /\ Number(aReg) = Decimal * p1 + p0
    BY <1>1, <1>5, DecimalParts
  <2>2. PICK q1 \in 0 .. Decimal - 1, q0 \in 0 .. Decimal - 1 :
          m = Digit * q1 + q0 /\ Number(m) = Decimal * q1 + q0
    BY <1>5, DecimalParts
  <2>3. PICK b \in {0, 1} : b = Bit(psw.c)
    BY <1>1, BitIs DEF AluFlags
  <2>4. /\ Decimal \in Nat /\ Decimal >= 2 /\ Decimal < Digit /\ Digit \in Nat
        /\ p1 \in Int /\ p0 \in Int /\ q1 \in Int /\ q0 \in Int
        /\ p1 \in 0 .. Digit - 1 /\ p0 \in 0 .. Digit - 1
        /\ q1 \in 0 .. Digit - 1 /\ q0 \in 0 .. Digit - 1
    BY <2>1, <2>2, AluSizes
  <2>5. OfDigits(r, p1 + q1, p0 + q0 + Bit(psw.c))
    BY <1>1, <2>1, <2>2, <2>4, AdcDigits
  <2>6. PICK u \in 0 .. 2 * Decimal - 2, s \in 0 .. 2 * Decimal - 1 : u = p1 + q1 /\ s = p0 + q0 + b
    <3>1. p1 + q1 \in 0 .. 2 * Decimal - 2 /\ p0 + q0 + b \in 0 .. 2 * Decimal - 1
      BY <2>1, <2>2, <2>3, <2>4
    <3> QED
      BY <3>1
  <2>7. OfDigits(r, u, s)
    BY <2>3, <2>5, <2>6
  <2>8. Number(aReg) + Number(m) + Bit(psw.c) = Decimal * u + s
    <3>1. Decimal * u = Decimal * p1 + Decimal * q1
      BY <2>4, <2>6
    <3>2. Decimal * p1 \in Int /\ Decimal * q1 \in Int
      BY <2>4
    <3> QED
      BY <2>1, <2>2, <2>3, <2>4, <2>6, <3>1, <3>2
  <2>9. decimal' = [adjust |-> "add", value |-> Decimal * u + s]
    BY <1>3, <1>5, <2>8 DEF ExpectAdd
  <2>10. Decimal * u + s \in Int
    BY <2>4, <2>6
  <2> HIDE DEF r
  <2>11. aReg' = r.value /\ psw' = r.flag /\ yReg' = yReg /\ xReg' = xReg
    BY <1>3 DEF ToA
  <2>12. AluTypes'
    BY <1>2, <2>9, <2>10, <2>11 DEF AluTypes, AluBytes, AluFlags
  <2>13. SumIn'
    BY <2>6, <2>7, <2>9, <2>11 DEF SumIn, OfDigits
  <2> QED
    BY <2>9, <2>12, <2>13 DEF AluInv, DecimalInv
<1> QED
  BY <1>4, <1>5

\* Whole turns do not show.
LEMMA OnceMore ==
  ASSUME NEW n \in Nat \ {0}, NEW x \in Int, x >= -n, x < n
  PROVE  (x + n) % n = x % n
<1>1. (x < 0 => x % n = x + n) /\ (x >= 0 => x % n = x)
  BY OnceAround
<1>2. PICK y \in Int : y = x + n
  OBVIOUS
<1>3. y >= -n /\ y < 2 * n /\ y >= 0
  BY <1>2
<1>4. (y >= n => y % n = y - n) /\ (y < n => y % n = y)
  BY <1>3, OnceAround
<1> QED
  BY <1>1, <1>2, <1>3, <1>4

\* SBC: the difference it leaves is the one a decimal adjustment expects.
LEMMA SbcStep ==
  ASSUME AluTypes, NEW m \in AluBytes, SBC(m)
  PROVE  AluInv'
<1> DEFINE r == Adc(psw, aReg, AluByte - 1 - m)
<1>1. psw \in AluFlags /\ aReg \in AluBytes /\ AluByte - 1 - m \in AluBytes
  BY AluSizes DEF AluTypes, AluBytes
<1>2. r.value \in AluBytes /\ r.flag \in AluFlags
  BY <1>1, AdcIs
<1>3. ToA(r) /\ decimal' = ExpectSubtract(m)
  BY DEF SBC, Sbc
<1>4. CASE ~(IsDecimal(aReg) /\ IsDecimal(m))
  <2>1. decimal' = NotDecimal
    BY <1>3, <1>4 DEF ExpectSubtract
  <2> HIDE DEF r
  <2> QED
    BY <1>2, <1>3, <2>1, ByteToA
<1>5. CASE IsDecimal(aReg) /\ IsDecimal(m)
  <2>1. PICK p1 \in 0 .. Decimal - 1, p0 \in 0 .. Decimal - 1 :
          aReg = Digit * p1 + p0 /\ Number(aReg) = Decimal * p1 + p0
    BY <1>1, <1>5, DecimalParts
  <2>2. PICK q1 \in 0 .. Decimal - 1, q0 \in 0 .. Decimal - 1 :
          m = Digit * q1 + q0 /\ Number(m) = Decimal * q1 + q0
    BY <1>5, DecimalParts
  <2>3. PICK b \in {0, 1} : b = Bit(psw.c)
    BY <1>1, BitIs DEF AluFlags
  <2>4. /\ Decimal \in Nat /\ Decimal >= 2 /\ Decimal < Digit /\ Digit \in Nat \ {0}
        /\ p1 \in Int /\ p0 \in Int /\ q1 \in Int /\ q0 \in Int
        /\ p1 \in 0 .. Digit - 1 /\ p0 \in 0 .. Digit - 1
    BY <2>1, <2>2, AluSizes
  <2>5. PICK n1 \in 0 .. Digit - 1, n0 \in 0 .. Digit - 1 :
          n1 = Digit - 1 - q1 /\ n0 = Digit - 1 - q0
    <3>1. Digit - 1 - q1 \in 0 .. Digit - 1 /\ Digit - 1 - q0 \in 0 .. Digit - 1
      BY <2>2, <2>4
    <3> QED
      BY <3>1
  <2>6. AluByte - 1 - m = Digit * n1 + n0
    <3>1. Digit * n1 = Digit * Digit - Digit - Digit * q1
      BY <2>4, <2>5
    <3>2. Digit * n1 \in Int /\ Digit * q1 \in Int /\ Digit * Digit \in Int
      BY <2>4, <2>5
    <3> QED
      BY <2>2, <2>4, <2>5, <3>1, <3>2 DEF AluByte
  <2>7. OfDigits(r, p1 + n1, p0 + n0 + Bit(psw.c))
    BY <1>1, <2>1, <2>4, <2>5, <2>6, AdcDigits
  <2>8. PICK u \in 1 - Decimal .. Decimal - 1, s \in -Decimal .. Decimal - 1 :
          u = p1 - q1 /\ s = p0 - q0 - 1 + b
    <3>1. p1 - q1 \in 1 - Decimal .. Decimal - 1 /\ p0 - q0 - 1 + b \in -Decimal .. Decimal - 1
      BY <2>1, <2>2, <2>3, <2>4
    <3> QED
      BY <3>1
  <2>9. /\ u \in Int /\ s \in Int /\ u + Digit - 1 = p1 + n1 /\ s + Digit = p0 + n0 + Bit(psw.c)
        /\ s >= -Digit /\ s < Digit
    BY <2>3, <2>4, <2>5, <2>8
  <2>10. OfDigits(r, u + Digit - 1, s + Digit)
    BY <2>7, <2>9
  <2>11. r.flag.h <=> s >= 0
    BY <2>4, <2>9, <2>10 DEF OfDigits
  <2>12. PICK t \in Int : t = u - Bit(~r.flag.h)
    BY <2>9 DEF Bit
  <2>13. u + Digit - 1 + Bit(r.flag.h) = t + Digit
    BY <1>2, <2>4, <2>9, <2>12 DEF Bit, AluFlags
  <2>14. r.flag.c <=> t >= 0
    BY <2>4, <2>10, <2>12, <2>13 DEF OfDigits
  <2>15. r.value = Digit * (t % Digit) + (s % Digit)
    <3>1. (s + Digit) % Digit = s % Digit
      BY <2>4, <2>9, OnceMore
    <3>2. t >= -Digit /\ t < Digit
      BY <2>4, <2>8, <2>12 DEF Bit
    <3>3. (t + Digit) % Digit = t % Digit
      BY <2>4, <2>12, <3>2, OnceMore
    <3> QED
      BY <2>10, <2>13, <3>1, <3>3 DEF OfDigits
  <2>16. Number(aReg) - Number(m) - 1 + Bit(psw.c) = Decimal * u + s
    <3>1. Decimal * u = Decimal * p1 - Decimal * q1
      BY <2>4, <2>8
    <3>2. Decimal * p1 \in Int /\ Decimal * q1 \in Int
      BY <2>4
    <3> QED
      BY <2>1, <2>2, <2>3, <2>4, <2>8, <3>1, <3>2
  <2>17. decimal' = [adjust |-> "subtract", value |-> Decimal * u + s]
    BY <1>3, <1>5, <2>16 DEF ExpectSubtract
  <2>18. Decimal * u + s \in Int
    BY <2>4, <2>9
  <2> HIDE DEF r
  <2>19. aReg' = r.value /\ psw' = r.flag /\ yReg' = yReg /\ xReg' = xReg
    BY <1>3 DEF ToA
  <2>20. AluTypes'
    BY <1>2, <2>17, <2>18, <2>19 DEF AluTypes, AluBytes, AluFlags
  <2>21. DifferenceIn'
    BY <2>8, <2>11, <2>12, <2>14, <2>15, <2>17, <2>19 DEF DifferenceIn
  <2> QED
    BY <2>17, <2>20, <2>21 DEF AluInv, DecimalInv
<1> QED
  BY <1>4, <1>5

\* Without an adjustment due, DAA and DAS leave a byte all the same.
LEMMA AdjustsByte ==
  ASSUME NEW a \in AluBytes, NEW h \in BOOLEAN, NEW c \in BOOLEAN
  PROVE  UpValue(a, h, c) \in AluBytes /\ DownValue(a, h, c) \in AluBytes
<1>1. Skip \in Int /\ Skip * Digit \in Int /\ \A b \in AluBytes : b \in Int
  BY AluSizes DEF Skip, AluBytes
<1>2. UpFirst(a, c) \in AluBytes /\ DownFirst(a, c) \in AluBytes
  <2>1. a + Skip * Digit \in Int /\ a - Skip * Digit \in Int
    BY <1>1
  <2> QED
    BY <2>1, WrappedByte DEF UpFirst, DownFirst
<1>3. UpFirst(a, c) + Skip \in Int /\ DownFirst(a, c) - Skip \in Int
  BY <1>1, <1>2
<1> QED
  BY <1>2, <1>3, WrappedByte DEF UpValue, DownValue

\* DAA and DAS in these terms.
LEMMA DaaIs ==
  ASSUME AluTypes, DAA
  PROVE  /\ AluInv'
         /\ aReg' = UpValue(aReg, psw.h, psw.c) /\ (psw'.c <=> UpHigh(aReg, psw.c))
<1> DEFINE high == UpHigh(aReg, psw.c)
           value == UpValue(aReg, psw.h, psw.c)
           f == [psw EXCEPT !.c = high]
<1>1. ToA(Result(f, value)) /\ decimal' = NotDecimal
  BY Zenon DEF DAA, UpValue, UpFirst, UpHigh
<1>2. aReg \in AluBytes /\ psw \in AluFlags /\ psw.h \in BOOLEAN /\ psw.c \in BOOLEAN
  BY DEF AluTypes, AluFlags
<1>3. value \in AluBytes
  BY <1>2, AdjustsByte
<1>4. high \in BOOLEAN
  BY <1>2 DEF UpHigh
<1> HIDE DEF high, value
<1>5. f \in AluFlags /\ (f.c <=> high)
  BY <1>2, <1>4 DEF AluFlags
<1> HIDE DEF f
<1>6. /\ Result(f, value).value = value /\ Result(f, value).flag \in AluFlags
      /\ Result(f, value).flag.c <=> f.c
  BY <1>5, ResultIs
<1>7. AluInv'
  BY <1>1, <1>3, <1>6, ByteToA
<1>8. aReg' = value /\ (psw'.c <=> high)
  BY <1>1, <1>5, <1>6 DEF ToA
<1> QED
  BY <1>7, <1>8 DEF high, value

LEMMA DasIs ==
  ASSUME AluTypes, DAS
  PROVE  /\ AluInv'
         /\ aReg' = DownValue(aReg, psw.h, psw.c) /\ (psw'.c <=> ~DownHigh(aReg, psw.c))
<1> DEFINE high == DownHigh(aReg, psw.c)
           value == DownValue(aReg, psw.h, psw.c)
           f == [psw EXCEPT !.c = ~high]
<1>1. ToA(Result(f, value)) /\ decimal' = NotDecimal
  BY Zenon DEF DAS, DownValue, DownFirst, DownHigh
<1>2. aReg \in AluBytes /\ psw \in AluFlags /\ psw.h \in BOOLEAN /\ psw.c \in BOOLEAN
  BY DEF AluTypes, AluFlags
<1>3. value \in AluBytes
  BY <1>2, AdjustsByte
<1>4. high \in BOOLEAN
  BY <1>2 DEF DownHigh
<1> HIDE DEF high, value
<1>5. f \in AluFlags /\ (f.c <=> ~high)
  BY <1>2, <1>4 DEF AluFlags
<1> HIDE DEF f
<1>6. /\ Result(f, value).value = value /\ Result(f, value).flag \in AluFlags
      /\ Result(f, value).flag.c <=> f.c
  BY <1>5, ResultIs
<1>7. AluInv'
  BY <1>1, <1>3, <1>6, ByteToA
<1>8. aReg' = value /\ (psw'.c <=> ~high)
  BY <1>1, <1>5, <1>6 DEF ToA
<1> QED
  BY <1>7, <1>8 DEF high, value

LEMMA DecimalStep == AluInv => DecimalAdjusted
<1> SUFFICES ASSUME AluTypes, DecimalInv PROVE DecimalAdjusted
  BY DEF AluInv
<1>1. psw.h \in BOOLEAN /\ psw.c \in BOOLEAN
  BY DEF AluTypes, AluFlags
<1>2. ASSUME decimal.adjust = "add", DAA
      PROVE  IsDecimal(aReg') /\ Number(aReg') + Hundred * Bit(psw'.c) = decimal.value
  <2>1. PICK u \in 0 .. 2 * Decimal - 2, s \in 0 .. 2 * Decimal - 1 :
          /\ decimal.value = Decimal * u + s
          /\ psw.h <=> s >= Digit
          /\ psw.c <=> u + Bit(psw.h) >= Digit
          /\ aReg = Digit * ((u + Bit(psw.h)) % Digit) + (s % Digit)
    BY <1>2 DEF DecimalInv, SumIn
  <2>2. /\ IsDecimal(UpValue(aReg, psw.h, psw.c))
        /\ Number(UpValue(aReg, psw.h, psw.c)) + Hundred * Bit(UpHigh(aReg, psw.c))
             = Decimal * u + s
    BY <1>1, <2>1, AdjustUp
  <2>3. aReg' = UpValue(aReg, psw.h, psw.c) /\ Bit(psw'.c) = Bit(UpHigh(aReg, psw.c))
    BY <1>2, DaaIs DEF Bit
  <2> QED
    BY <2>1, <2>2, <2>3
<1>3. ASSUME decimal.adjust = "subtract", DAS
      PROVE  IsDecimal(aReg') /\ Number(aReg') - Hundred * (1 - Bit(psw'.c)) = decimal.value
  <2>1. PICK u \in 1 - Decimal .. Decimal - 1, s \in -Decimal .. Decimal - 1 :
          /\ decimal.value = Decimal * u + s
          /\ psw.h <=> s >= 0
          /\ psw.c <=> u - Bit(~psw.h) >= 0
          /\ aReg = Digit * ((u - Bit(~psw.h)) % Digit) + (s % Digit)
    BY <1>3 DEF DecimalInv, DifferenceIn
  <2>2. /\ IsDecimal(DownValue(aReg, psw.h, psw.c))
        /\ Number(DownValue(aReg, psw.h, psw.c)) - Hundred * (1 - Bit(~DownHigh(aReg, psw.c)))
             = Decimal * u + s
    BY <1>1, <2>1, AdjustDown
  <2>3. aReg' = DownValue(aReg, psw.h, psw.c) /\ Bit(psw'.c) = Bit(~DownHigh(aReg, psw.c))
    BY <1>3, DasIs DEF Bit
  <2> QED
    BY <2>1, <2>2, <2>3
<1> QED
  BY <1>2, <1>3 DEF DecimalAdjusted

LEMMA AluInit_Inv == AluInit => AluInv
BY AluSizes, Spc700AluAssumption
   DEF AluInit, AluInv, AluTypes, AluBytes, AluFlags, DecimalInv, NotDecimal

\* A comparison is a flag.
LEMMA ChangedFlags ==
  ASSUME NEW f \in AluFlags
  PROVE  /\ \A x, y : [f EXCEPT !.c = x >= y] \in AluFlags
         /\ \A x, y, u, w : [f EXCEPT !.h = x >= y, !.v = u >= w] \in AluFlags
<1>1. \A x, y : (x >= y) \in BOOLEAN
  OBVIOUS
<1>2. \A b, d \in BOOLEAN : [f EXCEPT !.c = b] \in AluFlags /\ [f EXCEPT !.h = b, !.v = d] \in AluFlags
  BY DEF AluFlags
<1> QED
  BY <1>1, <1>2

LEMMA WordFlagsAre ==
  ASSUME NEW f \in AluFlags, NEW value
  PROVE  WordFlags(f, value) \in AluFlags
<1>1. (value = 0) \in BOOLEAN /\ Negative(value \div AluByte) \in BOOLEAN
  BY DEF Negative
<1>2. \A b, d \in BOOLEAN : [f EXCEPT !.z = b, !.n = d] \in AluFlags
  BY DEF AluFlags
<1> QED
  BY <1>1, <1>2 DEF WordFlags

\* The invariant holds after every instruction.
LEMMA AluNext_Inv == AluInv /\ [AluNext]_aluVars => AluInv'
<1> SUFFICES ASSUME AluInv, [AluNext]_aluVars PROVE AluInv'
  OBVIOUS
<1>1. AluTypes /\ psw \in AluFlags /\ aReg \in AluBytes /\ yReg \in AluBytes /\ YA \in AluWords
  BY YaIs DEF AluInv, AluTypes
<1>2. /\ \A m \in ByteData : m \in AluBytes
      /\ \A w \in WordData : w \in AluWords
  BY Spc700AluAssumption DEF AluBytes, AluWords
<1>3. \A value : WordFlags(psw, value) \in AluFlags
  BY <1>1, WordFlagsAre
<1>4. ASSUME NEW m \in ByteData, ADC(m) PROVE AluInv'
  BY <1>1, <1>2, <1>4, AdcStep
<1>5. ASSUME NEW m \in ByteData, SBC(m) PROVE AluInv'
  BY <1>1, <1>2, <1>5, SbcStep
<1>6. ASSUME NEW m \in ByteData, CMP(m) PROVE AluInv'
  <2>1. [psw EXCEPT !.c = aReg >= m] \in AluFlags
    BY <1>1, ChangedFlags
  <2>2. Cmp(psw, aReg, m).flag \in AluFlags
    BY <2>1, ResultIs DEF Cmp
  <2> QED
    BY <1>1, <1>6, <2>2 DEF CMP, AluInv, AluTypes, DecimalInv, NotDecimal
<1>7. ASSUME NEW m \in ByteData, Load(m) PROVE AluInv'
  <2>1. Result(psw, m).value = m /\ Result(psw, m).flag \in AluFlags
    BY <1>1, ResultIs
  <2> QED
    BY <1>1, <1>2, <1>7, <2>1, ByteToA DEF Load
<1>8. ASSUME NEW w \in WordData, ADDW(w) PROVE AluInv'
  <2>1. PICK r : r = Adw(psw, YA, w)
    OBVIOUS
  <2>2. r.value \in AluWords /\ r.flag \in AluFlags
    BY <1>1, <1>2, <2>1, AdwIs
  <2> QED
    BY <1>1, <1>8, <2>1, <2>2, WordToYA DEF ADDW
<1>9. ASSUME NEW w \in WordData, SUBW(w) PROVE AluInv'
  <2>1. PICK r : r = Sbw(psw, YA, w)
    OBVIOUS
  <2>2. r.value \in AluWords /\ r.flag \in AluFlags
    BY <1>1, <1>2, <2>1, SbwIs
  <2> QED
    BY <1>1, <1>9, <2>1, <2>2, WordToYA DEF SUBW
<1>10. ASSUME NEW w \in WordData, CMPW(w) PROVE AluInv'
  <2>1. [psw EXCEPT !.c = YA >= w] \in AluFlags
    BY <1>1, ChangedFlags
  <2>2. Cpw(psw, YA, w) \in AluFlags
    BY <2>1, WordFlagsAre DEF Cpw
  <2> QED
    BY <1>1, <1>10, <2>2, WordToYA DEF CMPW
<1>11. ASSUME NEW w \in WordData, MOVW(w) PROVE AluInv'
  BY <1>1, <1>2, <1>3, <1>11, WordToYA DEF MOVW
<1>12. ASSUME NEW w \in WordData, NEW by \in {1, -1}, AdjustW(w, by) PROVE AluInv'
  BY <1>1, <1>3, <1>12, WordToYA DEF AdjustW
<1>13. ASSUME ShiftA PROVE AluInv'
  <2>1. PICK r \in Shifts(aReg) : ToA(r)
    BY <1>13 DEF ShiftA
  <2>2. r.value \in AluBytes /\ r.flag \in AluFlags
    BY <1>1, <2>1, ShiftsAre
  <2> QED
    BY <1>1, <1>13, <2>1, <2>2, ByteToA DEF ShiftA
<1>14. ASSUME MUL PROVE AluInv'
  <2>1. yReg * aReg \in AluWords
    BY <1>1, ProductIs
  <2>2. Result(psw, (yReg * aReg) \div AluByte).flag \in AluFlags
    BY <1>1, ResultIs
  <2> QED
    BY <1>1, <1>14, <2>1, <2>2, WordToYA DEF MUL
<1>15. ASSUME DIV PROVE AluInv'
  <2>1. Quotient \in AluBytes /\ Remainder \in AluBytes
    BY <1>1, QuotientIs, TooLarge
  <2>2. Remainder * AluByte + Quotient \in AluWords
    <3>1. /\ AluByte \in Nat \ {0} /\ Quotient \in 0 .. AluByte - 1
          /\ Remainder \in 0 .. AluByte - 1 /\ Remainder \in Int
      BY <2>1, AluSizes DEF AluBytes
    <3>2. AluByte * Remainder + Quotient \in 0 .. AluByte * AluByte - 1
      BY <3>1, InTwoDigits
    <3>3. Remainder * AluByte = AluByte * Remainder
      BY <3>1
    <3> QED
      BY <3>2, <3>3 DEF AluWords, AluWord
  <2> DEFINE f == [psw EXCEPT !.h = yReg % Digit >= xReg % Digit, !.v = Overflows]
  <2>3. f \in AluFlags
    BY <1>1, ChangedFlags DEF Overflows
  <2>4. ToYA(Remainder * AluByte + Quotient, Result(f, Quotient).flag)
    BY <1>15, Zenon DEF DIV
  <2> HIDE DEF f
  <2>5. Result(f, Quotient).flag \in AluFlags
    BY <2>3, ResultIs
  <2> QED
    BY <1>1, <2>2, <2>4, <2>5, WordToYA
<1>16. ASSUME DAA PROVE AluInv'
  BY <1>1, <1>16, DaaIs
<1>17. ASSUME DAS PROVE AluInv'
  BY <1>1, <1>17, DasIs
<1>18. ASSUME XCN PROVE AluInv'
  <2>1. PICK i \in 0 .. Digit - 1, j \in 0 .. Digit - 1 : aReg % Digit = j /\ aReg \div Digit = i
    BY <1>1, ByteParts
  <2>2. Digit \in Nat \ {0} /\ i \in Int /\ j \in Int
    BY <2>1, AluSizes
  <2>3. j * Digit + i \in AluBytes
    <3>1. Digit * j + i \in 0 .. Digit * Digit - 1
      BY <2>2, InTwoDigits
    <3>2. Digit * j = j * Digit
      BY <2>2
    <3> QED
      BY <3>1, <3>2 DEF AluBytes, AluByte
  <2>4. PICK r : r = Result(psw, j * Digit + i)
    OBVIOUS
  <2>5. r.value = j * Digit + i /\ r.flag \in AluFlags
    BY <1>1, <2>4, ResultIs
  <2> QED
    BY <1>1, <1>18, <2>1, <2>3, <2>4, <2>5, ByteToA DEF XCN
<1>19. ASSUME Flags PROVE AluInv'
  <2>1. psw' \in AluFlags
    BY <1>1, <1>19 DEF Flags, AluFlags
  <2> QED
    BY <1>1, <1>19, <2>1 DEF Flags, AluInv, AluTypes, DecimalInv, NotDecimal
<1>20. ASSUME UNCHANGED aluVars PROVE AluInv'
  BY <1>20 DEF aluVars, AluInv, AluTypes, DecimalInv, SumIn, DifferenceIn
<1> QED
  BY <1>4, <1>5, <1>6, <1>7, <1>8, <1>9, <1>10, <1>11, <1>12, <1>13, <1>14, <1>15, <1>16,
     <1>17, <1>18, <1>19, <1>20 DEF AluNext

\* Carry, overflow, Z and the value of a word instruction are the word's, a quotient
\* that fits is exact, and a decimal adjustment makes the decimal sum or difference,
\* for digits of every size.
THEOREM ArithmeticIsExact == AluSpec => ArithmeticExact
<1>1. AluInv => WordArithmetic /\ Division /\ DecimalAdjusted
  BY WordsExact, DivisionExact, DecimalStep
<1> QED
  BY <1>1, AluInit_Inv, AluNext_Inv, PTL DEF AluSpec, ArithmeticExact

-----------------------------------------------------------------------------
(***************************************************************************)
(* The voices of the S-DSP: what a clock finds.                            *)
(***************************************************************************)
Holders == 0 .. Other

PipeType ==
  [source : Holders, directory : Holders, next : Holders, entry : {"start", "loop"},
   pitch : Holders, brr : Holders, header : {"body", "loop", "end"}, output : Holders,
   outx : Holders, envx : Holders, looped : SUBSET Watched, endx : SUBSET Watched,
   endxBuf : SUBSET Watched, inOrder : BOOLEAN]

VoiceType ==
  [delay : 0 .. 5, release : BOOLEAN, offset : {1, 3, 5, 7}, advance : BOOLEAN, still : BOOLEAN]

KeyType ==
  [new : SUBSET Watched, kon : SUBSET Watched, koff : SUBSET Watched, keyOff : SUBSET Watched]

VoicesState ==
  [pipe : PipeType, voice : [Watched -> VoiceType], ended : SUBSET Watched,
   asked : SUBSET Watched, key : KeyType, even : BOOLEAN]

\* Whose each latch is, which voice is between its registers and its rendering, between
\* that and its left side, between that and its right side, and between its end and
\* the publication of that; the voices a KON is still due for, and whether a new one is
\* about to be taken.  Other is none.
PlaceAt(p) ==
  [source |-> IF p \in 3 .. 17 THEN p \div 3 + 2 ELSE IF p \in 18 .. 20 THEN 0
              ELSE IF p \in 21 .. 31 THEN 1 ELSE 2,
   directory |-> IF p \in 3 .. 20 THEN p \div 3 + 1 ELSE IF p \in 21 .. 31 THEN 0 ELSE 1,
   next |-> IF p \in 1 .. 21 THEN (p + 2) \div 3 ELSE 0,
   brr |-> IF p \in 2 .. 22 THEN (p + 1) \div 3 ELSE IF p \in 23 .. 25 THEN 7 ELSE 0,
   output |-> IF p \in 2 .. 22 THEN (p + 1) \div 3 ELSE IF p \in 23 .. 30 THEN 7 ELSE 0,
   outx |-> IF p \in 2 .. 22 THEN (p - 2) \div 3 ELSE 7,
   envx |-> IF p \in 3 .. 23 THEN (p - 3) \div 3 ELSE 7,
   chosen |-> IF p \in 1 .. 19 /\ p % 3 = 1 THEN (p + 2) \div 3
              ELSE IF p \in 22 .. 30 THEN 0 ELSE Other,
   rendered |-> IF p \in 2 .. 20 /\ p % 3 = 2 THEN (p + 1) \div 3
                ELSE IF p = 31 THEN 0 ELSE Other,
   looped |-> IF p \in 0 .. 21 /\ p % 3 = 0 THEN p \div 3 ELSE Other,
   pending |-> IF p \in 1 .. 23 /\ p % 3 # 0 THEN p \div 3 ELSE Other,
   due |-> IF p = 31 THEN 1 .. 7 ELSE {v \in 1 .. 7 : p <= 3 * v - 2},
   keying |-> p = 30]

\* A latch is of the voice it is taken for.
LatchesInPlace(s, pl) ==
  /\ s.pipe.source \in {pl.source, Other} /\ s.pipe.directory \in {pl.directory, Other}
  /\ s.pipe.next \in {pl.next, Other} /\ s.pipe.pitch \in {pl.next, Other}
  /\ s.pipe.brr \in {pl.brr, Other} /\ s.pipe.output \in {pl.output, Other}
  /\ s.pipe.outx \in {pl.outx, Other} /\ s.pipe.envx \in {pl.envx, Other}
  /\ s.pipe.inOrder

\* A voice ready for its left side: it does not reach a block's end while it is keyed on.
Ready(p, w) ==
  /\ w.delay \in 1 .. 3 => w.advance /\ w.offset = 7 - 2 * w.delay
  /\ w.delay = 4 => ~w.advance /\ w.offset = 1
  /\ p.entry = "start" /\ w.advance /\ w.offset = 7 => p.header = "body"

\* The others: how far each is with the first block goes with its delay.
Begun(w) == w.delay \in 1 .. 4 => w.offset = 9 - 2 * w.delay

SamplesInPlace(s, pl) ==
  /\ pl.chosen \in Watched => (s.pipe.entry = "start" <=> s.voice[pl.chosen].delay # 0)
  /\ \A v \in Watched : v # pl.rendered => Begun(s.voice[v])
  /\ pl.rendered \in Watched => Ready(s.pipe, s.voice[pl.rendered])

EndsInPlace(s, pl) ==
  /\ pl.looped # Other => s.pipe.looped \subseteq {pl.looped}
  /\ s.pipe.endx \ {pl.pending} = s.ended \ {pl.pending}
  /\ pl.pending # Other => s.pipe.endxBuf = s.ended

KeysInPlace(s, pl) ==
  /\ s.key.new \ s.key.kon \subseteq s.asked
  /\ s.even /\ pl.keying => s.key.new \subseteq s.asked
  /\ s.even => \A v \in pl.due : v \in s.key.kon => v \in s.asked

InPlace(s, pl) ==
  LatchesInPlace(s, pl) /\ SamplesInPlace(s, pl) /\ EndsInPlace(s, pl) /\ KeysInPlace(s, pl)

VoicesInv ==
  /\ dspPhase \in 0 .. 31
  /\ State \in VoicesState
  /\ InPlace(State, PlaceAt(dspPhase))

-----------------------------------------------------------------------------
(***************************************************************************)
(* One operation.                                                          *)
(***************************************************************************)
VoicePlaces ==
  [source : Holders, directory : Holders, next : Holders, brr : Holders, output : Holders,
   outx : Holders, envx : Holders, chosen : Holders, rendered : Holders, looped : Holders,
   pending : Holders, due : SUBSET Voices, keying : BOOLEAN]

Good(s, pl) == s \in VoicesState /\ InPlace(s, pl)

\* No voice's delay starts again but of one a KON was written for.
Calm(s, t) ==
  /\ t.asked \subseteq s.asked
  /\ \A v \in Watched : t.voice[v].delay > s.voice[v].delay => v \in s.asked

LEMMA NothingStarts ==
  ASSUME NEW s \in VoicesState, NEW t, t.asked = s.asked,
         \A v \in Watched : t.voice[v].delay = s.voice[v].delay
  PROVE  Calm(s, t)
<1>1. \A v \in Watched : s.voice[v].delay \in 0 .. 5
  BY DEF VoicesState, VoiceType
<1>2. \A n \in 0 .. 5 : ~(n > n)
  OBVIOUS
<1> QED
  BY <1>1, <1>2 DEF Calm

LEMMA DirectoryMoves ==
  ASSUME NEW s, NEW pl \in VoicePlaces, Good(s, pl), NEW v \in Voices
  PROVE  LET t == CaptureDirectory(s, v)
         IN  Good(t, [pl EXCEPT !.directory = pl.source, !.source = v]) /\ Calm(s, t)
<1> DEFINE t == CaptureDirectory(s, v)
           ql == [pl EXCEPT !.directory = pl.source, !.source = v]
<1> SUFFICES Good(t, ql) /\ Calm(s, t)
  OBVIOUS
<1>1. v \in Holders /\ s \in VoicesState /\ InPlace(s, pl)
  BY DEF Voices, Holders, Other, Good
<1>2. t \in VoicesState
  BY <1>1 DEF CaptureDirectory, VoicesState, PipeType
<1>3. /\ t.voice = s.voice /\ t.ended = s.ended /\ t.asked = s.asked /\ t.key = s.key
      /\ t.even = s.even
      /\ t.pipe = [s.pipe EXCEPT !.directory = s.pipe.source, !.source = v]
  BY <1>1 DEF CaptureDirectory, VoicesState
<1> HIDE DEF t
<1>4. InPlace(t, ql)
  <2>1. LatchesInPlace(t, ql)
    BY <1>1, <1>3 DEF InPlace, LatchesInPlace, VoicesState, PipeType, VoicePlaces
  <2>2. SamplesInPlace(t, ql)
    BY <1>1, <1>3 DEF InPlace, SamplesInPlace, Ready, VoicesState, PipeType, VoicePlaces
  <2>3. EndsInPlace(t, ql)
    BY <1>1, <1>3 DEF InPlace, EndsInPlace, VoicesState, PipeType, VoicePlaces
  <2>4. KeysInPlace(t, ql)
    BY <1>1, <1>3 DEF InPlace, KeysInPlace, VoicePlaces
  <2> QED
    BY <2>1, <2>2, <2>3, <2>4 DEF InPlace
<1> QED
  BY <1>1, <1>2, <1>3, <1>4, NothingStarts DEF Good

LEMMA RegistersMove ==
  ASSUME NEW s, NEW pl \in VoicePlaces, Good(s, pl), NEW v \in Voices,
         pl.directory = v, pl.rendered = Other
  PROVE  LET t == CaptureVoiceRegisters(s, v)
         IN  Good(t, [pl EXCEPT !.next = v, !.chosen = v]) /\ Calm(s, t)
<1> DEFINE t == CaptureVoiceRegisters(s, v)
           ql == [pl EXCEPT !.next = v, !.chosen = v]
           entry == IF v \in Watched /\ s.voice[v].delay # 0 THEN "start" ELSE "loop"
<1> SUFFICES Good(t, ql) /\ Calm(s, t)
  OBVIOUS
<1>1. v \in Holders /\ s \in VoicesState /\ InPlace(s, pl) /\ Other \notin Watched
  BY DspVoicesAssumption DEF Voices, Holders, Other, Good
<1>2. InOrder(s, {"directory"}, v) = [s EXCEPT !.pipe.inOrder = TRUE]
  BY <1>1 DEF InOrder, InPlace, LatchesInPlace, SamplesInPlace, EndsInPlace, KeysInPlace
<1>3. t = [s EXCEPT !.pipe = [s.pipe EXCEPT !.inOrder = TRUE, !.next = v, !.pitch = v,
                                           !.entry = entry]]
  BY <1>1, <1>2 DEF CaptureVoiceRegisters, VoicesState, PipeType
<1>4. entry \in {"start", "loop"} /\ (v \in Watched => (entry = "start" <=> s.voice[v].delay # 0))
  OBVIOUS
<1> DEFINE pipe2 == [s.pipe EXCEPT !.inOrder = TRUE, !.next = v, !.pitch = v, !.entry = entry]
<1> HIDE DEF entry
<1>5. s.pipe \in PipeType
  BY <1>1 DEF VoicesState
<1>6. pipe2 \in PipeType
  BY <1>1, <1>4, <1>5 DEF PipeType
<1>7. t = [s EXCEPT !.pipe = pipe2]
  BY <1>3
<1> HIDE DEF pipe2
<1>8. t \in VoicesState
  BY <1>1, <1>6, <1>7 DEF VoicesState
<1> USE DEF pipe2
<1>9. /\ t.voice = s.voice /\ t.ended = s.ended /\ t.asked = s.asked /\ t.key = s.key
      /\ t.even = s.even
      /\ t.pipe = [s.pipe EXCEPT !.inOrder = TRUE, !.next = v, !.pitch = v, !.entry = entry]
  BY <1>1, <1>3 DEF VoicesState
<1> HIDE DEF t
<1>10. InPlace(t, ql)
  BY <1>1, <1>4, <1>9 DEF InPlace, LatchesInPlace, SamplesInPlace, EndsInPlace, KeysInPlace,
     VoicesState, PipeType, VoicePlaces
<1> QED
  BY <1>1, <1>8, <1>9, <1>10, NothingStarts DEF Good

LEMMA PitchHighMoves ==
  ASSUME NEW s, NEW pl \in VoicePlaces, Good(s, pl), NEW v \in Voices, pl.next = v
  PROVE  LET t == CapturePitchHigh(s, v) IN Good(t, pl) /\ Calm(s, t)
<1>1. s \in VoicesState /\ InPlace(s, pl)
  BY DEF Good
<1>2. CapturePitchHigh(s, v) = s
  BY <1>1 DEF CapturePitchHigh, InOrder, InPlace, LatchesInPlace, SamplesInPlace, EndsInPlace,
     KeysInPlace, VoicesState, PipeType
<1> QED
  BY <1>1, <1>2, NothingStarts DEF Good

LEMMA BrrMoves ==
  ASSUME NEW s, NEW pl \in VoicePlaces, Good(s, pl), NEW v \in Voices, pl.rendered = Other,
         NEW header \in {"body", "loop", "end"}
  PROVE  LET t == CaptureBrrBytes(s, v, header)
         IN  Good(t, [pl EXCEPT !.brr = v]) /\ Calm(s, t)
<1> DEFINE t == CaptureBrrBytes(s, v, header)
           ql == [pl EXCEPT !.brr = v]
<1> SUFFICES Good(t, ql) /\ Calm(s, t)
  OBVIOUS
<1>1. v \in Holders /\ s \in VoicesState /\ InPlace(s, pl) /\ Other \notin Watched
  BY DspVoicesAssumption DEF Voices, Holders, Other, Good
<1>2. t \in VoicesState
  BY <1>1 DEF CaptureBrrBytes, VoicesState, PipeType
<1>3. /\ t.voice = s.voice /\ t.ended = s.ended /\ t.asked = s.asked /\ t.key = s.key
      /\ t.even = s.even
      /\ t.pipe = [s.pipe EXCEPT !.brr = v, !.header = header]
  BY <1>1 DEF CaptureBrrBytes, VoicesState
<1> HIDE DEF t
<1>4. InPlace(t, ql)
  <2>1. LatchesInPlace(t, ql)
    BY <1>1, <1>3 DEF InPlace, LatchesInPlace, VoicesState, PipeType, VoicePlaces
  <2>2. SamplesInPlace(t, ql)
    BY <1>1, <1>3 DEF InPlace, SamplesInPlace, Ready, VoicesState, PipeType, VoicePlaces
  <2>3. EndsInPlace(t, ql)
    BY <1>1, <1>3 DEF InPlace, EndsInPlace, VoicesState, PipeType, VoicePlaces
  <2>4. KeysInPlace(t, ql)
    BY <1>1, <1>3 DEF InPlace, KeysInPlace, VoicePlaces
  <2> QED
    BY <2>1, <2>2, <2>3, <2>4 DEF InPlace
<1> QED
  BY <1>1, <1>2, <1>3, <1>4, NothingStarts DEF Good

LEMMA OutputMoves ==
  ASSUME NEW s, NEW pl \in VoicePlaces, Good(s, pl)
  PROVE  LET t == CaptureOutput(s) IN Good(t, [pl EXCEPT !.outx = pl.output]) /\ Calm(s, t)
<1> DEFINE t == CaptureOutput(s)
           ql == [pl EXCEPT !.outx = pl.output]
<1> SUFFICES Good(t, ql) /\ Calm(s, t)
  OBVIOUS
<1>1. s \in VoicesState /\ InPlace(s, pl)
  BY DEF Good
<1>2. t \in VoicesState
  BY <1>1 DEF CaptureOutput, VoicesState, PipeType
<1>3. /\ t.voice = s.voice /\ t.ended = s.ended /\ t.asked = s.asked /\ t.key = s.key
      /\ t.even = s.even
      /\ t.pipe = [s.pipe EXCEPT !.outx = s.pipe.output]
  BY <1>1 DEF CaptureOutput, VoicesState
<1> HIDE DEF t
<1>4. InPlace(t, ql)
  <2>1. LatchesInPlace(t, ql)
    BY <1>1, <1>3 DEF InPlace, LatchesInPlace, VoicesState, PipeType, VoicePlaces
  <2>2. SamplesInPlace(t, ql)
    BY <1>1, <1>3 DEF InPlace, SamplesInPlace, Ready, VoicesState, PipeType, VoicePlaces
  <2>3. EndsInPlace(t, ql)
    BY <1>1, <1>3 DEF InPlace, EndsInPlace, VoicesState, PipeType, VoicePlaces
  <2>4. KeysInPlace(t, ql)
    BY <1>1, <1>3 DEF InPlace, KeysInPlace, VoicePlaces
  <2> QED
    BY <2>1, <2>2, <2>3, <2>4 DEF InPlace
<1> QED
  BY <1>1, <1>2, <1>3, <1>4, NothingStarts DEF Good

LEMMA EndMoves ==
  ASSUME NEW s, NEW pl \in VoicePlaces, Good(s, pl), NEW v \in Voices, pl.pending = v
  PROVE  LET t == PublishEndAndCaptureEnv(s, v)
         IN  Good(t, [pl EXCEPT !.pending = Other, !.envx = v]) /\ Calm(s, t)
<1> DEFINE t == PublishEndAndCaptureEnv(s, v)
           ql == [pl EXCEPT !.pending = Other, !.envx = v]
<1> SUFFICES Good(t, ql) /\ Calm(s, t)
  OBVIOUS
<1>1. v \in Holders /\ v # Other /\ s \in VoicesState /\ InPlace(s, pl)
  BY DEF Voices, Holders, Other, Good
<1>2. t \in VoicesState
  BY <1>1 DEF PublishEndAndCaptureEnv, VoicesState, PipeType
<1>3. /\ t.voice = s.voice /\ t.ended = s.ended /\ t.asked = s.asked /\ t.key = s.key
      /\ t.even = s.even
      /\ t.pipe = [s.pipe EXCEPT !.endx = s.pipe.endxBuf, !.envx = v]
  BY <1>1 DEF PublishEndAndCaptureEnv, VoicesState
<1> HIDE DEF t
<1>4. InPlace(t, ql)
  <2>1. LatchesInPlace(t, ql)
    BY <1>1, <1>3 DEF InPlace, LatchesInPlace, VoicesState, PipeType, VoicePlaces
  <2>2. SamplesInPlace(t, ql)
    BY <1>1, <1>3 DEF InPlace, SamplesInPlace, Ready, VoicesState, PipeType, VoicePlaces
  <2>3. EndsInPlace(t, ql)
    BY <1>1, <1>3 DEF InPlace, EndsInPlace, VoicesState, PipeType, VoicePlaces
  <2>4. KeysInPlace(t, ql)
    BY <1>1, <1>3 DEF InPlace, KeysInPlace, VoicePlaces
  <2> QED
    BY <2>1, <2>2, <2>3, <2>4 DEF InPlace
<1> QED
  BY <1>1, <1>2, <1>3, <1>4, NothingStarts DEF Good

LEMMA PublishMoves ==
  ASSUME NEW s, NEW pl \in VoicePlaces, Good(s, pl), NEW v \in Voices
  PROVE  /\ pl.outx = v => PublishOutput(s, v) = s
         /\ pl.envx = v => PublishEnvelope(s, v) = s
BY DEF PublishOutput, PublishEnvelope, InOrder, Good, InPlace, LatchesInPlace, SamplesInPlace,
   EndsInPlace, KeysInPlace, VoicesState, PipeType

\* The state of one voice replaced, and the latches.
Changed(s, v, p, w) == [s EXCEPT !.pipe = p, !.voice = [s.voice EXCEPT ![v] = w]]

LEMMA ChangedType ==
  ASSUME NEW s \in VoicesState, NEW v \in Watched, NEW p, NEW w
  PROVE  LET t == Changed(s, v, p, w)
         IN  /\ p \in PipeType /\ w \in VoiceType => t \in VoicesState
             /\ t.pipe = p /\ t.voice[v] = w
             /\ \A u \in Watched : u # v => t.voice[u] = s.voice[u]
             /\ t.ended = s.ended /\ t.asked = s.asked /\ t.key = s.key /\ t.even = s.even
BY DEF Changed, VoicesState

LEMMA KeyedChanges ==
  ASSUME NEW s \in VoicesState, NEW v \in Watched, s.pipe.inOrder,
         s.voice[v].delay = 5 => s.pipe.entry = "start"
  PROVE  LET w == s.voice[v]
             first == w.delay = 5
         IN  Keyed(s, v) =
               IF w.delay = 0 THEN Changed(s, v, s.pipe, [w EXCEPT !.still = FALSE])
               ELSE Changed(s, v, [s.pipe EXCEPT !.header = IF first THEN "body" ELSE @],
                 [w EXCEPT !.still = TRUE, !.offset = IF first THEN 1 ELSE @,
                           !.delay = @ - 1, !.advance = (w.delay - 1) % 4 # 0])
<1>1. CASE s.voice[v].delay = 0
  BY <1>1 DEF Keyed, Changed, VoicesState, VoiceType
<1>2. CASE s.voice[v].delay # 0
  <2> DEFINE d == s.voice[v].delay
             p == [s.pipe EXCEPT !.header = IF d = 5 THEN "body" ELSE @]
             w == [s.voice[v] EXCEPT !.still = TRUE, !.offset = IF d = 5 THEN 1 ELSE @,
                                     !.delay = @ - 1, !.advance = (d - 1) % 4 # 0]
             k == Keyed(s, v)
  <2>1. k = [s EXCEPT !.voice[v].still = TRUE,
                      !.pipe.header = IF d = 5 THEN "body" ELSE @,
                      !.pipe.inOrder = @ /\ (d = 5 => s.pipe.entry = "start"),
                      !.voice[v].offset = IF d = 5 THEN 1 ELSE @,
                      !.voice[v].delay = @ - 1,
                      !.voice[v].advance = (d - 1) % 4 # 0]
    BY <1>2 DEF Keyed
  <2>2. k = [s EXCEPT !.pipe = k.pipe, !.voice = k.voice]
    BY <2>1 DEF VoicesState
  <2>3. k.voice = [s.voice EXCEPT ![v].still = TRUE, ![v].offset = IF d = 5 THEN 1 ELSE @,
                                  ![v].delay = @ - 1, ![v].advance = (d - 1) % 4 # 0]
    BY <2>1 DEF VoicesState
  <2>4. k.voice = [s.voice EXCEPT ![v] = w]
    BY <2>3 DEF VoicesState
  <2>5. /\ k.voice = [s.voice EXCEPT ![v] = w]
        /\ k = [s EXCEPT !.pipe = k.pipe, !.voice = k.voice]
    BY <2>2, <2>4
  <2>6. k.pipe = [s.pipe EXCEPT !.header = IF d = 5 THEN "body" ELSE @,
                                !.inOrder = @ /\ (d = 5 => s.pipe.entry = "start")]
    BY <2>1 DEF VoicesState
  <2>7. k.pipe = p
    BY <2>6 DEF VoicesState, PipeType
  <2> QED
    BY <1>2, <2>5, <2>7 DEF Changed
<1> QED
  BY <1>1, <1>2

LEMMA ReleaseChanges ==
  ASSUME NEW s \in VoicesState, NEW v \in Watched, NEW p \in PipeType, NEW w \in VoiceType
  PROVE  LET t == Changed(s, v, p, w)
         IN  /\ \E b \in BOOLEAN : Released(t, v) = Changed(s, v, p, [w EXCEPT !.release = b])
             /\ \E b \in BOOLEAN : KeyedOff(t, v) = Changed(s, v, p, [w EXCEPT !.release = b])
<1> DEFINE t == Changed(s, v, p, w)
<1>1. w = [w EXCEPT !.release = w.release] /\ w.release \in BOOLEAN
  BY DEF VoiceType
<1>2. [t EXCEPT !.voice[v].release = TRUE] = Changed(s, v, p, [w EXCEPT !.release = TRUE])
  BY DEF Changed, VoicesState
<1>3. t = Changed(s, v, p, [w EXCEPT !.release = w.release])
  BY <1>1
<1> QED
  BY <1>1, <1>2, <1>3 DEF Released, KeyedOff

LEMMA KeyedReady ==
  ASSUME NEW p \in PipeType, NEW w \in VoiceType, Begun(w),
         p.entry = "start" <=> w.delay # 0
  PROVE  LET first == w.delay = 5
             q == [p EXCEPT !.header = IF first THEN "body" ELSE @]
             u == [w EXCEPT !.still = TRUE, !.offset = IF first THEN 1 ELSE @,
                            !.delay = @ - 1, !.advance = (w.delay - 1) % 4 # 0]
         IN  /\ w.delay = 0 => Ready(p, [w EXCEPT !.still = FALSE])
             /\ w.delay # 0 => q \in PipeType /\ u \in VoiceType /\ u.delay <= w.delay
                  /\ Ready(q, u)
<1> DEFINE q == [p EXCEPT !.header = IF w.delay = 5 THEN "body" ELSE @]
           u == [w EXCEPT !.still = TRUE, !.offset = IF w.delay = 5 THEN 1 ELSE @,
                          !.delay = @ - 1, !.advance = (w.delay - 1) % 4 # 0]
<1>1. w.delay = 0 => Ready(p, [w EXCEPT !.still = FALSE])
  BY DEF Ready, VoiceType, PipeType
<1>2. ASSUME w.delay # 0
      PROVE  q \in PipeType /\ u \in VoiceType /\ u.delay <= w.delay /\ Ready(q, u)
  <2> DEFINE left == w.delay - 1
             off == IF w.delay = 5 THEN 1 ELSE w.offset
             adv == left % 4 # 0
  <2>1. q \in PipeType /\ q.header = (IF w.delay = 5 THEN "body" ELSE p.header)
    BY DEF PipeType
  <2>2. w.delay \in 1 .. 5 /\ w.offset \in {1, 3, 5, 7}
    BY <1>2 DEF VoiceType
  <2>3. /\ left \in 0 .. 4 /\ off \in {1, 3, 5, 7} /\ adv \in BOOLEAN /\ left <= w.delay
        /\ left = 4 => ~adv /\ off = 1
        /\ left = 0 => ~adv
        /\ left \in 1 .. 3 => adv /\ off = 7 - 2 * left
    <3>1. left \in 0 .. 4 /\ off \in {1, 3, 5, 7} /\ left <= w.delay
      BY <2>2
    <3>2. left \in {0, 4} => ~adv
      BY <3>1
    <3>3. left \in 1 .. 3 => adv
      BY <3>1
    <3>4. left = 4 => off = 1
      BY <2>2
    <3>5. left \in 1 .. 3 => off = 7 - 2 * left
      BY <2>2 DEF Begun
    <3> QED
      BY <3>1, <3>2, <3>3, <3>4, <3>5
  <2>4. u = [w EXCEPT !.still = TRUE, !.offset = off, !.delay = left, !.advance = adv]
    BY DEF VoiceType
  <2> HIDE DEF left, off, adv, q, u
  <2>5. left \in 0 .. 5 /\ off \in {1, 3, 5, 7} /\ adv \in BOOLEAN
    BY <2>3
  <2>6. u \in VoiceType
    BY <2>5, <2>4 DEF VoiceType
  <2>7. u.offset = off /\ u.delay = left /\ u.advance = adv
    BY <2>4 DEF VoiceType
  <2> QED
    BY <2>1, <2>3, <2>6, <2>7 DEF Ready
<1> QED
  BY <1>1, <1>2

LEMMA RenderMoves ==
  ASSUME NEW s, NEW pl \in VoicePlaces, Good(s, pl), NEW v \in Voices,
         pl.next = v, pl.brr = v, pl.chosen = v, pl.rendered = Other, ~pl.keying, v \in pl.due
  PROVE  LET t == RenderVoice(s, v)
         IN  /\ Good(t, [pl EXCEPT !.output = v, !.chosen = Other, !.rendered = v, !.due = @ \ {v}])
             /\ Calm(s, t)
<1> DEFINE t == RenderVoice(s, v)
           ql == [pl EXCEPT !.output = v, !.chosen = Other, !.rendered = v, !.due = @ \ {v}]
           p0 == [s.pipe EXCEPT !.output = v]
           taken == [s EXCEPT !.pipe = p0]
<1> SUFFICES Good(t, ql) /\ Calm(s, t)
  OBVIOUS
<1>1. v \in Holders /\ s \in VoicesState /\ InPlace(s, pl) /\ Other \notin Watched /\ v # Other
  BY DspVoicesAssumption DEF Voices, Holders, Other, Good
<1>2. p0 \in PipeType
  BY <1>1 DEF VoicesState, PipeType
<1>3. taken \in VoicesState
  BY <1>1, <1>2 DEF VoicesState
<1>4. /\ taken.voice = s.voice /\ taken.ended = s.ended /\ taken.asked = s.asked
      /\ taken.key = s.key /\ taken.even = s.even /\ taken.pipe = p0
  BY <1>1 DEF VoicesState
<1>5. InOrder(s, {"pitch", "next", "brr"}, v) = s
  BY <1>1 DEF InOrder, InPlace, LatchesInPlace, SamplesInPlace, EndsInPlace, KeysInPlace,
     VoicesState, PipeType
<1>6. [InOrder(s, {"pitch", "next", "brr"}, v) EXCEPT !.pipe.output = v] = taken
  BY <1>1, <1>5 DEF VoicesState
<1> HIDE DEF taken
<1>7. CASE v \notin Watched
  <2>1. t = taken
    BY <1>6, <1>7 DEF RenderVoice
  <2> HIDE DEF t
  <2>2. InPlace(t, ql)
    BY <1>1, <1>4, <1>7, <2>1 DEF InPlace, LatchesInPlace, SamplesInPlace, EndsInPlace,
       KeysInPlace, VoicesState, PipeType, VoicePlaces
  <2> QED
    BY <1>1, <1>3, <1>4, <2>1, <2>2, NothingStarts DEF Good
<1>8. CASE v \in Watched
  <2> DEFINE w == s.voice[v]
             k == Keyed(taken, v)
  <2>1. /\ w \in VoiceType /\ Begun(w) /\ (p0.entry = "start" <=> w.delay # 0)
        /\ p0.inOrder
    BY <1>1, <1>8 DEF InPlace, LatchesInPlace, SamplesInPlace, EndsInPlace, KeysInPlace,
       VoicesState, PipeType
  <2>2. taken.voice[v] = w /\ taken.pipe = p0 /\ (w.delay = 5 => p0.entry = "start")
    BY <1>4, <2>1
  <2>3. k = IF w.delay = 0 THEN Changed(taken, v, p0, [w EXCEPT !.still = FALSE])
            ELSE Changed(taken, v, [p0 EXCEPT !.header = IF w.delay = 5 THEN "body" ELSE @],
                   [w EXCEPT !.still = TRUE, !.offset = IF w.delay = 5 THEN 1 ELSE @,
                             !.delay = @ - 1, !.advance = (w.delay - 1) % 4 # 0])
    <3> HIDE DEF w, p0
    <3> QED
      BY <1>3, <1>8, <2>1, <2>2, KeyedChanges
  <2> HIDE DEF k
  <2>4. \E p \in PipeType, u \in VoiceType :
          /\ k = Changed(taken, v, p, u) /\ p = [p0 EXCEPT !.header = p.header]
          /\ u.delay <= w.delay /\ Ready(p, u)
    <3>1. CASE w.delay = 0
      <4> DEFINE u == [w EXCEPT !.still = FALSE]
      <4>1. u \in VoiceType /\ u.delay = w.delay
        BY <2>1 DEF VoiceType
      <4>2. w.delay \in 0 .. 5
        BY <2>1 DEF VoiceType
      <4>3. u \in VoiceType /\ u.delay <= w.delay
        BY <4>1, <4>2
      <4>4. p0 = [p0 EXCEPT !.header = p0.header]
        BY <1>2 DEF PipeType
      <4>5. k = Changed(taken, v, p0, u)
        BY <2>3, <3>1
      <4>6. Ready(p0, u)
        BY <1>2, <2>1, <3>1, KeyedReady
      <4> HIDE DEF u, p0
      <4> QED
        BY <1>2, <4>3, <4>5, <4>4, <4>6
    <3>2. CASE w.delay # 0
      <4> DEFINE q == [p0 EXCEPT !.header = IF w.delay = 5 THEN "body" ELSE @]
                 u == [w EXCEPT !.still = TRUE, !.offset = IF w.delay = 5 THEN 1 ELSE @,
                                !.delay = @ - 1, !.advance = (w.delay - 1) % 4 # 0]
      <4>1. k = Changed(taken, v, q, u)
        BY <2>3, <3>2
      <4>2. q \in PipeType /\ u \in VoiceType /\ u.delay <= w.delay /\ Ready(q, u)
        BY <1>2, <2>1, <3>2, KeyedReady
      <4>3. q = [p0 EXCEPT !.header = q.header]
        BY <1>2 DEF PipeType
      <4> HIDE DEF q, u
      <4> QED
        BY <4>1, <4>2, <4>3
    <3> QED
      BY <3>1, <3>2
  <2>5. PICK p \in PipeType, u \in VoiceType :
          /\ k = Changed(taken, v, p, u) /\ p = [p0 EXCEPT !.header = p.header]
          /\ u.delay <= w.delay /\ Ready(p, u)
    BY <2>4
  <2>6. /\ p.source = s.pipe.source /\ p.directory = s.pipe.directory /\ p.next = s.pipe.next
        /\ p.pitch = s.pipe.pitch /\ p.brr = s.pipe.brr /\ p.output = v /\ p.outx = s.pipe.outx
        /\ p.envx = s.pipe.envx /\ p.inOrder = s.pipe.inOrder /\ p.looped = s.pipe.looped
        /\ p.endx = s.pipe.endx /\ p.endxBuf = s.pipe.endxBuf
    <3>1. s.pipe \in PipeType
      BY <1>1 DEF VoicesState
    <3>2. DOMAIN s.pipe = {"source", "directory", "next", "entry", "pitch", "brr", "header",
                           "output",
                           "outx", "envx", "looped", "endx", "endxBuf", "inOrder"}
      BY <3>1 DEF PipeType
    <3> DEFINE h == p.header
    <3>3. p = [p0 EXCEPT !.header = h]
      BY <2>5
    <3> HIDE DEF h
    <3> QED
      BY <3>2, <3>3
  <2> HIDE DEF p0, w
  <2>7. PICK b \in BOOLEAN : Released(k, v) = Changed(taken, v, p, [u EXCEPT !.release = b])
    BY <1>3, <1>8, <2>5, ReleaseChanges
  <2> DEFINE z == [u EXCEPT !.release = b]
  <2>8. z \in VoiceType /\ z.delay = u.delay /\ z.offset = u.offset /\ z.advance = u.advance
    BY DEF VoiceType
  <2> HIDE DEF z
  <2>9. PICK c \in BOOLEAN :
          KeyedOff(Released(k, v), v) = Changed(taken, v, p, [z EXCEPT !.release = c])
    <3>1. Released(k, v) = Changed(taken, v, p, z)
      BY <2>7 DEF z
    <3> QED
      BY <1>3, <1>8, <2>8, <3>1, ReleaseChanges
  <2> DEFINE x == [z EXCEPT !.release = c]
             o == KeyedOff(Released(k, v), v)
             y == [x EXCEPT !.release = FALSE, !.delay = 5]
             keyed == s.even /\ v \in s.key.kon
  <2>10. /\ o = Changed(taken, v, p, x)
        /\ x \in VoiceType /\ x.delay = u.delay /\ x.offset = u.offset /\ x.advance = u.advance
    BY <2>8, <2>9 DEF VoiceType
  <2> HIDE DEF x
  <2>11. y \in VoiceType
    <3> DEFINE i == [x EXCEPT !.release = FALSE]
    <3>1. i \in VoiceType
      BY <2>10 DEF VoiceType
    <3>2. y = [i EXCEPT !.delay = 5]
      BY <2>10 DEF VoiceType
    <3> HIDE DEF i, y
    <3> QED
      BY <3>1, <3>2 DEF VoiceType
  <2>12. y \in VoiceType /\ y.delay = 5 /\ y.offset = u.offset /\ y.advance = u.advance
    BY <2>10, <2>11 DEF VoiceType
  <2> HIDE DEF y
  <2>13. Ready(p, x) /\ Ready(p, y)
    <3>1. Ready(p, x)
      BY <2>5, <2>10 DEF Ready
    <3>2. p.entry = "start" /\ y.advance /\ y.offset = 7 => p.header = "body"
      BY <2>5, <2>12 DEF Ready
    <3>3. y.delay \notin 1 .. 3 /\ y.delay # 4
      BY <2>12
    <3>4. Ready(p, y)
      BY <3>2, <3>3 DEF Ready
    <3> QED
      BY <3>1, <3>4
  <2>14. t = KeyedOn(o, v)
    BY <1>6, <1>8 DEF RenderVoice, k
  <2> HIDE DEF o, t
  <2>15. /\ o \in VoicesState /\ o.ended = s.ended /\ o.asked = s.asked /\ o.key = s.key
         /\ o.even = s.even /\ o.pipe = p /\ o.voice[v] = x
         /\ \A e \in Watched : e # v => o.voice[e] = s.voice[e]
    BY <1>3, <1>4, <1>8, <2>10, ChangedType
  <2>16. CASE keyed
    <3>1. t = [o EXCEPT !.voice[v].release = FALSE, !.voice[v].delay = 5, !.asked = @ \ {v}]
      BY <2>14, <2>15, <2>16 DEF KeyedOn
    <3>2. o \in VoicesState
      BY <2>15
    <3> DEFINE now == [o.voice EXCEPT ![v].release = FALSE, ![v].delay = 5]
    <3>3. [o EXCEPT !.voice[v].release = FALSE, !.voice[v].delay = 5] = [o EXCEPT !.voice = now]
      BY <3>2 DEF VoicesState
    <3>4. t = [[o EXCEPT !.voice[v].release = FALSE, !.voice[v].delay = 5] EXCEPT !.asked = @ \ {v}]
      BY <3>1
    <3> HIDE DEF now
    <3>5. t = [o EXCEPT !.voice = now, !.asked = @ \ {v}]
      BY <3>2, <3>3, <3>4 DEF VoicesState
    <3>6. t = [o EXCEPT !.voice = t.voice, !.asked = t.asked]
      BY <3>5, <3>2 DEF VoicesState
    <3>7. t.ended = s.ended /\ t.asked = s.asked \ {v} /\ t.key = s.key /\ t.even = s.even
          /\ t.pipe = p
      BY <2>15, <3>5 DEF VoicesState
    <3>8. t.voice = now
      BY <3>5, <3>2 DEF VoicesState
    <3>9. t.voice = [o.voice EXCEPT ![v].release = FALSE, ![v].delay = 5]
      BY <3>8 DEF now
    <3>10. /\ t.ended = s.ended /\ t.asked = s.asked \ {v} /\ t.key = s.key
          /\ t.even = s.even /\ t.pipe = p
          /\ t.voice = [o.voice EXCEPT ![v].release = FALSE, ![v].delay = 5]
          /\ t = [o EXCEPT !.voice = t.voice, !.asked = t.asked]
      BY <3>6, <3>7, <3>9
    <3>11. t.voice = [o.voice EXCEPT ![v] = y]
      BY <1>8, <2>15, <3>10 DEF VoicesState, y
    <3>12. t \in VoicesState
      BY <2>12, <2>15, <3>10, <3>11 DEF VoicesState
    <3>13. t.voice[v] = y /\ \A e \in Watched : e # v => t.voice[e] = s.voice[e]
      BY <1>8, <2>15, <3>11 DEF VoicesState
    <3>14. v \in s.asked
      BY <1>1, <2>16 DEF InPlace, KeysInPlace
    <3>15. InPlace(t, ql)
      <4>1. LatchesInPlace(t, ql) /\ EndsInPlace(t, ql)
        BY <1>1, <2>6, <3>10 DEF InPlace, LatchesInPlace, EndsInPlace, VoicePlaces
      <4>2. SamplesInPlace(t, ql)
        BY <1>1, <1>8, <2>13, <3>10, <3>13 DEF InPlace, SamplesInPlace, VoicePlaces
      <4>3. KeysInPlace(t, ql)
        BY <1>1, <2>16, <3>10 DEF InPlace, KeysInPlace, VoicePlaces
      <4> QED
        BY <4>1, <4>2, <4>3 DEF InPlace
    <3>16. Calm(s, t)
      <4>1. \A e \in Watched : e # v => ~(t.voice[e].delay > s.voice[e].delay)
        BY <1>1, <3>13 DEF VoicesState, VoiceType
      <4> QED
        BY <3>10, <3>14, <4>1 DEF Calm
    <3> QED
      BY <3>12, <3>15, <3>16 DEF Good
  <2>17. CASE ~keyed
    <3>1. t = o
      BY <2>14, <2>15, <2>17 DEF KeyedOn
    <3>2. InPlace(t, ql)
      <4>1. LatchesInPlace(t, ql) /\ EndsInPlace(t, ql)
        BY <1>1, <2>6, <2>15, <3>1 DEF InPlace, LatchesInPlace, EndsInPlace, VoicePlaces
      <4>2. SamplesInPlace(t, ql)
        BY <1>1, <1>8, <2>13, <2>15, <3>1 DEF InPlace, SamplesInPlace, VoicePlaces
      <4>3. KeysInPlace(t, ql)
        BY <1>1, <2>15, <2>17, <3>1 DEF InPlace, KeysInPlace, VoicePlaces
      <4> QED
        BY <4>1, <4>2, <4>3 DEF InPlace
    <3>3. Calm(s, t)
      <4>1. \A e \in Watched : e # v => ~(t.voice[e].delay > s.voice[e].delay)
        BY <1>1, <2>15, <3>1 DEF VoicesState, VoiceType
      <4>2. ~(t.voice[v].delay > s.voice[v].delay)
        <5>1. t.voice[v].delay = u.delay /\ u.delay <= w.delay /\ w = s.voice[v]
          BY <2>5, <2>10, <2>15, <3>1 DEF w
        <5>2. u.delay \in 0 .. 5 /\ w.delay \in 0 .. 5
          BY <2>1, <2>5 DEF VoiceType
        <5> QED
          BY <5>1, <5>2
      <4> QED
        BY <2>15, <3>1, <4>1, <4>2 DEF Calm
    <3> QED
      BY <2>15, <3>1, <3>2, <3>3 DEF Good
  <2> QED
    BY <2>16, <2>17
<1> QED
  BY <1>7, <1>8

LEMMA CalmTogether ==
  ASSUME NEW s \in VoicesState, NEW t \in VoicesState, NEW r \in VoicesState, Calm(s, t), Calm(t, r)
  PROVE  Calm(s, r)
<1>1. r.asked \subseteq s.asked
  BY DEF Calm
<1>2. ASSUME NEW v \in Watched, r.voice[v].delay > s.voice[v].delay
      PROVE  v \in s.asked
  <2>1. s.voice[v].delay \in 0 .. 5 /\ t.voice[v].delay \in 0 .. 5 /\ r.voice[v].delay \in 0 .. 5
    BY DEF VoicesState, VoiceType
  <2>2. r.voice[v].delay > t.voice[v].delay \/ t.voice[v].delay > s.voice[v].delay
    BY <1>2, <2>1
  <2> QED
    BY <2>2 DEF Calm
<1> QED
  BY <1>1, <1>2 DEF Calm

LEMMA PrepareMoves ==
  ASSUME NEW s, NEW pl \in VoicePlaces, Good(s, pl), NEW v \in Voices,
         NEW header \in {"body", "loop", "end"},
         pl.next = v, pl.chosen = v, pl.rendered = Other, ~pl.keying, v \in pl.due
  PROVE  LET t == PrepareVoice(s, v, header)
         IN  /\ Good(t, [pl EXCEPT !.brr = v, !.output = v, !.chosen = Other, !.rendered = v,
                                   !.due = @ \ {v}])
             /\ Calm(s, t)
<1> DEFINE r == CaptureBrrBytes(s, v, header)
           ql == [pl EXCEPT !.brr = v]
           t == RenderVoice(r, v)
<1>1. CapturePitchHigh(s, v) = s
  BY DEF CapturePitchHigh, InOrder, InPlace, LatchesInPlace, VoicesState, PipeType, Good
<1>2. PrepareVoice(s, v, header) = t
  BY <1>1 DEF PrepareVoice
<1>3. Good(r, ql) /\ Calm(s, r)
  BY BrrMoves
<1>4. /\ ql \in VoicePlaces /\ ql.next = v /\ ql.brr = v /\ ql.chosen = v /\ ql.rendered = Other
      /\ ~ql.keying /\ v \in ql.due
  BY DEF VoicePlaces, Holders, Voices, Other
<1>5. [ql EXCEPT !.output = v, !.chosen = Other, !.rendered = v, !.due = @ \ {v}]
        = [pl EXCEPT !.brr = v, !.output = v, !.chosen = Other, !.rendered = v, !.due = @ \ {v}]
  BY DEF VoicePlaces
<1> HIDE DEF r, ql
<1>6. Good(t, [ql EXCEPT !.output = v, !.chosen = Other, !.rendered = v, !.due = @ \ {v}])
      /\ Calm(r, t)
  BY <1>3, <1>4, RenderMoves
<1>7. s \in VoicesState /\ r \in VoicesState /\ t \in VoicesState
  BY <1>3, <1>6 DEF Good
<1> HIDE DEF t
<1> QED
  BY <1>2, <1>3, <1>5, <1>6, <1>7, CalmTogether

LEMMA LeftMoves ==
  ASSUME NEW s, NEW pl \in VoicePlaces, Good(s, pl), NEW v \in Voices, NEW fast \in BOOLEAN,
         pl.brr = v, pl.next = v, pl.output = v, pl.rendered = v
  PROVE  LET t == DecodeAndMixLeft(s, v, fast)
         IN  Good(t, [pl EXCEPT !.rendered = Other, !.looped = v]) /\ Calm(s, t)
<1> DEFINE t == DecodeAndMixLeft(s, v, fast)
           ql == [pl EXCEPT !.rendered = Other, !.looped = v]
           p0 == [s.pipe EXCEPT !.looped = {}]
           taken == [s EXCEPT !.pipe = p0]
<1> SUFFICES Good(t, ql) /\ Calm(s, t)
  OBVIOUS
<1>1. v \in Holders /\ s \in VoicesState /\ InPlace(s, pl) /\ Other \notin Watched /\ v # Other
  BY DspVoicesAssumption DEF Voices, Holders, Other, Good
<1>2. p0 \in PipeType
  BY <1>1 DEF VoicesState, PipeType
<1>3. taken \in VoicesState
  BY <1>1, <1>2 DEF VoicesState
<1>4. /\ taken.voice = s.voice /\ taken.ended = s.ended /\ taken.asked = s.asked
      /\ taken.key = s.key /\ taken.even = s.even /\ taken.pipe = p0
  BY <1>1 DEF VoicesState
<1>5. InOrder(s, {"brr", "next", "output", "pitch"}, v) = s
  BY <1>1 DEF InOrder, InPlace, LatchesInPlace, VoicesState, PipeType
<1>6. [InOrder(s, {"brr", "next", "output", "pitch"}, v) EXCEPT !.pipe.looped = {}] = taken
  BY <1>1, <1>5 DEF VoicesState
<1>7. ASSUME NEW r \in VoicesState, NEW loops, loops \subseteq {v},
             r.ended = s.ended, r.asked = s.asked, r.key = s.key, r.even = s.even,
             r.pipe = [s.pipe EXCEPT !.looped = loops],
             \A u \in Watched : r.voice[u].delay = s.voice[u].delay,
             \A u \in Watched : Begun(r.voice[u])
      PROVE  Good(r, ql) /\ Calm(s, r)
  <2>1. LatchesInPlace(r, ql)
    BY <1>1, <1>7 DEF InPlace, LatchesInPlace, VoicesState, PipeType, VoicePlaces
  <2>2. SamplesInPlace(r, ql)
    BY <1>1, <1>7 DEF InPlace, SamplesInPlace, VoicesState, PipeType, VoicePlaces
  <2>3. EndsInPlace(r, ql)
    BY <1>1, <1>7 DEF InPlace, EndsInPlace, VoicesState, PipeType, VoicePlaces
  <2>4. KeysInPlace(r, ql)
    BY <1>1, <1>7 DEF InPlace, KeysInPlace, VoicePlaces
  <2>5. Calm(s, r)
    BY <1>1, <1>7, NothingStarts
  <2> QED
    BY <1>7, <2>1, <2>2, <2>3, <2>4, <2>5 DEF InPlace, Good
<1> HIDE DEF taken
<1>8. CASE v \notin Watched
  <2>1. t = taken
    BY <1>6, <1>8 DEF DecodeAndMixLeft
  <2>2. \A u \in Watched : Begun(s.voice[u])
    BY <1>1, <1>8 DEF InPlace, SamplesInPlace
  <2> HIDE DEF t, ql
  <2> QED
    BY <1>3, <1>4, <1>7, <2>1, <2>2
<1>9. CASE v \in Watched
  <2> DEFINE w == s.voice[v]
             done == w.offset = 7
             end == done /\ s.pipe.header # "body"
             d == Decoded(taken, v)
             loops == IF w.advance /\ end THEN {v} ELSE {}
             p == [s.pipe EXCEPT !.looped = loops]
             off == IF ~w.advance THEN w.offset ELSE IF done THEN 1 ELSE w.offset + 2
             adv == fast /\ ~w.still
             x == [w EXCEPT !.offset = off]
             y == [x EXCEPT !.advance = adv]
  <2>1. w \in VoiceType /\ Ready(s.pipe, w)
    BY <1>1, <1>9 DEF InPlace, SamplesInPlace, VoicesState
  <2>2. w.advance /\ end => s.pipe.entry = "loop"
    BY <1>1, <2>1 DEF Ready, VoicesState, PipeType
  <2>3. off \in {1, 3, 5, 7} /\ (w.delay \in 1 .. 4 => off = 9 - 2 * w.delay)
    <3>1. w.offset \in {1, 3, 5, 7} /\ w.delay \in 0 .. 5
      BY <2>1 DEF VoiceType
    <3> QED
      BY <2>1, <3>1 DEF Ready
  <2>4. adv \in BOOLEAN
    BY <2>1 DEF VoiceType
  <2>5. p0.header = s.pipe.header /\ p0.entry = s.pipe.entry /\ p0.inOrder = s.pipe.inOrder
    BY <1>1 DEF VoicesState, PipeType
  <2>6. d = [taken EXCEPT !.pipe = p, !.voice = [s.voice EXCEPT ![v] = x]]
    <3>1. CASE ~w.advance
      <4>1. d = taken
        BY <1>4, <3>1 DEF Decoded
      <4>2. p = p0
        BY <3>1
      <4>3. x = w
        BY <2>1, <3>1 DEF VoiceType
      <4> HIDE DEF d, p, x, p0
      <4> QED
        BY <1>1, <1>3, <1>4, <1>9, <4>1, <4>2, <4>3 DEF VoicesState
    <3>2. CASE w.advance
      <4>1. d = [taken EXCEPT
                  !.voice[v].offset = IF done THEN 1 ELSE @ + 2,
                  !.pipe.looped = IF end THEN {v} ELSE {},
                  !.pipe.inOrder = @ /\ (end => s.pipe.entry = "loop")]
        BY <1>4, <2>5, <3>2 DEF Decoded
      <4>2. d = [taken EXCEPT !.pipe = d.pipe, !.voice = d.voice]
        BY <1>3, <4>1 DEF VoicesState
      <4>3. d.voice = [s.voice EXCEPT ![v].offset = IF done THEN 1 ELSE @ + 2]
        BY <1>3, <1>4, <4>1 DEF VoicesState
      <4>4. d.voice = [s.voice EXCEPT ![v] = x]
        BY <3>2, <4>3
      <4>5. d.pipe = [p0 EXCEPT !.looped = IF end THEN {v} ELSE {},
                                !.inOrder = @ /\ (end => s.pipe.entry = "loop")]
        <5> HIDE DEF end, p0
        <5>1. d.pipe = [taken.pipe EXCEPT !.looped = IF end THEN {v} ELSE {},
                                          !.inOrder = @ /\ (end => s.pipe.entry = "loop")]
          <6> HIDE DEF d
          <6> QED
            BY <1>3, <4>1 DEF VoicesState
        <5> QED
          BY <1>4, <5>1
      <4>6. s.pipe.inOrder /\ (end => s.pipe.entry = "loop")
        BY <1>1, <2>2, <3>2 DEF InPlace, LatchesInPlace
      <4>7. loops = IF end THEN {v} ELSE {}
        BY <3>2
      <4> HIDE DEF end, loops, d
      <4>8. d.pipe = p
        BY <1>1, <2>5, <4>5, <4>6, <4>7 DEF VoicesState, PipeType
      <4> QED
        BY <4>2, <4>4, <4>8
    <3> QED
      BY <3>1, <3>2
  <2>7. t = [d EXCEPT !.voice[v].advance = fast /\ ~s.voice[v].still]
    BY <1>6, <1>9 DEF DecodeAndMixLeft
  <2>8. loops \subseteq {v} /\ loops \subseteq Watched
    BY <1>9
  <2> HIDE DEF d, loops, off, done
  <2>9. p \in PipeType
    BY <1>1, <2>8 DEF VoicesState, PipeType
  <2>10. x \in VoiceType
    BY <2>1, <2>3 DEF VoiceType
  <2>11. x.delay = w.delay /\ x.offset = off
    BY <2>1 DEF VoiceType
  <2> HIDE DEF p, x, adv
  <2>12. y \in VoiceType /\ y.delay = w.delay /\ y.offset = off
    BY <2>4, <2>10, <2>11 DEF VoiceType
  <2>13. t = [taken EXCEPT !.pipe = p, !.voice = [s.voice EXCEPT ![v] = y]]
    <3>1. t = [d EXCEPT !.voice[v].advance = adv]
      BY <2>7 DEF adv
    <3> HIDE DEF t
    <3> QED
      BY <1>1, <1>3, <1>9, <2>6, <3>1 DEF VoicesState
  <2> HIDE DEF t, y
  <2>14. t \in VoicesState
    BY <1>1, <1>3, <2>9, <2>12, <2>13 DEF VoicesState
  <2>15. /\ t.ended = s.ended /\ t.asked = s.asked /\ t.key = s.key /\ t.even = s.even
         /\ t.pipe = [s.pipe EXCEPT !.looped = loops]
         /\ t.voice = [s.voice EXCEPT ![v] = y]
    BY <1>3, <1>4, <2>13 DEF VoicesState, p
  <2>16. \A u \in Watched : t.voice[u] = IF u = v THEN y ELSE s.voice[u]
    BY <1>1, <2>15 DEF VoicesState
  <2>17. \A u \in Watched : u # v => Begun(s.voice[u])
    BY <1>1 DEF InPlace, SamplesInPlace
  <2>18. \A u \in Watched : t.voice[u].delay = s.voice[u].delay /\ Begun(t.voice[u])
    BY <2>3, <2>12, <2>16, <2>17 DEF Begun
  <2> HIDE DEF ql
  <2> QED
    BY <1>7, <2>8, <2>14, <2>15, <2>18
<1> QED
  BY <1>8, <1>9

LEMMA RightMoves ==
  ASSUME NEW s, NEW pl \in VoicePlaces, Good(s, pl), NEW v \in Voices,
         pl.output = v, pl.looped = v, pl.pending = Other
  PROVE  LET t == MixRightAndCaptureEnd(s, v)
         IN  Good(t, [pl EXCEPT !.pending = v, !.looped = Other]) /\ Calm(s, t)
<1> DEFINE t == MixRightAndCaptureEnd(s, v)
           ql == [pl EXCEPT !.pending = v, !.looped = Other]
           begins == {w \in {v} \cap Watched : s.voice[w].delay = 5}
           ends == (s.ended \cup s.pipe.looped) \ begins
<1> SUFFICES Good(t, ql) /\ Calm(s, t)
  OBVIOUS
<1>1. v \in Holders /\ s \in VoicesState /\ InPlace(s, pl) /\ Other \notin Watched /\ v # Other
  BY DspVoicesAssumption DEF Voices, Holders, Other, Good
<1>2. InOrder(s, {"output"}, v) = s
  BY <1>1 DEF InOrder, InPlace, LatchesInPlace, VoicesState, PipeType
<1>3. s.pipe.endx \subseteq Watched /\ s.ended \subseteq Watched /\ s.pipe.looped \subseteq Watched
  BY <1>1 DEF VoicesState, PipeType
<1>4. s.pipe.endx = s.ended /\ s.pipe.looped \subseteq {v}
  BY <1>1, <1>3 DEF InPlace, EndsInPlace
<1>5. EndAfter(s, v) = ends
  BY <1>4 DEF EndAfter
<1>6. ends \subseteq Watched /\ ends \ {v} = s.ended \ {v}
  BY <1>3, <1>4
<1>7. t = [s EXCEPT !.pipe = [s.pipe EXCEPT !.endxBuf = ends], !.ended = ends]
  BY <1>1, <1>2, <1>5 DEF MixRightAndCaptureEnd, VoicesState
<1> HIDE DEF ends
<1>8. [s.pipe EXCEPT !.endxBuf = ends] \in PipeType
  BY <1>1, <1>6 DEF VoicesState, PipeType
<1>9. t \in VoicesState
  BY <1>1, <1>6, <1>7, <1>8 DEF VoicesState
<1>10. /\ t.voice = s.voice /\ t.ended = ends /\ t.asked = s.asked /\ t.key = s.key
       /\ t.even = s.even /\ t.pipe = [s.pipe EXCEPT !.endxBuf = ends]
  BY <1>1, <1>7 DEF VoicesState
<1> HIDE DEF t
<1>11. InPlace(t, ql)
  <2>1. LatchesInPlace(t, ql)
    BY <1>1, <1>10 DEF InPlace, LatchesInPlace, VoicesState, PipeType, VoicePlaces
  <2>2. SamplesInPlace(t, ql)
    BY <1>1, <1>10 DEF InPlace, SamplesInPlace, Ready, VoicesState, PipeType, VoicePlaces
  <2>3. EndsInPlace(t, ql)
    BY <1>1, <1>4, <1>6, <1>10 DEF InPlace, EndsInPlace, VoicesState, PipeType, VoicePlaces
  <2>4. KeysInPlace(t, ql)
    BY <1>1, <1>10 DEF InPlace, KeysInPlace, VoicePlaces
  <2> QED
    BY <2>1, <2>2, <2>3, <2>4 DEF InPlace
<1> QED
  BY <1>1, <1>9, <1>10, <1>11, NothingStarts DEF Good

LEMMA LatchesMove ==
  ASSUME NEW s, NEW pl \in VoicePlaces, Good(s, pl),
         dspPhase = 29 => pl.due = {} /\ ~pl.keying, dspPhase = 30 => pl.keying
  PROVE  LET t == ClockGlobalLatches(s)
         IN  /\ Good(t, [pl EXCEPT !.keying = IF dspPhase = 29 THEN TRUE
                                              ELSE IF dspPhase = 30 THEN FALSE ELSE @,
                                   !.due = IF dspPhase = 30 THEN Voices ELSE @])
             /\ Calm(s, t)
<1> DEFINE t == ClockGlobalLatches(s)
           ql == [pl EXCEPT !.keying = IF dspPhase = 29 THEN TRUE
                                       ELSE IF dspPhase = 30 THEN FALSE ELSE @,
                            !.due = IF dspPhase = 30 THEN Voices ELSE @]
<1> SUFFICES Good(t, ql) /\ Calm(s, t)
  OBVIOUS
<1>1. s \in VoicesState /\ InPlace(s, pl)
  BY DEF Good
<1>2. /\ ql.source = pl.source /\ ql.directory = pl.directory /\ ql.next = pl.next
      /\ ql.brr = pl.brr
      /\ ql.output = pl.output /\ ql.outx = pl.outx /\ ql.envx = pl.envx /\ ql.chosen = pl.chosen
      /\ ql.rendered = pl.rendered /\ ql.looped = pl.looped /\ ql.pending = pl.pending
      /\ ql.keying = (IF dspPhase = 29 THEN TRUE ELSE IF dspPhase = 30 THEN FALSE ELSE pl.keying)
      /\ ql.due = IF dspPhase = 30 THEN Voices ELSE pl.due
  BY DEF VoicePlaces
<1> HIDE DEF ql
<1>3. ASSUME NEW r \in VoicesState, r.pipe = s.pipe, r.voice = s.voice, r.ended = s.ended,
             r.asked = s.asked, KeysInPlace(r, ql)
      PROVE  Good(r, ql) /\ Calm(s, r)
  BY <1>1, <1>2, <1>3, NothingStarts
     DEF Good, InPlace, LatchesInPlace, SamplesInPlace, EndsInPlace
<1>4. CASE dspPhase = 29
  <2> DEFINE new == IF s.even THEN s.key.new ELSE s.key.new \ s.key.kon
  <2>1. t = [s EXCEPT !.even = ~@, !.key = [s.key EXCEPT !.new = new]]
    BY <1>1, <1>4 DEF ClockGlobalLatches, VoicesState, KeyType
  <2>2. new \subseteq Watched /\ new \ s.key.kon \subseteq s.asked
        /\ (~s.even => new \subseteq s.asked)
    BY <1>1 DEF InPlace, KeysInPlace, VoicesState, KeyType
  <2> HIDE DEF new, t
  <2>3. [s.key EXCEPT !.new = new] \in KeyType
    BY <1>1, <2>2 DEF VoicesState, KeyType
  <2>4. t \in VoicesState
    BY <1>1, <2>1, <2>3 DEF VoicesState
  <2>5. /\ t.pipe = s.pipe /\ t.voice = s.voice /\ t.ended = s.ended /\ t.asked = s.asked
        /\ t.even = ~s.even /\ t.key.new = new /\ t.key.kon = s.key.kon
    BY <1>1, <2>1 DEF VoicesState, KeyType
  <2>6. KeysInPlace(t, ql)
    BY <1>2, <1>4, <2>2, <2>5 DEF KeysInPlace
  <2> QED
    BY <1>3, <2>4, <2>5, <2>6
<1>5. CASE dspPhase = 30 /\ s.even
  <2> DEFINE keys2 == [s.key EXCEPT !.kon = s.key.new, !.keyOff = s.key.koff]
  <2>1. t = [s EXCEPT !.key = keys2]
    BY <1>1, <1>5 DEF ClockGlobalLatches, VoicesState, KeyType
  <2>2. keys2 \in KeyType /\ keys2.new = s.key.new /\ keys2.kon = s.key.new
    BY <1>1 DEF VoicesState, KeyType
  <2> HIDE DEF keys2, t
  <2>3. t \in VoicesState
    BY <1>1, <2>1, <2>2 DEF VoicesState
  <2>4. /\ t.pipe = s.pipe /\ t.voice = s.voice /\ t.ended = s.ended /\ t.asked = s.asked
        /\ t.even = s.even /\ t.key = keys2
    BY <1>1, <2>1 DEF VoicesState
  <2>5. s.key.new \subseteq s.asked
    BY <1>1, <1>5 DEF InPlace, KeysInPlace
  <2>6. KeysInPlace(t, ql)
    BY <1>2, <1>5, <2>2, <2>4, <2>5 DEF KeysInPlace
  <2> QED
    BY <1>3, <2>3, <2>4, <2>6
<1>6. CASE dspPhase # 29 /\ ~(dspPhase = 30 /\ s.even)
  <2>1. t = s
    BY <1>6 DEF ClockGlobalLatches
  <2> HIDE DEF t
  <2>2. KeysInPlace(t, ql)
    BY <1>1, <1>2, <1>6, <2>1 DEF InPlace, KeysInPlace
  <2> QED
    BY <1>1, <1>3, <2>1, <2>2
<1> QED
  BY <1>4, <1>5, <1>6

(***************************************************************************)
(* Any operation.                                                          *)
(***************************************************************************)
OpNames ==
  {"publishEnd", "directory", "left", "publishOutput", "right", "registers", "publishEnvelope",
   "captureOutput", "prepare", "pitchHigh", "brr", "render", "latches", "rest"}

Operation == [op : OpNames, voice : Voices]

\* Where it is to find the others,
Needs(pl, o) ==
  LET v == o.voice
  IN  /\ o.op = "publishEnd" => pl.pending = v
      /\ o.op = "left" => pl.brr = v /\ pl.next = v /\ pl.output = v /\ pl.rendered = v
      /\ o.op = "publishOutput" => pl.outx = v
      /\ o.op = "right" => pl.output = v /\ pl.looped = v /\ pl.pending = Other
      /\ o.op = "registers" => pl.directory = v /\ pl.rendered = Other
      /\ o.op = "publishEnvelope" => pl.envx = v
      /\ o.op \in {"prepare", "render"} =>
           pl.next = v /\ pl.chosen = v /\ pl.rendered = Other /\ ~pl.keying /\ v \in pl.due
      /\ o.op = "pitchHigh" => pl.next = v
      /\ o.op = "brr" => pl.rendered = Other
      /\ o.op = "render" => pl.brr = v
      /\ o.op = "latches" => (dspPhase = 29 => pl.due = {} /\ ~pl.keying)
           /\ (dspPhase = 30 => pl.keying)

\* and where it leaves them.
Shifted(pl, o) ==
  LET v == o.voice
  IN  IF o.op = "publishEnd" THEN [pl EXCEPT !.pending = Other, !.envx = v]
      ELSE IF o.op = "directory" THEN [pl EXCEPT !.directory = pl.source, !.source = v]
      ELSE IF o.op = "left" THEN [pl EXCEPT !.rendered = Other, !.looped = v]
      ELSE IF o.op = "right" THEN [pl EXCEPT !.pending = v, !.looped = Other]
      ELSE IF o.op = "registers" THEN [pl EXCEPT !.next = v, !.chosen = v]
      ELSE IF o.op = "captureOutput" THEN [pl EXCEPT !.outx = pl.output]
      ELSE IF o.op = "prepare" THEN
        [pl EXCEPT !.brr = v, !.output = v, !.chosen = Other, !.rendered = v, !.due = @ \ {v}]
      ELSE IF o.op = "brr" THEN [pl EXCEPT !.brr = v]
      ELSE IF o.op = "render" THEN
        [pl EXCEPT !.output = v, !.chosen = Other, !.rendered = v, !.due = @ \ {v}]
      ELSE IF o.op = "latches" THEN
        [pl EXCEPT !.keying = IF dspPhase = 29 THEN TRUE ELSE IF dspPhase = 30 THEN FALSE ELSE @,
                   !.due = IF dspPhase = 30 THEN Voices ELSE @]
      ELSE pl

Headed == {"body", "loop", "end"}

LEMMA ShiftedPlaces ==
  ASSUME NEW pl \in VoicePlaces, NEW o \in Operation
  PROVE  Shifted(pl, o) \in VoicePlaces
<1> DEFINE v == o.voice
<1>1. v \in Holders /\ Other \in Holders /\ pl.source \in Holders /\ pl.output \in Holders
      /\ pl.due \ {v} \subseteq Voices
  BY DEF VoicePlaces, Operation, Holders, Voices, Other
<1> HIDE DEF v
<1>2. /\ [pl EXCEPT !.pending = Other, !.envx = v] \in VoicePlaces
      /\ [pl EXCEPT !.directory = pl.source, !.source = v] \in VoicePlaces
      /\ [pl EXCEPT !.rendered = Other, !.looped = v] \in VoicePlaces
  BY <1>1 DEF VoicePlaces
<1>3. /\ [pl EXCEPT !.pending = v, !.looped = Other] \in VoicePlaces
      /\ [pl EXCEPT !.next = v, !.chosen = v] \in VoicePlaces
      /\ [pl EXCEPT !.outx = pl.output] \in VoicePlaces
      /\ [pl EXCEPT !.brr = v] \in VoicePlaces
  BY <1>1 DEF VoicePlaces
<1>4. [pl EXCEPT !.brr = v, !.output = v, !.chosen = Other, !.rendered = v, !.due = @ \ {v}]
        \in VoicePlaces
  BY <1>1 DEF VoicePlaces
<1>5. [pl EXCEPT !.output = v, !.chosen = Other, !.rendered = v, !.due = @ \ {v}]
        \in VoicePlaces
  BY <1>1 DEF VoicePlaces
<1>6. [pl EXCEPT !.keying = IF dspPhase = 29 THEN TRUE ELSE IF dspPhase = 30 THEN FALSE ELSE @,
                 !.due = IF dspPhase = 30 THEN Voices ELSE @] \in VoicePlaces
  BY DEF VoicePlaces
<1> QED
  BY <1>2, <1>3, <1>4, <1>5, <1>6 DEF Shifted, v

LEMMA OperationMoves ==
  ASSUME NEW s, NEW pl \in VoicePlaces, Good(s, pl), NEW o \in Operation, Needs(pl, o),
         NEW header \in Headed, NEW fast \in BOOLEAN
  PROVE  LET t == Do(s, o, header, fast)
         IN  Good(t, Shifted(pl, o)) /\ Calm(s, t) /\ Shifted(pl, o) \in VoicePlaces
<1> DEFINE v == o.voice
           t == Do(s, o, header, fast)
           ql == Shifted(pl, o)
<1> SUFFICES Good(t, ql) /\ Calm(s, t) /\ ql \in VoicePlaces
  OBVIOUS
<1>1. v \in Voices /\ o.op \in OpNames /\ s \in VoicesState
  BY DEF Good, Operation
<1>2. ql \in VoicePlaces
  BY ShiftedPlaces
<1>3. Calm(s, s)
  BY <1>1, NothingStarts
<1> HIDE DEF v
<1>4. CASE o.op = "publishEnd"
  <2>1. t = PublishEndAndCaptureEnv(s, v) /\ ql = [pl EXCEPT !.pending = Other, !.envx = v]
        /\ pl.pending = v
    BY <1>4 DEF Do, Shifted, Needs, v
  <2> HIDE DEF t, ql
  <2> QED
    BY <1>1, <1>2, <2>1, EndMoves
<1>5. CASE o.op = "directory"
  <2>1. t = CaptureDirectory(s, v) /\ ql = [pl EXCEPT !.directory = pl.source, !.source = v]
    BY <1>5 DEF Do, Shifted, v
  <2> HIDE DEF t, ql
  <2> QED
    BY <1>1, <1>2, <2>1, DirectoryMoves
<1>6. CASE o.op = "left"
  <2>1. /\ t = DecodeAndMixLeft(s, v, fast) /\ ql = [pl EXCEPT !.rendered = Other, !.looped = v]
        /\ pl.brr = v /\ pl.next = v /\ pl.output = v /\ pl.rendered = v
    BY <1>6 DEF Do, Shifted, Needs, v
  <2> HIDE DEF t, ql
  <2> QED
    BY <1>1, <1>2, <2>1, LeftMoves
<1>7. CASE o.op \in {"publishOutput", "publishEnvelope"}
  <2>1. t = s
    BY <1>1, <1>7, PublishMoves DEF Do, Needs, v
  <2>2. ql = pl
    BY <1>7 DEF Shifted
  <2> QED
    BY <1>2, <1>3, <2>1, <2>2
<1>8. CASE o.op = "right"
  <2>1. /\ t = MixRightAndCaptureEnd(s, v) /\ ql = [pl EXCEPT !.pending = v, !.looped = Other]
        /\ pl.output = v /\ pl.looped = v /\ pl.pending = Other
    BY <1>8 DEF Do, Shifted, Needs, v
  <2> HIDE DEF t, ql
  <2> QED
    BY <1>1, <1>2, <2>1, RightMoves
<1>9. CASE o.op = "registers"
  <2>1. /\ t = CaptureVoiceRegisters(s, v) /\ ql = [pl EXCEPT !.next = v, !.chosen = v]
        /\ pl.directory = v /\ pl.rendered = Other
    BY <1>9 DEF Do, Shifted, Needs, v
  <2> HIDE DEF t, ql
  <2> QED
    BY <1>1, <1>2, <2>1, RegistersMove
<1>10. CASE o.op = "captureOutput"
  <2>1. t = CaptureOutput(s) /\ ql = [pl EXCEPT !.outx = pl.output]
    BY <1>10 DEF Do, Shifted
  <2> HIDE DEF t, ql
  <2> QED
    BY <1>2, <2>1, OutputMoves
<1>11. CASE o.op = "prepare"
  <2>1. /\ t = PrepareVoice(s, v, header)
        /\ ql = [pl EXCEPT !.brr = v, !.output = v, !.chosen = Other, !.rendered = v,
                            !.due = @ \ {v}]
        /\ pl.next = v /\ pl.chosen = v /\ pl.rendered = Other /\ ~pl.keying /\ v \in pl.due
    BY <1>11 DEF Do, Shifted, Needs, v
  <2> HIDE DEF t, ql
  <2> QED
    BY <1>1, <1>2, <2>1, PrepareMoves DEF Headed
<1>12. CASE o.op = "pitchHigh"
  <2>1. t = CapturePitchHigh(s, v) /\ ql = pl /\ pl.next = v
    BY <1>12 DEF Do, Shifted, Needs, v
  <2> HIDE DEF t, ql
  <2> QED
    BY <1>1, <2>1, PitchHighMoves
<1>13. CASE o.op = "brr"
  <2>1. t = CaptureBrrBytes(s, v, header) /\ ql = [pl EXCEPT !.brr = v] /\ pl.rendered = Other
    BY <1>13 DEF Do, Shifted, Needs, v
  <2> HIDE DEF t, ql
  <2> QED
    BY <1>1, <1>2, <2>1, BrrMoves DEF Headed
<1>14. CASE o.op = "render"
  <2>1. /\ t = RenderVoice(s, v)
        /\ ql = [pl EXCEPT !.output = v, !.chosen = Other, !.rendered = v, !.due = @ \ {v}]
        /\ pl.next = v /\ pl.brr = v /\ pl.chosen = v /\ pl.rendered = Other /\ ~pl.keying
        /\ v \in pl.due
    BY <1>14 DEF Do, Shifted, Needs, v
  <2> HIDE DEF t, ql
  <2> QED
    BY <1>1, <1>2, <2>1, RenderMoves
<1>15. CASE o.op = "latches"
  <2>1. /\ t = ClockGlobalLatches(s)
        /\ ql = [pl EXCEPT !.keying = IF dspPhase = 29 THEN TRUE
                                      ELSE IF dspPhase = 30 THEN FALSE ELSE @,
                           !.due = IF dspPhase = 30 THEN Voices ELSE @]
        /\ dspPhase = 29 => pl.due = {} /\ ~pl.keying
        /\ dspPhase = 30 => pl.keying
    BY <1>15 DEF Do, Shifted, Needs
  <2> HIDE DEF t, ql
  <2> QED
    BY <1>2, <2>1, LatchesMove
<1>16. CASE o.op = "rest"
  <2>1. t = s /\ ql = pl
    BY <1>16 DEF Do, Shifted
  <2> QED
    BY <1>2, <1>3, <2>1
<1> QED
  BY <1>1, <1>4, <1>5, <1>6, <1>7, <1>8, <1>9, <1>10, <1>11, <1>12, <1>13, <1>14, <1>15,
     <1>16 DEF OpNames

(***************************************************************************)
(* The clocks.                                                             *)
(***************************************************************************)
\* The operations are in place, one after the other, and lead from one place to another.
Leads(ops, a, n) ==
  LET b == Shifted(a, ops[1])
      c == Shifted(b, ops[2])
  IN  /\ Needs(a, ops[1]) /\ Needs(b, ops[2]) /\ Needs(c, ops[3])
      /\ Shifted(c, ops[3]) = n
      /\ \A i \in 1 .. 3 : ops[i] \in Operation

\* ql is pl moved, field by field.
ShiftedTo(pl, o, ql) ==
  LET v == o.voice
  IN  /\ ql.source = IF o.op = "directory" THEN v ELSE pl.source
      /\ ql.directory = IF o.op = "directory" THEN pl.source ELSE pl.directory
      /\ ql.next = IF o.op = "registers" THEN v ELSE pl.next
      /\ ql.brr = IF o.op \in {"prepare", "brr"} THEN v ELSE pl.brr
      /\ ql.output = IF o.op \in {"prepare", "render"} THEN v ELSE pl.output
      /\ ql.outx = IF o.op = "captureOutput" THEN pl.output ELSE pl.outx
      /\ ql.envx = IF o.op = "publishEnd" THEN v ELSE pl.envx
      /\ ql.chosen = IF o.op = "registers" THEN v
                     ELSE IF o.op \in {"prepare", "render"} THEN Other ELSE pl.chosen
      /\ ql.rendered = IF o.op \in {"prepare", "render"} THEN v
                       ELSE IF o.op = "left" THEN Other ELSE pl.rendered
      /\ ql.looped = IF o.op = "left" THEN v
                                ELSE IF o.op = "right" THEN Other ELSE pl.looped
      /\ ql.pending = IF o.op = "right" THEN v
                      ELSE IF o.op = "publishEnd" THEN Other ELSE pl.pending
      /\ ql.due = IF o.op \in {"prepare", "render"} THEN pl.due \ {v}
                  ELSE IF o.op = "latches" /\ dspPhase = 30 THEN Voices ELSE pl.due
      /\ ql.keying = IF o.op = "latches" /\ dspPhase = 29 THEN TRUE
                     ELSE IF o.op = "latches" /\ dspPhase = 30 THEN FALSE ELSE pl.keying

LEMMA ShiftedFields ==
  ASSUME NEW pl \in VoicePlaces, NEW o \in Operation
  PROVE  ShiftedTo(pl, o, Shifted(pl, o))
<1> DEFINE v == o.voice
<1> SUFFICES LET ql == Shifted(pl, o)
             IN  /\ ql.source = IF o.op = "directory" THEN v ELSE pl.source
                 /\ ql.directory = IF o.op = "directory" THEN pl.source ELSE pl.directory
                 /\ ql.next = IF o.op = "registers" THEN v ELSE pl.next
                 /\ ql.brr = IF o.op \in {"prepare", "brr"} THEN v ELSE pl.brr
                 /\ ql.output = IF o.op \in {"prepare", "render"} THEN v ELSE pl.output
                 /\ ql.outx = IF o.op = "captureOutput" THEN pl.output ELSE pl.outx
                 /\ ql.envx = IF o.op = "publishEnd" THEN v ELSE pl.envx
                 /\ ql.chosen = IF o.op = "registers" THEN v
                                ELSE IF o.op \in {"prepare", "render"} THEN Other ELSE pl.chosen
                 /\ ql.rendered = IF o.op \in {"prepare", "render"} THEN v
                                  ELSE IF o.op = "left" THEN Other ELSE pl.rendered
                 /\ ql.looped = IF o.op = "left" THEN v
                                ELSE IF o.op = "right" THEN Other ELSE pl.looped
                 /\ ql.pending = IF o.op = "right" THEN v
                                 ELSE IF o.op = "publishEnd" THEN Other ELSE pl.pending
                 /\ ql.due = IF o.op \in {"prepare", "render"} THEN pl.due \ {v}
                             ELSE IF o.op = "latches" /\ dspPhase = 30 THEN Voices ELSE pl.due
                 /\ ql.keying = IF o.op = "latches" /\ dspPhase = 29 THEN TRUE
                                ELSE IF o.op = "latches" /\ dspPhase = 30 THEN FALSE ELSE pl.keying
  BY DEF ShiftedTo
<1> HIDE DEF v
<1>1. CASE o.op \in {"publishEnd", "directory", "left", "right"}
  BY <1>1 DEF Shifted, VoicePlaces, v
<1>2. CASE o.op \in {"registers", "captureOutput", "prepare", "brr"}
  BY <1>2 DEF Shifted, VoicePlaces, v
<1>3. CASE o.op \in {"render", "latches"}
  BY <1>3 DEF Shifted, VoicePlaces, v
<1>4. CASE o.op \in {"publishOutput", "publishEnvelope", "pitchHigh", "rest"}
  BY <1>4 DEF Shifted, VoicePlaces, v
<1> QED
  BY <1>1, <1>2, <1>3, <1>4 DEF OpNames, Operation

LEMMA PlacesKnown ==
  ASSUME NEW p \in 0 .. 31
  PROVE  PlaceAt(p) \in VoicePlaces
BY DEF PlaceAt, Other, VoicePlaces, Holders, Voices

LEMMA PlacesEqual ==
  ASSUME NEW a \in VoicePlaces, NEW b \in VoicePlaces,
         a.source = b.source, a.directory = b.directory, a.next = b.next, a.brr = b.brr,
         a.output = b.output, a.outx = b.outx, a.envx = b.envx, a.chosen = b.chosen,
         a.rendered = b.rendered, a.looped = b.looped, a.pending = b.pending, a.due = b.due,
         a.keying = b.keying
  PROVE  a = b
BY DEF VoicePlaces

LEMMA FirstPlaces ==
  ASSUME NEW v \in 0 .. 6
  PROVE  LET a == PlaceAt(3 * v + 2)
         IN  /\ a.source = (v + 2) % 8 /\ a.directory = v + 1 /\ a.next = v + 1 /\ a.brr = v + 1
             /\ a.output = v + 1 /\ a.outx = v /\ a.envx = (IF v = 0 THEN 7 ELSE v - 1)
             /\ a.chosen = Other
             /\ a.rendered = v + 1 /\ a.looped = Other /\ a.pending = v /\ ~a.keying
             /\ a.due = {u \in 1 .. 7 : u >= v + 2}
<1>1. LET a == PlaceAt(3 * v + 2) IN a.source = (v + 2) % 8 /\ a.directory = v + 1
      /\ a.next = v + 1 /\ a.brr = v + 1
  BY DEF PlaceAt, Other
<1>2. LET a == PlaceAt(3 * v + 2) IN a.output = v + 1 /\ a.outx = v
      /\ a.envx = (IF v = 0 THEN 7 ELSE v - 1) /\ a.chosen = Other
  BY DEF PlaceAt, Other
<1>3. LET a == PlaceAt(3 * v + 2) IN a.rendered = v + 1 /\ a.looped = Other /\ a.pending = v
  BY DEF PlaceAt, Other
<1>4. ~PlaceAt(3 * v + 2).keying
  <2>1. 3 * v + 2 # 30
    OBVIOUS
  <2> QED
    BY <2>1 DEF PlaceAt
<1>5. PlaceAt(3 * v + 2).due = {u \in 1 .. 7 : u >= v + 2}
  <2>1. PlaceAt(3 * v + 2).due = {u \in 1 .. 7 : 3 * v + 2 <= 3 * u - 2}
    BY DEF PlaceAt
  <2>2. \A u \in 1 .. 7 : 3 * v + 2 <= 3 * u - 2 <=> u >= v + 2
    OBVIOUS
  <2> QED
    BY <2>1, <2>2
<1> QED
  BY <1>1, <1>2, <1>3, <1>5, <1>4

LEMMA SecondPlaces ==
  ASSUME NEW v \in 0 .. 6
  PROVE  LET a == PlaceAt(3 * v + 3)
         IN  /\ a.source = (v + 3) % 8 /\ a.directory = (v + 2) % 8 /\ a.next = v + 1
             /\ a.brr = v + 1
             /\ a.output = v + 1 /\ a.outx = v /\ a.envx = v /\ a.chosen = Other
             /\ a.rendered = Other /\ a.looped = v + 1 /\ a.pending = Other /\ ~a.keying
             /\ a.due = {u \in 1 .. 7 : u >= v + 2}
<1>1. LET a == PlaceAt(3 * v + 3) IN a.source = (v + 3) % 8 /\ a.directory = (v + 2) % 8
      /\ a.next = v + 1 /\ a.brr = v + 1
  BY DEF PlaceAt, Other
<1>2. LET a == PlaceAt(3 * v + 3) IN a.output = v + 1 /\ a.outx = v /\ a.envx = v
      /\ a.chosen = Other
  BY DEF PlaceAt, Other
<1>3. LET a == PlaceAt(3 * v + 3) IN a.rendered = Other /\ a.looped = v + 1 /\ a.pending = Other
  BY DEF PlaceAt, Other
<1>4. ~PlaceAt(3 * v + 3).keying
  <2>1. 3 * v + 3 # 30
    OBVIOUS
  <2> QED
    BY <2>1 DEF PlaceAt
<1>5. PlaceAt(3 * v + 3).due = {u \in 1 .. 7 : u >= v + 2}
  <2>1. PlaceAt(3 * v + 3).due = {u \in 1 .. 7 : 3 * v + 3 <= 3 * u - 2}
    BY DEF PlaceAt
  <2>2. \A u \in 1 .. 7 : 3 * v + 3 <= 3 * u - 2 <=> u >= v + 2
    OBVIOUS
  <2> QED
    BY <2>1, <2>2
<1> QED
  BY <1>1, <1>2, <1>3, <1>5, <1>4

LEMMA ThirdPlaces ==
  ASSUME NEW v \in 0 .. 6
  PROVE  LET a == PlaceAt(3 * v + 4)
         IN  /\ a.source = (v + 3) % 8 /\ a.directory = (v + 2) % 8 /\ a.next = (v + 2) % 8
             /\ a.brr = v + 1
             /\ a.output = v + 1 /\ a.outx = v /\ a.envx = v /\ a.chosen = (v + 2) % 8
             /\ a.rendered = Other /\ a.looped = Other /\ a.pending = v + 1 /\ ~a.keying
             /\ a.due = {u \in 1 .. 7 : u >= v + 2}
<1>1. LET a == PlaceAt(3 * v + 4) IN a.source = (v + 3) % 8 /\ a.directory = (v + 2) % 8
      /\ a.next = (v + 2) % 8 /\ a.brr = v + 1
  BY DEF PlaceAt, Other
<1>2. LET a == PlaceAt(3 * v + 4) IN a.output = v + 1 /\ a.outx = v /\ a.envx = v
      /\ a.chosen = (v + 2) % 8
  BY DEF PlaceAt, Other
<1>3. LET a == PlaceAt(3 * v + 4) IN a.rendered = Other /\ a.looped = Other /\ a.pending = v + 1
  BY DEF PlaceAt, Other
<1>4. ~PlaceAt(3 * v + 4).keying
  <2>1. 3 * v + 4 # 30
    OBVIOUS
  <2> QED
    BY <2>1 DEF PlaceAt
<1>5. PlaceAt(3 * v + 4).due = {u \in 1 .. 7 : u >= v + 2}
  <2>1. PlaceAt(3 * v + 4).due = {u \in 1 .. 7 : 3 * v + 4 <= 3 * u - 2}
    BY DEF PlaceAt
  <2>2. \A u \in 1 .. 7 : 3 * v + 4 <= 3 * u - 2 <=> u >= v + 2
    OBVIOUS
  <2> QED
    BY <2>1, <2>2
<1> QED
  BY <1>1, <1>2, <1>3, <1>5, <1>4

\* Two places are the same, field by field.
Alike(d, n) ==
  /\ d.source = n.source /\ d.directory = n.directory /\ d.next = n.next /\ d.brr = n.brr
  /\ d.output = n.output /\ d.outx = n.outx /\ d.envx = n.envx /\ d.chosen = n.chosen
  /\ d.rendered = n.rendered /\ d.looped = n.looped /\ d.pending = n.pending
  /\ d.due = n.due /\ d.keying = n.keying

LEMMA Moves ==
  ASSUME NEW a \in VoicePlaces, NEW n \in VoicePlaces, NEW o1 \in Operation, NEW o2 \in Operation,
         NEW o3 \in Operation,
         \A b, c, d \in VoicePlaces : ShiftedTo(a, o1, b) /\ ShiftedTo(b, o2, c)
         /\ ShiftedTo(c, o3, d) =>
           Needs(a, o1) /\ Needs(b, o2) /\ Needs(c, o3) /\ Alike(d, n)
  PROVE  Leads(<<o1, o2, o3>>, a, n)
<1> DEFINE b == Shifted(a, o1)
           c == Shifted(b, o2)
           d == Shifted(c, o3)
<1>1. b \in VoicePlaces /\ ShiftedTo(a, o1, b)
  BY ShiftedPlaces, ShiftedFields DEF Operation
<1> HIDE DEF b
<1>2. c \in VoicePlaces /\ ShiftedTo(b, o2, c)
  BY <1>1, ShiftedPlaces, ShiftedFields DEF Operation
<1> HIDE DEF c
<1>3. d \in VoicePlaces /\ ShiftedTo(c, o3, d)
  BY <1>2, ShiftedPlaces, ShiftedFields DEF Operation
<1> HIDE DEF d
<1>4. Needs(a, o1) /\ Needs(b, o2) /\ Needs(c, o3) /\ d = n
  BY <1>1, <1>2, <1>3, PlacesEqual DEF Alike
<1> QED
  BY <1>4 DEF Leads, Operation, b, c, d

LEMMA FirstLeads ==
  ASSUME NEW v \in 0 .. 6
  PROVE  LET end == Op("publishEnd", v)
             directory == Op("directory", (v + 3) % 8)
             left == Op("left", v + 1)
         IN  /\ Leads(<<end, directory, left>>, PlaceAt(3 * v + 2), PlaceAt(3 * v + 3))
             /\ Leads(<<directory, end, left>>, PlaceAt(3 * v + 2), PlaceAt(3 * v + 3))
<1> DEFINE end == Op("publishEnd", v)
           directory == Op("directory", (v + 3) % 8)
           left == Op("left", v + 1)
           a == PlaceAt(3 * v + 2)
           n == PlaceAt(3 * v + 3)
<1>1. a \in VoicePlaces /\ n \in VoicePlaces
  BY PlacesKnown
<1>2. end \in Operation /\ directory \in Operation /\ left \in Operation
  BY DEF Operation, Op, OpNames, Voices
<1>3. /\ end.op = "publishEnd" /\ end.voice = v
      /\ directory.op = "directory" /\ directory.voice = (v + 3) % 8
      /\ left.op = "left" /\ left.voice = v + 1
  BY DEF Op
<1>4. /\ a.source = (v + 2) % 8 /\ a.directory = v + 1 /\ a.next = v + 1 /\ a.brr = v + 1
      /\ a.output = v + 1 /\ a.outx = v /\ a.chosen = Other /\ a.rendered = v + 1
      /\ a.looped = Other /\ a.pending = v /\ ~a.keying /\ a.due = {u \in 1 .. 7 : u >= v + 2}
  BY FirstPlaces
<1>5. /\ n.source = (v + 3) % 8 /\ n.directory = (v + 2) % 8 /\ n.next = v + 1 /\ n.brr = v + 1
      /\ n.output = v + 1 /\ n.outx = v /\ n.envx = v /\ n.chosen = Other /\ n.rendered = Other
      /\ n.looped = v + 1 /\ n.pending = Other /\ ~n.keying /\ n.due = {u \in 1 .. 7 : u >= v + 2}
  BY SecondPlaces
<1>6. a.keying = n.keying
  BY <1>1, <1>4, <1>5 DEF VoicePlaces
<1> HIDE DEF end, directory, left, a, n
<1>7. Leads(<<end, directory, left>>, a, n)
  <2>1. ASSUME NEW b \in VoicePlaces, NEW c \in VoicePlaces, NEW d \in VoicePlaces,
               ShiftedTo(a, end, b), ShiftedTo(b, directory, c), ShiftedTo(c, left, d)
        PROVE  Needs(a, end) /\ Needs(b, directory) /\ Needs(c, left) /\ Alike(d, n)
    BY <1>1, <1>3, <1>4, <1>5, <1>6, <2>1 DEF ShiftedTo, Needs, Alike
  <2> QED
    BY <1>1, <1>2, <2>1, Moves
<1>8. Leads(<<directory, end, left>>, a, n)
  <2>1. ASSUME NEW b \in VoicePlaces, NEW c \in VoicePlaces, NEW d \in VoicePlaces,
               ShiftedTo(a, directory, b), ShiftedTo(b, end, c), ShiftedTo(c, left, d)
        PROVE  Needs(a, directory) /\ Needs(b, end) /\ Needs(c, left) /\ Alike(d, n)
    BY <1>1, <1>3, <1>4, <1>5, <1>6, <2>1 DEF ShiftedTo, Needs, Alike
  <2> QED
    BY <1>1, <1>2, <2>1, Moves
<1> QED
  BY <1>7, <1>8 DEF end, directory, left, a, n

LEMMA SecondLeads ==
  ASSUME NEW v \in 0 .. 6
  PROVE  LET publish == Op("publishOutput", v)
             right == Op("right", v + 1)
             registers == Op("registers", (v + 2) % 8)
         IN  Leads(<<publish, right, registers>>, PlaceAt(3 * v + 3), PlaceAt(3 * v + 4))
<1> DEFINE publish == Op("publishOutput", v)
           right == Op("right", v + 1)
           registers == Op("registers", (v + 2) % 8)
           a == PlaceAt(3 * v + 3)
           n == PlaceAt(3 * v + 4)
<1>1. a \in VoicePlaces /\ n \in VoicePlaces
  BY PlacesKnown
<1>2. publish \in Operation /\ right \in Operation /\ registers \in Operation
  BY DEF Operation, Op, OpNames, Voices
<1>3. /\ publish.op = "publishOutput" /\ publish.voice = v
      /\ right.op = "right" /\ right.voice = v + 1
      /\ registers.op = "registers" /\ registers.voice = (v + 2) % 8
  BY DEF Op
<1>4. /\ a.source = (v + 3) % 8 /\ a.directory = (v + 2) % 8 /\ a.next = v + 1 /\ a.brr = v + 1
      /\ a.output = v + 1 /\ a.outx = v /\ a.envx = v /\ a.chosen = Other /\ a.rendered = Other
      /\ a.looped = v + 1 /\ a.pending = Other /\ ~a.keying /\ a.due = {u \in 1 .. 7 : u >= v + 2}
  BY SecondPlaces
<1>5. /\ n.source = (v + 3) % 8 /\ n.directory = (v + 2) % 8 /\ n.next = (v + 2) % 8
      /\ n.brr = v + 1 /\ n.output = v + 1 /\ n.outx = v /\ n.envx = v
      /\ n.chosen = (v + 2) % 8 /\ n.rendered = Other /\ n.looped = Other /\ n.pending = v + 1
      /\ ~n.keying /\ n.due = {u \in 1 .. 7 : u >= v + 2}
  BY ThirdPlaces
<1>6. a.keying = n.keying
  BY <1>1, <1>4, <1>5 DEF VoicePlaces
<1> HIDE DEF publish, right, registers, a, n
<1>7. Leads(<<publish, right, registers>>, a, n)
  <2>1. ASSUME NEW b \in VoicePlaces, NEW c \in VoicePlaces, NEW d \in VoicePlaces,
               ShiftedTo(a, publish, b), ShiftedTo(b, right, c), ShiftedTo(c, registers, d)
        PROVE  Needs(a, publish) /\ Needs(b, right) /\ Needs(c, registers) /\ Alike(d, n)
    BY <1>1, <1>3, <1>4, <1>5, <1>6, <2>1 DEF ShiftedTo, Needs, Alike
  <2> QED
    BY <1>1, <1>2, <2>1, Moves
<1> QED
  BY <1>7 DEF publish, right, registers, a, n

LEMMA ThirdLeads ==
  ASSUME NEW v \in 0 .. 5
  PROVE  LET envelope == Op("publishEnvelope", v)
             capture == Op("captureOutput", v + 1)
             prepare == Op("prepare", v + 2)
         IN  Leads(<<envelope, capture, prepare>>, PlaceAt(3 * v + 4), PlaceAt(3 * v + 5))
<1> DEFINE envelope == Op("publishEnvelope", v)
           capture == Op("captureOutput", v + 1)
           prepare == Op("prepare", v + 2)
           a == PlaceAt(3 * v + 4)
           n == PlaceAt(3 * v + 5)
<1>1. a \in VoicePlaces /\ n \in VoicePlaces
  BY PlacesKnown
<1>2. envelope \in Operation /\ capture \in Operation /\ prepare \in Operation
  BY DEF Operation, Op, OpNames, Voices
<1>3. /\ envelope.op = "publishEnvelope" /\ envelope.voice = v
      /\ capture.op = "captureOutput" /\ capture.voice = v + 1
      /\ prepare.op = "prepare" /\ prepare.voice = v + 2
  BY DEF Op
<1>4. /\ a.source = (v + 3) % 8 /\ a.directory = (v + 2) % 8 /\ a.next = (v + 2) % 8
      /\ a.brr = v + 1 /\ a.output = v + 1 /\ a.outx = v /\ a.envx = v
      /\ a.chosen = (v + 2) % 8 /\ a.rendered = Other /\ a.looped = Other /\ a.pending = v + 1
      /\ ~a.keying /\ a.due = {u \in 1 .. 7 : u >= v + 2}
  BY ThirdPlaces
<1>5. /\ n.source = (v + 3) % 8 /\ n.directory = v + 2 /\ n.next = v + 2 /\ n.brr = v + 2
      /\ n.output = v + 2 /\ n.outx = v + 1 /\ n.envx = v /\ n.chosen = Other /\ n.rendered = v + 2
      /\ n.looped = Other /\ n.pending = v + 1 /\ ~n.keying /\ n.due = {u \in 1 .. 7 : u >= v + 3}
  <2>1. v + 1 \in 0 .. 6 /\ 3 * (v + 1) + 2 = 3 * v + 5
    OBVIOUS
  <2> QED
    BY <2>1, FirstPlaces
<1>6. a.keying = n.keying
  BY <1>1, <1>4, <1>5 DEF VoicePlaces
<1> HIDE DEF envelope, capture, prepare, a, n
<1>7. Leads(<<envelope, capture, prepare>>, a, n)
  <2>1. ASSUME NEW b \in VoicePlaces, NEW c \in VoicePlaces, NEW d \in VoicePlaces,
               ShiftedTo(a, envelope, b), ShiftedTo(b, capture, c), ShiftedTo(c, prepare, d)
        PROVE  Needs(a, envelope) /\ Needs(b, capture) /\ Needs(c, prepare) /\ Alike(d, n)
    BY <1>1, <1>3, <1>4, <1>5, <1>6, <2>1 DEF ShiftedTo, Needs, Alike
  <2> QED
    BY <1>1, <1>2, <2>1, Moves
<1> QED
  BY <1>7 DEF envelope, capture, prepare, a, n

\* The clocks of the globals, and voice 0's.
LEMMA LateKeys ==
  /\ \A p \in 22 .. 30 : PlaceAt(p).due = {}
  /\ \A p \in {31, 0, 1} : PlaceAt(p).due = 1 .. 7
  /\ PlaceAt(2).due = 2 .. 7
  /\ \A p \in 22 .. 29 \cup {31, 0, 1, 2} : PlaceAt(p).keying = FALSE
  /\ PlaceAt(30).keying = TRUE
<1>1. ASSUME NEW p \in 22 .. 30
      PROVE  PlaceAt(p).due = {}
  BY DEF PlaceAt
<1>2. PlaceAt(31).due = 1 .. 7
  BY DEF PlaceAt
<1>3. ASSUME NEW p \in {0, 1}
      PROVE  PlaceAt(p).due = 1 .. 7
  <2>1. PlaceAt(p).due = {v \in 1 .. 7 : p <= 3 * v - 2}
    BY <1>3 DEF PlaceAt
  <2>2. \A v \in 1 .. 7 : p <= 3 * v - 2
    BY <1>3
  <2> QED
    BY <2>1, <2>2
<1>4. PlaceAt(2).due = 2 .. 7
  BY DEF PlaceAt
<1>5. ASSUME NEW p \in 22 .. 29 \cup {31, 0, 1, 2}
      PROVE  PlaceAt(p).keying = FALSE
  <2>1. p # 30 /\ p \in 0 .. 31
    BY <1>5
  <2>2. ~PlaceAt(p).keying
    BY <2>1 DEF PlaceAt
  <2>3. PlaceAt(p).keying \in BOOLEAN
    BY <2>1, PlacesKnown DEF VoicePlaces
  <2> QED
    BY <2>2, <2>3
<1>6. PlaceAt(30).keying = TRUE
  <2>1. PlaceAt(30).keying
    BY DEF PlaceAt
  <2>2. PlaceAt(30).keying \in BOOLEAN
    BY PlacesKnown DEF VoicePlaces
  <2> QED
    BY <2>1, <2>2
<1> QED
  BY <1>1, <1>2, <1>3, <1>4, <1>5, <1>6

LEMMA Leads22 ==
  Leads(<<Op("pitchHigh", 0), Op("publishEnvelope", 6), Op("captureOutput", 7)>>, PlaceAt(22),
        PlaceAt(23))
<1> DEFINE a == PlaceAt(22)
           n == PlaceAt(23)
           o1 == Op("pitchHigh", 0)
           o2 == Op("publishEnvelope", 6)
           o3 == Op("captureOutput", 7)
<1>1. a \in VoicePlaces /\ n \in VoicePlaces
  BY PlacesKnown
<1>2. o1 \in Operation /\ o2 \in Operation /\ o3 \in Operation
  BY DEF Operation, Op, OpNames, Voices, Rest
<1>3. /\ o1.op = "pitchHigh" /\ o1.voice = 0
      /\ o2.op = "publishEnvelope" /\ o2.voice = 6
      /\ o3.op = "captureOutput" /\ o3.voice = 7
  BY DEF Op, Rest
<1>4. /\ a.source = 1 /\ a.directory = 0 /\ a.next = 0 /\ a.brr = 7
      /\ a.output = 7 /\ a.outx = 6 /\ a.envx = 6 /\ a.chosen = 0
      /\ a.rendered = Other /\ a.looped = Other /\ a.pending = 7
  BY DEF PlaceAt, Other
<1>5. /\ n.source = 1 /\ n.directory = 0 /\ n.next = 0 /\ n.brr = 7
      /\ n.output = 7 /\ n.outx = 7 /\ n.envx = 6 /\ n.chosen = 0
      /\ n.rendered = Other /\ n.looped = Other /\ n.pending = 7
  BY DEF PlaceAt, Other
<1>6. a.keying = FALSE /\ a.due = {} /\ n.keying = FALSE /\ n.due = {}
  BY LateKeys
<1> HIDE DEF o1, o2, o3, a, n
<1>7. Leads(<<o1, o2, o3>>, a, n)
  <2>1. ASSUME NEW b \in VoicePlaces, NEW c \in VoicePlaces, NEW d \in VoicePlaces,
               ShiftedTo(a, o1, b), ShiftedTo(b, o2, c), ShiftedTo(c, o3, d)
        PROVE  Needs(a, o1) /\ Needs(b, o2) /\ Needs(c, o3) /\ Alike(d, n)
    <3>1. Needs(a, o1) /\ Needs(b, o2) /\ Needs(c, o3)
      BY <1>3, <1>4, <1>6, <2>1 DEF ShiftedTo, Needs
    <3>2. d.keying = n.keying
      BY <1>3, <1>6, <2>1 DEF ShiftedTo
    <3>3. d.due = n.due
      BY <1>3, <1>6, <2>1 DEF ShiftedTo
    <3>4. Alike(d, n)
      BY <1>3, <1>4, <1>5, <2>1, <3>2, <3>3 DEF ShiftedTo, Alike
    <3> QED
      BY <3>1, <3>4
  <2> QED
    BY <1>1, <1>2, <2>1, Moves
<1> QED
  BY <1>7 DEF o1, o2, o3, a, n

LEMMA Leads23 ==
  Leads(<<Op("publishEnd", 7), Rest, Rest>>, PlaceAt(23), PlaceAt(24))
<1> DEFINE a == PlaceAt(23)
           n == PlaceAt(24)
           o1 == Op("publishEnd", 7)
           o2 == Rest
           o3 == Rest
<1>1. a \in VoicePlaces /\ n \in VoicePlaces
  BY PlacesKnown
<1>2. o1 \in Operation /\ o2 \in Operation /\ o3 \in Operation
  BY DEF Operation, Op, OpNames, Voices, Rest
<1>3. /\ o1.op = "publishEnd" /\ o1.voice = 7
      /\ o2.op = "rest" /\ o2.voice = 0
      /\ o3.op = "rest" /\ o3.voice = 0
  BY DEF Op, Rest
<1>4. /\ a.source = 1 /\ a.directory = 0 /\ a.next = 0 /\ a.brr = 7
      /\ a.output = 7 /\ a.outx = 7 /\ a.envx = 6 /\ a.chosen = 0
      /\ a.rendered = Other /\ a.looped = Other /\ a.pending = 7
  BY DEF PlaceAt, Other
<1>5. /\ n.source = 1 /\ n.directory = 0 /\ n.next = 0 /\ n.brr = 7
      /\ n.output = 7 /\ n.outx = 7 /\ n.envx = 7 /\ n.chosen = 0
      /\ n.rendered = Other /\ n.looped = Other /\ n.pending = Other
  BY DEF PlaceAt, Other
<1>6. a.keying = FALSE /\ a.due = {} /\ n.keying = FALSE /\ n.due = {}
  BY LateKeys
<1> HIDE DEF o1, o2, o3, a, n
<1>7. Leads(<<o1, o2, o3>>, a, n)
  <2>1. ASSUME NEW b \in VoicePlaces, NEW c \in VoicePlaces, NEW d \in VoicePlaces,
               ShiftedTo(a, o1, b), ShiftedTo(b, o2, c), ShiftedTo(c, o3, d)
        PROVE  Needs(a, o1) /\ Needs(b, o2) /\ Needs(c, o3) /\ Alike(d, n)
    <3>1. Needs(a, o1) /\ Needs(b, o2) /\ Needs(c, o3)
      BY <1>3, <1>4, <1>6, <2>1 DEF ShiftedTo, Needs
    <3>2. d.keying = n.keying
      BY <1>3, <1>6, <2>1 DEF ShiftedTo
    <3>3. d.due = n.due
      BY <1>3, <1>6, <2>1 DEF ShiftedTo
    <3>4. Alike(d, n)
      BY <1>3, <1>4, <1>5, <2>1, <3>2, <3>3 DEF ShiftedTo, Alike
    <3> QED
      BY <3>1, <3>4
  <2> QED
    BY <1>1, <1>2, <2>1, Moves
<1> QED
  BY <1>7 DEF o1, o2, o3, a, n

LEMMA Leads24 ==
  Leads(<<Op("publishOutput", 7), Rest, Rest>>, PlaceAt(24), PlaceAt(25))
<1> DEFINE a == PlaceAt(24)
           n == PlaceAt(25)
           o1 == Op("publishOutput", 7)
           o2 == Rest
           o3 == Rest
<1>1. a \in VoicePlaces /\ n \in VoicePlaces
  BY PlacesKnown
<1>2. o1 \in Operation /\ o2 \in Operation /\ o3 \in Operation
  BY DEF Operation, Op, OpNames, Voices, Rest
<1>3. /\ o1.op = "publishOutput" /\ o1.voice = 7
      /\ o2.op = "rest" /\ o2.voice = 0
      /\ o3.op = "rest" /\ o3.voice = 0
  BY DEF Op, Rest
<1>4. /\ a.source = 1 /\ a.directory = 0 /\ a.next = 0 /\ a.brr = 7
      /\ a.output = 7 /\ a.outx = 7 /\ a.envx = 7 /\ a.chosen = 0
      /\ a.rendered = Other /\ a.looped = Other /\ a.pending = Other
  BY DEF PlaceAt, Other
<1>5. /\ n.source = 1 /\ n.directory = 0 /\ n.next = 0 /\ n.brr = 7
      /\ n.output = 7 /\ n.outx = 7 /\ n.envx = 7 /\ n.chosen = 0
      /\ n.rendered = Other /\ n.looped = Other /\ n.pending = Other
  BY DEF PlaceAt, Other
<1>6. a.keying = FALSE /\ a.due = {} /\ n.keying = FALSE /\ n.due = {}
  BY LateKeys
<1> HIDE DEF o1, o2, o3, a, n
<1>7. Leads(<<o1, o2, o3>>, a, n)
  <2>1. ASSUME NEW b \in VoicePlaces, NEW c \in VoicePlaces, NEW d \in VoicePlaces,
               ShiftedTo(a, o1, b), ShiftedTo(b, o2, c), ShiftedTo(c, o3, d)
        PROVE  Needs(a, o1) /\ Needs(b, o2) /\ Needs(c, o3) /\ Alike(d, n)
    <3>1. Needs(a, o1) /\ Needs(b, o2) /\ Needs(c, o3)
      BY <1>3, <1>4, <1>6, <2>1 DEF ShiftedTo, Needs
    <3>2. d.keying = n.keying
      BY <1>3, <1>6, <2>1 DEF ShiftedTo
    <3>3. d.due = n.due
      BY <1>3, <1>6, <2>1 DEF ShiftedTo
    <3>4. Alike(d, n)
      BY <1>3, <1>4, <1>5, <2>1, <3>2, <3>3 DEF ShiftedTo, Alike
    <3> QED
      BY <3>1, <3>4
  <2> QED
    BY <1>1, <1>2, <2>1, Moves
<1> QED
  BY <1>7 DEF o1, o2, o3, a, n

LEMMA Leads25 ==
  Leads(<<Op("brr", 0), Op("publishEnvelope", 7), Rest>>, PlaceAt(25), PlaceAt(26))
<1> DEFINE a == PlaceAt(25)
           n == PlaceAt(26)
           o1 == Op("brr", 0)
           o2 == Op("publishEnvelope", 7)
           o3 == Rest
<1>1. a \in VoicePlaces /\ n \in VoicePlaces
  BY PlacesKnown
<1>2. o1 \in Operation /\ o2 \in Operation /\ o3 \in Operation
  BY DEF Operation, Op, OpNames, Voices, Rest
<1>3. /\ o1.op = "brr" /\ o1.voice = 0
      /\ o2.op = "publishEnvelope" /\ o2.voice = 7
      /\ o3.op = "rest" /\ o3.voice = 0
  BY DEF Op, Rest
<1>4. /\ a.source = 1 /\ a.directory = 0 /\ a.next = 0 /\ a.brr = 7
      /\ a.output = 7 /\ a.outx = 7 /\ a.envx = 7 /\ a.chosen = 0
      /\ a.rendered = Other /\ a.looped = Other /\ a.pending = Other
  BY DEF PlaceAt, Other
<1>5. /\ n.source = 1 /\ n.directory = 0 /\ n.next = 0 /\ n.brr = 0
      /\ n.output = 7 /\ n.outx = 7 /\ n.envx = 7 /\ n.chosen = 0
      /\ n.rendered = Other /\ n.looped = Other /\ n.pending = Other
  BY DEF PlaceAt, Other
<1>6. a.keying = FALSE /\ a.due = {} /\ n.keying = FALSE /\ n.due = {}
  BY LateKeys
<1> HIDE DEF o1, o2, o3, a, n
<1>7. Leads(<<o1, o2, o3>>, a, n)
  <2>1. ASSUME NEW b \in VoicePlaces, NEW c \in VoicePlaces, NEW d \in VoicePlaces,
               ShiftedTo(a, o1, b), ShiftedTo(b, o2, c), ShiftedTo(c, o3, d)
        PROVE  Needs(a, o1) /\ Needs(b, o2) /\ Needs(c, o3) /\ Alike(d, n)
    <3>1. Needs(a, o1) /\ Needs(b, o2) /\ Needs(c, o3)
      BY <1>3, <1>4, <1>6, <2>1 DEF ShiftedTo, Needs
    <3>2. d.keying = n.keying
      BY <1>3, <1>6, <2>1 DEF ShiftedTo
    <3>3. d.due = n.due
      BY <1>3, <1>6, <2>1 DEF ShiftedTo
    <3>4. Alike(d, n)
      BY <1>3, <1>4, <1>5, <2>1, <3>2, <3>3 DEF ShiftedTo, Alike
    <3> QED
      BY <3>1, <3>4
  <2> QED
    BY <1>1, <1>2, <2>1, Moves
<1> QED
  BY <1>7 DEF o1, o2, o3, a, n

LEMMA Leads29 ==
  ASSUME dspPhase = 29
  PROVE  Leads(<<Op("latches", 0), Rest, Rest>>, PlaceAt(29), PlaceAt(30))
<1> DEFINE a == PlaceAt(29)
           n == PlaceAt(30)
           o1 == Op("latches", 0)
           o2 == Rest
           o3 == Rest
<1>1. a \in VoicePlaces /\ n \in VoicePlaces
  BY PlacesKnown
<1>2. o1 \in Operation /\ o2 \in Operation /\ o3 \in Operation
  BY DEF Operation, Op, OpNames, Voices, Rest
<1>3. /\ o1.op = "latches" /\ o1.voice = 0
      /\ o2.op = "rest" /\ o2.voice = 0
      /\ o3.op = "rest" /\ o3.voice = 0
  BY DEF Op, Rest
<1>4. /\ a.source = 1 /\ a.directory = 0 /\ a.next = 0 /\ a.brr = 0
      /\ a.output = 7 /\ a.outx = 7 /\ a.envx = 7 /\ a.chosen = 0
      /\ a.rendered = Other /\ a.looped = Other /\ a.pending = Other
  BY DEF PlaceAt, Other
<1>5. /\ n.source = 1 /\ n.directory = 0 /\ n.next = 0 /\ n.brr = 0
      /\ n.output = 7 /\ n.outx = 7 /\ n.envx = 7 /\ n.chosen = 0
      /\ n.rendered = Other /\ n.looped = Other /\ n.pending = Other
  BY DEF PlaceAt, Other
<1>6. a.keying = FALSE /\ a.due = {} /\ n.keying = TRUE /\ n.due = {}
  BY LateKeys
<1> HIDE DEF o1, o2, o3, a, n
<1>7. Leads(<<o1, o2, o3>>, a, n)
  <2>1. ASSUME NEW b \in VoicePlaces, NEW c \in VoicePlaces, NEW d \in VoicePlaces,
               ShiftedTo(a, o1, b), ShiftedTo(b, o2, c), ShiftedTo(c, o3, d)
        PROVE  Needs(a, o1) /\ Needs(b, o2) /\ Needs(c, o3) /\ Alike(d, n)
    <3>1. b.keying = TRUE /\ b.due = a.due
      BY <1>3, <2>1 DEF ShiftedTo
    <3>2. /\ b.source = a.source /\ b.directory = a.directory /\ b.next = a.next /\ b.brr = a.brr
          /\ b.output = a.output /\ b.outx = a.outx /\ b.envx = a.envx /\ b.chosen = a.chosen
          /\ b.rendered = a.rendered /\ b.looped = a.looped /\ b.pending = a.pending
      BY <1>3, <2>1 DEF ShiftedTo
    <3>3. d.keying = b.keying /\ d.due = b.due
      BY <1>3, <2>1 DEF ShiftedTo
    <3>4. /\ d.source = b.source /\ d.directory = b.directory /\ d.next = b.next /\ d.brr = b.brr
          /\ d.output = b.output /\ d.outx = b.outx /\ d.envx = b.envx /\ d.chosen = b.chosen
          /\ d.rendered = b.rendered /\ d.looped = b.looped /\ d.pending = b.pending
      BY <1>3, <2>1 DEF ShiftedTo
    <3>5. Needs(a, o1) /\ Needs(b, o2) /\ Needs(c, o3)
      BY <1>3, <1>6 DEF Needs
    <3> QED
      BY <1>4, <1>5, <1>6, <3>1, <3>2, <3>3, <3>4, <3>5 DEF Alike
  <2> QED
    BY <1>1, <1>2, <2>1, Moves
<1> QED
  BY <1>7 DEF o1, o2, o3, a, n

LEMMA Leads30 ==
  ASSUME dspPhase = 30
  PROVE  Leads(<<Op("latches", 0), Op("render", 0), Rest>>, PlaceAt(30), PlaceAt(31))
<1> DEFINE a == PlaceAt(30)
           n == PlaceAt(31)
           o1 == Op("latches", 0)
           o2 == Op("render", 0)
           o3 == Rest
<1>1. a \in VoicePlaces /\ n \in VoicePlaces
  BY PlacesKnown
<1>2. o1 \in Operation /\ o2 \in Operation /\ o3 \in Operation
  BY DEF Operation, Op, OpNames, Voices, Rest
<1>3. /\ o1.op = "latches" /\ o1.voice = 0
      /\ o2.op = "render" /\ o2.voice = 0
      /\ o3.op = "rest" /\ o3.voice = 0
  BY DEF Op, Rest
<1>4. /\ a.source = 1 /\ a.directory = 0 /\ a.next = 0 /\ a.brr = 0
      /\ a.output = 7 /\ a.outx = 7 /\ a.envx = 7 /\ a.chosen = 0
      /\ a.rendered = Other /\ a.looped = Other /\ a.pending = Other
  BY DEF PlaceAt, Other
<1>5. /\ n.source = 1 /\ n.directory = 0 /\ n.next = 0 /\ n.brr = 0
      /\ n.output = 0 /\ n.outx = 7 /\ n.envx = 7 /\ n.chosen = Other
      /\ n.rendered = 0 /\ n.looped = Other /\ n.pending = Other
  BY DEF PlaceAt, Other
<1>6. a.keying = TRUE /\ a.due = {} /\ n.keying = FALSE /\ n.due = 1 .. 7
  BY LateKeys
<1> HIDE DEF o1, o2, o3, a, n
<1>7. Voices \ {0} = 1 .. 7 /\ 0 \in Voices
  BY DEF Voices
<1>8. Leads(<<o1, o2, o3>>, a, n)
  <2>1. ASSUME NEW b \in VoicePlaces, NEW c \in VoicePlaces, NEW d \in VoicePlaces,
               ShiftedTo(a, o1, b), ShiftedTo(b, o2, c), ShiftedTo(c, o3, d)
        PROVE  Needs(a, o1) /\ Needs(b, o2) /\ Needs(c, o3) /\ Alike(d, n)
    <3>1. b.keying = FALSE /\ b.due = Voices
      BY <1>3, <2>1 DEF ShiftedTo
    <3>2. /\ b.source = a.source /\ b.directory = a.directory /\ b.next = a.next /\ b.brr = a.brr
          /\ b.output = a.output /\ b.outx = a.outx /\ b.envx = a.envx /\ b.chosen = a.chosen
          /\ b.rendered = a.rendered /\ b.looped = a.looped /\ b.pending = a.pending
      BY <1>3, <2>1 DEF ShiftedTo
    <3>3. d.keying = b.keying /\ d.due = b.due \ {0}
      BY <1>3, <2>1 DEF ShiftedTo
    <3>4. /\ d.source = b.source /\ d.directory = b.directory /\ d.next = b.next /\ d.brr = b.brr
          /\ d.outx = b.outx /\ d.envx = b.envx /\ d.looped = b.looped /\ d.pending = b.pending
          /\ d.output = 0 /\ d.chosen = Other /\ d.rendered = 0
      BY <1>3, <2>1 DEF ShiftedTo
    <3>5. Needs(a, o1) /\ Needs(c, o3)
      BY <1>3, <1>6 DEF Needs
    <3>6. Needs(b, o2)
      BY <1>3, <1>4, <1>7, <3>1, <3>2 DEF Needs
    <3>7. Needs(a, o1) /\ Needs(b, o2) /\ Needs(c, o3)
      BY <3>5, <3>6
    <3> QED
      BY <1>4, <1>5, <1>6, <1>7, <3>1, <3>2, <3>3, <3>4, <3>7 DEF Alike
  <2> QED
    BY <1>1, <1>2, <2>1, Moves
<1> QED
  BY <1>8 DEF o1, o2, o3, a, n

LEMMA Leads31 ==
  Leads(<<Op("left", 0), Op("directory", 2), Rest>>, PlaceAt(31), PlaceAt(0))
<1> DEFINE a == PlaceAt(31)
           n == PlaceAt(0)
           o1 == Op("left", 0)
           o2 == Op("directory", 2)
           o3 == Rest
<1>1. a \in VoicePlaces /\ n \in VoicePlaces
  BY PlacesKnown
<1>2. o1 \in Operation /\ o2 \in Operation /\ o3 \in Operation
  BY DEF Operation, Op, OpNames, Voices, Rest
<1>3. /\ o1.op = "left" /\ o1.voice = 0
      /\ o2.op = "directory" /\ o2.voice = 2
      /\ o3.op = "rest" /\ o3.voice = 0
  BY DEF Op, Rest
<1>4. /\ a.source = 1 /\ a.directory = 0 /\ a.next = 0 /\ a.brr = 0
      /\ a.output = 0 /\ a.outx = 7 /\ a.envx = 7 /\ a.chosen = Other
      /\ a.rendered = 0 /\ a.looped = Other /\ a.pending = Other
  BY DEF PlaceAt, Other
<1>5. /\ n.source = 2 /\ n.directory = 1 /\ n.next = 0 /\ n.brr = 0
      /\ n.output = 0 /\ n.outx = 7 /\ n.envx = 7 /\ n.chosen = Other
      /\ n.rendered = Other /\ n.looped = 0 /\ n.pending = Other
  BY DEF PlaceAt, Other
<1>6. a.keying = FALSE /\ a.due = 1 .. 7 /\ n.keying = FALSE /\ n.due = 1 .. 7
  BY LateKeys
<1> HIDE DEF o1, o2, o3, a, n
<1>7. Leads(<<o1, o2, o3>>, a, n)
  <2>1. ASSUME NEW b \in VoicePlaces, NEW c \in VoicePlaces, NEW d \in VoicePlaces,
               ShiftedTo(a, o1, b), ShiftedTo(b, o2, c), ShiftedTo(c, o3, d)
        PROVE  Needs(a, o1) /\ Needs(b, o2) /\ Needs(c, o3) /\ Alike(d, n)
    <3>1. Needs(a, o1) /\ Needs(b, o2) /\ Needs(c, o3)
      BY <1>3, <1>4, <1>6, <2>1 DEF ShiftedTo, Needs
    <3>2. d.keying = n.keying
      BY <1>3, <1>6, <2>1 DEF ShiftedTo
    <3>3. d.due = n.due
      BY <1>3, <1>6, <2>1 DEF ShiftedTo
    <3>4. Alike(d, n)
      BY <1>3, <1>4, <1>5, <2>1, <3>2, <3>3 DEF ShiftedTo, Alike
    <3> QED
      BY <3>1, <3>4
  <2> QED
    BY <1>1, <1>2, <2>1, Moves
<1> QED
  BY <1>7 DEF o1, o2, o3, a, n

LEMMA Leads0 ==
  Leads(<<Op("right", 0), Op("registers", 1), Rest>>, PlaceAt(0), PlaceAt(1))
<1> DEFINE a == PlaceAt(0)
           n == PlaceAt(1)
           o1 == Op("right", 0)
           o2 == Op("registers", 1)
           o3 == Rest
<1>1. a \in VoicePlaces /\ n \in VoicePlaces
  BY PlacesKnown
<1>2. o1 \in Operation /\ o2 \in Operation /\ o3 \in Operation
  BY DEF Operation, Op, OpNames, Voices, Rest
<1>3. /\ o1.op = "right" /\ o1.voice = 0
      /\ o2.op = "registers" /\ o2.voice = 1
      /\ o3.op = "rest" /\ o3.voice = 0
  BY DEF Op, Rest
<1>4. /\ a.source = 2 /\ a.directory = 1 /\ a.next = 0 /\ a.brr = 0
      /\ a.output = 0 /\ a.outx = 7 /\ a.envx = 7 /\ a.chosen = Other
      /\ a.rendered = Other /\ a.looped = 0 /\ a.pending = Other
  BY DEF PlaceAt, Other
<1>5. /\ n.source = 2 /\ n.directory = 1 /\ n.next = 1 /\ n.brr = 0
      /\ n.output = 0 /\ n.outx = 7 /\ n.envx = 7 /\ n.chosen = 1
      /\ n.rendered = Other /\ n.looped = Other /\ n.pending = 0
  BY DEF PlaceAt, Other
<1>6. a.keying = FALSE /\ a.due = 1 .. 7 /\ n.keying = FALSE /\ n.due = 1 .. 7
  BY LateKeys
<1> HIDE DEF o1, o2, o3, a, n
<1>7. Leads(<<o1, o2, o3>>, a, n)
  <2>1. ASSUME NEW b \in VoicePlaces, NEW c \in VoicePlaces, NEW d \in VoicePlaces,
               ShiftedTo(a, o1, b), ShiftedTo(b, o2, c), ShiftedTo(c, o3, d)
        PROVE  Needs(a, o1) /\ Needs(b, o2) /\ Needs(c, o3) /\ Alike(d, n)
    <3>1. Needs(a, o1) /\ Needs(b, o2) /\ Needs(c, o3)
      BY <1>3, <1>4, <1>6, <2>1 DEF ShiftedTo, Needs
    <3>2. d.keying = n.keying
      BY <1>3, <1>6, <2>1 DEF ShiftedTo
    <3>3. d.due = n.due
      BY <1>3, <1>6, <2>1 DEF ShiftedTo
    <3>4. Alike(d, n)
      BY <1>3, <1>4, <1>5, <2>1, <3>2, <3>3 DEF ShiftedTo, Alike
    <3> QED
      BY <3>1, <3>4
  <2> QED
    BY <1>1, <1>2, <2>1, Moves
<1> QED
  BY <1>7 DEF o1, o2, o3, a, n

LEMMA Leads1 ==
  Leads(<<Op("captureOutput", 0), Op("prepare", 1), Rest>>, PlaceAt(1), PlaceAt(2))
<1> DEFINE a == PlaceAt(1)
           n == PlaceAt(2)
           o1 == Op("captureOutput", 0)
           o2 == Op("prepare", 1)
           o3 == Rest
<1>1. a \in VoicePlaces /\ n \in VoicePlaces
  BY PlacesKnown
<1>2. o1 \in Operation /\ o2 \in Operation /\ o3 \in Operation
  BY DEF Operation, Op, OpNames, Voices, Rest
<1>3. /\ o1.op = "captureOutput" /\ o1.voice = 0
      /\ o2.op = "prepare" /\ o2.voice = 1
      /\ o3.op = "rest" /\ o3.voice = 0
  BY DEF Op, Rest
<1>4. /\ a.source = 2 /\ a.directory = 1 /\ a.next = 1 /\ a.brr = 0
      /\ a.output = 0 /\ a.outx = 7 /\ a.envx = 7 /\ a.chosen = 1
      /\ a.rendered = Other /\ a.looped = Other /\ a.pending = 0
  BY DEF PlaceAt, Other
<1>5. /\ n.source = 2 /\ n.directory = 1 /\ n.next = 1 /\ n.brr = 1
      /\ n.output = 1 /\ n.outx = 0 /\ n.envx = 7 /\ n.chosen = Other
      /\ n.rendered = 1 /\ n.looped = Other /\ n.pending = 0
  BY DEF PlaceAt, Other
<1>6. a.keying = FALSE /\ a.due = 1 .. 7 /\ n.keying = FALSE /\ n.due = 2 .. 7
  BY LateKeys
<1> HIDE DEF o1, o2, o3, a, n
<1>7. (1 .. 7) \ {1} = 2 .. 7
  OBVIOUS
<1>8. Leads(<<o1, o2, o3>>, a, n)
  <2>1. ASSUME NEW b \in VoicePlaces, NEW c \in VoicePlaces, NEW d \in VoicePlaces,
               ShiftedTo(a, o1, b), ShiftedTo(b, o2, c), ShiftedTo(c, o3, d)
        PROVE  Needs(a, o1) /\ Needs(b, o2) /\ Needs(c, o3) /\ Alike(d, n)
    <3>1. Needs(a, o1) /\ Needs(b, o2) /\ Needs(c, o3)
      BY <1>3, <1>4, <1>6, <1>7, <2>1 DEF ShiftedTo, Needs
    <3>2. d.keying = n.keying
      BY <1>3, <1>6, <2>1 DEF ShiftedTo
    <3>3. d.due = n.due
      BY <1>3, <1>6, <1>7, <2>1 DEF ShiftedTo
    <3>4. Alike(d, n)
      BY <1>3, <1>4, <1>5, <2>1, <3>2, <3>3 DEF ShiftedTo, Alike
    <3> QED
      BY <3>1, <3>4
  <2> QED
    BY <1>1, <1>2, <2>1, Moves
<1> QED
  BY <1>8 DEF o1, o2, o3, a, n

LEMMA LeadsIdle ==
  ASSUME NEW p \in 26 .. 28, dspPhase = p
  PROVE  Leads(<<Op("latches", 0), Rest, Rest>>, PlaceAt(p), PlaceAt(p + 1))
<1> DEFINE a == PlaceAt(p)
           n == PlaceAt(p + 1)
           o1 == Op("latches", 0)
<1>1. a \in VoicePlaces /\ n \in VoicePlaces
  BY PlacesKnown
<1>2. o1 \in Operation /\ Rest \in Operation
  BY DEF Operation, Op, OpNames, Voices, Rest
<1>3. o1.op = "latches" /\ Rest.op = "rest" /\ p # 29 /\ p # 30
  BY DEF Op, Rest
<1>4. ASSUME NEW q \in 26 .. 29
      PROVE  /\ PlaceAt(q).source = 1 /\ PlaceAt(q).directory = 0 /\ PlaceAt(q).next = 0
             /\ PlaceAt(q).brr = 0 /\ PlaceAt(q).output = 7 /\ PlaceAt(q).outx = 7
             /\ PlaceAt(q).envx = 7 /\ PlaceAt(q).chosen = 0 /\ PlaceAt(q).rendered = Other
             /\ PlaceAt(q).looped = Other /\ PlaceAt(q).pending = Other
             /\ PlaceAt(q).due = {} /\ PlaceAt(q).keying = FALSE
  <2>1. /\ PlaceAt(q).source = 1 /\ PlaceAt(q).directory = 0 /\ PlaceAt(q).next = 0
        /\ PlaceAt(q).brr = 0 /\ PlaceAt(q).output = 7 /\ PlaceAt(q).outx = 7
        /\ PlaceAt(q).envx = 7 /\ PlaceAt(q).chosen = 0
    BY DEF PlaceAt, Other
  <2>2. /\ PlaceAt(q).rendered = Other /\ PlaceAt(q).looped = Other /\ PlaceAt(q).pending = Other
    BY DEF PlaceAt, Other
  <2>3. q \in 22 .. 30 /\ q \in 22 .. 29
    OBVIOUS
  <2> QED
    BY <2>1, <2>2, <2>3, LateKeys
<1>5. p \in 26 .. 29 /\ p + 1 \in 26 .. 29
  OBVIOUS
<1>6. Alike(a, n)
  BY <1>4, <1>5 DEF Alike
<1> HIDE DEF a, n, o1
<1>7. Leads(<<o1, Rest, Rest>>, a, n)
  <2>1. ASSUME NEW b \in VoicePlaces, NEW c \in VoicePlaces, NEW d \in VoicePlaces,
               ShiftedTo(a, o1, b), ShiftedTo(b, Rest, c), ShiftedTo(c, Rest, d)
        PROVE  Needs(a, o1) /\ Needs(b, Rest) /\ Needs(c, Rest) /\ Alike(d, n)
    <3>1. Needs(a, o1) /\ Needs(b, Rest) /\ Needs(c, Rest)
      BY <1>3 DEF Needs
    <3>2. Alike(b, a) /\ Alike(c, b) /\ Alike(d, c)
      BY <1>3, <2>1 DEF ShiftedTo, Alike
    <3>3. Alike(d, n)
      BY <1>6, <3>2 DEF Alike
    <3> QED
      BY <3>1, <3>3
  <2> QED
    BY <1>1, <1>2, <2>1, Moves
<1> QED
  BY <1>7 DEF o1, a, n

LEMMA Scheduled ==
  ASSUME dspPhase \in 0 .. 31
  PROVE  Leads(Clock(dspPhase), PlaceAt(dspPhase), PlaceAt((dspPhase + 1) % 32))
<1>1. CASE dspPhase \in 2 .. 16
  <2> DEFINE v == (dspPhase - 2) \div 3
             r == (dspPhase - 2) % 3
  <2>1. v \in 0 .. 4 /\ r \in 0 .. 2 /\ dspPhase = 3 * v + 2 + r
    BY <1>1
  <2>2. Clock(dspPhase) = Group(v)[r + 1]
    BY <1>1 DEF Clock
  <2> HIDE DEF v, r
  <2>3. (v + 3) % 8 = v + 3 /\ (v + 2) % 8 = v + 2 /\ v \in 0 .. 6 /\ v \in 0 .. 5
    BY <2>1
  <2>4. CASE r = 0
    <3>1. Clock(dspPhase) = <<Op("publishEnd", v), Op("directory", v + 3), Op("left", v + 1)>>
      BY <2>2, <2>4 DEF Group
    <3>2. dspPhase = 3 * v + 2 /\ (dspPhase + 1) % 32 = 3 * v + 3
      BY <2>1, <2>4
    <3> QED
      BY <2>3, <3>1, <3>2, FirstLeads
  <2>5. CASE r = 1
    <3>1. Clock(dspPhase) = <<Op("publishOutput", v), Op("right", v + 1), Op("registers", v + 2)>>
      BY <2>2, <2>5 DEF Group
    <3>2. dspPhase = 3 * v + 3 /\ (dspPhase + 1) % 32 = 3 * v + 4
      BY <2>1, <2>5
    <3> QED
      BY <2>3, <3>1, <3>2, SecondLeads
  <2>6. CASE r = 2
    <3>1. Clock(dspPhase)
            = <<Op("publishEnvelope", v), Op("captureOutput", v + 1), Op("prepare", v + 2)>>
      BY <2>2, <2>6 DEF Group
    <3>2. dspPhase = 3 * v + 4 /\ (dspPhase + 1) % 32 = 3 * v + 5
      BY <2>1, <2>6
    <3> QED
      BY <2>3, <3>1, <3>2, ThirdLeads
  <2> QED
    BY <2>1, <2>4, <2>5, <2>6
<1>2. CASE dspPhase = 17
  <2>1. Leads(<<Op("directory", 0), Op("publishEnd", 5), Op("left", 6)>>, PlaceAt(17), PlaceAt(18))
    <3>1. 3 * 5 + 2 = 17 /\ 3 * 5 + 3 = 18 /\ (5 + 3) % 8 = 0 /\ 5 + 1 = 6 /\ 5 \in 0 .. 6
      OBVIOUS
    <3> QED
      BY <3>1, FirstLeads
  <2> QED
    BY <1>2, <2>1 DEF Clock
<1>3. CASE dspPhase = 18
  <2>1. Leads(<<Op("publishOutput", 5), Op("right", 6), Op("registers", 7)>>, PlaceAt(18),
              PlaceAt(19))
    <3>1. 3 * 5 + 3 = 18 /\ 3 * 5 + 4 = 19 /\ (5 + 2) % 8 = 7 /\ 5 + 1 = 6 /\ 5 \in 0 .. 6
      OBVIOUS
    <3> QED
      BY <3>1, SecondLeads
  <2> QED
    BY <1>3, <2>1 DEF Clock
<1>4. CASE dspPhase = 19
  <2>1. Leads(<<Op("publishEnvelope", 5), Op("captureOutput", 6), Op("prepare", 7)>>, PlaceAt(19),
              PlaceAt(20))
    <3>1. 3 * 5 + 4 = 19 /\ 3 * 5 + 5 = 20 /\ 5 + 2 = 7 /\ 5 + 1 = 6 /\ 5 \in 0 .. 5
      OBVIOUS
    <3> QED
      BY <3>1, ThirdLeads
  <2> QED
    BY <1>4, <2>1 DEF Clock
<1>5. CASE dspPhase = 20
  <2>1. Leads(<<Op("directory", 1), Op("publishEnd", 6), Op("left", 7)>>, PlaceAt(20), PlaceAt(21))
    <3>1. 3 * 6 + 2 = 20 /\ 3 * 6 + 3 = 21 /\ (6 + 3) % 8 = 1 /\ 6 + 1 = 7 /\ 6 \in 0 .. 6
      OBVIOUS
    <3> QED
      BY <3>1, FirstLeads
  <2> QED
    BY <1>5, <2>1 DEF Clock
<1>6. CASE dspPhase = 21
  <2>1. Leads(<<Op("publishOutput", 6), Op("right", 7), Op("registers", 0)>>, PlaceAt(21),
              PlaceAt(22))
    <3>1. 3 * 6 + 3 = 21 /\ 3 * 6 + 4 = 22 /\ (6 + 2) % 8 = 0 /\ 6 + 1 = 7 /\ 6 \in 0 .. 6
      OBVIOUS
    <3> QED
      BY <3>1, SecondLeads
  <2> QED
    BY <1>6, <2>1 DEF Clock
<1>7. CASE dspPhase \in {22, 23, 24, 25}
  BY <1>7, Leads22, Leads23, Leads24, Leads25 DEF Clock
<1>8. CASE dspPhase \in 26 .. 28
  <2>1. Clock(dspPhase) = <<Op("latches", 0), Rest, Rest>> /\ (dspPhase + 1) % 32 = dspPhase + 1
    BY <1>8 DEF Clock
  <2> QED
    BY <1>8, <2>1, LeadsIdle
<1>9. CASE dspPhase \in {29, 30}
  <2>1. dspPhase = 29 => Clock(dspPhase) = <<Op("latches", 0), Rest, Rest>>
        /\ (dspPhase + 1) % 32 = 30
    BY DEF Clock
  <2>2. dspPhase = 30 => Clock(dspPhase) = <<Op("latches", 0), Op("render", 0), Rest>>
        /\ (dspPhase + 1) % 32 = 31
    BY DEF Clock
  <2> QED
    BY <1>9, <2>1, <2>2, Leads29, Leads30
<1>10. CASE dspPhase \in {31, 0, 1}
  BY <1>10, Leads31, Leads0, Leads1 DEF Clock
<1> QED
  BY <1>1, <1>2, <1>3, <1>4, <1>5, <1>6, <1>7, <1>8, <1>9, <1>10

LEMMA TickKeeps ==
  ASSUME VoicesInv, VoiceTick
  PROVE  VoicesInv' /\ KeyedOnOnce
<1> DEFINE ops == Clock(dspPhase)
           a == PlaceAt(dspPhase)
           b == Shifted(a, ops[1])
           c == Shifted(b, ops[2])
           n == PlaceAt((dspPhase + 1) % 32)
           s == State
<1>1. PICK header \in Headed, fast \in BOOLEAN :
        LET t == After(ops, header, fast)
        IN  /\ pipe' = t.pipe /\ voice' = t.voice /\ ended' = t.ended /\ asked' = t.asked
            /\ keys' = t.key /\ everyOther' = t.even /\ dspPhase' = (dspPhase + 1) % 32
  <2>1. PICK header \in Headers(OpsOf(ops)), fast \in Speeds(OpsOf(ops)) :
          \E t \in {After(ops, header, fast)} :
            /\ pipe' = t.pipe /\ voice' = t.voice /\ ended' = t.ended /\ asked' = t.asked
            /\ keys' = t.key /\ everyOther' = t.even /\ dspPhase' = (dspPhase + 1) % 32
    BY DEF VoiceTick
  <2>2. header \in Headed /\ fast \in BOOLEAN
    BY DEF Headers, Speeds, Headed
  <2> QED
    BY <2>1, <2>2
<1>2. /\ Needs(a, ops[1]) /\ Needs(b, ops[2]) /\ Needs(c, ops[3]) /\ Shifted(c, ops[3]) = n
      /\ ops[1] \in Operation /\ ops[2] \in Operation
      /\ ops[3] \in Operation
  BY Scheduled DEF VoicesInv, Leads
<1>3. Good(s, a) /\ a \in VoicePlaces
  BY PlacesKnown DEF VoicesInv, Good
<1> DEFINE t1 == Do(s, ops[1], header, fast)
           t2 == Do(t1, ops[2], header, fast)
           t3 == Do(t2, ops[3], header, fast)
<1>4. After(ops, header, fast) = t3
  BY DEF After
<1> HIDE DEF a, n, s, ops
<1>5. Good(t1, b) /\ Calm(s, t1) /\ b \in VoicePlaces
  BY <1>2, <1>3, OperationMoves
<1> HIDE DEF t1, b
<1>6. Good(t2, c) /\ Calm(t1, t2) /\ c \in VoicePlaces
  BY <1>2, <1>5, OperationMoves
<1> HIDE DEF t2, c
<1>7. Good(t3, n) /\ Calm(t2, t3)
  BY <1>2, <1>6, OperationMoves
<1> HIDE DEF t3
<1>8. s \in VoicesState /\ t1 \in VoicesState /\ t2 \in VoicesState /\ t3 \in VoicesState
  BY <1>3, <1>5, <1>6, <1>7 DEF Good
<1>9. Calm(s, t3)
  BY <1>5, <1>6, <1>7, <1>8, CalmTogether
<1>10. State' = t3
  <2>1. State' = [pipe |-> t3.pipe, voice |-> t3.voice, ended |-> t3.ended, asked |-> t3.asked,
                  key |-> t3.key, even |-> t3.even]
    BY <1>1, <1>4 DEF State
  <2> QED
    BY <1>8, <2>1 DEF VoicesState
<1>11. dspPhase \in 0 .. 31
  BY DEF VoicesInv
<1>12. dspPhase' = (dspPhase + 1) % 32 /\ dspPhase' \in 0 .. 31
  BY <1>1, <1>11
<1>13. PlaceAt(dspPhase') = n
  BY <1>12 DEF n
<1>14. VoicesInv'
  BY <1>7, <1>10, <1>12, <1>13 DEF VoicesInv, Good
<1>15. KeyedOnOnce
  <2>1. s.voice = voice /\ s.asked = asked /\ t3.voice = voice'
    BY <1>1, <1>4 DEF State, s
  <2> QED
    BY <1>9, <2>1 DEF Calm, KeyedOnOnce
<1> QED
  BY <1>14, <1>15

(***************************************************************************)
(* Write.                                                                  *)
(***************************************************************************)
LEMMA StateFields ==
  /\ State.pipe = pipe /\ State.voice = voice /\ State.ended = ended /\ State.asked = asked
  /\ State.key = keys /\ State.even = everyOther
BY DEF State

LEMMA StateType ==
  State \in VoicesState <=>
    /\ pipe \in PipeType /\ voice \in [Watched -> VoiceType] /\ ended \subseteq Watched
    /\ asked \subseteq Watched /\ keys \in KeyType /\ everyOther \in BOOLEAN
BY DEF State, VoicesState

LEMMA WritesKeep ==
  ASSUME VoicesInv,
         \/ \E bits \in SUBSET Watched : WriteKon(bits) \/ WriteKoff(bits)
         \/ WriteEndx \/ WriteEnvelopeOrOutput \/ UNCHANGED voicesVars
  PROVE  VoicesInv' /\ (KeyedOnOnce \/ UNCHANGED voicesVars)
<1> DEFINE a == PlaceAt(dspPhase)
<1>1. /\ dspPhase \in 0 .. 31 /\ State \in VoicesState
      /\ LatchesInPlace(State, a) /\ SamplesInPlace(State, a) /\ EndsInPlace(State, a)
      /\ KeysInPlace(State, a)
  BY DEF VoicesInv, InPlace
<1>2. /\ pipe \in PipeType /\ voice \in [Watched -> VoiceType] /\ ended \subseteq Watched
      /\ asked \subseteq Watched /\ keys \in KeyType /\ everyOther \in BOOLEAN
  BY <1>1, StateType
<1>3. dspPhase' = dspPhase /\ voice' = voice /\ everyOther' = everyOther
  BY DEF WriteKon, WriteKoff, WriteEndx, WriteEnvelopeOrOutput, voicesVars
<1>4. PlaceAt(dspPhase') = a
  BY <1>3
<1>5. KeyedOnOnce
  <2>1. \A v \in Watched : voice[v].delay \in 0 .. 5
    BY <1>2 DEF VoiceType
  <2>2. \A k \in 0 .. 5 : ~(k > k)
    OBVIOUS
  <2> QED
    BY <1>3, <2>1, <2>2 DEF KeyedOnOnce
<1>6. /\ State'.pipe = pipe' /\ State'.voice = voice' /\ State'.ended = ended'
      /\ State'.asked = asked'
      /\ State'.key = keys' /\ State'.even = everyOther'
  BY DEF State
<1>7. ASSUME pipe' \in PipeType, ended' \subseteq Watched, asked' \subseteq Watched,
             keys' \in KeyType,
             LatchesInPlace(State', a), EndsInPlace(State', a), KeysInPlace(State', a),
             pipe'.entry = pipe.entry, pipe'.header = pipe.header
      PROVE  VoicesInv'
  <2>1. State' \in VoicesState
    BY <1>2, <1>3, <1>7 DEF State, VoicesState
  <2>2. SamplesInPlace(State', a)
    BY <1>1, <1>3, <1>6, <1>7, StateFields DEF SamplesInPlace, Ready
  <2> QED
    BY <1>1, <1>3, <1>4, <1>7, <2>1, <2>2 DEF VoicesInv, InPlace
<1> HIDE DEF a
<1>8. ASSUME NEW bits \in SUBSET Watched, WriteKon(bits)
      PROVE  VoicesInv'
  <2>1. keys' = [keys EXCEPT !.new = bits] /\ asked' = asked \cup bits /\ pipe' = pipe
        /\ ended' = ended
    BY <1>8 DEF WriteKon
  <2>2. keys' \in KeyType /\ keys'.new = bits /\ keys'.kon = keys.kon
    BY <1>2, <2>1 DEF KeyType
  <2>3. LatchesInPlace(State', a) /\ EndsInPlace(State', a)
    BY <1>1, <1>6, <2>1, StateFields DEF LatchesInPlace, EndsInPlace
  <2>4. KeysInPlace(State', a)
    BY <1>1, <1>3, <1>6, <2>1, <2>2, StateFields DEF KeysInPlace
  <2> QED
    BY <1>2, <1>7, <2>1, <2>2, <2>3, <2>4
<1>9. ASSUME NEW bits \in SUBSET Watched, WriteKoff(bits)
      PROVE  VoicesInv'
  <2>1. keys' = [keys EXCEPT !.koff = bits] /\ asked' = asked /\ pipe' = pipe /\ ended' = ended
    BY <1>9 DEF WriteKoff
  <2>2. keys' \in KeyType /\ keys'.new = keys.new /\ keys'.kon = keys.kon
    BY <1>2, <2>1 DEF KeyType
  <2>3. LatchesInPlace(State', a) /\ EndsInPlace(State', a)
    BY <1>1, <1>6, <2>1, StateFields DEF LatchesInPlace, EndsInPlace
  <2>4. KeysInPlace(State', a)
    BY <1>1, <1>3, <1>6, <2>1, <2>2, StateFields DEF KeysInPlace
  <2> QED
    BY <1>2, <1>7, <2>1, <2>2, <2>3, <2>4
<1>10. ASSUME WriteEndx
      PROVE  VoicesInv'
  <2>1. pipe' = [pipe EXCEPT !.endx = {}, !.endxBuf = {}] /\ ended' = {} /\ asked' = asked
        /\ keys' = keys
    BY <1>10 DEF WriteEndx, Cleared
  <2>2. pipe' \in PipeType
    BY <1>2, <2>1 DEF PipeType
  <2>3. LatchesInPlace(State', a)
    BY <1>1, <1>2, <1>6, <2>1, StateFields DEF LatchesInPlace, PipeType
  <2>4. EndsInPlace(State', a)
    BY <1>1, <1>2, <1>6, <2>1, StateFields DEF EndsInPlace, PipeType
  <2>5. KeysInPlace(State', a)
    BY <1>1, <1>3, <1>6, <2>1, StateFields DEF KeysInPlace
  <2>6. pipe'.entry = pipe.entry /\ pipe'.header = pipe.header
    BY <1>2, <2>1 DEF PipeType
  <2>7. ended' \subseteq Watched /\ asked' \subseteq Watched /\ keys' \in KeyType
    BY <1>2, <2>1
  <2> QED
    BY <1>7, <2>2, <2>3, <2>4, <2>5, <2>6, <2>7
<1>11. ASSUME WriteEnvelopeOrOutput
      PROVE  VoicesInv'
  <2>1. ended' = ended /\ asked' = asked /\ keys' = keys
    BY <1>11 DEF WriteEnvelopeOrOutput
  <2>2. pipe' = [pipe EXCEPT !.envx = Other] \/ pipe' = [pipe EXCEPT !.outx = Other]
    BY <1>11 DEF WriteEnvelopeOrOutput
  <2>3. pipe' \in PipeType
    BY <1>2, <2>2 DEF PipeType, Holders, Other
  <2>4. LatchesInPlace(State', a)
    BY <1>1, <1>2, <1>6, <2>2, StateFields DEF LatchesInPlace, PipeType
  <2>5. EndsInPlace(State', a)
    BY <1>1, <1>2, <1>6, <2>1, <2>2, StateFields DEF EndsInPlace, PipeType
  <2>6. KeysInPlace(State', a)
    BY <1>1, <1>3, <1>6, <2>1, StateFields DEF KeysInPlace
  <2>7. pipe'.entry = pipe.entry /\ pipe'.header = pipe.header
    BY <1>2, <2>2 DEF PipeType
  <2>8. ended' \subseteq Watched /\ asked' \subseteq Watched /\ keys' \in KeyType
    BY <1>2, <2>1
  <2> QED
    BY <1>7, <2>3, <2>4, <2>5, <2>6, <2>7, <2>8
<1>12. ASSUME UNCHANGED voicesVars
      PROVE  VoicesInv'
  <2>1. State' = State
    BY <1>12 DEF State, voicesVars
  <2>2. ended' = ended /\ asked' = asked /\ keys' = keys /\ pipe' = pipe
    BY <1>12 DEF voicesVars
  <2>3. LatchesInPlace(State', a) /\ EndsInPlace(State', a) /\ KeysInPlace(State', a)
    BY <1>1, <2>1
  <2> QED
    BY <1>2, <1>7, <2>2, <2>3
<1> QED
  BY <1>5, <1>8, <1>9, <1>10, <1>11, <1>12

(***************************************************************************)
(* The theorem.                                                            *)
(***************************************************************************)
LEMMA VoicesStart ==
  ASSUME VoicesInit
  PROVE  VoicesInv
<1> DEFINE a == PlaceAt(0)
<1>1. /\ dspPhase = 0 /\ everyOther = TRUE
      /\ keys = [new |-> {}, kon |-> {}, koff |-> {}, keyOff |-> {}]
      /\ pipe = Latches /\ voice = [v \in Watched |-> Silent] /\ ended = {} /\ asked = {}
  BY DEF VoicesInit
<1>2. Latches \in PipeType /\ Silent \in VoiceType
  BY DEF Latches, PipeType, Silent, VoiceType, Holders, Other
<1>3. keys \in KeyType
  BY <1>1 DEF KeyType
<1>4. State \in VoicesState
  BY <1>1, <1>2, <1>3, StateType
<1>5. LatchesInPlace(State, a)
  BY <1>1, StateFields DEF LatchesInPlace, Latches
<1>6. a.chosen = Other /\ a.rendered = Other /\ a.pending = Other
  BY DEF PlaceAt, Other
<1>7. SamplesInPlace(State, a)
  BY <1>1, <1>6, StateFields, DspVoicesAssumption DEF SamplesInPlace, Begun, Silent, Other, Voices
<1>8. EndsInPlace(State, a)
  BY <1>1, <1>6, StateFields DEF EndsInPlace, Latches
<1>9. KeysInPlace(State, a)
  BY <1>1, StateFields, LateKeys DEF KeysInPlace
<1> QED
  BY <1>1, <1>4, <1>5, <1>7, <1>8, <1>9 DEF VoicesInv, InPlace

LEMMA VoicesInvExact ==
  ASSUME VoicesInv
  PROVE  LatchesAreTheVoices /\ EndxExact
<1> DEFINE pending == PlaceAt(dspPhase).pending
<1>1. LatchesAreTheVoices
  BY StateFields DEF VoicesInv, InPlace, LatchesInPlace, LatchesAreTheVoices
<1>2. pipe.endx \ {pending} = ended \ {pending}
  BY StateFields DEF VoicesInv, InPlace, EndsInPlace
<1>3. ASSUME NEW v \in Watched, dspPhase \notin {3 * v + 1, 3 * v + 2}
      PROVE  v # pending
  <2>1. v \in 0 .. 7
    BY DspVoicesAssumption DEF Voices
  <2>2. dspPhase \in 0 .. 31
    BY DEF VoicesInv
  <2>3. pending = IF dspPhase \in 1 .. 23 /\ dspPhase % 3 # 0 THEN dspPhase \div 3 ELSE Other
    BY DEF PlaceAt
  <2> HIDE DEF pending
  <2>4. dspPhase % 3 # 0 => dspPhase \div 3 # v
    BY <1>3, <2>1, <2>2
  <2> QED
    BY <2>1, <2>3, <2>4 DEF Other
<1> HIDE DEF pending
<1> QED
  BY <1>1, <1>2, <1>3 DEF EndxExact

\* The latches the voices share are each the voice's own, or the program's, at every use,
\* ENDX is exact and a write of KON keys on once, whichever voices are watched.
THEOREM VoicesAreExact == VoicesSpec => VoicesExact
<1>1. VoicesInit => VoicesInv
  BY VoicesStart
<1>2. VoicesInv /\ [VoicesNext]_voicesVars => VoicesInv' /\ [KeyedOnOnce]_voicesVars
  BY TickKeeps, WritesKeep DEF VoicesNext
<1>3. VoicesInv => LatchesAreTheVoices /\ EndxExact
  BY VoicesInvExact
<1> QED
  BY <1>1, <1>2, <1>3, PTL DEF VoicesSpec, VoicesExact
=============================================================================
