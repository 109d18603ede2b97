---------------------------- MODULE TimingProofs ----------------------------
(***************************************************************************)
(* Proofs about Timing.  The beam stands on an even clock whatever the     *)
(* batches were, so no threshold is jumped over: the flag of an event is   *)
(* set exactly from the position of the event on, which makes the flags,   *)
(* the counts of the history and the beam of Beam agree.                   *)
(***************************************************************************)
EXTENDS Timing, Integers, TLAPS

\* Where the beam is once a pending half tick is taken away.
Place == IF half THEN h - 1 ELSE h

Offsets == {0, 2, 4, 6}

Types ==
  /\ h \in Nat /\ v \in Nat /\ half \in BOOLEAN
  /\ field \in BOOLEAN /\ interlace \in BOOLEAN
  /\ vdisp \in VDisps /\ vperiod \in {FieldLines, FieldLines + 1}
  /\ hperiod \in {LineClocks, OddClocks}
  /\ divider \in Nat /\ divider < JoyClocks /\ divider % 2 = 0
  /\ setupPos \in {SetupBase + i : i \in Offsets}
  /\ refreshPos \in {RefreshBase - i : i \in Offsets}
  /\ fired \in SUBSET Events
  /\ steady \in SUBSET {"line", "field"}
  /\ count \in [Events \cup {"vblank"} -> 0 .. 2]

BeamPlace ==
  /\ Place \in Nat /\ Place + 2 <= hperiod /\ Place % 2 = 0
  /\ v < vperiod /\ (v < CaptureLine => vperiod = FieldLines)
  /\ elapsed = IF half THEN divider + 1 ELSE divider

FiredInTime ==
  /\ "refresh" \in fired <=> Place >= refreshPos
  /\ "setup" \in fired <=> v > 0 \/ Place >= setupPos
  /\ "line" \in steady =>
       /\ "render" \in fired <=> v > 0 /\ v < vdisp /\ Place >= RenderPos
       /\ "hdma" \in fired <=> v < vdisp /\ Place >= HdmaPos

Counted ==
  /\ \A e \in {"render", "hdma", "refresh"} : count[e] = IF e \in fired THEN 1 ELSE 0
  /\ count["setup"] = IF v = 0 /\ "setup" \in fired THEN 1 ELSE 0
  /\ "field" \in steady => count["vblank"] = IF v >= vdisp THEN 1 ELSE 0

TimingInv == Types /\ BeamPlace /\ FiredInTime /\ Counted

-----------------------------------------------------------------------------
LEMMA EvenNumber ==
  ASSUME NEW c \in {2 * n : n \in 1 .. 2000}
  PROVE  c \in Nat /\ c % 2 = 0 /\ c >= 2
<1>1. PICK n \in 1 .. 2000 : c = 2 * n
  OBVIOUS
<1>2. (2 * n) % 2 = 0
  OBVIOUS
<1> QED
  BY <1>1, <1>2

\* The numbers of the line are even and every event has its place on it.
LEMMA LineNumbers ==
  /\ \A c \in {LineClocks, OddClocks, SetupBase, RenderPos, HdmaPos, RefreshBase, JoyClocks} :
       c \in Nat /\ c % 2 = 0 /\ c >= 2
  /\ \A p \in {SetupBase + 6, RenderPos, HdmaPos, RefreshBase} : p < LineClocks /\ p < OddClocks
  /\ RefreshBase >= 8 /\ JoyClocks >= 8
<1>1. /\ {LineClocks, OddClocks, SetupBase, RenderPos, HdmaPos, RefreshBase, JoyClocks}
           \subseteq {2 * n : n \in 1 .. 2000}
      /\ \A p \in {SetupBase + 6, RenderPos, HdmaPos, RefreshBase} : p < LineClocks /\ p < OddClocks
      /\ RefreshBase > 6 /\ JoyClocks % 8 = 0
  BY TimingAssumption DEF TimingAssumption
<1>2. \A c \in {LineClocks, OddClocks, SetupBase, RenderPos, HdmaPos, RefreshBase, JoyClocks} :
         c \in Nat /\ c % 2 = 0 /\ c >= 2
  <2> TAKE c \in {LineClocks, OddClocks, SetupBase, RenderPos, HdmaPos, RefreshBase, JoyClocks}
  <2>1. c \in {2 * n : n \in 1 .. 2000}
    BY <1>1
  <2> QED
    BY <2>1, EvenNumber
<1>3. RefreshBase >= 8
  <2>1. RefreshBase \in Nat /\ RefreshBase % 2 = 0 /\ RefreshBase > 6
    BY <1>1, <1>2
  <2> QED
    BY <2>1
<1>4. JoyClocks >= 8
  <2>1. JoyClocks \in Nat /\ JoyClocks % 8 = 0 /\ JoyClocks >= 2
    BY <1>1, <1>2
  <2> QED
    BY <2>1
<1> QED
  BY <1>1, <1>2, <1>3, <1>4

LEMMA FieldNumbers ==
  /\ FieldLines \in Nat /\ CaptureLine \in Nat
  /\ CaptureLine >= 1 /\ CaptureLine < FieldLines
  /\ \A d \in VDisps : d \in Nat /\ d >= 2 /\ d < FieldLines
BY TimingAssumption DEF TimingAssumption

\* The positions that the clock moves by up to six.
LEMMA Positions ==
  ASSUME Types
  PROVE  /\ setupPos \in Nat /\ setupPos % 2 = 0 /\ setupPos < LineClocks /\ setupPos < OddClocks
         /\ setupPos >= 2
         /\ refreshPos \in Nat /\ refreshPos % 2 = 0 /\ refreshPos < LineClocks /\ refreshPos < OddClocks
         /\ refreshPos >= 2
<1>1. PICK i \in Offsets : setupPos = SetupBase + i
  BY DEF Types
<1>2. PICK j \in Offsets : refreshPos = RefreshBase - j
  BY DEF Types
<1>3. /\ SetupBase \in Nat /\ SetupBase % 2 = 0 /\ SetupBase >= 2
      /\ SetupBase + 6 < LineClocks /\ SetupBase + 6 < OddClocks
      /\ RefreshBase \in Nat /\ RefreshBase % 2 = 0 /\ RefreshBase >= 8
      /\ RefreshBase < LineClocks /\ RefreshBase < OddClocks
      /\ LineClocks \in Nat /\ OddClocks \in Nat
  BY LineNumbers, Zenon
<1> QED
  BY <1>1, <1>2, <1>3 DEF Offsets

\* An even position that lies ahead is not jumped over.
LEMMA NoneJumped ==
  ASSUME NEW a \in Nat, NEW p \in Nat, a % 2 = 0, p % 2 = 0
  PROVE  /\ a < p => a + 2 <= p
         /\ a < p /\ a + 2 >= p => a + 2 = p
OBVIOUS

LEMMA EvenRemainder ==
  ASSUME NEW n \in Nat, n % 2 = 0
  PROVE  n % 8 \in Offsets
BY DEF Offsets

-----------------------------------------------------------------------------
(***************************************************************************)
(* The events that are due.                                                *)
(***************************************************************************)
LEMMA DueEvents ==
  ASSUME NEW x
  PROVE  /\ Due(x) \subseteq Events \ fired
         /\ "setup" \in Due(x) <=> "setup" \notin fired /\ v = 0 /\ x >= setupPos
         /\ "render" \in Due(x) <=> "render" \notin fired /\ v > 0 /\ v < vdisp /\ x >= RenderPos
         /\ "hdma" \in Due(x) <=> "hdma" \notin fired /\ v < vdisp /\ x >= HdmaPos
         /\ "refresh" \in Due(x) <=> "refresh" \notin fired /\ x >= refreshPos
BY DEF Due, Events

\* On the line of hperiod every event has its place, an even one.
LEMMA Thresholds ==
  ASSUME Types
  PROVE  /\ hperiod \in Nat /\ hperiod % 2 = 0
         /\ \A p \in {setupPos, RenderPos, HdmaPos, refreshPos} :
              p \in Nat /\ p % 2 = 0 /\ p < hperiod /\ p >= 2
<1>1. hperiod = LineClocks \/ hperiod = OddClocks
  BY DEF Types
<1>2. /\ LineClocks \in Nat /\ LineClocks % 2 = 0 /\ OddClocks \in Nat /\ OddClocks % 2 = 0
      /\ \A p \in {RenderPos, HdmaPos} :
           p \in Nat /\ p % 2 = 0 /\ p < LineClocks /\ p < OddClocks /\ p >= 2
  BY LineNumbers
<1>3. \A p \in {setupPos, refreshPos} :
        p \in Nat /\ p % 2 = 0 /\ p < LineClocks /\ p < OddClocks /\ p >= 2
  BY Positions
<1> QED
  BY <1>1, <1>2, <1>3

\* Two clocks on, exactly the events whose position has been reached are due.
LEMMA DueAtItsPosition ==
  ASSUME TimingInv
  PROVE  /\ "setup" \in Due(Place + 2) <=> v = 0 /\ Place + 2 = setupPos
         /\ "refresh" \in Due(Place + 2) <=> Place + 2 = refreshPos
         /\ "line" \in steady =>
              /\ "render" \in Due(Place + 2) <=> v > 0 /\ v < vdisp /\ Place + 2 = RenderPos
              /\ "hdma" \in Due(Place + 2) <=> v < vdisp /\ Place + 2 = HdmaPos
<1>1. \A p \in {setupPos, RenderPos, HdmaPos, refreshPos} :
        p \in Nat /\ p % 2 = 0
  BY Thresholds DEF TimingInv
<1>2. PICK a : a = Place
  OBVIOUS
<1>3. a \in Nat /\ a % 2 = 0
  BY <1>2 DEF TimingInv, BeamPlace
<1>4. \A p \in {setupPos, RenderPos, HdmaPos, refreshPos} :
        a + 2 >= p /\ ~(a >= p) <=> a + 2 = p
  BY <1>1, <1>3, NoneJumped
<1>5. v \in Nat /\ vdisp \in Nat
  BY FieldNumbers DEF TimingInv, Types
<1>6. "refresh" \in Due(a + 2) <=> a + 2 = refreshPos
  BY <1>2, <1>4, DueEvents DEF TimingInv, FiredInTime
<1>7. "setup" \in Due(a + 2) <=> v = 0 /\ a + 2 = setupPos
  BY <1>2, <1>4, <1>5, DueEvents DEF TimingInv, FiredInTime
<1>8. ASSUME "line" \in steady
      PROVE  /\ "render" \in Due(a + 2) <=> v > 0 /\ v < vdisp /\ a + 2 = RenderPos
             /\ "hdma" \in Due(a + 2) <=> v < vdisp /\ a + 2 = HdmaPos
  BY <1>2, <1>4, <1>8, DueEvents DEF TimingInv, FiredInTime
<1> QED
  BY <1>2, <1>6, <1>7, <1>8

\* At the end of a line all its events have happened; what overscan decides may
\* still come if it was switched on the line.
LEMMA LineIsComplete ==
  ASSUME TimingInv, Place + 2 >= hperiod
  PROVE  /\ Place + 2 = hperiod
         /\ "refresh" \in fired /\ "setup" \in fired
         /\ Due(Place + 2) \subseteq {"render", "hdma"}
         /\ "line" \in steady =>
              /\ "render" \in fired <=> v > 0 /\ v < vdisp
              /\ "hdma" \in fired <=> v < vdisp
              /\ Due(Place + 2) = {}
<1>1. PICK a : a = Place
  OBVIOUS
<1>2. a \in Nat /\ a % 2 = 0 /\ a + 2 = hperiod /\ hperiod \in Nat
  BY <1>1, Thresholds DEF TimingInv, BeamPlace
<1>3. \A p \in {setupPos, RenderPos, HdmaPos, refreshPos} :
        p \in Nat /\ p % 2 = 0 /\ p < hperiod
  BY Thresholds DEF TimingInv
<1>4. \A p \in {setupPos, RenderPos, HdmaPos, refreshPos} : a >= p /\ a + 2 # p
  BY <1>2, <1>3, NoneJumped
<1>5. "refresh" \in fired /\ "setup" \in fired
  BY <1>1, <1>4 DEF TimingInv, FiredInTime
<1>6. Due(a + 2) \subseteq {"render", "hdma"}
  BY <1>5, DueEvents DEF Events
<1>7. ASSUME "line" \in steady
      PROVE  /\ "render" \in fired <=> v > 0 /\ v < vdisp
             /\ "hdma" \in fired <=> v < vdisp
  BY <1>1, <1>4, <1>7 DEF TimingInv, FiredInTime
<1>8. ASSUME "line" \in steady
      PROVE  "render" \notin Due(a + 2) /\ "hdma" \notin Due(a + 2)
  BY <1>1, <1>4, <1>8, DueAtItsPosition
<1> QED
  BY <1>1, <1>2, <1>5, <1>6, <1>7, <1>8

\* The wrap into a field comes after exactly as many lines as it has.
LEMMA FieldEnds ==
  ASSUME TimingInv
  PROVE  /\ v + 1 >= VPeriodAt(v + 1) => v + 1 = VPeriodAt(v + 1) /\ v + 1 >= FieldLines
         /\ VPeriodAt(v + 1) \in {FieldLines, FieldLines + 1}
         /\ v + 1 < CaptureLine => VPeriodAt(v + 1) = FieldLines
BY FieldNumbers DEF TimingInv, Types, BeamPlace, VPeriodAt

-----------------------------------------------------------------------------
(***************************************************************************)
(* A tick.  Whether it finishes a half tick or is a whole one, it moves    *)
(* the beam by two clocks.                                                 *)
(***************************************************************************)
Tick(c) ==
  /\ c \in {1, 2}
  /\ TickOnce(c)
  /\ h + c = Place + 2 /\ elapsed + c = divider + 2
  /\ half' = FALSE
  /\ UNCHANGED <<interlace, vdisp>>

LEMMA TicksAreAlike ==
  ASSUME TimingInv
  PROVE  /\ FinishHalf => Tick(1)
         /\ Whole => Tick(2)
<1>1. h \in Nat /\ divider \in Nat
  BY DEF TimingInv, Types
<1>2. ASSUME FinishHalf
      PROVE  Tick(1)
  <2>1. half /\ elapsed = divider + 1 /\ Place = h - 1
    BY <1>2 DEF FinishHalf, TimingInv, BeamPlace, Place
  <2>2. TickOnce(1) /\ half' = FALSE /\ UNCHANGED <<interlace, vdisp>>
    BY <1>2, Zenon DEF FinishHalf, Rest
  <2> QED
    BY <1>1, <2>1, <2>2 DEF Tick
<1>3. ASSUME Whole
      PROVE  Tick(2)
  <2>1. ~half /\ elapsed = divider /\ Place = h
    BY <1>3 DEF Whole, TimingInv, BeamPlace, Place
  <2>2. TickOnce(2) /\ half' = half /\ UNCHANGED <<interlace, vdisp>>
    BY <1>3, Zenon DEF Whole
  <2>3. half' = FALSE
    BY <2>1, <2>2 DEF TimingInv, Types
  <2> QED
    BY <1>1, <2>1, <2>2, <2>3 DEF Tick
<1> QED
  BY <1>2, <1>3

LEMMA TickOfTheClock ==
  ASSUME TimingInv, NEW c, Tick(c)
  PROVE  /\ divider' = (divider + 2) % JoyClocks /\ elapsed' = divider'
         /\ divider' \in Nat /\ divider' < JoyClocks /\ divider' % 2 = 0
         /\ elapsed' % 8 \in Offsets
<1>1. JoyClocks \in Nat /\ JoyClocks % 2 = 0 /\ JoyClocks >= 8
  BY LineNumbers
<1>2. divider \in Nat /\ divider < JoyClocks /\ divider % 2 = 0
  BY DEF TimingInv, Types
<1>3. divider' = (divider + 2) % JoyClocks /\ elapsed' = (elapsed + c) % JoyClocks
  BY DEF Tick, TickOnce
<1>4. elapsed' = divider'
  BY <1>3 DEF Tick
<1>5. divider + 2 = JoyClocks \/ divider + 2 < JoyClocks
  BY <1>1, <1>2, NoneJumped
<1>6. divider' = IF divider + 2 = JoyClocks THEN 0 ELSE divider + 2
  BY <1>1, <1>2, <1>3, <1>5
<1>7. divider' \in Nat /\ divider' < JoyClocks /\ divider' % 2 = 0
  BY <1>1, <1>2, <1>5, <1>6
<1> QED
  BY <1>3, <1>4, <1>7, EvenRemainder

\* A tick within a line.
LEMMA TickStays ==
  ASSUME TimingInv, NEW c, Tick(c), Place + 2 < hperiod
  PROVE  /\ h' = Place + 2 /\ Place' = Place + 2
         /\ fired' = fired \cup Due(Place + 2)
         /\ UNCHANGED <<v, field, vperiod, hperiod, setupPos, refreshPos, steady>>
         /\ out' = Due(Place + 2) \cup Calls(Place + 2)
<1>1. Place \in Nat /\ hperiod \in Nat
  BY Thresholds DEF TimingInv, BeamPlace
<1>2. ~LineOver(Place + 2)
  BY <1>1 DEF LineOver
<1>3. /\ h' = Place + 2
      /\ fired' = fired \cup Due(Place + 2)
      /\ UNCHANGED <<v, field, vperiod, hperiod, setupPos, refreshPos>>
  BY <1>2 DEF Tick, TickOnce
<1>4. steady' = steady /\ out' = Due(Place + 2) \cup Calls(Place + 2)
  BY <1>3 DEF Tick, TickOnce
<1>5. Place' = h'
  BY DEF Tick, Place
<1> QED
  BY <1>3, <1>4, <1>5

\* The tick that ends a line.
LEMMA TickTurns ==
  ASSUME TimingInv, NEW c, Tick(c), Place + 2 >= hperiod
  PROVE  /\ h' = 0 /\ Place' = 0
         /\ v' = (IF v + 1 >= VPeriodAt(v + 1) THEN 0 ELSE v + 1) /\ v' # v
         /\ field' = IF v' = 0 THEN ~field ELSE field
         /\ vperiod' = IF v' = 0 THEN FieldLines ELSE VPeriodAt(v + 1)
         /\ setupPos' = IF v' = 0 THEN SetupBase + (elapsed' % 8) ELSE setupPos
         /\ hperiod' = HPeriodOf(v', field')
         /\ refreshPos' = RefreshBase - (elapsed' % 8)
         /\ fired' = IF v' = 0 THEN {} ELSE {"setup"}
         /\ steady' = steady \cup (IF v' = 0 THEN {"line", "field"} ELSE {"line"})
         /\ out' = Due(Place + 2) \cup Calls(0) \cup LineCalls
<1>1. Place \in Nat /\ hperiod \in Nat /\ Place + 2 = hperiod
  BY Thresholds, LineIsComplete DEF TimingInv, BeamPlace
<1>2. LineOver(Place + 2)
  BY <1>1 DEF LineOver
<1>3. h' = 0 /\ Scanline(Due(Place + 2))
  BY <1>1, <1>2 DEF Tick, TickOnce
<1>4. v \in Nat
  BY DEF TimingInv, Types
<1>5. v' = (IF v + 1 >= VPeriodAt(v + 1) THEN 0 ELSE v + 1)
  BY <1>3 DEF Scanline
<1>6. (v' = 0 <=> v + 1 >= VPeriodAt(v + 1)) /\ v' # v
  BY <1>4, <1>5, FieldEnds, FieldNumbers
<1>7. /\ field' = IF v' = 0 THEN ~field ELSE field
      /\ vperiod' = IF v' = 0 THEN FieldLines ELSE VPeriodAt(v + 1)
      /\ setupPos' = IF v' = 0 THEN SetupBase + (elapsed' % 8) ELSE setupPos
      /\ hperiod' = HPeriodOf(v', field')
      /\ refreshPos' = RefreshBase - (elapsed' % 8)
      /\ fired' = (fired \cup Due(Place + 2)) \cap (IF v' = 0 THEN {} ELSE {"setup"})
  BY <1>3, <1>6 DEF Scanline
<1>8. fired' = IF v' = 0 THEN {} ELSE {"setup"}
  BY <1>7, LineIsComplete
<1>9. /\ steady' = steady \cup (IF v' = 0 THEN {"line", "field"} ELSE {"line"})
      /\ out' = Due(Place + 2) \cup Calls(0) \cup LineCalls
  BY <1>3, <1>6 DEF Tick, TickOnce
<1>10. Place' = h'
  BY DEF Tick, Place
<1> QED
  BY <1>3, <1>5, <1>6, <1>7, <1>8, <1>9, <1>10

\* What the history counts at a tick.
LEMMA TickCounts ==
  ASSUME TimingInv, NEW c, Tick(c)
  PROVE  /\ count' \in [Events \cup {"vblank"} -> 0 .. 2]
         /\ Place + 2 < hperiod =>
              /\ \A e \in Events : count'[e] = IF e \in Due(Place + 2) THEN Twice(count[e]) ELSE count[e]
              /\ count'["vblank"] = count["vblank"]
         /\ Place + 2 >= hperiod =>
              /\ \A e \in Events : count'[e] = 0
              /\ count'["vblank"] = IF v' = 0 THEN 0
                                    ELSE IF v' = vdisp THEN Twice(count["vblank"]) ELSE count["vblank"]
<1> DEFINE due == Due(Place + 2)
<1>1. count \in [Events \cup {"vblank"} -> 0 .. 2]
  BY DEF TimingInv, Types
<1>2. \A k \in 0 .. 2 : Twice(k) \in 0 .. 2
  BY DEF Twice
<1>3. count' = [e \in Events \cup {"vblank"} |->
           IF e = "vblank" THEN IF v' # v /\ v' = 0 THEN 0
                                ELSE IF e \in out' THEN Twice(count[e]) ELSE count[e]
           ELSE IF v' # v THEN 0 ELSE Seen(due)[e]]
  BY <1>1 DEF Tick, TickOnce
<1>4. \A e \in Events : Seen(due)[e] = IF e \in due THEN Twice(count[e]) ELSE count[e]
  BY DEF Seen
<1>5. "vblank" \notin Events
  BY DEF Events
<1> HIDE DEF due
<1>6. /\ count'["vblank"] = IF v' # v /\ v' = 0 THEN 0
                            ELSE IF "vblank" \in out' THEN Twice(count["vblank"]) ELSE count["vblank"]
      /\ \A e \in Events : count'[e] = IF v' # v THEN 0
                                       ELSE IF e \in due THEN Twice(count[e]) ELSE count[e]
  BY <1>3, <1>4, <1>5
<1>7. \A x : "vblank" \notin Calls(x)
  BY DEF Calls
<1>8. "vblank" \notin due
  BY <1>5, DueEvents DEF due
<1>9. ASSUME Place + 2 < hperiod
      PROVE  v' = v /\ "vblank" \notin out'
  BY <1>7, <1>8, <1>9, TickStays DEF due
<1>10. ASSUME Place + 2 >= hperiod
       PROVE  v' # v /\ ("vblank" \in out' <=> v' # 0 /\ v' = vdisp)
  <2>1. v' # v /\ out' = due \cup Calls(0) \cup LineCalls
    BY <1>10, TickTurns DEF due
  <2>2. vdisp' = vdisp
    BY DEF Tick
  <2> QED
    BY <2>1, <1>7, <1>8 DEF LineCalls
<1>11. count' \in [Events \cup {"vblank"} -> 0 .. 2]
  <2>1. \A e \in Events \cup {"vblank"} : count'[e] \in 0 .. 2
    BY <1>1, <1>2, <1>6
  <2> QED
    BY <1>3, <2>1
<1> QED
  BY <1>6, <1>9, <1>10, <1>11 DEF due

-----------------------------------------------------------------------------
(***************************************************************************)
(* The invariant.                                                          *)
(***************************************************************************)
LEMMA TimingInitially == Init => TimingInv
<1> SUFFICES ASSUME Init PROVE TimingInv
  OBVIOUS
<1>1. /\ SetupBase \in Nat /\ SetupBase >= 2 /\ RefreshBase \in Nat /\ RefreshBase >= 8
      /\ RenderPos \in Nat /\ RenderPos >= 2 /\ HdmaPos \in Nat /\ HdmaPos >= 2
      /\ LineClocks \in Nat /\ LineClocks >= 2 /\ JoyClocks \in Nat /\ JoyClocks >= 8
  BY LineNumbers
<1>2. vdisp \in VDisps /\ vdisp \in Nat /\ vdisp >= 2 /\ FieldLines \in Nat /\ FieldLines > 0
  BY FieldNumbers DEF Init
<1>3. setupPos = SetupBase + 0 /\ refreshPos = RefreshBase - 0 /\ 0 \in Offsets
  BY <1>1 DEF Init, Offsets
<1>4. setupPos \in {SetupBase + i : i \in Offsets} /\ refreshPos \in {RefreshBase - i : i \in Offsets}
  BY <1>3
<1>5. count = [e \in Events \cup {"vblank"} |-> 0]
  BY DEF Init
<1>6. Types
  <2>1. count \in [Events \cup {"vblank"} -> 0 .. 2]
    BY <1>5
  <2>2. /\ h = 0 /\ v = 0 /\ half = FALSE /\ field = FALSE /\ interlace = FALSE
        /\ vperiod = FieldLines /\ hperiod = LineClocks /\ divider = 0
        /\ fired = {} /\ steady = {"line", "field"}
    BY DEF Init
  <2>3. divider \in Nat /\ divider < JoyClocks /\ divider % 2 = 0 /\ h \in Nat /\ v \in Nat
    BY <1>1, <2>2
  <2>4. fired \in SUBSET Events /\ steady \in SUBSET {"line", "field"}
    BY <2>2
  <2>5. half \in BOOLEAN /\ field \in BOOLEAN /\ interlace \in BOOLEAN
    BY <2>2
  <2>6. vdisp \in VDisps /\ vperiod \in {FieldLines, FieldLines + 1} /\ hperiod \in {LineClocks, OddClocks}
    BY <1>2, <2>2
  <2> QED
    BY <1>4, <2>1, <2>3, <2>4, <2>5, <2>6 DEF Types
<1>7. Place = 0
  BY DEF Init, Place
<1>8. BeamPlace
  BY <1>1, <1>2, <1>7 DEF Init, BeamPlace
<1>9. FiredInTime
  BY <1>1, <1>2, <1>7 DEF Init, FiredInTime
<1>10. Counted
  BY <1>2, <1>5 DEF Init, Counted, Events
<1> QED
  BY <1>6, <1>8, <1>9, <1>10 DEF TimingInv

LEMMA StayKeeps ==
  ASSUME TimingInv, NEW c, Tick(c), Place + 2 < hperiod
  PROVE  TimingInv'
<1>1. PICK a : a = Place
  OBVIOUS
<1>2. /\ a \in Nat /\ a % 2 = 0 /\ hperiod \in Nat /\ hperiod % 2 = 0
      /\ \A p \in {setupPos, RenderPos, HdmaPos, refreshPos} :
           p \in Nat /\ p % 2 = 0
  BY <1>1, Thresholds DEF TimingInv, BeamPlace
<1>3. /\ h' = a + 2 /\ Place' = a + 2
      /\ fired' = fired \cup Due(a + 2)
      /\ UNCHANGED <<v, field, vperiod, hperiod, setupPos, refreshPos, steady>>
      /\ half' = FALSE /\ UNCHANGED <<interlace, vdisp>>
  BY <1>1, TickStays DEF Tick
<1>4. Due(a + 2) \subseteq Events \ fired
  BY DueEvents
<1>5. Types'
  <2>1. count' \in [Events \cup {"vblank"} -> 0 .. 2]
    BY TickCounts
  <2>2. divider' \in Nat /\ divider' < JoyClocks /\ divider' % 2 = 0
    BY TickOfTheClock
  <2>3. /\ v' \in Nat /\ half' \in BOOLEAN /\ field' \in BOOLEAN /\ interlace' \in BOOLEAN
        /\ vdisp' \in VDisps /\ vperiod' \in {FieldLines, FieldLines + 1}
        /\ hperiod' \in {LineClocks, OddClocks}
        /\ setupPos' \in {SetupBase + i : i \in Offsets}
        /\ refreshPos' \in {RefreshBase - i : i \in Offsets}
        /\ steady' \in SUBSET {"line", "field"}
    BY <1>3 DEF TimingInv, Types
  <2>4. fired' \in SUBSET Events
    BY <1>3, <1>4 DEF TimingInv, Types
  <2>5. h' \in Nat
    BY <1>2, <1>3
  <2> QED
    BY <2>1, <2>2, <2>3, <2>4, <2>5 DEF Types
<1>6. BeamPlace'
  <2>1. a + 2 + 2 <= hperiod /\ (a + 2) % 2 = 0
    BY <1>1, <1>2, NoneJumped
  <2>2. elapsed' = divider'
    BY TickOfTheClock
  <2> QED
    BY <1>2, <1>3, <2>1, <2>2 DEF TimingInv, BeamPlace
<1>7. FiredInTime'
  <2>1. "refresh" \in fired' <=> a + 2 >= refreshPos
    BY <1>1, <1>2, <1>3, DueEvents DEF TimingInv, FiredInTime
  <2>2. "setup" \in fired' <=> v > 0 \/ a + 2 >= setupPos
    <3>1. v \in Nat
      BY DEF TimingInv, Types
    <3> QED
      BY <1>1, <1>2, <1>3, <3>1, DueEvents DEF TimingInv, FiredInTime
  <2>3. ASSUME "line" \in steady
        PROVE  /\ "render" \in fired' <=> v > 0 /\ v < vdisp /\ a + 2 >= RenderPos
               /\ "hdma" \in fired' <=> v < vdisp /\ a + 2 >= HdmaPos
    BY <1>1, <1>2, <1>3, <2>3, DueEvents DEF TimingInv, FiredInTime
  <2> QED
    BY <1>3, <2>1, <2>2, <2>3 DEF FiredInTime
<1>8. Counted'
  <2>1. /\ \A e \in Events : count'[e] = IF e \in Due(a + 2) THEN Twice(count[e]) ELSE count[e]
        /\ count'["vblank"] = count["vblank"]
    BY <1>1, TickCounts
  <2>2. \A e \in {"render", "hdma", "refresh"} : count'[e] = IF e \in fired' THEN 1 ELSE 0
    BY <1>3, <1>4, <2>1 DEF TimingInv, Counted, Events, Twice
  <2>3. count'["setup"] = IF v = 0 /\ "setup" \in fired' THEN 1 ELSE 0
    <3>1. "setup" \in Due(a + 2) => v = 0
      BY DueEvents
    <3> QED
      BY <1>3, <1>4, <2>1, <3>1 DEF TimingInv, Counted, Events, Twice
  <2> QED
    BY <1>3, <2>1, <2>2, <2>3 DEF TimingInv, Counted
<1> QED
  BY <1>5, <1>6, <1>7, <1>8 DEF TimingInv

LEMMA TurnKeeps ==
  ASSUME TimingInv, NEW c, Tick(c), Place + 2 >= hperiod
  PROVE  TimingInv'
<1>1. /\ h' = 0 /\ Place' = 0
      /\ v' = (IF v + 1 >= VPeriodAt(v + 1) THEN 0 ELSE v + 1) /\ v' # v
      /\ field' = IF v' = 0 THEN ~field ELSE field
      /\ vperiod' = IF v' = 0 THEN FieldLines ELSE VPeriodAt(v + 1)
      /\ setupPos' = IF v' = 0 THEN SetupBase + (elapsed' % 8) ELSE setupPos
      /\ hperiod' = HPeriodOf(v', field')
      /\ refreshPos' = RefreshBase - (elapsed' % 8)
      /\ fired' = IF v' = 0 THEN {} ELSE {"setup"}
      /\ steady' = steady \cup (IF v' = 0 THEN {"line", "field"} ELSE {"line"})
  BY TickTurns
<1>2. half' = FALSE /\ UNCHANGED <<interlace, vdisp>>
  BY DEF Tick
<1>3. /\ v \in Nat /\ vdisp \in VDisps /\ vdisp \in Nat /\ vdisp >= 2 /\ vdisp < FieldLines
      /\ FieldLines \in Nat /\ CaptureLine \in Nat /\ CaptureLine >= 1
  BY FieldNumbers DEF TimingInv, Types
<1>4. v' \in Nat /\ (v' # 0 => v' = v + 1 /\ v + 1 < VPeriodAt(v + 1))
  BY <1>1, <1>3, FieldEnds
<1>5. elapsed' % 8 \in Offsets /\ elapsed' = divider'
  BY TickOfTheClock
<1>6. Types'
  <2>1. count' \in [Events \cup {"vblank"} -> 0 .. 2]
    BY TickCounts
  <2>2. divider' \in Nat /\ divider' < JoyClocks /\ divider' % 2 = 0
    BY TickOfTheClock
  <2>3. hperiod' \in {LineClocks, OddClocks}
    BY <1>1 DEF HPeriodOf
  <2>4. setupPos' \in {SetupBase + i : i \in Offsets} /\ refreshPos' \in {RefreshBase - i : i \in Offsets}
    BY <1>1, <1>5 DEF TimingInv, Types
  <2>5. vperiod' \in {FieldLines, FieldLines + 1}
    BY <1>1, FieldEnds
  <2>6. steady' \in SUBSET {"line", "field"} /\ fired' \in SUBSET Events
    BY <1>1 DEF TimingInv, Types, Events
  <2>7. field' \in BOOLEAN /\ interlace' \in BOOLEAN /\ half' \in BOOLEAN
    BY <1>1, <1>2 DEF TimingInv, Types
  <2> QED
    BY <1>1, <1>2, <1>3, <1>4, <2>1, <2>2, <2>3, <2>4, <2>5, <2>6, <2>7 DEF Types
<1>7. /\ hperiod' >= 2
      /\ \A p \in {setupPos', RenderPos, HdmaPos, refreshPos'} : p \in Nat /\ p >= 2
  <2>1. /\ \A p \in {RenderPos, HdmaPos, LineClocks, OddClocks} : p \in Nat /\ p >= 2
    BY LineNumbers
  <2>2. /\ setupPos' \in Nat /\ setupPos' >= 2 /\ refreshPos' \in Nat /\ refreshPos' >= 2
    <3>1. PICK i \in Offsets : setupPos' = SetupBase + i
      BY <1>6 DEF Types
    <3>2. PICK j \in Offsets : refreshPos' = RefreshBase - j
      BY <1>6 DEF Types
    <3>3. SetupBase \in Nat /\ SetupBase >= 2 /\ RefreshBase \in Nat /\ RefreshBase >= 8
      BY LineNumbers
    <3> QED
      BY <3>1, <3>2, <3>3 DEF Offsets
  <2> QED
    BY <1>6, <2>1, <2>2 DEF Types
<1>8. BeamPlace'
  <2>1. v' < vperiod' /\ (v' < CaptureLine => vperiod' = FieldLines)
    BY <1>1, <1>3, <1>4, FieldEnds
  <2> QED
    BY <1>1, <1>2, <1>5, <1>7, <2>1 DEF BeamPlace
<1>9. FiredInTime'
  BY <1>1, <1>4, <1>7 DEF FiredInTime
<1>10. Counted'
  <2>1. /\ \A e \in Events : count'[e] = 0
        /\ count'["vblank"] = IF v' = 0 THEN 0
                              ELSE IF v' = vdisp THEN Twice(count["vblank"]) ELSE count["vblank"]
    BY TickCounts
  <2>2. \A e \in {"render", "hdma", "refresh"} : count'[e] = IF e \in fired' THEN 1 ELSE 0
    BY <1>1, <2>1 DEF Events
  <2>3. count'["setup"] = IF v' = 0 /\ "setup" \in fired' THEN 1 ELSE 0
    BY <1>1, <2>1 DEF Events
  <2>4. ASSUME "field" \in steady'
        PROVE  count'["vblank"] = IF v' >= vdisp THEN 1 ELSE 0
    <3>1. CASE v' = 0
      BY <1>3, <2>1, <3>1
    <3>2. CASE v' # 0
      <4>1. count["vblank"] = IF v >= vdisp THEN 1 ELSE 0
        BY <1>1, <2>4, <3>2 DEF TimingInv, Counted
      <4> QED
        BY <1>3, <1>4, <2>1, <3>2, <4>1 DEF Twice
    <3> QED
      BY <3>1, <3>2
  <2> QED
    BY <1>2, <2>2, <2>3, <2>4 DEF Counted
<1> QED
  BY <1>6, <1>8, <1>9, <1>10 DEF TimingInv

LEMMA TimingStep == TimingInv /\ [Next]_vars => TimingInv'
<1> SUFFICES ASSUME TimingInv, [Next]_vars PROVE TimingInv'
  OBVIOUS
<1>1. ASSUME NEW c, Tick(c)
      PROVE  TimingInv'
  <2>1. Place \in Nat /\ hperiod \in Nat
    BY Thresholds DEF TimingInv, BeamPlace
  <2>2. CASE Place + 2 < hperiod
    BY <1>1, <2>2, StayKeeps
  <2>3. CASE Place + 2 >= hperiod
    BY <1>1, <2>3, TurnKeeps
  <2> QED
    BY <2>1, <2>2, <2>3
<1>2. CASE FinishHalf
  BY <1>1, <1>2, TicksAreAlike
<1>3. CASE Whole
  BY <1>1, <1>3, TicksAreAlike
<1>4. CASE LeaveHalf
  <2>1. /\ h' = h + 1 /\ half' = TRUE /\ ~half /\ elapsed' = (elapsed + 1) % JoyClocks
        /\ UNCHANGED <<v, field, vperiod, hperiod, setupPos, refreshPos, fired,
                       interlace, vdisp, divider, count, steady>>
    BY <1>4 DEF LeaveHalf
  <2>2. h \in Nat /\ Place = h /\ Place' = h
    BY <2>1 DEF TimingInv, Types, Place
  <2>3. elapsed' = divider + 1
    <3>1. JoyClocks \in Nat /\ JoyClocks % 2 = 0
      BY LineNumbers
    <3>2. elapsed = divider /\ divider \in Nat /\ divider % 2 = 0 /\ divider < JoyClocks
      BY <2>1 DEF TimingInv, Types, BeamPlace
    <3>3. divider + 1 < JoyClocks
      BY <3>1, <3>2, NoneJumped
    <3> QED
      BY <2>1, <3>1, <3>2, <3>3
  <2>4. Types'
    BY <2>1, <2>2 DEF TimingInv, Types
  <2>5. BeamPlace'
    BY <2>1, <2>2, <2>3 DEF TimingInv, BeamPlace
  <2>6. FiredInTime'
    BY <2>1, <2>2 DEF TimingInv, FiredInTime
  <2>7. Counted'
    BY <2>1 DEF TimingInv, Counted
  <2> QED
    BY <2>4, <2>5, <2>6, <2>7 DEF TimingInv
<1>5. ASSUME NEW d \in VDisps, SetVDisp(d)
      PROVE  TimingInv'
  <2>1. /\ vdisp' = d /\ steady' = {}
        /\ UNCHANGED <<h, v, field, vperiod, hperiod, setupPos, refreshPos, fired,
                       interlace, elapsed, divider, half, count>>
    BY <1>5 DEF SetVDisp, position
  <2>2. Place' = Place
    BY <2>1 DEF Place
  <2> QED
    BY <1>5, <2>1, <2>2 DEF TimingInv, Types, BeamPlace, FiredInTime, Counted
<1>6. ASSUME \/ \E n \in Batches : Advance(n)
             \/ Drain
             \/ UNCHANGED vars
      PROVE  TimingInv'
  <2>1. /\ interlace' \in BOOLEAN
        /\ UNCHANGED <<h, v, field, vperiod, hperiod, setupPos, refreshPos, fired,
                       vdisp, elapsed, divider, half, count, steady>>
    BY <1>6 DEF TimingInv, Types, Advance, Drain, vars, position
  <2>2. Place' = Place
    BY <2>1 DEF Place
  <2> QED
    BY <2>1, <2>2 DEF TimingInv, Types, BeamPlace, FiredInTime, Counted
<1> QED
  BY <1>2, <1>3, <1>4, <1>5, <1>6 DEF Next

LEMMA TimingInvariant == Spec => []TimingInv
BY TimingInitially, TimingStep, PTL DEF Spec

-----------------------------------------------------------------------------
(***************************************************************************)
(* The theorems.                                                           *)
(***************************************************************************)
\* Whatever the lengths of lines and fields, the batches of clocks and the
\* switches of overscan, a line has one refresh, at most one transfer and one
\* rendering, the first line of a field its setup, and a field left alone one
\* VBlank: the flags and thresholds of tickOnce neither repeat nor skip an event.
THEOREM LinesAreComplete == Spec => LineEvents
<1>1. TimingInv /\ TimingInv' /\ [Next]_vars =>
        [/\ v' # v /\ v' = 0 /\ "field" \in steady => count["vblank"] = 1
         /\ \A e \in Events : count'[e] < 2
         /\ v' # v =>
              /\ count["refresh"] = 1
              /\ v = 0 => count["setup"] = 1
              /\ "line" \in steady =>
                   /\ count["hdma"] = IF v < vdisp THEN 1 ELSE 0
                   /\ count["render"] = IF v > 0 /\ v < vdisp THEN 1 ELSE 0]_vars
  <2> SUFFICES ASSUME TimingInv, TimingInv', Next
               PROVE  /\ v' # v /\ v' = 0 /\ "field" \in steady => count["vblank"] = 1
                      /\ \A e \in Events : count'[e] < 2
                      /\ v' # v =>
                           /\ count["refresh"] = 1
                           /\ v = 0 => count["setup"] = 1
                           /\ "line" \in steady =>
                                /\ count["hdma"] = IF v < vdisp THEN 1 ELSE 0
                                /\ count["render"] = IF v > 0 /\ v < vdisp THEN 1 ELSE 0
    BY Zenon
  <2>1. \A e \in Events : count'[e] < 2
    BY DEF TimingInv, Counted, Events
  <2>2. ASSUME v' # v
        PROVE  /\ v' = 0 /\ "field" \in steady => count["vblank"] = 1
               /\ count["refresh"] = 1
               /\ v = 0 => count["setup"] = 1
               /\ "line" \in steady =>
                    /\ count["hdma"] = IF v < vdisp THEN 1 ELSE 0
                    /\ count["render"] = IF v > 0 /\ v < vdisp THEN 1 ELSE 0
    <3>1. PICK c : Tick(c)
      BY <2>2, TicksAreAlike DEF Next, Advance, LeaveHalf, Drain, SetVDisp, position
    <3>2. Place \in Nat /\ hperiod \in Nat
      BY Thresholds DEF TimingInv, BeamPlace
    <3>3. Place + 2 >= hperiod
      BY <2>2, <3>1, <3>2, TickStays
    <3>4. /\ "refresh" \in fired /\ "setup" \in fired
          /\ "line" \in steady =>
               /\ "render" \in fired <=> v > 0 /\ v < vdisp
               /\ "hdma" \in fired <=> v < vdisp
      BY <3>3, LineIsComplete
    <3>5. ASSUME v' = 0, "field" \in steady
          PROVE  count["vblank"] = 1
      <4>1. v' = IF v + 1 >= VPeriodAt(v + 1) THEN 0 ELSE v + 1
        BY <3>1, <3>3, TickTurns
      <4>2. v \in Nat /\ vdisp \in Nat /\ vdisp < FieldLines /\ FieldLines \in Nat
        BY FieldNumbers DEF TimingInv, Types
      <4>3. v + 1 >= FieldLines
        BY <3>5, <4>1, <4>2, FieldEnds
      <4> QED
        BY <3>5, <4>2, <4>3 DEF TimingInv, Counted
    <3> QED
      BY <3>4, <3>5 DEF TimingInv, Counted
  <2> QED
    BY <2>1, <2>2
<1> QED
  BY <1>1, TimingInvariant, PTL DEF Spec, LineEvents

-----------------------------------------------------------------------------
LEMMA BeamBegins == Init => PlainBeam!BeamInit
<1> SUFFICES ASSUME Init PROVE PlainBeam!BeamInit
  OBVIOUS
<1>1. SetupBase \in Nat /\ RefreshBase \in Nat
  BY LineNumbers
<1>2. vdisp \in 2 .. FieldLines - 1
  BY TimingAssumption DEF TimingAssumption, Init
<1> QED
  BY <1>1, <1>2 DEF Init, PlainBeam!BeamInit

\* The calls of a tick are the polls of the beam.
LEMMA PollsOfTheBeam ==
  ASSUME NEW x \in Nat, x % 2 = 0
  PROVE  Calls(x) = PlainBeam!Polls(x)
<1>1. x % 4 \in {2, 3} <=> x % 4 = 2
  OBVIOUS
<1> QED
  BY <1>1 DEF Calls, PlainBeam!Polls

\* Within a line a tick causes what belongs to its position, and late at most
\* what overscan decides.
LEMMA CausedByATick ==
  ASSUME TimingInv
  PROVE  \E late \in PlainBeam!Late : Due(Place + 2) = PlainBeam!Caused(Place + 2, v) \cup late
<1> DEFINE due == Due(Place + 2)
           at == PlainBeam!At(Place + 2, v)
<1>1. due \subseteq Events /\ at \subseteq Events
  BY DueEvents, Zenon DEF PlainBeam!At, PlainBeam!Events, Events
<1>2. PICK i, j : i \in Nat /\ j \in Nat /\ SetupBase \in Nat /\ RefreshBase \in Nat
                  /\ setupPos = SetupBase + i /\ refreshPos = RefreshBase - j
  BY LineNumbers DEF TimingInv, Types, Offsets
<1>3. SetupBase + (setupPos - SetupBase) = setupPos /\ RefreshBase - (RefreshBase - refreshPos) = refreshPos
  BY <1>2
<1>4. /\ "setup" \in at <=> v = 0 /\ Place + 2 = setupPos
      /\ "render" \in at <=> v > 0 /\ v < vdisp /\ Place + 2 = RenderPos
      /\ "hdma" \in at <=> v < vdisp /\ Place + 2 = HdmaPos
      /\ "refresh" \in at <=> Place + 2 = refreshPos
  BY <1>3 DEF PlainBeam!At, PlainBeam!Events, Place
<1>5. /\ "setup" \in due <=> "setup" \in at
      /\ "refresh" \in due <=> "refresh" \in at
  BY <1>4, DueAtItsPosition, Zenon
<1>6. CASE "line" \in steady
  <2>1. /\ "render" \in due <=> "render" \in at
        /\ "hdma" \in due <=> "hdma" \in at
    BY <1>4, <1>6, DueAtItsPosition, Zenon
  <2>2. due = at
    BY <1>1, <1>5, <2>1 DEF Events
  <2> QED
    BY <1>6, <2>2 DEF PlainBeam!Late, PlainBeam!Caused, Place
<1>7. CASE "line" \notin steady
  <2> DEFINE late == due \cap {"render", "hdma"}
  <2>1. due = (at \ {"render", "hdma"}) \cup late
    BY <1>1, <1>5 DEF Events
  <2> QED
    BY <1>7, <2>1 DEF PlainBeam!Late, PlainBeam!Caused, PlainBeam!Displayed, Place
<1> QED
  BY <1>6, <1>7

LEMMA TickMovesTheBeam ==
  ASSUME TimingInv, NEW c, Tick(c), TimingInv'
  PROVE  PlainBeam!Move
<1>1. divider' = (divider + 2) % JoyClocks /\ UNCHANGED <<interlace, vdisp>>
  BY TickOfTheClock DEF Tick
<1>2. PICK late \in PlainBeam!Late : Due(Place + 2) = PlainBeam!Caused(Place + 2, v) \cup late
  BY CausedByATick
<1>3. Place \in Nat /\ Place % 2 = 0 /\ hperiod \in Nat
  BY Thresholds DEF TimingInv, BeamPlace
<1>4. (Place + 2) % 2 = 0 /\ 0 % 2 = 0
  BY <1>3
<1>5. CASE Place + 2 < hperiod
  <2>1. /\ Place' = Place + 2
        /\ UNCHANGED <<v, field, vperiod, hperiod, setupPos, refreshPos, steady>>
        /\ out' = Due(Place + 2) \cup Calls(Place + 2)
    BY <1>5, TickStays
  <2>2. Calls(Place + 2) = PlainBeam!Polls(Place + 2)
    BY <1>3, <1>4, PollsOfTheBeam
  <2>3. out' = PlainBeam!Caused(Place + 2, v) \cup PlainBeam!Polls(Place + 2) \cup late
    BY <1>2, <2>1, <2>2
  <2>4. PlainBeam!SameLine
    BY <1>2, <1>5, <2>1, <2>3 DEF PlainBeam!SameLine, Place
  <2> QED
    BY <1>1, <2>4 DEF PlainBeam!Move
<1>6. CASE Place + 2 >= hperiod
  <2>1. /\ Place' = 0
        /\ v' = (IF v + 1 >= VPeriodAt(v + 1) THEN 0 ELSE v + 1) /\ v' # v
        /\ field' = IF v' = 0 THEN ~field ELSE field
        /\ vperiod' = IF v' = 0 THEN FieldLines ELSE VPeriodAt(v + 1)
        /\ setupPos' = IF v' = 0 THEN SetupBase + (elapsed' % 8) ELSE setupPos
        /\ hperiod' = HPeriodOf(v', field')
        /\ refreshPos' = RefreshBase - (elapsed' % 8)
        /\ steady' = steady \cup (IF v' = 0 THEN {"line", "field"} ELSE {"line"})
        /\ out' = Due(Place + 2) \cup Calls(0) \cup LineCalls
    BY <1>6, TickTurns
  <2>2. /\ Place + 2 = hperiod
        /\ Due(Place + 2) \subseteq {"render", "hdma"}
        /\ "line" \in steady => Due(Place + 2) = {}
    BY <1>6, LineIsComplete
  <2>3. Due(Place + 2) \in PlainBeam!Late
    BY <2>2 DEF PlainBeam!Late, PlainBeam!Displayed
  <2>4. Calls(0) = PlainBeam!Polls(0)
    BY <1>4, PollsOfTheBeam
  <2>5. /\ "line" \in steady'
        /\ elapsed' = divider'
        /\ RefreshBase - refreshPos' = divider' % 8
    <3>1. elapsed' = divider' /\ elapsed' % 8 \in Offsets
      BY TickOfTheClock
    <3>2. PICK o \in Offsets : o = elapsed' % 8
      BY <3>1
    <3>3. RefreshBase \in Nat
      BY LineNumbers
    <3>4. refreshPos' = RefreshBase - o
      BY <2>1, <3>2
    <3>5. RefreshBase - refreshPos' = o
      BY <3>3, <3>4 DEF Offsets
    <3> QED
      BY <2>1, <3>1, <3>2, <3>5
  <2>6. VPeriodAt(v + 1) = PlainBeam!LinesOf(v + 1)
    BY DEF VPeriodAt, PlainBeam!LinesOf
  <2>7. \A y, f : HPeriodOf(y, f) = PlainBeam!WidthOf(y, f)
    BY DEF HPeriodOf, PlainBeam!WidthOf
  <2>8. v \in Nat /\ VPeriodAt(v + 1) \in Nat
    BY FieldEnds, FieldNumbers DEF TimingInv, Types
  <2>9. CASE v + 1 < VPeriodAt(v + 1)
    <3>1. /\ v' = v + 1 /\ v' # 0 /\ field' = field /\ vperiod' = VPeriodAt(v + 1)
          /\ setupPos' = setupPos
      BY <2>1, <2>8, <2>9
    <3>2. out' = PlainBeam!Polls(0) \cup Due(Place + 2) \cup (IF v + 1 = vdisp THEN {"vblank"} ELSE {})
      <4>1. LineCalls = IF v + 1 = vdisp THEN {"vblank"} ELSE {}
        BY <1>1, <3>1 DEF LineCalls
      <4> QED
        BY <2>1, <2>4, <4>1
    <3>3. hperiod' = PlainBeam!WidthOf(v + 1, field)
      BY <2>1, <2>7, <3>1
    <3>4. PlainBeam!NextLine
      BY <2>1, <2>2, <2>3, <2>5, <2>6, <2>9, <3>1, <3>2, <3>3 DEF PlainBeam!NextLine, Place
    <3> QED
      BY <1>1, <3>4 DEF PlainBeam!Move
  <2>10. CASE v + 1 >= VPeriodAt(v + 1)
    <3>1. /\ v' = 0 /\ field' = ~field /\ vperiod' = FieldLines
          /\ v + 1 = VPeriodAt(v + 1)
      BY <2>1, <2>10, FieldEnds
    <3>2. out' = PlainBeam!Polls(0) \cup Due(Place + 2) \cup {"frame"}
      BY <2>1, <2>4, <3>1 DEF LineCalls
    <3>3. hperiod' = PlainBeam!WidthOf(0, ~field)
      BY <2>1, <2>7, <3>1
    <3>4. setupPos' - SetupBase = divider' % 8
      <4>1. PICK o \in Offsets : o = elapsed' % 8
        BY TickOfTheClock
      <4>2. SetupBase \in Nat
        BY LineNumbers
      <4>3. setupPos' = SetupBase + o
        BY <2>1, <3>1, <4>1
      <4>4. setupPos' - SetupBase = o
        BY <4>2, <4>3 DEF Offsets
      <4> QED
        BY <2>5, <4>1, <4>4
    <3>5. PlainBeam!NextField
      BY <2>1, <2>2, <2>3, <2>5, <2>6, <3>1, <3>2, <3>3, <3>4 DEF PlainBeam!NextField, Place
    <3> QED
      BY <1>1, <3>5 DEF PlainBeam!Move
  <2> QED
    BY <2>8, <2>9, <2>10
<1> QED
  BY <1>3, <1>5, <1>6

LEMMA BeamSteps ==
  ASSUME TimingInv, TimingInv', [Next]_vars
  PROVE  [PlainBeam!Move \/ PlainBeam!SetInterlace \/ PlainBeam!SetOverscan]_(PlainBeam!beam)
<1>1. CASE FinishHalf
  BY <1>1, TicksAreAlike, TickMovesTheBeam
<1>2. CASE Whole
  BY <1>2, TicksAreAlike, TickMovesTheBeam
<1>3. CASE LeaveHalf \/ Drain \/ UNCHANGED vars
  <2>1. UNCHANGED <<v, field, interlace, vperiod, hperiod, setupPos, refreshPos,
                    vdisp, divider, out, steady>>
    BY <1>3 DEF LeaveHalf, Drain, vars, position
  <2>2. Place' = Place
    <3>1. \/ h' = h + 1 /\ half' = TRUE /\ ~half
          \/ h' = h /\ half' = half
      BY <1>3 DEF LeaveHalf, Drain, vars, position
    <3>2. h \in Nat
      BY DEF TimingInv, Types
    <3> QED
      BY <3>1, <3>2 DEF Place
  <2>3. UNCHANGED PlainBeam!beam
    BY <2>1, <2>2 DEF PlainBeam!beam, Place
  <2> QED
    BY <2>3
<1>4. ASSUME NEW n \in Batches, Advance(n)
      PROVE  PlainBeam!SetInterlace
  BY <1>4 DEF Advance, position, PlainBeam!SetInterlace
<1>5. ASSUME NEW d \in VDisps, SetVDisp(d)
      PROVE  PlainBeam!SetOverscan
  BY <1>5 DEF SetVDisp, position, PlainBeam!SetOverscan
<1> QED
  BY <1>1, <1>2, <1>3, <1>4, <1>5 DEF Next

\* The comment in Tick, for every clock, line and batch: odd batches, the half tick
\* they leave and the clocks stolen by refresh are invisible; the beam moves by two
\* clocks and every event happens at its one position, except what overscan decides
\* on the line on which it is switched.
THEOREM TimingImplementsBeam == Spec => BatchesDoNotMatter
<1>1. TimingInv /\ TimingInv' /\ [Next]_vars =>
        [PlainBeam!Move \/ PlainBeam!SetInterlace \/ PlainBeam!SetOverscan]_(PlainBeam!beam)
  BY BeamSteps
<1> QED
  BY <1>1, BeamBegins, TimingInvariant, PTL DEF Spec, BatchesDoNotMatter, PlainBeam!BeamSpec

=============================================================================
