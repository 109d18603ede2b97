------------------------------- MODULE Timing -------------------------------
(***************************************************************************)
(* The master clock (core/src/timing/Timing.cpp) and the loop of Emulator  *)
(* that feeds it: AdvanceClocks hands over any number of clocks, odd ones  *)
(* too, and drains the clocks that DRAM refresh steals meanwhile.  An      *)
(* action is one round of the loop of Tick.                                *)
(***************************************************************************)
EXTENDS Naturals

CONSTANTS LineClocks, OddLine, OddClocks, OddInterlace, FieldLines, CaptureLine,
          SetupBase, RenderPos, HdmaPos, RefreshBase, JoyClocks,
          RefreshClocks, \* 40
          Batches,       \* clocks of a CPU or DMA cycle
          VDisps         \* {225, 240}

Events == {"setup", "render", "hdma", "refresh"}

ASSUME TimingAssumption ==
  /\ {LineClocks, OddClocks, SetupBase, RenderPos, HdmaPos, RefreshBase, JoyClocks}
       \subseteq {2 * n : n \in 1 .. 2000}
  /\ \A p \in {SetupBase + 6, RenderPos, HdmaPos, RefreshBase} :
       p < LineClocks /\ p < OddClocks
  /\ RefreshBase > 6
  /\ FieldLines \in Nat /\ CaptureLine \in 1 .. FieldLines - 1
  /\ OddLine \in Nat /\ OddInterlace \in BOOLEAN
  /\ JoyClocks % 8 = 0
  /\ RefreshClocks \in Nat /\ RefreshClocks < LineClocks /\ RefreshClocks < OddClocks
  /\ Batches \subseteq Nat \ {0}
  /\ VDisps \subseteq 2 .. FieldLines - 1 /\ VDisps # {}

VARIABLES
  h, v, field, interlace, vdisp,
  vperiod, hperiod,
  elapsed,   \* masterClocksElapsed_ modulo JoyClocks
  divider,   \* joypadDivider_
  setupPos, refreshPos,  \* hdmaSetupPosition_, dramRefreshPosition_
  fired,     \* the events whose Fired_ flag is set
  half,      \* halfClockPending_
  left,      \* clocks still to be ticked by this call of Tick
  extra,     \* pendingExtraClocks_
  out,       \* history: what the last tickOnce has called
  count,     \* history: how often each event happened on this line, and VBlank
             \* in this field (at most 2)
  steady     \* history: vdisp was not changed on this "line", in this "field"

position == <<h, v, field, vperiod, hperiod, setupPos, refreshPos, fired>>
vars == <<position, interlace, vdisp, elapsed, divider, half, left, extra,
          out, count, steady>>

Init ==
  /\ h = 0 /\ v = 0 /\ field = FALSE /\ interlace = FALSE
  /\ vdisp \in VDisps
  /\ vperiod = FieldLines /\ hperiod = LineClocks
  /\ elapsed = 0 /\ divider = 0
  /\ setupPos = SetupBase /\ refreshPos = RefreshBase
  /\ fired = {} /\ half = FALSE /\ left = 0 /\ extra = 0
  /\ out = {} /\ count = [e \in Events \cup {"vblank"} |-> 0]
  /\ steady = {"line", "field"}

-----------------------------------------------------------------------------
\* Mutant: the Fired_ flags are forgotten.
DueAgain(x) ==
  {e \in Events :
    CASE e = "setup"   -> v = 0 /\ x >= setupPos
      [] e = "render"  -> v > 0 /\ v < vdisp /\ x >= RenderPos
      [] e = "hdma"    -> v < vdisp /\ x >= HdmaPos
      [] e = "refresh" -> x >= refreshPos}

\* The events of tickOnce that are due at x and have not fired on this line.
Due(x) ==
  {e \in Events \ fired :
    CASE e = "setup"   -> v = 0 /\ x >= setupPos
      [] e = "render"  -> v > 0 /\ v < vdisp /\ x >= RenderPos
      [] e = "hdma"    -> v < vdisp /\ x >= HdmaPos
      [] e = "refresh" -> x >= refreshPos}

\* updateHPeriod
HPeriodOf(y, f) ==
  IF y = OddLine /\ f /\ interlace = OddInterlace THEN OddClocks ELSE LineClocks

\* vperiod_ as the wrap into line y leaves it, before the frame wrap.
VPeriodAt(y) ==
  IF y # CaptureLine THEN vperiod
  ELSE IF interlace /\ ~field THEN FieldLines + 1 ELSE FieldLines

Twice(n) == IF n < 2 THEN n + 1 ELSE 2

Seen(es) == [e \in Events |-> IF e \in es THEN Twice(count[e]) ELSE count[e]]

Calls(x) == (IF x % 4 \in {2, 3} THEN {"poll"} ELSE {})
            \cup (IF divider = 0 THEN {"joypad"} ELSE {})

\* What tickScanline calls on line v'.
LineCalls == IF v' = 0 THEN {"frame"} ELSE IF v' = vdisp THEN {"vblank"} ELSE {}

\* Whether position x is past the line.
LineOver(x) == x >= hperiod

\* tickScanline, to line y.
Scanline(due) ==
  LET y == v + 1
      wraps == y >= VPeriodAt(y)
      line == IF wraps THEN 0 ELSE y
      odd == IF wraps THEN ~field ELSE field
  IN  /\ v' = line /\ field' = odd
      /\ vperiod' = IF wraps THEN FieldLines ELSE VPeriodAt(y)
      /\ setupPos' = IF wraps THEN SetupBase + (elapsed' % 8) ELSE setupPos
      /\ hperiod' = HPeriodOf(line, odd)
      /\ refreshPos' = RefreshBase - (elapsed' % 8)
      /\ fired' = (fired \cup due) \cap (IF wraps THEN {} ELSE {"setup"})

\* tickOnce(clocks).
TickOnce(clocks) ==
  LET x == h + clocks
      due == Due(x)
  IN  /\ elapsed' = (elapsed + clocks) % JoyClocks
      /\ divider' = (divider + 2) % JoyClocks
      /\ extra' = IF "refresh" \in due THEN extra + RefreshClocks ELSE extra
      /\ IF LineOver(x)
         THEN /\ h' = x - hperiod
              /\ Scanline(due)
         ELSE /\ h' = x
              /\ fired' = fired \cup due
              /\ UNCHANGED <<v, field, vperiod, hperiod, setupPos, refreshPos>>
      /\ out' = due \cup Calls(h')
                \cup (IF v' = v THEN {} ELSE LineCalls)
      /\ count' = [e \in DOMAIN count |->
           IF e = "vblank" THEN IF v' # v /\ v' = 0 THEN 0
                                ELSE IF e \in out' THEN Twice(count[e]) ELSE count[e]
           ELSE IF v' # v THEN 0 ELSE Seen(due)[e]]
      /\ steady' = IF v' = v THEN steady
                   ELSE steady \cup (IF v' = 0 THEN {"line", "field"} ELSE {"line"})

-----------------------------------------------------------------------------
(***************************************************************************)
(* AdvanceClocks and Tick.                                                 *)
(***************************************************************************)
Idle == left = 0 /\ extra = 0

\* A cycle of n clocks begins; the PPU's interlace setting is taken over.
Advance(n) ==
  /\ Idle
  /\ left' = n
  /\ interlace' \in BOOLEAN
  /\ UNCHANGED <<position, vdisp, elapsed, divider, half, extra, out, count, steady>>

\* Clocks a half tick takes to finish.  Mutant: a whole tick of them.
WholeRest == 2

Rest == 1

FinishHalf ==
  /\ half /\ left > 0
  /\ half' = FALSE
  /\ TickOnce(Rest)
  /\ left' = left - 1
  /\ UNCHANGED <<interlace, vdisp>>

Whole ==
  /\ ~half /\ left >= 2
  /\ TickOnce(2)
  /\ left' = left - 2
  /\ UNCHANGED <<interlace, vdisp, half>>

LeaveHalf ==
  /\ ~half /\ left = 1
  /\ elapsed' = (elapsed + 1) % JoyClocks
  /\ h' = h + 1
  /\ half' = TRUE
  /\ left' = 0
  /\ UNCHANGED <<v, field, vperiod, hperiod, setupPos, refreshPos, fired,
                 interlace, vdisp, divider, extra, out, count, steady>>

\* What is left to drain after a round.  Mutant: a refresh, as at its start.
Undrained == RefreshClocks

Drained == 0

Drain ==
  /\ left = 0 /\ extra > 0
  /\ left' = extra /\ extra' = Drained
  /\ UNCHANGED <<position, interlace, vdisp, elapsed, divider, half, out, count, steady>>

\* SETINI, between two cycles: SetVDisp.
SetVDisp(d) ==
  /\ Idle /\ d # vdisp
  /\ vdisp' = d
  /\ steady' = {}
  /\ UNCHANGED <<position, interlace, elapsed, divider, half, left, extra, out, count>>

Next ==
  \/ \E n \in Batches : Advance(n)
  \/ FinishHalf
  \/ Whole
  \/ LeaveHalf
  \/ Drain
  \/ \E d \in VDisps : SetVDisp(d)

\* StepFrame steps the CPU without end, and a step is made of cycles.
Fairness ==
  /\ WF_vars(FinishHalf \/ Whole \/ LeaveHalf \/ Drain)
  /\ WF_vars(\E n \in Batches : Advance(n))

Spec == Init /\ [][Next]_vars /\ Fairness

-----------------------------------------------------------------------------
\* However the program switches overscan, no line has two HDMA transfers, two
\* renderings or two refreshes, and none goes without its refresh; a line on
\* which it left overscan alone has its transfer and its rendering if visible.  A
\* field in which it was left alone begins VBlank once.
LineEvents ==
  [][/\ v' # v /\ v' = 0 /\ "field" \in steady => count["vblank"] = 1
     /\ \A e \in Events : count'[e] < 2
     /\ v' # v =>
          /\ count["refresh"] = 1
          /\ v = 0 => count["setup"] = 1
          /\ "line" \in steady =>
               /\ count["hdma"] = IF v < vdisp THEN 1 ELSE 0
               /\ count["render"] = IF v > 0 /\ v < vdisp THEN 1 ELSE 0]_vars

\* The comment in Tick: splitting an interval into odd batches changes no event
\* position and loses no clock.  A half tick is invisible to the beam, and only
\* what overscan decides may come late on the line on which it is switched.
PlainBeam == INSTANCE Beam WITH
  h <- IF half THEN h - 1 ELSE h,
  lines <- vperiod, width <- hperiod,
  clock <- divider,
  start <- RefreshBase - refreshPos,
  opened <- setupPos - SetupBase,
  settled <- "line" \in steady

BatchesDoNotMatter == PlainBeam!BeamSpec

\* AdvanceClocks always returns with every stolen clock drained.
AdvanceReturns == ~Idle ~> Idle
=============================================================================
