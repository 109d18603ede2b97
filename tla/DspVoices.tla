----------------------------- MODULE DspVoices -----------------------------
(***************************************************************************)
(* The voices of class Dsp (core/src/audio/Dsp.cpp): the 32 clocks of Tick *)
(* with the latches neighbouring voices share, keying on and off, and the  *)
(* end of a sample.  The sound program writes KON, KOFF and ENDX, and the  *)
(* ENVX and OUTX of any voice, between two clocks.                         *)
(*                                                                         *)
(* A latch holds the number of the voice it was taken from.  Of the voices *)
(* in Watched there is also their state; samples, envelope levels and what *)
(* a block's header says are left open.                                    *)
(***************************************************************************)
EXTENDS Integers

CONSTANT Watched

Voices == 0 .. 7
Other == 8   \* the latch holds what Power or the program has put there

\* What the constants are to satisfy.
ASSUME DspVoicesAssumption == Watched \subseteq Voices

VARIABLES
  dspPhase,    \* phase_
  everyOther,  \* everyOther_
  keys,        \* newKon_, kon_, KOFF and keyOff, of the watched voices
  pipe,        \* the shared latches, endx and endxBuf_, and whether all were in order
  voice,       \* the watched voices
  ended,       \* history: voices whose sample has ended since they were keyed on or ENDX
               \* was cleared
  asked        \* history: voices KON was written for since they were last keyed on

voicesVars == <<dspPhase, everyOther, keys, pipe, voice, ended, asked>>

\* konDelay, envMode, brrOffset, whether interpPos has reached $4000, and whether this
\* sample's pitch is none.
Silent == [delay |-> 0, release |-> TRUE, offset |-> 1, advance |-> FALSE, still |-> FALSE]

Latches ==
  [source |-> Other, directory |-> Other, next |-> Other, entry |-> "loop", pitch |-> Other,
   brr |-> Other, header |-> "body", output |-> Other, outx |-> Other, envx |-> Other,
   looped |-> {}, endx |-> {}, endxBuf |-> {}, inOrder |-> TRUE]

VoicesInit ==
  /\ dspPhase = 0 /\ everyOther = TRUE
  /\ keys = [new |-> {}, kon |-> {}, koff |-> {}, keyOff |-> {}]
  /\ pipe = Latches
  /\ voice = [v \in Watched |-> Silent]
  /\ ended = {} /\ asked = {}

-----------------------------------------------------------------------------
(***************************************************************************)
(* The operations of the pipeline, on s = [pipe, voice, ended, key, even]. *)
(* InOrder notes whether a latch that is used is the voice's own.          *)
(***************************************************************************)
InOrder(s, latches, v) ==
  [s EXCEPT !.pipe.inOrder = @ /\ \A l \in latches : s.pipe[l] \in {v, Other}]

CaptureDirectory(s, v) == [s EXCEPT !.pipe.directory = s.pipe.source, !.pipe.source = v]

\* The address of the sample's start, or of its loop.
CaptureVoiceRegisters(s, v) ==
  [InOrder(s, {"directory"}, v) EXCEPT
     !.pipe.next = v, !.pipe.pitch = v,
     !.pipe.entry = IF v \in Watched /\ s.voice[v].delay # 0 THEN "start" ELSE "loop"]

CapturePitchHigh(s, v) == InOrder(s, {"pitch"}, v)

CaptureBrrBytes(s, v, header) == [s EXCEPT !.pipe.brr = v, !.pipe.header = header]

\* A key-on in its fifth clock takes the start address and has no header yet.
Keyed(s, v) ==
  LET w == s.voice[v]
  IN  IF w.delay = 0 THEN [s EXCEPT !.voice[v].still = FALSE]
      ELSE [s EXCEPT
        !.voice[v].still = TRUE,
        !.pipe.header = IF w.delay = 5 THEN "body" ELSE @,
        !.pipe.inOrder = @ /\ (w.delay = 5 => s.pipe.entry = "start"),
        !.voice[v].offset = IF w.delay = 5 THEN 1 ELSE @,
        !.voice[v].delay = @ - 1,
        !.voice[v].advance = (w.delay - 1) % 4 # 0]

\* The block that ends the sample; FLG with its reset bit does the same.
Released(s, v) == IF s.pipe.header = "end" THEN [s EXCEPT !.voice[v].release = TRUE] ELSE s

KeyedOff(s, v) ==
  IF s.even /\ v \in s.key.keyOff THEN [s EXCEPT !.voice[v].release = TRUE] ELSE s

KeyedOn(s, v) ==
  IF s.even /\ v \in s.key.kon
  THEN [s EXCEPT !.voice[v].release = FALSE, !.voice[v].delay = 5, !.asked = @ \ {v}] ELSE s

RenderVoice(s, v) ==
  LET taken == [InOrder(s, {"pitch", "next", "brr"}, v) EXCEPT !.pipe.output = v]
  IN  IF v \notin Watched THEN taken
      ELSE KeyedOn(KeyedOff(Released(Keyed(taken, v), v), v), v)

PrepareVoice(s, v, header) ==
  RenderVoice(CaptureBrrBytes(CapturePitchHigh(s, v), v, header), v)

\* Four samples more, when the voice has come that far; nine bytes are a block.
Decoded(s, v) ==
  LET done == s.voice[v].offset = 7
  IN  IF ~s.voice[v].advance THEN s
      ELSE [s EXCEPT
        !.voice[v].offset = IF done THEN 1 ELSE @ + 2,
        !.pipe.looped = IF done /\ s.pipe.header # "body" THEN {v} ELSE {},
        !.pipe.inOrder = @ /\ (done /\ s.pipe.header # "body" => s.pipe.entry = "loop")]

DecodeAndMixLeft(s, v, fast) ==
  LET taken == [InOrder(s, {"brr", "next", "output", "pitch"}, v) EXCEPT !.pipe.looped = {}]
  IN  IF v \notin Watched THEN taken
      ELSE [Decoded(taken, v) EXCEPT !.voice[v].advance = fast /\ ~s.voice[v].still]

EndAfter(s, v) ==
  (s.pipe.endx \cup s.pipe.looped)
    \ (IF v \in Watched /\ s.voice[v].delay = 5 THEN {v} ELSE {})

MixRightAndCaptureEnd(s, v) ==
  [InOrder(s, {"output"}, v) EXCEPT
     !.pipe.endxBuf = EndAfter(s, v),
     !.ended = (@ \cup s.pipe.looped)
                 \ {w \in {v} \cap Watched : s.voice[w].delay = 5}]

CaptureOutput(s) == [s EXCEPT !.pipe.outx = s.pipe.output]

PublishEndAndCaptureEnv(s, v) == [s EXCEPT !.pipe.endx = s.pipe.endxBuf, !.pipe.envx = v]

PublishOutput(s, v) == InOrder(s, {"outx"}, v)

PublishEnvelope(s, v) == InOrder(s, {"envx"}, v)

\* clockGlobalLatches, as far as keys are concerned.
ClockGlobalLatches(s) ==
  IF dspPhase = 29 THEN
    [s EXCEPT !.even = ~@, !.key.new = IF s.even THEN @ ELSE @ \ s.key.kon]
  ELSE IF dspPhase = 30 /\ s.even THEN
    [s EXCEPT !.key.kon = s.key.new, !.key.keyOff = s.key.koff]
  ELSE s

-----------------------------------------------------------------------------
(***************************************************************************)
(* Tick: the operations of each clock, in their order.                     *)
(***************************************************************************)
Op(o, v) == [op |-> o, voice |-> v]

\* Mutant: the third clock prepares a voice before it captures another's output.
GroupPreparedFirst(v) ==
  << <<Op("publishEnd", v), Op("directory", v + 3), Op("left", v + 1)>>,
     <<Op("publishOutput", v), Op("right", v + 1), Op("registers", v + 2)>>,
     <<Op("publishEnvelope", v), Op("prepare", v + 2), Op("captureOutput", v + 1)>> >>

Group(v) ==
  << <<Op("publishEnd", v), Op("directory", v + 3), Op("left", v + 1)>>,
     <<Op("publishOutput", v), Op("right", v + 1), Op("registers", v + 2)>>,
     <<Op("publishEnvelope", v), Op("captureOutput", v + 1), Op("prepare", v + 2)>> >>

Rest == Op("rest", 0)

Clock(p) ==
  IF p \in 2 .. 16 THEN Group((p - 2) \div 3)[((p - 2) % 3) + 1]
  ELSE CASE p = 0 -> <<Op("right", 0), Op("registers", 1), Rest>>
         [] p = 1 -> <<Op("captureOutput", 0), Op("prepare", 1), Rest>>
         [] p = 17 -> <<Op("directory", 0), Op("publishEnd", 5), Op("left", 6)>>
         [] p = 18 -> <<Op("publishOutput", 5), Op("right", 6), Op("registers", 7)>>
         [] p = 19 -> <<Op("publishEnvelope", 5), Op("captureOutput", 6), Op("prepare", 7)>>
         [] p = 20 -> <<Op("directory", 1), Op("publishEnd", 6), Op("left", 7)>>
         [] p = 21 -> <<Op("publishOutput", 6), Op("right", 7), Op("registers", 0)>>
         [] p = 22 -> <<Op("pitchHigh", 0), Op("publishEnvelope", 6), Op("captureOutput", 7)>>
         [] p = 23 -> <<Op("publishEnd", 7), Rest, Rest>>
         [] p = 24 -> <<Op("publishOutput", 7), Rest, Rest>>
         [] p = 25 -> <<Op("brr", 0), Op("publishEnvelope", 7), Rest>>
         [] p = 30 -> <<Op("latches", 0), Op("render", 0), Rest>>
         [] p = 31 -> <<Op("left", 0), Op("directory", 2), Rest>>
         [] OTHER -> <<Op("latches", 0), Rest, Rest>>

Do(s, o, header, fast) ==
  IF o.op = "publishEnd" THEN PublishEndAndCaptureEnv(s, o.voice)
  ELSE IF o.op = "directory" THEN CaptureDirectory(s, o.voice)
  ELSE IF o.op = "left" THEN DecodeAndMixLeft(s, o.voice, fast)
  ELSE IF o.op = "publishOutput" THEN PublishOutput(s, o.voice)
  ELSE IF o.op = "right" THEN MixRightAndCaptureEnd(s, o.voice)
  ELSE IF o.op = "registers" THEN CaptureVoiceRegisters(s, o.voice)
  ELSE IF o.op = "publishEnvelope" THEN PublishEnvelope(s, o.voice)
  ELSE IF o.op = "captureOutput" THEN CaptureOutput(s)
  ELSE IF o.op = "prepare" THEN PrepareVoice(s, o.voice, header)
  ELSE IF o.op = "pitchHigh" THEN CapturePitchHigh(s, o.voice)
  ELSE IF o.op = "brr" THEN CaptureBrrBytes(s, o.voice, header)
  ELSE IF o.op = "render" THEN RenderVoice(s, o.voice)
  ELSE IF o.op = "latches" THEN ClockGlobalLatches(s)
  ELSE s

\* The operations of a clock on watched voices.
OpsOf(ops) == {o.op : o \in {p \in {ops[1], ops[2], ops[3]} : p.voice \in Watched}}

\* What the header in memory says, and whether the pitch takes the voice on.
Headers(ops) == IF ops \cap {"prepare", "brr"} # {} THEN {"body", "loop", "end"} ELSE {"body"}
Speeds(ops) == IF "left" \in ops THEN BOOLEAN ELSE {FALSE}

State ==
  [pipe |-> pipe, voice |-> voice, ended |-> ended, asked |-> asked, key |-> keys,
   even |-> everyOther]

After(ops, header, fast) ==
  Do(Do(Do(State, ops[1], header, fast), ops[2], header, fast), ops[3], header, fast)

VoiceTick ==
  LET ops == Clock(dspPhase)
  IN  \E header \in Headers(OpsOf(ops)), fast \in Speeds(OpsOf(ops)) :
        \E s \in {After(ops, header, fast)} :
          /\ pipe' = s.pipe /\ voice' = s.voice /\ ended' = s.ended /\ asked' = s.asked
          /\ keys' = s.key /\ everyOther' = s.even
          /\ dspPhase' = (dspPhase + 1) % 32

-----------------------------------------------------------------------------
(***************************************************************************)
(* Write.                                                                  *)
(***************************************************************************)
WriteKon(bits) ==
  /\ keys' = [keys EXCEPT !.new = bits]
  /\ asked' = asked \cup bits
  /\ UNCHANGED <<dspPhase, everyOther, pipe, voice, ended>>

WriteKoff(bits) ==
  /\ keys' = [keys EXCEPT !.koff = bits]
  /\ UNCHANGED <<dspPhase, everyOther, pipe, voice, ended, asked>>

Cleared(p) == [p EXCEPT !.endx = {}, !.endxBuf = {}]

WriteEndx ==
  /\ pipe' = Cleared(pipe)
  /\ ended' = {}
  /\ UNCHANGED <<dspPhase, everyOther, keys, voice, asked>>

\* ENVX or OUTX of any voice.
WriteEnvelopeOrOutput ==
  /\ pipe' \in {[pipe EXCEPT !.envx = Other], [pipe EXCEPT !.outx = Other]}
  /\ UNCHANGED <<dspPhase, everyOther, keys, voice, ended, asked>>

VoicesNext ==
  \/ VoiceTick
  \/ \E bits \in SUBSET Watched : WriteKon(bits) \/ WriteKoff(bits)
  \/ WriteEndx \/ WriteEnvelopeOrOutput

VoicesSpec == VoicesInit /\ [][VoicesNext]_voicesVars

-----------------------------------------------------------------------------
LatchesAreTheVoices == pipe.inOrder

EndxExact ==
  \A v \in Watched : dspPhase \notin {3 * v + 1, 3 * v + 2} => (v \in pipe.endx <=> v \in ended)

KeyedOnOnce ==
  \A v \in Watched : voice'[v].delay > voice[v].delay => v \in asked

\* The latches are shared and staggered: every operation on a voice finds there what
\* was taken from that very voice, or from the program; a voice being keyed on starts
\* at its sample's start, and one that loops goes on at its loop.  ENDX has the bit of
\* a voice exactly when its sample has ended since ENDX was cleared and the voice keyed
\* on, whenever in the clocks between capture and publication another voice ends or the
\* program clears it.  And a write of KON keys a voice on once: kon_ lasts two samples.
VoicesExact == [](LatchesAreTheVoices /\ EndxExact) /\ [][KeyedOnOnce]_voicesVars
=============================================================================
