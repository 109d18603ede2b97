-------------------------------- MODULE Msu1 --------------------------------
(***************************************************************************)
(* The MSU-1 (class Msu1, core/src/cartridge/Msu1.cpp): track selection,   *)
(* the control port with its resume point, the PCM stream with its read    *)
(* cache, and the resampler, driven by the game's writes and by the        *)
(* mixer's calls of NextSample.  Files may be missing, malformed or fail   *)
(* to be read.  A file's unit is 4 bytes: two of header, one per frame.    *)
(* Volumes and amplitudes are left out, and so is the data port, which     *)
(* reads its own stream the same way.                                      *)
(***************************************************************************)
EXTENDS Integers, FiniteSets

CONSTANTS
  Tracks,      \* the track numbers that have a well-formed file,
  Missing,     \* and those that have none or a malformed one
  Frames, LoopField,  \* [Tracks -> ..]: a file's frames and its loop field
  SampleRate,  \* 44100: ticks of an output sample
  OutputRate,  \* of NextSample: ticks of a PCM frame
  CacheUnits   \* the capacity of Stream::cache_

\* What the constants are to satisfy.
ASSUME Msu1Assumption ==
  /\ Tracks \subseteq Nat /\ Missing \subseteq Nat /\ 0 \in Tracks
  /\ \A f \in Tracks : Frames[f] \in Nat \ {0} /\ LoopField[f] \in Nat
  /\ SampleRate \in Nat \ {0} /\ OutputRate \in Nat \ {0} /\ CacheUnits \in Nat \ {0, 1}

VARIABLES
  track,      \* track_
  playing, repeating, error,  \* bits 4, 5 and 3 of status_
  open,       \* pcm_.IsOpen()
  frames, loop,  \* frameCount_, loopFrame_
  nextFrame, ticksLeft,
  cache,      \* cacheOffset_ and cacheSize_
  resume,     \* [valid, track, nextFrame, ticksLeft]
  place,      \* history: where in the track the listener is, in ticks
  savedPlace, \* history: and was when the resume point was set
  genuine     \* history: every frame came from its place in the file

player == <<track, playing, repeating, error, open, frames, loop>>
position == <<nextFrame, ticksLeft, cache>>
msuVars == <<player, position, resume, place, savedPlace, genuine>>

Header == 2
NoCache == [offset |-> 0, size |-> 0]

\* Reset.
MsuInit ==
  /\ track = 0 /\ playing = FALSE /\ repeating = FALSE /\ error = FALSE /\ open = FALSE
  /\ frames = 0 /\ loop = 0 /\ nextFrame = 0 /\ ticksLeft = 0
  /\ cache = NoCache
  /\ resume = [valid |-> FALSE, track |-> 0, nextFrame |-> 0, ticksLeft |-> 0]
  /\ place = 0 /\ savedPlace = 0 /\ genuine = TRUE

-----------------------------------------------------------------------------
(***************************************************************************)
(* Stream::Read.                                                           *)
(***************************************************************************)
Smaller(m, n) == IF m < n THEN m ELSE n

FileUnits == Header + frames

Cached(c, offset, count) ==
  offset >= c.offset /\ offset - c.offset <= c.size /\ count <= c.size - (offset - c.offset)

Fill(offset, units) == [offset |-> offset, size |-> Smaller(CacheUnits, units - offset)]

\* The bytes are the file's: all of them are in the cache they are copied from.
Holds(c, offset, count) == offset >= c.offset /\ offset + count <= c.offset + c.size

-----------------------------------------------------------------------------
(***************************************************************************)
(* Writes to the ports.                                                    *)
(***************************************************************************)
Resumes(t) == resume.valid /\ resume.track = t

\* Mutant: the resume point forgets how much of its frame was left.
ResumeTicksDropped(r) == 0

ResumeTicks(r) == r.ticksLeft

\* SelectTrack, by a write to port 5: a file that opens and has a good header.
SelectTrack(t) ==
  /\ t \in Tracks
  /\ track' = t
  /\ playing' = FALSE /\ repeating' = FALSE /\ error' = FALSE
  /\ open' = TRUE
  /\ frames' = Frames[t]
  /\ loop' = IF LoopField[t] >= Frames[t] THEN 0 ELSE LoopField[t]
  /\ cache' = Fill(0, Header + Frames[t])
  /\ LET resumes == Resumes(t) /\ resume.nextFrame <= Frames[t]
     IN  /\ nextFrame' = IF resumes THEN resume.nextFrame ELSE 0
         /\ ticksLeft' = IF resumes THEN ResumeTicks(resume) ELSE 0
  /\ place' = IF Resumes(t) THEN savedPlace ELSE 0
  /\ resume' = IF Resumes(t) THEN [resume EXCEPT !.valid = FALSE] ELSE resume
  /\ UNCHANGED <<savedPlace, genuine>>

\* A file that is missing or malformed, or a failing read of the header.
SelectFails(t) ==
  /\ track' = t
  /\ playing' = FALSE /\ repeating' = FALSE /\ error' = TRUE
  /\ open' = FALSE
  /\ frames' = 0 /\ loop' = 0 /\ nextFrame' = 0 /\ ticksLeft' = 0
  /\ cache' = NoCache
  /\ place' = 0
  /\ UNCHANGED <<resume, savedPlace, genuine>>

\* Port 7; save: bits 2 and 0 of the value are 1 and 0.
Control(play, repeat, save) ==
  /\ ~error
  /\ playing' = play /\ repeating' = repeat
  /\ IF save /\ ~play /\ open
     THEN /\ resume' = [valid |-> TRUE, track |-> track, nextFrame |-> nextFrame,
                        ticksLeft |-> ticksLeft]
          /\ savedPlace' = place
     ELSE UNCHANGED <<resume, savedPlace>>
  /\ UNCHANGED <<track, error, open, frames, loop, position, place, genuine>>

-----------------------------------------------------------------------------
(***************************************************************************)
(* NextSample.                                                             *)
(***************************************************************************)
\* Nothing plays.
Silence ==
  /\ ~playing \/ ~open
  /\ playing' = FALSE /\ repeating' = FALSE
  /\ UNCHANGED <<track, error, open, frames, loop, position, resume, place, savedPlace, genuine>>

\* What ReadFrame and the loop of NextSample work on, with the ticks of the
\* sample still to be covered.
Now == [next |-> nextFrame, left |-> ticksLeft, cache |-> cache, remaining |-> SampleRate,
        end |-> FALSE, good |-> TRUE]

\* One pass: a frame is read when the last one is used up.
Frame(s) ==
  IF s.left > 0 THEN s
  ELSE IF s.next >= frames /\ ~repeating
  THEN [s EXCEPT !.end = TRUE, !.next = 0]
  ELSE LET frame == IF s.next >= frames THEN loop ELSE s.next
           held == IF Cached(s.cache, Header + frame, 1) THEN s.cache
                   ELSE Fill(Header + frame, FileUnits)
       IN  [s EXCEPT !.next = frame + 1, !.left = OutputRate, !.cache = held,
                     !.good = @ /\ Holds(held, Header + frame, 1)]

Cover(s) ==
  LET covered == Smaller(s.remaining, s.left)
  IN  [s EXCEPT !.left = @ - covered, !.remaining = @ - covered]

Pass(s) == LET t == Frame(s) IN IF t.end THEN t ELSE Cover(t)

\* The passes until the sample is covered or the track ends.
Passes[n \in 0 .. SampleRate] ==
  IF n = 0 THEN Now
  ELSE LET s == Passes[n - 1] IN IF s.end \/ s.remaining = 0 THEN s ELSE Pass(s)

\* Where a listener gets to in the time of a sample: through the track, and on
\* from the loop point or to a stop.
PlaceAfter ==
  LET end == frames * OutputRate
      start == loop * OutputRate
      far == place + SampleRate
  IN  IF far <= end THEN far
      ELSE IF ~repeating THEN 0
      ELSE start + 1 + ((far - end - 1) % (end - start))

Sample ==
  /\ playing /\ open
  /\ LET s == Passes[SampleRate]
     IN  /\ genuine' = (genuine /\ s.good)
         /\ nextFrame' = s.next /\ ticksLeft' = s.left /\ cache' = s.cache
         /\ playing' = ~s.end /\ repeating' = (repeating /\ ~s.end)
  /\ place' = PlaceAfter
  /\ UNCHANGED <<track, error, open, frames, loop, resume, savedPlace>>

\* A read of the file fails: the stream is closed and the error shown.
ReadFails ==
  /\ playing /\ open
  /\ playing' = FALSE /\ repeating' = FALSE /\ error' = TRUE /\ open' = FALSE
  /\ nextFrame' \in nextFrame .. frames /\ ticksLeft' = 0
  /\ cache' = NoCache
  /\ UNCHANGED <<track, frames, loop, resume, place, savedPlace, genuine>>

NextSample == Silence \/ Sample \/ ReadFails

MsuNext ==
  \/ \E t \in Tracks \cup Missing : SelectTrack(t) \/ SelectFails(t)
  \/ \E play, repeat, save \in BOOLEAN : Control(play, repeat, save)
  \/ NextSample

MsuSpec == MsuInit /\ [][MsuNext]_msuVars

-----------------------------------------------------------------------------
\* While a track is open, the frame and the ticks left of it are the listener's
\* place in it to the tick: after stops, loops of any length, other tracks in
\* between and a resume point, resampling has neither lost nor repeated a tick,
\* and the read cache has answered with the bytes of the file.
PlaybackExact == genuine /\ (open => nextFrame * OutputRate - ticksLeft = place)
=============================================================================
