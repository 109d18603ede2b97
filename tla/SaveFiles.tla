----------------------------- MODULE SaveFiles -----------------------------
(***************************************************************************)
(* The save files: SaveRamFile::Load and Flush (SaveRamFile.cpp), flushed  *)
(* in turn by main.cpp every 300 frames and at the end.  The file system   *)
(* may fail any call, and the process may be killed between any two and    *)
(* started again.  A file's content is a version, as is the memory's.      *)
(***************************************************************************)
EXTENDS Integers, Sequences, FiniteSets

CONSTANTS
  Files,     \* saveRam, saveRtc and savePack, in the order of flushSaves
  Versions   \* contents, 0 that of a new game

\* What the constants are to satisfy.
ASSUME SaveFilesAssumption == Len(Files) \in Nat /\ Versions \subseteq Nat /\ 0 \in Versions

VARIABLES
  phase,    \* of the process
  exiting,  \* the loop is over and the last flush runs
  todo,     \* the files flushSaves has still to do
  memory,   \* what the game has
  saved,    \* saved_
  temporary,  \* the file being written: its content, or Torn, or Absent
  disk,
  flushed   \* history: the memory at the last flush that succeeded

vars == <<phase, exiting, todo, memory, saved, temporary, disk, flushed>>

Absent == -1
Torn == -2
Phases == {"loading", "playing", "flushing", "writing", "renaming", "off", "done", "failed"}
Indices == 1 .. Len(Files)

New == [i \in Indices |-> 0]
Nothing == [i \in Indices |-> Absent]

Init ==
  /\ phase = "loading" /\ exiting = FALSE /\ todo = <<>>
  /\ memory = New /\ saved = Nothing /\ temporary = Absent
  /\ disk = Nothing /\ flushed = Nothing

\* Load of each file; one that is not there leaves a new game.
Load ==
  /\ phase = "loading"
  /\ phase' = "playing"
  /\ memory' = [i \in Indices |-> IF disk[i] = Absent THEN 0 ELSE disk[i]]
  /\ saved' = disk
  /\ UNCHANGED <<exiting, todo, temporary, disk, flushed>>

Play ==
  /\ phase = "playing"
  /\ \E i \in Indices, v \in Versions : memory' = [memory EXCEPT ![i] = v]
  /\ UNCHANGED <<phase, exiting, todo, saved, temporary, disk, flushed>>

\* Every 300 frames, and when the loop ends.
FlushSaves(last) ==
  /\ phase = "playing"
  /\ phase' = "flushing"
  /\ todo' = [i \in Indices |-> i]
  /\ exiting' = last
  /\ UNCHANGED <<memory, saved, temporary, disk, flushed>>

File == Head(todo)

Unchanged == memory[File] = saved[File]

Skip ==
  /\ phase = "flushing" /\ todo # <<>> /\ Unchanged
  /\ todo' = Tail(todo)
  /\ UNCHANGED <<phase, exiting, memory, saved, temporary, disk, flushed>>

\* The temporary file is created under a name of its own.
Create ==
  /\ phase = "flushing" /\ todo # <<>> /\ ~Unchanged
  /\ phase' = "writing"
  /\ temporary' = Torn
  /\ UNCHANGED <<exiting, todo, memory, saved, disk, flushed>>

Write ==
  /\ phase = "writing"
  /\ phase' = "renaming"
  /\ temporary' = memory[File]
  /\ UNCHANGED <<exiting, todo, memory, saved, disk, flushed>>

\* SDL_RenamePath, then saved_.
Rename ==
  /\ phase = "renaming"
  /\ phase' = "flushing"
  /\ disk' = [disk EXCEPT ![File] = temporary]
  /\ saved' = [saved EXCEPT ![File] = memory[File]]
  /\ flushed' = [flushed EXCEPT ![File] = memory[File]]
  /\ temporary' = Absent
  /\ todo' = Tail(todo)
  /\ UNCHANGED <<exiting, memory>>

DiskAfterKill == disk

\* Mutant: the flush goes on to the next file after a failure.
FailureSkips == "flushing"

AfterFailure == "failed"

\* A call fails: the temporary file is removed, the exception ends the loop, and
\* the files that follow are not flushed.
Fail ==
  /\ phase \in {"writing", "renaming"} \/ (phase = "flushing" /\ todo # <<>> /\ ~Unchanged)
  /\ phase' = AfterFailure
  /\ temporary' = Absent
  /\ todo' = Tail(todo)
  /\ UNCHANGED <<exiting, memory, saved, disk, flushed>>

Done ==
  /\ phase = "flushing" /\ todo = <<>>
  /\ phase' = IF exiting THEN "done" ELSE "playing"
  /\ UNCHANGED <<exiting, todo, memory, saved, temporary, disk, flushed>>

\* A temporary file that a killed process leaves behind is never read.
Kill ==
  /\ phase \notin {"off", "done", "failed"}
  /\ phase' = "off"
  /\ temporary' = Absent
  /\ disk' = DiskAfterKill
  /\ UNCHANGED <<exiting, todo, memory, saved, flushed>>

Start ==
  /\ phase \in {"off", "done", "failed"}
  /\ phase' = "loading"
  /\ exiting' = FALSE /\ todo' = <<>>
  /\ memory' = New /\ saved' = Nothing
  /\ UNCHANGED <<temporary, disk, flushed>>

Next ==
  \/ Load \/ Play \/ FlushSaves(TRUE) \/ FlushSaves(FALSE) \/ Skip \/ Create \/ Write \/ Rename
  \/ Fail \/ Done \/ Kill \/ Start

Spec == Init /\ [][Next]_vars

-----------------------------------------------------------------------------
SavesWhole == disk = flushed

ExitSavesAll ==
  /\ phase = "done" => \A i \in Indices : disk[i] = memory[i]
  /\ phase \in {"playing", "flushing", "writing", "renaming"} => saved = disk

\* Each save file holds, whole, what the memory held at the last flush of it that
\* succeeded, whenever the process was killed and whichever call failed; a program
\* that ends well has written every file that changed, and what saved_ takes for
\* written is on the disk, so that no change is ever skipped.
SavesExact == SavesWhole /\ ExitSavesAll
=============================================================================
