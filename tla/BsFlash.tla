------------------------------ MODULE BsFlash ------------------------------
(***************************************************************************)
(* The memory pack's flash chip, which the repository implements twice: in *)
(* Bsx::Impl (core/src/cartridge/Bsx.cpp) behind the BS-X mapper, and in   *)
(* BroadcastCartridge.cpp for a pack in a slot of its own.  One game's     *)
(* writes and reads reach both, through addresses that select the flash on *)
(* either board; a write reaches neither while the mapper protects the     *)
(* pack.  A block is one byte, and a byte is one bit; the pack is 1 MiB.   *)
(***************************************************************************)
EXTENDS Integers

CONSTANT Blocks

VARIABLES
  bsx,      \* pack, programNext, compatibleStatus, extendedStatus, vendor, lastCommand
  slot,     \* memoryPack_, flashProgram_, flashStatus_, ... of the other board
  pending, active,  \* mapper registers 1 (the interrupt) and 12 (the pack's writes)
  ready     \* the interrupt of a finished operation

flashVars == <<bsx, slot, pending, active, ready>>

Commands == {"read", "program", "status", "extended", "clear", "vendor", "erase", "confirm",
          "eraseChip", "other"}
Places == {"extended", "vendor", "other"}

Blank == [pack |-> [b \in Blocks |-> 1], on |-> {}, last |-> "read"]

FlashInit ==
  /\ bsx = Blank /\ slot = Blank
  /\ pending = {} /\ active = {} /\ ready = FALSE

\* The bytes 00, FF, 10, 40, 70 and 71, each of which starts a mode afresh.
Modes == {"read", "program", "status", "extended"}

ModeFlags(byte) ==
  CASE byte = "program" -> {"program", "status"}
    [] byte = "status" -> {"status"}
    [] byte = "extended" -> {"extended"}
    [] OTHER -> {}

-----------------------------------------------------------------------------
(***************************************************************************)
(* Bsx::WritePack and ReadPack.                                            *)
(***************************************************************************)
\* Mutant: a mode does not end the vendor information.
BsxCommandVendorKept(f, byte, b) ==
  [f EXCEPT !.last = byte,
            !.on = IF byte \in Modes THEN ModeFlags(byte) \cup (@ \cap {"vendor"})
                   ELSE CASE byte = "clear" -> @ \ {"status", "extended"}
                          [] byte = "vendor" -> (@ \cup {"vendor"}) \ {"status"}
                          [] OTHER -> @,
            !.pack[b] = IF byte = "confirm" /\ f.last = "erase" THEN 1 ELSE @]

BsxCommand(f, byte, b) ==
  [f EXCEPT !.last = byte,
            !.on = IF byte \in Modes THEN ModeFlags(byte)
                   ELSE CASE byte = "clear" -> @ \ {"status", "extended"}
                          [] byte = "vendor" -> (@ \cup {"vendor"}) \ {"status"}
                          [] OTHER -> @,
            !.pack[b] = IF byte = "confirm" /\ f.last = "erase" THEN 1 ELSE @]

ProgramBit(f, b, bit) == [f EXCEPT !.pack[b] = IF bit = 0 THEN 0 ELSE @, !.on = @ \ {"program"}]

WritePack(byte, bit, b) ==
  IF "program" \in bsx.on
  THEN /\ bsx' = ProgramBit(bsx, b, bit)
       /\ ready' = TRUE
  ELSE /\ bsx' = BsxCommand(bsx, byte, b)
       /\ ready' = (ready \/ (byte = "confirm" /\ bsx.last = "erase"))

Stored(bit) == IF bit = 1 THEN "erased" ELSE "programmed"

\* What a read returns, and the status that it clears.
BsxAnswer(at, b) ==
  CASE "status" \in bsx.on -> "ready"
    [] "extended" \in bsx.on /\ at = "extended" -> "extended"
    [] "vendor" \in bsx.on /\ at = "vendor" -> "vendor"
    [] OTHER -> Stored(bsx.pack[b])

-----------------------------------------------------------------------------
(***************************************************************************)
(* Cartridge::WriteMemoryPack and ReadMemoryPack.                          *)
(***************************************************************************)
SlotErases(byte) == byte = "confirm" /\ slot.last = "erase"

SlotCommand(byte, b) ==
  IF SlotErases(byte) THEN [slot EXCEPT !.last = byte, !.pack[b] = 1]
  ELSE [slot EXCEPT !.last = byte,
                    !.on = CASE byte \in Modes -> ModeFlags(byte)
                             [] byte = "clear" -> @ \ {"status", "extended"}
                             [] byte = "vendor" -> (@ \ {"status"}) \cup {"vendor"}
                             [] OTHER -> @]

WriteMemoryPack(byte, bit, b) ==
  slot' = IF "program" \in slot.on THEN ProgramBit(slot, b, bit) ELSE SlotCommand(byte, b)

SlotAnswer(at, b) ==
  CASE "status" \in slot.on -> "ready"
    [] "vendor" \in slot.on /\ at = "vendor" -> "vendor"
    [] "extended" \in slot.on /\ at = "extended" -> "extended"
    [] OTHER -> Stored(slot.pack[b])

-----------------------------------------------------------------------------
(***************************************************************************)
(* The game.                                                               *)
(***************************************************************************)
\* Any byte may also be the data of a program command.
GameWrites(byte, bit, b) ==
  /\ IF 12 \in active
     THEN WritePack(byte, bit, b) /\ WriteMemoryPack(byte, bit, b)
     ELSE UNCHANGED <<bsx, slot, ready>>
  /\ UNCHANGED <<pending, active>>

GameReads ==
  /\ bsx' = [bsx EXCEPT !.on = @ \ {"status"}]
  /\ slot' = [slot EXCEPT !.on = @ \ {"status"}]
  /\ UNCHANGED <<pending, active, ready>>

\* WriteMapper: register 0 acknowledges the interrupt, 14 commits the others.
WriteMapper(index, bit) ==
  /\ pending' = IF index \in {1, 12} THEN (IF bit THEN pending \cup {index} ELSE pending \ {index})
                ELSE pending
  /\ active' = IF index = 14 THEN pending \cap {12} ELSE active
  /\ ready' = (ready /\ index # 0)
  /\ UNCHANGED <<bsx, slot>>

\* Cartridge::LoadMemoryPack, which also resets Bsx.
LoadMemoryPack(pack) ==
  /\ bsx' = [Blank EXCEPT !.pack = pack]
  /\ slot' = [Blank EXCEPT !.pack = pack]
  /\ pending' = {} /\ active' = {} /\ ready' = FALSE

FlashNext ==
  \/ \E byte \in Commands, bit \in {0, 1}, b \in Blocks : GameWrites(byte, bit, b)
  \/ GameReads
  \/ \E index \in {0, 1, 12, 14}, bit \in BOOLEAN : WriteMapper(index, bit)
  \/ \E pack \in [Blocks -> {0, 1}] : LoadMemoryPack(pack)

FlashSpec == FlashInit /\ [][FlashNext]_flashVars

-----------------------------------------------------------------------------
\* Whatever sequence of complete, broken off and interleaved commands a game
\* sends, both implementations of the chip answer the next read alike, at every
\* place and in every block.
FlashesAgree ==
  \A at \in Places, b \in Blocks : BsxAnswer(at, b) = SlotAnswer(at, b)
=============================================================================
