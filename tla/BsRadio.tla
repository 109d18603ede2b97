------------------------------ MODULE BsRadio ------------------------------
(***************************************************************************)
(* The receivers of the BS-X (ReadRadio, WriteRadio, SelectAsset in class  *)
(* Bsx::Impl, and LoadStream, ClearStreams; core/src/cartridge/Bsx.cpp).   *)
(* The game polls a receiver's registers while the host replaces the       *)
(* assets they are being read from.  An asset is its length in bytes; a    *)
(* channel's two bytes, which reset the receiver one by one, are one       *)
(* number.                                                                 *)
(***************************************************************************)
EXTENDS Integers, FiniteSets

CONSTANTS
  Receivers,   \* {0, 1}
  Channels,    \* the broadcast channels; 0 is the clock
  Sequences,   \* 0 .. Sequences - 1, 256
  PacketBytes, \* 22
  ClockBytes,  \* 23
  AssetLengths \* of the assets the host loads

\* What the constants are to satisfy.
ASSUME BsRadioAssumption ==
  /\ 0 \notin Channels
  /\ {Sequences, PacketBytes, ClockBytes} \subseteq Nat \ {0}
  /\ AssetLengths \subseteq Nat \ {0}

VARIABLES
  assets,     \* assets: [keys -> lengths], over the keys that are loaded
  channel, radioFlags, radioStatus,  \* radio[0..1], [3] and [5] of each receiver
  receiver,   \* the Receiver structures
  clockIndex,
  read        \* history: the packets whose flags the game has read of its asset

radioVars == <<assets, channel, radioFlags, radioStatus, receiver, clockIndex, read>>

Keys == Channels \X (0 .. Sequences - 1)
NoAsset == <<0, 0>>
FirstLast == {"first", "last"}

IdleReceiver ==
  [prefix |-> FALSE, data |-> FALSE, loaded |-> FALSE, first |-> FALSE, next |-> 0,
   asset |-> NoAsset, cursor |-> 0, remaining |-> 0]

RadioInit ==
  /\ assets = [k \in {} |-> 0]
  /\ channel = [r \in Receivers |-> 0]
  /\ radioFlags = [r \in Receivers |-> {}] /\ radioStatus = [r \in Receivers |-> {}]
  /\ receiver = [r \in Receivers |-> IdleReceiver]
  /\ clockIndex = 0
  /\ read = [r \in Receivers |-> 0]

PacketCount(k) == (assets[k] + PacketBytes - 1) \div PacketBytes

-----------------------------------------------------------------------------
(***************************************************************************)
(* The game's reads.                                                       *)
(***************************************************************************)
\* The asset after the last one, or the channel's first when there is none.
Wanted(r) == <<channel[r], receiver[r].next>>

Selected(r) ==
  IF Wanted(r) \in DOMAIN assets THEN Wanted(r) ELSE <<channel[r], 0>>

Following(r) ==
  IF Wanted(r) \notin DOMAIN assets /\ receiver[r].next # 0 THEN 1 % Sequences
  ELSE (receiver[r].next + 1) % Sequences

SelectAsset(r) ==
  LET found == Selected(r) \in DOMAIN assets
      idle == [receiver[r] EXCEPT !.next = Following(r), !.loaded = found, !.remaining = 0,
                                  !.cursor = 0, !.first = found]
  IN  /\ receiver' = [receiver EXCEPT ![r] =
                        IF found THEN [idle EXCEPT !.asset = Selected(r),
                                                   !.remaining = PacketCount(Selected(r))]
                        ELSE idle]
      /\ radioFlags' = [radioFlags EXCEPT ![r] = {}]
      /\ radioStatus' = IF found THEN [radioStatus EXCEPT ![r] = {}] ELSE radioStatus
      /\ read' = [read EXCEPT ![r] = 0]

\* Field 2.
ReadCount(r) ==
  /\ receiver[r].prefix /\ receiver[r].data /\ channel[r] # 0 /\ receiver[r].remaining = 0
  /\ SelectAsset(r)
  /\ UNCHANGED <<assets, channel, clockIndex>>

Prefix(rec) == [rec EXCEPT !.remaining = @ - 1, !.first = FALSE]

\* Field 3.
ReadFlags(r) ==
  LET rec == receiver[r]
      marks == (IF rec.first THEN {"first"} ELSE {})
               \cup (IF rec.remaining = 1 THEN {"last"} ELSE {})
      shown == IF channel[r] = 0 THEN FirstLast ELSE marks
  IN  /\ rec.prefix
      /\ channel[r] = 0 \/ (rec.loaded /\ rec.remaining > 0)
      /\ radioFlags' = [radioFlags EXCEPT ![r] = shown]
      /\ radioStatus' = [radioStatus EXCEPT ![r] = @ \cup shown]
      /\ IF channel[r] = 0 THEN UNCHANGED <<receiver, read>>
         ELSE /\ receiver' = [receiver EXCEPT ![r] = Prefix(rec)]
              /\ read' = [read EXCEPT ![r] = @ + 1]
      /\ UNCHANGED <<assets, channel, clockIndex>>

\* Field 4: a byte of the asset, or of the clock's record.
ReadData(r) ==
  /\ receiver[r].data
  /\ IF channel[r] = 0
     THEN clockIndex' = (clockIndex + 1) % ClockBytes /\ UNCHANGED receiver
     ELSE /\ receiver[r].loaded
          /\ receiver[r].asset \in DOMAIN assets
          /\ receiver[r].cursor < assets[receiver[r].asset]
          /\ receiver' = [receiver EXCEPT ![r].cursor = @ + 1]
          /\ UNCHANGED clockIndex
  /\ UNCHANGED <<assets, channel, radioFlags, radioStatus, read>>

\* Field 5.
ReadStatus(r) ==
  /\ radioStatus' = [radioStatus EXCEPT ![r] = {}]
  /\ UNCHANGED <<assets, channel, radioFlags, receiver, clockIndex, read>>

-----------------------------------------------------------------------------
(***************************************************************************)
(* The game's writes.                                                      *)
(***************************************************************************)
Dropped(rec) == [rec EXCEPT !.loaded = FALSE, !.cursor = 0, !.remaining = 0, !.next = 0]

\* Fields 0 and 1.
WriteChannel(r, c) ==
  /\ channel' = [channel EXCEPT ![r] = c]
  /\ receiver' = [receiver EXCEPT ![r] = Dropped(@)]
  /\ radioFlags' = [radioFlags EXCEPT ![r] = {}] /\ radioStatus' = [radioStatus EXCEPT ![r] = {}]
  /\ UNCHANGED <<assets, clockIndex, read>>

\* Field 3.
EnablePrefix(r, on) ==
  /\ receiver' = [receiver EXCEPT ![r].prefix = on]
  /\ UNCHANGED <<assets, channel, radioFlags, radioStatus, clockIndex, read>>

\* Field 4.
EnableData(r, on) ==
  /\ receiver' = [receiver EXCEPT ![r].data = on]
  /\ clockIndex' = IF channel[r] = 0 THEN 0 ELSE clockIndex
  /\ UNCHANGED <<assets, channel, radioFlags, radioStatus, read>>

-----------------------------------------------------------------------------
(***************************************************************************)
(* The host.                                                               *)
(***************************************************************************)
\* Mutant: a receiver goes on with what it was reading of the replaced asset.
InterruptedKept(rec, k) == rec

Interrupted(rec, k) ==
  IF rec.loaded /\ rec.asset = k
  THEN [rec EXCEPT !.loaded = FALSE, !.remaining = 0, !.cursor = 0, !.next = k[2]]
  ELSE rec

Replace(k, stored) ==
  /\ assets' = stored
  /\ receiver' = [r \in Receivers |-> Interrupted(receiver[r], k)]
  /\ UNCHANGED <<channel, radioFlags, radioStatus, clockIndex, read>>

\* LoadStream; an empty payload removes the asset.
LoadStream(k, length) ==
  Replace(k, [j \in DOMAIN assets \cup {k} |-> IF j = k THEN length ELSE assets[j]])

RemoveStream(k) == Replace(k, [j \in DOMAIN assets \ {k} |-> assets[j]])

ClearStreams ==
  /\ assets' = [k \in {} |-> 0]
  /\ receiver' = [r \in Receivers |-> Dropped(receiver[r])]
  /\ radioFlags' = [r \in Receivers |-> {}] /\ radioStatus' = [r \in Receivers |-> {}]
  /\ UNCHANGED <<channel, clockIndex, read>>

Game(r) ==
  \/ ReadCount(r) \/ ReadFlags(r) \/ ReadData(r) \/ ReadStatus(r)
  \/ \E c \in Channels \cup {0} : WriteChannel(r, c)
  \/ \E on \in BOOLEAN : EnablePrefix(r, on) \/ EnableData(r, on)

RadioNext ==
  \/ \E r \in Receivers : Game(r)
  \/ \E k \in Keys : RemoveStream(k) \/ \E length \in AssetLengths : LoadStream(k, length)
  \/ ClearStreams

RadioSpec == RadioInit /\ [][RadioNext]_radioVars

-----------------------------------------------------------------------------
\* A receiver that has an asset has one that is loaded now, of the channel it is
\* tuned to; the packets the game has seen of it and those it is told remain are
\* the asset's packets, and the first packet is marked as such, and only it,
\* however often the host replaced assets or the game changed channels.
StreamsCurrent ==
  \A r \in Receivers :
    LET rec == receiver[r]
    IN  rec.loaded =>
          /\ rec.asset \in DOMAIN assets /\ rec.asset[1] = channel[r]
          /\ rec.cursor <= assets[rec.asset]
          /\ read[r] + rec.remaining = PacketCount(rec.asset)
          /\ rec.first <=> read[r] = 0
=============================================================================
