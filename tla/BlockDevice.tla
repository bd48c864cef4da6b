---------------------------- MODULE BlockDevice ----------------------------
(***************************************************************************)
(* src/fourty/block_device.cpp: a block is written and read sector by      *)
(* sector through ATA ports.  The drive may keep sectors in its cache      *)
(* until a flush, report an error, or lose power at any point.             *)
(***************************************************************************)
EXTENDS Naturals, FiniteSets

CONSTANTS
  Blocks,            \* block numbers
  SECTORS_PER_BLOCK, \* 8
  Data,              \* contents of a sector
  Blank              \* what a sector holds before it is written

Sectors == 0..(SECTORS_PER_BLOCK - 1)
Block == [Sectors -> Data]

ASSUME DeviceAssumption == SECTORS_PER_BLOCK \in Nat \ {0} /\ Blank \in Data

VARIABLES
  media,    \* what survives a loss of power
  cache,    \* what the drive answers reads with
  pc, lba,  \* the transfer under way and its block
  buffer,   \* the caller's buffer
  i,        \* the loop variable: the sector to transfer next
  result,   \* what the last call returned
  old,      \* history: media[lba] when the write under way began
  known,    \* history: what a reader must find in each block, {} if unsure
  ignored   \* history: the drive failed where the code does not look

device == <<media, cache>>
call == <<pc, lba, buffer, i, result>>
vars == <<device, call, old, known, ignored>>

-----------------------------------------------------------------------------
(* The calls. *)

Write(b, content) ==
  /\ pc = "idle" /\ pc' = "wait" /\ lba' = b /\ buffer' = content /\ i' = 0
  /\ result' = FALSE /\ old' = media[b] /\ known' = [known EXCEPT ![b] = {}]
  /\ UNCHANGED <<device, ignored>>

Read(b) ==
  /\ pc = "idle" /\ pc' = "read" /\ lba' = b /\ i' = 0 /\ result' = FALSE
  /\ UNCHANGED <<device, buffer, old, known, ignored>>

\* A poll that times out or finds ERR ends the call; earlier sectors stay.
GiveUp ==
  /\ pc \in {"wait", "read"} /\ pc' = "idle"
  /\ UNCHANGED <<device, lba, buffer, i, result, old, known, ignored>>

IsLast == i = SECTORS_PER_BLOCK - 1

\* ata_write_sector: the data go out once DRQ is set; no status is read after.
SendSector ==
  /\ pc = "wait" /\ pc' = "flush"
  /\ \/ /\ cache' = [cache EXCEPT ![lba][i] = buffer[i]] /\ UNCHANGED ignored
     \/ ignored' = TRUE /\ UNCHANGED cache
  /\ UNCHANGED <<media, lba, buffer, i, result, old, known>>

\* Slip: no flush command.
NoFlush == UNCHANGED <<media, ignored>>

Flush == \/ media' = cache /\ UNCHANGED ignored
         \/ ignored' = TRUE /\ UNCHANGED media

\* The flush, whose result is ignored, and the next turn of the loop.
FlushSector ==
  /\ pc = "flush"
  /\ Flush
  /\ IF IsLast
     THEN pc' = "idle" /\ result' = TRUE /\ known' = [known EXCEPT ![lba] = {buffer}]
          /\ UNCHANGED i
     ELSE pc' = "wait" /\ i' = i + 1 /\ UNCHANGED <<result, known>>
  /\ UNCHANGED <<cache, lba, buffer, old>>

\* Slip: the address of the first sector for all.
ReadFirstSector ==
  /\ pc = "read" /\ buffer' = [buffer EXCEPT ![i] = cache[lba][0]]
  /\ IF IsLast
     THEN pc' = "idle" /\ result' = TRUE /\ UNCHANGED i
     ELSE i' = i + 1 /\ UNCHANGED <<pc, result>>
  /\ UNCHANGED <<device, lba, old, known, ignored>>

ReadSector ==
  /\ pc = "read" /\ buffer' = [buffer EXCEPT ![i] = cache[lba][i]]
  /\ IF IsLast
     THEN pc' = "idle" /\ result' = TRUE /\ UNCHANGED i
     ELSE i' = i + 1 /\ UNCHANGED <<pc, result>>
  /\ UNCHANGED <<device, lba, old, known, ignored>>

-----------------------------------------------------------------------------
(* The drive. *)

\* It writes a cached sector out when it likes.
Destage(b, s) ==
  /\ media' = [media EXCEPT ![b][s] = cache[b][s]]
  /\ UNCHANGED <<cache, call, old, known, ignored>>

\* Power goes; at the next boot the drive answers from the media.
PowerLoss ==
  /\ cache' = media /\ pc' = "idle" /\ result' = FALSE
  /\ UNCHANGED <<media, lba, buffer, i, old, known, ignored>>

Init ==
  /\ media = [b \in Blocks |-> [s \in Sectors |-> Blank]] /\ cache = media
  /\ pc = "idle" /\ lba \in Blocks /\ buffer = [s \in Sectors |-> Blank]
  /\ i = 0 /\ result = FALSE /\ old = buffer
  /\ known = [b \in Blocks |-> {}] /\ ignored = FALSE

Next ==
  \/ \E b \in Blocks : Read(b) \/ \E content \in Block : Write(b, content)
  \/ GiveUp \/ SendSector \/ FlushSector \/ ReadSector
  \/ \E b \in Blocks, s \in Sectors : Destage(b, s)
  \/ PowerLoss

Spec == Init /\ [][Next]_vars

-----------------------------------------------------------------------------
TypeOK ==
  /\ media \in [Blocks -> Block] /\ cache \in [Blocks -> Block]
  /\ pc \in {"idle", "wait", "flush", "read"} /\ lba \in Blocks
  /\ buffer \in Block /\ i \in Sectors /\ result \in BOOLEAN /\ old \in Block
  /\ known \in [Blocks -> SUBSET Block] /\ ignored \in BOOLEAN

Writing == pc \in {"wait", "flush"}

\* Unless the drive fails unseen, a write under way has replaced the sectors
\* before i, on the media, and none after it: what a failure or a loss of
\* power leaves is a prefix of the new block before a suffix of the old.
PrefixWritten ==
  Writing /\ ~ignored =>
    \A s \in Sectors : /\ s < i => media[lba][s] = buffer[s]
                       /\ s > i => media[lba][s] = old[s]
                       /\ media[lba][s] \in {old[s], buffer[s]}

\* A write that returned true survives a loss of power.
AcknowledgedIsDurable ==
  ~ignored => \A b \in Blocks : known[b] # {} => media[b] \in known[b]

\* A read finds the block as the last good write left it: sector by sector on
\* the way, and the whole block once it has returned true.
ReadsWhatWasWritten ==
  ~ignored /\ known[lba] # {} =>
    /\ pc = "read" =>
         \A s \in Sectors : s < i => \A content \in known[lba] : buffer[s] = content[s]
    /\ result => buffer \in known[lba]
=============================================================================
