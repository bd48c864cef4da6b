------------------------- MODULE BlockDeviceProofs -------------------------
(***************************************************************************)
(* An interrupted write leaves a prefix of the new block, and an           *)
(* acknowledged one survives a loss of power, for every number of blocks,  *)
(* sectors and contents.                                                   *)
(***************************************************************************)
EXTENDS BlockDevice, TLAPS

\* Between the data and the flush of a sector the cache is ahead of the media
\* by at most that sector; otherwise they agree.
CacheAhead ==
  ~ignored =>
    \A b \in Blocks, s \in Sectors :
      \/ cache[b][s] = media[b][s]
      \/ pc = "flush" /\ b = lba /\ s = i

\* The sector between its data and its flush is the new one in the cache.
SectorSent ==
  pc = "flush" /\ ~ignored => cache[lba][i] = buffer[i]

\* No block under write counts as known, a known one has one content, and a
\* call under way has returned nothing.
WritingIsUnknown ==
  /\ Writing => known[lba] = {}
  /\ \A b \in Blocks : \A v, w \in known[b] : v = w
  /\ pc # "idle" => ~result

IInv == /\ TypeOK /\ CacheAhead /\ SectorSent /\ WritingIsUnknown
        /\ PrefixWritten /\ AcknowledgedIsDurable /\ ReadsWhatWasWritten

\* The loop variable of a transfer stays a sector number.
LEMMA SectorNumbers ==
  /\ 0 \in Sectors
  /\ \A s \in Sectors : s \in Nat /\ (s # SECTORS_PER_BLOCK - 1 => s + 1 \in Sectors)
  /\ \A s \in Sectors : s <= SECTORS_PER_BLOCK - 1
  BY DeviceAssumption DEF Sectors

\* Replacing one sector of one block leaves functions from blocks to blocks.
LEMMA SectorUpdate ==
  ASSUME NEW f \in [Blocks -> Block], NEW b \in Blocks, NEW s \in Sectors, NEW v \in Data
  PROVE  /\ [f EXCEPT ![b][s] = v] \in [Blocks -> Block]
         /\ \A c \in Blocks, t \in Sectors :
              [f EXCEPT ![b][s] = v][c][t] = IF c = b /\ t = s THEN v ELSE f[c][t]
         /\ \A c \in Blocks : c # b => [f EXCEPT ![b][s] = v][c] = f[c]
  BY DEF Block

\* The drive starts blank and the program idle.
LEMMA InitInv == Init => IInv
<1> SUFFICES ASSUME Init PROVE IInv
  OBVIOUS
<1>1. [s \in Sectors |-> Blank] \in Block
  BY DeviceAssumption DEF Block
<1>2. TypeOK
  BY <1>1, SectorNumbers DEF Init, TypeOK
<1> QED
  BY <1>2 DEF Init, IInv, CacheAhead, SectorSent, WritingIsUnknown, PrefixWritten,
              AcknowledgedIsDurable, ReadsWhatWasWritten, Writing

\* A step keeps the types.
LEMMA TypeStep == TypeOK /\ [Next]_vars => TypeOK'
<1> SUFFICES ASSUME TypeOK, [Next]_vars PROVE TypeOK'
  OBVIOUS
<1> USE SectorNumbers DEF TypeOK
<1>1. ASSUME NEW b \in Blocks, Read(b) PROVE TypeOK'
  BY <1>1 DEF Read, device
<1>2. ASSUME NEW b \in Blocks, NEW content \in Block, Write(b, content) PROVE TypeOK'
  BY <1>2 DEF Write, device
<1>3. CASE GiveUp
  BY <1>3 DEF GiveUp, device
<1>4. CASE SendSector
  <2>1. buffer[i] \in Data
    BY DEF Block
  <2>2. [cache EXCEPT ![lba][i] = buffer[i]] \in [Blocks -> Block]
    BY <2>1, SectorUpdate
  <2> QED
    BY <1>4, <2>2 DEF SendSector
<1>5. CASE FlushSector
  BY <1>5 DEF FlushSector, Flush, IsLast
<1>6. CASE ReadSector
  <2>1. cache[lba][i] \in Data
    BY DEF Block
  <2>2. buffer' \in Block
    BY <1>6, <2>1 DEF ReadSector, IsLast, Block
  <2> QED
    BY <1>6, <2>2 DEF ReadSector, IsLast, device
<1>7. ASSUME NEW b \in Blocks, NEW s \in Sectors, Destage(b, s) PROVE TypeOK'
  <2>1. cache[b][s] \in Data
    BY DEF Block
  <2> QED
    BY <1>7, <2>1, SectorUpdate DEF Destage, call
<1>8. CASE PowerLoss
  BY <1>8 DEF PowerLoss
<1>9. CASE UNCHANGED vars
  BY <1>9 DEF vars, device, call
<1> QED
  BY <1>1, <1>2, <1>3, <1>4, <1>5, <1>6, <1>7, <1>8, <1>9 DEF Next

\* A step keeps the invariant.
LEMMA NextInv == IInv /\ [Next]_vars => IInv'
<1> SUFFICES ASSUME IInv, [Next]_vars PROVE IInv'
  OBVIOUS
<1>0. TypeOK /\ TypeOK'
  BY TypeStep DEF IInv
<1> DEFINE Rest == /\ CacheAhead /\ SectorSent /\ WritingIsUnknown
                   /\ PrefixWritten /\ AcknowledgedIsDurable /\ ReadsWhatWasWritten
<1>1. Rest'
  <2> USE <1>0, SectorNumbers
      DEF CacheAhead, SectorSent, WritingIsUnknown, PrefixWritten,
          AcknowledgedIsDurable, ReadsWhatWasWritten, Writing, IInv, TypeOK
  <2>1. ASSUME NEW b \in Blocks, Read(b) PROVE Rest'
    BY <2>1 DEF Read, device
  <2>2. ASSUME NEW b \in Blocks, NEW content \in Block, Write(b, content) PROVE Rest'
    BY <2>2 DEF Write, device
  <2>3. CASE GiveUp
    BY <2>3 DEF GiveUp, device
  <2>4. CASE SendSector
    BY <2>4 DEF SendSector, Block
  <2>5. CASE FlushSector
    <3>1. CASE ignored'
      BY <2>5, <3>1 DEF FlushSector, Flush, IsLast
    <3>2. CASE ~ignored'
      <4>1. ~ignored /\ media' = cache /\ cache' = cache
        BY <2>5, <3>2 DEF FlushSector, Flush, IsLast
      <4>0. i \in Nat /\ \A s \in Sectors : s \in Nat
        BY SectorNumbers
      <4>2. ASSUME NEW s \in Sectors
            PROVE  /\ s <= i => cache[lba][s] = buffer[s]
                   /\ s > i => cache[lba][s] = old[s]
        <5>1. CASE s = i
          BY <2>5, <4>1, <5>1 DEF FlushSector, Flush, IsLast
        <5>2. CASE s # i
          <6>1. cache[lba][s] = media[lba][s]
            BY <4>1, <5>2
          <6>2. (s < i => media[lba][s] = buffer[s]) /\ (s > i => media[lba][s] = old[s])
            BY <2>5, <4>1 DEF FlushSector, Flush, IsLast
          <6>3. s <= i => s < i
            BY <4>0, <5>2
          <6> QED
            BY <6>1, <6>2, <6>3
        <5> QED
          BY <5>1, <5>2, <4>0
      <4>3. \A b \in Blocks : b # lba => cache[b] = media[b]
        BY <4>1 DEF Block
      <4>4. CASE i = SECTORS_PER_BLOCK - 1
        <5>1. cache[lba] = buffer
          <6>1. \A s \in Sectors : cache[lba][s] = buffer[s]
            BY <4>2, <4>4, SectorNumbers
          <6> QED
            BY <6>1 DEF Block
        <5> QED
          BY <2>5, <4>1, <4>3, <4>4, <5>1 DEF FlushSector, Flush, IsLast
      <4>5. CASE i # SECTORS_PER_BLOCK - 1
        <5>1. \A s \in Sectors : (s < i + 1 <=> s <= i) /\ (s > i + 1 => s > i)
          BY <4>0
        <5>2. pc' = "wait" /\ i' = i + 1 /\ UNCHANGED <<known, lba, buffer, old, ignored>>
          BY <2>5, <4>1, <4>5, <3>2 DEF FlushSector, Flush, IsLast
        <5>3. PrefixWritten'
          BY <4>1, <4>2, <5>1, <5>2
        <5>4. AcknowledgedIsDurable'
          BY <2>5, <4>1, <4>3, <5>2 DEF FlushSector, Flush, IsLast
        <5> QED
          BY <2>5, <4>1, <5>2, <5>3, <5>4 DEF FlushSector, Flush, IsLast
      <4> QED
        BY <4>4, <4>5
    <3> QED
      BY <3>1, <3>2
  <2>6. CASE ReadSector
    <3>1. ASSUME ~ignored, known[lba] # {}
          PROVE  \A s \in Sectors : s <= i => buffer'[s] = media[lba][s]
      <4>1. buffer' = [buffer EXCEPT ![i] = cache[lba][i]] /\ pc = "read"
        BY <2>6 DEF ReadSector
      <4>2. cache[lba][i] = media[lba][i] /\ media[lba] \in known[lba]
        BY <3>1, <4>1
      <4>3. \A s \in Sectors : s < i => buffer[s] = media[lba][s]
        BY <3>1, <4>1, <4>2
      <4>0. i \in Nat /\ \A s \in Sectors : s \in Nat
        BY SectorNumbers
      <4>4. \A s \in Sectors : s <= i => s < i \/ s = i
        BY <4>0
      <4> QED
        BY <4>1, <4>2, <4>3, <4>4 DEF Block
    <3>2. ~ignored /\ known[lba] # {} => media[lba] \in known[lba]
      OBVIOUS
    <3>3. ReadsWhatWasWritten'
      <4>1. UNCHANGED <<lba, known, ignored>> /\ pc = "read" /\ ~result
        BY <2>6 DEF ReadSector
      <4>2. SUFFICES ASSUME ~ignored, known[lba] # {}
                     PROVE  /\ pc' = "read" => \A s \in Sectors :
                                 s < i' => buffer'[s] = media[lba][s]
                            /\ result' => buffer' = media[lba]
        BY <3>2, <4>1
      <4>3. CASE IsLast
        <5>1. \A s \in Sectors : buffer'[s] = media[lba][s]
          BY <3>1, <4>2, <4>3, SectorNumbers DEF IsLast
        <5>2. buffer' = media[lba]
          BY <5>1 DEF Block
        <5> QED
          BY <2>6, <4>3, <5>2 DEF ReadSector
      <4>4. CASE ~IsLast
        <5>1. i \in Nat /\ \A s \in Sectors : s \in Nat
          BY SectorNumbers
        <5>2. \A s \in Sectors : s < i + 1 => s <= i
          BY <5>1
        <5>3. i' = i + 1 /\ result' = result
          BY <2>6, <4>4 DEF ReadSector
        <5> QED
          BY <3>1, <4>1, <4>2, <5>2, <5>3
      <4> QED
        BY <4>3, <4>4
    <3> QED
      BY <2>6, <3>3 DEF ReadSector, IsLast, device
  <2>7. ASSUME NEW b \in Blocks, NEW s \in Sectors, Destage(b, s) PROVE Rest'
    <3>1. cache[b][s] \in Data
      BY DEF Block
    <3>2. CASE media' = media
      BY <2>7, <3>2 DEF Destage, call
    <3>3. CASE media' # media
      <4>1. ~ignored => pc = "flush" /\ b = lba /\ s = i /\ cache[b][s] = buffer[s]
        BY <2>7, <3>3 DEF Destage, Block
      <4>2. /\ \A c \in Blocks, t \in Sectors :
                 media'[c][t] = IF c = b /\ t = s THEN cache[b][s] ELSE media[c][t]
            /\ \A c \in Blocks : c # b => media'[c] = media[c]
        BY <2>7, <3>1, SectorUpdate DEF Destage
      <4> QED
        BY <2>7, <4>1, <4>2 DEF Destage, call
    <3> QED
      BY <3>2, <3>3
  <2>8. CASE PowerLoss
    BY <2>8 DEF PowerLoss
  <2>9. CASE UNCHANGED vars
    BY <2>9 DEF vars, device, call
  <2> QED
    BY <2>1, <2>2, <2>3, <2>4, <2>5, <2>6, <2>7, <2>8, <2>9 DEF Next, IInv
<1> QED
  BY <1>0, <1>1 DEF IInv

\* Whatever interrupts a write, the media hold a prefix of the new block.
THEOREM WritesAreOrdered == Spec => []PrefixWritten
<1>1. IInv => PrefixWritten
  BY DEF IInv
<1> QED
  BY InitInv, NextInv, <1>1, PTL DEF Spec

\* A block whose write returned true is on the media.
THEOREM Durability == Spec => []AcknowledgedIsDurable
<1>1. IInv => AcknowledgedIsDurable
  BY DEF IInv
<1> QED
  BY InitInv, NextInv, <1>1, PTL DEF Spec

\* A read finds what the last acknowledged write of the block stored.
THEOREM ReadBack == Spec => []ReadsWhatWasWritten
<1>1. IInv => ReadsWhatWasWritten
  BY DEF IInv
<1> QED
  BY InitInv, NextInv, <1>1, PTL DEF Spec
=============================================================================
