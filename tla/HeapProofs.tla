----------------------------- MODULE HeapProofs -----------------------------
(***************************************************************************)
(* For a heap of every size, and programs that free and move only what is  *)
(* in use: the block list tiles the heap, free neighbours are merged,      *)
(* malloc fails only when no block suits, and the heap is an Allocator.    *)
(***************************************************************************)
EXTENDS Heap, TLAPS

\* Behind `cur` the loop of free has left no two free blocks that touch.
CoalescedSoFar ==
  \A a \in Headers :
    /\ pc = "merge" => a < cur
    /\ blocks[a].free /\ blocks[a].next # Null
    => ~blocks[blocks[a].next].free

\* Nothing the loop of malloc has passed suits.
SearchedSoFar ==
  pc = "search" =>
    \A a \in Headers : a < cur /\ blocks[a].free => blocks[a].size < want

\* What the locals of the call under way are.
CallLocals ==
  /\ pc \in {"search", "copy"} => asked \in Requests
  /\ pc \in {"idle", "merge"} => old = Null
  /\ pc = "search" /\ old # Null => blocks[old].size < want
  /\ pc = "copy" => cur \in Headers /\ old \in InUse /\ want <= blocks[cur].size

IInv == /\ TypeOK /\ BlocksTile /\ LiveBlocksHold
        /\ CoalescedSoFar /\ SearchedSoFar /\ CallLocals

\* Rounding up loses nothing, as long as it does not wrap.
LEMMA Rounding == \A n \in Requests : align_size(n) \in Nat /\ n <= align_size(n)
<1> SUFFICES ASSUME NEW n \in Requests PROVE align_size(n) \in Nat /\ n <= align_size(n)
  OBVIOUS
<1> DEFINE x == n + (Align - 1)
<1>1. n \in Nat /\ x \in Nat /\ x < Word /\ Align \in Nat \ {0} /\ Word \in Nat \ {0}
  BY HeapAssumption, RequestAssumption
<1>2. x % Word = x
  BY <1>1
<1>3. x % Align \in 0..(Align - 1) /\ x % Align <= x
  BY <1>1
<1> HIDE DEF x
<1>4. align_size(n) = x - (x % Align)
  BY <1>2 DEF align_size, x
<1> QED
  BY <1>1, <1>3, <1>4 DEF x

\* An empty heap.
LEMMA InitInv == Init => IInv
  BY HeapAssumption
     DEF Init, IInv, TypeOK, BlocksTile, LiveBlocksHold, CoalescedSoFar, SearchedSoFar,
         CallLocals, Headers, InUse, Null

\* Steps that change no block and give out none keep the block list.
LEMMA ListKept ==
  ASSUME IInv, UNCHANGED <<blocks, live>>
  PROVE  /\ Headers' = Headers /\ InUse' = InUse /\ BlocksTile'
         /\ \A p \in InUse : ~blocks[p].free /\ live[p] <= blocks[p].size
  BY DEF IInv, TypeOK, BlocksTile, LiveBlocksHold, Headers, InUse

\* The first call lays out one block; later calls find the list.
LEMMA MallocInv == ASSUME IInv, NEW n \in Requests, Malloc(n) PROVE IInv'
<1> USE HeapAssumption
<1>1. CASE Headers = {}
  <2>1. blocks' = [a \in {0} |-> [size |-> HeapSize - Header, free |-> TRUE, next |-> Null]]
    BY <1>1 DEF Malloc, heap_init
  <2>2. Headers' = {0} /\ live' = live /\ InUse = {} /\ InUse' = {}
    BY <1>1, <2>1 DEF Headers, InUse, IInv, TypeOK, Malloc
  <2>3. pc' = "search" /\ cur' = 0 /\ asked' = n /\ old' = Null
    BY DEF Malloc
  <2>4. TypeOK'
    BY <2>1, <2>2, <2>3 DEF IInv, TypeOK, Headers, InUse, Null
  <2>5. BlocksTile' /\ CoalescedSoFar'
    BY <2>1, <2>2, <2>3 DEF BlocksTile, CoalescedSoFar, Null
  <2>6. LiveBlocksHold' /\ SearchedSoFar' /\ CallLocals'
    BY <2>1, <2>2, <2>3 DEF LiveBlocksHold, SearchedSoFar, CallLocals
  <2> QED
    BY <2>4, <2>5, <2>6 DEF IInv
<1>2. CASE Headers # {}
  <2>1. blocks' = blocks /\ live' = live
    BY <1>2 DEF Malloc, heap_init
  <2>2. 0 \in Headers
    BY <1>2 DEF IInv, BlocksTile
  <2> QED
    BY <2>1, <2>2, ListKept
       DEF IInv, TypeOK, LiveBlocksHold, CoalescedSoFar, SearchedSoFar, CallLocals, Headers,
           InUse, Null, Malloc, BlocksTile
<1> QED
  BY <1>1, <1>2

\* A turn of malloc's loop that passes a block.
LEMMA PassInv == ASSUME IInv, Search, ~Suits(cur) PROVE IInv'
<1>1. /\ cur \in Headers /\ cur' = blocks[cur].next /\ UNCHANGED <<blocks, pc, asked, old, live>>
      /\ pc = "search"
  BY DEF Search, IInv, TypeOK
<1>2. \A a \in Headers : a < cur' => a <= cur
  BY <1>1, HeapAssumption DEF IInv, BlocksTile, TypeOK, Null
<1>3. want' = want /\ want \in Nat
  BY <1>1, Rounding DEF want, IInv, CallLocals
<1>4. SearchedSoFar'
  BY <1>1, <1>2, <1>3, HeapAssumption DEF IInv, SearchedSoFar, TypeOK, Suits, Headers
<1> QED
  BY <1>1, <1>3, <1>4, ListKept
     DEF IInv, TypeOK, LiveBlocksHold, CoalescedSoFar, CallLocals, Headers, InUse

\* What is left of a block behind the part that is taken is a block.
LEMMA SplitList ==
  ASSUME IInv, cur \in Headers, want \in Nat, want <= blocks[cur].size,
         blocks[cur].size - want > Header + MinSplit, blocks' = Split(cur)
  PROVE  LET rest == cur + Header + want
         IN  /\ Headers' = Headers \cup {rest} /\ rest \in 0..(HeapSize - 1)
             /\ rest \notin Headers /\ cur < rest /\ rest < blocks[cur].next
             /\ blocks'[cur] = [size |-> want, free |-> FALSE, next |-> rest]
             /\ blocks'[rest] = [size |-> Remainder(cur), free |-> TRUE,
                                next |-> blocks[cur].next]
             /\ \A b \in Headers \ {cur} : blocks'[b] = blocks[b]
<1> USE HeapAssumption
<1> DEFINE rest == cur + Header + want
<1>1. /\ blocks[cur].next = cur + Header + blocks[cur].size /\ blocks[cur].next \in 0..HeapSize
      /\ cur \in Nat /\ blocks[cur].size \in Nat
  BY DEF IInv, TypeOK, BlocksTile, Null
<1>2. cur < rest /\ rest < blocks[cur].next /\ rest \in 0..(HeapSize - 1)
  BY <1>1
<1>3. rest \notin Headers
  <2> SUFFICES ASSUME rest \in Headers PROVE FALSE
    OBVIOUS
  <2>1. blocks[cur].next <= rest
    BY <1>2 DEF IInv, BlocksTile
  <2> QED
    BY <1>1, <1>2, <2>1
<1>4. Headers' = Headers \cup {rest}
  BY DEF Split, Headers
<1>5. rest # cur
  BY <1>1, <1>2
<1>6. /\ blocks'[cur] = [size |-> want, free |-> FALSE, next |-> rest]
      /\ blocks'[rest] = [size |-> Remainder(cur), free |-> TRUE, next |-> blocks[cur].next]
      /\ \A b \in Headers \ {cur} : blocks'[b] = blocks[b]
  <2> HIDE DEF rest
  <2>1. blocks' = [b \in Headers \cup {rest} |->
                     CASE b = cur -> [size |-> want, free |-> FALSE, next |-> rest]
                       [] b = rest -> [size |-> Remainder(cur), free |-> TRUE,
                                       next |-> blocks[cur].next]
                       [] OTHER -> blocks[b]]
    BY DEF Split, rest
  <2> QED
    BY <2>1, <1>3, <1>5
<1> QED
  BY <1>2, <1>3, <1>4, <1>6

\* The block malloc finds is taken whole or split; either way the list is intact.
LEMMA TakeList ==
  ASSUME IInv, cur \in Headers, want \in Nat, Suits(cur), Take(cur)
  PROVE  /\ Headers \subseteq Headers' /\ Headers' \subseteq 0..(HeapSize - 1)
         /\ blocks' \in [Headers' -> [size : Nat, free : BOOLEAN, next : Headers' \cup {Null}]]
         /\ BlocksTile'
         /\ ~blocks'[cur].free /\ want <= blocks'[cur].size
         /\ \A b \in Headers \ {cur} : blocks'[b] = blocks[b]
         /\ (pc = "search" =>
              \A a \in Headers' : blocks'[a].free /\ blocks'[a].next # Null =>
                                  ~blocks'[blocks'[a].next].free)
<1> USE HeapAssumption
<1>1. CASE blocks[cur].size - want > Header + MinSplit
  <2> DEFINE rest == cur + Header + want
  <2>1. blocks' = Split(cur) /\ want <= blocks[cur].size
    BY <1>1 DEF Take, Suits
  <2>2. /\ Headers' = Headers \cup {rest} /\ rest \in 0..(HeapSize - 1)
        /\ rest \notin Headers /\ cur < rest /\ rest < blocks[cur].next
        /\ blocks'[cur] = [size |-> want, free |-> FALSE, next |-> rest]
        /\ blocks'[rest] = [size |-> Remainder(cur), free |-> TRUE, next |-> blocks[cur].next]
        /\ \A b \in Headers \ {cur} : blocks'[b] = blocks[b]
    BY <1>1, <2>1, SplitList
  <2>3. /\ cur \in Nat /\ blocks[cur].size \in Nat /\ rest = cur + Header + want
        /\ Remainder(cur) = (blocks[cur].size - want) - Header /\ Remainder(cur) \in Nat
        /\ blocks[cur].next = rest + Header + Remainder(cur)
        /\ blocks[cur].free
    BY <1>1 DEF IInv, TypeOK, BlocksTile, Remainder, Suits
  <2> HIDE DEF rest
  <2>4. \A b \in Headers : /\ b \in Nat /\ blocks[b].size \in Nat /\ blocks[b].free \in BOOLEAN
                           /\ blocks[b].next \in Headers \cup {Null}
                           /\ blocks[b] \in [size : Nat, free : BOOLEAN,
                                             next : Headers \cup {Null}]
    BY DEF IInv, TypeOK
  <2>5. Headers' \subseteq 0..(HeapSize - 1)
    BY <2>2 DEF IInv, TypeOK
  <2>6. blocks' \in [Headers' -> [size : Nat, free : BOOLEAN, next : Headers' \cup {Null}]]
    <3>1. \A b \in Headers' : blocks'[b] \in [size : Nat, free : BOOLEAN,
                                               next : Headers' \cup {Null}]
      <4> SUFFICES ASSUME NEW b \in Headers'
                   PROVE  blocks'[b] \in [size : Nat, free : BOOLEAN, next : Headers' \cup {Null}]
        OBVIOUS
      <4>1. CASE b = cur
        <5>1. want \in Nat /\ rest \in Headers'
          BY <2>2
        <5> QED
          BY <4>1, <5>1, <2>2
      <4>2. CASE b = rest
        <5>1. blocks[cur].next \in Headers' \cup {Null}
          BY <2>2, <2>4
        <5> QED
          BY <4>2, <5>1, <2>2, <2>3
      <4>3. CASE b \in Headers \ {cur}
        <5>1. blocks'[b] = blocks[b] /\ Headers \subseteq Headers'
          BY <4>3, <2>2
        <5> QED
          BY <4>3, <5>1, <2>4
      <4> QED
        BY <4>1, <4>2, <4>3, <2>2
    <3>2. blocks' = [b \in Headers' |-> blocks'[b]]
      BY <2>1 DEF Headers, Split
    <3> QED
      BY <3>1, <3>2
  <2>7. BlocksTile'
    <3>1. 0 \in Headers'
      BY <2>2 DEF IInv, BlocksTile
    <3>2. \A a \in Headers' : blocks'[a].next = a + Header + blocks'[a].size
      BY <2>2, <2>3 DEF IInv, BlocksTile
    <3>3. ASSUME NEW a \in Headers', NEW b \in Headers', a < b PROVE blocks'[a].next <= b
      <4>1. CASE a \in Headers \ {cur} /\ b \in Headers
        BY <4>1, <3>3, <2>2 DEF IInv, BlocksTile
      <4>2. CASE a \in Headers \ {cur} /\ b = rest
        <5>1. a < cur \/ cur < a
          <6>1. a \in Nat /\ cur \in Nat /\ a # cur
            BY <4>2, <2>3, <2>4
          <6> QED
            BY <6>1
        <5>2. ~(cur < a)
          <6> SUFFICES ASSUME cur < a PROVE FALSE
            OBVIOUS
          <6>1. blocks[cur].next <= a
            BY <4>2 DEF IInv, BlocksTile
          <6> QED
            BY <6>1, <4>2, <3>3, <2>2, <2>3, <2>4
        <5>3. blocks[a].next <= cur
          BY <4>2, <5>1, <5>2 DEF IInv, BlocksTile
        <5>4. blocks[a].next \in Nat
          BY <4>2, <2>4, <2>5, <2>2 DEF Null
        <5> QED
          BY <5>3, <5>4, <4>2, <2>2, <2>3
      <4>3. CASE a = cur
        <5>1. b = rest \/ blocks[cur].next <= b
          BY <4>3, <3>3, <2>2 DEF IInv, BlocksTile
        <5>2. b \in Nat /\ rest \in Nat /\ blocks[cur].next \in Nat
          BY <2>2, <2>3, <2>5
        <5> QED
          BY <4>3, <5>1, <5>2, <2>2
      <4>4. CASE a = rest
        <5>1. b \in Headers /\ cur < b
          BY <4>4, <3>3, <2>2, <2>3, <2>4
        <5>2. blocks[cur].next <= b
          BY <5>1 DEF IInv, BlocksTile
        <5> QED
          BY <4>4, <5>2, <2>2
      <4> QED
        BY <4>1, <4>2, <4>3, <4>4, <2>2
    <3> QED
      BY <3>1, <3>2, <3>3 DEF BlocksTile
  <2>8. ~blocks'[cur].free /\ want <= blocks'[cur].size
    BY <2>2
  <2>9. ASSUME pc = "search", NEW a \in Headers', blocks'[a].free, blocks'[a].next # Null
        PROVE  ~blocks'[blocks'[a].next].free
    <3>1. CASE a = rest
      <4>1. blocks[cur].next # Null /\ ~blocks[blocks[cur].next].free
        BY <3>1, <2>9, <2>2, <2>3 DEF IInv, CoalescedSoFar
      <4>2. blocks[cur].next \in Headers \ {cur}
        BY <4>1, <2>2, <2>3, <2>4
      <4>3. blocks'[a].next = blocks[cur].next
        BY <3>1, <2>2
      <4>4. blocks'[blocks[cur].next] = blocks[blocks[cur].next]
        BY <4>2, <2>2
      <4> QED
        BY <4>1, <4>3, <4>4
    <3>2. CASE a \in Headers \ {cur}
      <4>1. blocks[a].free /\ blocks[a].next # Null /\ blocks[a].next \in Headers
        BY <3>2, <2>9, <2>2, <2>4
      <4>2. ~blocks[blocks[a].next].free
        BY <3>2, <4>1, <2>9 DEF IInv, CoalescedSoFar
      <4>3. blocks'[a].next = blocks[a].next
        BY <3>2, <2>2
      <4>4. CASE blocks[a].next = cur
        BY <4>3, <4>4, <2>8
      <4>5. CASE blocks[a].next # cur
        BY <4>1, <4>2, <4>3, <4>5, <2>2
      <4> QED
        BY <4>4, <4>5
    <3>3. a = cur \/ a = rest \/ a \in Headers \ {cur}
      BY <2>2
    <3> QED
      BY <3>1, <3>2, <3>3, <2>8, <2>9
  <2> QED
    BY <2>2, <2>5, <2>6, <2>7, <2>8, <2>9
<1>2. CASE ~(blocks[cur].size - want > Header + MinSplit)
  <2>1. blocks' = [blocks EXCEPT ![cur].free = FALSE]
    BY <1>2 DEF Take
  <2>2. /\ Headers' = Headers
        /\ blocks' \in [Headers -> [size : Nat, free : BOOLEAN, next : Headers \cup {Null}]]
        /\ \A b \in Headers : /\ blocks'[b].size = blocks[b].size
                              /\ blocks'[b].next = blocks[b].next
                              /\ blocks'[b].free = IF b = cur THEN FALSE ELSE blocks[b].free
        /\ \A b \in Headers \ {cur} : blocks'[b] = blocks[b]
    BY <2>1 DEF IInv, TypeOK, Headers
  <2>3. BlocksTile'
    BY <2>2 DEF IInv, BlocksTile
  <2>4. want <= blocks'[cur].size /\ ~blocks'[cur].free
    BY <2>2 DEF Suits
  <2>5. pc = "search" =>
              \A a \in Headers' : blocks'[a].free /\ blocks'[a].next # Null =>
                                  ~blocks'[blocks'[a].next].free
    BY <2>2 DEF IInv, TypeOK, CoalescedSoFar
  <2> QED
    BY <2>2, <2>3, <2>4, <2>5 DEF IInv, TypeOK
<1> QED
  BY <1>1, <1>2

\* A malloc, or the malloc in a realloc, finds its block.
LEMMA FoundInv == ASSUME IInv, Search, Suits(cur) PROVE IInv'
<1> USE HeapAssumption
<1>1. /\ pc = "search" /\ cur \in Headers /\ Take(cur) /\ asked \in Requests
      /\ want \in Nat /\ asked <= want
  BY Rounding DEF Search, IInv, TypeOK, CallLocals, want
<1>2. /\ Headers \subseteq Headers' /\ Headers' \subseteq 0..(HeapSize - 1)
      /\ blocks' \in [Headers' -> [size : Nat, free : BOOLEAN, next : Headers' \cup {Null}]]
      /\ BlocksTile'
      /\ ~blocks'[cur].free /\ want <= blocks'[cur].size
      /\ \A b \in Headers \ {cur} : blocks'[b] = blocks[b]
      /\ \A a \in Headers' : blocks'[a].free /\ blocks'[a].next # Null =>
                              ~blocks'[blocks'[a].next].free
  BY <1>1, TakeList
<1>3. cur \notin InUse /\ InUse \subseteq Headers
  BY <1>1 DEF IInv, LiveBlocksHold, TypeOK, Suits
<1>4. CASE old = Null
  <2>1. /\ pc' = "idle" /\ cur' = Null /\ asked' = 0 /\ old' = Null
        /\ live' = [q \in InUse \cup {cur} |-> IF q = cur THEN asked ELSE live[q]]
    BY <1>1, <1>4 DEF Search, Idle
  <2>2. InUse' = InUse \cup {cur} /\ InUse' \subseteq Headers'
    BY <2>1, <1>1, <1>2, <1>3 DEF InUse
  <2>3. TypeOK'
    <3>1. live' \in [InUse' -> Requests]
      BY <2>1, <2>2, <1>1 DEF IInv, TypeOK
    <3> QED
      BY <3>1, <2>1, <2>2, <1>2 DEF TypeOK
  <2>4. LiveBlocksHold'
    <3>1. ASSUME NEW p \in InUse' PROVE ~blocks'[p].free /\ live'[p] <= blocks'[p].size
      <4>1. CASE p = cur
        <5>1. live'[p] = asked
          BY <2>1, <4>1
        <5>2. blocks'[cur].size \in Nat /\ asked \in Nat
          BY <1>1, <1>2, RequestAssumption
        <5> QED
          BY <4>1, <5>1, <5>2, <1>1, <1>2
      <4>2. CASE p \in InUse
        BY <4>2, <2>1, <1>2, <1>3 DEF IInv, LiveBlocksHold
      <4> QED
        BY <4>1, <4>2, <2>2
    <3> QED
      BY <3>1, <2>1 DEF LiveBlocksHold
  <2> QED
    BY <1>2, <2>1, <2>3, <2>4 DEF IInv, CoalescedSoFar, SearchedSoFar, CallLocals
<1>5. CASE old # Null
  <2>1. pc' = "copy" /\ UNCHANGED <<cur, asked, old, live>>
    BY <1>1, <1>5 DEF Search
  <2>2. old \in InUse /\ old # cur /\ InUse' = InUse /\ blocks[old].size < want
    BY <1>1, <1>3, <1>5, <2>1 DEF IInv, TypeOK, InUse, CallLocals
  <2>3. TypeOK'
    BY <2>1, <2>2, <1>1, <1>2, <1>3 DEF IInv, TypeOK
  <2>4. blocks'[old] = blocks[old] /\ blocks'[cur].size \in Nat /\ blocks[old].size \in Nat
    BY <2>2, <1>1, <1>2, <1>3 DEF IInv, TypeOK
  <2>5. LiveBlocksHold'
    <3>1. \A p \in InUse : blocks'[p] = blocks[p]
      BY <1>2, <1>3
    <3>2. blocks'[old].size <= blocks'[cur].size
      BY <2>2, <2>4, <1>1, <1>2
    <3> QED
      BY <3>1, <3>2, <2>1, <2>2, <1>2, <1>3 DEF IInv, LiveBlocksHold
  <2>6. CallLocals'
    BY <2>1, <2>2, <1>1, <1>2 DEF CallLocals, want
  <2> QED
    BY <1>2, <2>1, <2>3, <2>5, <2>6 DEF IInv, CoalescedSoFar, SearchedSoFar
<1> QED
  BY <1>4, <1>5

\* Marking a block free, at the start of free.
LEMMA FreeList ==
  ASSUME IInv, pc # "merge", NEW p \in InUse, SetFree(p), pc' = "merge", cur' = 0,
         old' = Null, asked' \in Requests \cup {0}, InUse' \subseteq Headers \ {p}, live' \in [InUse' -> Requests],
         \A q \in InUse' : ~blocks[q].free /\ live'[q] <= blocks[q].size
  PROVE  IInv'
<1> USE HeapAssumption
<1>1. /\ p \in Headers /\ Headers' = Headers /\ 0 \in Headers
      /\ blocks' \in [Headers -> [size : Nat, free : BOOLEAN, next : Headers \cup {Null}]]
      /\ \A b \in Headers : /\ blocks'[b].size = blocks[b].size
                            /\ blocks'[b].next = blocks[b].next
                            /\ blocks'[b].free = IF b = p THEN TRUE ELSE blocks[b].free
  BY DEF SetFree, IInv, TypeOK, Headers, BlocksTile
<1>2. TypeOK'
  BY <1>1 DEF IInv, TypeOK, InUse
<1>3. BlocksTile'
  BY <1>1 DEF IInv, BlocksTile
<1>4. LiveBlocksHold'
  BY <1>1 DEF LiveBlocksHold, IInv, TypeOK
<1>5. \A a \in Headers' : ~(a < 0)
  BY <1>1 DEF IInv, TypeOK
<1> QED
  BY <1>2, <1>3, <1>4, <1>5 DEF IInv, CoalescedSoFar, SearchedSoFar, CallLocals

\* free
LEMMA FreeInv == ASSUME IInv, NEW p \in InUse, Free(p) PROVE IInv'
<1>1. /\ pc = "idle" /\ pc' = "merge" /\ SetFree(p) /\ cur' = 0 /\ old' = old /\ asked' = asked
      /\ live' = [q \in InUse \ {p} |-> live[q]]
  BY DEF Free
<1>2. InUse' = InUse \ {p} /\ live' \in [InUse' -> Requests]
  BY <1>1 DEF InUse, IInv, TypeOK
<1>3. old' = Null /\ asked' \in Requests \cup {0} /\ pc # "merge"
  BY <1>1 DEF IInv, CallLocals, TypeOK
<1>4. InUse' \subseteq Headers \ {p}
  BY <1>2 DEF IInv, TypeOK
<1>5. \A q \in InUse' : ~blocks[q].free /\ live'[q] <= blocks[q].size
  BY <1>1, <1>2 DEF IInv, LiveBlocksHold
<1> QED
  BY <1>1, <1>2, <1>3, <1>4, <1>5, FreeList

\* realloc copies and frees the old block.
LEMMA CopyInv == ASSUME IInv, Copy PROVE IInv'
<1>1. /\ pc = "copy" /\ pc' = "merge" /\ SetFree(old) /\ cur' = 0 /\ old' = Null /\ asked' = 0
      /\ live' = [q \in (InUse \ {old}) \cup {cur} |-> IF q = cur THEN asked ELSE live[q]]
  BY DEF Copy
<1>2. /\ cur \in Headers /\ old \in InUse /\ old # cur /\ cur \notin InUse /\ asked \in Requests
      /\ ~blocks[cur].free /\ want <= blocks[cur].size /\ InUse \subseteq Headers
  BY <1>1 DEF IInv, CallLocals, LiveBlocksHold, TypeOK
<1>3. InUse' = (InUse \ {old}) \cup {cur} /\ live' \in [InUse' -> Requests]
  BY <1>1, <1>2 DEF InUse, IInv, TypeOK
<1>4. asked <= blocks[cur].size
  <2>1. want \in Nat /\ asked <= want /\ asked \in Nat /\ blocks[cur].size \in Nat
    BY <1>2, Rounding, RequestAssumption DEF want, IInv, TypeOK
  <2> QED
    BY <2>1, <1>2
<1>5. \A q \in InUse' : ~blocks[q].free /\ live'[q] <= blocks[q].size
  BY <1>1, <1>2, <1>3, <1>4 DEF IInv, LiveBlocksHold
<1> QED
  BY <1>1, <1>2, <1>3, <1>5, FreeList

\* A turn of the loop of free that merges two blocks.
LEMMA MergeTwoInv == ASSUME IInv, Merge, Mergeable PROVE IInv'
<1> USE HeapAssumption
<1> DEFINE b == blocks[cur]
           n == blocks[b.next]
<1>1. /\ pc = "merge" /\ cur # Null /\ cur' = cur /\ UNCHANGED <<pc, asked, old, live>>
      /\ blocks' = [a \in Headers \ {b.next} |->
                      IF a = cur
                      THEN [size |-> b.size + (Header + n.size), free |-> TRUE, next |-> n.next]
                      ELSE blocks[a]]
  BY DEF Merge, Stay, Link
<1>2. /\ cur \in Headers /\ b.next \in Headers /\ b.free /\ n.free
      /\ b.next = cur + Header + b.size /\ n.next = b.next + Header + n.size
      /\ cur \in Nat /\ b.size \in Nat /\ n.size \in Nat /\ cur < b.next /\ b.next < n.next
      /\ n.next \in Headers \cup {Null} /\ n.next # b.next /\ b.next # cur
  <2>1. cur \in Headers /\ b.next \in Headers \cup {Null} /\ b.next # Null /\ b.free /\ n.free
    BY <1>1 DEF Mergeable, IInv, TypeOK
  <2>2. /\ b.next = cur + Header + b.size /\ n.next = b.next + Header + n.size
        /\ cur \in Nat /\ b.size \in Nat /\ n.size \in Nat /\ n.next \in Headers \cup {Null}
    BY <2>1 DEF IInv, TypeOK, BlocksTile
  <2> HIDE DEF b, n
  <2>3. b.next \in Nat
    <3>1. Headers \subseteq Nat
      BY DEF IInv, TypeOK
    <3> QED
      BY <3>1, <2>1
  <2> QED
    BY <2>1, <2>2, <2>3
<1>3. /\ Headers' = Headers \ {b.next}
      /\ blocks'[cur] = [size |-> b.size + (Header + n.size), free |-> TRUE, next |-> n.next]
      /\ \A a \in Headers \ {b.next, cur} : blocks'[a] = blocks[a]
  BY <1>1, <1>2 DEF Headers
<1>4. \A a \in Headers \ {b.next, cur} :
        /\ blocks[a].next \in (Headers \ {b.next}) \cup {Null}
        /\ a < cur \/ n.next <= a
  <2> SUFFICES ASSUME NEW a \in Headers \ {b.next, cur}
               PROVE  /\ blocks[a].next \in (Headers \ {b.next}) \cup {Null}
                      /\ a < cur \/ n.next <= a
    OBVIOUS
  <2>1. a \in Nat /\ blocks[a].next \in Headers \cup {Null} /\ blocks[a].next \in Nat
        /\ a < blocks[a].next
    BY DEF IInv, TypeOK, BlocksTile, Null
  <2>2. a < cur => blocks[a].next <= cur
    BY <1>2 DEF IInv, BlocksTile
  <2>3. cur < a => b.next <= a
    BY <1>2 DEF IInv, BlocksTile
  <2>4. b.next < a => n.next <= a
    BY <1>2 DEF IInv, BlocksTile
  <2>5. b.next \in Nat /\ n.next \in Nat /\ cur \in Nat /\ cur < b.next /\ a # b.next /\ a # cur
        /\ b.next < n.next
    BY <1>2 DEF IInv, TypeOK, Null
  <2> HIDE DEF b, n
  <2>6. a < cur \/ (b.next < a /\ n.next <= a)
    BY <2>1, <2>3, <2>4, <2>5
  <2>7. blocks[a].next # b.next
    BY <2>1, <2>2, <2>5, <2>6
  <2> QED
    BY <2>1, <2>6, <2>7
<1>5. blocks' \in [Headers' -> [size : Nat, free : BOOLEAN, next : Headers' \cup {Null}]]
  <2> SUFFICES ASSUME NEW a \in Headers'
               PROVE  blocks'[a] \in [size : Nat, free : BOOLEAN, next : Headers' \cup {Null}]
    BY <1>1, <1>3
  <2>1. CASE a = cur
    <3>1. n.next \in Headers' \cup {Null} /\ b.size + (Header + n.size) \in Nat
      BY <1>2, <1>3
    <3> HIDE DEF b, n
    <3> QED
      BY <2>1, <3>1, <1>3
  <2>2. CASE a # cur
    <3>1. blocks'[a] = blocks[a] /\ blocks[a].next \in Headers' \cup {Null} /\ a \in Headers
      BY <2>2, <1>3, <1>4
    <3> QED
      BY <3>1 DEF IInv, TypeOK
  <2> QED
    BY <2>1, <2>2
<1>6. InUse' = InUse /\ cur \notin InUse /\ b.next \notin InUse /\ InUse \subseteq Headers
  BY <1>1, <1>2 DEF IInv, TypeOK, LiveBlocksHold, InUse
<1>7. TypeOK'
  BY <1>1, <1>2, <1>3, <1>5, <1>6 DEF IInv, TypeOK
<1>8. BlocksTile'
  <2>1. 0 \in Headers'
    BY <1>2, <1>3 DEF IInv, BlocksTile
  <2>2. \A a \in Headers' : blocks'[a].next = a + Header + blocks'[a].size
    <3>1. n.next = cur + Header + (b.size + (Header + n.size))
      BY <1>2
    <3> HIDE DEF b, n
    <3> QED
      BY <3>1, <1>3 DEF IInv, BlocksTile
  <2>3. ASSUME NEW a \in Headers', NEW c \in Headers', a < c PROVE blocks'[a].next <= c
    <3>1. CASE a = cur
      <4>1. c \in Headers \ {b.next, cur} /\ c \in Nat
        <5>1. c \in Headers /\ c # b.next /\ c \in Nat /\ cur \in Nat
          BY <1>2, <1>3 DEF IInv, TypeOK
        <5> QED
          BY <5>1, <2>3, <3>1
      <4>2. n.next <= c
        BY <4>1, <1>4, <1>2, <2>3, <3>1
      <4> QED
        BY <4>2, <3>1, <1>3
    <3>2. CASE a # cur
      BY <3>2, <2>3, <1>3 DEF IInv, BlocksTile
    <3> QED
      BY <3>1, <3>2
  <2> QED
    BY <2>1, <2>2, <2>3 DEF BlocksTile
<1>9. LiveBlocksHold'
  BY <1>1, <1>3, <1>6 DEF IInv, LiveBlocksHold
<1>10. CoalescedSoFar'
  <2> SUFFICES ASSUME NEW a \in Headers', a < cur, blocks'[a].free, blocks'[a].next # Null
               PROVE  ~blocks'[blocks'[a].next].free
    BY <1>1 DEF CoalescedSoFar
  <2>1. a \in Headers \ {b.next, cur} /\ blocks'[a] = blocks[a]
    BY <1>2, <1>3
  <2>2. ~blocks[blocks[a].next].free /\ blocks[a].next \in Headers \ {b.next}
    BY <2>1, <1>1, <1>4 DEF IInv, CoalescedSoFar
  <2>3. blocks[a].next # cur
    BY <2>2, <1>2
  <2> QED
    BY <2>1, <2>2, <2>3, <1>3
<1> QED
  BY <1>1, <1>7, <1>8, <1>9, <1>10 DEF IInv, SearchedSoFar, CallLocals

\* A turn that finds nothing to merge goes on.
LEMMA MergeOnInv == ASSUME IInv, Merge, ~Mergeable PROVE IInv'
<1> USE HeapAssumption
<1>1. /\ pc = "merge" /\ cur \in Headers /\ cur' = blocks[cur].next
      /\ UNCHANGED <<blocks, pc, asked, old, live>>
  BY DEF Merge, IInv, TypeOK
<1>2. \A a \in Headers : a < cur' => a < cur \/ a = cur
  BY <1>1 DEF IInv, BlocksTile, TypeOK, Null
<1>3. blocks[cur].free /\ blocks[cur].next # Null => ~blocks[blocks[cur].next].free
  BY <1>1 DEF Mergeable, IInv, BlocksTile
<1>4. CoalescedSoFar'
  BY <1>1, <1>2, <1>3 DEF IInv, CoalescedSoFar, Headers
<1> QED
  BY <1>1, <1>4, ListKept
     DEF IInv, TypeOK, LiveBlocksHold, SearchedSoFar, CallLocals, Headers, InUse

\* A loop that has come to the end of the list.
LEMMA EndInv == ASSUME IInv, Fail \/ MergeDone PROVE IInv'
<1>1. /\ pc \in {"search", "merge"} /\ cur = Null /\ UNCHANGED <<blocks, live>>
      /\ pc' = "idle" /\ cur' = Null /\ asked' = 0 /\ old' = Null
  BY DEF Fail, MergeDone, Idle
<1>2. \A a \in Headers : a < cur
  BY <1>1, HeapAssumption DEF IInv, TypeOK, Null
<1>3. CoalescedSoFar'
  BY <1>1, <1>2 DEF IInv, CoalescedSoFar, Headers
<1> QED
  BY <1>1, <1>3, ListKept
     DEF IInv, TypeOK, LiveBlocksHold, SearchedSoFar, CallLocals, Headers, InUse

\* realloc of a block that is long enough as it is.
LEMMA InPlaceInv ==
  ASSUME IInv, NEW p \in InUse, NEW n \in Requests, ReallocInPlace(p, n) PROVE IInv'
<1>1. /\ pc = "idle" /\ UNCHANGED <<blocks, pc, cur, asked, old>>
      /\ live' = [live EXCEPT ![p] = n] /\ blocks[p].size >= align_size(n)
  BY DEF ReallocInPlace, call
<1>2. n <= blocks[p].size
  BY <1>1, Rounding, RequestAssumption DEF IInv, TypeOK
<1>3. Headers' = Headers /\ InUse' = InUse /\ live' \in [InUse -> Requests]
  BY <1>1 DEF Headers, InUse, IInv, TypeOK
<1>4. LiveBlocksHold'
  BY <1>1, <1>2, <1>3 DEF IInv, LiveBlocksHold, TypeOK
<1>5. TypeOK' /\ BlocksTile'
  BY <1>1, <1>3 DEF IInv, TypeOK, BlocksTile
<1> QED
  BY <1>1, <1>3, <1>4, <1>5 DEF IInv, CoalescedSoFar, SearchedSoFar, CallLocals

\* realloc of a block that is too short asks malloc.
LEMMA MoveInv ==
  ASSUME IInv, NEW p \in InUse, NEW n \in Requests, ReallocMove(p, n) PROVE IInv'
<1>1. /\ pc = "idle" /\ pc' = "search" /\ cur' = 0 /\ asked' = n /\ old' = p
      /\ UNCHANGED <<blocks, live>> /\ blocks[p].size < align_size(n)
  BY DEF ReallocMove
<1>2. 0 \in Headers /\ \A a \in Headers : ~(a < 0)
  BY DEF IInv, TypeOK, BlocksTile
<1> QED
  BY <1>1, <1>2, ListKept
     DEF IInv, TypeOK, LiveBlocksHold, CoalescedSoFar, SearchedSoFar, CallLocals, Headers,
         InUse, want

\* Every step.
LEMMA NextInv == IInv /\ [Next]_vars => IInv'
<1>1. ASSUME IInv, Next PROVE IInv'
  BY <1>1, MallocInv, PassInv, FoundInv, FreeInv, CopyInv, MergeTwoInv, MergeOnInv, EndInv,
     InPlaceInv, MoveInv DEF Next, Calls, Search, Merge
<1>2. ASSUME IInv, UNCHANGED vars PROVE IInv'
  BY <1>2, ListKept
     DEF vars, call, IInv, TypeOK, LiveBlocksHold, CoalescedSoFar, SearchedSoFar, CallLocals,
         Headers, InUse, want
<1> QED
  BY <1>1, <1>2

\* The blocks cover the heap without gap or overlap, whatever is asked for.
THEOREM ListIntact == Spec => []BlocksTile
<1>1. IInv => BlocksTile
  BY DEF IInv
<1> QED
  BY InitInv, NextInv, <1>1, PTL DEF Spec

\* No block in use is free or shorter than it was asked to be.
THEOREM BlocksHold == Spec => []LiveBlocksHold
<1>1. IInv => LiveBlocksHold
  BY DEF IInv
<1> QED
  BY InitInv, NextInv, <1>1, PTL DEF Spec

\* Free neighbours are merged when free returns.
THEOREM NoFragments == Spec => []Coalesced
<1>1. IInv => Coalesced
  BY DEF IInv, CoalescedSoFar, Coalesced
<1> QED
  BY InitInv, NextInv, <1>1, PTL DEF Spec

\* malloc does not overlook a block.
THEOREM FirstFitComplete == Spec => []FailsOnlyWhenFull
<1>1. IInv => FailsOnlyWhenFull
  BY HeapAssumption DEF IInv, SearchedSoFar, FailsOnlyWhenFull, TypeOK, Null
<1> QED
  BY InitInv, NextInv, <1>1, PTL DEF Spec

\* A block's room lies in the heap, apart from the other blocks in use.
LEMMA RoomAt ==
  ASSUME IInv, NEW h \in Headers, NEW n \in Nat, n <= blocks[h].size
  PROVE  Promise!Fits(h, n, {h})
<1> USE HeapAssumption
<1>1. ASSUME NEW q \in Headers
      PROVE  /\ q \in Nat /\ blocks[q].size \in Nat /\ blocks[q].next \in Nat
             /\ blocks[q].next <= HeapSize /\ blocks[q].next = q + Header + blocks[q].size
  BY DEF IInv, TypeOK, BlocksTile, Null
<1>2. h + n <= HeapSize - Header /\ h \in Nat
  BY <1>1
<1>3. ASSUME NEW q \in InUse, q # h PROVE h + n <= q \/ q + live[q] <= h
  <2>1. q \in Headers /\ live[q] \in Nat /\ live[q] <= blocks[q].size
    BY RequestAssumption DEF IInv, TypeOK, LiveBlocksHold
  <2>2. CASE h < q
    <3>1. blocks[h].next <= q
      BY <2>1, <2>2 DEF IInv, BlocksTile
    <3> QED
      BY <1>1, <2>1, <3>1
  <2>3. CASE q < h
    <3>1. blocks[q].next <= h
      BY <2>1, <2>3 DEF IInv, BlocksTile
    <3> QED
      BY <1>1, <2>1, <3>1
  <2> QED
    BY <1>1, <1>3, <2>1, <2>2, <2>3
<1> QED
  BY <1>2, <1>3 DEF Promise!Fits, Promise!Apart, InUse

\* A step of the heap does to the blocks in use what Allocator allows.
LEMMA AllocatorStep == ASSUME IInv, [Next]_vars PROVE [Promise!Next]_live
<1> USE HeapAssumption
<1>1. ASSUME NEW h, NEW n, NEW S, Promise!Fits(h, n, S) PROVE h \in 0..(HeapSize - Header)
  BY <1>1 DEF Promise!Fits
<1>2. ASSUME Search PROVE [Promise!Next]_live
  <2>1. CASE live' = live
    BY <2>1
  <2>2. CASE live' # live
    <3>1. /\ cur \in Headers /\ blocks[cur].free /\ want <= blocks[cur].size
          /\ asked \in Requests /\ asked \in Nat
          /\ live' = [q \in InUse \cup {cur} |-> IF q = cur THEN asked ELSE live[q]]
      BY <1>2, <2>2, RequestAssumption DEF Search, Suits, IInv, TypeOK, CallLocals
    <3>2. asked <= blocks[cur].size
      BY <3>1, Rounding DEF want, IInv, TypeOK
    <3>3. cur \notin InUse
      BY <3>1 DEF IInv, LiveBlocksHold
    <3>4. Promise!Fits(cur, asked, {})
      BY <3>1, <3>2, <3>3, RoomAt DEF Promise!Fits, InUse
    <3>5. Promise!Grant(cur, asked)
      BY <3>1, <3>4 DEF Promise!Grant, Promise!With, InUse
    <3> QED
      BY <1>1, <3>1, <3>4, <3>5 DEF Promise!Next
  <2> QED
    BY <2>1, <2>2
<1>3. ASSUME NEW p \in InUse, Free(p) PROVE [Promise!Next]_live
  <2>1. Promise!Release(p)
    BY <1>3 DEF Free, Promise!Release, InUse
  <2> QED
    BY <2>1 DEF Promise!Next, InUse
<1>4. ASSUME NEW p \in InUse, NEW n \in Requests, ReallocInPlace(p, n) PROVE [Promise!Next]_live
  <2>1. p \in Headers /\ n <= blocks[p].size /\ n \in Nat
    BY <1>4, Rounding, RequestAssumption DEF ReallocInPlace, IInv, TypeOK
  <2>2. live' = [q \in (InUse \ {}) \cup {p} |-> IF q = p THEN n ELSE live[q]]
    BY <1>4 DEF ReallocInPlace, InUse, IInv, TypeOK
  <2>3. Promise!Resize(p, n)
    BY <2>1, <2>2, RoomAt DEF Promise!Resize, Promise!With, InUse
  <2> QED
    BY <2>3 DEF Promise!Next, InUse
<1>5. ASSUME Copy PROVE [Promise!Next]_live
  <2>1. /\ cur \in Headers /\ old \in InUse /\ cur \notin InUse /\ want <= blocks[cur].size
        /\ asked \in Requests /\ asked \in Nat
        /\ live' = [q \in (InUse \ {old}) \cup {cur} |-> IF q = cur THEN asked ELSE live[q]]
    BY <1>5, RequestAssumption DEF Copy, IInv, CallLocals, LiveBlocksHold
  <2>2. asked <= blocks[cur].size
    BY <2>1, Rounding DEF want, IInv, TypeOK
  <2>3. Promise!Fits(cur, asked, {})
    BY <2>1, <2>2, RoomAt DEF Promise!Fits, InUse
  <2>4. Promise!Move(old, cur, asked)
    BY <2>1, <2>3 DEF Promise!Move, Promise!With, InUse
  <2> QED
    BY <1>1, <2>1, <2>3, <2>4 DEF Promise!Next, InUse
<1>6. ASSUME live' = live PROVE [Promise!Next]_live
  BY <1>6
<1> QED
  BY <1>2, <1>3, <1>4, <1>5, <1>6
     DEF Next, Calls, Malloc, Fail, Merge, MergeDone, ReallocMove, vars

\* The heap keeps the promise of Allocator.
THEOREM Implements == Spec => IsAllocator
<1>1. Init => Promise!Init
  BY DEF Init, Promise!Init
<1>2. IInv /\ [Next]_vars => [Promise!Next]_live
  BY AllocatorStep
<1> QED
  BY InitInv, NextInv, <1>1, <1>2, PTL DEF Spec, IsAllocator, Promise!Spec
=============================================================================
