------------------------------- MODULE Heap --------------------------------
(***************************************************************************)
(* The heap of the ClamLang runtime, src/clamlang/runtime/runtime.c: a     *)
(* list of blocks over one array, searched first fit.                      *)
(*                                                                         *)
(* One step is one turn of a loop over the list.  A block is named by the  *)
(* offset of its header in g_heap; the pointer given out lies Header bytes *)
(* behind.                                                                 *)
(***************************************************************************)
EXTENDS Naturals

CONSTANTS
  HeapSize,   \* sizeof(g_heap)
  Header,     \* sizeof(BlockHeader)
  Align,      \* 8: align_size rounds up to it
  MinSplit,   \* 8: a remainder must hold a header and more than this
  Word,       \* 2^32: size_t wraps here
  Requests    \* the sizes programs ask for

ASSUME HeapAssumption ==
  /\ HeapSize \in Nat /\ Header \in Nat \ {0} /\ Align \in Nat \ {0} /\ MinSplit \in Nat
  /\ Word \in Nat /\ Header < HeapSize /\ HeapSize < Word

\* What the runtime needs of its callers: align_size must not wrap.
ASSUME RequestAssumption ==
  Requests \subseteq Nat /\ \A n \in Requests : n + Align <= Word

Null == HeapSize     \* no block has this offset

VARIABLES
  blocks,   \* the headers in g_heap, by offset: size, free, next
  pc,       \* the loop under way
  cur,      \* its `current`
  asked,    \* argument n of the malloc under way
  old,      \* the block a realloc moves, Null in a malloc
  live      \* history: the blocks in use and the length asked for

call == <<pc, cur, asked, old>>
vars == <<blocks, call, live>>

Headers == DOMAIN blocks
InUse == DOMAIN live

\* Slip: rounding down.
AlignDown(n) == n - (n % Align)

align_size(n) == ((n + (Align - 1)) % Word) - (((n + (Align - 1)) % Word) % Align)

want == align_size(asked)

heap_init ==
  IF Headers = {}
  THEN [a \in {0} |-> [size |-> HeapSize - Header, free |-> TRUE, next |-> Null]]
  ELSE blocks

SetFree(a) == blocks' = [blocks EXCEPT ![a].free = TRUE]

Idle == pc' = "idle" /\ cur' = Null /\ asked' = 0 /\ old' = Null

-----------------------------------------------------------------------------
(* malloc *)

\* Slip: a block of just the size is passed over.
TooLarge(a) == blocks[a].free /\ blocks[a].size > want

Suits(a) == blocks[a].free /\ blocks[a].size >= want

\* malloc(0) returns NULL.
Malloc(n) ==
  /\ pc = "idle" /\ n # 0
  /\ blocks' = heap_init /\ pc' = "search" /\ cur' = 0 /\ asked' = n /\ old' = Null
  /\ UNCHANGED live

\* Slip: the header of the remainder is not paid for.
WholeRemainder(a) == blocks[a].size - want

Remainder(a) == (blocks[a].size - want) - Header

\* Block a shrinks to what is wanted, and the rest becomes a block behind it.
Split(a) ==
  LET rest == a + Header + want
  IN  [b \in Headers \cup {rest} |->
        CASE b = a -> [size |-> want, free |-> FALSE, next |-> rest]
          [] b = rest -> [size |-> Remainder(a), free |-> TRUE, next |-> blocks[a].next]
          [] OTHER -> blocks[b]]

Take(a) ==
  blocks' = IF blocks[a].size - want > Header + MinSplit THEN Split(a)
            ELSE [blocks EXCEPT ![a].free = FALSE]

Search ==
  /\ pc = "search" /\ cur # Null
  /\ IF ~Suits(cur)
     THEN cur' = blocks[cur].next /\ UNCHANGED <<blocks, pc, asked, old, live>>
     ELSE /\ Take(cur)
          /\ IF old = Null
             THEN /\ Idle
                  /\ live' = [q \in InUse \cup {cur} |-> IF q = cur THEN asked ELSE live[q]]
             ELSE pc' = "copy" /\ UNCHANGED <<cur, asked, old, live>>

\* malloc, and a realloc that called it, return NULL.
Fail == pc = "search" /\ cur = Null /\ Idle /\ UNCHANGED <<blocks, live>>

-----------------------------------------------------------------------------
(* free *)

Free(p) ==
  /\ pc = "idle" /\ p \in InUse
  /\ SetFree(p) /\ live' = [q \in InUse \ {p} |-> live[q]]
  /\ pc' = "merge" /\ cur' = 0 /\ UNCHANGED <<asked, old>>

\* Block `cur` and the one behind it are free and touch.
Mergeable ==
  LET b == blocks[cur]
  IN  /\ b.free /\ b.next # Null /\ blocks[b.next].free
      /\ cur + Header + b.size = b.next

\* Slip: the loop goes on to the next block after it has merged one.
StepOver == cur' = blocks'[cur].next

Link(b, n) == n.next

Stay == cur' = cur

Merge ==
  /\ pc = "merge" /\ cur # Null
  /\ IF Mergeable
     THEN LET b == blocks[cur]
              n == blocks[b.next]
          IN  /\ blocks' = [a \in Headers \ {b.next} |->
                              IF a = cur
                              THEN [size |-> b.size + (Header + n.size), free |-> TRUE,
                                    next |-> Link(b, n)]
                              ELSE blocks[a]]
              /\ Stay
     ELSE cur' = blocks[cur].next /\ UNCHANGED blocks
  /\ UNCHANGED <<pc, asked, old, live>>

MergeDone == pc = "merge" /\ cur = Null /\ Idle /\ UNCHANGED <<blocks, live>>

-----------------------------------------------------------------------------
(* realloc: realloc(NULL, n) is malloc(n) and realloc(p, 0) is free(p). *)

ReallocInPlace(p, n) ==
  /\ pc = "idle" /\ p \in InUse /\ n # 0 /\ blocks[p].size >= align_size(n)
  /\ live' = [live EXCEPT ![p] = n] /\ UNCHANGED <<blocks, call>>

ReallocMove(p, n) ==
  /\ pc = "idle" /\ p \in InUse /\ n # 0 /\ blocks[p].size < align_size(n)
  /\ pc' = "search" /\ cur' = 0 /\ asked' = n /\ old' = p
  /\ UNCHANGED <<blocks, live>>

\* memcpy to the new block, then free(p).
Copy ==
  /\ pc = "copy"
  /\ live' = [q \in (InUse \ {old}) \cup {cur} |-> IF q = cur THEN asked ELSE live[q]]
  /\ SetFree(old) /\ pc' = "merge" /\ cur' = 0 /\ asked' = 0 /\ old' = Null

-----------------------------------------------------------------------------
Init ==
  /\ blocks = [a \in {} |-> 0] /\ live = [q \in {} |-> 0]
  /\ pc = "idle" /\ cur = Null /\ asked = 0 /\ old = Null

Calls ==
  \/ \E n \in Requests : Malloc(n)
  \/ \E p \in InUse : \/ Free(p)
                      \/ \E n \in Requests : ReallocInPlace(p, n) \/ ReallocMove(p, n)

Next == Calls \/ Search \/ Fail \/ Merge \/ MergeDone \/ Copy

Spec == Init /\ [][Next]_vars

-----------------------------------------------------------------------------
TypeOK ==
  /\ Headers \subseteq 0..(HeapSize - 1)
  /\ blocks \in [Headers -> [size : Nat, free : BOOLEAN, next : Headers \cup {Null}]]
  /\ pc \in {"idle", "search", "copy", "merge"} /\ cur \in Headers \cup {Null}
  /\ asked \in Requests \cup {0} /\ old \in InUse \cup {Null}
  /\ InUse \subseteq Headers /\ live \in [InUse -> Requests]

\* Between two calls and in the middle of one, the blocks cover the heap without
\* gap or overlap: each ends where the next begins, the last at the end.  So no
\* program that keeps to its block reaches a header or another block.
BlocksTile ==
  /\ Headers # {} => 0 \in Headers
  /\ \A a \in Headers :
       /\ blocks[a].next = a + Header + blocks[a].size
       /\ \A b \in Headers : a < b => blocks[a].next <= b

\* A block in use is not free and as long as it was asked to be, and a realloc
\* copies no more than the new block holds.
LiveBlocksHold ==
  /\ \A p \in InUse : ~blocks[p].free /\ live[p] <= blocks[p].size
  /\ pc = "copy" => /\ old # cur /\ cur \notin InUse /\ ~blocks[cur].free
                    /\ blocks[old].size <= blocks[cur].size

\* When free returns, no two free blocks touch: the heap does not fall to pieces
\* over any sequence of calls.
Coalesced ==
  pc # "merge" =>
    \A a \in Headers : blocks[a].free /\ blocks[a].next # Null =>
                         ~blocks[blocks[a].next].free

\* malloc returns NULL only if no free block is large enough.
FailsOnlyWhenFull ==
  pc = "search" /\ cur = Null =>
    \A a \in Headers : blocks[a].free => blocks[a].size < want

\* The heap implements Allocator: blocks in use never overlap, in whatever order
\* they are asked for, moved and given back.  (All addresses less a header.)
Promise == INSTANCE Allocator WITH Size <- HeapSize - Header, Lengths <- Requests
IsAllocator == Promise!Spec
=============================================================================
