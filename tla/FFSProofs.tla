------------------------------ MODULE FFSProofs -------------------------------
(***************************************************************************)
(* FFS, whatever is interrupted.                                           *)
(*                                                                         *)
(* First the tables: every number on the disk and in memory stays where    *)
(* the code can use it as an index; a cluster has one owner, and nothing   *)
(* in use leads to a cluster the allocator may hand out.                   *)
(*                                                                         *)
(* Then the directories: the root stays one, names are unique in theirs,   *)
(* an inode is listed once, under the entry of its type, and ".." leads    *)
(* back to where it is listed.  create_*, dir_add_entry and remove_path    *)
(* look first and write later, in several steps: the invariant is what     *)
(* still holds then of the inode, the name and the block in the locals.    *)
(*                                                                         *)
(* Then the paths, which come and go as FileTree says, and what a file     *)
(* system that never failed loses: nothing.  Last what the files hold:     *)
(* their own text, and no other file's.                                    *)
(***************************************************************************)
EXTENDS FFSProps, TLAPS, WellFoundedInduction

\* The allocators take the first free number: it is a free one.
LEMMA MinInSet ==
  ASSUME NEW S, S \subseteq Nat, S # {}
  PROVE  Min(S) \in S /\ \A y \in S : Min(S) =< y
<1> DEFINE R == {ss \in Nat \X Nat : ss[1] < ss[2]}
<1>1. R = OpToRel(<, Nat)
  BY Zenon DEF OpToRel
<1>2. IsWellFoundedOn(R, Nat)
  BY <1>1, NatLessThanWellFounded, Zenon
<1> HIDE DEF R
<1>3. \E x \in S : \A y \in S : ~ (<<y, x>> \in R)
  BY <1>2, WFMin, Zenon
<1>4. \A x, y \in Nat : y < x => <<y, x>> \in R
  BY DEF R
<1>5. \E x \in S : \A y \in S : x =< y
  <2>1. PICK x \in S : \A y \in S : ~ (<<y, x>> \in R)
    BY <1>3
  <2>2. \A y \in S : ~ (y < x)
    BY <2>1, <1>4
  <2>3. \A y \in S : x \in Nat /\ y \in Nat
    BY <2>1
  <2> QED
    BY <2>1, <2>2, <2>3
<1> QED
  BY <1>5 DEF Min

\* Numbers of inodes, clusters and cells.
LEMMA Sizes ==
  /\ Inodes \subseteq Nat \ {0} /\ Root \in Inodes
  /\ Clusters \subseteq Nat \ {0} /\ Chained \subseteq Nat
  /\ FAT_EOF \in Nat \ Chained /\ Slots \subseteq Nat /\ 1 \in Slots /\ 2 \in Slots
  BY SizeAssumption DEF Inodes, Root, Clusters, Chained, FAT_EOF, Slots

LEMMA LabelKinds == Names \subseteq Labels /\ {"", ".", "..", "FF42", "text"} \subseteq Labels
  BY Zenon DEF Labels

LEMMA FirstFree ==
  /\ FreeInodes # {} => Min(FreeInodes) \in FreeInodes /\ Min(FreeInodes) \in Inodes
  /\ FreeClusters # {} => Min(FreeClusters) \in FreeClusters /\ Min(FreeClusters) \in Clusters
  BY Sizes, MinInSet DEF FreeInodes, FreeClusters

\* The places in which an operation has an inode, and a directory.
Creating == {"mark", "dots", "dots_inode", "add", "entry", "dir_inode"}
Deleting == {"rm_free", "rm_inode", "rm_entry"}
Extending == {"seek", "first", "link", "data", "size"}

\* What the locals hold while they are used as indices.
OpTyped ==
  /\ pc \in Creating \cup Deleting \cup Extending \cup {"alloc", "zero"} => op.num \in Inodes
  /\ pc \in Creating \cup Deleting => op.dir \in Inodes
  /\ pc \in {"alloc", "zero"} /\ op.ret \in {"dots", "entry"} => op.dir \in Inodes
  /\ pc \in {"alloc", "zero"} => op.ret # "idle"
  /\ pc = "rm_free" => op.cur \in Clusters
  /\ pc \in Extending \cup {"alloc", "zero", "mark", "dots", "dots_inode", "add"} =>
       op.cur \in Chained

TypeInv == TypeOK /\ OpTyped

-----------------------------------------------------------------------------
(* The helpers of the steps. *)

LEMMA OutcomeType ==
  ASSUME NEW w \in Outcomes
  PROVE  /\ w.ok \in BOOLEAN /\ w.hit \in BOOLEAN /\ (w.ok => w.hit)
         /\ ~w.ok => faults < MaxFaults
<1>1. CASE w = [ok |-> TRUE, hit |-> TRUE]
  BY <1>1
<1>2. CASE w # [ok |-> TRUE, hit |-> TRUE]
  <2>1. faults < MaxFaults /\ w \in [ok : {FALSE}, hit : BOOLEAN]
    BY <1>2 DEF Outcomes
  <2>2. w.ok = FALSE /\ w.hit \in BOOLEAN
    BY <2>1
  <2> QED
    BY <2>1, <2>2
<1> QED
  BY <1>1, <1>2

LEMMA CountType ==
  ASSUME TypeOK, NEW w \in Outcomes, Count(w)
  PROVE  faults' \in 0..MaxFaults
  BY OutcomeType, BoundAssumption DEF TypeOK, Count

LEMMA Constants ==
  /\ ZeroInode \in Inode /\ ZeroCell \in Cell /\ Magic \in Cell
  /\ ZeroBlock \in [Slots -> Cell] /\ NoOp \in Operation /\ NoOp.ret = "idle"
  /\ NoOp.num = 0 /\ NoOp.dir = 0 /\ NoOp.cur = 0 /\ NoOp.node = ZeroInode
  BY Sizes DEF ZeroInode, Inode, ZeroCell, Magic, Cell, ZeroBlock, NoOp, Operation,
               Labels, FreeType, Chained

LEMMA PutInodeType ==
  ASSUME TypeOK, NEW w \in Outcomes, NEW k, NEW node \in Inode, PutInode(w, k, node)
  PROVE  inodes' \in [Inodes -> Inode]
  BY DEF TypeOK, PutInode

LEMMA PutFatType ==
  ASSUME TypeOK, NEW w \in Outcomes, NEW c, NEW v \in Chained \cup {FAT_FREE, FAT_EOF},
         PutFat(w, c, v)
  PROVE  fat' \in [Chained -> Chained \cup {FAT_FREE, FAT_EOF}]
  BY DEF TypeOK, PutFat

LEMMA PutCellType ==
  ASSUME TypeOK, NEW w \in Outcomes, NEW b \in Chained, NEW s \in Slots, NEW cell \in Cell,
         PutCell(w, b, s, cell)
  PROVE  blocks' \in [Chained -> [Slots -> Cell]]
<1>1. blocks[b] \in [Slots -> Cell]
  BY DEF TypeOK
<1>2. [blocks[b] EXCEPT ![s] = cell] \in [Slots -> Cell]
  BY <1>1
<1> QED
  BY <1>1, <1>2 DEF TypeOK, PutCell

LEMMA PutBlockType ==
  ASSUME TypeOK, NEW w \in Outcomes, NEW b \in Chained, NEW new \in [Slots -> Cell],
         PutBlock(w, b, new)
  PROVE  blocks' \in [Chained -> [Slots -> Cell]]
<1>1. PICK content \in Landed(w, blocks[b], new) :
        blocks' = [blocks EXCEPT ![b] = content]
  BY DEF PutBlock
<1>2. blocks[b] \in [Slots -> Cell]
  BY DEF TypeOK
<1>3. content \in [Slots -> Cell]
  BY <1>1, <1>2 DEF Landed
<1> QED
  BY <1>1, <1>3 DEF TypeOK

LEMMA FindType ==
  ASSUME TypeOK, NEW d, NEW n
  PROVE  /\ Find(d, n) \in Cell
         /\ IsDir(d) => d \in Inodes /\ inodes[d].first \in Chained
         /\ IsDir(d) /\ EntrySlots(d, n) # {} => Min(EntrySlots(d, n)) \in Slots
<1>1. IsDir(d) => d \in Inodes /\ inodes[d].first \in Chained
  BY DEF IsDir, TypeOK, Inode
<1>2. IsDir(d) /\ EntrySlots(d, n) # {} => Min(EntrySlots(d, n)) \in Slots
  BY MinInSet, Sizes DEF EntrySlots
<1>3. Find(d, n) \in Cell
  BY <1>1, <1>2, Constants DEF Find, TypeOK
<1> QED
  BY <1>1, <1>2, <1>3

-----------------------------------------------------------------------------
(* Types are kept by every step: each lemma treats one group of actions. *)

LEMMA ReturnType == ASSUME Return PROVE pc' = "idle" /\ op' \in Operation
  BY Constants DEF Return

LEMMA ProceedType ==
  ASSUME NEW w \in Outcomes, NEW next, NEW locals, Proceed(w, next, locals)
  PROVE  \/ w.ok /\ pc' = next /\ op' = locals
         \/ ~w.ok /\ pc' = "idle" /\ op' = NoOp
  BY OutcomeType DEF Proceed, Return

LEMMA AllocType == TypeInv /\ AllocCluster => TypeInv'
<1> SUFFICES ASSUME TypeInv, AllocCluster PROVE TypeInv'
  OBVIOUS
<1> USE DEF TypeInv
<1>1. op \in Operation /\ pc = "alloc" /\ harm' \subseteq {"format", "remove", "unseen", "refused"}
  BY DEF TypeOK, AllocCluster, Keep
<1>2. CASE FreeClusters = {}
  BY <1>1, <1>2, Constants DEF TypeOK, OpTyped, AllocCluster, Return, Steps,
     Creating, Deleting, Extending
<1>3. CASE FreeClusters # {}
  <2> DEFINE c == Min(FreeClusters)
  <2>1. c \in Clusters /\ c \in Chained /\ FAT_EOF \in Chained \cup {FAT_FREE, FAT_EOF}
    BY <1>3, FirstFree DEF Chained
  <2>2. PICK w \in Outcomes : /\ PutFat(w, c, FAT_EOF) /\ Count(w)
                              /\ Proceed(w, "zero", [op EXCEPT !.new = c])
    BY <1>3 DEF AllocCluster
  <2> HIDE DEF c
  <2>3. fat' \in [Chained -> Chained \cup {FAT_FREE, FAT_EOF}] /\ faults' \in 0..MaxFaults
    BY <2>1, <2>2, PutFatType, CountType
  <2>4. op' \in Operation /\ pc' \in Steps
    BY <1>1, <2>1, <2>2, ProceedType, Constants DEF Operation, Steps
  <2>5. OpTyped'
    BY <1>1, <2>1, <2>2, ProceedType, Constants
       DEF Operation, OpTyped, Creating, Deleting, Extending
  <2> QED
    BY <1>1, <2>3, <2>4, <2>5 DEF TypeOK, AllocCluster
<1> QED
  BY <1>2, <1>3

\* At the prompt and while booting no local is in use as an index.
LEMMA Settled ==
  ASSUME pc' \in Steps \ (Creating \cup Deleting \cup Extending \cup {"alloc", "zero"})
  PROVE  OpTyped'
  BY DEF OpTyped, Creating, Deleting, Extending

LEMMA ZeroType == TypeInv /\ ZeroCluster => TypeInv'
<1> SUFFICES ASSUME TypeInv, ZeroCluster PROVE TypeInv'
  OBVIOUS
<1> USE DEF TypeInv
<1>1. op \in Operation /\ op.new \in Chained /\ op.ret \in Steps /\ pc = "zero"
  BY DEF TypeOK, ZeroCluster, Operation, Steps
<1>2. PICK w \in Outcomes : /\ PutBlock(w, op.new, ZeroBlock) /\ Count(w)
                            /\ Proceed(w, op.ret, op)
  BY DEF ZeroCluster
<1>3. blocks' \in [Chained -> [Slots -> Cell]] /\ faults' \in 0..MaxFaults
  BY <1>1, <1>2, PutBlockType, CountType, Constants
<1>4. op' \in Operation /\ pc' \in Steps
  BY <1>1, <1>2, ProceedType, Constants DEF Steps
<1>5. OpTyped'
  BY <1>1, <1>2, ProceedType DEF Operation, OpTyped, Creating, Deleting, Extending
<1> QED
  BY <1>3, <1>4, <1>5 DEF TypeOK, ZeroCluster, Keep

LEMMA MountType == TypeInv /\ Mount => TypeInv'
<1> SUFFICES ASSUME TypeInv, Mount PROVE TypeInv'
  OBVIOUS
<1> USE DEF TypeInv
<1>1. Layout \in Seq(Seq(Names) \ {<<>>}) /\ pc' \in {"idle", "fmt_sb"}
  BY NameAssumption DEF Mount
<1>2. faults' \in 0..MaxFaults
  BY BoundAssumption DEF Mount, TypeOK
<1>3. OpTyped'
  BY <1>1, Settled DEF Steps, Creating, Deleting, Extending
<1>4. /\ mounted' \in BOOLEAN /\ todo' \in Seq(Seq(Names) \ {<<>>})
      /\ harm' \subseteq {"format", "remove", "unseen", "refused"}
  BY <1>1 DEF Mount, TypeOK
<1> QED
  BY <1>1, <1>2, <1>3, <1>4 DEF Mount, TypeOK, disk, Steps

LEMMA FormatSuperblockType == TypeInv /\ FormatSuperblock => TypeInv'
<1> SUFFICES ASSUME TypeInv, FormatSuperblock PROVE TypeInv'
  OBVIOUS
<1> USE DEF TypeInv
<1>1. PICK w \in Outcomes : /\ PutCell(w, 0, 1, Magic) /\ Count(w)
                            /\ Proceed(w, "fmt_fat", op)
  BY DEF FormatSuperblock
<1>2. blocks' \in [Chained -> [Slots -> Cell]] /\ faults' \in 0..MaxFaults
  BY <1>1, PutCellType, CountType, Constants, Sizes DEF Chained
<1>3. pc' \in {"idle", "fmt_fat"} /\ op' \in Operation
  BY <1>1, ProceedType, Constants DEF TypeOK
<1>4. OpTyped'
  BY <1>3, Settled DEF Steps, Creating, Deleting, Extending
<1>5. harm' \subseteq {"format", "remove", "unseen", "refused"}
  BY DEF FormatSuperblock, TypeOK
<1> QED
  BY <1>2, <1>3, <1>4, <1>5 DEF FormatSuperblock, TypeOK, Steps

\* What Exposed adds is one of the kinds of harm.
LEMMA ExposedType == Exposed \subseteq {"format", "remove", "unseen", "refused"}
  BY DEF Exposed

LEMMA FormatTablesType == TypeInv /\ (FormatFat \/ FormatInodes) => TypeInv'
<1> SUFFICES ASSUME TypeInv, FormatFat \/ FormatInodes PROVE TypeInv'
  OBVIOUS
<1> USE DEF TypeInv
<1>1. PICK w \in Outcomes : Count(w) /\ Proceed(w, IF FormatFat THEN "fmt_inodes"
                                                   ELSE "fmt_reserved", op)
  BY DEF FormatFat, FormatInodes
<1>2. faults' \in 0..MaxFaults /\ pc' \in {"idle", "fmt_inodes", "fmt_reserved"}
      /\ op' \in Operation
  BY <1>1, ProceedType, CountType, Constants DEF TypeOK
<1>3. OpTyped'
  BY <1>2, Settled DEF Steps, Creating, Deleting, Extending
<1>4. harm' \subseteq {"format", "remove", "unseen", "refused"}
  BY ExposedType DEF FormatFat, FormatInodes, TypeOK
<1>5. /\ fat' \in [Chained -> Chained \cup {FAT_FREE, FAT_EOF}]
      /\ inodes' \in [Inodes -> Inode]
  BY Constants DEF FormatFat, FormatInodes, TypeOK
<1> QED
  BY <1>2, <1>3, <1>4, <1>5 DEF FormatFat, FormatInodes, TypeOK, Steps

LEMMA FormatReservedType == TypeInv /\ FormatReserved => TypeInv'
<1> SUFFICES ASSUME TypeInv, FormatReserved PROVE TypeInv'
  OBVIOUS
<1> USE DEF TypeInv
<1>1. PICK w \in Outcomes : PutFat(w, 0, FAT_EOF) /\ Count(w)
  BY DEF FormatReserved
<1>2. fat' \in [Chained -> Chained \cup {FAT_FREE, FAT_EOF}] /\ faults' \in 0..MaxFaults
  BY <1>1, PutFatType, CountType
<1>3. OpTyped'
  BY Settled DEF FormatReserved, Steps, Creating, Deleting, Extending
<1> QED
  BY <1>2, <1>3 DEF FormatReserved, TypeOK, Steps, Keep

LEMMA FormatRootType == TypeInv /\ FormatRoot => TypeInv'
<1> SUFFICES ASSUME TypeInv, FormatRoot PROVE TypeInv'
  OBVIOUS
<1> USE DEF TypeInv
<1> DEFINE root == [ZeroInode EXCEPT !.type = DirType]
           call == [NoOp EXCEPT !.dir = Root, !.num = Root, !.ret = "dots"]
<1>1. PICK w \in Outcomes : /\ PutInode(w, Root, root) /\ Count(w)
                            /\ Proceed(w, "alloc", call)
  BY DEF FormatRoot
<1>2. root \in Inode
  BY Constants DEF Inode, DirType
<1>3. /\ call \in Operation /\ call.num \in Inodes /\ call.dir \in Inodes
      /\ call.cur \in Chained /\ call.ret = "dots"
  <2>1. NoOp \in Operation /\ Root \in Inodes /\ NoOp.cur \in Chained
    BY Constants, Sizes DEF Chained
  <2> QED
    BY <2>1 DEF Operation
<1> HIDE DEF root, call
<1>4. inodes' \in [Inodes -> Inode] /\ faults' \in 0..MaxFaults
  BY <1>1, <1>2, PutInodeType, CountType
<1>5. op' \in Operation /\ pc' \in Steps
  BY <1>1, <1>3, ProceedType, Constants DEF Steps
<1>6. OpTyped'
  BY <1>1, <1>3, ProceedType DEF OpTyped, Creating, Deleting, Extending
<1>7. harm' \subseteq {"format", "remove", "unseen", "refused"}
  BY ExposedType DEF FormatRoot, TypeOK
<1> QED
  BY <1>4, <1>5, <1>6, <1>7 DEF FormatRoot, TypeOK

LEMMA RemountType == TypeInv /\ Remount => TypeInv'
<1> SUFFICES ASSUME TypeInv, Remount PROVE TypeInv'
  OBVIOUS
<1> USE DEF TypeInv
<1>1. faults' \in 0..MaxFaults
  BY BoundAssumption DEF Remount, TypeOK
<1>2. todo' \in Seq(Seq(Names) \ {<<>>})
  BY NameAssumption DEF Remount, TypeOK
<1>3. pc' = "idle" /\ op' \in Operation
  BY ReturnType DEF Remount
<1>4. OpTyped'
  BY <1>3, Settled DEF Steps, Creating, Deleting, Extending
<1> QED
  BY <1>1, <1>2, <1>3, <1>4 DEF Remount, TypeOK, Steps, disk, Keep

\* alloc_inode takes a number of the table, which becomes op.num.
LEMMA TakeInodeType ==
  ASSUME TypeInv, NEW d \in Inodes, NEW n \in Names, NEW k \in {FileType, DirType},
         FreeInodes # {}
  PROVE  /\ CreateOp(d, n, k) \in Operation
         /\ CreateOp(d, n, k).num \in Inodes /\ CreateOp(d, n, k).dir \in Inodes
         /\ CreateOp(d, n, k).cur \in Chained
         /\ Min(FreeInodes) \in Inodes
<1> DEFINE c == Min(FreeInodes)
<1>1. c \in Inodes /\ NoOp \in Operation /\ NoOp.cur \in Chained
  BY FirstFree, Constants, Sizes DEF Chained
<1>2. n \in Labels /\ k \in 0..2
  <2>1. n \in Labels
    BY LabelKinds, Zenon
  <2>2. k \in 0..2
    BY DEF FileType, DirType
  <2> QED
    BY <2>1, <2>2
<1> HIDE DEF c
<1>3. LET o == [NoOp EXCEPT !.kind = k, !.dir = d, !.name = n, !.num = c]
      IN  o \in Operation /\ o.num \in Inodes /\ o.dir \in Inodes /\ o.cur \in Chained
  BY <1>1, <1>2 DEF Operation
<1> QED
  BY <1>1, <1>3 DEF CreateOp, c

LEMMA TakeInodeStep ==
  ASSUME TypeInv, NEW d \in Inodes, NEW n \in Names, NEW k \in {FileType, DirType},
         FreeInodes # {}, TakeInode(d, n, k)
  PROVE  /\ inodes' \in [Inodes -> Inode] /\ faults' \in 0..MaxFaults
         /\ pc' \in Steps /\ op' \in Operation /\ OpTyped'
<1> DEFINE call == CreateOp(d, n, k)
<1>1. PICK w \in Outcomes : /\ PutInode(w, Min(FreeInodes), ZeroInode) /\ Count(w)
                            /\ Proceed(w, "mark", call)
  BY DEF TakeInode
<1>2. /\ call \in Operation /\ call.num \in Inodes /\ call.dir \in Inodes
      /\ call.cur \in Chained
  BY TakeInodeType
<1> HIDE DEF call
<1>3. inodes' \in [Inodes -> Inode] /\ faults' \in 0..MaxFaults
  BY <1>1, PutInodeType, CountType, Constants DEF TypeInv
<1>4. pc' \in Steps /\ op' \in Operation
  BY <1>1, <1>2, ProceedType, Constants DEF Steps
<1>5. OpTyped'
  BY <1>1, <1>2, ProceedType DEF OpTyped, Creating, Deleting, Extending
<1> QED
  BY <1>3, <1>4, <1>5

LEMMA CreateStep ==
  ASSUME NEW p, NEW n \in Names, NEW k \in {FileType, DirType}
  PROVE  TypeInv /\ (Create(p, n, k) \/ CreateUnseen(p, n, k)) => TypeInv'
<1> SUFFICES ASSUME TypeInv, Create(p, n, k) \/ CreateUnseen(p, n, k) PROVE TypeInv'
  OBVIOUS
<1>1. CASE Create(p, n, k)
  <2>1. /\ inodes' \in [Inodes -> Inode] /\ faults' \in 0..MaxFaults
        /\ pc' \in Steps /\ op' \in Operation /\ OpTyped'
    BY <1>1, TakeInodeStep DEF Create, CanCreate
  <2> QED
    BY <1>1, <2>1 DEF Create, TypeInv, TypeOK, Keep
<1>2. CASE CreateUnseen(p, n, k)
  <2> DEFINE call == CreateOp(Walk(p), n, k)
  <2>1. /\ call \in Operation /\ call.num \in Inodes /\ call.dir \in Inodes
        /\ call.cur \in Chained /\ Min(FreeInodes) \in Inodes
    BY <1>2, TakeInodeType DEF CreateUnseen
  <2>2. pc' = "mark" /\ op' = call
    BY <1>2 DEF CreateUnseen
  <2> HIDE DEF call
  <2>3. faults' \in 0..MaxFaults
    BY <1>2, BoundAssumption DEF CreateUnseen, TypeInv, TypeOK
  <2>4. inodes' \in [Inodes -> Inode]
    BY <1>2, <2>1, Constants DEF CreateUnseen, TypeInv, TypeOK
  <2>5. OpTyped'
    BY <2>1, <2>2 DEF OpTyped, Creating, Deleting, Extending
  <2>6. harm' \subseteq {"format", "remove", "unseen", "refused"}
    BY <1>2 DEF CreateUnseen, TypeInv, TypeOK
  <2> QED
    BY <1>2, <2>1, <2>2, <2>3, <2>4, <2>5, <2>6
       DEF CreateUnseen, TypeInv, TypeOK, Steps
<1> QED
  BY <1>1, <1>2

LEMMA EnsureDirType == TypeInv /\ EnsureDir => TypeInv'
<1> SUFFICES ASSUME TypeInv, EnsureDir PROVE TypeInv'
  OBVIOUS
<1> DEFINE q == Head(todo)
<1>1. todo \in Seq(Seq(Names) \ {<<>>}) /\ todo # <<>>
  BY DEF TypeInv, TypeOK, EnsureDir
<1>2. q \in Seq(Names) /\ q # <<>> /\ todo' \in Seq(Seq(Names) \ {<<>>})
  BY <1>1 DEF EnsureDir
<1>3. Last(q) \in Names
  BY <1>2 DEF Last
<1>4. CASE CanCreate(Front(q), Last(q))
  <2>1. /\ Walk(Front(q)) \in Inodes /\ FreeInodes # {}
        /\ TakeInode(Walk(Front(q)), Last(q), DirType)
    BY <1>4 DEF CanCreate, EnsureDir
  <2>2. /\ inodes' \in [Inodes -> Inode] /\ faults' \in 0..MaxFaults
        /\ pc' \in Steps /\ op' \in Operation /\ OpTyped'
    BY <1>3, <2>1, TakeInodeStep
  <2> QED
    BY <1>2, <2>2 DEF EnsureDir, TypeInv, TypeOK, Keep
<1>5. CASE ~CanCreate(Front(q), Last(q))
  <2>1. UNCHANGED <<inodes, pc, op, faults>>
    BY <1>5 DEF EnsureDir
  <2> QED
    BY <1>2, <2>1 DEF EnsureDir, TypeInv, TypeOK, Keep, OpTyped
<1> QED
  BY <1>4, <1>5

LEMMA MarkType == TypeInv /\ MarkInode => TypeInv'
<1> SUFFICES ASSUME TypeInv, MarkInode PROVE TypeInv'
  OBVIOUS
<1> USE DEF TypeInv
<1> DEFINE node == [ZeroInode EXCEPT !.type = op.kind]
<1>1. /\ pc = "mark" /\ op \in Operation /\ op.num \in Inodes /\ op.dir \in Inodes
      /\ op.kind \in 0..2 /\ op.cur \in Chained
  BY DEF TypeOK, OpTyped, MarkInode, Operation, Creating
<1>2. node \in Inode
  BY <1>1, Constants DEF Inode
<1>3. PICK w \in Outcomes :
        /\ PutInode(w, op.num, node) /\ Count(w)
        /\ IF op.kind = DirType THEN Proceed(w, "alloc", Fresh("dots"))
           ELSE Proceed(w, "add", op)
  BY DEF MarkInode
<1> HIDE DEF node
<1>4. inodes' \in [Inodes -> Inode] /\ faults' \in 0..MaxFaults
  BY <1>2, <1>3, PutInodeType, CountType
<1>5. /\ Fresh("dots") \in Operation /\ Fresh("dots").ret = "dots"
      /\ Fresh("dots").num = op.num /\ Fresh("dots").dir = op.dir
      /\ Fresh("dots").cur = op.cur
  BY <1>1 DEF Fresh, Operation, Chained
<1>6. op' \in Operation /\ pc' \in Steps
  BY <1>1, <1>3, <1>5, ProceedType, Constants DEF Steps
<1>7. OpTyped'
  BY <1>1, <1>3, <1>5, ProceedType DEF OpTyped, Creating, Deleting, Extending
<1> QED
  BY <1>4, <1>6, <1>7 DEF MarkInode, TypeOK, Keep

LEMMA WriteDotsType == TypeInv /\ WriteDots => TypeInv'
<1> SUFFICES ASSUME TypeInv, WriteDots PROVE TypeInv'
  OBVIOUS
<1> USE DEF TypeInv
<1> DEFINE new == DotEntries(op.num, op.dir)
<1>1. /\ pc = "dots" /\ op \in Operation /\ op.num \in Inodes /\ op.dir \in Inodes
      /\ op.new \in Chained /\ op.cur \in Chained
  BY DEF TypeOK, OpTyped, WriteDots, Operation, Creating
<1>2. new \in [Slots -> Cell]
  <2>1. "." \in Labels /\ ".." \in Labels /\ op.num \in Nat /\ op.dir \in Nat
    BY <1>1, LabelKinds, Sizes
  <2>2. /\ [inode |-> op.num, type |-> DirType, name |-> "."] \in Cell
        /\ [inode |-> op.dir, type |-> DirType, name |-> ".."] \in Cell
    BY <2>1 DEF Cell, DirType
  <2> QED
    BY <2>2, Constants DEF DotEntries
<1>3. PICK w \in Outcomes : /\ PutBlock(w, op.new, new) /\ Count(w)
                            /\ Proceed(w, "dots_inode", op)
  BY DEF WriteDots
<1> HIDE DEF new
<1>4. blocks' \in [Chained -> [Slots -> Cell]] /\ faults' \in 0..MaxFaults
  BY <1>1, <1>2, <1>3, PutBlockType, CountType
<1>5. op' \in Operation /\ pc' \in Steps
  BY <1>1, <1>3, ProceedType, Constants DEF Steps
<1>6. OpTyped'
  BY <1>1, <1>3, ProceedType DEF OpTyped, Creating, Deleting, Extending
<1> QED
  BY <1>4, <1>5, <1>6 DEF WriteDots, TypeOK, Keep

LEMMA WriteDotsInodeType == TypeInv /\ WriteDotsInode => TypeInv'
<1> SUFFICES ASSUME TypeInv, WriteDotsInode PROVE TypeInv'
  OBVIOUS
<1> USE DEF TypeInv
<1> DEFINE node == [type |-> DirType, size |-> CellsPerBlock, first |-> op.new]
<1>1. /\ pc = "dots_inode" /\ op \in Operation /\ op.num \in Inodes /\ op.dir \in Inodes
      /\ op.new \in Chained /\ op.cur \in Chained
  BY DEF TypeOK, OpTyped, WriteDotsInode, Operation, Creating
<1>2. node \in Inode
  BY <1>1, SizeAssumption DEF Inode, DirType
<1>3. PICK w \in Outcomes :
        /\ PutInode(w, op.num, node) /\ Count(w)
        /\ Proceed(w, IF op.name = "" THEN "remount" ELSE "add", op)
  BY DEF WriteDotsInode
<1> HIDE DEF node
<1>4. inodes' \in [Inodes -> Inode] /\ faults' \in 0..MaxFaults
  BY <1>2, <1>3, PutInodeType, CountType
<1>5. op' \in Operation /\ pc' \in Steps
  BY <1>1, <1>3, ProceedType, Constants DEF Steps
<1>6. OpTyped'
  BY <1>1, <1>3, ProceedType DEF OpTyped, Creating, Deleting, Extending
<1> QED
  BY <1>4, <1>5, <1>6 DEF WriteDotsInode, TypeOK, Keep

LEMMA AddEntryStartType == TypeInv /\ AddEntryStart => TypeInv'
<1> SUFFICES ASSUME TypeInv, AddEntryStart PROVE TypeInv'
  OBVIOUS
<1> USE DEF TypeInv
<1>1. /\ pc = "add" /\ op \in Operation /\ op.num \in Inodes /\ op.dir \in Inodes
      /\ op.cur \in Chained /\ inodes[op.dir].first \in Chained
  BY DEF TypeOK, OpTyped, AddEntryStart, Operation, Creating, Inode
<1>2. LET o == [op EXCEPT !.new = inodes[op.dir].first]
      IN  /\ o \in Operation /\ o.num = op.num /\ o.dir = op.dir
  BY <1>1 DEF Operation
<1>3. /\ Fresh("entry") \in Operation /\ Fresh("entry").ret = "entry"
      /\ Fresh("entry").num = op.num /\ Fresh("entry").dir = op.dir
      /\ Fresh("entry").cur = op.cur
  BY <1>1 DEF Fresh, Operation, Chained
<1>4. pc' \in Steps /\ op' \in Operation
  BY <1>2, <1>3, Constants DEF AddEntryStart, Return, Steps
<1>5. OpTyped'
  BY <1>1, <1>2, <1>3
     DEF AddEntryStart, Return, OpTyped, Creating, Deleting, Extending
<1> QED
  BY <1>4, <1>5 DEF AddEntryStart, TypeOK, Keep, disk

LEMMA WriteEntryType == TypeInv /\ WriteEntry => TypeInv'
<1> SUFFICES ASSUME TypeInv, WriteEntry PROVE TypeInv'
  OBVIOUS
<1> USE DEF TypeInv
<1> DEFINE room == FreeSlots(op.new)
           node == [inodes[op.dir] EXCEPT !.size = CellsPerBlock, !.first = op.new]
           cell == [inode |-> op.num, type |-> op.kind, name |-> op.name]
           next == [op EXCEPT !.node = node]
<1>1. /\ pc = "entry" /\ op \in Operation /\ op.num \in Inodes /\ op.dir \in Inodes
      /\ op.new \in Chained /\ op.kind \in 0..2 /\ op.name \in Labels
  BY DEF TypeOK, OpTyped, WriteEntry, Operation, Creating
<1>2. CASE room = {}
  <2>1. Return /\ UNCHANGED <<blocks, faults>> /\ harm' = harm \cup {"refused"}
    BY <1>2 DEF WriteEntry
  <2>2. OpTyped'
    BY <2>1, ReturnType, Settled DEF Steps, Creating, Deleting, Extending
  <2> QED
    BY <2>1, <2>2, ReturnType DEF WriteEntry, TypeOK, Steps
<1>3. CASE room # {}
  <2>1. PICK w \in Outcomes : /\ PutCell(w, op.new, Min(room), cell) /\ Count(w)
                              /\ Proceed(w, "dir_inode", next) /\ Keep
    BY <1>3 DEF WriteEntry
  <2>2. Min(room) \in Slots
    BY <1>3, MinInSet, Sizes DEF FreeSlots
  <2>3. cell \in Cell
    <3>1. op.kind \in 0..3
      BY <1>1
    <3>2. op.num \in Nat
      BY <1>1, Sizes
    <3> QED
      BY <1>1, <3>1, <3>2 DEF Cell
  <2>4. node \in Inode
    BY <1>1, SizeAssumption DEF TypeOK, Inode
  <2> HIDE DEF room, node, cell
  <2>5. next \in Operation /\ next.num = op.num /\ next.dir = op.dir
    BY <1>1, <2>4 DEF Operation
  <2> HIDE DEF next
  <2>6. blocks' \in [Chained -> [Slots -> Cell]] /\ faults' \in 0..MaxFaults
    BY <1>1, <2>1, <2>2, <2>3, PutCellType, CountType
  <2>7. pc' \in Steps /\ op' \in Operation
    BY <2>1, <2>5, ProceedType, Constants DEF Steps
  <2>8. OpTyped'
    BY <1>1, <2>1, <2>5, ProceedType DEF OpTyped, Creating, Deleting, Extending
  <2> QED
    BY <2>1, <2>6, <2>7, <2>8 DEF WriteEntry, TypeOK, Keep
<1> QED
  BY <1>2, <1>3

\* The writes of an inode after which the operation returns.
LEMMA LastWriteType == TypeInv /\ (WriteDirInode \/ WriteSize) => TypeInv'
<1> SUFFICES ASSUME TypeInv, WriteDirInode \/ WriteSize PROVE TypeInv'
  OBVIOUS
<1> USE DEF TypeInv
<1>1. op \in Operation /\ op.node \in Inode /\ op.off \in Nat /\ op.len \in Nat
  BY DEF TypeOK, Operation
<1>2. PICK w \in Outcomes, i \in {op.dir, op.num}, node \in Inode :
        PutInode(w, i, node) /\ Count(w)
  <2> DEFINE sized == [op.node EXCEPT !.size = IF op.off + op.len > @ THEN op.off + op.len
                                               ELSE @]
  <2>1. sized \in Inode
    BY <1>1 DEF Inode
  <2>2. CASE WriteDirInode
    BY <1>1, <2>2 DEF WriteDirInode
  <2>3. CASE WriteSize
    <3>1. \E w \in Outcomes : PutInode(w, op.num, sized) /\ Count(w)
      BY <2>3 DEF WriteSize
    <3> HIDE DEF sized
    <3> QED
      BY <2>1, <3>1
  <2> QED
    BY <2>2, <2>3
<1>3. inodes' \in [Inodes -> Inode] /\ faults' \in 0..MaxFaults
  BY <1>2, PutInodeType, CountType
<1>4. pc' = "idle" /\ op' \in Operation
  BY ReturnType DEF WriteDirInode, WriteSize
<1>5. OpTyped'
  BY <1>4, Settled DEF Steps, Creating, Deleting, Extending
<1> QED
  BY <1>3, <1>4, <1>5 DEF WriteDirInode, WriteSize, TypeOK, Steps, Keep

LEMMA RemovePathStep ==
  ASSUME NEW p, NEW n \in Names
  PROVE  TypeInv /\ RemovePath(p, n) => TypeInv'
<1> SUFFICES ASSUME TypeInv, RemovePath(p, n) PROVE TypeInv'
  OBVIOUS
<1> USE DEF TypeInv
<1> DEFINE t == Find(Walk(p), n).inode
           call == [NoOp EXCEPT !.dir = Walk(p), !.name = n, !.num = t,
                                !.cur = inodes[t].first]
<1>1. Walk(p) \in Inodes /\ t \in Inodes
  BY DEF RemovePath
<1>2. n \in Labels
  BY LabelKinds, Zenon
<1>3. inodes[t].first \in Chained
  BY <1>1 DEF TypeOK, Inode
<1>4. HasBlock(t) => inodes[t].first \in Clusters
  BY <1>3 DEF HasBlock, Chained
<1>5. pc' = (IF HasBlock(t) THEN "rm_free" ELSE "rm_inode") /\ op' = call
  BY DEF RemovePath
<1> HIDE DEF t
<1>6. /\ call \in Operation /\ call.num \in Inodes /\ call.dir \in Inodes
      /\ call.cur = inodes[t].first
  BY <1>1, <1>2, <1>3, Constants DEF Operation
<1> HIDE DEF call
<1>7. OpTyped'
  BY <1>3, <1>4, <1>5, <1>6 DEF OpTyped, Creating, Deleting, Extending
<1> QED
  BY <1>5, <1>6, <1>7 DEF RemovePath, TypeOK, Steps, Keep, disk

LEMMA FreeClusterType == TypeInv /\ FreeCluster => TypeInv'
<1> SUFFICES ASSUME TypeInv, FreeCluster PROVE TypeInv'
  OBVIOUS
<1> USE DEF TypeInv
<1>1. /\ pc = "rm_free" /\ op \in Operation /\ op.num \in Inodes /\ op.dir \in Inodes
      /\ op.cur \in Clusters
  BY DEF TypeOK, OpTyped, FreeCluster, Deleting
<1>2. fat[op.cur] \in Chained \cup {FAT_FREE, FAT_EOF} /\ FAT_FREE \in Chained
  BY <1>1 DEF TypeOK, Chained, FAT_FREE
<1>3. LET o == [op EXCEPT !.cur = fat[op.cur]]
      IN  o \in Operation /\ o.num = op.num /\ o.dir = op.dir /\ o.cur = fat[op.cur]
  BY <1>1, <1>2 DEF Operation
<1>4. /\ fat' \in [Chained -> Chained \cup {FAT_FREE, FAT_EOF}]
      /\ faults' \in 0..MaxFaults
      /\ harm' \subseteq {"format", "remove", "unseen", "refused"}
  <2>1. CASE \E w \in Outcomes : /\ PutFat(w, op.cur, FAT_FREE) /\ Count(w)
                                 /\ harm' = IF w.hit THEN harm ELSE harm \cup {"remove"}
    BY <2>1, PutFatType, CountType DEF TypeOK
  <2>2. CASE faults < MaxFaults /\ faults' = faults + 1 /\ UNCHANGED <<fat, harm>>
    BY <2>2, BoundAssumption DEF TypeOK
  <2> QED
    BY <2>1, <2>2 DEF FreeCluster
<1>5. pc' \in Steps /\ op' \in Operation
  BY <1>1, <1>3 DEF FreeCluster, Steps
<1>6. OpTyped'
  BY <1>1, <1>2, <1>3
     DEF FreeCluster, OpTyped, Creating, Deleting, Extending, Chained, FAT_FREE
<1> QED
  BY <1>4, <1>5, <1>6 DEF FreeCluster, TypeOK

LEMMA FreeInodeType == TypeInv /\ FreeInode => TypeInv'
<1> SUFFICES ASSUME TypeInv, FreeInode PROVE TypeInv'
  OBVIOUS
<1> USE DEF TypeInv
<1>1. /\ pc = "rm_inode" /\ op \in Operation /\ op.num \in Inodes /\ op.dir \in Inodes
  BY DEF TypeOK, OpTyped, FreeInode, Deleting
<1>2. PICK w \in Outcomes :
        /\ PutInode(w, op.num, ZeroInode) /\ Count(w) /\ Proceed(w, "rm_entry", op)
  BY DEF FreeInode
<1>3. inodes' \in [Inodes -> Inode] /\ faults' \in 0..MaxFaults
  BY <1>2, PutInodeType, CountType, Constants
<1>4. pc' \in Steps /\ op' \in Operation
  BY <1>1, <1>2, ProceedType, Constants DEF Steps
<1>5. OpTyped'
  BY <1>1, <1>2, ProceedType DEF OpTyped, Creating, Deleting, Extending
<1>6. harm' \subseteq {"format", "remove", "unseen", "refused"}
  BY ExposedType DEF FreeInode, TypeOK
<1> QED
  BY <1>3, <1>4, <1>5, <1>6 DEF FreeInode, TypeOK

LEMMA RemoveEntryType == TypeInv /\ RemoveEntry => TypeInv'
<1> SUFFICES ASSUME TypeInv, RemoveEntry PROVE TypeInv'
  OBVIOUS
<1> USE DEF TypeInv
<1>1. /\ pc = "rm_entry" /\ op \in Operation /\ op.num \in Inodes /\ op.dir \in Inodes
  BY DEF TypeOK, OpTyped, RemoveEntry, Deleting
<1>2. harm' \subseteq {"format", "remove", "unseen", "refused"}
  BY ExposedType DEF RemoveEntry, TypeOK
<1>3. CASE ~IsDir(op.dir) \/ EntrySlots(op.dir, op.name) = {}
  <2>1. Return /\ UNCHANGED <<blocks, faults>>
    BY <1>3 DEF RemoveEntry
  <2>2. OpTyped'
    BY <2>1, ReturnType, Settled DEF Steps, Creating, Deleting, Extending
  <2> QED
    BY <1>2, <2>1, <2>2, ReturnType DEF RemoveEntry, TypeOK, Steps
<1>4. CASE IsDir(op.dir) /\ EntrySlots(op.dir, op.name) # {}
  <2> DEFINE s == Min(EntrySlots(op.dir, op.name))
             next == [op EXCEPT !.node = inodes[op.dir]]
  <2>1. s \in Slots /\ inodes[op.dir].first \in Chained
    BY <1>4, FindType
  <2>2. PICK w \in Outcomes :
          /\ PutCell(w, inodes[op.dir].first, s, ZeroCell) /\ Count(w)
          /\ Proceed(w, "dir_inode", next)
    BY <1>4 DEF RemoveEntry
  <2>3. next \in Operation /\ next.num = op.num /\ next.dir = op.dir
    BY <1>1 DEF TypeOK, Operation
  <2> HIDE DEF s, next
  <2>4. blocks' \in [Chained -> [Slots -> Cell]] /\ faults' \in 0..MaxFaults
    BY <2>1, <2>2, PutCellType, CountType, Constants
  <2>5. pc' \in Steps /\ op' \in Operation
    BY <2>2, <2>3, ProceedType, Constants DEF Steps
  <2>6. OpTyped'
    BY <1>1, <2>2, <2>3, ProceedType DEF OpTyped, Creating, Deleting, Extending
  <2> QED
    BY <1>2, <2>4, <2>5, <2>6 DEF RemoveEntry, TypeOK
<1> QED
  BY <1>3, <1>4

LEMMA WriteFileStep ==
  ASSUME NEW p, NEW append \in BOOLEAN, NEW len \in Lengths
  PROVE  TypeInv /\ WriteFile(p, append, len) => TypeInv'
<1> SUFFICES ASSUME TypeInv, WriteFile(p, append, len) PROVE TypeInv'
  OBVIOUS
<1> USE DEF TypeInv
<1> DEFINE f == Walk(p)
           off == IF append THEN inodes[f].size ELSE 0
           first == off \div CellsPerBlock
           call == [NoOp EXCEPT !.num = f, !.node = inodes[f], !.cur = inodes[f].first,
                                !.idx = first, !.off = off, !.len = len]
<1>1. f \in Inodes /\ pc' = "seek" /\ op' = call
  BY DEF WriteFile
<1>2. inodes[f] \in Inode /\ inodes[f].first \in Chained /\ inodes[f].size \in Nat
  BY <1>1 DEF TypeOK, Inode
<1>3. off \in Nat /\ len \in Nat
  BY <1>2, BoundAssumption
<1> HIDE DEF f, off
<1>4. first \in Nat
  BY <1>3, SizeAssumption
<1> HIDE DEF first
<1>5. call \in Operation /\ call.num \in Inodes /\ call.cur \in Chained
  BY <1>1, <1>2, <1>3, <1>4, Constants DEF Operation
<1> HIDE DEF call
<1>6. OpTyped'
  BY <1>1, <1>5 DEF OpTyped, Creating, Deleting, Extending
<1> QED
  BY <1>1, <1>5, <1>6 DEF WriteFile, TypeOK, Steps, Keep, disk

\* What an operation that extends a file knows of its locals.
LEMMA ExtendingType ==
  ASSUME TypeInv, pc \in Extending
  PROVE  /\ op \in Operation /\ op.num \in Inodes /\ op.cur \in Chained
         /\ op.new \in Chained /\ op.pos \in Nat /\ op.idx \in Nat
         /\ op.node \in Inode /\ op.node.first \in Chained
  BY DEF TypeInv, TypeOK, OpTyped, Operation, Inode

LEMMA SeekType == TypeInv /\ Seek => TypeInv'
<1> SUFFICES ASSUME TypeInv, Seek PROVE TypeInv'
  OBVIOUS
<1> USE DEF TypeInv
<1>1. /\ op \in Operation /\ op.num \in Inodes /\ op.cur \in Chained /\ op.pos \in Nat
  BY ExtendingType DEF Seek, Extending
<1>2. \A ret \in {"first", "link"} :
        /\ Fresh(ret) \in Operation /\ Fresh(ret).ret = ret
        /\ Fresh(ret).num = op.num /\ Fresh(ret).cur = op.cur
  BY <1>1 DEF Fresh, Operation, Chained
<1>3. fat[op.cur] # FAT_EOF => fat[op.cur] \in Chained
  BY <1>1 DEF TypeOK, Chained, FAT_FREE
<1>4. fat[op.cur] # FAT_EOF =>
        LET o == [op EXCEPT !.cur = fat[op.cur], !.pos = @ + 1]
        IN  o \in Operation /\ o.num = op.num /\ o.cur \in Chained
  <2>1. op.pos + 1 \in Nat
    BY <1>1
  <2> QED
    BY <1>1, <1>3, <2>1 DEF Operation
<1>5. \/ pc' = "alloc" /\ op' \in {Fresh("first"), Fresh("link")}
      \/ /\ fat[op.cur] # FAT_EOF /\ pc' = "seek"
         /\ op' = [op EXCEPT !.cur = fat[op.cur], !.pos = @ + 1]
      \/ pc' = "data" /\ op' = op
  BY DEF Seek
<1>6. pc' \in Steps /\ op' \in Operation
  BY <1>1, <1>2, <1>4, <1>5 DEF Steps
<1>7. OpTyped'
  BY <1>1, <1>2, <1>4, <1>5 DEF OpTyped, Creating, Deleting, Extending
<1> QED
  BY <1>6, <1>7 DEF Seek, TypeOK, Keep, disk

LEMMA SetFirstType == TypeInv /\ SetFirst => TypeInv'
<1> SUFFICES ASSUME TypeInv, SetFirst PROVE TypeInv'
  OBVIOUS
<1> USE DEF TypeInv
<1>1. /\ op \in Operation /\ op.num \in Inodes /\ op.new \in Chained /\ op.node \in Inode
  BY ExtendingType DEF SetFirst, Extending
<1>2. [op.node EXCEPT !.first = op.new] \in Inode
  BY <1>1 DEF Inode
<1>3. LET o == [op EXCEPT !.node.first = op.new, !.cur = op.new]
      IN  o \in Operation /\ o.num = op.num /\ o.cur \in Chained
  BY <1>1, <1>2 DEF Operation
<1>4. OpTyped'
  BY <1>1, <1>3 DEF SetFirst, OpTyped, Creating, Deleting, Extending
<1> QED
  BY <1>3, <1>4 DEF SetFirst, TypeOK, Steps, Keep, disk

LEMMA LinkClusterType == TypeInv /\ LinkCluster => TypeInv'
<1> SUFFICES ASSUME TypeInv, LinkCluster PROVE TypeInv'
  OBVIOUS
<1> USE DEF TypeInv
<1> DEFINE next == [op EXCEPT !.cur = op.new, !.pos = @ + 1]
<1>1. op \in Operation /\ op.num \in Inodes /\ op.new \in Chained /\ op.pos \in Nat
  BY ExtendingType DEF LinkCluster, Extending
<1>2. PICK w \in Outcomes : /\ PutFat(w, op.cur, op.new) /\ Count(w)
                            /\ Proceed(w, "seek", next)
  BY DEF LinkCluster
<1>3. next \in Operation /\ next.num = op.num /\ next.cur \in Chained
  <2>1. op.pos + 1 \in Nat
    BY <1>1
  <2> QED
    BY <1>1, <2>1 DEF Operation
<1> HIDE DEF next
<1>4. fat' \in [Chained -> Chained \cup {FAT_FREE, FAT_EOF}] /\ faults' \in 0..MaxFaults
  BY <1>1, <1>2, PutFatType, CountType
<1>5. pc' \in Steps /\ op' \in Operation
  BY <1>2, <1>3, ProceedType, Constants DEF Steps
<1>6. OpTyped'
  BY <1>1, <1>2, <1>3, ProceedType DEF OpTyped, Creating, Deleting, Extending
<1> QED
  BY <1>4, <1>5, <1>6 DEF LinkCluster, TypeOK, Keep

LEMMA WriteDataType == TypeInv /\ WriteData => TypeInv'
<1> SUFFICES ASSUME TypeInv, WriteData PROVE TypeInv'
  OBVIOUS
<1> USE DEF TypeInv
<1> DEFINE at(s) == op.idx * CellsPerBlock + s
           new == [s \in Slots |-> IF op.off < at(s) /\ at(s) <= op.off + op.len
                                   THEN Text(op.num) ELSE blocks[op.cur][s]]
           next == [op EXCEPT !.idx = @ + 1, !.pos = 0, !.cur = op.node.first]
<1>1. /\ op \in Operation /\ op.num \in Inodes /\ op.cur \in Chained /\ op.idx \in Nat
      /\ op.node.first \in Chained
  BY ExtendingType DEF WriteData, Extending
<1>2. Text(op.num) \in Cell
  <2>1. op.num \in Nat /\ "text" \in Labels
    BY <1>1, Sizes, LabelKinds
  <2> QED
    BY <2>1 DEF Text, Cell, TextType
<1>3. blocks[op.cur] \in [Slots -> Cell]
  BY <1>1 DEF TypeOK
<1>4. new \in [Slots -> Cell]
  BY <1>2, <1>3
<1>5. PICK w \in Outcomes :
        /\ PutBlock(w, op.cur, new) /\ Count(w)
        /\ IF op.idx = LastIdx THEN Proceed(w, "size", op) ELSE Proceed(w, "seek", next)
  BY DEF WriteData
<1>6. next \in Operation /\ next.num = op.num /\ next.cur \in Chained
  <2>1. op.idx + 1 \in Nat
    BY <1>1
  <2> QED
    BY <1>1, <2>1 DEF Operation
<1> HIDE DEF new, next
<1>7. blocks' \in [Chained -> [Slots -> Cell]] /\ faults' \in 0..MaxFaults
  BY <1>1, <1>4, <1>5, PutBlockType, CountType
<1>8. pc' \in Steps /\ op' \in Operation
  BY <1>1, <1>5, <1>6, ProceedType, Constants DEF Steps
<1>9. OpTyped'
  BY <1>1, <1>5, <1>6, ProceedType DEF OpTyped, Creating, Deleting, Extending
<1> QED
  BY <1>7, <1>8, <1>9 DEF WriteData, TypeOK, Keep

LEMMA PowerLossType == TypeInv /\ PowerLoss => TypeInv'
<1> SUFFICES ASSUME TypeInv, PowerLoss PROVE TypeInv'
  OBVIOUS
<1> USE DEF TypeInv
<1>1. OpTyped'
  BY Settled DEF PowerLoss, Steps, Creating, Deleting, Extending
<1>2. harm' \subseteq {"format", "remove", "unseen", "refused"}
  BY ExposedType DEF PowerLoss, TypeOK
<1>3. <<>> \in Seq(Seq(Names) \ {<<>>})
  OBVIOUS
<1>4. crashes' \in 0..MaxCrashes
  BY BoundAssumption DEF PowerLoss, TypeOK
<1> QED
  BY <1>1, <1>2, <1>3, <1>4, Constants DEF PowerLoss, TypeOK, Steps, disk

-----------------------------------------------------------------------------
LEMMA InitType == Init => TypeInv
<1> SUFFICES ASSUME Init PROVE TypeInv
  OBVIOUS
<1>1. OpTyped
  BY DEF Init, OpTyped, Creating, Deleting, Extending
<1>2. /\ fat \in [Chained -> Chained \cup {FAT_FREE, FAT_EOF}]
      /\ inodes \in [Inodes -> Inode] /\ blocks \in [Chained -> [Slots -> Cell]]
  BY Constants DEF Init
<1>3. todo \in Seq(Seq(Names) \ {<<>>})
  BY DEF Init
<1>4. faults \in 0..MaxFaults /\ crashes \in 0..MaxCrashes
  BY BoundAssumption DEF Init
<1> QED
  BY <1>1, <1>2, <1>3, <1>4, Constants DEF Init, TypeInv, TypeOK, Steps

\* One case per group of actions.
LEMMA NextType == TypeInv /\ [Next]_vars => TypeInv'
<1> SUFFICES ASSUME TypeInv, [Next]_vars PROVE TypeInv'
  OBVIOUS
<1>1. CASE Boot
  BY <1>1, MountType, FormatSuperblockType, FormatTablesType, FormatReservedType,
     FormatRootType, RemountType, EnsureDirType DEF Boot
<1>2. CASE Continue
  BY <1>2, AllocType, ZeroType, MarkType, WriteDotsType, WriteDotsInodeType,
     AddEntryStartType, WriteEntryType, LastWriteType, FreeClusterType, FreeInodeType,
     RemoveEntryType, SeekType, SetFirstType, LinkClusterType, WriteDataType
     DEF Continue
<1>3. CASE Command
  BY <1>3, CreateStep, RemovePathStep, WriteFileStep DEF Command
<1>4. CASE PowerLoss
  BY <1>4, PowerLossType
<1>5. CASE UNCHANGED vars
  BY <1>5 DEF vars, disk, memory, history, TypeInv, TypeOK, OpTyped
<1> QED
  BY <1>1, <1>2, <1>3, <1>4, <1>5 DEF Next

\* Whatever sequence of commands, failed transfers and losses of power, every
\* number the file system stores or uses as an index is in range, for disks
\* and directories of every size.
THEOREM TypeCorrect == Spec => []TypeOK
<1>1. TypeInv => TypeOK
  BY DEF TypeInv
<1> QED
  BY InitType, NextType, <1>1, PTL DEF Spec

-----------------------------------------------------------------------------
(***************************************************************************)
(* Clusters.                                                               *)
(*                                                                         *)
(* What makes it inductive is where an operation keeps a cluster that the  *)
(* disk does not name yet: in op.new until it is linked or entered, and in *)
(* op.node until the inode is written back.                                *)
(***************************************************************************)

InUse(c) == c \in Clusters /\ fat[c] # FAT_FREE

\* No inode and no link of the FAT leads to c.
Unowned(c) ==
  (\A i \in Inodes : inodes[i].first # c) /\ (\A d \in Clusters : fat[d] # c)

\* Taken from the allocator, and known to the running operation only.
Held(c) == InUse(c) /\ Unowned(c)

\* A cluster is named once.
HeadsApart ==
  \A i, j \in Inodes : inodes[i].first # 0 /\ inodes[i].first = inodes[j].first => i = j
LinksApart == \A c, d \in Clusters : fat[c] \in Clusters /\ fat[c] = fat[d] => c = d
HeadsAreNoLinks ==
  \A i \in Inodes, c \in Clusters : fat[c] \in Clusters => inodes[i].first # fat[c]

OwnedOnce == HeadsApart /\ LinksApart /\ HeadsAreNoLinks

\* What is named is in use.
HeadsInUse == \A i \in Inodes \ {Removing} : inodes[i].first # 0 => InUse(inodes[i].first)
LinksInUse == \A c \in Clusters : fat[c] \in Clusters => InUse(fat[c])

ChainsInUse == HeadsInUse /\ LinksInUse

\* In write_file, alloc_cluster included.
Writing == \/ pc \in Extending
           \/ pc \in {"alloc", "zero"} /\ op.ret \in {"first", "link"}

\* What the locals of each operation know of the clusters they name.
NewHeld == pc \in {"zero", "dots", "dots_inode", "first", "link"} => Held(op.new)

EntryBlock ==
  /\ pc = "entry" => InUse(op.new) /\ (op.new = inodes[op.dir].first \/ Unowned(op.new))
  /\ pc = "dir_inode" =>
       op.node.first = inodes[op.dir].first \/ Held(op.node.first)

FileChain ==
  Writing =>
    /\ op.node.first = inodes[op.num].first \/ Held(op.node.first)
    /\ op.node.first # 0 => InUse(op.cur)
    /\ pc \in {"zero", "link", "first"} => op.new # op.node.first

Freeing ==
  /\ pc = "rm_free" => \/ op.cur = inodes[op.num].first /\ InUse(op.cur)
                       \/ Unowned(op.cur)
  /\ pc = "rm_entry" => inodes[op.num].first = 0

LocalsSound == NewHeld /\ EntryBlock /\ FileChain /\ Freeing

ClustersSound == OwnedOnce /\ ChainsInUse /\ LocalsSound

\* What format() has cleared so far.
Formatted ==
  /\ pc \in {"fmt_inodes", "fmt_reserved", "fmt_root"} =>
       \A c \in Clusters : fat[c] = FAT_FREE
  /\ pc \in {"fmt_reserved", "fmt_root"} => \A i \in Inodes : inodes[i] = ZeroInode

ClusterInv == Formatted /\ (Sound => ClustersSound)

-----------------------------------------------------------------------------
(* What the writes do to the clusters. *)

\* Harm is only ever forgotten by FormatRoot.
LEMMA SoundBefore == ASSUME harm \subseteq harm', ~Formatting, Sound' PROVE Sound
  BY DEF Sound

LEMMA EofIsNoCluster == FAT_EOF \notin Clusters /\ FAT_EOF # FAT_FREE /\ FAT_FREE \notin Clusters
  BY SizeAssumption DEF FAT_EOF, FAT_FREE, Clusters

\* A step that leaves both tables alone.
LEMMA TablesKept ==
  ASSUME UNCHANGED <<fat, inodes>>
  PROVE  /\ OwnedOnce => OwnedOnce'
         /\ ChainsInUse /\ Removing = 0 => ChainsInUse'
         /\ ChainsInUse /\ Removing' = Removing => ChainsInUse'
<1>1. OwnedOnce => OwnedOnce'
  <2>1. HeadsApart => HeadsApart'
    BY DEF HeadsApart
  <2>2. LinksApart => LinksApart'
    BY DEF LinksApart
  <2>3. HeadsAreNoLinks => HeadsAreNoLinks'
    BY DEF HeadsAreNoLinks
  <2> QED
    BY <2>1, <2>2, <2>3 DEF OwnedOnce
<1>2. \A c : InUse(c) => InUse(c)'
  BY DEF InUse
<1>3. LinksInUse => LinksInUse'
  BY DEF LinksInUse, InUse
<1>4. HeadsInUse /\ (Removing = 0 \/ Removing' = Removing) => HeadsInUse'
  BY Sizes DEF HeadsInUse, InUse
<1> QED
  BY <1>1, <1>3, <1>4 DEF ChainsInUse

\* An inode that names a cluster it had, one that was held, or none.
LEMMA PutInodeChains ==
  ASSUME TypeOK, OwnedOnce, ChainsInUse, Removing = 0, UNCHANGED fat,
         NEW w \in Outcomes, NEW i \in Inodes, NEW node, PutInode(w, i, node),
         node.first = 0 \/ node.first = inodes[i].first \/ Held(node.first)
  PROVE  OwnedOnce' /\ ChainsInUse'
<1>1. \A j \in Inodes : \/ inodes'[j] = inodes[j]
                        \/ j = i /\ inodes'[j] = node
  BY DEF TypeOK, PutInode
<1>2. HeadsApart'
  <2> SUFFICES ASSUME NEW k \in Inodes, NEW j \in Inodes,
                      (inodes[k].first # 0)', (inodes[k].first = inodes[j].first)'
               PROVE  k = j
    BY Zenon DEF HeadsApart
  <2> QED
    BY <1>1 DEF OwnedOnce, HeadsApart, Held, Unowned
<1>3. LinksApart'
  BY DEF OwnedOnce, LinksApart
<1>4. HeadsAreNoLinks'
  <2> SUFFICES ASSUME NEW j \in Inodes, NEW c \in Clusters, (fat[c] \in Clusters)'
               PROVE  (inodes[j].first # fat[c])'
    BY Zenon DEF HeadsAreNoLinks
  <2> QED
    BY <1>1, Sizes DEF OwnedOnce, HeadsAreNoLinks, Held, Unowned
<1>5. LinksInUse'
  BY DEF ChainsInUse, LinksInUse, InUse
<1>6. HeadsInUse'
  <2> SUFFICES ASSUME NEW j \in Inodes, (inodes[j].first # 0)'
               PROVE  InUse(inodes[j].first)'
    BY Zenon DEF HeadsInUse
  <2>1. j # Removing
    BY Sizes
  <2> QED
    BY <1>1, <2>1 DEF ChainsInUse, HeadsInUse, InUse, Held
<1> QED
  BY <1>2, <1>3, <1>4, <1>5, <1>6 DEF OwnedOnce, ChainsInUse

\* A FAT entry that ends a chain or names a held cluster.
LEMMA PutFatChains ==
  ASSUME TypeOK, OwnedOnce, ChainsInUse, Removing = 0, UNCHANGED inodes,
         NEW w \in Outcomes, NEW c, NEW v, PutFat(w, c, v),
         v = FAT_EOF \/ Held(v)
  PROVE  /\ OwnedOnce' /\ ChainsInUse'
         /\ \A d : InUse(d) => InUse(d)'
         /\ \A d : Unowned(d) /\ d # v => Unowned(d)'
<1>1. \A d \in Clusters : fat'[d] = fat[d] \/ (d = c /\ fat'[d] = v)
  BY DEF TypeOK, PutFat, Chained
<1>2. v # FAT_FREE /\ (v \in Clusters => Held(v))
  BY EofIsNoCluster DEF Held, InUse
<1>3. \A d : InUse(d) => InUse(d)'
  BY <1>1, <1>2 DEF InUse
<1>4. \A d : Unowned(d) /\ d # v => Unowned(d)'
  BY <1>1 DEF Unowned
<1>5. HeadsApart'
  BY DEF OwnedOnce, HeadsApart
<1>6. LinksApart'
  <2> SUFFICES ASSUME NEW a \in Clusters, NEW b \in Clusters,
                      (fat[a] \in Clusters)', (fat[a] = fat[b])'
               PROVE  a = b
    BY Zenon DEF LinksApart
  <2> QED
    BY <1>1, <1>2 DEF OwnedOnce, LinksApart, Held, Unowned
<1>7. HeadsAreNoLinks'
  <2> SUFFICES ASSUME NEW j \in Inodes, NEW d \in Clusters, (fat[d] \in Clusters)'
               PROVE  (inodes[j].first # fat[d])'
    BY Zenon DEF HeadsAreNoLinks
  <2> QED
    BY <1>1, <1>2 DEF OwnedOnce, HeadsAreNoLinks, Held, Unowned
<1>8. HeadsInUse'
  <2> SUFFICES ASSUME NEW j \in Inodes, (inodes[j].first # 0)'
               PROVE  InUse(inodes[j].first)'
    BY Zenon DEF HeadsInUse
  <2>1. j # Removing
    BY Sizes
  <2>2. InUse(inodes[j].first)
    BY <2>1 DEF ChainsInUse, HeadsInUse
  <2> QED
    BY <1>1, <1>2, <2>2 DEF InUse
<1>9. LinksInUse'
  <2> SUFFICES ASSUME NEW d \in Clusters, (fat[d] \in Clusters)'
               PROVE  InUse(fat[d])'
    BY Zenon DEF LinksInUse
  <2>1. InUse(fat'[d])
    BY <1>1, <1>2 DEF ChainsInUse, LinksInUse, Held
  <2> QED
    BY <1>1, <1>2, <2>1 DEF InUse
<1> QED
  BY <1>3, <1>4, <1>5, <1>6, <1>7, <1>8, <1>9 DEF OwnedOnce, ChainsInUse

-----------------------------------------------------------------------------
(* One lemma per action, or per group of actions alike. *)

\* The places where no local names a cluster.
LEMMA LocalsSettled ==
  ASSUME \/ pc' \in Steps \ ({"alloc", "zero", "dots", "dots_inode", "entry", "dir_inode",
                               "rm_free", "rm_entry"} \cup Extending)
         \/ pc' = "alloc" /\ op'.ret \in {"dots", "entry"}
  PROVE  LocalsSound'
  BY DEF LocalsSound, NewHeld, EntryBlock, FileChain, Freeing, Writing, Extending

LEMMA GivenUp == ASSUME Return PROVE LocalsSound' /\ Removing' = 0
  BY LocalsSettled DEF Return, Steps, Extending, Removing

\* The first free cluster belongs to nobody.
LEMMA FreeIsUnowned ==
  ASSUME ChainsInUse, Removing = 0, NEW c \in Clusters, fat[c] = FAT_FREE
  PROVE  Unowned(c)
<1>1. \A i \in Inodes : inodes[i].first # c
  BY Sizes DEF ChainsInUse, HeadsInUse, InUse
<1>2. \A d \in Clusters : fat[d] # c
  BY DEF ChainsInUse, LinksInUse, InUse
<1> QED
  BY <1>1, <1>2 DEF Unowned

LEMMA AllocClusters == ASSUME TypeInv, ClustersSound, AllocCluster PROVE ClustersSound'
<1>1. /\ pc = "alloc" /\ Removing = 0 /\ TypeOK /\ op \in Operation
      /\ UNCHANGED inodes
  BY DEF AllocCluster, Removing, TypeInv, TypeOK
<1>2. OwnedOnce /\ ChainsInUse /\ FileChain
  BY DEF ClustersSound, LocalsSound
<1>3. CASE FreeClusters = {}
  <2>1. Return /\ UNCHANGED <<fat, inodes>>
    BY <1>3 DEF AllocCluster
  <2> QED
    BY <1>1, <1>2, <2>1, TablesKept, GivenUp DEF ClustersSound
<1>4. CASE FreeClusters # {}
  <2>1. PICK c \in Clusters : c = Min(FreeClusters) /\ fat[c] = FAT_FREE
    BY <1>4, FirstFree DEF FreeClusters
  <2>2. PICK w \in Outcomes : /\ PutFat(w, c, FAT_EOF)
                              /\ Proceed(w, "zero", [op EXCEPT !.new = c])
    BY <1>4, <2>1 DEF AllocCluster
  <2>3. /\ OwnedOnce' /\ ChainsInUse'
        /\ \A d : InUse(d) => InUse(d)'
        /\ \A d : Unowned(d) /\ d # FAT_EOF => Unowned(d)'
    BY <1>1, <1>2, <2>2, PutFatChains
  <2>4. Unowned(c)
    BY <1>1, <1>2, <2>1, FreeIsUnowned
  <2>5. CASE ~w.ok
    BY <2>2, <2>3, <2>5, GivenUp DEF Proceed, ClustersSound
  <2>6. CASE w.ok
    <3>1. /\ pc' = "zero" /\ op'.new = c /\ op'.ret = op.ret /\ op'.num = op.num
          /\ op'.node = op.node /\ op'.cur = op.cur
      BY <1>1, <2>2, <2>6 DEF Proceed, Operation
    <3>2. fat'[c] = FAT_EOF
      BY <1>1, <2>1, <2>2, <2>6, OutcomeType DEF PutFat, TypeOK, Chained
    <3>3. Held(c)'
      BY <2>1, <2>3, <2>4, <3>2, EofIsNoCluster DEF Held, InUse
    <3>4. NewHeld' /\ EntryBlock' /\ Freeing'
      BY <3>1, <3>3 DEF NewHeld, EntryBlock, Freeing
    <3>5. FileChain'
      <4> SUFFICES ASSUME Writing' PROVE FileChain'
        BY DEF FileChain
      <4>1. PICK f, d, i : f = op.node.first /\ d = op.cur /\ i = op.num
        OBVIOUS
      <4>2. op'.node.first = f /\ op'.cur = d /\ op'.num = i
        BY <3>1, <4>1
      <4>3. /\ f = inodes[i].first \/ Held(f)
            /\ f # 0 => InUse(d)
        <5>1. Writing
          BY <1>1, <3>1 DEF Writing, Extending
        <5> QED
          BY <1>2, <4>1, <5>1 DEF FileChain
      <4>4. f # FAT_EOF /\ i \in Inodes
        BY <1>1, <4>1, Sizes DEF Operation, Inode, TypeInv, OpTyped
      <4>5. f # c
        <5>1. CASE f = 0
          BY <2>1, <5>1, Sizes
        <5>2. CASE f # 0
          <6>1. InUse(f)
            BY <1>1, <1>2, <4>3, <4>4, <5>2, Sizes DEF ChainsInUse, HeadsInUse, Held
          <6> QED
            BY <2>1, <6>1 DEF InUse
        <5> QED
          BY <5>1, <5>2
      <4>6. f = inodes[i].first \/ Held(f)'
        BY <2>3, <4>3, <4>4 DEF Held
      <4>7. f # 0 => InUse(d)'
        BY <2>3, <4>3
      <4> QED
        BY <1>1, <3>1, <4>2, <4>5, <4>6, <4>7 DEF FileChain, Held, InUse, Unowned
    <3> QED
      BY <2>3, <3>4, <3>5 DEF ClustersSound, LocalsSound
  <2> QED
    BY <2>5, <2>6
<1> QED
  BY <1>3, <1>4

\* What is known of a cluster stays known when neither table changes.
LEMMA ClustersKept ==
  ASSUME UNCHANGED <<fat, inodes>>
  PROVE  \A c : /\ InUse(c) => InUse(c)'
                /\ Unowned(c) => Unowned(c)'
                /\ Held(c) => Held(c)'
  BY DEF InUse, Unowned, Held

LEMMA ZeroClusters == ASSUME TypeInv, ClustersSound, ZeroCluster PROVE ClustersSound'
<1>1. /\ pc = "zero" /\ Removing = 0 /\ op.ret \in {"dots", "entry", "first", "link"}
      /\ UNCHANGED <<fat, inodes>>
  BY DEF ZeroCluster, Removing, TypeInv, TypeOK, OpTyped, Operation
<1>2. OwnedOnce' /\ ChainsInUse'
  BY <1>1, TablesKept DEF ClustersSound
<1>3. PICK w \in Outcomes : Proceed(w, op.ret, op)
  BY DEF ZeroCluster
<1>4. CASE ~w.ok
  BY <1>2, <1>3, <1>4, GivenUp DEF Proceed, ClustersSound
<1>5. CASE w.ok
  <2>1. pc' = op.ret /\ op' = op
    BY <1>3, <1>5 DEF Proceed
  <2>2. Held(op.new) /\ FileChain
    BY <1>1 DEF ClustersSound, LocalsSound, NewHeld
  <2>3. NewHeld' /\ EntryBlock'
    BY <1>1, <2>1, <2>2 DEF NewHeld, EntryBlock, Held, InUse, Unowned
  <2>4. FileChain'
    BY <1>1, <2>1, <2>2 DEF FileChain, Writing, Extending, Held, InUse, Unowned
  <2>5. Freeing'
    BY <1>1, <2>1 DEF Freeing
  <2> QED
    BY <1>2, <2>3, <2>4, <2>5 DEF ClustersSound, LocalsSound
<1> QED
  BY <1>4, <1>5

\* The steps of a boot that leave the tables alone.
LEMMA BootClusters ==
  ASSUME ClustersSound, Mount \/ FormatSuperblock \/ Remount
  PROVE  ClustersSound'
<1>1. /\ Removing = 0 /\ UNCHANGED <<fat, inodes>>
      /\ pc' \in {"idle", "fmt_sb", "fmt_fat"}
  BY DEF Mount, FormatSuperblock, Remount, Removing, disk, Proceed, Return
<1>2. LocalsSound'
  BY <1>1, LocalsSettled DEF Steps, Extending
<1> QED
  BY <1>1, <1>2, TablesKept DEF ClustersSound

LEMMA TakeClusters ==
  ASSUME TypeInv, ClustersSound, pc = "idle", UNCHANGED fat,
         NEW d, NEW n, NEW k, TakeInode(d, n, k), FreeInodes # {}
  PROVE  ClustersSound'
<1>1. PICK w \in Outcomes : /\ PutInode(w, Min(FreeInodes), ZeroInode)
                            /\ Proceed(w, "mark", CreateOp(d, n, k))
  BY DEF TakeInode
<1>2. Min(FreeInodes) \in Inodes /\ ZeroInode.first = 0
  BY FirstFree DEF ZeroInode
<1>3. OwnedOnce' /\ ChainsInUse'
  BY <1>1, <1>2, PutInodeChains DEF TypeInv, ClustersSound, Removing
<1>4. LocalsSound'
  BY <1>1, LocalsSettled DEF Proceed, Return, Steps, Extending
<1> QED
  BY <1>3, <1>4 DEF ClustersSound

LEMMA EnsureClusters == ASSUME TypeInv, ClustersSound, EnsureDir PROVE ClustersSound'
<1> DEFINE p == Front(Head(todo))
           n == Last(Head(todo))
<1>1. pc = "idle" /\ UNCHANGED fat
  BY DEF EnsureDir
<1>2. CASE CanCreate(p, n)
  <2>1. TakeInode(Walk(p), n, DirType) /\ FreeInodes # {}
    BY <1>2 DEF EnsureDir, CanCreate
  <2> QED
    BY <1>1, <2>1, TakeClusters
<1>3. CASE ~CanCreate(p, n)
  <2>1. UNCHANGED <<inodes, pc, op>>
    BY <1>3 DEF EnsureDir
  <2>2. LocalsSound'
    BY <1>1, <2>1, LocalsSettled DEF Steps, Extending
  <2> QED
    BY <1>1, <2>1, <2>2, TablesKept DEF ClustersSound, Removing
<1> QED
  BY <1>2, <1>3

LEMMA CreateClusters ==
  ASSUME TypeInv, ClustersSound, NEW p, NEW n, NEW k, Create(p, n, k)
  PROVE  ClustersSound'
  BY TakeClusters DEF Create, AtPrompt, CanCreate

LEMMA MarkClusters == ASSUME TypeInv, ClustersSound, MarkInode PROVE ClustersSound'
<1>1. pc = "mark" /\ Removing = 0 /\ UNCHANGED fat /\ op.num \in Inodes /\ op \in Operation
  BY DEF MarkInode, Removing, TypeInv, TypeOK, OpTyped, Creating
<1>2. PICK w \in Outcomes :
        /\ PutInode(w, op.num, [ZeroInode EXCEPT !.type = op.kind])
        /\ IF op.kind = DirType THEN Proceed(w, "alloc", Fresh("dots"))
           ELSE Proceed(w, "add", op)
  BY DEF MarkInode
<1>3. [ZeroInode EXCEPT !.type = op.kind].first = 0
  BY DEF ZeroInode
<1>4. OwnedOnce' /\ ChainsInUse'
  BY <1>1, <1>2, <1>3, PutInodeChains DEF TypeInv, ClustersSound
<1>5. \/ pc' \in {"idle", "add"}
      \/ pc' = "alloc" /\ op'.ret = "dots"
  BY <1>1, <1>2 DEF Proceed, Return, Fresh, Operation
<1>6. LocalsSound'
  BY <1>5, LocalsSettled DEF Steps, Extending
<1> QED
  BY <1>4, <1>6 DEF ClustersSound

LEMMA WriteDotsClusters == ASSUME ClustersSound, WriteDots PROVE ClustersSound'
<1>1. pc = "dots" /\ Removing = 0 /\ UNCHANGED <<fat, inodes>>
  BY DEF WriteDots, Removing
<1>2. OwnedOnce' /\ ChainsInUse'
  BY <1>1, TablesKept DEF ClustersSound
<1>3. Return \/ (pc' = "dots_inode" /\ op' = op)
  BY DEF WriteDots, Proceed
<1>4. CASE pc' = "dots_inode" /\ op' = op
  <2>1. Held(op.new)
    BY <1>1 DEF ClustersSound, LocalsSound, NewHeld
  <2>2. LocalsSound'
    BY <1>1, <1>4, <2>1 DEF LocalsSound, NewHeld, EntryBlock, FileChain, Freeing, Writing,
       Extending, Held, InUse, Unowned
  <2> QED
    BY <1>2, <2>2 DEF ClustersSound
<1> QED
  BY <1>2, <1>3, <1>4, GivenUp DEF ClustersSound

LEMMA WriteDotsInodeClusters ==
  ASSUME TypeInv, ClustersSound, WriteDotsInode PROVE ClustersSound'
<1> DEFINE node == [type |-> DirType, size |-> CellsPerBlock, first |-> op.new]
<1>1. pc = "dots_inode" /\ Removing = 0 /\ UNCHANGED fat /\ op.num \in Inodes
  BY DEF WriteDotsInode, Removing, TypeInv, OpTyped, Creating
<1>2. PICK w \in Outcomes :
        /\ PutInode(w, op.num, node)
        /\ Proceed(w, IF op.name = "" THEN "remount" ELSE "add", op)
  BY DEF WriteDotsInode
<1>3. node.first = op.new /\ Held(op.new)
  BY <1>1 DEF ClustersSound, LocalsSound, NewHeld
<1> HIDE DEF node
<1>4. OwnedOnce' /\ ChainsInUse'
  BY <1>1, <1>2, <1>3, PutInodeChains DEF TypeInv, ClustersSound
<1>5. LocalsSound'
  BY <1>2, LocalsSettled DEF Proceed, Return, Steps, Extending
<1> QED
  BY <1>4, <1>5 DEF ClustersSound

LEMMA AddEntryClusters == ASSUME TypeInv, ClustersSound, AddEntryStart PROVE ClustersSound'
<1>1. pc = "add" /\ Removing = 0 /\ UNCHANGED <<fat, inodes>> /\ op \in Operation
      /\ op.dir \in Inodes
  BY DEF AddEntryStart, Removing, TypeInv, TypeOK, OpTyped, Creating, disk
<1>2. OwnedOnce' /\ ChainsInUse'
  BY <1>1, TablesKept DEF ClustersSound
<1>3. CASE Return
  BY <1>2, <1>3, GivenUp DEF ClustersSound
<1>4. CASE /\ HasBlock(op.dir) /\ pc' = "entry"
           /\ op' = [op EXCEPT !.new = inodes[op.dir].first]
  <2>1. op'.new = inodes[op.dir].first /\ op'.dir = op.dir
    BY <1>1, <1>4 DEF Operation
  <2>2. InUse(inodes[op.dir].first)
    BY <1>1, <1>4, Sizes DEF ClustersSound, ChainsInUse, HeadsInUse, HasBlock
  <2>3. LocalsSound'
    BY <1>1, <1>4, <2>1, <2>2 DEF LocalsSound, NewHeld, EntryBlock, FileChain, Freeing,
       Writing, Extending, InUse
  <2> QED
    BY <1>2, <2>3 DEF ClustersSound
<1>5. CASE pc' = "alloc" /\ op' = Fresh("entry")
  <2>1. op'.ret = "entry"
    BY <1>1, <1>5 DEF Fresh, Operation
  <2> QED
    BY <1>2, <1>5, <2>1, LocalsSettled DEF ClustersSound
<1> QED
  BY <1>3, <1>4, <1>5 DEF AddEntryStart

LEMMA WriteEntryClusters == ASSUME TypeInv, ClustersSound, WriteEntry PROVE ClustersSound'
<1> DEFINE node == [inodes[op.dir] EXCEPT !.size = CellsPerBlock, !.first = op.new]
<1>1. /\ pc = "entry" /\ Removing = 0 /\ UNCHANGED <<fat, inodes>> /\ op \in Operation
      /\ op.dir \in Inodes /\ inodes[op.dir] \in Inode
  BY DEF WriteEntry, Removing, TypeInv, TypeOK, OpTyped, Creating
<1>2. OwnedOnce' /\ ChainsInUse'
  BY <1>1, TablesKept DEF ClustersSound
<1>3. Return \/ (pc' = "dir_inode" /\ op' = [op EXCEPT !.node = node])
  BY DEF WriteEntry, Proceed
<1>4. CASE pc' = "dir_inode" /\ op' = [op EXCEPT !.node = node]
  <2>1. node.first = op.new
    BY <1>1 DEF Inode
  <2> HIDE DEF node
  <2>2. op'.node.first = op.new /\ op'.dir = op.dir
    BY <1>1, <1>4, <2>1 DEF Operation
  <2>3. InUse(op.new) /\ (op.new = inodes[op.dir].first \/ Unowned(op.new))
    BY <1>1 DEF ClustersSound, LocalsSound, EntryBlock
  <2>4. LocalsSound'
    BY <1>1, <1>4, <2>2, <2>3 DEF LocalsSound, NewHeld, EntryBlock, FileChain, Freeing,
       Writing, Extending, Held, InUse, Unowned
  <2> QED
    BY <1>2, <2>4 DEF ClustersSound
<1> QED
  BY <1>2, <1>3, <1>4, GivenUp DEF ClustersSound

LEMMA WriteDirInodeClusters ==
  ASSUME TypeInv, ClustersSound, WriteDirInode PROVE ClustersSound'
<1>1. pc = "dir_inode" /\ Removing = 0 /\ UNCHANGED fat /\ op.dir \in Inodes
  BY DEF WriteDirInode, Removing, TypeInv, OpTyped, Creating
<1>2. op.node.first = inodes[op.dir].first \/ Held(op.node.first)
  BY <1>1 DEF ClustersSound, LocalsSound, EntryBlock
<1>3. OwnedOnce' /\ ChainsInUse'
  BY <1>1, <1>2, PutInodeChains DEF TypeInv, ClustersSound, WriteDirInode
<1> QED
  BY <1>3, GivenUp DEF WriteDirInode, ClustersSound

LEMMA RemovePathClusters ==
  ASSUME TypeInv, ClustersSound, NEW p, NEW n, RemovePath(p, n) PROVE ClustersSound'
<1>1. pc = "idle" /\ Removing = 0 /\ UNCHANGED <<fat, inodes>>
  BY DEF RemovePath, AtPrompt, Removing, disk
<1>2. OwnedOnce' /\ ChainsInUse'
  BY <1>1, TablesKept DEF ClustersSound
<1>3. PICK t \in Inodes :
        /\ pc' = IF HasBlock(t) THEN "rm_free" ELSE "rm_inode"
        /\ op' = [NoOp EXCEPT !.dir = Walk(p), !.name = n, !.num = t,
                              !.cur = inodes[t].first]
  BY DEF RemovePath
<1>4. op'.num = t /\ op'.cur = inodes[t].first
  BY <1>3 DEF NoOp
<1>5. HasBlock(t) => InUse(inodes[t].first)
  BY <1>1, Sizes DEF ClustersSound, ChainsInUse, HeadsInUse, HasBlock
<1>6. LocalsSound'
  BY <1>1, <1>3, <1>4, <1>5 DEF LocalsSound, NewHeld, EntryBlock, FileChain, Freeing, Writing,
     Extending, InUse
<1> QED
  BY <1>2, <1>6 DEF ClustersSound

\* A chain is given back from its head: the cluster freed is the head, which
\* remove_path is about to forget, or nothing leads to it any more.
LEMMA ChainClusters ==
  ASSUME TypeInv, ClustersSound, FreeCluster, Sound' PROVE ClustersSound'
<1>1. /\ pc = "rm_free" /\ Removing = op.num /\ UNCHANGED inodes /\ op \in Operation
      /\ op.num \in Inodes /\ op.cur \in Clusters /\ TypeOK
  BY DEF FreeCluster, Removing, TypeInv, TypeOK, OpTyped, Deleting
<1>2. /\ HeadsApart /\ LinksApart /\ HeadsAreNoLinks /\ HeadsInUse /\ LinksInUse
      /\ op.cur = inodes[op.num].first \/ Unowned(op.cur)
  BY <1>1 DEF ClustersSound, OwnedOnce, ChainsInUse, LocalsSound, Freeing
<1>3. CASE \E w \in Outcomes :
             /\ PutFat(w, op.cur, FAT_FREE)
             /\ harm' = IF w.hit THEN harm ELSE harm \cup {"remove"}
             /\ op' = [op EXCEPT !.cur = fat[op.cur]]
             /\ pc' = IF fat[op.cur] \in {0, FAT_EOF} THEN "rm_inode" ELSE "rm_free"
  <2>1. /\ fat' = [fat EXCEPT ![op.cur] = FAT_FREE]
        /\ op' = [op EXCEPT !.cur = fat[op.cur]]
        /\ pc' = IF fat[op.cur] \in {0, FAT_EOF} THEN "rm_inode" ELSE "rm_free"
    BY <1>3 DEF PutFat, Sound
  <2>2. PICK c \in Clusters, i \in Inodes : c = op.cur /\ i = op.num
    BY <1>1
  <2>3. /\ \A d \in Clusters : fat'[d] = IF d = c THEN FAT_FREE ELSE fat[d]
        /\ op'.cur = fat[c] /\ op'.num = i /\ Removing' = i
    BY <1>1, <2>1, <2>2 DEF TypeOK, Chained, Operation, Removing
  <2>4. FAT_FREE \notin Clusters
    BY EofIsNoCluster
  <2>5. HeadsApart' /\ LinksApart' /\ HeadsAreNoLinks'
    <3>1. HeadsApart'
      BY <1>1, <1>2 DEF HeadsApart
    <3>2. LinksApart'
      BY <1>2, <2>3, <2>4 DEF LinksApart
    <3>3. HeadsAreNoLinks'
      BY <1>1, <1>2, <2>3, <2>4 DEF HeadsAreNoLinks
    <3> QED
      BY <3>1, <3>2, <3>3
  <2>6. HeadsInUse'
    <3> SUFFICES ASSUME NEW j \in Inodes, j # i, (inodes[j].first # 0)'
                 PROVE  InUse(inodes[j].first)'
      BY <2>3, Zenon DEF HeadsInUse
    <3>1. inodes[j].first \in Clusters /\ fat[inodes[j].first] # FAT_FREE
      BY <1>1, <1>2, <2>2 DEF HeadsInUse, InUse
    <3>2. inodes[j].first # c
      BY <1>1, <1>2, <2>2 DEF HeadsApart, Unowned
    <3> QED
      BY <1>1, <2>3, <3>1, <3>2 DEF InUse
  <2>7. LinksInUse'
    <3> SUFFICES ASSUME NEW d \in Clusters, (fat[d] \in Clusters)'
                 PROVE  InUse(fat[d])'
      BY Zenon DEF LinksInUse
    <3>1. d # c /\ fat'[d] = fat[d] /\ fat[d] \in Clusters
      BY <2>3, <2>4
    <3>2. fat[fat[d]] # FAT_FREE
      BY <1>2, <3>1 DEF LinksInUse, InUse
    <3>3. fat[d] # c
      BY <1>2, <2>2, <3>1 DEF HeadsAreNoLinks, Unowned
    <3> QED
      BY <2>3, <3>1, <3>2, <3>3 DEF InUse
  <2>8. pc' = "rm_free" => Unowned(op.cur)'
    <3> SUFFICES ASSUME pc' = "rm_free" PROVE Unowned(op.cur)'
      OBVIOUS
    <3>1. fat[c] \in Clusters /\ fat[c] # FAT_FREE
      BY <1>1, <2>1, <2>2 DEF TypeOK, Chained, FAT_FREE
    <3>2. \A j \in Inodes : inodes'[j].first # fat[c]
      BY <1>1, <1>2, <3>1 DEF HeadsAreNoLinks
    <3>3. \A d \in Clusters : fat'[d] # fat[c]
      BY <1>2, <2>3, <3>1 DEF LinksApart
    <3> QED
      BY <2>3, <3>2, <3>3 DEF Unowned
  <2>9. LocalsSound'
    BY <2>1, <2>8 DEF LocalsSound, NewHeld, EntryBlock, FileChain, Freeing, Writing,
       Extending
  <2> QED
    BY <2>5, <2>6, <2>7, <2>9 DEF ClustersSound, OwnedOnce, ChainsInUse
<1>4. CASE pc' = "rm_inode" /\ UNCHANGED <<fat, op>>
  <2>1. Removing' = Removing
    BY <1>1, <1>4 DEF Removing
  <2>2. LocalsSound'
    BY <1>4, LocalsSettled DEF Steps, Extending
  <2> QED
    BY <1>1, <1>4, <2>1, <2>2, TablesKept DEF ClustersSound
<1> QED
  BY <1>3, <1>4 DEF FreeCluster

LEMMA FreeInodeClusters ==
  ASSUME TypeInv, ClustersSound, FreeInode, Sound' PROVE ClustersSound'
<1>1. /\ pc = "rm_inode" /\ Removing = op.num /\ UNCHANGED fat /\ op.num \in Inodes
      /\ inodes \in [Inodes -> Inode]
  BY DEF FreeInode, Removing, TypeInv, TypeOK, OpTyped, Deleting
<1>2. PICK w \in Outcomes :
        /\ PutInode(w, op.num, ZeroInode) /\ Proceed(w, "rm_entry", op)
        /\ harm' = IF w.ok THEN harm
                   ELSE harm \cup Exposed \cup (IF w.hit THEN {"remove"} ELSE {})
  BY DEF FreeInode
<1>3. HeadsApart /\ LinksApart /\ HeadsAreNoLinks /\ HeadsInUse /\ LinksInUse
  BY DEF ClustersSound, OwnedOnce, ChainsInUse
<1>4. PICK i \in Inodes : i = op.num
  BY <1>1
<1>5. /\ \A j \in Inodes \ {i} : inodes'[j] = inodes[j]
      /\ inodes'[i].first = 0
  <2>1. CASE w.ok
    BY <1>1, <1>2, <1>4, <2>1, OutcomeType DEF PutInode, ZeroInode
  <2>2. CASE ~w.ok
    <3>1. "remove" \notin harm'
      BY DEF Sound
    <3>2. ~w.hit /\ inodes[i].first = 0
      BY <1>1, <1>2, <1>4, <2>2, <3>1 DEF Exposed
    <3> QED
      BY <1>2, <3>2 DEF PutInode
  <2> QED
    BY <2>1, <2>2
<1>6. HeadsApart'
  <2> SUFFICES ASSUME NEW j \in Inodes, NEW k \in Inodes,
                      (inodes[j].first # 0)', (inodes[j].first = inodes[k].first)'
               PROVE  j = k
    BY Zenon DEF HeadsApart
  <2> QED
    BY <1>3, <1>5 DEF HeadsApart
<1>7. LinksApart' /\ LinksInUse'
  <2>1. LinksApart'
    BY <1>1, <1>3 DEF LinksApart
  <2>2. LinksInUse'
    BY <1>1, <1>3 DEF LinksInUse, InUse
  <2> QED
    BY <2>1, <2>2
<1>8. HeadsAreNoLinks'
  <2> SUFFICES ASSUME NEW j \in Inodes, NEW c \in Clusters, (fat[c] \in Clusters)'
               PROVE  (inodes[j].first # fat[c])'
    BY Zenon DEF HeadsAreNoLinks
  <2> QED
    BY <1>1, <1>3, <1>5, Sizes DEF HeadsAreNoLinks
<1>9. HeadsInUse'
  <2> SUFFICES ASSUME NEW j \in Inodes, (inodes[j].first # 0)'
               PROVE  InUse(inodes[j].first)'
    BY Zenon DEF HeadsInUse
  <2> QED
    BY <1>1, <1>3, <1>4, <1>5 DEF HeadsInUse, InUse
<1>10. LocalsSound'
  <2>1. Return \/ (pc' = "rm_entry" /\ op' = op)
    BY <1>2 DEF Proceed
  <2>2. CASE pc' = "rm_entry" /\ op' = op
    BY <1>4, <1>5, <2>2 DEF LocalsSound, NewHeld, EntryBlock, FileChain, Freeing, Writing,
       Extending
  <2> QED
    BY <2>1, <2>2, GivenUp
<1> QED
  BY <1>6, <1>7, <1>8, <1>9, <1>10 DEF ClustersSound, OwnedOnce, ChainsInUse

LEMMA RemoveEntryClusters ==
  ASSUME TypeInv, ClustersSound, RemoveEntry PROVE ClustersSound'
<1>1. /\ pc = "rm_entry" /\ Removing = op.num /\ op.num \in Inodes /\ op \in Operation
      /\ UNCHANGED <<fat, inodes>>
  BY DEF RemoveEntry, Removing, TypeInv, TypeOK, OpTyped, Deleting
<1>2. ChainsInUse'
  <2>1. inodes[op.num].first = 0 /\ HeadsInUse
    BY <1>1 DEF ClustersSound, LocalsSound, Freeing, ChainsInUse
  <2>2. HeadsInUse'
    <3> SUFFICES ASSUME NEW j \in Inodes, (inodes[j].first # 0)'
                 PROVE  InUse(inodes[j].first)'
      BY Zenon DEF HeadsInUse
    <3> QED
      BY <1>1, <2>1 DEF HeadsInUse, InUse
  <2>3. LinksInUse'
    BY <1>1 DEF ClustersSound, ChainsInUse, LinksInUse, InUse
  <2> QED
    BY <2>2, <2>3 DEF ChainsInUse
<1>3. OwnedOnce'
  BY <1>1, TablesKept DEF ClustersSound
<1>4. Return \/ (pc' = "dir_inode" /\ op' = [op EXCEPT !.node = inodes[op.dir]])
  BY DEF RemoveEntry, Proceed
<1>5. CASE pc' = "dir_inode" /\ op' = [op EXCEPT !.node = inodes[op.dir]]
  <2>1. op'.node = inodes[op.dir] /\ op'.dir = op.dir
    BY <1>1, <1>5 DEF Operation
  <2>2. LocalsSound'
    BY <1>1, <1>5, <2>1 DEF LocalsSound, NewHeld, EntryBlock, FileChain, Freeing, Writing,
       Extending
  <2> QED
    BY <1>2, <1>3, <2>2 DEF ClustersSound
<1> QED
  BY <1>2, <1>3, <1>4, <1>5, GivenUp DEF ClustersSound

LEMMA WriteFileClusters ==
  ASSUME TypeInv, ClustersSound, NEW p, NEW append, NEW len, WriteFile(p, append, len)
  PROVE  ClustersSound'
<1>1. pc = "idle" /\ Removing = 0 /\ UNCHANGED <<fat, inodes>>
  BY DEF WriteFile, AtPrompt, Removing, disk
<1>2. OwnedOnce' /\ ChainsInUse'
  BY <1>1, TablesKept DEF ClustersSound
<1>3. PICK i \in Inodes : \E idx, off :
        op' = [NoOp EXCEPT !.num = i, !.node = inodes[i], !.cur = inodes[i].first,
                           !.idx = idx, !.off = off, !.len = len]
  BY DEF WriteFile
<1>4. op'.num = i /\ op'.node = inodes[i] /\ op'.cur = inodes[i].first /\ pc' = "seek"
  BY <1>3 DEF NoOp, WriteFile
<1>5. inodes[i].first # 0 => InUse(inodes[i].first)
  BY <1>1, Sizes DEF ClustersSound, ChainsInUse, HeadsInUse
<1>6. LocalsSound'
  BY <1>1, <1>4, <1>5 DEF LocalsSound, NewHeld, EntryBlock, FileChain, Freeing, Writing,
     Extending, InUse
<1> QED
  BY <1>2, <1>6 DEF ClustersSound

\* What write_file knows while it extends a file.
LEMMA ExtendingClusters ==
  ASSUME TypeInv, ClustersSound, pc \in Extending
  PROVE  /\ TypeInv /\ TypeOK /\ op \in Operation /\ op.num \in Inodes /\ Removing = 0
         /\ op.node.first = inodes[op.num].first \/ Held(op.node.first)
         /\ op.node.first # 0 => InUse(op.cur) /\ InUse(op.node.first)
         /\ pc \in {"link", "first"} => Held(op.new) /\ op.new # op.node.first
<1>1. TypeInv /\ TypeOK /\ op \in Operation /\ op.num \in Inodes
  BY ExtendingType DEF TypeInv
<1>2. Removing = 0
  BY DEF Removing, Extending
<1>3. /\ op.node.first = inodes[op.num].first \/ Held(op.node.first)
      /\ op.node.first # 0 => InUse(op.cur)
      /\ pc \in {"link", "first"} => op.new # op.node.first
  BY DEF ClustersSound, LocalsSound, FileChain, Writing
<1>4. pc \in {"link", "first"} => Held(op.new)
  BY DEF ClustersSound, LocalsSound, NewHeld
<1>5. op.node.first # 0 => InUse(op.node.first)
  BY <1>1, <1>2, <1>3, Sizes DEF Held, ClustersSound, ChainsInUse, HeadsInUse
<1> QED
  BY <1>1, <1>2, <1>3, <1>4, <1>5

LEMMA SeekClusters == ASSUME TypeInv, ClustersSound, Seek PROVE ClustersSound'
<1>1. pc = "seek" /\ UNCHANGED <<fat, inodes>>
  BY DEF Seek, disk
<1>2. /\ TypeOK /\ op \in Operation /\ op.num \in Inodes /\ Removing = 0
      /\ op.node.first = inodes[op.num].first \/ Held(op.node.first)
      /\ op.node.first # 0 => InUse(op.cur)
  BY <1>1, ExtendingClusters DEF Extending
<1>3. OwnedOnce' /\ ChainsInUse'
  BY <1>1, <1>2, TablesKept DEF ClustersSound
<1>4. \/ pc' = "alloc" /\ op' \in {Fresh("first"), Fresh("link")}
      \/ /\ op.node.first # 0 /\ fat[op.cur] # FAT_EOF /\ pc' = "seek"
         /\ op' = [op EXCEPT !.cur = fat[op.cur], !.pos = @ + 1]
      \/ pc' = "data" /\ op' = op
  BY DEF Seek
<1>5. op'.num = op.num /\ op'.node = op.node /\ pc' \in {"alloc", "seek", "data"}
  BY <1>2, <1>4 DEF Fresh, Operation
<1>6. op.node.first # 0 => InUse(op'.cur)
  <2>1. CASE op'.cur = op.cur
    BY <1>2, <2>1
  <2>2. CASE op.node.first # 0 /\ fat[op.cur] # FAT_EOF /\ op'.cur = fat[op.cur]
    <3>1. op.cur \in Clusters /\ fat[op.cur] # FAT_FREE
      BY <1>2, <2>2 DEF InUse
    <3>2. fat[op.cur] \in Clusters
      BY <1>2, <2>2, <3>1 DEF TypeOK, Chained, FAT_FREE
    <3> QED
      BY <2>2, <3>1, <3>2 DEF ClustersSound, ChainsInUse, LinksInUse
  <2> QED
    BY <1>2, <1>4, <2>1, <2>2 DEF Fresh, Operation
<1>7. LocalsSound'
  BY <1>1, <1>2, <1>5, <1>6 DEF LocalsSound, NewHeld, EntryBlock, FileChain, Freeing,
     Held, InUse, Unowned
<1> QED
  BY <1>3, <1>7 DEF ClustersSound

LEMMA SetFirstClusters == ASSUME TypeInv, ClustersSound, SetFirst PROVE ClustersSound'
<1>1. pc = "first" /\ pc' = "seek" /\ UNCHANGED <<fat, inodes>>
  BY DEF SetFirst, disk
<1>2. op \in Operation /\ op.node \in Inode /\ Removing = 0 /\ Held(op.new)
  BY <1>1, ExtendingClusters DEF Extending, Operation
<1>3. OwnedOnce' /\ ChainsInUse'
  BY <1>1, <1>2, TablesKept DEF ClustersSound
<1>4. op'.node.first = op.new /\ op'.cur = op.new
  BY <1>2 DEF SetFirst, Operation, Inode
<1>5. LocalsSound'
  BY <1>1, <1>2, <1>4 DEF LocalsSound, NewHeld, EntryBlock, FileChain, Freeing, Held, InUse,
     Unowned
<1> QED
  BY <1>3, <1>5 DEF ClustersSound

LEMMA LinkClusters == ASSUME TypeInv, ClustersSound, LinkCluster PROVE ClustersSound'
<1>1. pc = "link" /\ UNCHANGED inodes
  BY DEF LinkCluster
<1>2. /\ TypeOK /\ op \in Operation /\ op.num \in Inodes /\ Removing = 0
      /\ op.node.first = inodes[op.num].first \/ Held(op.node.first)
      /\ Held(op.new) /\ op.new # op.node.first
  BY <1>1, ExtendingClusters DEF Extending
<1>3. PICK w \in Outcomes :
        /\ PutFat(w, op.cur, op.new)
        /\ Proceed(w, "seek", [op EXCEPT !.cur = op.new, !.pos = @ + 1])
  BY DEF LinkCluster
<1>4. /\ OwnedOnce' /\ ChainsInUse'
      /\ \A d : InUse(d) => InUse(d)'
      /\ \A d : Unowned(d) /\ d # op.new => Unowned(d)'
  BY <1>1, <1>2, <1>3, PutFatChains DEF ClustersSound
<1>5. CASE w.ok
  <2>1. pc' = "seek" /\ op'.num = op.num /\ op'.node = op.node /\ op'.cur = op.new
    BY <1>2, <1>3, <1>5 DEF Proceed, Operation
  <2>2. PICK f, c : f = op.node.first /\ c = op.new
    OBVIOUS
  <2>3. (f = inodes[op.num].first \/ Held(f)') /\ InUse(c)'
    BY <1>2, <1>4, <2>2 DEF Held
  <2>4. LocalsSound'
    BY <1>1, <2>1, <2>2, <2>3 DEF LocalsSound, NewHeld, EntryBlock, FileChain, Freeing
  <2> QED
    BY <1>4, <2>4 DEF ClustersSound
<1> QED
  BY <1>3, <1>4, <1>5, GivenUp DEF Proceed, ClustersSound

LEMMA WriteDataClusters == ASSUME TypeInv, ClustersSound, WriteData PROVE ClustersSound'
<1>1. pc = "data" /\ UNCHANGED <<fat, inodes>>
  BY DEF WriteData
<1>2. /\ TypeOK /\ op \in Operation /\ op.num \in Inodes /\ Removing = 0
      /\ op.node.first = inodes[op.num].first \/ Held(op.node.first)
      /\ op.node.first # 0 => InUse(op.cur) /\ InUse(op.node.first)
  BY <1>1, ExtendingClusters DEF Extending
<1>3. OwnedOnce' /\ ChainsInUse'
  BY <1>1, <1>2, TablesKept DEF ClustersSound
<1>4. \/ Return
      \/ pc' = "size" /\ op' = op
      \/ /\ pc' = "seek"
         /\ op' = [op EXCEPT !.idx = @ + 1, !.pos = 0, !.cur = op.node.first]
  BY DEF WriteData, Proceed
<1>5. CASE pc' \in {"seek", "size"} /\ ~Return
  <2>1. /\ op'.num = op.num /\ op'.node = op.node
        /\ op'.cur \in {op.cur, op.node.first}
    BY <1>2, <1>4, <1>5 DEF Operation
  <2>2. LocalsSound'
    BY <1>1, <1>2, <1>5, <2>1 DEF LocalsSound, NewHeld, EntryBlock, FileChain, Freeing, Held,
       InUse, Unowned
  <2> QED
    BY <1>3, <2>2 DEF ClustersSound
<1> QED
  BY <1>3, <1>4, <1>5, GivenUp DEF ClustersSound

LEMMA WriteSizeClusters == ASSUME TypeInv, ClustersSound, WriteSize PROVE ClustersSound'
<1>1. pc = "size" /\ UNCHANGED fat /\ Return
  BY DEF WriteSize
<1>2. /\ TypeOK /\ op \in Operation /\ op.node \in Inode /\ op.num \in Inodes /\ Removing = 0
      /\ op.node.first = inodes[op.num].first \/ Held(op.node.first)
  BY <1>1, ExtendingClusters DEF Extending, Operation
<1>3. PICK w \in Outcomes : \E size : PutInode(w, op.num, [op.node EXCEPT !.size = size])
  BY DEF WriteSize
<1>4. PICK size : PutInode(w, op.num, [op.node EXCEPT !.size = size])
  BY <1>3
<1>5. [op.node EXCEPT !.size = size].first = op.node.first
  BY <1>2 DEF Inode
<1>6. OwnedOnce' /\ ChainsInUse'
  BY <1>1, <1>2, <1>4, <1>5, PutInodeChains DEF ClustersSound
<1> QED
  BY <1>1, <1>6, GivenUp DEF ClustersSound

\* Losing power forgets what was held, and what was half removed is harm.
LEMMA PowerLossClusters ==
  ASSUME TypeInv, ClustersSound, PowerLoss, Sound' PROVE ClustersSound'
<1>1. UNCHANGED <<fat, inodes>> /\ pc' = "mount" /\ harm' = harm \cup Exposed
  BY DEF PowerLoss, disk
<1>2. LocalsSound'
  BY <1>1, LocalsSettled DEF Steps, Extending
<1>3. "remove" \notin Exposed
  BY <1>1 DEF Sound
<1>4. OwnedOnce'
  BY <1>1, TablesKept DEF ClustersSound
<1>5. CASE Removing = 0
  BY <1>1, <1>2, <1>4, <1>5, TablesKept DEF ClustersSound
<1>6. CASE Removing # 0
  <2>1. /\ Removing = op.num /\ op.num \in Inodes
        /\ \/ pc = "rm_free" /\ inodes[op.num].first = op.cur
           \/ pc = "rm_inode" /\ inodes[op.num].first = 0
    BY <1>3, <1>6 DEF Removing, Exposed, TypeInv, OpTyped, Deleting
  <2>2. inodes[op.num].first # 0 => InUse(inodes[op.num].first)
    <3>1. CASE pc = "rm_free"
      <4>1. \/ op.cur = inodes[op.num].first /\ InUse(op.cur)
            \/ Unowned(op.cur)
        BY <3>1 DEF ClustersSound, LocalsSound, Freeing
      <4> QED
        BY <2>1, <3>1, <4>1 DEF Unowned
    <3> QED
      BY <2>1, <3>1
  <2>3. HeadsInUse'
    <3> SUFFICES ASSUME NEW j \in Inodes, (inodes[j].first # 0)'
                 PROVE  InUse(inodes[j].first)'
      BY Zenon DEF HeadsInUse
    <3> QED
      BY <1>1, <2>1, <2>2 DEF ClustersSound, ChainsInUse, HeadsInUse, InUse
  <2>4. LinksInUse'
    BY <1>1 DEF ClustersSound, ChainsInUse, LinksInUse, InUse
  <2> QED
    BY <1>2, <1>4, <2>3, <2>4 DEF ClustersSound, ChainsInUse
<1> QED
  BY <1>5, <1>6

\* A formatted disk has a root without a cluster, and nothing else.
LEMMA FormatRootClusters ==
  ASSUME TypeInv, Formatted, FormatRoot, Sound' PROVE ClustersSound'
<1>1. /\ pc = "fmt_root" /\ UNCHANGED fat /\ inodes \in [Inodes -> Inode]
      /\ \A c \in Clusters : fat[c] = FAT_FREE
      /\ \A i \in Inodes : inodes[i] = ZeroInode
  BY DEF FormatRoot, Formatted, TypeInv, TypeOK
<1>2. PICK w \in Outcomes :
        /\ PutInode(w, Root, [ZeroInode EXCEPT !.type = DirType])
        /\ Proceed(w, "alloc", [NoOp EXCEPT !.dir = Root, !.num = Root, !.ret = "dots"])
        /\ harm' = IF w.ok THEN {} ELSE harm \cup Exposed
  BY DEF FormatRoot
<1>3. w.ok
  BY <1>1, <1>2 DEF Exposed, Formatting, Sound
<1>4. pc' = "alloc" /\ op'.ret = "dots"
  BY <1>2, <1>3 DEF Proceed, NoOp
<1>5. \A i \in Inodes : inodes'[i].first = 0
  BY <1>1, <1>2 DEF PutInode, ZeroInode
<1>6. \A c \in Clusters : fat'[c] \notin Clusters
  BY <1>1, EofIsNoCluster
<1>7. HeadsApart' /\ HeadsInUse'
  <2>1. HeadsApart'
    BY <1>5 DEF HeadsApart
  <2>2. HeadsInUse'
    BY <1>5 DEF HeadsInUse
  <2> QED
    BY <2>1, <2>2
<1>8. LinksApart' /\ HeadsAreNoLinks' /\ LinksInUse'
  <2>1. LinksApart'
    BY <1>6 DEF LinksApart
  <2>2. HeadsAreNoLinks'
    BY <1>6 DEF HeadsAreNoLinks
  <2>3. LinksInUse'
    BY <1>6 DEF LinksInUse
  <2> QED
    BY <2>1, <2>2, <2>3
<1> QED
  BY <1>4, <1>7, <1>8, LocalsSettled DEF ClustersSound, OwnedOnce, ChainsInUse

\* A command is one of four.
LEMMA CommandKinds ==
  ASSUME Command
  PROVE  \E p : \/ \E n \in Names, k \in {FileType, DirType} : Create(p, n, k)
                \/ \E n \in Names, k \in {FileType, DirType} : CreateUnseen(p, n, k)
                \/ \E n \in Names : RemovePath(p, n)
                \/ \E append \in BOOLEAN, len \in Lengths : WriteFile(p, append, len)
  BY Zenon DEF Command

\* What each of them does to where the kernel is, and to the record of harm.
LEMMA CommandStarts ==
  ASSUME Command
  PROVE  /\ AtPrompt /\ pc' \in {"mark", "idle", "rm_free", "rm_inode", "seek"}
         /\ harm \subseteq harm'
<1>1. PICK p : \/ \E n \in Names, k \in {FileType, DirType} : Create(p, n, k)
               \/ \E n \in Names, k \in {FileType, DirType} : CreateUnseen(p, n, k)
               \/ \E n \in Names : RemovePath(p, n)
               \/ \E append \in BOOLEAN, len \in Lengths : WriteFile(p, append, len)
  BY CommandKinds
<1>2. ASSUME NEW n, NEW k, Create(p, n, k)
      PROVE  AtPrompt /\ pc' \in {"mark", "idle"} /\ harm \subseteq harm'
  BY <1>2 DEF Create, TakeInode, Proceed, Return, Keep
<1>3. ASSUME NEW n, NEW k, CreateUnseen(p, n, k)
      PROVE  AtPrompt /\ pc' = "mark" /\ harm \subseteq harm'
  BY <1>3 DEF CreateUnseen
<1>4. ASSUME NEW n, RemovePath(p, n)
      PROVE  AtPrompt /\ pc' \in {"rm_free", "rm_inode"} /\ harm \subseteq harm'
  BY <1>4 DEF RemovePath, Keep
<1>5. ASSUME NEW append, NEW len, WriteFile(p, append, len)
      PROVE  AtPrompt /\ pc' = "seek" /\ harm \subseteq harm'
  BY <1>5 DEF WriteFile, Keep
<1> QED
  BY <1>1, <1>2, <1>3, <1>4, <1>5

\* format() clears the FAT, then the inodes, before it makes the root.
LEMMA NextFormatted == ASSUME TypeInv, Formatted, [Next]_vars PROVE Formatted'
<1>1. CASE pc' \notin {"fmt_inodes", "fmt_reserved", "fmt_root"}
  BY <1>1 DEF Formatted
<1>2. CASE FormatFat
  <2>1. pc' = "fmt_inodes" => fat' = [c \in Chained |-> FAT_FREE]
    BY <1>2, OutcomeType DEF FormatFat, Proceed, Return
  <2>2. pc' \notin {"fmt_reserved", "fmt_root"}
    BY <1>2 DEF FormatFat, Proceed, Return
  <2> QED
    BY <2>1, <2>2 DEF Formatted, Chained
<1>3. CASE FormatInodes
  <2>1. pc' = "fmt_reserved" => inodes' = [i \in Inodes |-> ZeroInode]
    BY <1>3, OutcomeType DEF FormatInodes, Proceed, Return
  <2>2. pc = "fmt_inodes" /\ UNCHANGED fat
    BY <1>3 DEF FormatInodes
  <2>3. pc' \notin {"fmt_inodes", "fmt_root"}
    BY <1>3 DEF FormatInodes, Proceed, Return
  <2> QED
    BY <2>1, <2>2, <2>3 DEF Formatted
<1>4. CASE FormatReserved
  <2>1. /\ pc = "fmt_reserved" /\ UNCHANGED inodes
        /\ \A c \in Clusters : fat'[c] = fat[c]
    BY <1>4, EofIsNoCluster DEF FormatReserved, PutFat, TypeInv, TypeOK, Chained, FAT_FREE
  <2> QED
    BY <2>1 DEF Formatted
<1>5. CASE UNCHANGED vars
  BY <1>5 DEF vars, disk, memory, Formatted
<1>6. CASE Mount \/ FormatSuperblock \/ FormatRoot \/ Remount \/ EnsureDir
  <2>1. pc' \in {"idle", "fmt_sb", "fmt_fat", "alloc", "mark"}
    BY <1>6 DEF Mount, FormatSuperblock, FormatRoot, Remount, EnsureDir, TakeInode, Proceed,
       Return
  <2> QED
    BY <1>1, <2>1
<1>7. CASE Continue
  <2>1. pc' \notin {"fmt_inodes", "fmt_reserved", "fmt_root"}
    <3>1. CASE AllocCluster \/ ZeroCluster
      BY <3>1 DEF AllocCluster, ZeroCluster, Proceed, Return, TypeInv, TypeOK, Operation
    <3>2. CASE MarkInode \/ WriteDots \/ WriteDotsInode \/ AddEntryStart \/ WriteEntry
               \/ WriteDirInode
      BY <3>2 DEF MarkInode, WriteDots, WriteDotsInode, AddEntryStart, WriteEntry,
         WriteDirInode, Proceed, Return
    <3>3. CASE FreeCluster \/ FreeInode \/ RemoveEntry
      BY <3>3 DEF FreeCluster, FreeInode, RemoveEntry, Proceed, Return
    <3>4. CASE Seek \/ SetFirst \/ LinkCluster \/ WriteData \/ WriteSize
      BY <3>4 DEF Seek, SetFirst, LinkCluster, WriteData, WriteSize, Proceed, Return
    <3> QED
      BY <1>7, <3>1, <3>2, <3>3, <3>4 DEF Continue
  <2> QED
    BY <1>1, <2>1
<1>8. CASE Command \/ PowerLoss
  <2>1. pc' \in {"mark", "idle", "rm_free", "rm_inode", "seek", "mount"}
    BY <1>8, CommandStarts DEF PowerLoss
  <2> QED
    BY <1>1, <2>1
<1> QED
  BY <1>2, <1>3, <1>4, <1>5, <1>6, <1>7, <1>8 DEF Next, Boot

\* Harm grows, except when format() has made a new root.
LEMMA HarmGrows ==
  ASSUME [Next]_vars, Sound', ~FormatRoot PROVE Sound
<1>1. harm \subseteq harm'
  <2>1. CASE Boot
    BY <2>1 DEF Boot, Mount, FormatSuperblock, FormatFat, FormatInodes, FormatReserved,
       Remount, EnsureDir, Keep
  <2>2. CASE Continue
    BY <2>2 DEF Continue, AllocCluster, ZeroCluster, MarkInode, WriteDots, WriteDotsInode,
       AddEntryStart, WriteEntry, WriteDirInode, FreeCluster, FreeInode, RemoveEntry, Seek,
       SetFirst, LinkCluster, WriteData, WriteSize, Keep
  <2>3. CASE Command
    BY <2>3, CommandStarts
  <2>4. CASE PowerLoss
    BY <2>4 DEF PowerLoss
  <2>5. CASE UNCHANGED vars
    BY <2>5 DEF vars, history
  <2> QED
    BY <2>1, <2>2, <2>3, <2>4, <2>5 DEF Next
<1>2. ~Formatting
  <2> SUFFICES ASSUME Formatting PROVE FALSE
    OBVIOUS
  <2>1. "format" \notin harm' /\ ~Formatting'
    BY DEF Sound
  <2>2. pc \in {"fmt_fat", "fmt_inodes", "fmt_reserved", "fmt_root"} /\ "format" \in Exposed
    BY DEF Formatting, Exposed
  <2>3. ~Boot
    BY <2>1, <2>2 DEF Boot, Mount, FormatSuperblock, FormatFat, FormatInodes, FormatReserved,
       Remount, EnsureDir, Proceed, Formatting
  <2>4. ~Continue
    BY <2>2 DEF Continue, AllocCluster, ZeroCluster, MarkInode, WriteDots, WriteDotsInode,
       AddEntryStart, WriteEntry, WriteDirInode, FreeCluster, FreeInode, RemoveEntry, Seek,
       SetFirst, LinkCluster, WriteData, WriteSize
  <2>5. ~Command
    BY <2>2, CommandStarts DEF AtPrompt
  <2>6. ~PowerLoss
    BY <2>1, <2>2 DEF PowerLoss
  <2>7. ~UNCHANGED vars
    BY <2>1, <2>2 DEF vars, memory, Formatting
  <2> QED
    BY <2>3, <2>4, <2>5, <2>6, <2>7 DEF Next
<1> QED
  BY <1>1, <1>2, SoundBefore

-----------------------------------------------------------------------------
LEMMA InitClusters == Init => ClusterInv
<1> SUFFICES ASSUME Init PROVE ClusterInv
  OBVIOUS
<1>1. /\ pc = "mount" /\ Removing = 0
      /\ \A i \in Inodes : inodes[i].first = 0
      /\ \A c \in Clusters : fat[c] \notin Clusters
  BY EofIsNoCluster DEF Init, Chained, ZeroInode, Removing
<1>2. OwnedOnce
  <2>1. HeadsApart
    BY <1>1 DEF HeadsApart
  <2>2. LinksApart
    BY <1>1 DEF LinksApart
  <2>3. HeadsAreNoLinks
    BY <1>1 DEF HeadsAreNoLinks
  <2> QED
    BY <2>1, <2>2, <2>3 DEF OwnedOnce
<1>3. ChainsInUse
  <2>1. HeadsInUse
    BY <1>1 DEF HeadsInUse
  <2>2. LinksInUse
    BY <1>1 DEF LinksInUse
  <2> QED
    BY <2>1, <2>2 DEF ChainsInUse
<1>4. LocalsSound /\ Formatted
  BY <1>1 DEF LocalsSound, NewHeld, EntryBlock, FileChain, Freeing, Writing, Extending,
     Formatted
<1> QED
  BY <1>2, <1>3, <1>4 DEF ClusterInv, ClustersSound

\* One case per action.
LEMMA NextClusters == ASSUME TypeInv, ClusterInv, [Next]_vars PROVE ClusterInv'
<1>1. Formatted'
  BY NextFormatted DEF ClusterInv
<1> SUFFICES ASSUME Sound' PROVE ClustersSound'
  BY <1>1 DEF ClusterInv
<1>2. CASE FormatRoot
  BY <1>2, FormatRootClusters DEF ClusterInv
<1>3. CASE ~FormatRoot
  <2>1. ClustersSound /\ ~Formatting
    BY <1>3, HarmGrows DEF ClusterInv, Sound
  <2>2. CASE Boot
    <3>1. ~FormatFat /\ ~FormatInodes /\ ~FormatReserved
      BY <2>1 DEF FormatFat, FormatInodes, FormatReserved, Formatting
    <3> QED
      BY <1>3, <2>1, <2>2, <3>1, BootClusters, EnsureClusters DEF Boot
  <2>3. CASE Continue
    BY <2>1, <2>3, AllocClusters, ZeroClusters, MarkClusters, WriteDotsClusters,
       WriteDotsInodeClusters, AddEntryClusters, WriteEntryClusters, WriteDirInodeClusters,
       ChainClusters, FreeInodeClusters, RemoveEntryClusters, SeekClusters,
       SetFirstClusters, LinkClusters, WriteDataClusters, WriteSizeClusters DEF Continue
  <2>4. CASE Command
    <3>1. \A p, n, k : ~CreateUnseen(p, n, k)
      BY DEF CreateUnseen, Sound
    <3> QED
      BY <2>1, <2>4, <3>1, CreateClusters, RemovePathClusters, WriteFileClusters DEF Command
  <2>5. CASE PowerLoss
    BY <2>1, <2>5, PowerLossClusters
  <2>6. CASE UNCHANGED vars
    <3>1. UNCHANGED <<fat, inodes, pc, op>>
      BY <2>6 DEF vars, disk, memory
    <3>2. LocalsSound'
      BY <2>1, <3>1 DEF ClustersSound, LocalsSound, NewHeld, EntryBlock, FileChain, Freeing,
         Writing, Held, InUse, Unowned
    <3> QED
      BY <2>1, <3>1, <3>2, TablesKept DEF ClustersSound, Removing
  <2> QED
    BY <2>2, <2>3, <2>4, <2>5, <2>6 DEF Next
<1> QED
  BY <1>2, <1>3

\* The inductive invariant holds in every reachable state.
THEOREM ClusterInvariant == Spec => [](TypeInv /\ ClusterInv)
<1>1. Init => TypeInv /\ ClusterInv
  BY InitType, InitClusters
<1>2. TypeInv /\ ClusterInv /\ [Next]_vars => (TypeInv /\ ClusterInv)'
  BY NextType, NextClusters
<1> QED
  BY <1>1, <1>2, PTL DEF Spec

\* remove_path, create_*, write_file and format(), interrupted anywhere but where
\* the harm is recorded, never leave a cluster with two owners: no file's blocks
\* are another's.
THEOREM NoClusterIsShared == Spec => []ClustersOwnedOnce
<1>1. TypeInv /\ ClusterInv => ClustersOwnedOnce
  <2> SUFFICES ASSUME ClustersSound PROVE
         /\ \A i, j \in Heads : inodes[i].first = inodes[j].first => i = j
         /\ \A c, d \in Links : fat[c] = fat[d] => c = d
         /\ \A i \in Heads, c \in Links : inodes[i].first # fat[c]
    BY DEF ClusterInv, ClustersOwnedOnce
  <2>1. \A i, j \in Heads : inodes[i].first = inodes[j].first => i = j
    BY DEF ClustersSound, OwnedOnce, HeadsApart, Heads
  <2>2. \A c, d \in Links : fat[c] = fat[d] => c = d
    BY DEF ClustersSound, OwnedOnce, LinksApart, Links
  <2>3. \A i \in Heads, c \in Links : inodes[i].first # fat[c]
    BY DEF ClustersSound, OwnedOnce, HeadsAreNoLinks, Heads, Links
  <2> QED
    BY <2>1, <2>2, <2>3
<1> QED
  BY <1>1, ClusterInvariant, PTL

\* The allocator never hands out a cluster that an inode or the FAT still leads
\* to: remove_path gives a chain back head first, and the inode after it.
THEOREM NoChainDangles == Spec => []NoDanglingChain
<1>1. TypeInv /\ ClusterInv => NoDanglingChain
  <2> SUFFICES ASSUME ClustersSound PROVE
         /\ \A i \in Heads \ {Removing} : fat[inodes[i].first] # FAT_FREE
         /\ \A c \in Links : fat[fat[c]] # FAT_FREE
    BY DEF ClusterInv, NoDanglingChain
  <2>1. \A i \in Heads \ {Removing} : fat[inodes[i].first] # FAT_FREE
    BY DEF ClustersSound, ChainsInUse, HeadsInUse, InUse, Heads
  <2>2. \A c \in Links : fat[fat[c]] # FAT_FREE
    BY DEF ClustersSound, ChainsInUse, LinksInUse, InUse, Links
  <2> QED
    BY <2>1, <2>2
<1> QED
  BY <1>1, ClusterInvariant, PTL

-----------------------------------------------------------------------------
(* The directories *)

CellAt(d, s) == blocks[inodes[d].first][s]

\* Slot s of directory d names a file or a directory.
Child(d, s) ==
  /\ d \in Inodes /\ s \in Slots /\ IsDir(d)
  /\ CellAt(d, s).inode # 0 /\ CellAt(d, s).name \in Names

Unlisted(i) == \A d \in Inodes, s \in Slots : Child(d, s) => CellAt(d, s).inode # i

NameFree(d, n) == \A s \in Slots : Child(d, s) => CellAt(d, s).name # n

\* The entries of inode i are in directory p and have the name n.
ListedOnlyAt(i, p, n) ==
  \A d \in Inodes, s \in Slots :
    Child(d, s) /\ CellAt(d, s).inode = i => d = p /\ CellAt(d, s).name = n

\* The block of directory t starts with itself and its parent d.
DotsOf(t, d) ==
  /\ IsDir(t)
  /\ CellAt(t, 1) = [inode |-> t, type |-> DirType, name |-> "."]
  /\ CellAt(t, 2) = [inode |-> d, type |-> DirType, name |-> ".."]

\* The inode remove_path has freed and whose entry it is about to clear.
Gone == IF pc = "rm_entry" THEN op.num ELSE 0

ChildrenLead ==
  \A d \in Inodes, s \in Slots :
    Child(d, s) => /\ CellAt(d, s).inode \in Inodes \ {Root}
                   /\ CellAt(d, s).type \in {FileType, DirType}

ChildrenAgree ==
  \A d, t \in Inodes, s \in Slots :
    Child(d, s) /\ CellAt(d, s).inode = t /\ t # Gone =>
      /\ inodes[t].type = CellAt(d, s).type
      /\ CellAt(d, s).type = DirType => DotsOf(t, d)

ListedOnce ==
  \A d, e \in Inodes, s, r \in Slots :
    Child(d, s) /\ Child(e, r) /\ CellAt(d, s).inode = CellAt(e, r).inode =>
      d = e /\ s = r

NamesApart ==
  \A d \in Inodes, s, r \in Slots :
    Child(d, s) /\ Child(d, r) /\ CellAt(d, s).name = CellAt(d, r).name => s = r

TreeOK == ChildrenLead /\ ChildrenAgree /\ ListedOnce /\ NamesApart

\* A disk that mounts, or has been formatted, has a directory for a root.
RootOK ==
  (mounted \/ blocks[0][1] = Magic \/ pc \notin {"mount", "fmt_sb", "idle"}) =>
    inodes[Root].type = DirType

-----------------------------------------------------------------------------
(* What the running operation knows. *)

InCreate(ret, steps) == pc \in steps \/ (pc \in {"alloc", "zero"} /\ op.ret = ret)
MakingDots == InCreate("dots", {"dots", "dots_inode"})
MakingEntry == InCreate("entry", {"entry"})
Adding == pc \in {"mark", "add"} \/ MakingDots \/ MakingEntry

\* The inode is of its kind, and a directory has its dots.
Ready == inodes[op.num].type = op.kind /\ (op.kind = DirType => DotsOf(op.num, op.dir))

\* create_* has an inode nobody lists and a name nobody in the directory has.
NewEntry ==
  Adding /\ op.name # "" =>
    /\ op.name \in Names /\ op.kind \in {FileType, DirType} /\ op.num # Root
    /\ Unlisted(op.num) /\ NameFree(op.dir, op.name)
    /\ MakingDots => op.kind = DirType
    /\ (pc = "add" \/ MakingEntry) => Ready

\* format() makes the dots of the root and adds no entry.
NewRoot == Adding /\ op.name = "" => MakingDots /\ op.num = Root

DotsWritten == pc = "dots_inode" => blocks[op.new] = DotEntries(op.num, op.dir)

NoChildIn(b) == \A s \in Slots : blocks[b][s].name \notin Names

\* The entry goes to the block of the directory, or the directory has none.
EntryPlace ==
  MakingEntry =>
    /\ inodes[op.dir].type = DirType
    /\ pc = "entry" => \/ op.new = inodes[op.dir].first
                       \/ ~HasBlock(op.dir) /\ NoChildIn(op.new)
    /\ pc # "entry" => ~HasBlock(op.dir)

EntryWritten ==
  pc = "dir_inode" =>
    /\ op.node.type = DirType /\ inodes[op.dir].type = DirType
    /\ op.node.first # inodes[op.dir].first =>
         /\ ~HasBlock(op.dir)
         /\ op.name \in Names /\ op.kind \in {FileType, DirType} /\ op.num # Root
         /\ Unlisted(op.num) /\ Ready
         /\ \E s \in Slots :
              /\ blocks[op.node.first][s]
                   = [inode |-> op.num, type |-> op.kind, name |-> op.name]
              /\ \A r \in Slots \ {s} : blocks[op.node.first][r].name \notin Names

\* remove_path has an inode with no entry but the one it was named by.
Leaving ==
  pc \in Deleting =>
    op.num # Root /\ op.name \in Names /\ ListedOnlyAt(op.num, op.dir, op.name)

\* write_file writes to the blocks of no directory.
FileKept ==
  Writing =>
    /\ inodes[op.num].type = FileType /\ op.node.type = FileType
    /\ pc = "data" => op.node.first # 0
    /\ op.node.first # 0 =>
         \A i \in Inodes :
           inodes[i].type = DirType => inodes[i].first \notin {op.cur, op.node.first}

TreeLocals ==
  NewEntry /\ NewRoot /\ DotsWritten /\ EntryPlace /\ EntryWritten /\ Leaving /\ FileKept

TreeSound == TreeOK /\ RootOK /\ TreeLocals

\* The layout is ensured after the mount.
LayoutMounted == todo # <<>> => mounted

TreeInv == LayoutMounted /\ (Sound => TreeSound)

-----------------------------------------------------------------------------
(* What a step does to the tree. *)

LEMMA NamesPlain == "" \notin Names /\ "." \notin Names /\ ".." \notin Names
  BY Zenon, NameAssumption

\* A blank block and the block of a new directory list nothing.
LEMMA BlankBlocks == \A s \in Slots : ZeroBlock[s].name = ""
  BY DEF ZeroBlock, ZeroCell

LEMMA DotCells ==
  ASSUME NEW i, NEW p
  PROVE  /\ \A s \in Slots : DotEntries(i, p)[s].name \in {"", ".", ".."}
         /\ DotEntries(i, p)[1] = [inode |-> i, type |-> DirType, name |-> "."]
         /\ DotEntries(i, p)[2] = [inode |-> p, type |-> DirType, name |-> ".."]
  BY Sizes DEF DotEntries, ZeroCell

\* Directory d reads as before.
Kept(d) ==
  /\ IsDir(d)' <=> IsDir(d)
  /\ IsDir(d) => \A s \in Slots : CellAt(d, s)' = CellAt(d, s)

LEMMA KeptReads ==
  ASSUME NEW d, Kept(d)
  PROVE  /\ \A s : Child(d, s)' <=> Child(d, s)
         /\ \A s : Child(d, s) => CellAt(d, s)' = CellAt(d, s)
         /\ \A p : DotsOf(d, p) => DotsOf(d, p)'
<1>1. \A s : Child(d, s)' <=> Child(d, s)
  BY DEF Kept, Child
<1>2. \A s : Child(d, s) => CellAt(d, s)' = CellAt(d, s)
  BY DEF Kept, Child
<1>3. \A p : DotsOf(d, p) => DotsOf(d, p)'
  BY Sizes DEF Kept, DotsOf
<1> QED
  BY <1>1, <1>2, <1>3

\* Entries may be lost; those that stay lead where they led.
LEMMA TreeShrinks ==
  ASSUME TreeOK,
         \A d \in Inodes, s \in Slots :
           Child(d, s)' => Child(d, s) /\ CellAt(d, s)' = CellAt(d, s),
         \A d, t \in Inodes, s \in Slots :
           Child(d, s)' /\ CellAt(d, s).inode = t /\ t # Gone' =>
             /\ t # Gone /\ inodes'[t].type = inodes[t].type
             /\ DotsOf(t, d) => DotsOf(t, d)'
  PROVE  TreeOK'
<1>1. ChildrenLead'
  <2> SUFFICES ASSUME NEW d \in Inodes, NEW s \in Slots, Child(d, s)'
               PROVE  /\ CellAt(d, s)'.inode \in Inodes \ {Root}
                      /\ CellAt(d, s)'.type \in {FileType, DirType}
    BY Zenon DEF ChildrenLead
  <2>1. Child(d, s) /\ CellAt(d, s)' = CellAt(d, s)
    OBVIOUS
  <2> QED
    BY <2>1 DEF TreeOK, ChildrenLead
<1>2. ChildrenAgree'
  <2> SUFFICES ASSUME NEW d \in Inodes, NEW t \in Inodes, NEW s \in Slots,
                      Child(d, s)', CellAt(d, s)'.inode = t, t # Gone'
               PROVE  /\ inodes'[t].type = CellAt(d, s)'.type
                      /\ CellAt(d, s)'.type = DirType => DotsOf(t, d)'
    BY Zenon DEF ChildrenAgree
  <2>1. Child(d, s) /\ CellAt(d, s)' = CellAt(d, s)
    OBVIOUS
  <2>2. /\ t # Gone /\ inodes'[t].type = inodes[t].type
        /\ DotsOf(t, d) => DotsOf(t, d)'
    BY <2>1
  <2> QED
    BY <2>1, <2>2 DEF TreeOK, ChildrenAgree
<1>3. ListedOnce'
  <2> SUFFICES ASSUME NEW d \in Inodes, NEW e \in Inodes, NEW s \in Slots, NEW r \in Slots,
                      Child(d, s)', Child(e, r)', CellAt(d, s)'.inode = CellAt(e, r)'.inode
               PROVE  d = e /\ s = r
    BY Zenon DEF ListedOnce
  <2> QED
    BY DEF TreeOK, ListedOnce
<1>4. NamesApart'
  <2> SUFFICES ASSUME NEW d \in Inodes, NEW s \in Slots, NEW r \in Slots,
                      Child(d, s)', Child(d, r)', CellAt(d, s)'.name = CellAt(d, r)'.name
               PROVE  s = r
    BY Zenon DEF NamesApart
  <2> QED
    BY DEF TreeOK, NamesApart
<1> QED
  BY <1>1, <1>2, <1>3, <1>4 DEF TreeOK

\* Every directory reads as before or has lost its entries.
LEMMA TreeKept ==
  ASSUME TreeOK,
         \A d \in Inodes : Kept(d) \/ \A s \in Slots : ~Child(d, s)',
         \A t \in Inodes : ~Unlisted(t) /\ t # Gone' =>
                             t # Gone /\ Kept(t) /\ inodes'[t].type = inodes[t].type
  PROVE  TreeOK'
<1>1. ASSUME NEW d \in Inodes, NEW s \in Slots, Child(d, s)'
      PROVE  Child(d, s) /\ CellAt(d, s)' = CellAt(d, s)
  BY <1>1, KeptReads
<1>2. ASSUME NEW d \in Inodes, NEW t \in Inodes, NEW s \in Slots,
             Child(d, s)', CellAt(d, s).inode = t, t # Gone'
      PROVE  /\ t # Gone /\ inodes'[t].type = inodes[t].type
             /\ DotsOf(t, d) => DotsOf(t, d)'
  <2>1. ~Unlisted(t)
    BY <1>1, <1>2 DEF Unlisted
  <2>2. t # Gone /\ Kept(t) /\ inodes'[t].type = inodes[t].type
    BY <1>2, <2>1
  <2> QED
    BY <2>2, KeptReads
<1> QED
  BY <1>1, <1>2, TreeShrinks

\* One entry is added, for an inode nobody lists, under a name that is free.
LEMMA TreeGrows ==
  ASSUME TreeOK, Gone = 0, Gone' = 0,
         NEW d \in Inodes, NEW s \in Slots, NEW i \in Inodes \ {Root},
         NEW k \in {FileType, DirType}, NEW n,
         \A e \in Inodes, r \in Slots :
           Child(e, r)' => \/ e = d /\ r = s
                           \/ Child(e, r) /\ CellAt(e, r)' = CellAt(e, r),
         CellAt(d, s)' = [inode |-> i, type |-> k, name |-> n],
         Unlisted(i), NameFree(d, n), inodes[i].type = k, k = DirType => DotsOf(i, d)',
         \A t \in Inodes : inodes'[t].type = inodes[t].type,
         \A t, e \in Inodes : DotsOf(t, e) => DotsOf(t, e)'
  PROVE  TreeOK'
<1>1. /\ CellAt(d, s)'.inode = i /\ CellAt(d, s)'.type = k /\ CellAt(d, s)'.name = n
  OBVIOUS
<1>2. ChildrenLead'
  <2> SUFFICES ASSUME NEW e \in Inodes, NEW r \in Slots, Child(e, r)'
               PROVE  /\ CellAt(e, r)'.inode \in Inodes \ {Root}
                      /\ CellAt(e, r)'.type \in {FileType, DirType}
    BY Zenon DEF ChildrenLead
  <2>1. CASE e = d /\ r = s
    BY <1>1, <2>1
  <2>2. CASE Child(e, r) /\ CellAt(e, r)' = CellAt(e, r)
    BY <2>2 DEF TreeOK, ChildrenLead
  <2> QED
    BY <2>1, <2>2
<1>3. ChildrenAgree'
  <2> SUFFICES ASSUME NEW e \in Inodes, NEW t \in Inodes, NEW r \in Slots,
                      Child(e, r)', CellAt(e, r)'.inode = t, t # Gone'
               PROVE  /\ inodes'[t].type = CellAt(e, r)'.type
                      /\ CellAt(e, r)'.type = DirType => DotsOf(t, e)'
    BY Zenon DEF ChildrenAgree
  <2>1. CASE e = d /\ r = s
    BY <1>1, <2>1
  <2>2. CASE Child(e, r) /\ CellAt(e, r)' = CellAt(e, r)
    <3>1. /\ inodes[t].type = CellAt(e, r).type
          /\ CellAt(e, r).type = DirType => DotsOf(t, e)
      BY <2>2 DEF TreeOK, ChildrenAgree
    <3> QED
      BY <2>2, <3>1
  <2> QED
    BY <2>1, <2>2
<1>4. ListedOnce'
  <2> SUFFICES ASSUME NEW a \in Inodes, NEW e \in Inodes, NEW q \in Slots, NEW r \in Slots,
                      Child(a, q)', Child(e, r)', CellAt(a, q)'.inode = CellAt(e, r)'.inode
               PROVE  a = e /\ q = r
    BY Zenon DEF ListedOnce
  <2>1. ASSUME NEW x \in Inodes, NEW y \in Slots, Child(x, y), CellAt(x, y)' = CellAt(x, y)
        PROVE  CellAt(x, y)'.inode # i
    BY <2>1 DEF Unlisted
  <2>2. CASE Child(a, q) /\ CellAt(a, q)' = CellAt(a, q) /\ Child(e, r)
             /\ CellAt(e, r)' = CellAt(e, r)
    BY <2>2 DEF TreeOK, ListedOnce
  <2> QED
    BY <1>1, <2>1, <2>2
<1>5. NamesApart'
  <2> SUFFICES ASSUME NEW e \in Inodes, NEW q \in Slots, NEW r \in Slots,
                      Child(e, q)', Child(e, r)', CellAt(e, q)'.name = CellAt(e, r)'.name
               PROVE  q = r
    BY Zenon DEF NamesApart
  <2>1. ASSUME NEW y \in Slots, Child(d, y), CellAt(d, y)' = CellAt(d, y)
        PROVE  CellAt(d, y)'.name # n
    BY <2>1 DEF NameFree
  <2>2. CASE Child(e, q) /\ CellAt(e, q)' = CellAt(e, q) /\ Child(e, r)
             /\ CellAt(e, r)' = CellAt(e, r)
    BY <2>2 DEF TreeOK, NamesApart
  <2> QED
    BY <1>1, <2>1, <2>2
<1> QED
  BY <1>2, <1>3, <1>4, <1>5 DEF TreeOK

LEMMA ListsKept ==
  ASSUME \A d \in Inodes, s \in Slots :
           Child(d, s)' => Child(d, s) /\ CellAt(d, s)' = CellAt(d, s)
  PROVE  /\ \A i : Unlisted(i) => Unlisted(i)'
         /\ \A d \in Inodes : \A n : NameFree(d, n) => NameFree(d, n)'
         /\ \A i, p, n : ListedOnlyAt(i, p, n) => ListedOnlyAt(i, p, n)'
<1>1. \A i : Unlisted(i) => Unlisted(i)'
  BY DEF Unlisted
<1>2. \A d \in Inodes : \A n : NameFree(d, n) => NameFree(d, n)'
  BY DEF NameFree
<1>3. \A i, p, n : ListedOnlyAt(i, p, n) => ListedOnlyAt(i, p, n)'
  BY DEF ListedOnlyAt
<1> QED
  BY <1>1, <1>2, <1>3

\* The same for a step that keeps every directory.
LEMMA AllKept ==
  ASSUME \A d \in Inodes : Kept(d)
  PROVE  /\ \A d \in Inodes, s \in Slots :
              Child(d, s)' => Child(d, s) /\ CellAt(d, s)' = CellAt(d, s)
         /\ \A d \in Inodes : \A p : DotsOf(d, p) => DotsOf(d, p)'
         /\ \A i : Unlisted(i) => Unlisted(i)'
         /\ \A d \in Inodes : \A n : NameFree(d, n) => NameFree(d, n)'
         /\ \A i, p, n : ListedOnlyAt(i, p, n) => ListedOnlyAt(i, p, n)'
<1>1. \A d \in Inodes, s \in Slots :
        Child(d, s)' => Child(d, s) /\ CellAt(d, s)' = CellAt(d, s)
  BY KeptReads
<1>2. \A d \in Inodes : \A p : DotsOf(d, p) => DotsOf(d, p)'
  BY KeptReads
<1> QED
  BY <1>1, <1>2, ListsKept

\* A write to a block that is no directory's.
LEMMA OtherBlock ==
  ASSUME TypeOK, UNCHANGED inodes, NEW b,
         \A d \in Inodes : IsDir(d) => inodes[d].first # b,
         \A c \in Chained \ {b} : blocks'[c] = blocks[c]
  PROVE  \A d \in Inodes : Kept(d)
<1> SUFFICES ASSUME NEW d \in Inodes PROVE Kept(d)
  OBVIOUS
<1>1. IsDir(d)' <=> IsDir(d)
  BY DEF IsDir, HasBlock
<1>2. IsDir(d) => blocks'[inodes[d].first] = blocks[inodes[d].first]
  BY DEF TypeOK, Inode
<1> QED
  BY <1>1, <1>2 DEF Kept, CellAt

\* A write of one inode.
LEMMA OtherInodes ==
  ASSUME TypeOK, UNCHANGED blocks, NEW w, NEW i \in Inodes, NEW node, PutInode(w, i, node)
  PROVE  /\ \A d \in Inodes \ {i} : Kept(d) /\ inodes'[d] = inodes[d]
         /\ inodes'[i] = inodes[i] => Kept(i)
         /\ inodes'[i] = IF w.hit THEN node ELSE inodes[i]
<1>1. \A d \in Inodes \ {i} : inodes'[d] = inodes[d]
  BY DEF TypeOK, PutInode
<1>2. ASSUME NEW d \in Inodes, inodes'[d] = inodes[d] PROVE Kept(d)
  BY <1>2 DEF Kept, IsDir, HasBlock, CellAt
<1>3. inodes'[i] = IF w.hit THEN node ELSE inodes[i]
  BY DEF TypeOK, PutInode
<1> QED
  BY <1>1, <1>2, <1>3

LEMMA StillKept == ASSUME UNCHANGED <<inodes, blocks>> PROVE \A d \in Inodes : Kept(d)
  BY DEF Kept, IsDir, HasBlock, CellAt

LEMMA PutBlockReads ==
  ASSUME TypeOK, NEW w \in Outcomes, NEW b, NEW new, PutBlock(w, b, new)
  PROVE  /\ \A c \in Chained \ {b} : blocks'[c] = blocks[c]
         /\ w.ok /\ b \in Chained => blocks'[b] = new
  BY DEF TypeOK, PutBlock, Landed

LEMMA PutCellReads ==
  ASSUME TypeOK, NEW w \in Outcomes, NEW b \in Chained, NEW s \in Slots, NEW cell,
         PutCell(w, b, s, cell)
  PROVE  /\ \A c \in Chained \ {b} : blocks'[c] = blocks[c]
         /\ w.hit => \A r \in Slots : blocks'[b][r] = IF r = s THEN cell ELSE blocks[b][r]
         /\ ~w.hit => blocks' = blocks
  BY DEF TypeOK, PutCell

\* No directory has a held cluster for its block.
LEMMA HeldIsNoBlock ==
  ASSUME NEW b, Held(b) \/ b = 0
  PROVE  \A d \in Inodes : IsDir(d) => inodes[d].first # b
  BY DEF Held, Unowned, IsDir, HasBlock

-----------------------------------------------------------------------------
(* What a step does to the locals. *)

\* The places where the locals say nothing of the tree.
LEMMA TreeLocalsSettled ==
  ASSUME pc' \in Steps \ ({"mark", "add", "alloc", "zero", "dots", "dots_inode", "entry",
                           "dir_inode"} \cup Deleting \cup Extending)
  PROVE  TreeLocals' /\ Gone' = 0
<1>1. ~Adding' /\ ~MakingEntry'
  BY DEF Adding, MakingDots, MakingEntry, InCreate
<1>2. ~Writing' /\ pc' \notin Deleting
  BY DEF Writing
<1>3. Gone' = 0
  BY DEF Gone, Deleting
<1> QED
  BY <1>1, <1>2, <1>3 DEF TreeLocals, NewEntry, NewRoot, DotsWritten, EntryPlace,
     EntryWritten, Leaving, FileKept

LEMMA TreeGivenUp == ASSUME Return PROVE TreeLocals' /\ Gone' = 0
  BY TreeLocalsSettled DEF Return, Steps, Deleting, Extending

LEMMA AddingType ==
  ASSUME TypeInv, Adding
  PROVE  op \in Operation /\ op.num \in Inodes /\ op.dir \in Inodes
  BY DEF TypeInv, TypeOK, OpTyped, Adding, MakingDots, MakingEntry, InCreate, Creating

\* create_* goes on, and the inodes stay.
LEMMA AddingKept ==
  ASSUME TypeInv, NewEntry, NewRoot, \A d \in Inodes : Kept(d), UNCHANGED inodes,
         op'.num = op.num, op'.dir = op.dir, op'.name = op.name, op'.kind = op.kind,
         Adding' => Adding, MakingDots' <=> MakingDots,
         (pc = "add" \/ MakingEntry)' => pc = "add" \/ MakingEntry
  PROVE  NewEntry' /\ NewRoot'
<1>1. NewRoot'
  BY DEF NewRoot
<1>2. ASSUME Adding', op'.name # "" PROVE NewEntry'
  <2>1. PICK i \in Inodes, d \in Inodes : i = op.num /\ d = op.dir
    BY <1>2, AddingType
  <2>2. PICK n, k : n = op.name /\ k = op.kind
    OBVIOUS
  <2>3. /\ n \in Names /\ k \in {FileType, DirType} /\ i # Root
        /\ Unlisted(i) /\ NameFree(d, n)
        /\ MakingDots => k = DirType
        /\ (pc = "add" \/ MakingEntry) =>
             inodes[i].type = k /\ (k = DirType => DotsOf(i, d))
    BY <1>2, <2>1, <2>2 DEF NewEntry, Ready
  <2>4. Unlisted(i)' /\ NameFree(d, n)' /\ (DotsOf(i, d) => DotsOf(i, d)')
    BY <2>3, AllKept
  <2>5. op'.num = i /\ op'.dir = d /\ op'.name = n /\ op'.kind = k
    BY <2>1, <2>2
  <2>6. Unlisted(op.num)' /\ NameFree(op.dir, op.name)'
    BY <2>4, <2>5 DEF Unlisted, NameFree
  <2>7. (pc = "add" \/ MakingEntry)' => Ready'
    BY <2>3, <2>4, <2>5 DEF Ready, DotsOf, IsDir, HasBlock, CellAt
  <2> QED
    BY <2>3, <2>5, <2>6, <2>7 DEF NewEntry
<1> QED
  BY <1>1, <1>2 DEF NewEntry

LEMMA RootMid ==
  ASSUME RootOK, pc \notin {"mount", "fmt_sb", "idle"}, UNCHANGED <<mounted, todo>>,
         inodes'[Root].type = inodes[Root].type
  PROVE  RootOK'
  BY DEF RootOK

-----------------------------------------------------------------------------
(* One lemma per action, or per group of actions alike. *)

LEMMA AllocTree == ASSUME TypeInv, TreeSound, AllocCluster PROVE TreeSound'
<1>1. /\ pc = "alloc" /\ UNCHANGED <<inodes, blocks, mounted, todo>> /\ op \in Operation
      /\ Gone = 0
  BY DEF AllocCluster, TypeInv, TypeOK, Gone
<1>2. TreeOK /\ RootOK /\ TreeLocals /\ \A d \in Inodes : Kept(d)
  BY <1>1, StillKept DEF TreeSound
<1>3. RootOK'
  BY <1>1, <1>2, RootMid
<1>4. Return \/ (pc' = "zero" /\ \E c : op' = [op EXCEPT !.new = c])
  BY DEF AllocCluster, Proceed
<1>5. CASE Return
  BY <1>1, <1>2, <1>3, <1>5, TreeGivenUp, TreeKept DEF TreeSound
<1>6. CASE pc' = "zero" /\ \E c : op' = [op EXCEPT !.new = c]
  <2>1. /\ op'.num = op.num /\ op'.dir = op.dir /\ op'.name = op.name /\ op'.kind = op.kind
        /\ op'.ret = op.ret /\ op'.node = op.node /\ op'.cur = op.cur /\ Gone' = 0
    BY <1>1, <1>6 DEF Operation, Gone
  <2>2. TreeOK'
    BY <1>1, <1>2, <2>1, TreeKept
  <2>3. /\ Adding' => Adding
        /\ MakingDots' <=> MakingDots
        /\ (pc = "add" \/ MakingEntry)' => pc = "add" \/ MakingEntry
        /\ MakingEntry' => MakingEntry
    BY <1>1, <1>6, <2>1 DEF Adding, MakingDots, MakingEntry, InCreate
  <2>4. NewEntry' /\ NewRoot'
    BY <1>1, <1>2, <2>1, <2>3, AddingKept DEF TreeLocals
  <2>5. DotsWritten' /\ EntryWritten' /\ Leaving'
    BY <1>6 DEF DotsWritten, EntryWritten, Leaving, Deleting
  <2>6. EntryPlace'
    BY <1>1, <1>2, <1>6, <2>1, <2>3 DEF TreeLocals, EntryPlace, HasBlock
  <2>7. FileKept'
    <3>1. Writing' => Writing
      BY <1>1, <1>6, <2>1 DEF Writing, Extending
    <3> QED
      BY <1>1, <1>2, <1>6, <2>1, <3>1 DEF TreeLocals, FileKept
  <2> QED
    BY <1>3, <2>2, <2>4, <2>5, <2>6, <2>7 DEF TreeSound, TreeLocals
<1> QED
  BY <1>4, <1>5, <1>6

LEMMA ZeroTree == ASSUME TypeInv, ClustersSound, TreeSound, ZeroCluster PROVE TreeSound'
<1>1. /\ pc = "zero" /\ UNCHANGED <<inodes, mounted, todo>> /\ TypeOK
      /\ op.ret \in {"dots", "entry", "first", "link"} /\ Gone = 0 /\ op.new \in Chained
  BY DEF ZeroCluster, TypeInv, TypeOK, OpTyped, Operation, Gone
<1>2. PICK w \in Outcomes : PutBlock(w, op.new, ZeroBlock) /\ Proceed(w, op.ret, op)
  BY DEF ZeroCluster
<1>3. TreeOK /\ RootOK /\ TreeLocals /\ Held(op.new)
  BY <1>1 DEF TreeSound, ClustersSound, LocalsSound, NewHeld
<1>4. \A d \in Inodes : Kept(d)
  BY <1>1, <1>2, <1>3, PutBlockReads, HeldIsNoBlock, OtherBlock
<1>5. RootOK'
  BY <1>1, <1>3, RootMid
<1>6. CASE ~w.ok
  <2>1. Return
    BY <1>2, <1>6 DEF Proceed
  <2> QED
    BY <1>1, <1>3, <1>4, <1>5, <2>1, TreeGivenUp, TreeKept DEF TreeSound
<1>7. CASE w.ok
  <2>1. pc' = op.ret /\ op' = op /\ blocks'[op.new] = ZeroBlock
    BY <1>1, <1>2, <1>7, PutBlockReads DEF Proceed
  <2>2. TreeOK'
    BY <1>1, <1>3, <1>4, <2>1, TreeKept DEF Gone
  <2>3. /\ Adding' => Adding
        /\ MakingDots' <=> MakingDots
        /\ (pc = "add" \/ MakingEntry)' => pc = "add" \/ MakingEntry
        /\ MakingEntry' => MakingEntry
    BY <1>1, <2>1 DEF Adding, MakingDots, MakingEntry, InCreate
  <2>4. NewEntry' /\ NewRoot'
    BY <1>1, <1>3, <1>4, <2>1, <2>3, AddingKept DEF TreeLocals
  <2>5. DotsWritten' /\ EntryWritten' /\ Leaving'
    BY <1>1, <2>1 DEF DotsWritten, EntryWritten, Leaving, Deleting
  <2>6. NoChildIn(op.new)'
    <3>1. \A s \in Slots : blocks'[op.new][s].name = ""
      BY <2>1, BlankBlocks
    <3>2. \A s \in Slots : blocks'[op'.new][s].name \notin Names
      BY <2>1, <3>1, NamesPlain
    <3> QED
      BY <3>2 DEF NoChildIn
  <2>7. EntryPlace'
    <3> SUFFICES ASSUME MakingEntry' PROVE EntryPlace'
      BY DEF EntryPlace
    <3>1. /\ inodes[op.dir].type = DirType /\ ~HasBlock(op.dir)
          /\ pc' = "entry"
      BY <1>1, <1>3, <2>1, <2>3 DEF TreeLocals, EntryPlace, MakingEntry, InCreate
    <3> QED
      BY <1>1, <2>1, <2>6, <3>1 DEF EntryPlace, HasBlock
  <2>8. FileKept'
    <3>1. Writing' => Writing
      BY <1>1, <2>1 DEF Writing, Extending
    <3> QED
      BY <1>1, <1>3, <2>1, <3>1 DEF TreeLocals, FileKept
  <2> QED
    BY <1>5, <2>2, <2>4, <2>5, <2>7, <2>8 DEF TreeSound, TreeLocals
<1> QED
  BY <1>6, <1>7

\* Nothing on the disk changes and the operation has not begun or gives up.
LEMMA QuietTree ==
  ASSUME TreeSound, UNCHANGED <<inodes, blocks>>, RootOK', TreeLocals', Gone = 0, Gone' = 0
  PROVE  TreeSound'
  BY StillKept, TreeKept DEF TreeSound

LEMMA MountTree == ASSUME TreeSound, Mount \/ Remount PROVE TreeSound'
<1>1. /\ UNCHANGED <<inodes, blocks>> /\ Gone = 0
      /\ pc' \in {"idle", "fmt_sb"}
  BY DEF Mount, Remount, disk, Gone, Return
<1>2. TreeLocals' /\ Gone' = 0
  BY <1>1, TreeLocalsSettled DEF Steps, Deleting, Extending
<1>3. RootOK'
  <2>1. CASE Mount
    BY <2>1, <1>1 DEF Mount, TreeSound, RootOK
  <2>2. CASE Remount
    BY <2>2, <1>1 DEF Remount, TreeSound, RootOK, Return
  <2> QED
    BY <2>1, <2>2
<1> QED
  BY <1>1, <1>2, <1>3, QuietTree

\* The superblock is written where there is none, or format() is under way.
LEMMA FormatSuperblockTree ==
  ASSUME TypeInv, TreeSound, FormatSuperblock, Sound' PROVE TreeSound'
<1>1. /\ pc = "fmt_sb" /\ UNCHANGED <<inodes, mounted, todo>> /\ TypeOK /\ Gone = 0
      /\ 0 \in Chained
  BY DEF FormatSuperblock, TypeInv, Gone, Chained
<1>2. PICK w \in Outcomes :
        /\ PutCell(w, 0, 1, Magic) /\ Proceed(w, "fmt_fat", op)
        /\ harm' = IF ~w.ok /\ w.hit /\ blocks[0][1] # Magic
                   THEN harm \cup {"format"} ELSE harm
  BY DEF FormatSuperblock
<1>3. Return /\ ~w.ok
  BY <1>2 DEF Proceed, Sound, Formatting
<1>4. \A c \in Chained \ {0} : blocks'[c] = blocks[c]
  BY <1>1, <1>2, Sizes, PutCellReads
<1>5. \A d \in Inodes : Kept(d)
  BY <1>1, <1>4, HeldIsNoBlock, OtherBlock
<1>6. blocks'[0][1] = Magic => blocks[0][1] = Magic
  BY <1>1, <1>2, <1>3, Sizes, PutCellReads DEF Sound
<1>7. RootOK'
  BY <1>1, <1>3, <1>6 DEF RootOK, TreeSound, Return
<1> QED
  BY <1>1, <1>3, <1>5, <1>7, TreeGivenUp, TreeKept DEF TreeSound

LEMMA ReadyToCreate ==
  ASSUME TypeInv, TreeSound, pc = "idle", NEW d \in Inodes, NEW n \in Names,
         Find(d, n).inode = 0, FreeInodes # {}, mounted
  PROVE  \E i \in Inodes : /\ i = Min(FreeInodes) /\ inodes[i].type = FreeType
                           /\ i # Root /\ Unlisted(i) /\ NameFree(d, n)
<1>1. PICK i \in Inodes : i = Min(FreeInodes) /\ inodes[i].type = FreeType
  BY FirstFree DEF FreeInodes
<1>2. i # Root
  BY <1>1 DEF TreeSound, RootOK, DirType, FreeType
<1>3. Unlisted(i)
  <2> SUFFICES ASSUME NEW e \in Inodes, NEW s \in Slots, Child(e, s), CellAt(e, s).inode = i
               PROVE  FALSE
    BY DEF Unlisted
  <2>1. Gone # i
    BY <1>1, Sizes DEF Gone
  <2>2. inodes[i].type \in {FileType, DirType}
    BY <1>1, <2>1 DEF TreeSound, TreeOK, ChildrenLead, ChildrenAgree
  <2> QED
    BY <1>1, <2>2 DEF FreeType, FileType, DirType
<1>4. NameFree(d, n)
  <2> SUFFICES ASSUME NEW s \in Slots, Child(d, s), CellAt(d, s).name = n
               PROVE  FALSE
    BY DEF NameFree
  <2>1. IsDir(d) /\ s \in EntrySlots(d, n)
    BY NamesPlain DEF Child, CellAt, EntrySlots, Used
  <2>2. Min(EntrySlots(d, n)) \in EntrySlots(d, n)
    BY <2>1, Sizes, MinInSet, Zenon DEF EntrySlots
  <2>3. Find(d, n).inode # 0
    BY <2>1, <2>2, Zenon DEF Find, EntrySlots, Used
  <2> QED
    BY <2>3
<1> QED
  BY <1>1, <1>2, <1>3, <1>4

LEMMA TakeTree ==
  ASSUME TypeInv, TreeSound, pc = "idle", mounted, UNCHANGED <<blocks, mounted>>,
         NEW d \in Inodes, NEW n \in Names, NEW k \in {FileType, DirType},
         Find(d, n).inode = 0, FreeInodes # {}, TakeInode(d, n, k)
  PROVE  TreeSound'
<1>1. PICK i \in Inodes : /\ i = Min(FreeInodes) /\ inodes[i].type = FreeType
                          /\ i # Root /\ Unlisted(i) /\ NameFree(d, n)
  BY ReadyToCreate
<1>2. PICK w \in Outcomes : /\ PutInode(w, i, ZeroInode)
                            /\ Proceed(w, "mark", CreateOp(d, n, k))
  BY <1>1 DEF TakeInode
<1>3. /\ \A e \in Inodes \ {i} : Kept(e) /\ inodes'[e] = inodes[e]
      /\ inodes'[i] \in {ZeroInode, inodes[i]}
  BY <1>2, OtherInodes DEF TypeInv
<1>4. ~IsDir(i) /\ ~IsDir(i)'
  BY <1>1, <1>3 DEF IsDir, ZeroInode, FreeType, DirType
<1>5. \A e \in Inodes : Kept(e)
  BY <1>3, <1>4 DEF Kept
<1>6. Gone = 0 /\ Gone' = 0 /\ pc' \in {"mark", "idle"}
  BY <1>2 DEF Gone, Proceed, Return
<1>7. TreeOK'
  BY <1>1, <1>3, <1>5, <1>6, TreeKept DEF TreeSound
<1>8. RootOK'
  BY <1>1, <1>3, Sizes DEF TreeSound, RootOK
<1>9. CASE Return
  BY <1>7, <1>8, <1>9, TreeGivenUp DEF TreeSound
<1>10. CASE pc' = "mark" /\ op' = CreateOp(d, n, k)
  <2>1. op'.num = i /\ op'.dir = d /\ op'.name = n /\ op'.kind = k
    BY <1>1, <1>10 DEF CreateOp, NoOp
  <2>2. Unlisted(i)' /\ NameFree(d, n)'
    BY <1>1, <1>5, AllKept
  <2>3. Unlisted(op.num)' /\ NameFree(op.dir, op.name)'
    BY <2>1, <2>2 DEF Unlisted, NameFree
  <2>4. ~MakingDots' /\ ~MakingEntry' /\ ~Writing'
    BY <1>10 DEF MakingDots, MakingEntry, InCreate, Writing, Extending
  <2>5. NewEntry' /\ NewRoot'
    BY <1>1, <1>10, <2>1, <2>3, <2>4, NamesPlain DEF NewEntry, NewRoot
  <2>6. TreeLocals'
    BY <1>10, <2>4, <2>5 DEF TreeLocals, DotsWritten, EntryPlace, EntryWritten, Leaving,
       FileKept, Deleting
  <2> QED
    BY <1>7, <1>8, <2>6 DEF TreeSound
<1> QED
  BY <1>2, <1>9, <1>10 DEF Proceed

LEMMA CreateTree ==
  ASSUME TypeInv, TreeSound, NEW p, NEW n \in Names, NEW k \in {FileType, DirType},
         Create(p, n, k)
  PROVE  TreeSound'
  BY TakeTree DEF Create, AtPrompt, CanCreate

LEMMA EnsureTree == ASSUME TypeInv, LayoutMounted, TreeSound, EnsureDir PROVE TreeSound'
<1> DEFINE p == Front(Head(todo))
           n == Last(Head(todo))
<1>1. pc = "idle" /\ UNCHANGED <<blocks, mounted>> /\ mounted
  BY DEF EnsureDir, LayoutMounted
<1>2. n \in Names
  <2>1. todo \in Seq(Seq(Names) \ {<<>>}) /\ todo # <<>>
    BY DEF TypeInv, TypeOK, EnsureDir
  <2>2. Head(todo) \in Seq(Names) /\ Head(todo) # <<>>
    BY <2>1
  <2> QED
    BY <2>2 DEF Last
<1>3. CASE CanCreate(p, n)
  <2>1. /\ TakeInode(Walk(p), n, DirType) /\ FreeInodes # {} /\ Walk(p) \in Inodes
        /\ Find(Walk(p), n).inode = 0
    BY <1>3 DEF EnsureDir, CanCreate
  <2> QED
    BY <1>1, <1>2, <2>1, TakeTree
<1>4. CASE ~CanCreate(p, n)
  <2>1. UNCHANGED <<inodes, pc, op>>
    BY <1>4 DEF EnsureDir
  <2>2. TreeLocals' /\ Gone' = 0 /\ Gone = 0
    BY <1>1, <2>1, TreeLocalsSettled DEF Steps, Deleting, Extending, Gone
  <2>3. RootOK'
    BY <1>1, <2>1 DEF TreeSound, RootOK
  <2> QED
    BY <1>1, <2>1, <2>2, <2>3, QuietTree
<1> QED
  BY <1>3, <1>4

LEMMA MarkTree == ASSUME TypeInv, TreeSound, MarkInode PROVE TreeSound'
<1>1. /\ pc = "mark" /\ UNCHANGED <<blocks, mounted, todo>> /\ TypeOK /\ Adding
      /\ ~MakingDots /\ ~MakingEntry /\ Gone = 0
  BY DEF MarkInode, TypeInv, Adding, MakingDots, MakingEntry, InCreate, Gone
<1>2. op \in Operation /\ op.num \in Inodes /\ op.dir \in Inodes
  BY <1>1, AddingType
<1>3. PICK i \in Inodes, d \in Inodes : i = op.num /\ d = op.dir
  BY <1>2
<1>4. PICK n, k : n = op.name /\ k = op.kind
  OBVIOUS
<1>5. /\ n \in Names /\ k \in {FileType, DirType} /\ i # Root /\ Unlisted(i)
      /\ NameFree(d, n) /\ n # ""
  <2>1. op.name # ""
    BY <1>1 DEF TreeSound, TreeLocals, NewRoot
  <2> QED
    BY <1>1, <1>3, <1>4, <2>1 DEF TreeSound, TreeLocals, NewEntry
<1>6. PICK w \in Outcomes :
        /\ PutInode(w, i, [ZeroInode EXCEPT !.type = k])
        /\ IF k = DirType THEN Proceed(w, "alloc", Fresh("dots")) ELSE Proceed(w, "add", op)
  BY <1>3, <1>4 DEF MarkInode
<1>7. /\ \A e \in Inodes \ {i} : Kept(e) /\ inodes'[e] = inodes[e]
      /\ inodes'[i] = inodes[i] => Kept(i)
      /\ inodes'[i] = IF w.hit THEN [ZeroInode EXCEPT !.type = k] ELSE inodes[i]
  BY <1>1, <1>6, OtherInodes
<1>8. Kept(i) \/ \A s \in Slots : ~Child(i, s)'
  <2>1. CASE w.hit
    <3>1. inodes'[i].first = 0
      BY <1>7, <2>1 DEF ZeroInode
    <3> QED
      BY <3>1 DEF Child, IsDir, HasBlock
  <2>2. CASE ~w.hit
    BY <1>7, <2>2
  <2> QED
    BY <2>1, <2>2
<1>9. \A e \in Inodes : Kept(e) \/ \A s \in Slots : ~Child(e, s)'
  BY <1>7, <1>8
<1>10. Gone' = 0 /\ (w.ok => w.hit) /\ pc' \in {"alloc", "add", "idle"}
  BY <1>6, OutcomeType DEF Gone, Proceed, Return
<1>11. TreeOK'
  BY <1>1, <1>5, <1>7, <1>9, <1>10, TreeKept DEF TreeSound
<1>12. RootOK'
  BY <1>1, <1>5, <1>7, Sizes, RootMid DEF TreeSound
<1>13. \A e \in Inodes, s \in Slots :
         Child(e, s)' => Child(e, s) /\ CellAt(e, s)' = CellAt(e, s)
  BY <1>9, KeptReads
<1>14. CASE ~w.ok
  BY <1>6, <1>11, <1>12, <1>14, TreeGivenUp DEF Proceed, TreeSound
<1>15. CASE w.ok
  <2>1. /\ op'.num = i /\ op'.dir = d /\ op'.name = n /\ op'.kind = k
        /\ pc' = IF k = DirType THEN "alloc" ELSE "add"
        /\ k = DirType => op'.ret = "dots"
    BY <1>2, <1>3, <1>4, <1>6, <1>15 DEF Proceed, Fresh, Operation
  <2>2. Unlisted(i)' /\ NameFree(d, n)'
    BY <1>5, <1>13, ListsKept
  <2>3. Unlisted(op.num)' /\ NameFree(op.dir, op.name)'
    BY <2>1, <2>2 DEF Unlisted, NameFree
  <2>4. inodes'[i].type = k
    BY <1>7, <1>10, <1>15 DEF ZeroInode
  <2>5. ~MakingEntry' /\ (MakingDots' => k = DirType) /\ (pc' = "add" => k # DirType) /\ ~Writing'
    BY <2>1 DEF MakingDots, MakingEntry, InCreate, Writing, Extending
  <2>6. NewEntry' /\ NewRoot'
    BY <1>5, <2>1, <2>3, <2>4, <2>5 DEF NewEntry, NewRoot, Ready
  <2>7. TreeLocals'
    BY <2>1, <2>5, <2>6 DEF TreeLocals, DotsWritten, EntryPlace, EntryWritten, Leaving,
       FileKept, Deleting
  <2> QED
    BY <1>11, <1>12, <2>7 DEF TreeSound
<1> QED
  BY <1>14, <1>15

LEMMA WriteDotsTree == ASSUME TypeInv, ClustersSound, TreeSound, WriteDots PROVE TreeSound'
<1>1. /\ pc = "dots" /\ UNCHANGED <<inodes, mounted, todo>> /\ TypeOK /\ Gone = 0
      /\ op.new \in Chained
  BY DEF WriteDots, TypeInv, TypeOK, Operation, Gone
<1>2. PICK w \in Outcomes : /\ PutBlock(w, op.new, DotEntries(op.num, op.dir))
                            /\ Proceed(w, "dots_inode", op)
  BY DEF WriteDots
<1>3. TreeOK /\ RootOK /\ TreeLocals /\ Held(op.new)
  BY <1>1 DEF TreeSound, ClustersSound, LocalsSound, NewHeld
<1>4. \A d \in Inodes : Kept(d)
  BY <1>1, <1>2, <1>3, PutBlockReads, HeldIsNoBlock, OtherBlock
<1>5. RootOK' /\ Gone' = 0
  BY <1>1, <1>2, <1>3, RootMid DEF Proceed, Return, Gone
<1>6. TreeOK'
  BY <1>1, <1>3, <1>4, <1>5, TreeKept
<1>7. CASE ~w.ok
  BY <1>2, <1>5, <1>6, <1>7, TreeGivenUp DEF Proceed, TreeSound
<1>8. CASE w.ok
  <2>1. pc' = "dots_inode" /\ op' = op /\ blocks'[op.new] = DotEntries(op.num, op.dir)
    BY <1>1, <1>2, <1>8, PutBlockReads DEF Proceed
  <2>2. /\ Adding /\ MakingDots /\ MakingDots' /\ ~MakingEntry' /\ ~Writing'
    BY <1>1, <2>1 DEF Adding, MakingDots, MakingEntry, InCreate, Writing, Extending
  <2>3. NewEntry' /\ NewRoot'
    BY <1>1, <1>3, <1>4, <2>1, <2>2, AddingKept DEF TreeLocals
  <2>4. DotsWritten'
    BY <2>1 DEF DotsWritten
  <2>5. EntryPlace' /\ EntryWritten' /\ Leaving' /\ FileKept'
    BY <2>1, <2>2 DEF EntryPlace, EntryWritten, Leaving, FileKept, Deleting
  <2> QED
    BY <1>5, <1>6, <2>3, <2>4, <2>5 DEF TreeSound, TreeLocals
<1> QED
  BY <1>7, <1>8

\* Nobody lists the inode that is being made, not even in a format.
LEMMA NewIsUnlisted ==
  ASSUME TypeInv, TreeSound, Adding
  PROVE  Unlisted(op.num)
<1>1. CASE op.name = ""
  BY <1>1 DEF TreeSound, TreeLocals, NewRoot, TreeOK, ChildrenLead, Unlisted
<1>2. CASE op.name # ""
  BY <1>2 DEF TreeSound, TreeLocals, NewEntry
<1> QED
  BY <1>1, <1>2

LEMMA WriteDotsInodeTree ==
  ASSUME TypeInv, ClustersSound, TreeSound, WriteDotsInode PROVE TreeSound'
<1>1. /\ pc = "dots_inode" /\ UNCHANGED <<blocks, mounted, todo>> /\ TypeOK /\ Adding
      /\ MakingDots /\ Gone = 0
  BY DEF WriteDotsInode, TypeInv, Adding, MakingDots, InCreate, Gone
<1>2. op \in Operation /\ op.num \in Inodes /\ op.dir \in Inodes
  BY <1>1, AddingType
<1>3. PICK i \in Inodes, d \in Inodes : i = op.num /\ d = op.dir
  BY <1>2
<1>4. PICK n, b : n = op.name /\ b = op.new
  OBVIOUS
<1>5. /\ Unlisted(i) /\ Held(b) /\ blocks[b] = DotEntries(i, d)
      /\ inodes[Root].type = DirType
  BY <1>1, <1>3, <1>4, NewIsUnlisted
     DEF ClustersSound, LocalsSound, NewHeld, TreeSound, TreeLocals, DotsWritten, RootOK
<1>6. n # "" => n \in Names /\ op.kind = DirType /\ i # Root /\ NameFree(d, n)
  BY <1>1, <1>3, <1>4 DEF TreeSound, TreeLocals, NewEntry
<1>7. b \in Clusters /\ b # 0 /\ b # FAT_EOF
  BY <1>5, Sizes, EofIsNoCluster DEF Held, InUse
<1> DEFINE node == [type |-> DirType, size |-> CellsPerBlock, first |-> b]
<1>8. PICK w \in Outcomes :
        PutInode(w, i, node) /\ Proceed(w, IF n = "" THEN "remount" ELSE "add", op)
  BY <1>3, <1>4 DEF WriteDotsInode
<1>9. node.type = DirType /\ node.first = b
  OBVIOUS
<1> HIDE DEF node
<1>10. /\ \A e \in Inodes \ {i} : Kept(e) /\ inodes'[e] = inodes[e]
       /\ inodes'[i] = inodes[i] => Kept(i)
       /\ inodes'[i] = IF w.hit THEN node ELSE inodes[i]
  BY <1>1, <1>8, OtherInodes
<1>11. Kept(i) \/ \A s \in Slots : ~Child(i, s)'
  <2>1. CASE w.hit
    <3> SUFFICES ASSUME NEW s \in Slots PROVE ~Child(i, s)'
      OBVIOUS
    <3>1. CellAt(i, s)' = DotEntries(i, d)[s]
      BY <1>1, <1>5, <1>9, <1>10, <2>1 DEF CellAt
    <3>2. CellAt(i, s)'.name \in {"", ".", ".."}
      BY <3>1, DotCells, ZenonT(40)
    <3>3. CellAt(i, s)'.name \notin Names
      BY <3>2, NamesPlain
    <3> QED
      BY <3>3 DEF Child
  <2>2. CASE ~w.hit
    BY <1>10, <2>2
  <2> QED
    BY <2>1, <2>2
<1>12. \A e \in Inodes : Kept(e) \/ \A s \in Slots : ~Child(e, s)'
  BY <1>10, <1>11
<1>13. Gone' = 0 /\ (w.ok => w.hit) /\ pc' \in {"remount", "add", "idle"}
  BY <1>8, OutcomeType DEF Gone, Proceed, Return
<1>14. TreeOK'
  BY <1>1, <1>5, <1>10, <1>12, <1>13, TreeKept DEF TreeSound
<1>15. RootOK'
  <2>1. inodes'[Root].type = DirType
    BY <1>5, <1>9, <1>10, Sizes
  <2> QED
    BY <1>1, <1>5, <2>1, RootMid DEF TreeSound
<1>16. CASE pc' # "add"
  BY <1>13, <1>14, <1>15, <1>16, TreeLocalsSettled DEF TreeSound, Steps, Deleting, Extending
<1>17. CASE pc' = "add"
  <2>1. w.ok /\ n # "" /\ op' = op
    BY <1>8, <1>17 DEF Proceed, Return
  <2>2. Unlisted(i)' /\ NameFree(d, n)'
    BY <1>5, <1>6, <1>12, <2>1, KeptReads, ListsKept
  <2>3. Unlisted(op.num)' /\ NameFree(op.dir, op.name)'
    BY <1>3, <1>4, <2>1, <2>2 DEF Unlisted, NameFree
  <2>4. inodes'[i].type = DirType /\ inodes'[i].first = b
    BY <1>9, <1>10, <1>13, <2>1
  <2>5. DotsOf(i, d)'
    <3>1. IsDir(i)'
      BY <1>7, <2>4 DEF IsDir, HasBlock
    <3>2. /\ CellAt(i, 1)' = DotEntries(i, d)[1]
          /\ CellAt(i, 2)' = DotEntries(i, d)[2]
      BY <1>1, <1>5, <2>4 DEF CellAt
    <3> QED
      BY <3>1, <3>2, DotCells DEF DotsOf
  <2>6. Ready'
    BY <1>3, <1>6, <2>1, <2>4, <2>5 DEF Ready, DotsOf, IsDir, HasBlock, CellAt
  <2>7. ~MakingDots' /\ ~MakingEntry' /\ ~Writing'
    BY <1>17 DEF MakingDots, MakingEntry, InCreate, Writing, Extending
  <2>8. NewEntry' /\ NewRoot'
    BY <1>3, <1>4, <1>6, <2>1, <2>3, <2>6, <2>7 DEF NewEntry, NewRoot
  <2>9. TreeLocals'
    BY <1>17, <2>7, <2>8 DEF TreeLocals, DotsWritten, EntryPlace, EntryWritten, Leaving,
       FileKept, Deleting
  <2> QED
    BY <1>14, <1>15, <2>9 DEF TreeSound
<1> QED
  BY <1>16, <1>17

LEMMA AddEntryTree == ASSUME TypeInv, TreeSound, AddEntryStart PROVE TreeSound'
<1>1. /\ pc = "add" /\ UNCHANGED <<inodes, blocks, mounted, todo>> /\ Adding /\ Gone = 0
      /\ ~MakingDots
  BY DEF AddEntryStart, disk, Adding, MakingDots, InCreate, Gone
<1>2. op \in Operation /\ op.dir \in Inodes
  BY <1>1, AddingType
<1>3. TreeOK /\ RootOK /\ TreeLocals /\ \A d \in Inodes : Kept(d)
  BY <1>1, StillKept DEF TreeSound
<1>4. RootOK'
  BY <1>1, <1>3, RootMid
<1>5. CASE Return
  BY <1>1, <1>4, <1>5, TreeGivenUp, QuietTree
<1>6. CASE ~Return
  <2>1. /\ inodes[op.dir].type = DirType
        /\ \/ /\ pc' = "entry"
              /\ op' = [op EXCEPT !.new = inodes[op.dir].first]
           \/ ~HasBlock(op.dir) /\ pc' = "alloc" /\ op' = Fresh("entry")
    BY <1>6 DEF AddEntryStart
  <2>2. /\ op'.num = op.num /\ op'.dir = op.dir /\ op'.name = op.name /\ op'.kind = op.kind
        /\ pc' = "entry" => op'.new = inodes[op.dir].first
        /\ pc' = "alloc" => op'.ret = "entry"
    BY <1>2, <2>1 DEF Fresh, Operation
  <2>3. Adding' /\ ~MakingDots' /\ ~Writing' /\ Gone' = 0
    BY <2>1, <2>2 DEF Adding, MakingDots, MakingEntry, InCreate, Writing, Extending, Gone
  <2>4. NewEntry' /\ NewRoot'
    BY <1>1, <1>3, <2>2, <2>3, AddingKept DEF TreeLocals
  <2>5. EntryPlace'
    BY <1>1, <2>1, <2>2 DEF EntryPlace, HasBlock
  <2>6. TreeLocals'
    BY <2>1, <2>3, <2>4, <2>5 DEF TreeLocals, DotsWritten, EntryWritten, Leaving, FileKept,
       Deleting
  <2> QED
    BY <1>1, <1>4, <2>3, <2>6, QuietTree
<1> QED
  BY <1>5, <1>6

\* What dir_add_entry knows of the entry it writes.
LEMMA EntryKnown ==
  ASSUME TypeInv, TreeSound, pc = "entry"
  PROVE  /\ op \in Operation /\ op.num \in Inodes \ {Root} /\ op.dir \in Inodes
         /\ op.name \in Names /\ op.name # "" /\ op.kind \in {FileType, DirType}
         /\ Unlisted(op.num) /\ NameFree(op.dir, op.name) /\ Ready
         /\ inodes[op.dir].type = DirType
         /\ op.new = inodes[op.dir].first \/ (~HasBlock(op.dir) /\ NoChildIn(op.new))
<1>1. Adding /\ MakingEntry /\ ~MakingDots
  BY DEF Adding, MakingEntry, MakingDots, InCreate
<1>2. op \in Operation /\ op.num \in Inodes /\ op.dir \in Inodes
  BY <1>1, AddingType
<1>3. op.name # ""
  BY <1>1 DEF TreeSound, TreeLocals, NewRoot
<1> QED
  BY <1>1, <1>2, <1>3 DEF TreeSound, TreeLocals, NewEntry, EntryPlace

\* The slot written is not in use, so it is none of the two dots.
LEMMA SlotTaken ==
  ASSUME TypeOK, UNCHANGED inodes, NEW d \in Inodes, NEW s \in Slots, NEW cell,
         ~Used(blocks[inodes[d].first][s]),
         \A r \in Slots : CellAt(d, r)' = IF r = s THEN cell ELSE CellAt(d, r)
  PROVE  /\ \A r \in Slots : Child(d, r)' =>
              r = s \/ (Child(d, r) /\ CellAt(d, r)' = CellAt(d, r))
         /\ \A p \in Inodes : DotsOf(d, p) => DotsOf(d, p)'
<1>1. IsDir(d)' <=> IsDir(d)
  BY DEF IsDir, HasBlock
<1>2. ASSUME NEW r \in Slots, Child(d, r)', r # s
      PROVE  Child(d, r) /\ CellAt(d, r)' = CellAt(d, r)
  BY <1>1, <1>2 DEF Child
<1>3. ASSUME NEW p \in Inodes, DotsOf(d, p) PROVE DotsOf(d, p)'
  <2>1. d # 0 /\ p # 0 /\ "." # "" /\ ".." # ""
    BY Sizes
  <2>2. /\ CellAt(d, 1).inode = d /\ CellAt(d, 1).name = "."
        /\ CellAt(d, 2).inode = p /\ CellAt(d, 2).name = ".."
    BY <1>3 DEF DotsOf
  <2>3. Used(CellAt(d, 1)) /\ Used(CellAt(d, 2)) /\ ~Used(CellAt(d, s))
    BY <2>1, <2>2 DEF Used, CellAt
  <2>4. s # 1 /\ s # 2
    BY <2>3
  <2> QED
    BY <1>1, <1>3, <2>4, Sizes DEF DotsOf
<1> QED
  BY <1>2, <1>3

LEMMA WriteEntryTree ==
  ASSUME TypeInv, ClustersSound, TreeSound, WriteEntry PROVE TreeSound'
<1>1. /\ pc = "entry" /\ UNCHANGED <<inodes, mounted, todo>> /\ TypeOK /\ Gone = 0
      /\ TreeOK /\ RootOK
  BY DEF WriteEntry, TypeInv, Gone, TreeSound
<1>2. PICK i \in Inodes \ {Root}, d \in Inodes : i = op.num /\ d = op.dir
  BY <1>1, EntryKnown
<1>3. PICK n, k, b : n = op.name /\ k = op.kind /\ b = op.new
  OBVIOUS
<1>4. /\ op \in Operation /\ n \in Names /\ n # "" /\ k \in {FileType, DirType}
      /\ Unlisted(i) /\ NameFree(d, n) /\ inodes[d].type = DirType
      /\ inodes[i].type = k /\ (k = DirType => DotsOf(i, d))
      /\ b = inodes[d].first \/ (~HasBlock(d) /\ NoChildIn(b))
  BY <1>1, <1>2, <1>3, EntryKnown DEF Ready
<1>5. b \in Clusters /\ b \in Chained /\ b # 0 /\ b # FAT_EOF
      /\ (b = inodes[d].first \/ Unowned(b)) /\ InUse(b)
  <2>1. InUse(b) /\ (b = inodes[d].first \/ Unowned(b))
    BY <1>1, <1>2, <1>3 DEF ClustersSound, LocalsSound, EntryBlock
  <2> QED
    BY <2>1, Sizes, EofIsNoCluster DEF InUse, Chained
<1> DEFINE cell == [inode |-> i, type |-> k, name |-> n]
           node == [inodes[d] EXCEPT !.size = CellsPerBlock, !.first = b]
<1>6. RootOK'
  BY <1>1, RootMid
<1>7. CASE FreeSlots(b) = {}
  <2>1. Return /\ UNCHANGED blocks
    BY <1>3, <1>7 DEF WriteEntry
  <2> QED
    BY <1>1, <1>6, <2>1, TreeGivenUp, QuietTree
<1>8. CASE FreeSlots(b) # {}
  <2>1. PICK s \in Slots : s = Min(FreeSlots(b)) /\ ~Used(blocks[b][s])
    BY <1>8, MinInSet, Sizes DEF FreeSlots
  <2>2. PICK w \in Outcomes :
          PutCell(w, b, s, cell) /\ Proceed(w, "dir_inode", [op EXCEPT !.node = node])
    BY <1>2, <1>3, <1>8, <2>1 DEF WriteEntry
  <2>3. node.first = b /\ node.type = DirType
    BY <1>1, <1>4 DEF TypeOK, Inode
  <2>4. cell.inode = i /\ cell.type = k /\ cell.name = n
    OBVIOUS
  <2>5. (w.ok => w.hit) /\ Gone' = 0
    BY <2>2, OutcomeType DEF Proceed, Return, Gone
  <2> HIDE DEF node, cell
  <2>6. /\ \A c \in Chained \ {b} : blocks'[c] = blocks[c]
        /\ w.hit => \A r \in Slots : blocks'[b][r] = IF r = s THEN cell ELSE blocks[b][r]
        /\ ~w.hit => blocks' = blocks
    BY <1>1, <1>5, <2>2, PutCellReads
  <2>7. w.ok => /\ pc' = "dir_inode" /\ op'.num = i /\ op'.dir = d /\ op'.name = n
                /\ op'.kind = k /\ op'.node = node
    BY <1>2, <1>3, <1>4, <2>2 DEF Proceed, Operation
  <2>8. w.ok => (EntryWritten' => TreeLocals')
    <3> SUFFICES ASSUME w.ok, EntryWritten' PROVE TreeLocals'
      OBVIOUS
    <3>1. ~Adding' /\ ~MakingEntry' /\ ~Writing'
      BY <2>7 DEF Adding, MakingDots, MakingEntry, InCreate, Writing, Extending
    <3> QED
      BY <2>7, <3>1 DEF TreeLocals, NewEntry, NewRoot, DotsWritten, EntryPlace, Leaving,
         FileKept, Deleting
  <2>9. ~w.ok => TreeLocals'
    BY <2>2, TreeGivenUp DEF Proceed
  <2>10. CASE ~w.hit
    BY <1>1, <1>6, <2>5, <2>6, <2>9, <2>10, QuietTree
  <2>11. CASE w.hit /\ b = inodes[d].first
    <3>1. \A e \in Inodes \ {d} : Kept(e)
      <4> SUFFICES ASSUME NEW e \in Inodes \ {d} PROVE Kept(e)
        OBVIOUS
      <4>1. inodes[e].first # b
        BY <1>5, <2>11 DEF ClustersSound, OwnedOnce, HeadsApart
      <4>2. inodes[e].first \in Chained
        BY <1>1 DEF TypeOK, Inode
      <4>3. blocks'[inodes[e].first] = blocks[inodes[e].first]
        BY <2>6, <4>1, <4>2
      <4> QED
        BY <1>1, <4>3 DEF Kept, IsDir, HasBlock, CellAt
    <3>2. \A r \in Slots : CellAt(d, r)' = IF r = s THEN cell ELSE CellAt(d, r)
      BY <1>1, <2>6, <2>11 DEF CellAt
    <3>3. /\ \A r \in Slots : Child(d, r)' =>
               r = s \/ (Child(d, r) /\ CellAt(d, r)' = CellAt(d, r))
          /\ \A p \in Inodes : DotsOf(d, p) => DotsOf(d, p)'
      BY <1>1, <2>1, <2>11, <3>2, SlotTaken
    <3>4. \A e \in Inodes, r \in Slots :
            Child(e, r)' => \/ e = d /\ r = s
                            \/ Child(e, r) /\ CellAt(e, r)' = CellAt(e, r)
      BY <3>1, <3>3, KeptReads
    <3>5. \A t, e \in Inodes : DotsOf(t, e) => DotsOf(t, e)'
      BY <3>1, <3>3, KeptReads
    <3>6. CellAt(d, s)' = [inode |-> i, type |-> k, name |-> n]
      BY <3>2 DEF cell
    <3>7. k = DirType => DotsOf(i, d)'
      BY <1>4, <3>5
    <3>8. TreeOK'
      BY <1>1, <1>4, <2>5, <3>4, <3>5, <3>6, <3>7, TreeGrows
    <3>9. w.ok => EntryWritten'
      BY <1>1, <1>4, <2>3, <2>7, <2>11 DEF EntryWritten
    <3> QED
      BY <1>6, <2>8, <2>9, <3>8, <3>9 DEF TreeSound
  <2>12. CASE w.hit /\ b # inodes[d].first
    <3>1. Held(b) /\ ~HasBlock(d) /\ NoChildIn(b)
      BY <1>4, <1>5, <2>12 DEF Held
    <3>2. \A e \in Inodes : Kept(e)
      BY <1>1, <2>6, <3>1, HeldIsNoBlock, OtherBlock
    <3>3. TreeOK'
      BY <1>1, <2>5, <3>2, TreeKept
    <3>4. Unlisted(i)' /\ (DotsOf(i, d) => DotsOf(i, d)')
      BY <1>4, <3>2, AllKept
    <3>5. blocks'[b][s] = [inode |-> i, type |-> k, name |-> n]
      BY <2>6, <2>12 DEF cell
    <3>6. \A r \in Slots \ {s} : blocks'[b][r].name \notin Names
      BY <2>6, <2>12, <3>1 DEF NoChildIn
    <3>7. w.ok => EntryWritten'
      <4> SUFFICES ASSUME w.ok PROVE EntryWritten'
        OBVIOUS
      <4>1. Ready'
        BY <1>1, <1>4, <2>7, <3>4 DEF Ready, DotsOf, IsDir, HasBlock, CellAt
      <4>2. Unlisted(op.num)'
        BY <2>7, <3>4 DEF Unlisted
      <4> QED
        BY <1>1, <1>4, <2>3, <2>7, <3>1, <3>5, <3>6, <4>1, <4>2 DEF EntryWritten, HasBlock
    <3> QED
      BY <1>6, <2>8, <2>9, <3>3, <3>7 DEF TreeSound
  <2> QED
    BY <2>10, <2>11, <2>12
<1> QED
  BY <1>7, <1>8

\* The inode of the directory: the entry shows when its block is a new one.
LEMMA WriteDirInodeTree ==
  ASSUME TypeInv, ClustersSound, TreeSound, WriteDirInode PROVE TreeSound'
<1>1. /\ pc = "dir_inode" /\ UNCHANGED <<blocks, mounted, todo>> /\ TypeOK /\ Gone = 0
      /\ TreeOK /\ RootOK /\ TreeLocals' /\ Gone' = 0
  BY TreeGivenUp DEF WriteDirInode, TypeInv, Gone, TreeSound
<1>2. PICK d \in Inodes, i \in Inodes : d = op.dir /\ i = op.num
  BY <1>1 DEF TypeInv, OpTyped, Creating
<1>3. PICK node, n, k : node = op.node /\ n = op.name /\ k = op.kind
  OBVIOUS
<1>4. PICK w \in Outcomes : PutInode(w, d, node)
  BY <1>2, <1>3 DEF WriteDirInode
<1>5. /\ node.type = DirType /\ inodes[d].type = DirType
      /\ node.first # inodes[d].first =>
           /\ ~HasBlock(d) /\ n \in Names /\ k \in {FileType, DirType} /\ i # Root
           /\ Unlisted(i) /\ inodes[i].type = k /\ (k = DirType => DotsOf(i, d))
           /\ \E s \in Slots :
                /\ blocks[node.first][s] = [inode |-> i, type |-> k, name |-> n]
                /\ \A r \in Slots \ {s} : blocks[node.first][r].name \notin Names
  BY <1>1, <1>2, <1>3 DEF TreeSound, TreeLocals, EntryWritten, Ready
<1>6. /\ \A e \in Inodes \ {d} : Kept(e) /\ inodes'[e] = inodes[e]
      /\ inodes'[d] = inodes[d] => Kept(d)
      /\ inodes'[d] = IF w.hit THEN node ELSE inodes[d]
  BY <1>1, <1>4, OtherInodes
<1>7. \A t \in Inodes : inodes'[t].type = inodes[t].type
  BY <1>5, <1>6
<1>8. RootOK'
  BY <1>1, <1>7, Sizes, RootMid
<1>9. CASE ~w.hit \/ node.first = inodes[d].first
  <2>1. Kept(d)
    BY <1>1, <1>5, <1>6, <1>9 DEF Kept, IsDir, HasBlock, CellAt
  <2>2. TreeOK'
    BY <1>1, <1>6, <1>7, <2>1, TreeKept
  <2> QED
    BY <1>1, <1>8, <2>2 DEF TreeSound
<1>10. CASE w.hit /\ node.first # inodes[d].first
  <2>1. PICK s \in Slots :
          /\ blocks[node.first][s] = [inode |-> i, type |-> k, name |-> n]
          /\ \A r \in Slots \ {s} : blocks[node.first][r].name \notin Names
    BY <1>5, <1>10
  <2>2. inodes'[d].first = node.first /\ \A r \in Slots : CellAt(d, r)' = blocks[node.first][r]
    BY <1>1, <1>6, <1>10 DEF CellAt
  <2>3. \A r \in Slots : Child(d, r)' => r = s
    BY <2>1, <2>2 DEF Child
  <2>4. \A e \in Inodes, r \in Slots :
          Child(e, r)' => \/ e = d /\ r = s
                          \/ Child(e, r) /\ CellAt(e, r)' = CellAt(e, r)
    BY <1>6, <2>3, KeptReads
  <2>5. ~IsDir(d) /\ \A t, e \in Inodes : DotsOf(t, e) => DotsOf(t, e)'
    <3>1. ~IsDir(d)
      BY <1>5, <1>10 DEF IsDir
    <3>2. ASSUME NEW t \in Inodes, NEW e \in Inodes, DotsOf(t, e) PROVE DotsOf(t, e)'
      BY <1>6, <3>1, <3>2, KeptReads DEF DotsOf
    <3> QED
      BY <3>1, <3>2
  <2>6. CellAt(d, s)' = [inode |-> i, type |-> k, name |-> n]
    BY <2>1, <2>2
  <2>7. NameFree(d, n)
    BY <2>5 DEF NameFree, Child
  <2>8. i \in Inodes \ {Root} /\ k \in {FileType, DirType} /\ Unlisted(i)
        /\ inodes[i].type = k /\ (k = DirType => DotsOf(i, d)')
    BY <1>5, <1>10, <2>5
  <2>9. TreeOK'
    BY <1>1, <1>7, <2>4, <2>5, <2>6, <2>7, <2>8, TreeGrows
  <2> QED
    BY <1>1, <1>8, <2>9 DEF TreeSound
<1> QED
  BY <1>9, <1>10

\* Looking up a name finds the entry that has it.
LEMMA FindIsChild ==
  ASSUME TypeInv, TreeOK, NEW d \in Inodes, NEW n \in Names, NEW t \in Inodes,
         Find(d, n).inode = t
  PROVE  t # Root /\ ListedOnlyAt(t, d, n)
<1>1. IsDir(d) /\ EntrySlots(d, n) # {}
  BY Sizes DEF Find, ZeroCell
<1>2. PICK s \in Slots : s = Min(EntrySlots(d, n)) /\ s \in EntrySlots(d, n)
  BY <1>1, Sizes, MinInSet, Zenon DEF EntrySlots
<1>3. CellAt(d, s).inode = t /\ CellAt(d, s).name = n
  BY <1>1, <1>2, Zenon DEF Find, CellAt, EntrySlots
<1>4. Child(d, s)
  BY <1>1, <1>3, Sizes DEF Child
<1>5. t # Root
  BY <1>3, <1>4 DEF TreeOK, ChildrenLead
<1>6. ListedOnlyAt(t, d, n)
  <2> SUFFICES ASSUME NEW e \in Inodes, NEW r \in Slots, Child(e, r), CellAt(e, r).inode = t
               PROVE  e = d /\ CellAt(e, r).name = n
    BY Zenon DEF ListedOnlyAt
  <2> QED
    BY <1>3, <1>4 DEF TreeOK, ListedOnce
<1> QED
  BY <1>5, <1>6

LEMMA RemovePathTree ==
  ASSUME TypeInv, TreeSound, NEW p, NEW n \in Names, RemovePath(p, n) PROVE TreeSound'
<1>1. /\ UNCHANGED <<inodes, blocks, mounted, todo>> /\ Gone = 0 /\ TreeOK /\ RootOK
      /\ pc = "idle" /\ mounted /\ pc' \in {"rm_free", "rm_inode"}
  BY DEF RemovePath, AtPrompt, disk, Gone, TreeSound
<1>2. PICK d \in Inodes, t \in Inodes : d = Walk(p) /\ t = Find(d, n).inode
  BY DEF RemovePath
<1>3. t # Root /\ ListedOnlyAt(t, d, n)
  BY <1>1, <1>2, FindIsChild
<1>4. op'.num = t /\ op'.dir = d /\ op'.name = n
  BY <1>2 DEF RemovePath, NoOp
<1>5. ListedOnlyAt(t, d, n)'
  BY <1>1, <1>3, StillKept, AllKept
<1>6. Leaving'
  BY <1>3, <1>4, <1>5 DEF Leaving, ListedOnlyAt
<1>7. TreeLocals'
  BY <1>1, <1>6 DEF TreeLocals, NewEntry, NewRoot, DotsWritten, EntryPlace, EntryWritten,
     FileKept, Adding, MakingDots, MakingEntry, InCreate, Writing, Extending
<1>8. RootOK' /\ Gone' = 0
  BY <1>1 DEF RootOK, Gone
<1> QED
  BY <1>1, <1>7, <1>8, QuietTree

LEMMA LeavingOnly ==
  ASSUME pc' \in Deleting, Leaving'
  PROVE  TreeLocals'
  BY DEF TreeLocals, NewEntry, NewRoot, DotsWritten, EntryPlace, EntryWritten, FileKept,
     Adding, MakingDots, MakingEntry, InCreate, Writing, Extending, Deleting

LEMMA DeletingType ==
  ASSUME TypeInv, TreeSound, pc \in Deleting
  PROVE  /\ op \in Operation /\ op.num \in Inodes \ {Root} /\ op.dir \in Inodes
         /\ op.name \in Names /\ ListedOnlyAt(op.num, op.dir, op.name)
  BY DEF TypeInv, TypeOK, OpTyped, TreeSound, TreeLocals, Leaving

LEMMA ChainTree == ASSUME TypeInv, TreeSound, FreeCluster PROVE TreeSound'
<1>1. /\ UNCHANGED <<inodes, blocks, mounted, todo>> /\ pc = "rm_free" /\ Gone = 0
      /\ TreeOK /\ RootOK /\ pc' \in {"rm_free", "rm_inode"} /\ Gone' = 0
  BY DEF FreeCluster, Gone, TreeSound
<1>2. PICK d \in Inodes, t \in Inodes \ {Root}, n \in Names :
        d = op.dir /\ t = op.num /\ n = op.name /\ ListedOnlyAt(t, d, n) /\ op \in Operation
  BY <1>1, DeletingType DEF Deleting
<1>3. op'.num = t /\ op'.dir = d /\ op'.name = n
  BY <1>2 DEF FreeCluster, Operation
<1>4. ListedOnlyAt(t, d, n)'
  BY <1>1, <1>2, StillKept, AllKept
<1>5. Leaving'
  BY <1>2, <1>3, <1>4 DEF Leaving, ListedOnlyAt
<1>6. RootOK' /\ TreeLocals'
  BY <1>1, <1>5, RootMid, LeavingOnly DEF Deleting
<1> QED
  BY <1>1, <1>6, QuietTree

\* What the freed inode listed is gone with it; its entry is still to be cleared.
LEMMA FreeInodeTree == ASSUME TypeInv, TreeSound, FreeInode, Sound' PROVE TreeSound'
<1>1. /\ UNCHANGED <<blocks, mounted, todo>> /\ pc = "rm_inode" /\ Gone = 0 /\ TypeOK
      /\ TreeOK /\ RootOK
  BY DEF FreeInode, Gone, TreeSound, TypeInv
<1>2. PICK d \in Inodes, i \in Inodes \ {Root}, n \in Names :
        d = op.dir /\ i = op.num /\ n = op.name /\ ListedOnlyAt(i, d, n)
  BY <1>1, DeletingType DEF Deleting
<1>3. PICK w \in Outcomes :
        /\ PutInode(w, i, ZeroInode) /\ Proceed(w, "rm_entry", op)
        /\ harm' = IF w.ok THEN harm
                   ELSE harm \cup Exposed \cup (IF w.hit THEN {"remove"} ELSE {})
  BY <1>2 DEF FreeInode
<1>4. w.ok <=> w.hit
  BY <1>3, OutcomeType DEF Sound
<1>5. /\ \A e \in Inodes \ {i} : Kept(e) /\ inodes'[e] = inodes[e]
      /\ inodes'[i] = inodes[i] => Kept(i)
      /\ inodes'[i] = IF w.hit THEN ZeroInode ELSE inodes[i]
  BY <1>1, <1>3, OtherInodes
<1>6. RootOK'
  BY <1>1, <1>2, <1>5, Sizes, RootMid
<1>7. CASE ~w.ok
  <2>1. TreeLocals' /\ Gone' = 0
    BY <1>3, <1>7, TreeGivenUp DEF Proceed
  <2>2. TreeOK'
    BY <1>1, <1>4, <1>5, <1>7, <2>1, TreeKept
  <2> QED
    BY <1>6, <2>1, <2>2 DEF TreeSound
<1>8. CASE w.ok
  <2>1. pc' = "rm_entry" /\ op' = op /\ Gone' = i
    BY <1>2, <1>3, <1>8 DEF Proceed, Gone
  <2>2. \A s \in Slots : ~Child(i, s)'
    BY <1>4, <1>5, <1>8 DEF Child, IsDir, ZeroInode, FreeType, DirType
  <2>3. \A e \in Inodes : Kept(e) \/ \A s \in Slots : ~Child(e, s)'
    BY <1>5, <2>2
  <2>4. TreeOK'
    BY <1>1, <1>5, <2>1, <2>3, Sizes, TreeKept
  <2>5. ListedOnlyAt(i, d, n)'
    BY <1>2, <2>3, KeptReads, ListsKept
  <2>6. Leaving'
    BY <1>2, <2>1, <2>5 DEF Leaving, ListedOnlyAt
  <2> QED
    BY <1>6, <2>1, <2>4, <2>6, LeavingOnly DEF TreeSound, Deleting
<1> QED
  BY <1>7, <1>8

LEMMA RemoveEntryTree ==
  ASSUME TypeInv, ClustersSound, TreeSound, RemoveEntry, Sound' PROVE TreeSound'
<1>1. /\ UNCHANGED <<inodes, mounted, todo>> /\ pc = "rm_entry" /\ TypeOK
      /\ TreeOK /\ RootOK /\ "remove" \notin harm' /\ "remove" \in Exposed
  BY DEF RemoveEntry, TreeSound, TypeInv, Sound, Exposed
<1>2. PICK d \in Inodes, i \in Inodes \ {Root}, n \in Names :
        /\ d = op.dir /\ i = op.num /\ n = op.name /\ ListedOnlyAt(i, d, n)
        /\ op \in Operation /\ Gone = i
  BY <1>1, DeletingType DEF Deleting, Gone
<1>3. IsDir(d) /\ EntrySlots(d, n) # {}
  BY <1>1, <1>2 DEF RemoveEntry
<1>4. PICK s \in Slots : s = Min(EntrySlots(d, n)) /\ s \in EntrySlots(d, n)
  BY <1>3, Sizes, MinInSet DEF EntrySlots
<1>5. PICK b \in Chained : b = inodes[d].first /\ b # 0
  BY <1>1, <1>3, FindType DEF IsDir, HasBlock
<1>6. PICK w \in Outcomes :
        /\ PutCell(w, b, s, ZeroCell)
        /\ Proceed(w, "dir_inode", [op EXCEPT !.node = inodes[d]])
        /\ harm' = IF w.hit THEN harm ELSE harm \cup Exposed
  BY <1>2, <1>3, <1>4, <1>5 DEF RemoveEntry
<1>7. w.hit
  BY <1>1, <1>6
<1>8. /\ \A c \in Chained \ {b} : blocks'[c] = blocks[c]
      /\ \A r \in Slots : blocks'[b][r] = IF r = s THEN ZeroCell ELSE blocks[b][r]
  BY <1>1, <1>6, <1>7, PutCellReads
<1>9. \A r \in Slots : CellAt(d, r)' = IF r = s THEN ZeroCell ELSE CellAt(d, r)
  BY <1>1, <1>5, <1>8 DEF CellAt
<1>10. \A e \in Inodes \ {d} : Kept(e)
  <2> SUFFICES ASSUME NEW e \in Inodes \ {d} PROVE Kept(e)
    OBVIOUS
  <2>1. inodes[e].first # b
    BY <1>5 DEF ClustersSound, OwnedOnce, HeadsApart
  <2>2. blocks'[inodes[e].first] = blocks[inodes[e].first]
    BY <1>1, <1>8, <2>1 DEF TypeOK, Inode
  <2> QED
    BY <1>1, <2>2 DEF Kept, IsDir, HasBlock, CellAt
<1>11. CellAt(d, s).name = n /\ CellAt(d, s).inode # 0 /\ Child(d, s) /\ ~Child(d, s)'
  <2>1. CellAt(d, s).name = n /\ CellAt(d, s).inode # 0
    BY <1>4, Zenon DEF CellAt, EntrySlots, Used
  <2>2. CellAt(d, s)' = ZeroCell /\ ZeroCell.name \notin Names
    BY <1>9, NamesPlain DEF ZeroCell
  <2> QED
    BY <1>3, <2>1, <2>2, SMTT(30) DEF Child
<1>12. \A e \in Inodes, r \in Slots :
         Child(e, r)' => Child(e, r) /\ CellAt(e, r)' = CellAt(e, r)
  <2> SUFFICES ASSUME NEW e \in Inodes, NEW r \in Slots, Child(e, r)'
               PROVE  Child(e, r) /\ CellAt(e, r)' = CellAt(e, r)
    OBVIOUS
  <2>1. CASE e # d
    BY <1>10, <2>1, KeptReads
  <2>2. CASE e = d
    <3>1. r # s /\ CellAt(d, r)' = CellAt(d, r)
      BY <1>9, <1>11, <2>2
    <3> QED
      BY <1>3, <2>2, <3>1 DEF Child
  <2> QED
    BY <2>1, <2>2
<1>13. \A t, e \in Inodes : DotsOf(t, e) => DotsOf(t, e)'
  <2> SUFFICES ASSUME NEW t \in Inodes, NEW e \in Inodes, DotsOf(t, e) PROVE DotsOf(t, e)'
    OBVIOUS
  <2>1. CASE t # d
    BY <1>10, <2>1, KeptReads
  <2>2. CASE t = d
    <3>1. CellAt(d, 1).name = "." /\ CellAt(d, 2).name = ".."
      BY <2>2 DEF DotsOf
    <3>2. s # 1 /\ s # 2
      BY <1>11, <3>1, NamesPlain
    <3>3. CellAt(d, 1)' = CellAt(d, 1) /\ CellAt(d, 2)' = CellAt(d, 2)
      BY <1>9, <3>2, Sizes
    <3>4. IsDir(d)'
      BY <1>1, <1>3 DEF IsDir, HasBlock
    <3> QED
      BY <2>2, <3>3, <3>4 DEF DotsOf
  <2> QED
    BY <2>1, <2>2
<1>14. Gone' = 0 /\ RootOK'
  BY <1>1, <1>6, RootMid DEF Gone, Proceed, Return
<1>15. TreeOK'
  <2>1. ASSUME NEW e \in Inodes, NEW t \in Inodes, NEW r \in Slots,
               Child(e, r)', CellAt(e, r).inode = t
        PROVE  t # i
    <3> SUFFICES ASSUME t = i PROVE FALSE
      OBVIOUS
    <3>1. Child(e, r)
      BY <1>12, <2>1
    <3>2. e = d /\ CellAt(d, r).name = n
      BY <1>2, <2>1, <3>1 DEF ListedOnlyAt
    <3>3. r = s
      BY <1>1, <1>11, <3>1, <3>2 DEF TreeOK, NamesApart
    <3> QED
      BY <1>11, <2>1, <3>2, <3>3
  <2> QED
    BY <1>1, <1>2, <1>12, <1>13, <2>1, TreeShrinks
<1>16. TreeLocals'
  <2>1. CASE Return
    BY <2>1, TreeGivenUp
  <2>2. CASE pc' = "dir_inode" /\ op' = [op EXCEPT !.node = inodes[d]]
    <3>1. op'.node = inodes[d] /\ op'.dir = d
      BY <1>2, <2>2 DEF Operation
    <3>2. EntryWritten'
      BY <1>1, <1>3, <3>1 DEF EntryWritten, IsDir
    <3> QED
      BY <2>2, <3>2 DEF TreeLocals, NewEntry, NewRoot, DotsWritten, EntryPlace, Leaving,
         FileKept, Deleting, Adding, MakingDots, MakingEntry, InCreate, Writing, Extending
  <2> QED
    BY <1>6, <2>1, <2>2 DEF Proceed
<1> QED
  BY <1>14, <1>15, <1>16 DEF TreeSound

-----------------------------------------------------------------------------
(* write_file. *)

LEMMA WritingOnly ==
  ASSUME pc' \in Extending, FileKept'
  PROVE  TreeLocals' /\ Gone' = 0
  BY DEF TreeLocals, NewEntry, NewRoot, DotsWritten, EntryPlace, EntryWritten, Leaving,
     Adding, MakingDots, MakingEntry, InCreate, Extending, Deleting, Gone

\* What write_file knows of the file.
LEMMA FileKnown ==
  ASSUME TypeInv, TreeSound, pc \in Extending
  PROVE  /\ op \in Operation /\ op.num \in Inodes /\ op.node \in Inode /\ Gone = 0
         /\ TypeOK /\ TreeOK /\ RootOK
         /\ inodes[op.num].type = FileType /\ op.node.type = FileType
         /\ pc = "data" => op.node.first # 0
         /\ op.node.first # 0 =>
              \A i \in Inodes :
                inodes[i].type = DirType => inodes[i].first \notin {op.cur, op.node.first}
<1>1. Writing /\ Gone = 0
  BY DEF Writing, Gone, Extending
<1>2. op \in Operation /\ op.node \in Inode /\ op.num \in Inodes /\ TypeOK
  BY DEF TypeInv, TypeOK, OpTyped, Operation
<1> QED
  BY <1>1, <1>2 DEF TreeSound, TreeLocals, FileKept

LEMMA WriteFileTree ==
  ASSUME TypeInv, ClustersSound, TreeSound, NEW p, NEW append, NEW len,
         WriteFile(p, append, len)
  PROVE  TreeSound'
<1>1. /\ UNCHANGED <<inodes, blocks, mounted, todo>> /\ pc = "idle" /\ mounted
      /\ pc' = "seek" /\ Gone = 0 /\ RootOK
  BY DEF WriteFile, AtPrompt, disk, Gone, TreeSound
<1>2. PICK i \in Inodes : \E idx, off :
        /\ inodes[i].type = FileType
        /\ op' = [NoOp EXCEPT !.num = i, !.node = inodes[i], !.cur = inodes[i].first,
                              !.idx = idx, !.off = off, !.len = len]
  BY DEF WriteFile
<1>3. /\ op'.num = i /\ op'.node = inodes[i] /\ op'.cur = inodes[i].first
      /\ inodes[i].type = FileType
  BY <1>2 DEF NoOp
<1>4. FileKept'
  <2>1. inodes[i].first # 0 =>
          \A j \in Inodes : inodes[j].type = DirType => inodes[j].first # inodes[i].first
    BY <1>3 DEF ClustersSound, OwnedOnce, HeadsApart, FileType, DirType
  <2> QED
    BY <1>1, <1>3, <2>1 DEF FileKept
<1>5. RootOK'
  BY <1>1 DEF RootOK
<1> QED
  BY <1>1, <1>4, <1>5, WritingOnly, QuietTree DEF Extending

LEMMA SeekTree == ASSUME TypeInv, ClustersSound, TreeSound, Seek PROVE TreeSound'
<1>1. pc = "seek" /\ UNCHANGED <<fat, inodes, blocks, mounted, todo>>
  BY DEF Seek, disk
<1>2. /\ op \in Operation /\ op.node \in Inode /\ Gone = 0 /\ TypeOK /\ RootOK
      /\ inodes[op.num].type = FileType /\ op.node.type = FileType
      /\ op.node.first # 0 =>
           \A i \in Inodes :
             inodes[i].type = DirType => inodes[i].first \notin {op.cur, op.node.first}
  BY <1>1, FileKnown DEF Extending
<1>3. op.node.first # 0 => InUse(op.cur)
  BY <1>1, ExtendingClusters DEF Extending
<1>4. \/ pc' = "alloc" /\ op' \in {Fresh("first"), Fresh("link")}
      \/ /\ pc' = "seek" /\ op.node.first # 0 /\ fat[op.cur] # FAT_EOF
         /\ op' = [op EXCEPT !.cur = fat[op.cur], !.pos = @ + 1]
      \/ pc' = "data" /\ op.node.first # 0 /\ op' = op
  BY DEF Seek
<1>5. /\ op'.num = op.num /\ op'.node = op.node /\ pc' \in {"alloc", "seek", "data"}
      /\ pc' = "alloc" => op'.ret \in {"first", "link"}
      /\ pc' = "data" => op.node.first # 0
      /\ op'.cur = op.cur \/ (op'.cur = fat[op.cur] /\ op.node.first # 0 /\ fat[op.cur] # FAT_EOF)
  BY <1>2, <1>4 DEF Fresh, Operation
<1>6. op.node.first # 0 =>
        \A i \in Inodes : inodes[i].type = DirType => inodes[i].first # op'.cur
  <2> SUFFICES ASSUME op.node.first # 0, op'.cur = fat[op.cur], fat[op.cur] # FAT_EOF,
                      NEW i \in Inodes
               PROVE  inodes[i].first # op'.cur
    BY <1>2, <1>5
  <2>1. op.cur \in Clusters /\ fat[op.cur] # FAT_FREE
    BY <1>3 DEF InUse
  <2>2. fat[op.cur] \in Clusters
    BY <1>2, <2>1 DEF TypeOK, Chained, FAT_FREE
  <2> QED
    BY <2>1, <2>2 DEF ClustersSound, OwnedOnce, HeadsAreNoLinks
<1>7. FileKept'
  BY <1>1, <1>2, <1>5, <1>6 DEF FileKept
<1>8. RootOK'
  BY <1>1, <1>2, RootMid
<1>9. TreeLocals' /\ Gone' = 0
  BY <1>5, <1>7 DEF TreeLocals, NewEntry, NewRoot, DotsWritten, EntryPlace, EntryWritten,
     Leaving, Adding, MakingDots, MakingEntry, InCreate, Deleting, Gone
<1> QED
  BY <1>1, <1>2, <1>8, <1>9, QuietTree

LEMMA SetFirstTree == ASSUME TypeInv, ClustersSound, TreeSound, SetFirst PROVE TreeSound'
<1>1. pc = "first" /\ pc' = "seek" /\ UNCHANGED <<inodes, blocks, mounted, todo>>
  BY DEF SetFirst, disk
<1>2. /\ op \in Operation /\ op.node \in Inode /\ Gone = 0 /\ RootOK
      /\ inodes[op.num].type = FileType /\ op.node.type = FileType
  BY <1>1, FileKnown DEF Extending
<1>3. Held(op.new)
  BY <1>1 DEF ClustersSound, LocalsSound, NewHeld
<1>4. /\ op'.node.first = op.new /\ op'.node.type = op.node.type /\ op'.cur = op.new
      /\ op'.num = op.num
  BY <1>2 DEF SetFirst, Operation, Inode
<1>5. FileKept'
  BY <1>1, <1>2, <1>3, <1>4 DEF FileKept, Held, Unowned
<1>6. RootOK'
  BY <1>1, <1>2, RootMid
<1> QED
  BY <1>1, <1>2, <1>5, <1>6, WritingOnly, QuietTree DEF Extending

LEMMA LinkTree == ASSUME TypeInv, ClustersSound, TreeSound, LinkCluster PROVE TreeSound'
<1>1. pc = "link" /\ UNCHANGED <<inodes, blocks, mounted, todo>>
  BY DEF LinkCluster
<1>2. /\ op \in Operation /\ Gone = 0 /\ RootOK
      /\ inodes[op.num].type = FileType /\ op.node.type = FileType
      /\ op.node.first # 0 =>
           \A i \in Inodes : inodes[i].type = DirType => inodes[i].first # op.node.first
  BY <1>1, FileKnown DEF Extending
<1>3. Held(op.new)
  BY <1>1 DEF ClustersSound, LocalsSound, NewHeld
<1>4. RootOK'
  BY <1>1, <1>2, RootMid
<1>5. \/ Return
      \/ pc' = "seek" /\ op' = [op EXCEPT !.cur = op.new, !.pos = @ + 1]
  BY DEF LinkCluster, Proceed
<1>6. CASE pc' = "seek" /\ op' = [op EXCEPT !.cur = op.new, !.pos = @ + 1]
  <2>1. op'.num = op.num /\ op'.node = op.node /\ op'.cur = op.new
    BY <1>2, <1>6 DEF Operation
  <2>2. FileKept'
    BY <1>1, <1>2, <1>3, <1>6, <2>1 DEF FileKept, Held, Unowned
  <2> QED
    BY <1>1, <1>2, <1>4, <1>6, <2>2, WritingOnly, QuietTree DEF Extending
<1> QED
  BY <1>1, <1>2, <1>4, <1>5, <1>6, TreeGivenUp, QuietTree

LEMMA WriteDataTree == ASSUME TypeInv, TreeSound, WriteData PROVE TreeSound'
<1>1. pc = "data" /\ UNCHANGED <<inodes, mounted, todo>>
  BY DEF WriteData
<1>2. /\ op \in Operation /\ Gone = 0 /\ TypeOK /\ TreeOK /\ RootOK
      /\ inodes[op.num].type = FileType /\ op.node.type = FileType /\ op.node.first # 0
      /\ \A i \in Inodes :
           inodes[i].type = DirType => inodes[i].first \notin {op.cur, op.node.first}
  BY <1>1, FileKnown DEF Extending
<1>3. \A c \in Chained \ {op.cur} : blocks'[c] = blocks[c]
  <2>1. PICK w \in Outcomes : \E new : PutBlock(w, op.cur, new)
    BY DEF WriteData
  <2> QED
    BY <1>2, <2>1, PutBlockReads
<1>4. \A d \in Inodes : Kept(d)
  BY <1>1, <1>2, <1>3, OtherBlock DEF IsDir
<1>5. RootOK'
  BY <1>1, <1>2, RootMid
<1>6. \/ Return
      \/ pc' = "size" /\ op' = op
      \/ /\ pc' = "seek"
         /\ op' = [op EXCEPT !.idx = @ + 1, !.pos = 0, !.cur = op.node.first]
  BY DEF WriteData, Proceed
<1>7. TreeLocals' /\ Gone' = 0
  <2>1. CASE Return
    BY <2>1, TreeGivenUp
  <2>2. CASE ~Return
    <3>1. /\ op'.num = op.num /\ op'.node = op.node /\ op'.cur \in {op.cur, op.node.first}
          /\ pc' \in {"size", "seek"}
      BY <1>2, <1>6, <2>2 DEF Operation
    <3>2. FileKept'
      BY <1>1, <1>2, <3>1 DEF FileKept
    <3> QED
      BY <3>1, <3>2, WritingOnly DEF Extending
  <2> QED
    BY <2>1, <2>2
<1> QED
  BY <1>1, <1>2, <1>4, <1>5, <1>7, TreeKept DEF TreeSound

LEMMA WriteSizeTree == ASSUME TypeInv, TreeSound, WriteSize PROVE TreeSound'
<1>1. pc = "size" /\ UNCHANGED <<blocks, mounted, todo>> /\ TreeLocals' /\ Gone' = 0
  BY TreeGivenUp DEF WriteSize
<1>2. /\ op.num \in Inodes /\ op.node \in Inode /\ Gone = 0 /\ TypeOK /\ TreeOK /\ RootOK
      /\ inodes[op.num].type = FileType /\ op.node.type = FileType
  BY <1>1, FileKnown DEF Extending
<1>3. PICK i \in Inodes : i = op.num
  BY <1>2
<1>4. PICK w \in Outcomes : \E size : PutInode(w, i, [op.node EXCEPT !.size = size])
  BY <1>3 DEF WriteSize
<1>5. PICK node : PutInode(w, i, node) /\ node.type = FileType
  <2>1. PICK size : PutInode(w, i, [op.node EXCEPT !.size = size])
    BY <1>4
  <2>2. [op.node EXCEPT !.size = size].type = FileType
    BY <1>2 DEF Inode
  <2> QED
    BY <2>1, <2>2
<1>6. /\ \A e \in Inodes \ {i} : Kept(e) /\ inodes'[e] = inodes[e]
      /\ inodes'[i].type = FileType
  <2>1. /\ \A e \in Inodes \ {i} : Kept(e) /\ inodes'[e] = inodes[e]
        /\ inodes'[i] = IF w.hit THEN node ELSE inodes[i]
    BY <1>1, <1>2, <1>5, OtherInodes
  <2>2. inodes[i].type = FileType
    BY <1>2, <1>3
  <2> QED
    BY <1>5, <2>1, <2>2
<1>7. Kept(i)
  BY <1>2, <1>3, <1>6 DEF Kept, IsDir, FileType, DirType
<1>8. \A t \in Inodes : inodes'[t].type = inodes[t].type
  BY <1>2, <1>3, <1>6
<1>9. RootOK'
  BY <1>1, <1>2, <1>8, Sizes, RootMid
<1>10. TreeOK'
  BY <1>1, <1>2, <1>6, <1>7, <1>8, TreeKept
<1> QED
  BY <1>1, <1>9, <1>10 DEF TreeSound

-----------------------------------------------------------------------------
(* Losing power, and formatting. *)

\* What was half removed when power went is harm, so no entry is left behind.
LEMMA PowerLossTree == ASSUME TypeInv, TreeSound, PowerLoss, Sound' PROVE TreeSound'
<1>1. /\ UNCHANGED <<inodes, blocks>> /\ pc' = "mount" /\ todo' = <<>> /\ mounted' = FALSE
      /\ harm' = harm \cup Exposed
  BY DEF PowerLoss, disk
<1>2. Gone = 0
  BY <1>1 DEF Gone, Exposed, Sound
<1>3. TreeLocals' /\ Gone' = 0
  BY <1>1, TreeLocalsSettled DEF Steps, Deleting, Extending
<1>4. RootOK'
  BY <1>1 DEF TreeSound, RootOK
<1> QED
  BY <1>1, <1>2, <1>3, <1>4, QuietTree

\* A formatted disk has a root without a block, and nothing else.
LEMMA FormatRootTree ==
  ASSUME TypeInv, Formatted, FormatRoot, Sound' PROVE TreeSound'
<1>1. /\ pc = "fmt_root" /\ UNCHANGED <<blocks, mounted, todo>>
      /\ inodes \in [Inodes -> Inode]
      /\ \A i \in Inodes : inodes[i] = ZeroInode
  BY DEF FormatRoot, Formatted, TypeInv, TypeOK
<1>2. PICK w \in Outcomes :
        /\ PutInode(w, Root, [ZeroInode EXCEPT !.type = DirType])
        /\ Proceed(w, "alloc", [NoOp EXCEPT !.dir = Root, !.num = Root, !.ret = "dots"])
        /\ harm' = IF w.ok THEN {} ELSE harm \cup Exposed
  BY DEF FormatRoot
<1>3. w.ok /\ w.hit
  BY <1>1, <1>2, OutcomeType DEF Exposed, Formatting, Sound
<1>4. pc' = "alloc" /\ op'.ret = "dots" /\ op'.num = Root /\ op'.name = ""
  BY <1>2, <1>3 DEF Proceed, NoOp
<1>5. inodes'[Root].type = DirType /\ \A i \in Inodes : inodes'[i].first = 0
  BY <1>1, <1>2, <1>3, Sizes DEF PutInode, ZeroInode
<1>6. \A d \in Inodes, s \in Slots : ~Child(d, s)'
  BY <1>5 DEF Child, IsDir, HasBlock
<1>7. TreeOK'
  <2>1. ChildrenLead' /\ ChildrenAgree'
    BY <1>6 DEF ChildrenLead, ChildrenAgree
  <2>2. ListedOnce' /\ NamesApart'
    BY <1>6 DEF ListedOnce, NamesApart
  <2> QED
    BY <2>1, <2>2 DEF TreeOK
<1>8. RootOK'
  BY <1>1, <1>5 DEF RootOK
<1>9. TreeLocals'
  BY <1>4 DEF TreeLocals, NewEntry, NewRoot, DotsWritten, EntryPlace, EntryWritten, Leaving,
     FileKept, Deleting, Adding, MakingDots, MakingEntry, InCreate, Writing, Extending
<1> QED
  BY <1>7, <1>8, <1>9 DEF TreeSound

-----------------------------------------------------------------------------
LEMMA InitTree == Init => TreeInv
<1> SUFFICES ASSUME Init PROVE TreeInv
  OBVIOUS
<1>1. /\ pc = "mount" /\ todo = <<>> /\ mounted = FALSE
      /\ \A i \in Inodes : inodes[i].type # DirType
  BY DEF Init, ZeroInode, FreeType, DirType
<1>2. \A d \in Inodes, s \in Slots : ~Child(d, s)
  BY <1>1 DEF Child, IsDir
<1>3. TreeOK
  <2>1. ChildrenLead /\ ChildrenAgree
    BY <1>2 DEF ChildrenLead, ChildrenAgree
  <2>2. ListedOnce /\ NamesApart
    BY <1>2 DEF ListedOnce, NamesApart
  <2> QED
    BY <2>1, <2>2 DEF TreeOK
<1>4. blocks[0][1] # Magic
  <2>1. blocks[0][1] = ZeroCell
    BY Sizes DEF Init, Chained, ZeroBlock
  <2>2. ZeroCell.name # Magic.name
    BY DEF ZeroCell, Magic
  <2> QED
    BY <2>1, <2>2
<1>5. RootOK /\ LayoutMounted
  BY <1>1, <1>4 DEF RootOK, LayoutMounted
<1>6. TreeLocals
  BY <1>1 DEF TreeLocals, NewEntry, NewRoot, DotsWritten, EntryPlace, EntryWritten, Leaving,
     FileKept, Deleting, Adding, MakingDots, MakingEntry, InCreate, Writing, Extending
<1> QED
  BY <1>3, <1>5, <1>6 DEF TreeInv, TreeSound

\* Only a mount makes a layout to ensure, and only a loss of power unmounts.
LEMMA NextLayout == ASSUME LayoutMounted, [Next]_vars PROVE LayoutMounted'
<1>1. CASE Mount \/ Remount \/ EnsureDir
  BY <1>1 DEF Mount, Remount, EnsureDir, LayoutMounted
<1>2. CASE PowerLoss
  BY <1>2 DEF PowerLoss, LayoutMounted
<1>3. CASE UNCHANGED <<mounted, todo>>
  BY <1>3 DEF LayoutMounted
<1>4. FormatSuperblock \/ FormatFat \/ FormatInodes \/ FormatReserved \/ FormatRoot =>
        UNCHANGED <<mounted, todo>>
  BY DEF FormatSuperblock, FormatFat, FormatInodes, FormatReserved, FormatRoot
<1>5. Continue => UNCHANGED <<mounted, todo>>
  BY DEF Continue, AllocCluster, ZeroCluster, MarkInode, WriteDots, WriteDotsInode,
     AddEntryStart, WriteEntry, WriteDirInode, FreeCluster, FreeInode, RemoveEntry, Seek,
     SetFirst, LinkCluster, WriteData, WriteSize
<1>6. Command => UNCHANGED <<mounted, todo>>
  BY CommandKinds DEF Create, CreateUnseen, RemovePath, WriteFile
<1>7. UNCHANGED vars => UNCHANGED <<mounted, todo>>
  BY DEF vars, memory
<1> QED
  BY <1>1, <1>2, <1>3, <1>4, <1>5, <1>6, <1>7 DEF Next, Boot

\* One case per action.
LEMMA NextTree == ASSUME TypeInv, ClusterInv, TreeInv, [Next]_vars PROVE TreeInv'
<1>1. LayoutMounted /\ LayoutMounted'
  BY NextLayout DEF TreeInv
<1> SUFFICES ASSUME Sound' PROVE TreeSound'
  BY <1>1 DEF TreeInv
<1>2. CASE FormatRoot
  BY <1>2, FormatRootTree DEF ClusterInv
<1>3. CASE ~FormatRoot
  <2>1. TreeSound /\ ClustersSound /\ ~Formatting
    BY <1>3, HarmGrows DEF ClusterInv, TreeInv, Sound
  <2>2. CASE Boot
    <3>1. ~FormatFat /\ ~FormatInodes /\ ~FormatReserved
      BY <2>1 DEF FormatFat, FormatInodes, FormatReserved, Formatting
    <3> QED
      BY <1>1, <1>3, <2>1, <2>2, <3>1, MountTree, FormatSuperblockTree, EnsureTree DEF Boot
  <2>3. CASE Continue
    BY <2>1, <2>3, AllocTree, ZeroTree, MarkTree, WriteDotsTree, WriteDotsInodeTree,
       AddEntryTree, WriteEntryTree, WriteDirInodeTree, ChainTree, FreeInodeTree,
       RemoveEntryTree, SeekTree, SetFirstTree, LinkTree, WriteDataTree, WriteSizeTree
       DEF Continue
  <2>4. CASE Command
    <3>1. \A p, n, k : ~CreateUnseen(p, n, k)
      BY DEF CreateUnseen, Sound
    <3> QED
      BY <2>1, <2>4, <3>1, CommandKinds, CreateTree, RemovePathTree, WriteFileTree
  <2>5. CASE PowerLoss
    BY <2>1, <2>5, PowerLossTree
  <2>6. CASE UNCHANGED vars
    <3>1. UNCHANGED <<inodes, blocks, mounted, pc, op>>
      BY <2>6 DEF vars, disk, memory
    <3>2. TreeOK' /\ RootOK'
      <4>1. ChildrenLead' /\ ChildrenAgree'
        BY <2>1, <3>1
           DEF TreeSound, TreeOK, ChildrenLead, ChildrenAgree, Child, CellAt, DotsOf,
           IsDir, HasBlock, Gone
      <4>2. ListedOnce' /\ NamesApart'
        BY <2>1, <3>1 DEF TreeSound, TreeOK, ListedOnce, NamesApart, Child, CellAt, IsDir,
           HasBlock
      <4>3. RootOK'
        BY <2>1, <3>1 DEF TreeSound, RootOK
      <4> QED
        BY <4>1, <4>2, <4>3 DEF TreeOK
    <3>3. TreeLocals'
      <4>1. NewEntry' /\ NewRoot' /\ EntryWritten'
        BY <2>1, <3>1 DEF TreeSound, TreeLocals, NewEntry, NewRoot, EntryWritten, Adding,
           MakingDots, MakingEntry, InCreate, Unlisted, NameFree, Ready, DotsOf, Child, CellAt,
           IsDir, HasBlock
      <4>2. DotsWritten' /\ EntryPlace'
        BY <2>1, <3>1
           DEF TreeSound, TreeLocals, DotsWritten, EntryPlace, MakingEntry, InCreate,
           HasBlock, NoChildIn
      <4>3. Leaving' /\ FileKept'
        BY <2>1, <3>1 DEF TreeSound, TreeLocals, Leaving, ListedOnlyAt, Child, CellAt, IsDir,
           HasBlock, FileKept, Writing
      <4> QED
        BY <4>1, <4>2, <4>3, SMTT(30) DEF TreeLocals
    <3> QED
      BY <3>2, <3>3 DEF TreeSound
  <2> QED
    BY <2>2, <2>3, <2>4, <2>5, <2>6 DEF Next
<1> QED
  BY <1>2, <1>3

\* The inductive invariant holds in every reachable state.
THEOREM TreeInvariant == Spec => [](TypeInv /\ ClusterInv /\ TreeInv)
<1>1. Init => TypeInv /\ ClusterInv /\ TreeInv
  BY InitType, InitClusters, InitTree
<1>2. TypeInv /\ ClusterInv /\ TreeInv /\ [Next]_vars => (TypeInv /\ ClusterInv /\ TreeInv)'
  BY NextType, NextClusters, NextTree
<1> QED
  BY <1>1, <1>2, PTL DEF Spec

-----------------------------------------------------------------------------
(* What it says of the entries on the disk. *)

LEMMA ChildrenAre ==
  ASSUME NEW e \in Children
  PROVE  /\ e[1] \in Inodes /\ e[2] \in Slots /\ e = <<e[1], e[2]>>
         /\ Child(e[1], e[2]) /\ At(e) = CellAt(e[1], e[2])
<1>1. /\ e \in Inodes \X Slots /\ IsDir(e[1]) /\ At(e).name \in Names /\ At(e).inode # 0
  BY DEF Children, Entries, At, Used
<1>2. e[1] \in Inodes /\ e[2] \in Slots /\ e = <<e[1], e[2]>>
  BY <1>1
<1> QED
  BY <1>1, <1>2 DEF At, Child, CellAt

\* Whatever is interrupted, a file system that mounts has a directory for a root.
THEOREM RootStays == Spec => []RootIsDirectory
<1>1. TypeInv /\ ClusterInv /\ TreeInv => RootIsDirectory
  BY DEF TreeInv, TreeSound, RootOK, RootIsDirectory
<1> QED
  BY <1>1, TreeInvariant, PTL

\* The name create_* has found to be free is still free when dir_add_entry takes a
\* slot for it, several writes later: no directory holds two entries of one name.
THEOREM NamesAreUnique == Spec => []NamesUnique
<1>1. TypeInv /\ ClusterInv /\ TreeInv => NamesUnique
  <2> SUFFICES ASSUME NamesApart, NEW e \in Children, NEW f \in Children,
                      e[1] = f[1], At(e).name = At(f).name
               PROVE  e = f
    BY DEF TreeInv, TreeSound, TreeOK, NamesUnique
  <2>1. e[2] = f[2]
    BY ChildrenAre DEF NamesApart
  <2> QED
    BY <2>1, ChildrenAre
<1> QED
  BY <1>1, TreeInvariant, PTL

\* No sequence of creations, removals and interruptions lists an inode twice, and
\* nothing lists the root.
THEOREM NoAliases == Spec => []OneEntryPerInode
<1>1. TypeInv /\ ClusterInv /\ TreeInv => OneEntryPerInode
  <2> SUFFICES ASSUME TreeOK, NEW e \in Children, NEW f \in Children
               PROVE  At(e).inode # Root /\ (At(e).inode = At(f).inode => e = f)
    BY DEF TreeInv, TreeSound, OneEntryPerInode
  <2>1. At(e).inode # Root
    BY ChildrenAre DEF TreeOK, ChildrenLead
  <2>2. ASSUME At(e).inode = At(f).inode PROVE e = f
    <3>1. e[1] = f[1] /\ e[2] = f[2]
      BY <2>2, ChildrenAre DEF TreeOK, ListedOnce
    <3> QED
      BY <3>1, ChildrenAre
  <2> QED
    BY <2>1, <2>2
<1> QED
  BY <1>1, TreeInvariant, PTL

\* Every entry leads to an inode in use, of its type, except the one remove_path
\* has freed and is about to clear: what is half made is not listed yet.
THEOREM EntriesLead == Spec => []EntriesAgree
<1>1. TypeInv /\ ClusterInv /\ TreeInv => EntriesAgree
  <2> SUFFICES ASSUME TreeOK, NEW e \in Children, At(e).inode # Removing
               PROVE  At(e).inode \in Inodes /\ inodes[At(e).inode].type = At(e).type
    BY DEF TreeInv, TreeSound, EntriesAgree
  <2>1. PICK t \in Inodes : t = At(e).inode
    BY ChildrenAre DEF TreeOK, ChildrenLead
  <2>2. t # Gone
    BY <2>1, Sizes DEF Gone, Removing
  <2> QED
    BY <2>1, <2>2, ChildrenAre DEF TreeOK, ChildrenAgree
<1> QED
  BY <1>1, TreeInvariant, PTL

\* Where the dots of a directory lead.
LEMMA DotsAreFound ==
  ASSUME NEW t \in Inodes, NEW d \in Inodes, DotsOf(t, d)
  PROVE  IsDir(t) /\ Find(t, ".").inode = t /\ Find(t, "..").inode = d
<1>1. IsDir(t) /\ t # 0 /\ d # 0 /\ "." # "" /\ ".." # "" /\ "." # ".."
  BY Sizes DEF DotsOf
<1>2. /\ CellAt(t, 1).inode = t /\ CellAt(t, 1).name = "."
      /\ CellAt(t, 2).inode = d /\ CellAt(t, 2).name = ".."
  BY DEF DotsOf
<1>3. ASSUME NEW n, NEW s \in Slots, s \in EntrySlots(t, n),
             \A r \in Slots : r < s => r \notin EntrySlots(t, n)
      PROVE  Find(t, n) = CellAt(t, s)
  <2>1. Min(EntrySlots(t, n)) \in EntrySlots(t, n)
    BY <1>3, Sizes, MinInSet DEF EntrySlots
  <2>2. EntrySlots(t, n) \subseteq Slots
    BY DEF EntrySlots
  <2>3. \A r \in EntrySlots(t, n) : Min(EntrySlots(t, n)) <= r
    BY <1>3, <2>2, Sizes, MinInSet
  <2>4. Min(EntrySlots(t, n)) = s
    <3>1. PICK m \in Slots : m = Min(EntrySlots(t, n)) /\ m \in EntrySlots(t, n)
      BY <2>1, <2>2
    <3>2. m <= s /\ ~ m < s /\ m \in Nat /\ s \in Nat
      BY <1>3, <2>3, <3>1, Sizes
    <3> QED
      BY <3>1, <3>2
  <2> QED
    BY <1>1, <1>3, <2>4 DEF Find, CellAt
<1>4. Find(t, ".").inode = t
  <2>1. 1 \in EntrySlots(t, ".")
    BY <1>1, <1>2, Sizes DEF EntrySlots, CellAt, Used
  <2>2. \A r \in Slots : ~ r < 1
    BY DEF Slots
  <2> QED
    BY <1>2, <1>3, <2>1, <2>2, Sizes
<1>5. Find(t, "..").inode = d
  <2>1. 2 \in EntrySlots(t, "..") /\ 1 \notin EntrySlots(t, "..")
    BY <1>1, <1>2, Sizes DEF EntrySlots, CellAt, Used
  <2>2. \A r \in Slots : r < 2 => r = 1
    BY DEF Slots
  <2> QED
    BY <1>2, <1>3, <2>1, <2>2, Sizes
<1> QED
  BY <1>1, <1>4, <1>5

\* ".." leads to the directory that lists this one: the parent of a directory is
\* settled before its first block is written and stays.
THEOREM ParentsAgree == Spec => []DotDotAgrees
<1>1. TypeInv /\ ClusterInv /\ TreeInv => DotDotAgrees
  <2> SUFFICES ASSUME TreeOK, NEW e \in Children, At(e).type = DirType,
                      At(e).inode # Removing
               PROVE  /\ IsDir(At(e).inode)
                      /\ Find(At(e).inode, ".").inode = At(e).inode
                      /\ Find(At(e).inode, "..").inode = e[1]
    BY DEF TreeInv, TreeSound, DotDotAgrees
  <2>1. PICK t \in Inodes : t = At(e).inode
    BY ChildrenAre DEF TreeOK, ChildrenLead
  <2>2. t # Gone
    BY <2>1, Sizes DEF Gone, Removing
  <2>3. DotsOf(t, e[1]) /\ e[1] \in Inodes
    BY <2>1, <2>2, ChildrenAre DEF TreeOK, ChildrenAgree
  <2> QED
    BY <2>1, <2>3, DotsAreFound
<1> QED
  BY <1>1, TreeInvariant, PTL

-----------------------------------------------------------------------------
(***************************************************************************)
(* Paths.                                                                  *)
(*                                                                         *)
(* walk_path goes from the root through one entry after another.  A write  *)
(* changes at most one entry, so a step changes at most one path if no two *)
(* paths lead to one directory, and takes away no path below it if what it *)
(* leads to lists nothing.                                                 *)
(***************************************************************************)


LEMMA PathsAre == \A p : p \in Paths <=> p \in Seq(Names) /\ Len(p) <= MaxDepth
<1>1. Paths = UNION {[1..m -> Names] : m \in 0..MaxDepth}
  BY Zenon DEF Paths, BoundedSeq, SeqOf
<1>2. ASSUME NEW p \in Paths PROVE p \in Seq(Names) /\ Len(p) <= MaxDepth
  <2>1. PICK m \in 0..MaxDepth : p \in [1..m -> Names]
    BY <1>1
  <2>2. m \in Nat /\ m <= MaxDepth
    BY <2>1, BoundAssumption
  <2> QED
    BY <2>1, <2>2
<1>3. ASSUME NEW p \in Seq(Names), Len(p) <= MaxDepth PROVE p \in Paths
  <2>1. Len(p) \in 0..MaxDepth /\ p \in [1..Len(p) -> Names]
    BY <1>3, BoundAssumption
  <2> QED
    BY <1>1, <2>1
<1> QED
  BY <1>2, <1>3

LEMMA Appended ==
  ASSUME NEW V, NEW s \in Seq(V), NEW v \in V
  PROVE  /\ Append(s, v) \in Seq(V) /\ Len(Append(s, v)) = Len(s) + 1 /\ Len(s) \in Nat
         /\ Append(s, v)[Len(s) + 1] = v /\ \A k \in 1..Len(s) : Append(s, v)[k] = s[k]
  OBVIOUS

LEMMA Prefixed ==
  ASSUME NEW V, NEW s \in Seq(V), NEW k \in Nat, k <= Len(s)
  PROVE  /\ SubSeq(s, 1, k) \in Seq(V) /\ Len(SubSeq(s, 1, k)) = k
         /\ \A i \in 1..k : SubSeq(s, 1, k)[i] = s[i]
  OBVIOUS

LEMMA FrontIs ==
  ASSUME NEW p \in Seq(Names), p # << >>
  PROVE  /\ Front(p) \in Seq(Names) /\ Last(p) \in Names
         /\ Len(p) \in Nat /\ Len(p) >= 1 /\ Len(Front(p)) = Len(p) - 1
         /\ \A k \in 1..(Len(p) - 1) : Front(p)[k] = p[k]
         /\ Last(p) = p[Len(p)] /\ p = Append(Front(p), Last(p))
<1>1. Len(p) \in Nat /\ Len(p) >= 1
  OBVIOUS
<1>2. /\ Front(p) \in Seq(Names) /\ Len(Front(p)) = Len(p) - 1
      /\ \A k \in 1..(Len(p) - 1) : Front(p)[k] = p[k]
  <2>1. PICK k \in Nat : k = Len(p) - 1
    BY <1>1
  <2>2. k <= Len(p) /\ Front(p) = SubSeq(p, 1, k)
    BY <1>1, <2>1 DEF Front
  <2>3. k <= Len(p)
    BY <2>2
  <2>4. /\ SubSeq(p, 1, k) \in Seq(Names) /\ Len(SubSeq(p, 1, k)) = k
        /\ \A i \in 1..k : SubSeq(p, 1, k)[i] = p[i]
    BY <2>3, Prefixed
  <2> QED
    BY <2>1, <2>2, <2>4
<1>3. Last(p) = p[Len(p)] /\ Last(p) \in Names
  BY <1>1 DEF Last
<1>4. p = Append(Front(p), Last(p))
  <2>1. PICK f \in Seq(Names) : f = Front(p)
    BY <1>2
  <2>2. PICK l \in Names : l = Last(p)
    BY <1>3
  <2>3. /\ Append(f, l) \in Seq(Names) /\ Len(Append(f, l)) = Len(f) + 1
        /\ \A k \in 1..Len(f) : Append(f, l)[k] = f[k]
        /\ Append(f, l)[Len(f) + 1] = l
    OBVIOUS
  <2>4. Len(Append(f, l)) = Len(p)
    BY <1>1, <1>2, <2>1, <2>3
  <2>5. \A k \in 1..Len(p) : Append(f, l)[k] = p[k]
    BY <1>1, <1>2, <1>3, <2>1, <2>2, <2>3
  <2> QED
    BY <2>1, <2>2, <2>3, <2>4, <2>5
<1> QED
  BY <1>1, <1>2, <1>3, <1>4

LEMMA AppendIs ==
  ASSUME NEW p \in Seq(Names), NEW n \in Names
  PROVE  /\ Append(p, n) \in Seq(Names) /\ Append(p, n) # << >>
         /\ Len(Append(p, n)) = Len(p) + 1 /\ Front(Append(p, n)) = p /\ Last(Append(p, n)) = n
<1>1. PICK q \in Seq(Names) : q = Append(p, n)
  BY Appended
<1>2. /\ Len(q) = Len(p) + 1 /\ Len(p) \in Nat /\ q[Len(p) + 1] = n
      /\ \A k \in 1..Len(p) : q[k] = p[k]
  BY <1>1, Appended
<1>3. q # << >>
  BY <1>2
<1>4. Last(q) = n
  BY <1>2 DEF Last
<1>5. Front(q) = p
  <2>1. PICK f \in Seq(Names) : f = Front(q)
    BY <1>3, FrontIs
  <2>2. Len(f) = Len(q) - 1 /\ \A k \in 1..(Len(q) - 1) : f[k] = q[k]
    BY <1>3, <2>1, FrontIs
  <2>3. Len(f) = Len(p) /\ \A k \in 1..Len(p) : f[k] = p[k]
    BY <1>2, <2>2
  <2> QED
    BY <2>1, <2>3
<1> QED
  BY <1>1, <1>2, <1>3, <1>4, <1>5

\* What holds of the empty path, and of each path when of the one before its last
\* name, holds of every path.
LEMMA PathInduction ==
  ASSUME NEW S, << >> \in S,
         \A p \in Seq(Names) : p # << >> /\ Front(p) \in S => p \in S
  PROVE  \A p \in Seq(Names) : p \in S
<1> SUFFICES ASSUME NEW q \in Seq(Names), q \notin S PROVE FALSE
  OBVIOUS
<1> DEFINE Bad(n) == \E p \in Seq(Names) : p \notin S /\ Len(p) = n
<1>1. PICK B : B = {n \in Nat : Bad(n)}
  OBVIOUS
<1>2. B \subseteq Nat /\ B # {}
  BY <1>1
<1>3. PICK m : m = Min(B)
  OBVIOUS
<1>4. m \in B /\ \A y \in B : m =< y
  BY <1>2, <1>3, MinInSet
<1>5. PICK p \in Seq(Names) : p \notin S /\ Len(p) = m
  BY <1>1, <1>4
<1>6. p # << >>
  BY <1>5
<1>7. Front(p) \in Seq(Names) /\ Len(Front(p)) \in Nat /\ ~ m =< Len(Front(p))
  BY <1>5, <1>6, FrontIs
<1>8. Front(p) \notin S
  BY <1>5, <1>6
<1>9. Bad(Len(Front(p)))
  BY <1>7, <1>8
<1> QED
  BY <1>1, <1>4, <1>7, <1>9

-----------------------------------------------------------------------------
(* walk_path. *)

\* f is the way of walk_path along p: the inode it has come to after each name.
Follows(f, p) ==
  f = [k \in 0..Len(p) |->
         IF k = 0 THEN Root ELSE IF f[k - 1] = 0 THEN 0 ELSE Find(f[k - 1], p[k]).inode]

LEMMA WalkFollows ==
  ASSUME NEW p, \E f : Follows(f, p)
  PROVE  \E f : Follows(f, p) /\ Walk(p) = f[Len(p)]
<1> DEFINE at == CHOOSE f : Follows(f, p)
<1>1. Follows(at, p)
  BY Zenon
<1>2. Walk(p) = at[Len(p)]
  BY Zenon DEF Walk, Follows
<1> QED
  BY <1>1, <1>2, Zenon

Step(i, n) == IF i = 0 THEN 0 ELSE Find(i, n).inode

LEMMA FollowsIs ==
  ASSUME NEW f, NEW p \in Seq(Names)
  PROVE  Follows(f, p) <=> /\ f = [k \in 0..Len(p) |-> f[k]] /\ f[0] = Root
                           /\ \A k \in 1..Len(p) : f[k] = Step(f[k - 1], p[k])
<1>1. Len(p) \in Nat /\ \A k \in 0..Len(p) : k = 0 \/ k \in 1..Len(p)
  OBVIOUS
<1>2. 0 \in 0..Len(p) /\ \A k \in 1..Len(p) : k \in 0..Len(p) /\ k # 0
  BY <1>1
<1>3. ASSUME Follows(f, p)
      PROVE  /\ f = [k \in 0..Len(p) |-> f[k]] /\ f[0] = Root
             /\ \A k \in 1..Len(p) : f[k] = Step(f[k - 1], p[k])
  BY <1>2, <1>3 DEF Follows, Step
<1>4. ASSUME f = [k \in 0..Len(p) |-> f[k]], f[0] = Root,
             \A k \in 1..Len(p) : f[k] = Step(f[k - 1], p[k])
      PROVE  Follows(f, p)
  <2>1. \A k \in 0..Len(p) :
          f[k] = IF k = 0 THEN Root ELSE IF f[k - 1] = 0 THEN 0 ELSE Find(f[k - 1], p[k]).inode
    BY <1>1, <1>4 DEF Step
  <2> QED
    BY <1>4, <2>1 DEF Follows
<1> QED
  BY <1>3, <1>4

LEMMA FollowsExists == \A p \in Seq(Names) : \E f : Follows(f, p)
<1>1. PICK S : S = {p \in Seq(Names) : \E f : Follows(f, p)}
  OBVIOUS
<1>2. << >> \in S
  <2>1. << >> \in Seq(Names) /\ Len(<< >>) = 0
    OBVIOUS
  <2>2. PICK f : f = [k \in 0..0 |-> Root]
    OBVIOUS
  <2>3. Follows(f, << >>)
    BY <2>1, <2>2, FollowsIs
  <2> QED
    BY <1>1, <2>1, <2>3
<1>3. ASSUME NEW p \in Seq(Names), p # << >>, Front(p) \in S PROVE p \in S
  <2>1. PICK q \in Seq(Names), n \in Nat :
          /\ q = Front(p) /\ n = Len(p) /\ n >= 1 /\ Len(q) = n - 1
          /\ \A k \in 1..(n - 1) : q[k] = p[k]
    BY <1>3, FrontIs
  <2>2. PICK f : Follows(f, q)
    BY <1>1, <1>3, <2>1
  <2>3. f[0] = Root /\ \A k \in 1..(n - 1) : f[k] = Step(f[k - 1], p[k])
    BY <2>1, <2>2, FollowsIs
  <2>4. PICK g : g = [k \in 0..n |-> IF k < n THEN f[k] ELSE Step(f[n - 1], p[n])]
    OBVIOUS
  <2>5. g = [k \in 0..n |-> g[k]] /\ g[0] = Root
    BY <2>1, <2>3, <2>4
  <2>6. ASSUME NEW k \in 1..n PROVE g[k] = Step(g[k - 1], p[k])
    <3>1. k \in 0..n /\ k - 1 \in 0..n /\ k - 1 < n
      BY <2>1
    <3>2. g[k - 1] = f[k - 1]
      BY <2>4, <3>1
    <3>3. CASE k < n
      BY <2>3, <2>4, <3>1, <3>2, <3>3
    <3>4. CASE k = n
      BY <2>4, <3>1, <3>2, <3>4
    <3> QED
      BY <2>1, <3>3, <3>4
  <2>7. Follows(g, p)
    BY <2>1, <2>5, <2>6, FollowsIs
  <2> QED
    BY <1>1, <2>7
<1>4. \A p \in Seq(Names) : p \in S
  BY <1>2, <1>3, PathInduction
<1> QED
  BY <1>1, <1>4

\* The way along a path is the way along the one before its last name, and a step.
LEMMA FollowsFront ==
  ASSUME NEW p \in Seq(Names), p # << >>, NEW f, Follows(f, p), NEW g, Follows(g, Front(p))
  PROVE  f[Len(p) - 1] = g[Len(p) - 1]
<1>1. PICK q \in Seq(Names), n \in Nat :
        /\ q = Front(p) /\ n = Len(p) /\ n >= 1 /\ Len(q) = n - 1
        /\ \A k \in 1..(n - 1) : q[k] = p[k]
  BY FrontIs
<1>2. f[0] = Root /\ \A k \in 1..n : f[k] = Step(f[k - 1], p[k])
  BY <1>1, FollowsIs
<1>3. g[0] = Root /\ \A k \in 1..(n - 1) : g[k] = Step(g[k - 1], p[k])
  BY <1>1, FollowsIs
<1>4. PICK B : B = {k \in 0..(n - 1) : f[k] # g[k]}
  OBVIOUS
<1>5. SUFFICES ASSUME B # {} PROVE FALSE
  BY <1>1, <1>4
<1>6. PICK m : m = Min(B)
  OBVIOUS
<1>7. m \in B /\ \A y \in B : m =< y
  <2>1. B \subseteq Nat
    BY <1>4
  <2> QED
    BY <1>5, <1>6, <2>1, MinInSet
<1>8. m \in Nat /\ m <= n - 1 /\ f[m] # g[m]
  BY <1>1, <1>4, <1>7
<1>9. m # 0
  BY <1>2, <1>3, <1>8
<1>10. m \in 1..n /\ m \in 1..(n - 1) /\ m - 1 \in 0..(n - 1) /\ ~ m =< m - 1
  BY <1>1, <1>8, <1>9
<1>11. f[m - 1] = g[m - 1]
  BY <1>4, <1>7, <1>10
<1> QED
  BY <1>2, <1>3, <1>8, <1>10, <1>11

\* walk_path goes from the root, one look-up after the other.
WalkSteps ==
  /\ Walk(<< >>) = Root
  /\ \A p \in Seq(Names) : p # << >> => Walk(p) = Step(Walk(Front(p)), Last(p))

LEMMA WalkGoes == WalkSteps
<1>1. Walk(<< >>) = Root
  <2>1. << >> \in Seq(Names) /\ Len(<< >>) = 0
    OBVIOUS
  <2>2. PICK f : Follows(f, << >>) /\ Walk(<< >>) = f[0]
    BY <2>1, FollowsExists, WalkFollows
  <2> QED
    BY <2>1, <2>2, FollowsIs
<1>2. ASSUME NEW p \in Seq(Names), p # << >> PROVE Walk(p) = Step(Walk(Front(p)), Last(p))
  <2>1. PICK n \in Nat : n = Len(p) /\ n >= 1 /\ Front(p) \in Seq(Names)
                         /\ Len(Front(p)) = n - 1 /\ Last(p) = p[n]
    BY <1>2, FrontIs
  <2>2. PICK f : Follows(f, p) /\ Walk(p) = f[Len(p)]
    BY FollowsExists, WalkFollows
  <2>3. PICK g : Follows(g, Front(p)) /\ Walk(Front(p)) = g[Len(Front(p))]
    BY <2>1, FollowsExists, WalkFollows
  <2>4. f[n - 1] = g[n - 1]
    BY <1>2, <2>1, <2>2, <2>3, FollowsFront
  <2>5. f[n] = Step(f[n - 1], p[n])
    BY <2>1, <2>2, FollowsIs
  <2> QED
    BY <2>1, <2>2, <2>3, <2>4, <2>5
<1> QED
  BY <1>1, <1>2 DEF WalkSteps

LEMMA WalkGoesOn == WalkSteps'
  BY WalkGoes, PTL

-----------------------------------------------------------------------------
(* dir_find_entry. *)

\* What is found is a child of that name; what is not found is no child.
FindsChildren ==
  \A d : \A n \in Names :
    \/ /\ d \in Inodes /\ Find(d, n).inode # 0
       /\ \E s \in Slots : Child(d, s) /\ CellAt(d, s).name = n /\ Find(d, n) = CellAt(d, s)
    \/ Find(d, n) = ZeroCell /\ \A s \in Slots : Child(d, s) => CellAt(d, s).name # n

LEMMA FindIsRight == FindsChildren
<1> SUFFICES ASSUME NEW d, NEW n \in Names
             PROVE  \/ /\ d \in Inodes /\ Find(d, n).inode # 0
                       /\ \E s \in Slots : /\ Child(d, s) /\ CellAt(d, s).name = n
                                           /\ Find(d, n) = CellAt(d, s)
                    \/ /\ Find(d, n) = ZeroCell
                       /\ \A s \in Slots : Child(d, s) => CellAt(d, s).name # n
  BY Zenon DEF FindsChildren
<1>1. n # ""
  BY NamesPlain
<1>2. CASE IsDir(d) /\ EntrySlots(d, n) # {}
  <2>1. PICK s \in Slots : s = Min(EntrySlots(d, n)) /\ s \in EntrySlots(d, n)
    BY <1>2, Sizes, MinInSet, Zenon DEF EntrySlots
  <2>2. CellAt(d, s).name = n /\ CellAt(d, s).inode # 0 /\ Find(d, n) = CellAt(d, s)
    BY <1>2, <2>1, Zenon DEF Find, CellAt, EntrySlots, Used
  <2>3. Child(d, s) /\ d \in Inodes
    BY <1>2, <2>2 DEF Child, IsDir
  <2> QED
    BY <2>2, <2>3
<1>3. CASE ~(IsDir(d) /\ EntrySlots(d, n) # {})
  <2>1. Find(d, n) = ZeroCell
    BY <1>3 DEF Find
  <2>2. ASSUME NEW s \in Slots, Child(d, s), CellAt(d, s).name = n PROVE FALSE
    <3>1. s \in EntrySlots(d, n)
      BY <1>1, <2>2 DEF Child, CellAt, EntrySlots, Used
    <3> QED
      BY <1>3, <2>2, <3>1 DEF Child
  <2> QED
    BY <2>1, <2>2
<1> QED
  BY <1>2, <1>3

LEMMA FindStaysRight == FindsChildren'
  BY FindIsRight, PTL

LEMMA ZeroIsNone == ZeroCell.inode = 0 /\ Root # 0
  BY DEF ZeroCell, Root

\* In a sound tree the entry of a child is found under its name.
LEMMA ChildIsFound ==
  ASSUME NamesApart, NEW d \in Inodes, NEW s \in Slots, Child(d, s)
  PROVE  CellAt(d, s).name \in Names /\ Find(d, CellAt(d, s).name) = CellAt(d, s)
<1>1. PICK n \in Names : n = CellAt(d, s).name
  BY DEF Child
<1>2. PICK r \in Slots : Child(d, r) /\ CellAt(d, r).name = n /\ Find(d, n) = CellAt(d, r)
  BY <1>1, FindIsRight DEF FindsChildren
<1>3. r = s
  BY <1>1, <1>2 DEF NamesApart
<1> QED
  BY <1>1, <1>2, <1>3

\* walk_path comes to real inodes only, and to each along one path.
PathsApart ==
  \A p, q \in Seq(Names) : Walk(p) # 0 /\ Walk(p) = Walk(q) => p = q

LEMMA WalkInodes == TreeOK => \A p \in Seq(Names) : Walk(p) \in Inodes \cup {0}
<1> SUFFICES ASSUME TreeOK, NEW p \in Seq(Names), p # << >> PROVE Walk(p) \in Inodes \cup {0}
  BY WalkGoes, Sizes DEF WalkSteps
<1>1. PICK n \in Names : n = Last(p)
  BY FrontIs
<1>d. PICK d : d = Walk(Front(p))
  OBVIOUS
<1>2. Walk(p) = Step(d, n)
  BY <1>1, <1>d, WalkGoes DEF WalkSteps
<1>3. CASE d # 0 /\ Find(d, n).inode # 0
  <2>1. PICK s \in Slots : d \in Inodes /\ Child(d, s) /\ Find(d, n) = CellAt(d, s)
    BY <1>3, FindIsRight, ZeroIsNone DEF FindsChildren
  <2> QED
    BY <1>2, <1>3, <2>1 DEF Step, TreeOK, ChildrenLead
<1> QED
  BY <1>2, <1>3 DEF Step

LEMMA PathsAreApart == TreeOK => PathsApart
<1> SUFFICES ASSUME TreeOK PROVE PathsApart
  OBVIOUS
<1> DEFINE Own(p) == \A q \in Seq(Names) : Walk(p) # 0 /\ Walk(p) = Walk(q) => p = q
<1>1. PICK S : S = {p \in Seq(Names) : Own(p)}
  OBVIOUS
<1>2. ASSUME NEW p \in Seq(Names), p # << >>, Walk(p) # 0
      PROVE  \E d \in Inodes, s \in Slots :
               /\ d = Walk(Front(p)) /\ Child(d, s) /\ CellAt(d, s).name = Last(p)
               /\ Walk(p) = CellAt(d, s).inode
  <2>1. PICK n \in Names : n = Last(p)
    BY <1>2, FrontIs
  <2>d. PICK d : d = Walk(Front(p))
    OBVIOUS
  <2>2. Walk(p) = Step(d, n)
    BY <1>2, <2>1, <2>d, WalkGoes DEF WalkSteps
  <2>3. d # 0 /\ Walk(p) = Find(d, n).inode
    BY <1>2, <2>2 DEF Step
  <2>4. PICK s \in Slots : /\ d \in Inodes /\ Child(d, s) /\ CellAt(d, s).name = n
                           /\ Find(d, n) = CellAt(d, s)
    BY <1>2, <2>3, FindIsRight, ZeroIsNone DEF FindsChildren
  <2> QED
    BY <2>1, <2>d, <2>3, <2>4
<1>3. ASSUME NEW p \in Seq(Names), p # << >>, Walk(p) # 0 PROVE Walk(p) # Root
  <2>1. PICK d \in Inodes, s \in Slots : Child(d, s) /\ Walk(p) = CellAt(d, s).inode
    BY <1>2, <1>3
  <2> QED
    BY <2>1 DEF TreeOK, ChildrenLead
<1>4. << >> \in S
  <2>1. << >> \in Seq(Names) /\ Walk(<< >>) = Root
    BY WalkGoes DEF WalkSteps
  <2> QED
    BY <1>1, <1>3, <2>1
<1>5. ASSUME NEW p \in Seq(Names), p # << >>, Front(p) \in S PROVE p \in S
  <2> SUFFICES ASSUME NEW q \in Seq(Names), Walk(p) # 0, Walk(p) = Walk(q) PROVE p = q
    BY <1>1
  <2>1. q # << >>
    BY <1>3, <1>5, WalkGoes DEF WalkSteps
  <2>2. PICK d \in Inodes, s \in Slots :
          /\ d = Walk(Front(p)) /\ Child(d, s) /\ CellAt(d, s).name = Last(p)
          /\ Walk(p) = CellAt(d, s).inode
    BY <1>2, <1>5
  <2>3. PICK e \in Inodes, r \in Slots :
          /\ e = Walk(Front(q)) /\ Child(e, r) /\ CellAt(e, r).name = Last(q)
          /\ Walk(q) = CellAt(e, r).inode
    BY <1>2, <2>1
  <2>4. d = e /\ s = r
    BY <2>2, <2>3 DEF TreeOK, ListedOnce
  <2>5. Front(p) = Front(q)
    <3>1. Front(q) \in Seq(Names) /\ Own(Front(p))
      BY <1>1, <1>5, <2>1, FrontIs
    <3> QED
      BY <2>2, <2>3, <2>4, <3>1, Sizes
  <2>6. Last(p) = Last(q)
    BY <2>2, <2>3, <2>4
  <2> QED
    BY <1>5, <2>1, <2>5, <2>6, FrontIs
<1>6. \A p \in Seq(Names) : p \in S
  BY <1>4, <1>5, PathInduction
<1> QED
  BY <1>1, <1>6 DEF PathsApart

-----------------------------------------------------------------------------
(* What a change of one entry does to the paths. *)

\* Every look-up answers as before.
SameFinds == \A d : \A n \in Names : Find(d, n)' = Find(d, n)

LEMMA KeptFinds ==
  ASSUME \A d \in Inodes : Kept(d) \/ (\A n \in Names : Find(d, n)' = Find(d, n))
  PROVE  SameFinds
<1> SUFFICES ASSUME NEW d, NEW n \in Names PROVE Find(d, n)' = Find(d, n)
  BY DEF SameFinds
<1>1. CASE d \in Inodes /\ Kept(d)
  <2>1. CASE IsDir(d)
    <3>1. EntrySlots(d, n)' = EntrySlots(d, n)
      BY <1>1, <2>1 DEF Kept, EntrySlots, CellAt, Used
    <3>2. IsDir(d)'
      BY <1>1, <2>1 DEF Kept
    <3>3. EntrySlots(d, n) # {} =>
            Min(EntrySlots(d, n)) \in Slots /\ Min(EntrySlots(d, n))' = Min(EntrySlots(d, n))
      <4>1. EntrySlots(d, n) \subseteq Slots
        BY DEF EntrySlots
      <4> QED
        BY <3>1, <4>1, Sizes, MinInSet
    <3> QED
      BY <1>1, <2>1, <3>1, <3>2, <3>3 DEF Kept, Find, CellAt
  <2>2. CASE ~IsDir(d)
    BY <1>1, <2>2 DEF Kept, Find, ZeroCell
  <2> QED
    BY <2>1, <2>2
<1>2. CASE d \notin Inodes
  BY <1>2 DEF Find, IsDir, Inodes, ZeroCell
<1> QED
  BY <1>1, <1>2

\* The tree in terms of walk_path, before a step and after it.
TreeIs ==
  /\ DOMAIN TreeOf = {p \in Paths \ {<< >>} : Walk(p) # 0}
  /\ TreeOf = [p \in DOMAIN TreeOf |-> EntryOf(p).type]

LEMMA TreeIsSo == TreeIs
<1>1. ASSUME NEW p \in Paths \ {<< >>}
      PROVE  Walk(Front(p)) # 0 /\ EntryOf(p).inode # 0 <=> Walk(p) # 0
  <2>1. p \in Seq(Names) /\ p # << >>
    BY PathsAre
  <2>2. Walk(p) = Step(Walk(Front(p)), Last(p))
    BY <2>1, WalkGoes DEF WalkSteps
  <2> QED
    BY <2>2 DEF Step, EntryOf
<1>2. PICK D : D = {q \in Paths \ {<< >>} : Walk(Front(q)) # 0 /\ EntryOf(q).inode # 0}
  OBVIOUS
<1>3. D = {p \in Paths \ {<< >>} : Walk(p) # 0}
  BY <1>1, <1>2
<1>4. TreeOf = [p \in D |-> EntryOf(p).type]
  BY <1>2, Zenon DEF TreeOf
<1> QED
  BY <1>3, <1>4, Zenon DEF TreeIs

LEMMA TreeStaysSo == TreeIs'
  BY TreeIsSo, PTL

\* Entry n0 of directory d0 is there before the step or after it, and leads to t;
\* nothing is in t; no other entry changes.
OneEntry(d0, n0, t) ==
  /\ d0 \in Inodes /\ n0 \in Names /\ t \in Inodes /\ t # d0
  /\ Find(d0, n0).inode \in {0, t} /\ Find(d0, n0)'.inode \in {0, t}
  /\ \A n \in Names : Find(t, n).inode = 0 /\ Find(t, n)'.inode = 0
  /\ \A d : \A n \in Names : d # d0 \/ n # n0 => Find(d, n)' = Find(d, n)

\* Path p ends with that entry.
Via(p, d0, n0) == p # << >> /\ Walk(Front(p)) = d0 /\ Last(p) = n0

LEMMA OtherWalks ==
  ASSUME NEW d0, NEW n0, NEW t, OneEntry(d0, n0, t)
  PROVE  \A p \in Seq(Names) :
           /\ Via(p, d0, n0) => /\ Walk(p) = Find(d0, n0).inode
                                /\ Walk(p)' = Find(d0, n0)'.inode
           /\ ~Via(p, d0, n0) => /\ Walk(p)' = Walk(p)
                                 /\ p # << >> /\ Walk(p) # 0 => EntryOf(p)' = EntryOf(p)
<1>0. /\ d0 \in Inodes /\ n0 \in Names /\ t \in Inodes /\ t # d0 /\ t # 0 /\ d0 # 0
      /\ Find(d0, n0).inode \in {0, t} /\ Find(d0, n0)'.inode \in {0, t}
      /\ \A n \in Names : Find(t, n).inode = 0 /\ Find(t, n)'.inode = 0
      /\ \A d : \A n \in Names : d # d0 \/ n # n0 => Find(d, n)' = Find(d, n)
  BY Sizes DEF OneEntry
<1> DEFINE New(p) == Walk(p) = Find(d0, n0).inode /\ Walk(p)' = Find(d0, n0)'.inode
           Same(p) == /\ Walk(p)' = Walk(p)
                      /\ p # << >> /\ Walk(p) # 0 => EntryOf(p)' = EntryOf(p)
<1>1. PICK S : S = {p \in Seq(Names) : IF Via(p, d0, n0) THEN New(p) ELSE Same(p)}
  OBVIOUS
<1>2. << >> \in S
  <2>1. << >> \in Seq(Names) /\ Same(<< >>) /\ ~Via(<< >>, d0, n0)
    BY WalkGoes, WalkGoesOn DEF WalkSteps, Via, Root
  <2> QED
    BY <1>1, <2>1
<1>3. ASSUME NEW p \in Seq(Names), p # << >>, Front(p) \in S PROVE p \in S
  <2>1. PICK f \in Seq(Names) : f = Front(p)
    BY <1>3, FrontIs
  <2>2. PICK n \in Names : n = Last(p)
    BY <1>3, FrontIs
  <2>v. PICK v : v = Walk(f)
    OBVIOUS
  <2>w. PICK w : w = Walk(f)'
    OBVIOUS
  <2>3. Walk(p) = Step(v, n) /\ Walk(p)' = Step(w, n)'
    BY <1>3, <2>1, <2>2, <2>v, <2>w, WalkGoes, WalkGoesOn DEF WalkSteps
  <2>4. EntryOf(p) = Find(v, n) /\ EntryOf(p)' = Find(w, n)'
    BY <2>1, <2>2, <2>v, <2>w DEF EntryOf
  <2>5. IF Via(f, d0, n0) THEN New(f) ELSE Same(f)
    BY <1>1, <1>3, <2>1
  <2>6. CASE Via(f, d0, n0)
    <3>1. v \in {0, t} /\ w \in {0, t}
      BY <1>0, <2>5, <2>6, <2>v, <2>w
    <3>2. Walk(p) = 0 /\ Walk(p)' = 0
      BY <1>0, <2>3, <3>1 DEF Step
    <3>3. ~Via(p, d0, n0)
      BY <1>0, <2>1, <2>v, <3>1 DEF Via
    <3> QED
      BY <1>1, <3>2, <3>3
  <2>7. CASE ~Via(f, d0, n0)
    <3>1. w = v
      BY <2>5, <2>7, <2>v, <2>w
    <3>3. CASE Via(p, d0, n0)
      <4>1. v = d0 /\ n = n0
        BY <2>1, <2>2, <2>v, <3>3 DEF Via
      <4>2. New(p)
        BY <1>0, <2>3, <3>1, <4>1 DEF Step
      <4> QED
        BY <1>1, <3>3, <4>2
    <3>4. CASE ~Via(p, d0, n0)
      <4>1. v # d0 \/ n # n0
        BY <1>3, <2>1, <2>2, <2>v, <3>4 DEF Via
      <4>3. Find(v, n)' = Find(v, n)
        BY <1>0, <4>1
      <4>4. Walk(p)' = Walk(p)
        BY <2>3, <3>1, <4>3 DEF Step
      <4>5. EntryOf(p)' = EntryOf(p)
        BY <2>4, <3>1, <4>3
      <4> QED
        BY <1>1, <3>4, <4>4, <4>5
    <3> QED
      BY <3>3, <3>4
  <2> QED
    BY <2>6, <2>7
<1>4. \A p \in Seq(Names) : p \in S
  BY <1>2, <1>3, PathInduction
<1> QED
  BY <1>1, <1>4

LEMMA SameTree == ASSUME SameFinds PROVE TreeOf' = TreeOf
<1>1. PICK S : S = {p \in Seq(Names) : Walk(p)' = Walk(p)}
  OBVIOUS
<1>2. << >> \in S
  BY <1>1, WalkGoes, WalkGoesOn DEF WalkSteps, Root
<1>3. ASSUME NEW p \in Seq(Names), p # << >>, Walk(Front(p))' = Walk(Front(p))
      PROVE  Walk(p)' = Walk(p) /\ EntryOf(p)' = EntryOf(p)
  <2>1. PICK n \in Names : n = Last(p)
    BY <1>3, FrontIs
  <2>2. PICK v : v = Walk(Front(p))
    OBVIOUS
  <2>3. Walk(p) = Step(v, n) /\ Walk(p)' = Step(v, n)'
    BY <1>3, <2>1, <2>2, WalkGoes, WalkGoesOn DEF WalkSteps
  <2>4. EntryOf(p) = Find(v, n) /\ EntryOf(p)' = Find(v, n)'
    BY <1>3, <2>1, <2>2 DEF EntryOf
  <2> QED
    BY <2>3, <2>4 DEF SameFinds, Step
<1>4. \A p \in Seq(Names) : p # << >> /\ Front(p) \in S => p \in S
  BY <1>1, <1>3
<1>5. \A p \in Seq(Names) : p \in S
  BY <1>2, <1>4, PathInduction
<1>6. \A p \in Paths : Walk(p)' = Walk(p)
  BY <1>1, <1>5, PathsAre
<1>7. \A p \in Paths \ {<< >>} : EntryOf(p)' = EntryOf(p)
  <2> SUFFICES ASSUME NEW p \in Seq(Names), p # << >> PROVE EntryOf(p)' = EntryOf(p)
    BY PathsAre
  <2>1. Front(p) \in Seq(Names)
    BY FrontIs
  <2> QED
    BY <1>1, <1>3, <1>5, <2>1
<1>8. PICK D : D = {p \in Paths \ {<< >>} : Walk(p) # 0}
  OBVIOUS
<1>9. DOMAIN TreeOf = D /\ (DOMAIN TreeOf)' = D
  BY <1>6, <1>8, TreeIsSo, TreeStaysSo DEF TreeIs, Paths
<1>10. TreeOf = [p \in D |-> EntryOf(p).type] /\ TreeOf' = [p \in D |-> EntryOf(p)'.type]
  BY <1>9, TreeIsSo, TreeStaysSo DEF TreeIs
<1>11. \A p \in D : EntryOf(p)' = EntryOf(p)
  BY <1>7, <1>8
<1> QED
  BY <1>10, <1>11

\* The tree is a function of what walk_path and dir_find_entry find.
LEMMA TreeShape ==
  /\ DOMAIN TreeOf \subseteq Paths \ {<< >>} /\ DOMAIN TreeOf' \subseteq Paths \ {<< >>}
  /\ TreeOf = [q \in DOMAIN TreeOf |-> TreeOf[q]]
  /\ TreeOf' = [q \in DOMAIN TreeOf' |-> TreeOf'[q]]
<1>1. /\ DOMAIN TreeOf = {q \in Paths \ {<< >>} : Walk(q) # 0}
      /\ DOMAIN TreeOf' = {q \in Paths \ {<< >>} : Walk(q)' # 0}
  BY TreeIsSo, TreeStaysSo DEF TreeIs, Paths
<1>2. /\ TreeOf = [q \in DOMAIN TreeOf |-> EntryOf(q).type]
      /\ TreeOf' = [q \in DOMAIN TreeOf' |-> EntryOf(q)'.type]
  BY TreeIsSo, TreeStaysSo DEF TreeIs
<1> QED
  BY <1>1, <1>2

LEMMA TreeBy ==
  ASSUME NEW p \in Paths \ {<< >>}
  PROVE  /\ p \in DOMAIN TreeOf <=> Walk(p) # 0
         /\ p \in DOMAIN TreeOf' <=> Walk(p)' # 0
         /\ p \in DOMAIN TreeOf => TreeOf[p] = EntryOf(p).type
         /\ p \in DOMAIN TreeOf' => TreeOf'[p] = EntryOf(p)'.type
<1>1. /\ DOMAIN TreeOf = {q \in Paths \ {<< >>} : Walk(q) # 0}
      /\ DOMAIN TreeOf' = {q \in Paths \ {<< >>} : Walk(q)' # 0}
  BY TreeIsSo, TreeStaysSo DEF TreeIs, Paths
<1>2. /\ TreeOf = [q \in DOMAIN TreeOf |-> EntryOf(q).type]
      /\ TreeOf' = [q \in DOMAIN TreeOf' |-> EntryOf(q)'.type]
  BY TreeIsSo, TreeStaysSo DEF TreeIs
<1> QED
  BY <1>1, <1>2

\* The paths and the operators of FileTree are those of FFS.
LEMMA SameWords ==
  /\ Tree!Paths = Paths \ {<< >>}
  /\ \A s : Tree!Front(s) = Front(s)
  /\ \A f, S : Tree!Restrict(f, S) = [x \in S |-> f[x]]
<1>1. Tree!Paths = Paths \ {<< >>}
  BY Zenon DEF Tree!Paths, Tree!BoundedSeq, Tree!SeqOf, Paths, BoundedSeq, SeqOf
<1>2. \A s : Tree!Front(s) = Front(s)
  BY Zenon DEF Tree!Front, Front
<1>3. \A f, S : Tree!Restrict(f, S) = [x \in S |-> f[x]]
  BY Zenon DEF Tree!Restrict
<1> QED
  BY <1>1, <1>2, <1>3

\* The tree stays as it is when its paths and their types do.
LEMMA TreeStays ==
  ASSUME \A q \in Paths \ {<< >>} :
           /\ q \in DOMAIN TreeOf' <=> q \in DOMAIN TreeOf
           /\ q \in DOMAIN TreeOf => TreeOf'[q] = TreeOf[q]
  PROVE  TreeOf' = TreeOf
<1>1. DOMAIN TreeOf' = DOMAIN TreeOf /\ \A q \in DOMAIN TreeOf : TreeOf'[q] = TreeOf[q]
  BY TreeShape
<1> QED
  BY <1>1, TreeShape

\* A directory with a path is the root or is listed as a directory.
LEMMA ParentIsDir ==
  ASSUME TreeOK, NEW f \in Paths, Walk(f) # 0, inodes[Walk(f)].type = DirType, Gone # Walk(f)
  PROVE  f = << >> \/ (f \in DOMAIN TreeOf /\ TreeOf[f] = DirType)
<1> SUFFICES ASSUME f # << >> PROVE f \in DOMAIN TreeOf /\ TreeOf[f] = DirType
  OBVIOUS
<1>1. f \in Seq(Names)
  BY PathsAre
<1>2. f \in DOMAIN TreeOf /\ TreeOf[f] = EntryOf(f).type
  BY TreeBy
<1>3. PICK n \in Names : n = Last(f)
  BY <1>1, FrontIs
<1>4. PICK v : v = Walk(Front(f))
  OBVIOUS
<1>5. PICK t : t = Walk(f)
  OBVIOUS
<1>6. t = Step(v, n) /\ EntryOf(f) = Find(v, n)
  BY <1>1, <1>3, <1>4, <1>5, WalkGoes DEF WalkSteps, EntryOf
<1>7. t # 0 /\ v # 0 /\ Find(v, n).inode = t
  BY <1>5, <1>6 DEF Step
<1>8. PICK s \in Slots : v \in Inodes /\ Child(v, s) /\ Find(v, n) = CellAt(v, s)
  BY <1>7, FindIsRight, ZeroIsNone DEF FindsChildren
<1>9. t \in Inodes /\ t # Gone
  BY <1>5, <1>7, <1>8 DEF TreeOK, ChildrenLead
<1>10. inodes[t].type = CellAt(v, s).type
  BY <1>7, <1>8, <1>9 DEF TreeOK, ChildrenAgree
<1> QED
  BY <1>2, <1>5, <1>6, <1>8, <1>10

\* A path goes no further than the paths before its last name.
LEMMA PrefixesWalk ==
  \A p \in Seq(Names) : Walk(p) # 0 => \A k \in 0..Len(p) : Walk(SubSeq(p, 1, k)) # 0
<1> DEFINE All(p) == \A k \in 0..Len(p) : Walk(SubSeq(p, 1, k)) # 0
<1>1. PICK S : S = {p \in Seq(Names) : Walk(p) # 0 => All(p)}
  OBVIOUS
<1>2. ASSUME NEW p \in Seq(Names) PROVE SubSeq(p, 1, Len(p)) = p /\ Len(p) \in Nat
  OBVIOUS
<1>3. << >> \in S
  <2>1. << >> \in Seq(Names) /\ Len(<< >>) = 0
    OBVIOUS
  <2>2. ASSUME NEW k \in 0..0 PROVE SubSeq(<< >>, 1, k) = << >>
    BY <1>2, <2>1
  <2>3. Walk(<< >>) # 0
    BY WalkGoes, ZeroIsNone DEF WalkSteps
  <2> QED
    BY <1>1, <2>1, <2>2, <2>3
<1>4. ASSUME NEW p \in Seq(Names), p # << >>, Front(p) \in S PROVE p \in S
  <2> SUFFICES ASSUME Walk(p) # 0, NEW k \in 0..Len(p) PROVE Walk(SubSeq(p, 1, k)) # 0
    BY <1>1
  <2>1. Walk(Front(p)) # 0
    BY <1>4, WalkGoes DEF WalkSteps, Step
  <2>2. PICK n \in Nat : n = Len(p) /\ n >= 1 /\ Len(Front(p)) = n - 1
    BY <1>4, FrontIs
  <2>3. CASE k = n
    BY <1>2, <2>2, <2>3
  <2>4. CASE k # n
    <3>1. k \in 0..(n - 1)
      BY <2>2, <2>4
    <3>2. SubSeq(Front(p), 1, k) = SubSeq(p, 1, k)
      <4>1. PICK f \in Seq(Names) : f = Front(p) /\ \A i \in 1..(n - 1) : f[i] = p[i]
        BY <1>4, <2>2, FrontIs
      <4>2. Len(f) = n - 1 /\ k \in Nat /\ k <= n - 1 /\ k <= n
        BY <2>2, <3>1, <4>1
      <4>3. /\ SubSeq(f, 1, k) \in Seq(Names) /\ Len(SubSeq(f, 1, k)) = k
            /\ \A i \in 1..k : SubSeq(f, 1, k)[i] = f[i]
        BY <4>2, Prefixed
      <4>4. /\ SubSeq(p, 1, k) \in Seq(Names) /\ Len(SubSeq(p, 1, k)) = k
            /\ \A i \in 1..k : SubSeq(p, 1, k)[i] = p[i]
        BY <2>2, <4>2, Prefixed
      <4>5. \A i \in 1..k : f[i] = p[i]
        BY <2>2, <4>1, <4>2
      <4> QED
        BY <4>1, <4>3, <4>4, <4>5
    <3>3. All(Front(p))
      BY <1>1, <1>4, <2>1
    <3> QED
      BY <2>2, <3>1, <3>2, <3>3
  <2> QED
    BY <2>2, <2>3, <2>4
<1>5. \A p \in Seq(Names) : p \in S
  BY <1>3, <1>4, PathInduction
<1> QED
  BY <1>1, <1>5

\* The path that ends with an entry, when there is one.
LEMMA OnlyPathVia ==
  ASSUME PathsApart, NEW f \in Seq(Names), NEW n0 \in Names, Walk(f) # 0
  PROVE  /\ Via(Append(f, n0), Walk(f), n0)
         /\ \A q \in Seq(Names) : Via(q, Walk(f), n0) => q = Append(f, n0)
<1>1. Via(Append(f, n0), Walk(f), n0)
  BY AppendIs DEF Via
<1>2. ASSUME NEW q \in Seq(Names), Via(q, Walk(f), n0) PROVE q = Append(f, n0)
  <2>1. Front(q) \in Seq(Names) /\ q = Append(Front(q), Last(q))
    BY <1>2, FrontIs DEF Via
  <2>2. Front(q) = f
    BY <1>2, <2>1 DEF Via, PathsApart
  <2> QED
    BY <1>2, <2>1, <2>2 DEF Via
<1> QED
  BY <1>1, <1>2

\* An entry that comes to exist adds its path, if its directory has one: the path
\* the running creation names.
LEMMA EntryAdds ==
  ASSUME TreeOK, NEW d0, NEW n0, NEW t, NEW k \in {FileType, DirType}, OneEntry(d0, n0, t),
         Find(d0, n0).inode = 0, Find(d0, n0)'.inode = t, Find(d0, n0)'.type = k,
         inodes[d0].type = DirType, Gone # d0, op.dir = d0, op.name = n0, op.kind = k
  PROVE  TreeOf' = TreeOf \/ \E p \in Tree!Paths : Tree!Add(p, k)
<1>0. d0 \in Inodes /\ n0 \in Names /\ t # 0 /\ d0 # 0 /\ PathsApart
  BY Sizes, PathsAreApart DEF OneEntry
<1>1. ASSUME NEW q \in Paths \ {<< >>}, ~Via(q, d0, n0)
      PROVE  /\ q \in DOMAIN TreeOf' <=> q \in DOMAIN TreeOf
             /\ q \in DOMAIN TreeOf => TreeOf'[q] = TreeOf[q]
  BY <1>1, TreeBy, OtherWalks, PathsAre
<1>2. CASE \A q \in Paths \ {<< >>} : ~Via(q, d0, n0)
  BY <1>1, <1>2, TreeStays
<1>3. CASE \E q \in Paths \ {<< >>} : Via(q, d0, n0)
  <2>1. PICK p \in Paths \ {<< >>} : Via(p, d0, n0)
    BY <1>3
  <2>2. p \in Seq(Names) /\ p # << >> /\ Len(p) <= MaxDepth /\ Front(p) \in Seq(Names)
        /\ Walk(Front(p)) = d0 /\ Last(p) = n0
    BY <2>1, PathsAre, FrontIs DEF Via
  <2>3. \A q \in Seq(Names) : Via(q, d0, n0) => q = p
    BY <1>0, <2>1, <2>2, OnlyPathVia
  <2>4. Walk(p) = 0 /\ Walk(p)' = t /\ EntryOf(p)' = Find(d0, n0)'
    <3>1. Walk(p) = 0 /\ Walk(p)' = t
      BY <2>1, <2>2, OtherWalks
    <3>2. ~Via(Front(p), d0, n0)
      <4>1. Front(p) # p
        BY <2>2, FrontIs
      <4> QED
        BY <2>2, <2>3, <4>1
    <3>3. Walk(Front(p))' = d0
      BY <2>2, <3>2, OtherWalks
    <3> QED
      BY <2>2, <3>1, <3>3 DEF EntryOf
  <2>5. p \notin DOMAIN TreeOf /\ p \in DOMAIN TreeOf' /\ TreeOf'[p] = k
    BY <1>0, <2>1, <2>4, TreeBy
  <2>6. Front(p) = << >> \/ (Front(p) \in DOMAIN TreeOf /\ TreeOf[Front(p)] = DirType)
    <3>1. Front(p) \in Paths
      BY <2>2, FrontIs, PathsAre, BoundAssumption
    <3> QED
      BY <1>0, <2>2, <3>1, ParentIsDir
  <2>7. DOMAIN TreeOf' = DOMAIN TreeOf \cup {p}
    BY <1>1, <2>1, <2>2, <2>3, <2>5, TreeShape, PathsAre
  <2>8. \A q \in DOMAIN TreeOf : TreeOf'[q] = TreeOf[q]
    BY <1>1, <2>1, <2>3, <2>5, TreeShape, PathsAre
  <2>9. TreeOf' = [q \in DOMAIN TreeOf \cup {p} |-> IF q = p THEN k ELSE TreeOf[q]]
    <3>1. TreeOf' = [q \in DOMAIN TreeOf' |-> TreeOf'[q]]
      BY TreeShape
    <3> QED
      BY <2>5, <2>7, <2>8, <3>1
  <2>10. p \in Tree!Paths
    BY <2>1, SameWords
  <2>11. <<p, k>> \in ToAdd
    <3>1. p \in Target
      BY <2>1, <2>2 DEF Target
    <3> QED
      BY <3>1 DEF ToAdd, FileType, DirType
  <2>12. Tree!Add(p, k)
    BY <2>5, <2>6, <2>9, <2>11, SameWords DEF Tree!Add, Tree!IsParent
  <2> QED
    BY <2>10, <2>12
<1> QED
  BY <1>2, <1>3

\* An entry that is cleared takes its path away, the one the running removal names,
\* and nothing was below.
LEMMA EntryDrops ==
  ASSUME TreeOK, NEW d0, NEW n0, NEW t, OneEntry(d0, n0, t), Find(d0, n0)'.inode = 0,
         op.dir = d0, op.name = n0, pc = "rm_entry"
  PROVE  \/ TreeOf' = TreeOf
         \/ \E p \in Tree!Paths : Tree!Drop(p) /\ Last(p) = n0 /\ p \notin DOMAIN TreeOf'
<1>0. d0 \in Inodes /\ n0 \in Names /\ t # 0 /\ d0 # 0 /\ PathsApart
  BY Sizes, PathsAreApart DEF OneEntry
<1>1. ASSUME NEW q \in Paths \ {<< >>}, ~Via(q, d0, n0)
      PROVE  /\ q \in DOMAIN TreeOf' <=> q \in DOMAIN TreeOf
             /\ q \in DOMAIN TreeOf => TreeOf'[q] = TreeOf[q]
  BY <1>1, TreeBy, OtherWalks, PathsAre
<1>2. CASE \A q \in DOMAIN TreeOf : ~Via(q, d0, n0)
  <2>1. ASSUME NEW q \in Paths \ {<< >>}, Via(q, d0, n0)
        PROVE  q \notin DOMAIN TreeOf' /\ q \notin DOMAIN TreeOf
    BY <1>2, <2>1, TreeBy, OtherWalks, PathsAre
  <2> QED
    BY <1>1, <2>1, TreeStays
<1>3. CASE \E q \in DOMAIN TreeOf : Via(q, d0, n0)
  <2>1. PICK p \in DOMAIN TreeOf : Via(p, d0, n0)
    BY <1>3
  <2>2. p \in Paths \ {<< >>}
    BY <2>1, TreeIsSo DEF TreeIs
  <2>3. p \in Seq(Names) /\ p # << >> /\ Len(p) <= MaxDepth /\ Front(p) \in Seq(Names)
        /\ Walk(Front(p)) = d0 /\ Last(p) = n0
    BY <2>1, <2>2, PathsAre, FrontIs DEF Via
  <2>4. \A q \in Seq(Names) : Via(q, d0, n0) => q = p
    BY <1>0, <2>1, <2>3, OnlyPathVia
  <2>5. Walk(p) # 0 /\ Walk(p) = Find(d0, n0).inode /\ Walk(p)' = 0
    BY <2>1, <2>2, <2>3, TreeBy, OtherWalks
  <2>6. Walk(p) = t
    BY <2>5 DEF OneEntry
  <2>7. p \notin DOMAIN TreeOf'
    BY <2>2, <2>5, TreeBy
  <2>8. DOMAIN TreeOf' = DOMAIN TreeOf \ {p}
    BY <1>1, <2>2, <2>4, <2>7, TreeShape, PathsAre
  <2>9. \A q \in DOMAIN TreeOf \ {p} : TreeOf'[q] = TreeOf[q]
    BY <1>1, <2>2, <2>4, TreeShape, PathsAre
  <2>10. TreeOf' = [q \in DOMAIN TreeOf \ {p} |-> TreeOf[q]]
    <3>1. TreeOf' = [q \in DOMAIN TreeOf' |-> TreeOf'[q]]
      BY TreeShape
    <3> QED
      BY <2>8, <2>9, <3>1
  <2>11. ASSUME NEW q \in DOMAIN TreeOf, Len(q) > Len(p), SubSeq(q, 1, Len(p)) = p PROVE FALSE
    <3>1. q \in Paths \ {<< >>}
      BY TreeIsSo DEF TreeIs
    <3>2. q \in Seq(Names) /\ Walk(q) # 0
      BY <3>1, PathsAre, TreeBy
    <3>3. PICK k \in Nat : k = Len(p) + 1 /\ k \in 0..Len(q) /\ k <= Len(q) /\ k >= 1
      BY <2>3, <2>11, <3>2
    <3>r. PICK r : r = SubSeq(q, 1, k)
      OBVIOUS
    <3>4. r \in Seq(Names) /\ Len(r) = k /\ \A i \in 1..k : r[i] = q[i]
      <4>1. k \in Nat /\ k <= Len(q)
        BY <3>3
      <4> QED
        BY <3>2, <3>r, <4>1, Prefixed
    <3>5. Walk(r) # 0
      BY <3>2, <3>3, <3>r, PrefixesWalk
    <3>6. r # << >>
      BY <3>3, <3>4
    <3>7. Front(r) = p
      <4>f. PICK f : f = Front(r)
        OBVIOUS
      <4>1. f \in Seq(Names) /\ Len(f) = k - 1 /\ \A i \in 1..(k - 1) : f[i] = r[i]
        BY <3>4, <3>6, <4>f, FrontIs
      <4>2. PICK u : u = SubSeq(q, 1, Len(p))
        OBVIOUS
      <4>3. Len(p) \in Nat /\ Len(p) <= Len(q) /\ Len(p) = k - 1
        BY <2>3, <3>2, <3>3
      <4>4. \A i \in 1..Len(p) : u[i] = q[i]
        BY <3>2, <4>2, <4>3, Prefixed
      <4>5. u = p
        BY <2>11, <4>2
      <4>6. \A i \in 1..Len(p) : f[i] = p[i]
        BY <3>3, <3>4, <4>1, <4>3, <4>4, <4>5
      <4> QED
        BY <2>3, <4>f, <4>1, <4>3, <4>6
    <3>8. Walk(r) = Step(t, Last(r)) /\ Last(r) \in Names
      BY <2>6, <3>4, <3>6, <3>7, WalkGoes, FrontIs DEF WalkSteps
    <3> QED
      BY <3>5, <3>8 DEF Step, OneEntry
  <2>12. p \in Tree!Paths
    BY <2>2, SameWords
  <2>13. Tree!Drop(p)
    <3>1. Tree!IsLeaf(p)
      BY <2>11 DEF Tree!IsLeaf
    <3>2. p \in ToRemove
      BY <2>2, <2>3 DEF ToRemove, Target
    <3> QED
      BY <2>1, <2>10, <3>1, <3>2, SameWords DEF Tree!Drop
  <2> QED
    BY <2>3, <2>7, <2>12, <2>13
<1> QED
  BY <1>2, <1>3

-----------------------------------------------------------------------------
(* What the running operation knows of the path it adds or removes. *)

Childless(i) == \A s \in Slots : ~Child(i, s)

Changing == Adding \/ pc \in Deleting \cup {"dir_inode"}

\* The inode that comes or goes lists nothing: only leaves are added and removed.
TargetIsLeaf == Changing => Childless(op.num)

\* It is not the directory it is listed in; format() alone makes such a one.
NotItself == Changing /\ op.name # "" => op.dir # op.num

\* remove_path will find the entry it looked up before it freed the inode.
EntryStays == pc \in Deleting => Find(op.dir, op.name).inode = op.num

NameSound == TargetIsLeaf /\ NotItself /\ EntryStays

NameInv == Sound => NameSound

\* The steps a FileTree knows, but for the wiping of everything.
TreeStep ==
  \/ TreeOf' = TreeOf
  \/ \E p \in Tree!Paths, k \in {FileType, DirType} : Tree!Add(p, k)
  \/ pc = "rm_entry" /\ \E p \in Tree!Paths : Tree!Drop(p) /\ Last(p) = op.name

LEMMA KeptFind ==
  ASSUME NEW d \in Inodes, Kept(d), NEW n \in Names PROVE Find(d, n)' = Find(d, n)
<1>1. CASE IsDir(d)
  <2>1. EntrySlots(d, n)' = EntrySlots(d, n)
    BY <1>1 DEF Kept, EntrySlots, CellAt, Used
  <2>2. IsDir(d)'
    BY <1>1 DEF Kept
  <2>3. EntrySlots(d, n) # {} =>
          Min(EntrySlots(d, n)) \in Slots /\ Min(EntrySlots(d, n))' = Min(EntrySlots(d, n))
    <3>1. EntrySlots(d, n) \subseteq Slots
      BY DEF EntrySlots
    <3> QED
      BY <2>1, <3>1, Sizes, MinInSet
  <2> QED
    BY <1>1, <2>1, <2>2, <2>3 DEF Kept, Find, CellAt
<1>2. CASE ~IsDir(d)
  BY <1>2 DEF Kept, Find, ZeroCell
<1> QED
  BY <1>1, <1>2

\* One slot of a directory changes: another name is found as before.
LEMMA OtherNames ==
  ASSUME NEW d \in Inodes, NEW s \in Slots, NEW n \in Names, IsDir(d)' <=> IsDir(d),
         \A r \in Slots : r # s => CellAt(d, r)' = CellAt(d, r),
         ~Used(CellAt(d, s)) \/ CellAt(d, s).name # n,
         ~Used(CellAt(d, s)') \/ CellAt(d, s)'.name # n
  PROVE  Find(d, n)' = Find(d, n)
<1>1. EntrySlots(d, n)' = EntrySlots(d, n) /\ s \notin EntrySlots(d, n)
  <2>1. \A r \in Slots : r \in EntrySlots(d, n) <=> Used(CellAt(d, r)) /\ CellAt(d, r).name = n
    BY DEF EntrySlots, CellAt
  <2>2. \A r \in Slots :
          r \in EntrySlots(d, n)' <=> Used(CellAt(d, r)') /\ CellAt(d, r)'.name = n
    BY DEF EntrySlots, CellAt, Used
  <2>3. EntrySlots(d, n) \subseteq Slots /\ EntrySlots(d, n)' \subseteq Slots
    BY DEF EntrySlots, Slots
  <2> QED
    BY <2>1, <2>2, <2>3
<1>2. EntrySlots(d, n) # {} =>
        /\ Min(EntrySlots(d, n)) \in Slots \ {s}
        /\ Min(EntrySlots(d, n))' = Min(EntrySlots(d, n))
  <2>1. EntrySlots(d, n) \subseteq Slots
    BY DEF EntrySlots
  <2> QED
    BY <1>1, <2>1, Sizes, MinInSet
<1> QED
  BY <1>1, <1>2 DEF Find, CellAt

\* When every directory reads as before, so does the tree.
LEMMA AllSame ==
  ASSUME \A d \in Inodes : Kept(d)
  PROVE  SameFinds /\ TreeStep /\ \A i, s : Child(i, s)' => Child(i, s)
<1>1. SameFinds
  BY KeptFinds
<1>2. TreeStep
  BY <1>1, SameTree DEF TreeStep
<1>3. \A i, s : Child(i, s)' => i \in Inodes
  BY DEF Child
<1> QED
  BY <1>1, <1>2, <1>3, KeptReads

\* An inode with no child before a step and after it does not show.
LEMMA LeafChanges ==
  ASSUME NEW i \in Inodes, \A d \in Inodes \ {i} : Kept(d),
         \A s \in Slots : ~Child(i, s), \A s \in Slots : ~Child(i, s)'
  PROVE  SameFinds /\ TreeStep
<1>1. \A n \in Names : Find(i, n)' = Find(i, n)
  <2> SUFFICES ASSUME NEW n \in Names PROVE Find(i, n)' = Find(i, n)
    OBVIOUS
  <2>1. Find(i, n) = ZeroCell
    BY FindIsRight DEF FindsChildren
  <2>2. Find(i, n)' = ZeroCell
    BY FindStaysRight DEF FindsChildren, ZeroCell
  <2> QED
    BY <2>1, <2>2
<1>2. SameFinds
  BY <1>1, KeptFinds
<1> QED
  BY <1>2, SameTree DEF TreeStep

LEMMA NameSettled == ASSUME ~Changing' PROVE NameSound'
  BY DEF NameSound, TargetIsLeaf, NotItself, EntryStays, Changing

LEMMA NameGivenUp == ASSUME Return PROVE NameSound'
  BY NameSettled DEF Return, Changing, Adding, MakingDots, MakingEntry, InCreate, Deleting

\* The operation goes on with the same inode, directory and name.
LEMMA NameCarried ==
  ASSUME NameSound, Changing' => Changing,
         NEW i, NEW d, NEW n, op.num = i, op.dir = d, op.name = n,
         op'.num = i, op'.dir = d, op'.name = n,
         \A s \in Slots : Child(i, s) \/ ~Child(i, s)',
         pc' \in Deleting => pc \in Deleting /\ Find(d, n)' = Find(d, n)
  PROVE  NameSound'
<1>1. TargetIsLeaf'
  BY DEF NameSound, TargetIsLeaf, Childless, Child
<1>2. NotItself'
  BY DEF NameSound, NotItself
<1>3. EntryStays'
  <2> SUFFICES ASSUME pc' \in Deleting PROVE EntryStays'
    BY DEF EntryStays
  <2>1. Find(d, n).inode = i
    BY DEF NameSound, EntryStays
  <2>2. Find(d, n)'.inode = i
    BY <2>1
  <2> QED
    BY <2>2, Zenon DEF EntryStays, Find, IsDir, HasBlock, EntrySlots
<1> QED
  BY <1>1, <1>2, <1>3 DEF NameSound

\* The directories read as before, and the operation goes on or is over.
LEMMA KeptCarries ==
  ASSUME NameSound, \A d \in Inodes : Kept(d), Changing' => Changing,
         op'.num = op.num, op'.dir = op.dir, op'.name = op.name,
         pc' \in Deleting => pc \in Deleting /\ op.dir \in Inodes /\ op.name \in Names
  PROVE  NameSound' /\ TreeStep
<1>1. PICK i, d, n : i = op.num /\ d = op.dir /\ n = op.name
  OBVIOUS
<1>2. \A s \in Slots : Child(i, s) \/ ~Child(i, s)'
  BY AllSame
<1>3. pc' \in Deleting => pc \in Deleting /\ Find(d, n)' = Find(d, n)
  BY <1>1, KeptFind
<1>4. op'.num = i /\ op'.dir = d /\ op'.name = n
  BY <1>1
<1>5. NameSound'
  BY <1>1, <1>2, <1>3, <1>4, NameCarried
<1> QED
  BY <1>5, AllSame

LEMMA KeptEnds ==
  ASSUME \A d \in Inodes : Kept(d), Return \/ ~Changing'
  PROVE  NameSound' /\ TreeStep
  BY AllSame, NameGivenUp, NameSettled

\* Where neither the inode table nor a directory block is written.
LEMMA NotChanging ==
  ASSUME pc' \in {"mount", "idle", "fmt_sb", "fmt_fat", "remount"} \cup Extending
  PROVE  ~Changing'
  BY DEF Changing, Adding, MakingDots, MakingEntry, InCreate, Deleting, Extending

-----------------------------------------------------------------------------
(* One lemma per action, or per group of actions alike. *)

LEMMA AllocNames ==
  ASSUME TypeInv, NameSound, AllocCluster PROVE NameSound' /\ TreeStep
<1>1. pc = "alloc" /\ UNCHANGED <<inodes, blocks>> /\ op \in Operation
  BY DEF AllocCluster, TypeInv, TypeOK
<1>2. \A d \in Inodes : Kept(d)
  BY <1>1, StillKept
<1>3. Return \/ (pc' = "zero" /\ \E c : op' = [op EXCEPT !.new = c])
  BY DEF AllocCluster, Proceed
<1>4. CASE Return
  BY <1>2, <1>4, KeptEnds
<1>5. CASE pc' = "zero" /\ \E c : op' = [op EXCEPT !.new = c]
  <2>1. /\ op'.num = op.num /\ op'.dir = op.dir /\ op'.name = op.name /\ op'.ret = op.ret
    BY <1>1, <1>5 DEF Operation
  <2>2. (Changing' => Changing) /\ pc' \notin Deleting
    BY <1>1, <1>5, <2>1 DEF Changing, Adding, MakingDots, MakingEntry, InCreate, Deleting
  <2> QED
    BY <1>2, <2>1, <2>2, KeptCarries
<1> QED
  BY <1>3, <1>4, <1>5

LEMMA ZeroNames ==
  ASSUME TypeInv, ClustersSound, NameSound, ZeroCluster PROVE NameSound' /\ TreeStep
<1>1. /\ pc = "zero" /\ UNCHANGED inodes /\ TypeOK
      /\ op.ret \in {"dots", "entry", "first", "link"} /\ op.new \in Chained
  BY DEF ZeroCluster, TypeInv, TypeOK, OpTyped, Operation
<1>2. PICK w \in Outcomes : PutBlock(w, op.new, ZeroBlock) /\ Proceed(w, op.ret, op)
  BY DEF ZeroCluster
<1>3. Held(op.new)
  BY <1>1 DEF ClustersSound, LocalsSound, NewHeld
<1>4. \A d \in Inodes : Kept(d)
  BY <1>1, <1>2, <1>3, PutBlockReads, HeldIsNoBlock, OtherBlock
<1>5. CASE Return
  BY <1>4, <1>5, KeptEnds
<1>6. CASE pc' = op.ret /\ op' = op
  <2>1. (Changing' => Changing) /\ pc' \notin Deleting
    BY <1>1, <1>6 DEF Changing, Adding, MakingDots, MakingEntry, InCreate, Deleting
  <2> QED
    BY <1>4, <1>6, <2>1, KeptCarries
<1> QED
  BY <1>2, <1>5, <1>6 DEF Proceed

LEMMA MountNames == ASSUME Mount \/ Remount PROVE NameSound' /\ TreeStep
<1>1. UNCHANGED <<inodes, blocks>> /\ pc' \in {"idle", "fmt_sb"}
  BY DEF Mount, Remount, disk, Return
<1> QED
  BY <1>1, StillKept, NotChanging, KeptEnds

LEMMA FormatSuperblockNames ==
  ASSUME TypeInv, FormatSuperblock PROVE NameSound' /\ TreeStep
<1>1. /\ UNCHANGED inodes /\ TypeOK /\ 0 \in Chained
  BY DEF FormatSuperblock, TypeInv, Chained
<1>2. PICK w \in Outcomes : PutCell(w, 0, 1, Magic) /\ Proceed(w, "fmt_fat", op)
  BY DEF FormatSuperblock
<1>3. \A c \in Chained \ {0} : blocks'[c] = blocks[c]
  BY <1>1, <1>2, Sizes, PutCellReads
<1>4. \A d \in Inodes : Kept(d)
  BY <1>1, <1>3, HeldIsNoBlock, OtherBlock
<1>5. pc' \in {"fmt_fat", "idle"}
  BY <1>2 DEF Proceed, Return
<1> QED
  BY <1>4, <1>5, NotChanging, KeptEnds

LEMMA WriteDotsNames ==
  ASSUME TypeInv, ClustersSound, NameSound, WriteDots PROVE NameSound' /\ TreeStep
<1>1. pc = "dots" /\ UNCHANGED inodes /\ TypeOK /\ op.new \in Chained
  BY DEF WriteDots, TypeInv, TypeOK, Operation
<1>2. PICK w \in Outcomes : /\ PutBlock(w, op.new, DotEntries(op.num, op.dir))
                            /\ Proceed(w, "dots_inode", op)
  BY DEF WriteDots
<1>3. Held(op.new)
  BY <1>1 DEF ClustersSound, LocalsSound, NewHeld
<1>4. \A d \in Inodes : Kept(d)
  BY <1>1, <1>2, <1>3, PutBlockReads, HeldIsNoBlock, OtherBlock
<1>5. CASE Return
  BY <1>4, <1>5, KeptEnds
<1>6. CASE pc' = "dots_inode" /\ op' = op
  <2>1. Changing /\ pc' \notin Deleting
    BY <1>1, <1>6 DEF Changing, Adding, MakingDots, InCreate, Deleting
  <2> QED
    BY <1>4, <1>6, <2>1, KeptCarries
<1> QED
  BY <1>2, <1>5, <1>6 DEF Proceed

LEMMA AddEntryNames ==
  ASSUME TypeInv, NameSound, AddEntryStart PROVE NameSound' /\ TreeStep
<1>1. pc = "add" /\ UNCHANGED <<inodes, blocks>> /\ op \in Operation /\ Changing
  BY DEF AddEntryStart, disk, TypeInv, TypeOK, Changing, Adding
<1>2. \A d \in Inodes : Kept(d)
  BY <1>1, StillKept
<1>3. CASE Return
  BY <1>2, <1>3, KeptEnds
<1>4. CASE ~Return
  <2>1. \/ pc' = "entry" /\ op' = [op EXCEPT !.new = inodes[op.dir].first]
        \/ pc' = "alloc" /\ op' = Fresh("entry")
    BY <1>4 DEF AddEntryStart
  <2>2. op'.num = op.num /\ op'.dir = op.dir /\ op'.name = op.name /\ pc' \notin Deleting
    BY <1>1, <2>1 DEF Fresh, Operation, Deleting
  <2> QED
    BY <1>1, <1>2, <2>2, KeptCarries
<1> QED
  BY <1>3, <1>4

\* write_file, and what comes to no path.
LEMMA WritingNames ==
  ASSUME TypeInv, ClustersSound, TreeSound,
         \/ \E p, append, len : WriteFile(p, append, len)
         \/ Seek \/ SetFirst \/ LinkCluster
  PROVE  NameSound' /\ TreeStep
<1>1. UNCHANGED <<inodes, blocks>>
  BY DEF WriteFile, Seek, SetFirst, LinkCluster, disk
<1>2. ~Changing'
  <2>1. CASE Seek
    <3>1. op \in Operation
      BY DEF TypeInv, TypeOK
    <3>2. \/ pc' = "alloc" /\ op' \in {Fresh("first"), Fresh("link")}
          \/ pc' \in {"seek", "data"}
      BY <2>1 DEF Seek
    <3>3. pc' = "alloc" => op'.ret \in {"first", "link"}
      BY <3>1, <3>2 DEF Fresh, Operation
    <3> QED
      BY <3>2, <3>3 DEF Changing, Adding, MakingDots, MakingEntry, InCreate, Deleting
  <2>2. CASE ~Seek
    <3>1. pc' \in {"seek", "idle"}
      BY <2>2 DEF WriteFile, SetFirst, LinkCluster, Proceed, Return
    <3> QED
      BY <3>1, NotChanging DEF Extending
  <2> QED
    BY <2>1, <2>2
<1> QED
  BY <1>1, <1>2, StillKept, KeptEnds

LEMMA WriteDataNames ==
  ASSUME TypeInv, TreeSound, WriteData PROVE NameSound' /\ TreeStep
<1>1. pc = "data" /\ UNCHANGED inodes
  BY DEF WriteData
<1>2. /\ TypeOK /\ op.node.first # 0
      /\ \A i \in Inodes :
           inodes[i].type = DirType => inodes[i].first \notin {op.cur, op.node.first}
  BY <1>1, FileKnown DEF Extending
<1>3. \A c \in Chained \ {op.cur} : blocks'[c] = blocks[c]
  <2>1. PICK w \in Outcomes : \E new : PutBlock(w, op.cur, new)
    BY DEF WriteData
  <2> QED
    BY <1>2, <2>1, PutBlockReads
<1>4. \A d \in Inodes : Kept(d)
  BY <1>1, <1>2, <1>3, OtherBlock DEF IsDir
<1>5. pc' \in {"idle", "size", "seek"}
  BY DEF WriteData, Proceed, Return
<1> QED
  BY <1>4, <1>5, NotChanging, KeptEnds DEF Extending

LEMMA WriteSizeNames ==
  ASSUME TypeInv, TreeSound, WriteSize PROVE NameSound' /\ TreeStep
<1>1. pc = "size" /\ UNCHANGED blocks /\ Return
  BY DEF WriteSize
<1>2. /\ op.num \in Inodes /\ op.node \in Inode /\ TypeOK
      /\ inodes[op.num].type = FileType /\ op.node.type = FileType
  BY <1>1, FileKnown DEF Extending
<1>3. PICK i \in Inodes : i = op.num
  BY <1>2
<1>4. PICK w \in Outcomes : \E size : PutInode(w, i, [op.node EXCEPT !.size = size])
  BY <1>3 DEF WriteSize
<1>5. PICK node : PutInode(w, i, node) /\ node.type = FileType
  <2>1. PICK size : PutInode(w, i, [op.node EXCEPT !.size = size])
    BY <1>4
  <2>2. [op.node EXCEPT !.size = size].type = FileType
    BY <1>2 DEF Inode
  <2> QED
    BY <2>1, <2>2
<1>6. /\ \A e \in Inodes \ {i} : Kept(e)
      /\ inodes'[i] = IF w.hit THEN node ELSE inodes[i]
  BY <1>1, <1>2, <1>5, OtherInodes
<1>7. Kept(i)
  BY <1>2, <1>3, <1>5, <1>6 DEF Kept, IsDir, FileType, DirType
<1> QED
  BY <1>1, <1>6, <1>7, KeptEnds

LEMMA PowerLossNames == ASSUME PowerLoss PROVE NameSound' /\ TreeStep
<1>1. UNCHANGED <<inodes, blocks>> /\ pc' = "mount"
  BY DEF PowerLoss, disk
<1> QED
  BY <1>1, StillKept, NotChanging, KeptEnds

\* remove_path lets no directory go that lists something.
LEMMA RemovePathNames ==
  ASSUME TypeInv, TreeSound, NEW p, NEW n \in Names, RemovePath(p, n)
  PROVE  NameSound' /\ TreeStep
<1>1. UNCHANGED <<inodes, blocks>> /\ TreeOK /\ Gone = 0 /\ pc' \in {"rm_free", "rm_inode"}
  BY DEF RemovePath, AtPrompt, disk, Gone, TreeSound
<1>2. PICK d \in Inodes : d = Walk(p)
  BY DEF RemovePath
<1>3. PICK t \in Inodes : t = Find(d, n).inode /\ (inodes[t].type = DirType => IsEmptyExceptDots(t))
  BY <1>2 DEF RemovePath
<1>4. op'.num = t /\ op'.dir = d /\ op'.name = n
  BY <1>2, <1>3 DEF RemovePath, NoOp
<1>5. \A s \in Slots : ~Child(t, s)
  <2> SUFFICES ASSUME NEW s \in Slots, Child(t, s) PROVE FALSE
    OBVIOUS
  <2>1. inodes[t].type = DirType /\ CellAt(t, s).inode # 0 /\ CellAt(t, s).name \in Names
    BY DEF Child, IsDir
  <2>2. CellAt(t, s).name \in {".", ".."}
    BY <1>3, <2>1, NamesPlain DEF IsEmptyExceptDots, CellAt, Used
  <2> QED
    BY <2>1, <2>2, NamesPlain
<1>6. t # 0 /\ t # d
  <2>1. t # 0
    BY Sizes
  <2>2. \E s \in Slots : Child(d, s)
    BY <1>3, <2>1, FindIsRight, ZeroIsNone DEF FindsChildren
  <2> QED
    BY <1>5, <2>1, <2>2
<1>7. (\A e \in Inodes : Kept(e)) /\ TreeStep /\ \A s \in Slots : ~Child(t, s)'
  BY <1>1, <1>5, StillKept, AllSame
<1>8. Find(d, n)'.inode = t
  BY <1>3, <1>7, KeptFind
<1>9. TargetIsLeaf'
  BY <1>4, <1>7 DEF TargetIsLeaf, Childless, Child
<1>10. NotItself'
  BY <1>4, <1>6 DEF NotItself
<1>11. EntryStays'
  BY <1>4, <1>8 DEF EntryStays, Find, IsDir, HasBlock, EntrySlots
<1> QED
  BY <1>7, <1>9, <1>10, <1>11 DEF NameSound

LEMMA ChainNames ==
  ASSUME TypeInv, TreeSound, NameSound, FreeCluster PROVE NameSound' /\ TreeStep
<1>1. /\ UNCHANGED <<inodes, blocks>> /\ pc = "rm_free" /\ pc \in Deleting
      /\ pc' \in {"rm_free", "rm_inode"} /\ Changing
  BY DEF FreeCluster, Deleting, Changing
<1>2. op \in Operation /\ op.dir \in Inodes /\ op.name \in Names
  BY <1>1, DeletingType
<1>3. op'.num = op.num /\ op'.dir = op.dir /\ op'.name = op.name
  BY <1>2 DEF FreeCluster, Operation
<1> QED
  BY <1>1, <1>2, <1>3, StillKept, KeptCarries

\* The inode remove_path frees lists nothing, and its directory still lists it.
LEMMA FreeInodeNames ==
  ASSUME TypeInv, TreeSound, NameSound, FreeInode PROVE NameSound' /\ TreeStep
<1>1. UNCHANGED blocks /\ pc = "rm_inode" /\ pc \in Deleting /\ TypeOK /\ Changing
  BY DEF FreeInode, Deleting, TypeInv, Changing
<1>2. PICK i \in Inodes : i = op.num
  BY <1>1, DeletingType
<1>3. PICK d \in Inodes : d = op.dir
  BY <1>1, DeletingType
<1>4. PICK n \in Names : n = op.name
  BY <1>1, DeletingType
<1>5. PICK w \in Outcomes : PutInode(w, i, ZeroInode) /\ Proceed(w, "rm_entry", op)
  BY <1>2 DEF FreeInode
<1>6. /\ \A e \in Inodes \ {i} : Kept(e)
      /\ inodes'[i] = inodes[i] => Kept(i)
      /\ inodes'[i] = IF w.hit THEN ZeroInode ELSE inodes[i]
  BY <1>1, <1>5, OtherInodes
<1>7. \A s \in Slots : ~Child(i, s)
  BY <1>1, <1>2 DEF NameSound, TargetIsLeaf, Childless
<1>8. \A s \in Slots : ~Child(i, s)'
  <2>1. CASE w.hit
    BY <1>6, <2>1 DEF Child, IsDir, ZeroInode, FreeType, DirType
  <2>2. CASE ~w.hit
    BY <1>6, <1>7, <2>2, KeptReads
  <2> QED
    BY <2>1, <2>2
<1>9. TreeStep /\ SameFinds
  BY <1>6, <1>7, <1>8, LeafChanges
<1>10. CASE Return
  BY <1>9, <1>10, NameGivenUp
<1>11. CASE op' = op
  <2>1. op'.num = i /\ op'.dir = d /\ op'.name = n
    BY <1>2, <1>3, <1>4, <1>11
  <2>2. Find(d, n)' = Find(d, n)
    BY <1>9 DEF SameFinds
  <2>3. NameSound'
    BY <1>1, <1>2, <1>3, <1>4, <1>8, <2>1, <2>2, NameCarried
  <2> QED
    BY <1>9, <2>3
<1> QED
  BY <1>5, <1>10, <1>11 DEF Proceed

\* walk_path finds no free inode.
LEMMA WalkIsLive ==
  ASSUME TreeOK, Gone = 0, inodes[Root].type = DirType, NEW p \in Seq(Names), Walk(p) # 0
  PROVE  inodes[Walk(p)].type # FreeType
<1>1. CASE p = << >>
  BY <1>1, WalkGoes DEF WalkSteps, DirType, FreeType
<1>2. CASE p # << >>
  <2>1. PICK n \in Names : n = Last(p)
    BY <1>2, FrontIs
  <2>2. PICK v : v = Walk(Front(p))
    OBVIOUS
  <2>3. PICK t : t = Walk(p)
    OBVIOUS
  <2>4. t = Step(v, n) /\ t # 0
    BY <1>2, <2>1, <2>2, <2>3, WalkGoes DEF WalkSteps
  <2>5. Find(v, n).inode = t
    BY <2>4 DEF Step
  <2>6. PICK s \in Slots : v \in Inodes /\ Child(v, s) /\ Find(v, n) = CellAt(v, s)
    BY <2>4, <2>5, FindIsRight, ZeroIsNone DEF FindsChildren
  <2>7. t \in Inodes /\ CellAt(v, s).type \in {FileType, DirType}
    BY <2>5, <2>6 DEF TreeOK, ChildrenLead
  <2>8. inodes[t].type = CellAt(v, s).type
    BY <2>4, <2>5, <2>6, <2>7 DEF TreeOK, ChildrenAgree
  <2> QED
    BY <2>3, <2>7, <2>8 DEF FreeType, FileType, DirType
<1> QED
  BY <1>1, <1>2

\* The inode create_* takes is free, so it lists nothing and no path leads to it.
LEMMA TakeNames ==
  ASSUME TypeInv, TreeSound, pc = "idle", mounted, UNCHANGED blocks,
         NEW p \in Seq(Names), NEW n \in Names, NEW k \in {FileType, DirType},
         Walk(p) \in Inodes, Find(Walk(p), n).inode = 0, FreeInodes # {},
         TakeInode(Walk(p), n, k)
  PROVE  NameSound' /\ TreeStep
<1>1. PICK d \in Inodes : d = Walk(p)
  OBVIOUS
<1>2. PICK i \in Inodes : i = Min(FreeInodes) /\ inodes[i].type = FreeType
  BY FirstFree DEF FreeInodes
<1>3. d # i
  <2>1. inodes[Root].type = DirType /\ TreeOK /\ Gone = 0 /\ d # 0
    BY Sizes DEF TreeSound, RootOK, Gone
  <2> QED
    BY <1>1, <1>2, <2>1, WalkIsLive
<1>4. PICK w \in Outcomes : /\ PutInode(w, i, ZeroInode)
                            /\ Proceed(w, "mark", CreateOp(d, n, k))
  BY <1>1, <1>2 DEF TakeInode
<1>5. /\ \A e \in Inodes \ {i} : Kept(e)
      /\ inodes'[i] \in {ZeroInode, inodes[i]}
  BY <1>4, OtherInodes DEF TypeInv
<1>6. ~IsDir(i) /\ ~IsDir(i)'
  BY <1>2, <1>5 DEF IsDir, ZeroInode, FreeType, DirType
<1>7. \A e \in Inodes : Kept(e)
  BY <1>5, <1>6 DEF Kept
<1>8. CASE Return
  BY <1>7, <1>8, KeptEnds
<1>9. CASE pc' = "mark" /\ op' = CreateOp(d, n, k)
  <2>1. op'.num = i /\ op'.dir = d
    BY <1>2, <1>9 DEF CreateOp, NoOp
  <2>2. \A s \in Slots : ~Child(i, s)'
    BY <1>6 DEF Child
  <2>3. NameSound'
    <3>1. TargetIsLeaf'
      BY <2>1, <2>2 DEF TargetIsLeaf, Childless, Child
    <3>2. NotItself' /\ EntryStays'
      BY <1>3, <1>9, <2>1 DEF NotItself, EntryStays, Deleting
    <3> QED
      BY <3>1, <3>2 DEF NameSound
  <2> QED
    BY <1>7, <2>3, AllSame
<1> QED
  BY <1>4, <1>8, <1>9 DEF Proceed

LEMMA CreateNames ==
  ASSUME TypeInv, TreeSound, NEW p \in Paths, NEW n \in Names, NEW k \in {FileType, DirType},
         Create(p, n, k)
  PROVE  NameSound' /\ TreeStep
<1>1. p \in Seq(Names)
  BY PathsAre
<1> QED
  BY <1>1, TakeNames DEF Create, AtPrompt, CanCreate

LEMMA EnsureNames ==
  ASSUME TypeInv, LayoutMounted, TreeSound, EnsureDir PROVE NameSound' /\ TreeStep
<1>1. PICK h \in Seq(Names) : h = Head(todo) /\ h # << >>
  <2>1. todo \in Seq(Seq(Names) \ {<<>>}) /\ todo # <<>>
    BY DEF TypeInv, TypeOK, EnsureDir
  <2> QED
    BY <2>1
<1>2. PICK p \in Seq(Names) : p = Front(h)
  BY <1>1, FrontIs
<1>3. PICK n \in Names : n = Last(h)
  BY <1>1, FrontIs
<1>4. pc = "idle" /\ UNCHANGED blocks /\ mounted
  BY DEF EnsureDir, LayoutMounted
<1>5. CASE CanCreate(p, n)
  <2>1. /\ TakeInode(Walk(p), n, DirType) /\ FreeInodes # {} /\ Walk(p) \in Inodes
        /\ Find(Walk(p), n).inode = 0
    BY <1>1, <1>2, <1>3, <1>5 DEF EnsureDir, CanCreate
  <2> QED
    BY <1>4, <2>1, TakeNames
<1>6. CASE ~CanCreate(p, n)
  <2>1. UNCHANGED <<inodes, pc>>
    BY <1>1, <1>2, <1>3, <1>6 DEF EnsureDir
  <2> QED
    BY <1>4, <2>1, StillKept, NotChanging, KeptEnds
<1> QED
  BY <1>5, <1>6

\* The inode that is being made lists nothing before it is marked and after it.
LEMMA MarkNames ==
  ASSUME TypeInv, NameSound, MarkInode PROVE NameSound' /\ TreeStep
<1>1. pc = "mark" /\ UNCHANGED blocks /\ TypeOK /\ Adding /\ Changing
  BY DEF MarkInode, TypeInv, Adding, Changing
<1>2. op \in Operation /\ op.num \in Inodes
  BY <1>1, AddingType
<1>3. PICK i \in Inodes : i = op.num
  BY <1>2
<1>4. PICK d, n, k : d = op.dir /\ n = op.name /\ k = op.kind
  OBVIOUS
<1>5. PICK w \in Outcomes :
        /\ PutInode(w, i, [ZeroInode EXCEPT !.type = k])
        /\ IF k = DirType THEN Proceed(w, "alloc", Fresh("dots")) ELSE Proceed(w, "add", op)
  BY <1>3, <1>4 DEF MarkInode
<1>6. /\ \A e \in Inodes \ {i} : Kept(e)
      /\ inodes'[i] = inodes[i] => Kept(i)
      /\ inodes'[i] = IF w.hit THEN [ZeroInode EXCEPT !.type = k] ELSE inodes[i]
  BY <1>1, <1>5, OtherInodes
<1>7. \A s \in Slots : ~Child(i, s)
  BY <1>1, <1>3 DEF NameSound, TargetIsLeaf, Childless
<1>8. \A s \in Slots : ~Child(i, s)'
  <2>1. CASE w.hit
    <3>1. inodes'[i].first = 0
      BY <1>6, <2>1 DEF ZeroInode
    <3> QED
      BY <3>1 DEF Child, IsDir, HasBlock
  <2>2. CASE ~w.hit
    BY <1>6, <1>7, <2>2, KeptReads
  <2> QED
    BY <2>1, <2>2
<1>9. TreeStep
  BY <1>6, <1>7, <1>8, LeafChanges
<1>10. CASE Return
  BY <1>9, <1>10, NameGivenUp
<1>11. CASE pc' \in {"alloc", "add"} /\ op' \in {op, Fresh("dots")}
  <2>1. op'.num = i /\ op'.dir = d /\ op'.name = n
    BY <1>2, <1>3, <1>4, <1>11 DEF Fresh, Operation
  <2>2. pc' \notin Deleting
    BY <1>11 DEF Deleting
  <2>3. NameSound'
    BY <1>1, <1>3, <1>4, <1>8, <2>1, <2>2, NameCarried
  <2> QED
    BY <1>9, <2>3
<1> QED
  BY <1>5, <1>10, <1>11 DEF Proceed

\* Its first block holds no entry but the dots.
LEMMA WriteDotsInodeNames ==
  ASSUME TypeInv, ClustersSound, TreeSound, NameSound, WriteDotsInode
  PROVE  NameSound' /\ TreeStep
<1>1. /\ pc = "dots_inode" /\ UNCHANGED blocks /\ TypeOK /\ Adding /\ Changing
  BY DEF WriteDotsInode, TypeInv, Adding, MakingDots, InCreate, Changing
<1>2. op \in Operation /\ op.num \in Inodes /\ op.dir \in Inodes
  BY <1>1, AddingType
<1>3. PICK i \in Inodes : i = op.num
  BY <1>2
<1>4. PICK d, n, b : d = op.dir /\ n = op.name /\ b = op.new
  OBVIOUS
<1>5. blocks[b] = DotEntries(i, d)
  BY <1>1, <1>3, <1>4 DEF TreeSound, TreeLocals, DotsWritten
<1> DEFINE node == [type |-> DirType, size |-> CellsPerBlock, first |-> b]
<1>6. PICK w \in Outcomes :
        PutInode(w, i, node) /\ Proceed(w, IF n = "" THEN "remount" ELSE "add", op)
  BY <1>3, <1>4 DEF WriteDotsInode
<1>7. node.first = b
  OBVIOUS
<1> HIDE DEF node
<1>8. /\ \A e \in Inodes \ {i} : Kept(e)
      /\ inodes'[i] = inodes[i] => Kept(i)
      /\ inodes'[i] = IF w.hit THEN node ELSE inodes[i]
  BY <1>1, <1>6, OtherInodes
<1>9. \A s \in Slots : ~Child(i, s)
  BY <1>1, <1>3 DEF NameSound, TargetIsLeaf, Childless
<1>10. \A s \in Slots : ~Child(i, s)'
  <2>1. CASE w.hit
    <3> SUFFICES ASSUME NEW s \in Slots PROVE ~Child(i, s)'
      OBVIOUS
    <3>1. CellAt(i, s)' = DotEntries(i, d)[s]
      BY <1>1, <1>5, <1>7, <1>8, <2>1 DEF CellAt
    <3>2. CellAt(i, s)'.name \in {"", ".", ".."}
      BY <3>1, DotCells, ZenonT(40)
    <3>3. CellAt(i, s)'.name \notin Names
      BY <3>2, NamesPlain
    <3> QED
      BY <3>3 DEF Child
  <2>2. CASE ~w.hit
    BY <1>8, <1>9, <2>2, KeptReads
  <2> QED
    BY <2>1, <2>2
<1>11. TreeStep
  BY <1>8, <1>9, <1>10, LeafChanges
<1>12. CASE pc' # "add"
  <2>1. pc' \in {"remount", "idle"}
    BY <1>6, <1>12 DEF Proceed, Return
  <2> QED
    BY <1>11, <2>1, NotChanging, NameSettled
<1>13. CASE pc' = "add"
  <2>1. op'.num = i /\ op'.dir = d /\ op'.name = n /\ pc' \notin Deleting
    BY <1>3, <1>4, <1>6, <1>13 DEF Proceed, Return, Deleting
  <2>2. NameSound'
    BY <1>1, <1>3, <1>4, <1>10, <2>1, NameCarried
  <2> QED
    BY <1>11, <2>2
<1> QED
  BY <1>12, <1>13

-----------------------------------------------------------------------------
(* The writes that add and clear an entry. *)

LEMMA OneEntryChanges ==
  ASSUME NEW d \in Inodes, NEW n \in Names, NEW i \in Inodes, i # d,
         \A e \in Inodes \ {d} : Kept(e),
         \A m \in Names : m # n => Find(d, m)' = Find(d, m),
         Find(d, n).inode \in {0, i}, Find(d, n)'.inode \in {0, i},
         \A s \in Slots : ~Child(i, s)
  PROVE  OneEntry(d, n, i) /\ \A s \in Slots : ~Child(i, s)'
<1>1. \A s \in Slots : ~Child(i, s)'
  BY KeptReads
<1>2. \A m \in Names : Find(i, m).inode = 0 /\ Find(i, m)'.inode = 0
  <2> SUFFICES ASSUME NEW m \in Names PROVE Find(i, m).inode = 0 /\ Find(i, m)'.inode = 0
    OBVIOUS
  <2>1. Find(i, m) = ZeroCell
    BY FindIsRight DEF FindsChildren
  <2>2. Find(i, m)' = ZeroCell
    BY <1>1, FindStaysRight DEF FindsChildren, ZeroCell
  <2> QED
    BY <2>1, <2>2, ZeroIsNone
<1>3. ASSUME NEW e, NEW m \in Names, e # d \/ m # n PROVE Find(e, m)' = Find(e, m)
  <2>1. CASE e = d
    BY <1>3, <2>1
  <2>2. CASE e # d /\ e \in Inodes
    BY <2>2, KeptFind
  <2>3. CASE e \notin Inodes
    BY <2>3 DEF Find, IsDir, Inodes, ZeroCell
  <2> QED
    BY <2>1, <2>2, <2>3
<1> QED
  BY <1>1, <1>2, <1>3 DEF OneEntry

\* dir_add_entry, where the directory has its block: the path comes with the block.
LEMMA WriteEntryNames ==
  ASSUME TypeInv, ClustersSound, TreeSound, NameSound, WriteEntry
  PROVE  NameSound' /\ TreeStep
<1>1. /\ pc = "entry" /\ UNCHANGED inodes /\ TypeOK /\ Gone = 0 /\ TreeOK /\ Changing
  BY DEF WriteEntry, TypeInv, Gone, TreeSound, Changing, Adding, MakingEntry, InCreate
<1>2. PICK i \in Inodes : i = op.num
  BY <1>1, EntryKnown
<1>3. PICK d \in Inodes : d = op.dir
  BY <1>1, EntryKnown
<1>4. PICK n, k, b : n = op.name /\ k = op.kind /\ b = op.new
  OBVIOUS
<1>5. /\ op \in Operation /\ n \in Names /\ n # "" /\ k \in {FileType, DirType}
      /\ NameFree(d, n) /\ inodes[d].type = DirType
  BY <1>1, <1>2, <1>3, <1>4, EntryKnown
<1>6. b \in Chained /\ b # 0 /\ b # FAT_EOF /\ (b = inodes[d].first \/ Held(b))
  <2>1. InUse(b) /\ (b = inodes[d].first \/ Unowned(b))
    BY <1>1, <1>3, <1>4 DEF ClustersSound, LocalsSound, EntryBlock
  <2> QED
    BY <2>1, Sizes, EofIsNoCluster DEF InUse, Chained, Held
<1>7. i # d /\ \A s \in Slots : ~Child(i, s)
  BY <1>1, <1>2, <1>3, <1>4, <1>5 DEF NameSound, TargetIsLeaf, NotItself, Childless
<1> DEFINE cell == [inode |-> i, type |-> k, name |-> n]
           node == [inodes[d] EXCEPT !.size = CellsPerBlock, !.first = b]
<1>8. CASE FreeSlots(b) = {}
  <2>1. Return /\ UNCHANGED blocks
    BY <1>4, <1>8 DEF WriteEntry
  <2> QED
    BY <1>1, <2>1, StillKept, KeptEnds
<1>9. CASE FreeSlots(b) # {}
  <2>1. PICK s \in Slots : s = Min(FreeSlots(b)) /\ ~Used(blocks[b][s])
    BY <1>9, MinInSet, Sizes DEF FreeSlots
  <2>2. PICK w \in Outcomes :
          PutCell(w, b, s, cell) /\ Proceed(w, "dir_inode", [op EXCEPT !.node = node])
    BY <1>2, <1>3, <1>4, <1>9, <2>1 DEF WriteEntry
  <2>3. cell.inode = i /\ cell.type = k /\ cell.name = n
    OBVIOUS
  <2> HIDE DEF node, cell
  <2>4. /\ \A c \in Chained \ {b} : blocks'[c] = blocks[c]
        /\ w.hit => \A r \in Slots : blocks'[b][r] = IF r = s THEN cell ELSE blocks[b][r]
        /\ ~w.hit => blocks' = blocks
    BY <1>1, <1>6, <2>2, PutCellReads
  <2>5. \/ Return
        \/ op'.num = i /\ op'.dir = d /\ op'.name = n /\ pc' \notin Deleting
    BY <1>2, <1>3, <1>4, <1>5, <2>2 DEF Proceed, Operation, Deleting
  <2>6. CASE \A e \in Inodes : Kept(e)
    BY <1>1, <1>2, <1>3, <1>4, <2>5, <2>6, KeptEnds, KeptCarries
  <2>7. CASE ~w.hit
    BY <1>1, <2>4, <2>6, <2>7, StillKept
  <2>8. CASE b # inodes[d].first
    BY <1>1, <1>6, <2>4, <2>6, <2>8, HeldIsNoBlock, OtherBlock
  <2>9. CASE w.hit /\ b = inodes[d].first
    <3>1. \A e \in Inodes \ {d} : Kept(e)
      <4> SUFFICES ASSUME NEW e \in Inodes \ {d} PROVE Kept(e)
        OBVIOUS
      <4>1. inodes[e].first # b
        BY <1>6, <2>9 DEF ClustersSound, OwnedOnce, HeadsApart
      <4>2. inodes[e].first \in Chained
        BY <1>1 DEF TypeOK, Inode
      <4>3. blocks'[inodes[e].first] = blocks[inodes[e].first]
        BY <2>4, <4>1, <4>2
      <4> QED
        BY <1>1, <4>3 DEF Kept, IsDir, HasBlock, CellAt
    <3>2. \A r \in Slots : CellAt(d, r)' = IF r = s THEN cell ELSE CellAt(d, r)
      BY <1>1, <2>4, <2>9 DEF CellAt
    <3>3. /\ IsDir(d) /\ IsDir(d)' /\ ~Used(CellAt(d, s))
      BY <1>1, <1>5, <1>6, <2>1, <2>9 DEF IsDir, HasBlock, CellAt
    <3>4. \A m \in Names : m # n => Find(d, m)' = Find(d, m)
      <4> SUFFICES ASSUME NEW m \in Names, m # n PROVE Find(d, m)' = Find(d, m)
        OBVIOUS
      <4>1. CellAt(d, s)'.name # m /\ \A r \in Slots : r # s => CellAt(d, r)' = CellAt(d, r)
        BY <2>3, <3>2
      <4> QED
        BY <3>3, <4>1, OtherNames
    <3>5. Find(d, n).inode = 0
      BY <1>5, FindIsRight, ZeroIsNone DEF FindsChildren, NameFree
    <3>6. Find(d, n)' = cell
      <4>1. CellAt(d, s)' = cell
        BY <3>2
      <4>2. Child(d, s)'
        BY <1>5, <2>3, <3>3, <4>1, Sizes DEF Child
      <4>3. ASSUME NEW r \in Slots, Child(d, r)', CellAt(d, r)'.name = n PROVE r = s
        BY <1>5, <3>2, <3>3, <4>3 DEF Child, NameFree
      <4> QED
        BY <1>5, <2>3, <4>1, <4>2, <4>3, FindStaysRight DEF FindsChildren
    <3>7. OneEntry(d, n, i) /\ \A r \in Slots : ~Child(i, r)'
      BY <1>5, <1>7, <2>3, <3>1, <3>4, <3>5, <3>6, OneEntryChanges
    <3>8. TreeStep
      <4>1. Gone # d
        BY <1>1, Sizes
      <4> QED
        BY <1>1, <1>3, <1>4, <1>5, <2>3, <3>5, <3>6, <3>7, <4>1, EntryAdds DEF TreeStep
    <3>9. NameSound'
      <4>1. CASE Return
        BY <4>1, NameGivenUp
      <4>2. CASE op'.num = i /\ op'.dir = d /\ op'.name = n /\ pc' \notin Deleting
        BY <1>1, <1>2, <1>3, <1>4, <3>7, <4>2, NameCarried
      <4> QED
        BY <2>5, <4>1, <4>2
    <3> QED
      BY <3>8, <3>9
  <2> QED
    BY <2>7, <2>8, <2>9
<1> QED
  BY <1>8, <1>9

\* Where it has none, the path comes with the inode of the directory.
LEMMA WriteDirInodeNames ==
  ASSUME TypeInv, ClustersSound, TreeSound, NameSound, WriteDirInode
  PROVE  NameSound' /\ TreeStep
<1>1. /\ pc = "dir_inode" /\ UNCHANGED blocks /\ TypeOK /\ Gone = 0 /\ TreeOK /\ Changing
      /\ NameSound'
  BY NameGivenUp DEF WriteDirInode, TypeInv, Gone, TreeSound, Changing
<1>2. PICK d \in Inodes : d = op.dir
  BY <1>1 DEF TypeInv, OpTyped, Creating
<1>3. PICK i \in Inodes : i = op.num
  BY <1>1 DEF TypeInv, OpTyped, Creating
<1>4. PICK node, n, k : node = op.node /\ n = op.name /\ k = op.kind
  OBVIOUS
<1>5. PICK w \in Outcomes : PutInode(w, d, node)
  BY <1>2, <1>4 DEF WriteDirInode
<1>6. /\ node.type = DirType /\ inodes[d].type = DirType
      /\ node.first # inodes[d].first =>
           /\ ~HasBlock(d) /\ n \in Names /\ k \in {FileType, DirType}
           /\ \E s \in Slots :
                /\ blocks[node.first][s] = [inode |-> i, type |-> k, name |-> n]
                /\ \A r \in Slots \ {s} : blocks[node.first][r].name \notin Names
  BY <1>1, <1>2, <1>3, <1>4 DEF TreeSound, TreeLocals, EntryWritten
<1>7. /\ \A e \in Inodes \ {d} : Kept(e) /\ inodes'[e] = inodes[e]
      /\ inodes'[d] = inodes[d] => Kept(d)
      /\ inodes'[d] = IF w.hit THEN node ELSE inodes[d]
  BY <1>1, <1>5, OtherInodes
<1>8. CASE ~w.hit \/ node.first = inodes[d].first
  <2>1. Kept(d)
    BY <1>1, <1>6, <1>7, <1>8 DEF Kept, IsDir, HasBlock, CellAt
  <2> QED
    BY <1>1, <1>7, <2>1, AllSame
<1>9. CASE w.hit /\ node.first # inodes[d].first
  <2>1. PICK s \in Slots :
          /\ blocks[node.first][s] = [inode |-> i, type |-> k, name |-> n]
          /\ \A r \in Slots \ {s} : blocks[node.first][r].name \notin Names
    BY <1>6, <1>9
  <2>2. \A r \in Slots : CellAt(d, r)' = blocks[node.first][r]
    BY <1>1, <1>7, <1>9 DEF CellAt
  <2>3. \A r \in Slots : Child(d, r)' => r = s
    BY <2>1, <2>2 DEF Child
  <2>4. \A r \in Slots : ~Child(d, r)
    BY <1>6, <1>9 DEF Child, IsDir
  <2>5. CellAt(d, s)'.inode = i /\ CellAt(d, s)'.type = k /\ CellAt(d, s)'.name = n
    BY <2>1, <2>2
  <2>6. CASE ~Child(d, s)'
    <3>1. \A r \in Slots : ~Child(d, r)'
      BY <2>3, <2>6
    <3> QED
      BY <1>1, <1>7, <2>4, <3>1, LeafChanges
  <2>7. CASE Child(d, s)'
    <3>1. n \in Names /\ n # "" /\ k \in {FileType, DirType}
      BY <1>6, <1>9, NamesPlain
    <3>2. i # d /\ \A r \in Slots : ~Child(i, r)
      BY <1>1, <1>2, <1>3, <1>4, <3>1 DEF NameSound, TargetIsLeaf, NotItself, Childless
    <3>3. \A m \in Names : Find(d, m) = ZeroCell
      BY <2>4, FindIsRight DEF FindsChildren
    <3>4. Find(d, n)' = CellAt(d, s)'
      BY <2>3, <2>5, <2>7, <3>1, FindStaysRight DEF FindsChildren
    <3>5. \A m \in Names : m # n => Find(d, m)' = Find(d, m)
      <4> SUFFICES ASSUME NEW m \in Names, m # n PROVE Find(d, m)' = Find(d, m)
        OBVIOUS
      <4>1. Find(d, m)' = ZeroCell
        BY <2>3, <2>5, FindStaysRight DEF FindsChildren, ZeroCell
      <4> QED
        BY <3>3, <4>1
    <3>6. Find(d, n).inode = 0 /\ Find(d, n)'.inode = i /\ Find(d, n)'.type = k
      BY <2>5, <3>1, <3>3, <3>4, ZeroIsNone
    <3>7. OneEntry(d, n, i)
      BY <1>7, <3>1, <3>2, <3>5, <3>6, OneEntryChanges
    <3>8. Gone # d
      BY <1>1, Sizes
    <3> QED
      BY <1>1, <1>2, <1>4, <1>6, <3>1, <3>6, <3>7, <3>8, EntryAdds DEF TreeStep
  <2> QED
    BY <2>6, <2>7
<1> QED
  BY <1>8, <1>9

\* remove_path clears the one entry it found: one path goes, and it is a leaf.
LEMMA RemoveEntryNames ==
  ASSUME TypeInv, ClustersSound, TreeSound, NameSound, RemoveEntry, Sound'
  PROVE  NameSound' /\ TreeStep
<1>1. /\ UNCHANGED inodes /\ pc = "rm_entry" /\ TypeOK /\ pc \in Deleting /\ Changing
      /\ TreeOK /\ "remove" \notin harm' /\ "remove" \in Exposed
  BY DEF RemoveEntry, TreeSound, TypeInv, Sound, Exposed, Deleting, Changing
<1>2. PICK d \in Inodes : d = op.dir
  BY <1>1, DeletingType
<1>3. PICK i \in Inodes : i = op.num
  BY <1>1, DeletingType
<1>4. PICK n \in Names : n = op.name /\ n # ""
  BY <1>1, DeletingType, NamesPlain
<1>5. IsDir(d) /\ EntrySlots(d, n) # {} /\ op \in Operation
  BY <1>1, <1>2, <1>4, DeletingType DEF RemoveEntry
<1>6. PICK s \in Slots : s = Min(EntrySlots(d, n)) /\ s \in EntrySlots(d, n)
  BY <1>5, Sizes, MinInSet DEF EntrySlots
<1>7. PICK b \in Chained : b = inodes[d].first /\ b # 0
  BY <1>1, <1>5, FindType DEF IsDir, HasBlock
<1>8. PICK w \in Outcomes :
        /\ PutCell(w, b, s, ZeroCell)
        /\ Proceed(w, "dir_inode", [op EXCEPT !.node = inodes[d]])
        /\ harm' = IF w.hit THEN harm ELSE harm \cup Exposed
  BY <1>2, <1>4, <1>5, <1>6, <1>7 DEF RemoveEntry
<1>9. /\ \A c \in Chained \ {b} : blocks'[c] = blocks[c]
      /\ \A r \in Slots : blocks'[b][r] = IF r = s THEN ZeroCell ELSE blocks[b][r]
  <2>1. w.hit
    BY <1>1, <1>8
  <2> QED
    BY <1>1, <1>8, <2>1, PutCellReads
<1>10. \A r \in Slots : CellAt(d, r)' = IF r = s THEN ZeroCell ELSE CellAt(d, r)
  BY <1>1, <1>7, <1>9 DEF CellAt
<1>11. \A e \in Inodes \ {d} : Kept(e)
  <2> SUFFICES ASSUME NEW e \in Inodes \ {d} PROVE Kept(e)
    OBVIOUS
  <2>1. inodes[e].first # b
    BY <1>7 DEF ClustersSound, OwnedOnce, HeadsApart
  <2>2. inodes[e].first \in Chained
    BY <1>1 DEF TypeOK, Inode
  <2>3. blocks'[inodes[e].first] = blocks[inodes[e].first]
    BY <1>9, <2>1, <2>2, SMTT(30)
  <2> QED
    BY <1>1, <2>3 DEF Kept, IsDir, HasBlock, CellAt
<1>12. CellAt(d, s).name = n /\ Child(d, s) /\ IsDir(d)'
  BY <1>1, <1>5, <1>6, Zenon DEF CellAt, EntrySlots, Used, Child, IsDir, HasBlock
<1>13. ~Used(CellAt(d, s)') /\ CellAt(d, s)'.name # n
  <2>1. CellAt(d, s)' = ZeroCell
    BY <1>10
  <2>2. ~Used(ZeroCell) /\ ZeroCell.name = ""
    BY DEF Used, ZeroCell
  <2> QED
    BY <1>4, <2>1, <2>2 DEF Used
<1>14. \A m \in Names : m # n => Find(d, m)' = Find(d, m)
  <2> SUFFICES ASSUME NEW m \in Names, m # n PROVE Find(d, m)' = Find(d, m)
    OBVIOUS
  <2>1. CellAt(d, s).name # m /\ \A r \in Slots : r # s => CellAt(d, r)' = CellAt(d, r)
    BY <1>10, <1>12
  <2> QED
    BY <1>5, <1>12, <1>13, <2>1, OtherNames
<1>15. Find(d, n).inode = i
  BY <1>1, <1>2, <1>3, <1>4 DEF NameSound, EntryStays
<1>16. Find(d, n)'.inode = 0
  <2>1. ASSUME NEW r \in Slots, Child(d, r)', CellAt(d, r)'.name = n PROVE FALSE
    <3>1. r # s
      BY <1>13, <2>1
    <3>2. CellAt(d, r).name = n /\ Child(d, r)
      BY <1>5, <1>10, <2>1, <3>1 DEF Child
    <3> QED
      BY <1>1, <1>12, <3>1, <3>2 DEF TreeOK, NamesApart
  <2>2. Find(d, n)' = ZeroCell
    BY <2>1, FindStaysRight DEF FindsChildren, ZeroCell
  <2> QED
    BY <2>2, ZeroIsNone
<1>17. i # d /\ \A r \in Slots : ~Child(i, r)
  BY <1>1, <1>2, <1>3, <1>4 DEF NameSound, TargetIsLeaf, NotItself, Childless
<1>18. OneEntry(d, n, i) /\ \A r \in Slots : ~Child(i, r)'
  BY <1>11, <1>14, <1>15, <1>16, <1>17, OneEntryChanges
<1>19. TreeStep
  BY <1>1, <1>2, <1>4, <1>16, <1>18, EntryDrops DEF TreeStep
<1>20. NameSound'
  <2>1. CASE Return
    BY <2>1, NameGivenUp
  <2>2. CASE pc' = "dir_inode" /\ op' = [op EXCEPT !.node = inodes[d]]
    <3>1. op'.num = i /\ op'.dir = d /\ op'.name = n /\ pc' \notin Deleting
      BY <1>2, <1>3, <1>4, <1>5, <2>2 DEF Operation, Deleting
    <3> QED
      BY <1>1, <1>2, <1>3, <1>4, <1>18, <3>1, NameCarried
  <2> QED
    BY <1>8, <2>1, <2>2 DEF Proceed
<1> QED
  BY <1>19, <1>20

-----------------------------------------------------------------------------
(* The disk without an entry. *)

NoChild == \A d \in Inodes, s \in Slots : ~Child(d, s)

NoPath == NoChild => TreeOf = << >>

LEMMA NoPathWithout == NoPath
<1> SUFFICES ASSUME NoChild PROVE TreeOf = << >>
  BY DEF NoPath
<1>1. ASSUME NEW p \in Paths \ {<< >>} PROVE Walk(p) = 0
  <2>1. p \in Seq(Names) /\ p # << >>
    BY PathsAre
  <2>2. PICK n \in Names : n = Last(p)
    BY <2>1, FrontIs
  <2>3. PICK v : v = Walk(Front(p))
    OBVIOUS
  <2>4. Walk(p) = Step(v, n)
    BY <2>1, <2>2, <2>3, WalkGoes DEF WalkSteps
  <2>5. Find(v, n) = ZeroCell
    BY FindIsRight DEF FindsChildren, NoChild, Child
  <2> QED
    BY <2>4, <2>5, ZeroIsNone DEF Step
<1>2. DOMAIN TreeOf = {p \in Paths \ {<< >>} : Walk(p) # 0}
  BY TreeIsSo DEF TreeIs, Paths
<1>3. DOMAIN TreeOf = {}
  BY <1>1, <1>2
<1>4. TreeOf = [q \in DOMAIN TreeOf |-> TreeOf[q]]
  BY TreeShape
<1> QED
  BY <1>3, <1>4

LEMMA NoPathLeft == NoPath'
  BY NoPathWithout, PTL

LEMMA FormatRootNames ==
  ASSUME TypeInv, Formatted, FormatRoot, Sound' PROVE NameSound' /\ TreeOf' = << >>
<1>1. /\ pc = "fmt_root" /\ inodes \in [Inodes -> Inode]
      /\ \A i \in Inodes : inodes[i] = ZeroInode
  BY DEF FormatRoot, Formatted, TypeInv, TypeOK
<1>2. PICK w \in Outcomes :
        /\ PutInode(w, Root, [ZeroInode EXCEPT !.type = DirType])
        /\ Proceed(w, "alloc", [NoOp EXCEPT !.dir = Root, !.num = Root, !.ret = "dots"])
        /\ harm' = IF w.ok THEN {} ELSE harm \cup Exposed
  BY DEF FormatRoot
<1>3. w.ok /\ w.hit
  BY <1>1, <1>2, OutcomeType DEF Exposed, Formatting, Sound
<1>4. pc' = "alloc" /\ op'.num = Root /\ op'.name = ""
  BY <1>2, <1>3 DEF Proceed, NoOp
<1>5. \A i \in Inodes : inodes'[i].first = 0
  BY <1>1, <1>2, <1>3, Sizes DEF PutInode, ZeroInode
<1>6. \A d \in Inodes, s \in Slots : ~Child(d, s)'
  BY <1>5 DEF Child, IsDir, HasBlock
<1>7. TreeOf' = << >>
  BY <1>6, NoPathLeft DEF NoPath, NoChild
<1>8. TargetIsLeaf'
  BY <1>6 DEF TargetIsLeaf, Childless, Child
<1>9. NotItself' /\ EntryStays'
  BY <1>4 DEF NotItself, EntryStays, Deleting
<1> QED
  BY <1>7, <1>8, <1>9 DEF NameSound

\* On the way to the new root, the write of the inode table alone shows in the
\* paths, and it takes them all.
LEMMA FormatNames ==
  ASSUME TypeInv, Next, harm' \subseteq {"refused"}, Formatting'
  PROVE  TreeOf' = TreeOf \/ (Formatting /\ TreeOf' = << >>)
<1>1. CASE UNCHANGED <<inodes, blocks>>
  BY <1>1, StillKept, KeptFinds, SameTree
<1>2. CASE FormatSuperblock
  <2>1. /\ UNCHANGED inodes /\ TypeOK /\ 0 \in Chained
    BY <1>2 DEF FormatSuperblock, TypeInv, Chained
  <2>2. PICK w \in Outcomes : PutCell(w, 0, 1, Magic)
    BY <1>2 DEF FormatSuperblock
  <2>3. \A c \in Chained \ {0} : blocks'[c] = blocks[c]
    BY <2>1, <2>2, Sizes, PutCellReads
  <2> QED
    BY <2>1, <2>3, HeldIsNoBlock, OtherBlock, KeptFinds, SameTree
<1>3. CASE FormatInodes
  <2>1. Formatting /\ "format" \in Exposed
    BY <1>3 DEF FormatInodes, Formatting, Exposed
  <2>2. PICK w \in Outcomes :
          /\ inodes' = IF w.hit THEN [i \in Inodes |-> ZeroInode] ELSE inodes
          /\ harm' = IF w.ok THEN harm ELSE harm \cup Exposed
    BY <1>3 DEF FormatInodes
  <2>3. inodes' = [i \in Inodes |-> ZeroInode]
    BY <2>1, <2>2, OutcomeType
  <2>4. \A d \in Inodes, s \in Slots : ~Child(d, s)'
    BY <2>3 DEF Child, IsDir, HasBlock, ZeroInode
  <2> QED
    BY <2>1, <2>4, NoPathLeft DEF NoPath, NoChild
<1>4. CASE ~FormatSuperblock /\ ~FormatInodes
  <2>1. pc' \in {"fmt_fat", "fmt_inodes", "fmt_reserved", "fmt_root"}
    BY DEF Formatting
  <2>2. CASE Boot
    <3>1. FormatFat \/ FormatReserved
      BY <1>4, <2>1, <2>2 DEF Boot, Mount, FormatRoot, Remount, EnsureDir, Proceed, Return,
         TakeInode
    <3> QED
      BY <1>1, <3>1 DEF FormatFat, FormatReserved
  <2>3. ASSUME Continue PROVE FALSE
    <3>1. PICK ret \in {"idle", "dots", "entry", "first", "link"} : ret = op.ret
      BY DEF TypeInv, TypeOK, Operation
    <3>2. ~ZeroCluster
      BY <2>1, <3>1 DEF ZeroCluster, Proceed, Return
    <3>3. ~(AllocCluster \/ MarkInode \/ WriteDots \/ WriteDotsInode)
      BY <2>1 DEF AllocCluster, MarkInode, WriteDots, WriteDotsInode, Proceed, Return
    <3>4. ~(AddEntryStart \/ WriteEntry \/ WriteDirInode)
      BY <2>1 DEF AddEntryStart, WriteEntry, WriteDirInode, Proceed, Return
    <3>5. ~(FreeCluster \/ FreeInode \/ RemoveEntry)
      BY <2>1 DEF FreeCluster, FreeInode, RemoveEntry, Proceed, Return
    <3>6. ~(Seek \/ SetFirst \/ LinkCluster \/ WriteData \/ WriteSize)
      BY <2>1 DEF Seek, SetFirst, LinkCluster, WriteData, WriteSize, Proceed, Return
    <3> QED
      BY <2>3, <3>2, <3>3, <3>4, <3>5, <3>6 DEF Continue
  <2>4. ~Command /\ ~PowerLoss
    BY <2>1, CommandStarts DEF PowerLoss
  <2> QED
    BY <2>2, <2>3, <2>4 DEF Next
<1> QED
  BY <1>2, <1>3, <1>4

LEMMA InitNames == Init => NameInv /\ Tree!Init
<1> SUFFICES ASSUME Init PROVE NameInv /\ Tree!Init
  OBVIOUS
<1>1. pc = "mount" /\ \A i \in Inodes : inodes[i].type # DirType
  BY DEF Init, ZeroInode, FreeType, DirType
<1>2. NoChild
  BY <1>1 DEF NoChild, Child, IsDir
<1>3. NameInv
  BY <1>1 DEF NameInv, NameSound, TargetIsLeaf, NotItself, EntryStays, Changing, Adding,
     MakingDots, MakingEntry, InCreate, Deleting
<1>4. Tree!Init
  BY <1>2, NoPathWithout DEF NoPath, Tree!Init
<1> QED
  BY <1>3, <1>4

-----------------------------------------------------------------------------
\* One case per action.
LEMMA NextNames ==
  ASSUME TypeInv, ClusterInv, TreeInv, NameInv, [Next]_vars, Sound'
  PROVE  NameSound' /\ (TreeStep \/ (Formatting /\ TreeOf' = << >>))
<1>1. CASE FormatRoot
  <2>1. Formatting
    BY <1>1 DEF FormatRoot, Formatting
  <2> QED
    BY <1>1, <2>1, FormatRootNames DEF ClusterInv
<1>2. CASE ~FormatRoot
  <2>1. TreeSound /\ ClustersSound /\ NameSound /\ ~Formatting /\ LayoutMounted
    BY <1>2, HarmGrows DEF ClusterInv, TreeInv, NameInv, Sound
  <2>2. CASE Boot
    <3>1. ~FormatFat /\ ~FormatInodes /\ ~FormatReserved
      BY <2>1 DEF FormatFat, FormatInodes, FormatReserved, Formatting
    <3> QED
      BY <1>2, <2>1, <2>2, <3>1, MountNames, FormatSuperblockNames, EnsureNames DEF Boot
  <2>3. CASE Continue
    BY <2>1, <2>3, AllocNames, ZeroNames, MarkNames, WriteDotsNames, WriteDotsInodeNames,
       AddEntryNames, WriteEntryNames, WriteDirInodeNames, ChainNames, FreeInodeNames,
       RemoveEntryNames, WritingNames, WriteDataNames, WriteSizeNames
       DEF Continue
  <2>4. CASE Command
    <3>1. \A p, n, k : ~CreateUnseen(p, n, k)
      BY DEF CreateUnseen, Sound
    <3>2. \/ \E p \in Paths, n \in Names, k \in {FileType, DirType} : Create(p, n, k)
          \/ \E p \in Paths, n \in Names : RemovePath(p, n)
          \/ \E p, append, len : WriteFile(p, append, len)
      BY <2>4, <3>1 DEF Command
    <3> QED
      BY <2>1, <3>2, CreateNames, RemovePathNames, WritingNames
  <2>5. CASE PowerLoss
    BY <2>5, PowerLossNames
  <2>6. CASE UNCHANGED vars
    <3>1. UNCHANGED <<inodes, blocks, pc, op>>
      BY <2>6 DEF vars, disk, memory
    <3>2. pc \in Deleting => op.dir \in Inodes /\ op.name \in Names
      BY <2>1, DeletingType
    <3>3. Changing' => Changing
      BY <3>1 DEF Changing, Adding, MakingDots, MakingEntry, InCreate, Deleting
    <3> QED
      BY <2>1, <3>1, <3>2, <3>3, StillKept, KeptCarries
  <2> QED
    BY <2>2, <2>3, <2>4, <2>5, <2>6 DEF Next
<1> QED
  BY <1>1, <1>2

\* The inductive invariant, with what the running operation knows of its path.
THEOREM NameInvariant == Spec => [](TypeInv /\ ClusterInv /\ TreeInv /\ NameInv)
<1>1. Init => NameInv
  BY InitNames
<1>2. TypeInv /\ ClusterInv /\ TreeInv /\ NameInv /\ [Next]_vars => NameInv'
  BY NextNames DEF NameInv
<1> QED
  BY <1>1, <1>2, TreeInvariant, PTL DEF Spec

\* Whatever is interrupted, and while nothing tells of damage, every write of the
\* disk leaves the paths as they are or is a step of FileTree: the path the running
\* creation names comes, under a directory that has a path, or the path the running
\* removal names goes, with none below it; only in a format do all go at once.
THEOREM NameSpaceRefines == Spec => NameSpaceIsTree
<1>1. Init => Tree!Init
  BY InitNames
<1>2. ASSUME TypeInv, ClusterInv, TreeInv, NameInv, Next, harm' \subseteq {"refused"},
             TreeOf' # TreeOf
      PROVE  Tree!Next
  <2>1. CASE Formatting'
    BY <1>2, <2>1, FormatNames DEF Tree!Next, Tree!Wipe
  <2>2. CASE ~Formatting'
    <3>1. Sound'
      BY <1>2, <2>2 DEF Sound, Formatting
    <3>2. TreeStep \/ (Formatting /\ TreeOf' = << >>)
      BY <1>2, <3>1, NextNames
    <3> QED
      BY <1>2, <3>2 DEF TreeStep, Tree!Next, Tree!Wipe
  <2> QED
    BY <2>1, <2>2
<1>3. TypeInv /\ ClusterInv /\ TreeInv /\ NameInv /\ [Next]_vars =>
        [harm' \subseteq {"refused"} /\ disk' # disk /\ TreeOf' # TreeOf => Tree!Next]_vars
  BY <1>2
<1> QED
  BY <1>1, <1>3, NameInvariant, PTL DEF Spec, NameSpaceIsTree

\* A path that was listed goes in one step alone: the write with which remove_path
\* clears the entry of that name.
THEOREM RemovalDrops == Spec => OnlyRemovalDrops
<1>1. ASSUME TreeStep, NEW p \in DOMAIN TreeOf \ DOMAIN TreeOf'
      PROVE  pc = "rm_entry" /\ Last(p) = op.name
  <2>1. ASSUME NEW q \in Tree!Paths, NEW k, Tree!Add(q, k) PROVE FALSE
    BY <1>1, <2>1 DEF Tree!Add
  <2>2. ASSUME NEW q \in Tree!Paths, Tree!Drop(q) PROVE p = q
    <3>1. TreeOf' = [r \in DOMAIN TreeOf \ {q} |-> TreeOf[r]]
      BY <2>2, SameWords DEF Tree!Drop
    <3> QED
      BY <3>1
  <2> QED
    BY <1>1, <2>1, <2>2 DEF TreeStep
<1>2. TypeInv /\ ClusterInv /\ TreeInv /\ NameInv /\ [Next]_vars =>
        [Sound /\ Sound' /\ disk' # disk =>
           \A p \in DOMAIN TreeOf \ DOMAIN TreeOf' : pc = "rm_entry" /\ Last(p) = op.name]_vars
  BY <1>1, NextNames DEF Sound
<1> QED
  BY <1>2, NameInvariant, PTL DEF Spec, OnlyRemovalDrops

-----------------------------------------------------------------------------
(* Nothing leaks. *)

Booting == pc \in {"mount", "fmt_sb"} \/ Formatting

\* The first boot meets a blank disk.
BlankAtBoot ==
  Booting =>
    (\A c \in Clusters : fat[c] = FAT_FREE) /\ (\A i \in Inodes : inodes[i] = ZeroInode)

\* An inode in use is listed, or about to be.
InodesListed ==
  \A i \in Inodes \ {Root} :
    Live(i) =>
      \/ ~Unlisted(i)
      \/ i = op.num /\ Adding
      \/ i = op.num /\ pc = "dir_inode" /\ op.node.first # inodes[op.dir].first

\* The cluster the running operation has and has not yet entered on the disk.
Pinned(c) ==
  \/ pc \in {"zero", "dots", "dots_inode", "entry", "first", "link"} /\ c = op.new
  \/ (Writing \/ pc = "dir_inode") /\ c = op.node.first
  \/ pc = "rm_free" /\ c = op.cur

ClustersPinned == \A c \in Clusters : Held(c) => Pinned(c)

FreeInodesBlank == \A i \in Inodes : ~Live(i) => inodes[i].first = 0

\* No link or head is written over but where a chain ends.
NewBlank == pc = "mark" \/ MakingDots => inodes[op.num].first = 0
FirstKept == Writing => inodes[op.num].first \in {0, op.node.first}
NoFirst == pc = "first" \/ (pc \in {"alloc", "zero"} /\ op.ret = "first") => op.node.first = 0
CurEnds ==
  pc = "link" \/ (pc \in {"alloc", "zero"} /\ op.ret = "link") =>
    op.node.first # 0 /\ fat[op.cur] = FAT_EOF

\* remove_path begins with the first cluster.
FirstFreed ==
  pc = "rm_inode" \/ (pc = "rm_free" /\ op.cur # inodes[op.num].first) =>
    ~InUse(inodes[op.num].first)

\* It takes the entry of an inode that is free.
InodeFreed == pc = "rm_entry" => ~Live(op.num)

LeakLocals == NewBlank /\ FirstKept /\ NoFirst /\ CurEnds /\ FirstFreed /\ InodeFreed

NoLeak == InodesListed /\ ClustersPinned /\ FreeInodesBlank /\ LeakLocals

\* Nothing has failed and no power was lost.
Calm == faults = 0 /\ crashes = 0

LeakInv == Calm => BlankAtBoot /\ (harm = {} => NoLeak)

-----------------------------------------------------------------------------
(* What a write does that reaches the disk. *)

LEMMA CalmOutcome ==
  ASSUME TypeOK, NEW w \in Outcomes, Count(w), faults' = 0
  PROVE  w.ok /\ w.hit
  BY OutcomeType, BoundAssumption DEF Count, TypeOK

LEMMA CalmGoesOn ==
  ASSUME TypeOK, NEW w \in Outcomes, Count(w), faults' = 0,
         NEW next, NEW locals, Proceed(w, next, locals)
  PROVE  w.ok /\ w.hit /\ pc' = next /\ op' = locals
  BY CalmOutcome DEF Proceed

\* An inode that is listed stays so when the one that changes lists nothing.
LEMMA ListedStay ==
  ASSUME NEW x, \A d \in Inodes \ {x} : Kept(d), Kept(x) \/ Childless(x)
  PROVE  \A i : ~Unlisted(i) => ~Unlisted(i)'
<1> SUFFICES ASSUME NEW i, ~Unlisted(i) PROVE ~Unlisted(i)'
  OBVIOUS
<1>1. PICK d \in Inodes, s \in Slots : Child(d, s) /\ CellAt(d, s).inode = i
  BY DEF Unlisted
<1>2. Kept(d)
  BY <1>1 DEF Childless
<1>3. Child(d, s)' /\ CellAt(d, s)'.inode = i
  BY <1>1, <1>2, KeptReads
<1> QED
  BY <1>3 DEF Unlisted

LEMMA AllListedStay ==
  ASSUME \A d \in Inodes : Kept(d)
  PROVE  \A i : ~Unlisted(i) => ~Unlisted(i)'
<1>1. Kept(Root)
  BY Sizes
<1> QED
  BY <1>1, ListedStay

LEMMA SameHeld ==
  ASSUME UNCHANGED <<fat, inodes>> PROVE \A c : Held(c)' => Held(c)
  BY DEF Held, InUse, Unowned

\* One inode is written: its old cluster may be given up, its new one is owned.
LEMMA PutInodeHeld ==
  ASSUME TypeOK, UNCHANGED fat, NEW w, w.hit, NEW i \in Inodes, NEW node, PutInode(w, i, node)
  PROVE  /\ \A j \in Inodes \ {i} : inodes'[j] = inodes[j]
         /\ inodes'[i] = node
         /\ \A c : Held(c)' => c # node.first /\ (Held(c) \/ c = inodes[i].first)
<1>1. (\A j \in Inodes \ {i} : inodes'[j] = inodes[j]) /\ inodes'[i] = node
  BY DEF TypeOK, PutInode
<1> QED
  BY <1>1 DEF Held, InUse, Unowned

\* One link is written.
LEMMA PutFatHeld ==
  ASSUME TypeOK, UNCHANGED inodes, NEW w, w.hit, NEW c \in Clusters, NEW v, PutFat(w, c, v)
  PROVE  /\ \A d \in Clusters \ {c} : fat'[d] = fat[d]
         /\ fat'[c] = v
         /\ \A d : Held(d)' => d # v /\ (Unowned(d) \/ d = fat[c]) /\ (d # c => InUse(d))
<1>1. (\A d \in Clusters \ {c} : fat'[d] = fat[d]) /\ fat'[c] = v
  BY DEF TypeOK, PutFat, Chained
<1> QED
  BY <1>1 DEF Held, InUse, Unowned

\* Where the running operation has nothing to watch.
LEMMA LeakSettled ==
  ASSUME \/ pc' \in {"idle", "remount", "add", "entry", "dir_inode"}
         \/ pc' \in {"alloc", "zero"} /\ op'.ret = "entry"
  PROVE  LeakLocals'
  BY DEF LeakLocals, NewBlank, FirstKept, NoFirst, CurEnds, FirstFreed, InodeFreed,
     MakingDots, InCreate, Writing, Extending

\* Both tables stay, and the directories read as before.
LEMMA QuietLeak ==
  ASSUME NoLeak, UNCHANGED <<fat, inodes>>, \A d \in Inodes : Kept(d),
         pc # "dir_inode", Adding => Adding' /\ op'.num = op.num,
         \A c \in Clusters : Pinned(c) => Pinned(c)'
  PROVE  InodesListed' /\ ClustersPinned' /\ FreeInodesBlank'
<1>1. InodesListed'
  <2> SUFFICES ASSUME NEW i \in Inodes \ {Root}, Live(i)'
               PROVE  ~Unlisted(i)' \/ (op'.num = i /\ Adding')
    BY Zenon DEF InodesListed
  <2>1. Live(i)
    BY DEF Live
  <2>2. ~Unlisted(i) \/ (i = op.num /\ Adding)
    BY <2>1 DEF NoLeak, InodesListed
  <2> QED
    BY <2>2, AllListedStay
<1>2. ClustersPinned'
  <2> SUFFICES ASSUME NEW c \in Clusters, Held(c)' PROVE Pinned(c)'
    BY Zenon DEF ClustersPinned
  <2> QED
    BY SameHeld DEF NoLeak, ClustersPinned
<1>3. FreeInodesBlank'
  BY DEF NoLeak, FreeInodesBlank, Live
<1> QED
  BY <1>1, <1>2, <1>3

-----------------------------------------------------------------------------
(* One lemma per action, or per group of actions alike. *)

LEMMA ZeroLeak ==
  ASSUME TypeInv, ClustersSound, NoLeak, ZeroCluster, faults' = 0 PROVE NoLeak'
<1>1. /\ pc = "zero" /\ UNCHANGED <<fat, inodes>> /\ TypeOK
      /\ op.ret \in {"dots", "entry", "first", "link"} /\ op.new \in Chained
  BY DEF ZeroCluster, TypeInv, TypeOK, OpTyped, Operation
<1>2. PICK w \in Outcomes :
        PutBlock(w, op.new, ZeroBlock) /\ Count(w) /\ Proceed(w, op.ret, op)
  BY DEF ZeroCluster
<1>3. Held(op.new)
  BY <1>1 DEF ClustersSound, LocalsSound, NewHeld
<1>4. \A d \in Inodes : Kept(d)
  BY <1>1, <1>2, <1>3, PutBlockReads, HeldIsNoBlock, OtherBlock
<1>5. pc' = op.ret /\ op' = op
  BY <1>1, <1>2, CalmGoesOn
<1>6. Adding => Adding'
  BY <1>1, <1>5 DEF Adding, MakingDots, MakingEntry, InCreate
<1>7. \A c \in Clusters : Pinned(c) => Pinned(c)'
  BY <1>1, <1>5 DEF Pinned, Writing, Extending
<1>8. LeakLocals'
  BY <1>1, <1>5 DEF NoLeak, LeakLocals, NewBlank, FirstKept, NoFirst, CurEnds, FirstFreed,
     InodeFreed, MakingDots, InCreate, Writing, Extending, Live, InUse
<1> QED
  BY <1>1, <1>4, <1>5, <1>6, <1>7, <1>8, QuietLeak DEF NoLeak

LEMMA WriteDotsLeak ==
  ASSUME TypeInv, ClustersSound, NoLeak, WriteDots, faults' = 0 PROVE NoLeak'
<1>1. pc = "dots" /\ UNCHANGED <<fat, inodes>> /\ TypeOK /\ op.new \in Chained
  BY DEF WriteDots, TypeInv, TypeOK, Operation
<1>2. PICK w \in Outcomes : /\ PutBlock(w, op.new, DotEntries(op.num, op.dir)) /\ Count(w)
                            /\ Proceed(w, "dots_inode", op)
  BY DEF WriteDots
<1>3. Held(op.new)
  BY <1>1 DEF ClustersSound, LocalsSound, NewHeld
<1>4. \A d \in Inodes : Kept(d)
  BY <1>1, <1>2, <1>3, PutBlockReads, HeldIsNoBlock, OtherBlock
<1>5. pc' = "dots_inode" /\ op' = op
  BY <1>1, <1>2, CalmGoesOn
<1>6. Adding'
  BY <1>5 DEF Adding, MakingDots, InCreate
<1>7. \A c \in Clusters : Pinned(c) => Pinned(c)'
  BY <1>1, <1>5 DEF Pinned, Writing, Extending
<1>8. LeakLocals'
  BY <1>1, <1>5 DEF NoLeak, LeakLocals, NewBlank, FirstKept, NoFirst, CurEnds, FirstFreed,
     InodeFreed, MakingDots, InCreate, Writing, Extending
<1> QED
  BY <1>1, <1>4, <1>5, <1>6, <1>7, <1>8, QuietLeak DEF NoLeak

LEMMA AddEntryLeak ==
  ASSUME TypeInv, NoLeak, AddEntryStart, harm' = {} PROVE NoLeak'
<1>1. pc = "add" /\ UNCHANGED <<fat, inodes, blocks>> /\ op \in Operation
  BY DEF AddEntryStart, TypeInv, TypeOK, disk
<1>2. \/ pc' = "entry" /\ op' = [op EXCEPT !.new = inodes[op.dir].first]
      \/ pc' = "alloc" /\ op' = Fresh("entry")
  BY DEF AddEntryStart
<1>3. op'.num = op.num /\ (pc' = "entry" \/ (pc' = "alloc" /\ op'.ret = "entry"))
  BY <1>1, <1>2 DEF Fresh, Operation
<1>4. Adding' /\ LeakLocals'
  BY <1>3, LeakSettled DEF Adding, MakingEntry, InCreate
<1>5. \A c \in Clusters : ~Pinned(c)
  BY <1>1 DEF Pinned, Writing, Extending
<1> QED
  BY <1>1, <1>3, <1>4, <1>5, StillKept, QuietLeak DEF NoLeak

LEMMA RemountLeak == ASSUME NoLeak, Remount PROVE NoLeak'
<1>1. pc = "remount" /\ UNCHANGED <<fat, inodes, blocks>> /\ pc' = "idle"
  BY DEF Remount, Return, disk
<1>2. ~Adding /\ \A c \in Clusters : ~Pinned(c)
  BY <1>1 DEF Pinned, Writing, Extending, Adding, MakingDots, MakingEntry, InCreate
<1> QED
  BY <1>1, <1>2, StillKept, LeakSettled, QuietLeak DEF NoLeak

LEMMA RemovePathLeak ==
  ASSUME TypeInv, NoLeak, NEW p, NEW n, RemovePath(p, n) PROVE NoLeak'
<1> DEFINE t == Find(Walk(p), n).inode
<1>1. pc = "idle" /\ UNCHANGED <<fat, inodes, blocks>> /\ t \in Inodes
  BY DEF RemovePath, AtPrompt, disk
<1>2. /\ pc' = IF HasBlock(t) THEN "rm_free" ELSE "rm_inode"
      /\ op' = [NoOp EXCEPT !.dir = Walk(p), !.name = n, !.num = t, !.cur = inodes[t].first]
  BY DEF RemovePath
<1>3. inodes[t].first \in Chained
  BY <1>1 DEF TypeInv, TypeOK, Inode
<1> HIDE DEF t
<1>4. op'.num = t /\ op'.cur = inodes[t].first
  BY <1>2 DEF NoOp
<1>5. ~Adding /\ \A c \in Clusters : ~Pinned(c)
  BY <1>1 DEF Pinned, Writing, Extending, Adding, MakingDots, MakingEntry, InCreate
<1>6. ~HasBlock(t) => ~InUse(inodes[t].first)
  BY <1>3, Sizes DEF HasBlock, InUse
<1>7. FirstFreed'
  BY <1>1, <1>2, <1>4, <1>6 DEF FirstFreed, InUse
<1>8. LeakLocals'
  BY <1>2, <1>7 DEF LeakLocals, NewBlank, FirstKept, NoFirst, CurEnds,
     InodeFreed, MakingDots, InCreate, Writing, Extending
<1> QED
  BY <1>1, <1>5, <1>8, StillKept, QuietLeak DEF NoLeak

LEMMA WriteFileLeak ==
  ASSUME NoLeak, NEW p, NEW append, NEW len, WriteFile(p, append, len) PROVE NoLeak'
<1>1. pc = "idle" /\ UNCHANGED <<fat, inodes, blocks>> /\ pc' = "seek"
  BY DEF WriteFile, AtPrompt, disk
<1>2. op'.num = Walk(p) /\ op'.node = inodes[Walk(p)]
  BY DEF WriteFile, NoOp
<1>3. ~Adding /\ \A c \in Clusters : ~Pinned(c)
  BY <1>1 DEF Pinned, Writing, Extending, Adding, MakingDots, MakingEntry, InCreate
<1>4. LeakLocals'
  BY <1>1, <1>2 DEF LeakLocals, NewBlank, FirstKept, NoFirst, CurEnds, FirstFreed,
     InodeFreed, MakingDots, InCreate, Writing, Extending
<1> QED
  BY <1>1, <1>3, <1>4, StillKept, QuietLeak DEF NoLeak

LEMMA SeekLeak == ASSUME TypeInv, NoLeak, Seek PROVE NoLeak'
<1>1. /\ pc = "seek" /\ UNCHANGED <<fat, inodes, blocks>> /\ op \in Operation /\ Writing
  BY DEF Seek, disk, TypeInv, TypeOK, Writing, Extending
<1>2. \/ op.node.first = 0 /\ pc' = "alloc" /\ op' = Fresh("first")
      \/ op.node.first # 0 /\ fat[op.cur] = FAT_EOF /\ pc' = "alloc" /\ op' = Fresh("link")
      \/ pc' = "seek" /\ op' = [op EXCEPT !.cur = fat[op.cur], !.pos = @ + 1]
      \/ pc' = "data" /\ op' = op
  BY DEF Seek
<1>3. /\ op'.num = op.num /\ op'.node = op.node
      /\ \/ pc' = "alloc" /\ op'.ret = "first" /\ op.node.first = 0
         \/ /\ pc' = "alloc" /\ op'.ret = "link" /\ op.node.first # 0
            /\ op'.cur = op.cur /\ fat[op.cur] = FAT_EOF
         \/ pc' \in {"seek", "data"}
  BY <1>1, <1>2 DEF Fresh, Operation
<1>4. ~Adding /\ Writing'
  BY <1>1, <1>3 DEF Adding, MakingDots, MakingEntry, InCreate, Writing, Extending
<1>5. \A c \in Clusters : Pinned(c) => Pinned(c)'
  BY <1>1, <1>3, <1>4 DEF Pinned
<1>6. LeakLocals'
  BY <1>1, <1>3, <1>4
     DEF NoLeak, LeakLocals, NewBlank, FirstKept, NoFirst, CurEnds, FirstFreed,
     InodeFreed, MakingDots, InCreate
<1> QED
  BY <1>1, <1>4, <1>5, <1>6, StillKept, QuietLeak DEF NoLeak

\* The file had no cluster: the copy of its inode in memory forgets none.
LEMMA SetFirstLeak == ASSUME TypeInv, NoLeak, SetFirst PROVE NoLeak'
<1>1. /\ pc = "first" /\ UNCHANGED <<fat, inodes, blocks>> /\ op \in Operation /\ Writing
      /\ op.node \in Inode
  BY DEF SetFirst, disk, TypeInv, TypeOK, Writing, Extending, Operation
<1>2. /\ pc' = "seek" /\ op'.num = op.num /\ op'.node.first = op.new
  BY <1>1 DEF SetFirst, Operation, Inode
<1>3. ~Adding /\ Writing'
  BY <1>1, <1>2 DEF Adding, MakingDots, MakingEntry, InCreate, Writing, Extending
<1>4. op.node.first = 0 /\ inodes[op.num].first = 0
  BY <1>1 DEF NoLeak, LeakLocals, NoFirst, FirstKept
<1>5. \A c \in Clusters : Pinned(c) => Pinned(c)'
  BY <1>1, <1>2, <1>3, <1>4, Sizes DEF Pinned
<1>6. LeakLocals'
  BY <1>1, <1>2, <1>3, <1>4 DEF LeakLocals, NewBlank, FirstKept, NoFirst, CurEnds, FirstFreed,
     InodeFreed, MakingDots, InCreate
<1> QED
  BY <1>1, <1>3, <1>5, <1>6, StillKept, QuietLeak DEF NoLeak

LEMMA WriteDataLeak ==
  ASSUME TypeInv, TreeSound, NoLeak, WriteData, faults' = 0 PROVE NoLeak'
<1>1. pc = "data" /\ UNCHANGED <<fat, inodes>> /\ Writing
  BY DEF WriteData, Writing, Extending
<1>2. /\ op \in Operation /\ TypeOK /\ op.node.first # 0
      /\ \A i \in Inodes : inodes[i].type = DirType => inodes[i].first # op.cur
  BY <1>1, FileKnown DEF Extending
<1>3. \A d \in Inodes : Kept(d)
  <2>1. PICK w \in Outcomes : \E new : PutBlock(w, op.cur, new)
    BY DEF WriteData
  <2>2. \A c \in Chained \ {op.cur} : blocks'[c] = blocks[c]
    BY <1>2, <2>1, PutBlockReads
  <2> QED
    BY <1>1, <1>2, <2>2, OtherBlock DEF IsDir
<1>4. \/ pc' = "size" /\ op' = op
      \/ /\ pc' = "seek"
         /\ op' = [op EXCEPT !.idx = @ + 1, !.pos = 0, !.cur = op.node.first]
  BY <1>2, CalmGoesOn DEF WriteData
<1>5. pc' \in {"size", "seek"} /\ op'.num = op.num /\ op'.node = op.node
  BY <1>2, <1>4 DEF Operation
<1>6. ~Adding /\ Writing'
  BY <1>1, <1>5 DEF Adding, MakingDots, MakingEntry, InCreate, Writing, Extending
<1>7. \A c \in Clusters : Pinned(c) => Pinned(c)'
  BY <1>1, <1>5, <1>6 DEF Pinned
<1>8. LeakLocals'
  BY <1>1, <1>5, <1>6
     DEF NoLeak, LeakLocals, NewBlank, FirstKept, NoFirst, CurEnds, FirstFreed,
     InodeFreed, MakingDots, InCreate
<1> QED
  BY <1>1, <1>3, <1>6, <1>7, <1>8, QuietLeak DEF NoLeak

\* The allocator hands out a cluster, and the operation has it in op.new.
LEMMA AllocLeak ==
  ASSUME TypeInv, NoLeak, AllocCluster, faults' = 0, harm' = {} PROVE NoLeak'
<1> DEFINE c == Min(FreeClusters)
<1>1. pc = "alloc" /\ UNCHANGED <<inodes, blocks>> /\ TypeOK /\ op \in Operation
  BY DEF AllocCluster, TypeInv, TypeOK
<1>2. FreeClusters # {} /\ c \in Clusters /\ fat[c] = FAT_FREE
  <2>1. FreeClusters # {}
    BY DEF AllocCluster
  <2> QED
    BY <2>1, FirstFree DEF FreeClusters
<1>3. PICK w \in Outcomes : /\ PutFat(w, c, FAT_EOF) /\ Count(w)
                            /\ Proceed(w, "zero", [op EXCEPT !.new = c])
  BY <1>2 DEF AllocCluster
<1> HIDE DEF c
<1>4. /\ pc' = "zero" /\ op'.new = c /\ op'.num = op.num /\ op'.node = op.node
      /\ op'.ret = op.ret /\ op'.cur = op.cur
  <2>1. pc' = "zero" /\ op' = [op EXCEPT !.new = c]
    BY <1>1, <1>3, CalmGoesOn
  <2> QED
    BY <1>1, <2>1 DEF Operation
<1>5. /\ \A d \in Clusters \ {c} : fat'[d] = fat[d]
      /\ \A d : Held(d)' => (Unowned(d) \/ d = FAT_FREE) /\ (d # c => InUse(d))
  BY <1>1, <1>2, <1>3, CalmOutcome, PutFatHeld
<1>6. (Adding => Adding') /\ (Writing => Writing') /\ (MakingDots' => MakingDots)
  BY <1>1, <1>4 DEF Adding, MakingDots, MakingEntry, InCreate, Writing, Extending
<1>7. InodesListed'
  <2> SUFFICES ASSUME NEW i \in Inodes \ {Root}, Live(i)'
               PROVE  ~Unlisted(i)' \/ (op'.num = i /\ Adding')
    BY Zenon DEF InodesListed
  <2>1. ~Unlisted(i) \/ (i = op.num /\ Adding)
    BY <1>1 DEF Live, NoLeak, InodesListed
  <2> QED
    BY <1>1, <1>4, <1>6, <2>1, StillKept, AllListedStay
<1>8. ClustersPinned'
  <2> SUFFICES ASSUME NEW d \in Clusters, Held(d)' PROVE Pinned(d)'
    BY Zenon DEF ClustersPinned
  <2>1. CASE d = c
    BY <1>4, <2>1 DEF Pinned
  <2>2. CASE d # c
    <3>1. Pinned(d)
      BY <1>5, <2>2, EofIsNoCluster DEF NoLeak, ClustersPinned, Held
    <3> QED
      BY <1>1, <1>4, <1>6, <3>1 DEF Pinned
  <2> QED
    BY <2>1, <2>2
<1>9. LeakLocals'
  <2>1. NewBlank' /\ FirstKept' /\ FirstFreed' /\ InodeFreed' /\ NoFirst'
    BY <1>1, <1>4, <1>6 DEF NoLeak, LeakLocals, NewBlank, FirstKept, NoFirst, FirstFreed,
       InodeFreed, Writing, Extending
  <2>2. CurEnds'
    <3> SUFFICES ASSUME op.ret = "link" PROVE op.node.first # 0 /\ fat'[op.cur] = FAT_EOF
      BY <1>4 DEF CurEnds
    <3>1. op.node.first # 0 /\ fat[op.cur] = FAT_EOF
      BY <1>1 DEF NoLeak, LeakLocals, CurEnds
    <3> QED
      BY <1>1, <1>2, <1>3, <3>1, EofIsNoCluster, CalmOutcome DEF PutFat, TypeOK
  <2> QED
    BY <2>1, <2>2 DEF LeakLocals
<1>10. FreeInodesBlank'
  BY <1>1 DEF NoLeak, FreeInodesBlank, Live
<1> QED
  BY <1>7, <1>8, <1>9, <1>10 DEF NoLeak

\* A chain grows at its end only: no link is written over.
LEMMA LinkLeak ==
  ASSUME TypeInv, ClustersSound, NoLeak, LinkCluster, faults' = 0 PROVE NoLeak'
<1>1. /\ pc = "link" /\ UNCHANGED <<inodes, blocks>> /\ TypeOK /\ op \in Operation /\ Writing
  BY DEF LinkCluster, TypeInv, TypeOK, Writing, Extending
<1>2. op.node.first # 0 /\ fat[op.cur] = FAT_EOF /\ op.cur \in Clusters
  BY <1>1 DEF NoLeak, LeakLocals, CurEnds, ClustersSound, LocalsSound, FileChain, InUse
<1>3. PICK w \in Outcomes :
        /\ PutFat(w, op.cur, op.new) /\ Count(w)
        /\ Proceed(w, "seek", [op EXCEPT !.cur = op.new, !.pos = @ + 1])
  BY DEF LinkCluster
<1>4. pc' = "seek" /\ op'.num = op.num /\ op'.node = op.node
  <2>1. pc' = "seek" /\ op' = [op EXCEPT !.cur = op.new, !.pos = @ + 1]
    BY <1>1, <1>3, CalmGoesOn
  <2> QED
    BY <1>1, <2>1 DEF Operation
<1>5. PICK c \in Clusters : c = op.cur
  BY <1>2
<1>6. \A d : Held(d)' => d # op.new /\ (Unowned(d) \/ d = FAT_EOF) /\ (d # c => InUse(d))
  BY <1>1, <1>2, <1>3, <1>5, CalmOutcome, PutFatHeld
<1>7. ~Adding /\ Writing'
  BY <1>1, <1>4 DEF Adding, MakingDots, MakingEntry, InCreate, Writing, Extending
<1>8. InodesListed'
  <2> SUFFICES ASSUME NEW i \in Inodes \ {Root}, Live(i)' PROVE ~Unlisted(i)'
    BY Zenon DEF InodesListed
  <2>1. ~Unlisted(i)
    BY <1>1, <1>7 DEF Live, NoLeak, InodesListed
  <2> QED
    BY <1>1, <2>1, StillKept, AllListedStay
<1>9. ClustersPinned'
  <2> SUFFICES ASSUME NEW d \in Clusters, Held(d)' PROVE Pinned(d)'
    BY Zenon DEF ClustersPinned
  <2>1. InUse(c)
    BY <1>2, <1>5, EofIsNoCluster DEF InUse
  <2>2. Held(d) /\ d # op.new
    BY <1>5, <1>6, <2>1, EofIsNoCluster DEF Held
  <2>3. d = op.node.first
    BY <1>1, <2>2 DEF NoLeak, ClustersPinned, Pinned
  <2> QED
    BY <1>4, <1>7, <2>3 DEF Pinned
<1>10. LeakLocals'
  BY <1>1, <1>4, <1>7
     DEF NoLeak, LeakLocals, NewBlank, FirstKept, NoFirst, CurEnds, FirstFreed,
     InodeFreed, MakingDots, InCreate
<1>11. FreeInodesBlank'
  BY <1>1 DEF NoLeak, FreeInodesBlank, Live
<1> QED
  BY <1>8, <1>9, <1>10, <1>11 DEF NoLeak

-----------------------------------------------------------------------------
(* The writes of an inode. *)

\* One inode is written that lists nothing or reads as before: it is not left in
\* use with no entry, and the cluster it had is not left in use with no owner.
LEMMA InodeLeak ==
  ASSUME TypeOK, NoLeak, UNCHANGED <<fat, blocks>>, pc # "dir_inode",
         NEW w, w.hit, NEW i \in Inodes, NEW node, PutInode(w, i, node),
         Kept(i) \/ Childless(i), Adding => op.num = i,
         \/ node.type = FreeType /\ node.first = 0
         \/ /\ node.type # FreeType
            /\ i = Root \/ (Adding' /\ op'.num = i) \/ (Live(i) /\ ~Adding),
         inodes[i].first \in {0, node.first} \/ ~InUse(inodes[i].first),
         \A c \in Clusters : Pinned(c) => Pinned(c)' \/ c = node.first
  PROVE  InodesListed' /\ ClustersPinned' /\ FreeInodesBlank'
<1>1. /\ \A j \in Inodes \ {i} : inodes'[j] = inodes[j]
      /\ inodes'[i] = node
      /\ \A c : Held(c)' => c # node.first /\ (Held(c) \/ c = inodes[i].first)
  BY PutInodeHeld
<1>2. \A j : ~Unlisted(j) => ~Unlisted(j)'
  <2>1. \A d \in Inodes \ {i} : Kept(d)
    BY OtherInodes
  <2> QED
    BY <2>1, ListedStay
<1>3. InodesListed'
  <2> SUFFICES ASSUME NEW j \in Inodes \ {Root}, Live(j)'
               PROVE  ~Unlisted(j)' \/ (op'.num = j /\ Adding')
    BY Zenon DEF InodesListed
  <2>1. CASE j = i
    <3>1. (Adding' /\ op'.num = i) \/ (Live(i) /\ ~Adding)
      BY <1>1, <2>1 DEF Live
    <3>2. Live(i) /\ ~Adding => ~Unlisted(i)
      BY <2>1 DEF NoLeak, InodesListed
    <3> QED
      BY <1>2, <2>1, <3>1, <3>2
  <2>2. CASE j # i
    <3>1. Live(j)
      BY <1>1, <2>2 DEF Live
    <3>2. ~Unlisted(j)
      BY <2>2, <3>1 DEF NoLeak, InodesListed
    <3> QED
      BY <1>2, <3>2
  <2> QED
    BY <2>1, <2>2
<1>4. ClustersPinned'
  <2> SUFFICES ASSUME NEW c \in Clusters, Held(c)' PROVE Pinned(c)'
    BY Zenon DEF ClustersPinned
  <2>1. c # node.first /\ (Held(c) \/ c = inodes[i].first)
    BY <1>1
  <2>2. InUse(c) /\ c # 0
    BY Sizes DEF Held, InUse
  <2>3. Held(c)
    BY <2>1, <2>2
  <2> QED
    BY <2>1, <2>3 DEF NoLeak, ClustersPinned
<1>5. FreeInodesBlank'
  <2> SUFFICES ASSUME NEW j \in Inodes, ~Live(j)' PROVE inodes'[j].first = 0
    BY Zenon DEF FreeInodesBlank
  <2>1. CASE j = i
    BY <1>1, <2>1 DEF Live
  <2>2. CASE j # i
    BY <1>1, <2>2 DEF Live, NoLeak, FreeInodesBlank
  <2> QED
    BY <2>1, <2>2
<1> QED
  BY <1>3, <1>4, <1>5

LEMMA TakeLeak ==
  ASSUME TypeInv, NoLeak, pc = "idle", UNCHANGED <<fat, blocks>>, faults' = 0,
         NEW d, NEW n, NEW k, FreeInodes # {}, TakeInode(d, n, k)
  PROVE  NoLeak'
<1>1. PICK i \in Inodes : i = Min(FreeInodes) /\ inodes[i].type = FreeType
  BY FirstFree DEF FreeInodes
<1>2. TypeOK
  BY DEF TypeInv
<1>3. PICK w \in Outcomes : /\ PutInode(w, i, ZeroInode) /\ Count(w)
                            /\ Proceed(w, "mark", CreateOp(d, n, k))
  BY <1>1 DEF TakeInode
<1>4. w.hit /\ pc' = "mark" /\ op'.num = i
  <2>1. w.hit /\ pc' = "mark" /\ op' = CreateOp(d, n, k)
    BY <1>2, <1>3, CalmGoesOn
  <2> QED
    BY <1>1, <2>1 DEF CreateOp, NoOp
<1>5. ZeroInode.type = FreeType /\ ZeroInode.first = 0 /\ inodes'[i] = ZeroInode
  <2>1. PutInode(w, i, ZeroInode)
    BY <1>3
  <2>2. inodes'[i] = IF w.hit THEN ZeroInode ELSE inodes[i]
    BY <1>2, <2>1, OtherInodes
  <2>3. ZeroInode.type = FreeType /\ ZeroInode.first = 0
    BY DEF ZeroInode
  <2> QED
    BY <1>4, <2>2, <2>3
<1>6. Childless(i) /\ inodes[i].first = 0
  BY <1>1 DEF Childless, Child, IsDir, FreeType, DirType, NoLeak, FreeInodesBlank, Live
<1>7. ~Adding /\ \A c \in Clusters : ~Pinned(c)
  BY DEF Pinned, Writing, Extending, Adding, MakingDots, MakingEntry, InCreate
<1>8. LeakLocals'
  BY <1>4, <1>5 DEF LeakLocals, NewBlank, FirstKept, NoFirst, CurEnds, FirstFreed,
     InodeFreed, MakingDots, InCreate, Writing, Extending
<1> QED
  BY <1>2, <1>3, <1>4, <1>5, <1>6, <1>7, <1>8, InodeLeak DEF NoLeak

LEMMA CreateLeak ==
  ASSUME TypeInv, NoLeak, faults' = 0, NEW p, NEW n, NEW k, Create(p, n, k) PROVE NoLeak'
  BY TakeLeak DEF Create, AtPrompt, CanCreate

LEMMA EnsureLeak == ASSUME TypeInv, NoLeak, EnsureDir, faults' = 0 PROVE NoLeak'
<1> DEFINE p == Front(Head(todo))
           n == Last(Head(todo))
<1>1. pc = "idle" /\ UNCHANGED <<fat, blocks>>
  BY DEF EnsureDir
<1>2. CASE CanCreate(p, n)
  <2>1. TakeInode(Walk(p), n, DirType) /\ FreeInodes # {}
    BY <1>2 DEF EnsureDir, CanCreate
  <2> QED
    BY <1>1, <2>1, TakeLeak
<1>3. CASE ~CanCreate(p, n)
  <2>1. UNCHANGED <<inodes, pc>>
    BY <1>3 DEF EnsureDir
  <2>2. ~Adding /\ \A c \in Clusters : ~Pinned(c)
    BY <1>1 DEF Pinned, Writing, Extending, Adding, MakingDots, MakingEntry, InCreate
  <2> QED
    BY <1>1, <2>1, <2>2, StillKept, LeakSettled, QuietLeak DEF NoLeak
<1> QED
  BY <1>2, <1>3

LEMMA MarkLeak ==
  ASSUME TypeInv, TreeSound, NameSound, NoLeak, MarkInode, faults' = 0 PROVE NoLeak'
<1>1. pc = "mark" /\ UNCHANGED <<fat, blocks>> /\ TypeOK /\ Adding /\ Changing
  BY DEF MarkInode, TypeInv, Adding, Changing
<1>2. op \in Operation /\ op.num \in Inodes /\ op.kind \in {FileType, DirType}
  <2>1. op.name # ""
    BY <1>1 DEF TreeSound, TreeLocals, NewRoot, MakingDots, InCreate
  <2> QED
    BY <1>1, <2>1, AddingType DEF TreeSound, TreeLocals, NewEntry
<1>3. PICK i \in Inodes : i = op.num
  BY <1>2
<1>4. PICK k \in {FileType, DirType} : k = op.kind
  BY <1>2
<1> DEFINE node == [ZeroInode EXCEPT !.type = k]
<1>5. PICK w \in Outcomes :
        /\ PutInode(w, i, node) /\ Count(w)
        /\ IF k = DirType THEN Proceed(w, "alloc", Fresh("dots")) ELSE Proceed(w, "add", op)
  BY <1>3, <1>4 DEF MarkInode
<1>6. node.type = k /\ node.first = 0 /\ node.type # FreeType
  BY DEF ZeroInode, FileType, DirType, FreeType
<1> HIDE DEF node
<1>7. /\ w.hit /\ op'.num = i
      /\ pc' = "add" \/ (pc' = "alloc" /\ op'.ret = "dots")
  <2>1. w.hit /\ \/ pc' = "add" /\ op' = op
                 \/ pc' = "alloc" /\ op' = Fresh("dots")
    BY <1>1, <1>5, CalmGoesOn
  <2> QED
    BY <1>2, <1>3, <2>1 DEF Fresh, Operation
<1>8. Adding'
  BY <1>7 DEF Adding, MakingDots, InCreate
<1>9. Childless(i) /\ inodes[i].first = 0
  BY <1>1, <1>3 DEF NameSound, TargetIsLeaf, NoLeak, LeakLocals, NewBlank
<1>10. \A c \in Clusters : ~Pinned(c)
  BY <1>1 DEF Pinned, Writing, Extending
<1>11. inodes'[i].first = 0
  BY <1>1, <1>5, <1>6, <1>7, OtherInodes
<1>12. LeakLocals'
  BY <1>7, <1>11 DEF LeakLocals, NewBlank, FirstKept, NoFirst, CurEnds, FirstFreed,
     InodeFreed, MakingDots, InCreate, Writing, Extending
<1>13. InodesListed' /\ ClustersPinned' /\ FreeInodesBlank'
  BY <1>1, <1>3, <1>5, <1>6, <1>7, <1>8, <1>9, <1>10, InodeLeak
<1> QED
  BY <1>12, <1>13 DEF NoLeak

LEMMA WriteDotsInodeLeak ==
  ASSUME TypeInv, TreeSound, NameSound, NoLeak, WriteDotsInode, faults' = 0 PROVE NoLeak'
<1>1. /\ pc = "dots_inode" /\ UNCHANGED <<fat, blocks>> /\ TypeOK /\ Adding /\ Changing
      /\ MakingDots
  BY DEF WriteDotsInode, TypeInv, Adding, MakingDots, InCreate, Changing
<1>2. PICK i \in Inodes : i = op.num
  BY <1>1, AddingType
<1> DEFINE node == [type |-> DirType, size |-> CellsPerBlock, first |-> op.new]
<1>3. PICK w \in Outcomes :
        /\ PutInode(w, i, node) /\ Count(w)
        /\ Proceed(w, IF op.name = "" THEN "remount" ELSE "add", op)
  BY <1>2 DEF WriteDotsInode
<1>4. node.first = op.new /\ node.type # FreeType
  BY DEF DirType, FreeType
<1> HIDE DEF node
<1>5. /\ w.hit /\ op' = op /\ pc' = IF op.name = "" THEN "remount" ELSE "add"
  BY <1>1, <1>3, CalmGoesOn
<1>6. i = Root \/ Adding'
  <2>1. op.name = "" => i = Root
    BY <1>1, <1>2 DEF TreeSound, TreeLocals, NewRoot
  <2> QED
    BY <1>5, <2>1 DEF Adding
<1>7. Childless(i) /\ inodes[i].first = 0
  BY <1>1, <1>2 DEF NameSound, TargetIsLeaf, NoLeak, LeakLocals, NewBlank
<1>8. \A c \in Clusters : Pinned(c) => c = node.first
  BY <1>1, <1>4 DEF Pinned, Writing, Extending
<1>9. LeakLocals'
  BY <1>5, LeakSettled
<1>10. InodesListed' /\ ClustersPinned' /\ FreeInodesBlank'
  BY <1>1, <1>2, <1>3, <1>4, <1>5, <1>6, <1>7, <1>8, InodeLeak
<1> QED
  BY <1>9, <1>10 DEF NoLeak

\* What the inode had is in the copy that is written back.
LEMMA WriteSizeLeak ==
  ASSUME TypeInv, TreeSound, NoLeak, WriteSize, faults' = 0 PROVE NoLeak'
<1>1. pc = "size" /\ UNCHANGED <<fat, blocks>> /\ Writing /\ pc' = "idle"
  BY DEF WriteSize, Return, Writing, Extending
<1>2. /\ op.num \in Inodes /\ op.node \in Inode /\ TypeOK
      /\ inodes[op.num].type = FileType /\ op.node.type = FileType
  BY <1>1, FileKnown DEF Extending
<1>3. PICK i \in Inodes : i = op.num
  BY <1>2
<1>4. PICK w \in Outcomes : Count(w) /\ \E node : /\ PutInode(w, i, node)
                                                  /\ node.type = FileType
                                                  /\ node.first = op.node.first
  <2> DEFINE sized == [op.node EXCEPT !.size = IF op.off + op.len > @ THEN op.off + op.len
                                               ELSE @]
  <2>1. \E w \in Outcomes : PutInode(w, i, sized) /\ Count(w)
    BY <1>3 DEF WriteSize
  <2>2. sized.type = FileType /\ sized.first = op.node.first
    BY <1>2 DEF Inode
  <2> HIDE DEF sized
  <2> QED
    BY <2>1, <2>2
<1>5. PICK node : PutInode(w, i, node) /\ node.type = FileType /\ node.first = op.node.first
  BY <1>4
<1>6. w.hit /\ inodes'[i] = node
  BY <1>1, <1>2, <1>4, <1>5, CalmOutcome, OtherInodes
<1>7. Childless(i) /\ Live(i) /\ node.type # FreeType /\ ~Adding
  BY <1>1, <1>2, <1>3, <1>5 DEF Childless, Child, IsDir, FileType, DirType, FreeType, Live,
     Adding, MakingDots, MakingEntry, InCreate
<1>8. inodes[i].first \in {0, node.first}
  BY <1>1, <1>3, <1>5 DEF NoLeak, LeakLocals, FirstKept
<1>9. \A c \in Clusters : Pinned(c) => c = node.first
  BY <1>1, <1>5 DEF Pinned
<1>10. LeakLocals'
  BY <1>1, LeakSettled
<1>11. InodesListed' /\ ClustersPinned' /\ FreeInodesBlank'
  BY <1>1, <1>2, <1>5, <1>6, <1>7, <1>8, <1>9, InodeLeak
<1> QED
  BY <1>10, <1>11 DEF NoLeak

\* With its new block the directory shows the entry; all others read as before.
LEMMA WriteDirInodeLeak ==
  ASSUME TypeInv, ClustersSound, TreeSound, NoLeak, WriteDirInode, faults' = 0 PROVE NoLeak'
<1>1. /\ pc = "dir_inode" /\ UNCHANGED <<fat, blocks>> /\ TypeOK /\ pc' = "idle" /\ ~Adding
  BY DEF WriteDirInode, TypeInv, Return, Adding, MakingDots, MakingEntry, InCreate
<1>2. PICK d \in Inodes : d = op.dir
  BY <1>1 DEF TypeInv, OpTyped, Creating
<1>3. PICK i \in Inodes : i = op.num
  BY <1>1 DEF TypeInv, OpTyped, Creating
<1>4. PICK node \in Inode : node = op.node
  BY <1>1 DEF TypeOK, Operation
<1>5. PICK w \in Outcomes : PutInode(w, d, node) /\ Count(w)
  BY <1>2, <1>4 DEF WriteDirInode
<1>6. /\ node.type = DirType /\ inodes[d].type = DirType
      /\ node.first # inodes[d].first =>
           /\ ~HasBlock(d) /\ Held(node.first)
           /\ \E s \in Slots :
                /\ blocks[node.first][s].inode = i
                /\ blocks[node.first][s].name \in Names
  <2>1. /\ node.type = DirType /\ inodes[d].type = DirType
        /\ node.first # inodes[d].first => Held(node.first)
    BY <1>1, <1>2, <1>4
       DEF TreeSound, TreeLocals, EntryWritten, ClustersSound, LocalsSound, EntryBlock
  <2>2. ASSUME node.first # inodes[d].first
        PROVE  /\ ~HasBlock(d)
               /\ \E s \in Slots : /\ blocks[node.first][s].inode = i
                                   /\ blocks[node.first][s].name \in Names
    BY <1>1, <1>2, <1>3, <1>4, <2>2 DEF TreeSound, TreeLocals, EntryWritten
  <2> QED
    BY <2>1, <2>2
<1>7. w.hit /\ inodes'[d] = node /\ \A e \in Inodes \ {d} : Kept(e) /\ inodes'[e] = inodes[e]
  BY <1>1, <1>5, CalmOutcome, OtherInodes
<1>8. Kept(d) \/ Childless(d)
  <2>1. CASE node.first = inodes[d].first
    BY <1>1, <1>6, <1>7, <2>1 DEF Kept, IsDir, HasBlock, CellAt
  <2>2. CASE node.first # inodes[d].first
    BY <1>6, <2>2 DEF Childless, Child, IsDir
  <2> QED
    BY <2>1, <2>2
<1>9. \A e : ~Unlisted(e) => ~Unlisted(e)'
  BY <1>7, <1>8, ListedStay
<1>10. node.first # inodes[d].first => ~Unlisted(i)'
  <2> SUFFICES ASSUME node.first # inodes[d].first PROVE ~Unlisted(i)'
    OBVIOUS
  <2>1. PICK s \in Slots : /\ blocks[node.first][s].inode = i
                           /\ blocks[node.first][s].name \in Names
    BY <1>6
  <2>2. node.first \in Clusters /\ node.first # 0 /\ node.first # FAT_EOF
    BY <1>6, Sizes, EofIsNoCluster DEF Held, InUse
  <2>3. IsDir(d)'
    BY <1>6, <1>7, <2>2 DEF IsDir, HasBlock
  <2>4. CellAt(d, s)'.inode = i /\ CellAt(d, s)'.name \in Names
    BY <1>1, <1>7, <2>1 DEF CellAt
  <2>5. Child(d, s)'
    BY <2>3, <2>4, Sizes DEF Child
  <2> QED
    BY <2>4, <2>5 DEF Unlisted
<1>11. InodesListed'
  <2> SUFFICES ASSUME NEW e \in Inodes \ {Root}, Live(e)' PROVE ~Unlisted(e)'
    BY Zenon DEF InodesListed
  <2>1. Live(e)
    BY <1>6, <1>7 DEF Live
  <2>2. ~Unlisted(e) \/ (e = i /\ node.first # inodes[d].first)
    BY <1>1, <1>2, <1>3, <1>4, <2>1 DEF NoLeak, InodesListed
  <2> QED
    BY <1>9, <1>10, <2>2
<1>12. ClustersPinned'
  <2> SUFFICES ASSUME NEW c \in Clusters, Held(c)' PROVE FALSE
    BY Zenon DEF ClustersPinned
  <2>1. c # node.first /\ (Held(c) \/ c = inodes[d].first)
    BY <1>1, <1>5, <1>7, PutInodeHeld
  <2>2. Held(c)
    <3>1. inodes[d].first \in Chained /\ InUse(c) /\ c # 0 /\ c # FAT_EOF
      BY <1>1, Sizes, EofIsNoCluster DEF TypeOK, Inode, Held, InUse
    <3> QED
      BY <1>6, <2>1, <3>1 DEF HasBlock
  <2> QED
    BY <1>1, <1>4, <2>1, <2>2 DEF NoLeak, ClustersPinned, Pinned, Writing, Extending
<1>13. FreeInodesBlank'
  <2> SUFFICES ASSUME NEW e \in Inodes, ~Live(e)' PROVE inodes'[e].first = 0
    BY Zenon DEF FreeInodesBlank
  <2>1. e # d
    BY <1>6, <1>7 DEF Live, DirType, FreeType
  <2> QED
    BY <1>7, <2>1 DEF Live, NoLeak, FreeInodesBlank
<1> QED
  BY <1>1, <1>11, <1>12, <1>13, LeakSettled DEF NoLeak

LEMMA FreeInodeLeak ==
  ASSUME TypeInv, TreeSound, NameSound, NoLeak, FreeInode, faults' = 0 PROVE NoLeak'
<1>1. /\ pc = "rm_inode" /\ UNCHANGED <<fat, blocks>> /\ TypeOK /\ Changing /\ ~Adding
  BY DEF FreeInode, TypeInv, Changing, Deleting, Adding, MakingDots, MakingEntry, InCreate
<1>2. PICK i \in Inodes : i = op.num
  BY <1>1, DeletingType DEF Deleting
<1>3. PICK w \in Outcomes :
        PutInode(w, i, ZeroInode) /\ Count(w) /\ Proceed(w, "rm_entry", op)
  BY <1>2 DEF FreeInode
<1>4. w.hit /\ pc' = "rm_entry" /\ op' = op
  BY <1>1, <1>3, CalmGoesOn
<1>5. ZeroInode.type = FreeType /\ ZeroInode.first = 0 /\ inodes'[i] = ZeroInode
  BY <1>1, <1>3, <1>4, OtherInodes DEF ZeroInode
<1>6. Childless(i) /\ ~InUse(inodes[i].first)
  BY <1>1, <1>2 DEF NameSound, TargetIsLeaf, NoLeak, LeakLocals, FirstFreed
<1>7. \A c \in Clusters : ~Pinned(c)
  BY <1>1 DEF Pinned, Writing, Extending
<1>8. LeakLocals'
  BY <1>2, <1>4, <1>5 DEF LeakLocals, NewBlank, FirstKept, NoFirst, CurEnds, FirstFreed,
     InodeFreed, MakingDots, InCreate, Writing, Extending, Live
<1> QED
  BY <1>1, <1>3, <1>4, <1>5, <1>6, <1>7, <1>8, InodeLeak DEF NoLeak

-----------------------------------------------------------------------------
(* The chain that is given back, and the writes of an entry. *)

\* Each link is read before it is cleared: the rest of the chain is in op.cur.
LEMMA ChainLeak ==
  ASSUME TypeInv, NoLeak, FreeCluster, faults' = 0 PROVE NoLeak'
<1>1. /\ pc = "rm_free" /\ UNCHANGED <<inodes, blocks>> /\ TypeOK /\ op \in Operation
      /\ ~Adding /\ ~Writing
  BY DEF FreeCluster, TypeInv, TypeOK, Adding, MakingDots, MakingEntry, InCreate, Writing,
     Extending
<1>2. PICK c \in Clusters : c = op.cur
  BY <1>1 DEF TypeInv, OpTyped
<1>3. PICK w \in Outcomes : PutFat(w, c, FAT_FREE) /\ Count(w)
  BY <1>1, <1>2, BoundAssumption DEF FreeCluster, TypeOK
<1>4. /\ op'.num = op.num /\ op'.cur = fat[c]
      /\ pc' = IF fat[c] \in {0, FAT_EOF} THEN "rm_inode" ELSE "rm_free"
  <2>1. /\ op' = [op EXCEPT !.cur = fat[c]]
        /\ pc' = IF fat[c] \in {0, FAT_EOF} THEN "rm_inode" ELSE "rm_free"
    BY <1>1, <1>2, BoundAssumption DEF FreeCluster, TypeOK
  <2> QED
    BY <1>1, <2>1 DEF Operation
<1>5. /\ \A d \in Clusters \ {c} : fat'[d] = fat[d]
      /\ fat'[c] = FAT_FREE
      /\ \A d : Held(d)' => (Unowned(d) \/ d = fat[c]) /\ (d # c => InUse(d))
  BY <1>1, <1>3, CalmOutcome, PutFatHeld
<1>6. InodesListed'
  <2> SUFFICES ASSUME NEW i \in Inodes \ {Root}, Live(i)' PROVE ~Unlisted(i)'
    BY Zenon DEF InodesListed
  <2>1. ~Unlisted(i)
    BY <1>1 DEF Live, NoLeak, InodesListed
  <2> QED
    BY <1>1, <2>1, StillKept, AllListedStay
<1>7. ClustersPinned'
  <2> SUFFICES ASSUME NEW d \in Clusters, Held(d)' PROVE Pinned(d)'
    BY Zenon DEF ClustersPinned
  <2>1. d # c
    BY <1>5 DEF Held, InUse
  <2>2. ~Held(d)
    BY <1>1, <1>2, <2>1 DEF NoLeak, ClustersPinned, Pinned
  <2>3. d = fat[c]
    BY <1>5, <2>1, <2>2 DEF Held
  <2> QED
    BY <1>4, <2>3, Sizes, EofIsNoCluster DEF Pinned
<1>8. FirstFreed'
  <2>1. ~InUse(inodes[op.num].first)'
    <3>1. inodes[op.num].first # c => ~InUse(inodes[op.num].first)
      BY <1>1, <1>2 DEF NoLeak, LeakLocals, FirstFreed
    <3> QED
      BY <1>1, <1>4, <1>5, <3>1 DEF InUse
  <2> QED
    BY <2>1 DEF FirstFreed
<1>9. LeakLocals'
  BY <1>4, <1>8 DEF LeakLocals, NewBlank, FirstKept, NoFirst, CurEnds, InodeFreed, MakingDots,
     InCreate, Writing, Extending
<1>10. FreeInodesBlank'
  BY <1>1 DEF NoLeak, FreeInodesBlank, Live
<1> QED
  BY <1>6, <1>7, <1>9, <1>10 DEF NoLeak

\* One slot of a directory is written: what the other slots list stays listed.
LEMMA OneSlotListed ==
  ASSUME TypeOK, ClustersSound, UNCHANGED inodes, NEW d \in Inodes, IsDir(d),
         NEW s \in Slots, NEW cell,
         \A c \in Chained \ {inodes[d].first} : blocks'[c] = blocks[c],
         \A r \in Slots : blocks'[inodes[d].first][r] =
                            IF r = s THEN cell ELSE blocks[inodes[d].first][r]
  PROVE  /\ CellAt(d, s)' = cell /\ IsDir(d)'
         /\ \A i : ~Unlisted(i) /\ ~(Child(d, s) /\ CellAt(d, s).inode = i) => ~Unlisted(i)'
<1>1. IsDir(d)' /\ \A r \in Slots : CellAt(d, r)' = IF r = s THEN cell ELSE CellAt(d, r)
  BY DEF CellAt, IsDir, HasBlock
<1>2. \A e \in Inodes \ {d} : Kept(e)
  <2> SUFFICES ASSUME NEW e \in Inodes \ {d} PROVE Kept(e)
    OBVIOUS
  <2>1. inodes[e].first # inodes[d].first
    BY DEF ClustersSound, OwnedOnce, HeadsApart, IsDir, HasBlock
  <2>2. blocks'[inodes[e].first] = blocks[inodes[e].first]
    BY <2>1 DEF TypeOK, Inode
  <2> QED
    BY <2>2 DEF Kept, IsDir, HasBlock, CellAt
<1>3. ASSUME NEW i, ~Unlisted(i), ~(Child(d, s) /\ CellAt(d, s).inode = i)
      PROVE  ~Unlisted(i)'
  <2>1. PICK e \in Inodes, r \in Slots : Child(e, r) /\ CellAt(e, r).inode = i
    BY <1>3 DEF Unlisted
  <2>2. Child(e, r)' /\ CellAt(e, r)'.inode = i
    <3>1. CASE e # d
      BY <1>2, <2>1, <3>1, KeptReads
    <3>2. CASE e = d
      <4>1. r # s
        BY <1>3, <2>1, <3>2
      <4> QED
        BY <1>1, <2>1, <3>2, <4>1 DEF Child
    <3> QED
      BY <3>1, <3>2
  <2> QED
    BY <2>2 DEF Unlisted
<1> QED
  BY <1>1, <1>3

\* The entry shows at once, or will when the directory has its first block.
LEMMA WriteEntryLeak ==
  ASSUME TypeInv, ClustersSound, TreeSound, NoLeak, WriteEntry, faults' = 0, harm' = {}
  PROVE  NoLeak'
<1>1. /\ pc = "entry" /\ UNCHANGED <<fat, inodes>> /\ TypeOK
  BY DEF WriteEntry, TypeInv
<1>2. PICK i \in Inodes \ {Root} : i = op.num
  BY <1>1, EntryKnown
<1>3. PICK d \in Inodes : d = op.dir
  BY <1>1, EntryKnown
<1>4. PICK b \in Clusters : b = op.new /\ (b = inodes[d].first \/ Unowned(b)) /\ InUse(b)
  BY <1>1, <1>3 DEF ClustersSound, LocalsSound, EntryBlock, InUse
<1>5. PICK n \in Names, k \in {FileType, DirType} : n = op.name /\ k = op.kind
  BY <1>1, EntryKnown
<1>6. op \in Operation /\ inodes[d].type = DirType
  BY <1>1, <1>3, EntryKnown
<1>7. b \in Chained /\ b # 0 /\ b # FAT_EOF
  BY Sizes, EofIsNoCluster DEF Chained
<1> DEFINE cell == [inode |-> i, type |-> k, name |-> n]
           node == [inodes[d] EXCEPT !.size = CellsPerBlock, !.first = b]
<1>8. FreeSlots(b) # {}
  BY <1>4 DEF WriteEntry
<1>9. PICK s \in Slots : s = Min(FreeSlots(b)) /\ ~Used(blocks[b][s])
  BY <1>8, MinInSet, Sizes DEF FreeSlots
<1>10. PICK w \in Outcomes :
         /\ PutCell(w, b, s, cell) /\ Count(w)
         /\ Proceed(w, "dir_inode", [op EXCEPT !.node = node])
  BY <1>2, <1>3, <1>4, <1>5, <1>8, <1>9 DEF WriteEntry
<1>11. node.first = b /\ cell.inode = i /\ cell.name = n
  BY <1>1 DEF TypeOK, Inode
<1> HIDE DEF node, cell
<1>12. w.hit /\ pc' = "dir_inode" /\ op'.num = i /\ op'.dir = d /\ op'.node = node
  <2>1. w.hit /\ pc' = "dir_inode" /\ op' = [op EXCEPT !.node = node]
    BY <1>1, <1>10, CalmGoesOn
  <2> QED
    BY <1>2, <1>3, <1>6, <2>1 DEF Operation
<1>13. /\ \A c \in Chained \ {b} : blocks'[c] = blocks[c]
       /\ \A r \in Slots : blocks'[b][r] = IF r = s THEN cell ELSE blocks[b][r]
  BY <1>1, <1>7, <1>10, <1>12, PutCellReads
<1>14. \A e \in Inodes \ {Root} : Live(e) => ~Unlisted(e) \/ e = i
  BY <1>2 DEF NoLeak, InodesListed
<1>15. InodesListed'
  <2> SUFFICES ASSUME NEW e \in Inodes \ {Root}, Live(e)'
               PROVE  ~Unlisted(e)' \/ (e = i /\ b # inodes[d].first)
    BY <1>1, <1>11, <1>12, Zenon DEF InodesListed
  <2>1. ~Unlisted(e) \/ e = i
    BY <1>1, <1>14 DEF Live
  <2>2. CASE b = inodes[d].first
    <3>1. IsDir(d)
      BY <1>6, <1>7, <2>2 DEF IsDir, HasBlock
    <3>2. /\ CellAt(d, s)' = cell /\ IsDir(d)'
          /\ ~Unlisted(e) /\ ~(Child(d, s) /\ CellAt(d, s).inode = e) => ~Unlisted(e)'
      BY <1>1, <1>13, <2>2, <3>1, OneSlotListed
    <3>3. ~Child(d, s)
      BY <1>9, <2>2, NamesPlain DEF Child, CellAt, Used
    <3>4. ~Unlisted(i)'
      <4>1. Child(d, s)'
        BY <1>11, <3>2, Sizes DEF Child
      <4> QED
        BY <1>11, <3>2, <4>1 DEF Unlisted
    <3> QED
      BY <2>1, <3>2, <3>3, <3>4
  <2>3. CASE b # inodes[d].first
    <3>1. \A x \in Inodes : Kept(x)
      <4>1. Held(b)
        BY <1>4, <2>3 DEF Held
      <4> QED
        BY <1>1, <1>13, <4>1, HeldIsNoBlock, OtherBlock
    <3> QED
      BY <2>1, <2>3, <3>1, AllListedStay
  <2> QED
    BY <2>2, <2>3
<1>16. ClustersPinned'
  <2> SUFFICES ASSUME NEW c \in Clusters, Held(c)' PROVE Pinned(c)'
    BY Zenon DEF ClustersPinned
  <2>1. Pinned(c)
    BY <1>1, SameHeld DEF NoLeak, ClustersPinned
  <2> QED
    BY <1>1, <1>4, <1>11, <1>12, <2>1 DEF Pinned, Writing, Extending
<1>17. FreeInodesBlank' /\ LeakLocals'
  BY <1>1, <1>12, LeakSettled DEF NoLeak, FreeInodesBlank, Live
<1> QED
  BY <1>15, <1>16, <1>17 DEF NoLeak

\* The entry that is cleared is that of an inode no longer in use.
LEMMA RemoveEntryLeak ==
  ASSUME TypeInv, ClustersSound, TreeSound, NameSound, NoLeak, RemoveEntry, faults' = 0,
         harm' = {}
  PROVE  NoLeak'
<1>1. /\ pc = "rm_entry" /\ UNCHANGED <<fat, inodes>> /\ TypeOK /\ "remove" \in Exposed
      /\ ~Adding /\ op \in Operation
  BY DEF RemoveEntry, TypeInv, TypeOK, Exposed, Adding, MakingDots, MakingEntry, InCreate
<1>2. PICK d \in Inodes, n \in Names : d = op.dir /\ n = op.name
  BY <1>1, DeletingType DEF Deleting
<1>3. PICK i \in Inodes : i = op.num
  BY <1>1, DeletingType DEF Deleting
<1>4. IsDir(d) /\ EntrySlots(d, n) # {}
  BY <1>1, <1>2 DEF RemoveEntry
<1>5. PICK s \in Slots : s = Min(EntrySlots(d, n))
  BY <1>4, Sizes, MinInSet DEF EntrySlots
<1>6. CellAt(d, s).inode = i /\ ~Live(i)
  BY <1>1, <1>2, <1>3, <1>4, <1>5
     DEF NameSound, EntryStays, Deleting, Find, CellAt, NoLeak, LeakLocals, InodeFreed
<1>7. inodes[d].first \in Chained
  BY <1>1 DEF TypeOK, Inode
<1>8. PICK w \in Outcomes :
        /\ PutCell(w, inodes[d].first, s, ZeroCell) /\ Count(w)
        /\ Proceed(w, "dir_inode", [op EXCEPT !.node = inodes[d]])
  BY <1>1, <1>2, <1>4, <1>5 DEF RemoveEntry
<1>9. w.hit /\ pc' = "dir_inode"
  BY <1>1, <1>8, CalmGoesOn
<1>10. /\ \A c \in Chained \ {inodes[d].first} : blocks'[c] = blocks[c]
       /\ \A r \in Slots : blocks'[inodes[d].first][r] =
                             IF r = s THEN ZeroCell ELSE blocks[inodes[d].first][r]
  BY <1>1, <1>7, <1>8, <1>9, PutCellReads
<1>11. InodesListed'
  <2> SUFFICES ASSUME NEW e \in Inodes \ {Root}, Live(e)' PROVE ~Unlisted(e)'
    BY Zenon DEF InodesListed
  <2>1. ~Unlisted(e) /\ e # i
    BY <1>1, <1>6 DEF Live, NoLeak, InodesListed
  <2> QED
    BY <1>1, <1>4, <1>6, <1>10, <2>1, OneSlotListed
<1>12. ClustersPinned'
  <2> SUFFICES ASSUME NEW c \in Clusters, Held(c)' PROVE Pinned(c)'
    BY Zenon DEF ClustersPinned
  <2>1. Pinned(c)
    BY <1>1, SameHeld DEF NoLeak, ClustersPinned
  <2> QED
    BY <1>1, <2>1 DEF Pinned, Writing, Extending
<1>13. FreeInodesBlank' /\ LeakLocals'
  BY <1>1, <1>9, LeakSettled DEF NoLeak, FreeInodesBlank, Live
<1> QED
  BY <1>11, <1>12, <1>13 DEF NoLeak

-----------------------------------------------------------------------------
(* Booting, and the whole. *)

LEMMA QuietBefore ==
  ASSUME TypeOK, [Next]_vars, Calm'
  PROVE  Calm /\ ~PowerLoss /\ (harm' = {} /\ ~FormatRoot => harm = {})
         /\ \A p, n, k : ~CreateUnseen(p, n, k)
<1>1. faults \in Nat /\ crashes \in Nat
  BY BoundAssumption DEF TypeOK
<1>2. ~PowerLoss /\ \A p, n, k : ~CreateUnseen(p, n, k)
  BY <1>1 DEF PowerLoss, CreateUnseen, Calm
<1>3. ASSUME NEW w \in Outcomes, Count(w) PROVE faults = 0
  BY <1>1, <1>3 DEF Count, Calm
<1>4. CASE Boot
  <2>1. crashes' = crashes
    BY <1>4 DEF Boot, Mount, FormatSuperblock, FormatFat, FormatInodes, FormatReserved,
       FormatRoot, Remount, EnsureDir, history
  <2>2. faults = 0
    BY <1>1, <1>3, <1>4 DEF Boot, Mount, FormatSuperblock, FormatFat, FormatInodes,
       FormatReserved, FormatRoot, Remount, EnsureDir, TakeInode, Calm
  <2>3. ~FormatRoot => harm \subseteq harm'
    BY <1>4 DEF Boot, Mount, FormatSuperblock, FormatFat, FormatInodes, FormatReserved,
       Remount, EnsureDir, Keep
  <2> QED
    BY <1>2, <2>1, <2>2, <2>3 DEF Calm
<1>5. CASE Continue
  <2>1. crashes' = crashes /\ harm \subseteq harm'
    BY <1>5 DEF Continue, AllocCluster, ZeroCluster, MarkInode, WriteDots, WriteDotsInode,
       AddEntryStart, WriteEntry, WriteDirInode, FreeCluster, FreeInode, RemoveEntry, Seek,
       SetFirst, LinkCluster, WriteData, WriteSize, Keep
  <2>2. CASE faults' = faults
    BY <1>2, <2>1, <2>2 DEF Calm
  <2>3. CASE faults' # faults
    <3>1. (\E w \in Outcomes : Count(w)) \/ faults' = faults + 1
      BY <1>5, <2>3 DEF Continue, AllocCluster, ZeroCluster, MarkInode, WriteDots,
         WriteDotsInode, AddEntryStart, WriteEntry, WriteDirInode, FreeCluster, FreeInode,
         RemoveEntry, Seek, SetFirst, LinkCluster, WriteData, WriteSize
    <3> QED
      BY <1>1, <1>2, <1>3, <2>1, <3>1 DEF Calm
  <2> QED
    BY <2>2, <2>3
<1>6. CASE Command
  <2>1. harm \subseteq harm'
    BY <1>6, CommandStarts
  <2>2. PICK p : \/ \E n \in Names, k \in {FileType, DirType} : Create(p, n, k)
                 \/ \E n \in Names : RemovePath(p, n)
                 \/ \E append \in BOOLEAN, len \in Lengths : WriteFile(p, append, len)
    BY <1>2, <1>6, CommandKinds, SMTT(30)
  <2>3. crashes' = crashes /\ faults = 0
    BY <1>3, <2>2 DEF Create, TakeInode, RemovePath, WriteFile, Calm
  <2> QED
    BY <1>2, <2>1, <2>3 DEF Calm
<1>7. CASE UNCHANGED vars
  BY <1>2, <1>7 DEF vars, history, Calm
<1> QED
  BY <1>2, <1>4, <1>5, <1>6, <1>7 DEF Next

\* Nothing is written to the tables before they are cleared.
LEMMA BootBlank ==
  ASSUME TypeOK, BlankAtBoot, [Next]_vars, Calm' PROVE BlankAtBoot'
<1> SUFFICES ASSUME Booting' PROVE BlankAtBoot'
  BY DEF BlankAtBoot
<1>1. ~PowerLoss
  BY QuietBefore
<1>2. pc' \in {"mount", "fmt_sb", "fmt_fat", "fmt_inodes", "fmt_reserved", "fmt_root"}
  BY DEF Booting, Formatting
<1>3. ~Command
  BY <1>2, CommandStarts
<1>4. CASE Boot
  <2>1. CASE Mount \/ FormatSuperblock
    <3>1. UNCHANGED <<fat, inodes>> /\ Booting
      BY <2>1 DEF Mount, FormatSuperblock, disk, Booting
    <3> QED
      BY <3>1 DEF BlankAtBoot
  <2>2. CASE FormatFat
    <3>1. /\ UNCHANGED inodes /\ Booting
          /\ fat' = fat \/ fat' = [c \in Chained |-> FAT_FREE]
      BY <2>2 DEF FormatFat, Booting, Formatting
    <3> QED
      BY <3>1 DEF BlankAtBoot, Chained
  <2>3. CASE FormatInodes
    <3>1. /\ UNCHANGED fat /\ Booting
          /\ inodes' = inodes \/ inodes' = [i \in Inodes |-> ZeroInode]
      BY <2>3 DEF FormatInodes, Booting, Formatting
    <3> QED
      BY <3>1 DEF BlankAtBoot
  <2>4. CASE FormatReserved
    <3>1. UNCHANGED inodes /\ Booting /\ \A c \in Clusters : fat'[c] = fat[c]
      BY <2>4, EofIsNoCluster DEF FormatReserved, PutFat, TypeOK, Chained, Booting, Formatting,
         FAT_FREE
    <3> QED
      BY <3>1 DEF BlankAtBoot
  <2>5. CASE FormatRoot \/ Remount \/ EnsureDir
    <3>1. CASE EnsureDir
      BY <1>2, <3>1 DEF EnsureDir, TakeInode, Proceed, Return
    <3>2. CASE FormatRoot \/ Remount
      BY <1>2, <3>2 DEF FormatRoot, Remount, Proceed, Return
    <3> QED
      BY <2>5, <3>1, <3>2
  <2> QED
    BY <1>4, <2>1, <2>2, <2>3, <2>4, <2>5 DEF Boot
<1>5. ~Continue
  <2>1. ~AllocCluster /\ ~ZeroCluster
    BY <1>2 DEF AllocCluster, ZeroCluster, Proceed, Return, TypeOK, Operation
  <2>2. /\ ~MarkInode /\ ~WriteDots /\ ~WriteDotsInode /\ ~AddEntryStart /\ ~WriteEntry
        /\ ~WriteDirInode
    BY <1>2 DEF MarkInode, WriteDots, WriteDotsInode, AddEntryStart, WriteEntry,
       WriteDirInode, Proceed, Return
  <2>3. ~FreeCluster /\ ~FreeInode /\ ~RemoveEntry
    BY <1>2 DEF FreeCluster, FreeInode, RemoveEntry, Proceed, Return
  <2>4. ~Seek /\ ~SetFirst /\ ~LinkCluster /\ ~WriteData /\ ~WriteSize
    BY <1>2 DEF Seek, SetFirst, LinkCluster, WriteData, WriteSize, Proceed, Return
  <2> QED
    BY <2>1, <2>2, <2>3, <2>4 DEF Continue
<1>6. CASE UNCHANGED vars
  BY <1>6 DEF vars, disk, memory, BlankAtBoot, Booting, Formatting
<1> QED
  BY <1>1, <1>3, <1>4, <1>5, <1>6 DEF Next

\* A disk with nothing on it but perhaps a root leaks nothing.
Blank ==
  /\ \A c \in Clusters : fat[c] = FAT_FREE
  /\ \A i \in Inodes : inodes[i].first = 0 /\ (i # Root => ~Live(i))
  /\ \/ pc \in {"idle", "mount", "fmt_sb", "fmt_fat", "fmt_inodes", "fmt_reserved", "fmt_root"}
     \/ pc = "alloc" /\ op.ret = "dots" /\ op.num \in Inodes

LEMMA BlankLeak == Blank => NoLeak
<1> SUFFICES ASSUME Blank PROVE NoLeak
  OBVIOUS
<1>1. InodesListed /\ FreeInodesBlank
  BY DEF Blank, InodesListed, FreeInodesBlank
<1>2. ClustersPinned
  BY DEF Blank, ClustersPinned, Held, InUse
<1>3. LeakLocals
  BY DEF Blank, LeakLocals, NewBlank, FirstKept, NoFirst, CurEnds, FirstFreed, InodeFreed,
     MakingDots, InCreate, Writing, Extending
<1> QED
  BY <1>1, <1>2, <1>3 DEF NoLeak

LEMMA BlankStays == Blank' => NoLeak'
  BY BlankLeak, PTL

LEMMA FormatLeak ==
  ASSUME TypeOK, BlankAtBoot, faults' = 0,
         Mount \/ FormatSuperblock \/ FormatFat \/ FormatInodes \/ FormatReserved
  PROVE  NoLeak'
<1>1. /\ Booting
      /\ pc' \in {"idle", "fmt_sb", "fmt_fat", "fmt_inodes", "fmt_reserved", "fmt_root"}
  BY DEF Mount, FormatSuperblock, FormatFat, FormatInodes, FormatReserved, Booting,
     Formatting, Proceed, Return
<1>2. \A c \in Clusters : fat'[c] = FAT_FREE
  <2>1. \A c \in Clusters : fat'[c] \in {fat[c], FAT_FREE}
    BY EofIsNoCluster DEF Mount, FormatSuperblock, FormatFat, FormatInodes, FormatReserved,
       disk, PutFat, TypeOK, Chained, FAT_FREE
  <2> QED
    BY <1>1, <2>1 DEF BlankAtBoot
<1>3. \A i \in Inodes : inodes'[i] = ZeroInode
  <2>1. \A i \in Inodes : inodes'[i] \in {inodes[i], ZeroInode}
    BY DEF Mount, FormatSuperblock, FormatFat, FormatInodes, FormatReserved, disk
  <2> QED
    BY <1>1, <2>1 DEF BlankAtBoot
<1>4. \A i \in Inodes : inodes'[i].first = 0 /\ ~Live(i)'
  BY <1>3 DEF Live, ZeroInode
<1> QED
  BY <1>1, <1>2, <1>4, BlankStays DEF Blank

LEMMA FormatRootLeak ==
  ASSUME TypeOK, Formatted, FormatRoot, faults' = 0 PROVE NoLeak'
<1>1. pc = "fmt_root" /\ UNCHANGED fat
  BY DEF FormatRoot
<1>2. PICK w \in Outcomes :
        /\ PutInode(w, Root, [ZeroInode EXCEPT !.type = DirType]) /\ Count(w)
        /\ Proceed(w, "alloc", [NoOp EXCEPT !.dir = Root, !.num = Root, !.ret = "dots"])
  BY DEF FormatRoot
<1>3. pc' = "alloc" /\ op'.num = Root /\ op'.ret = "dots"
  <2>1. /\ pc' = "alloc"
        /\ op' = [NoOp EXCEPT !.dir = Root, !.num = Root, !.ret = "dots"]
    BY <1>2, CalmGoesOn
  <2> QED
    BY <2>1 DEF NoOp
<1>4. (\A c \in Clusters : fat[c] = FAT_FREE) /\ (\A i \in Inodes : inodes[i] = ZeroInode)
  BY <1>1 DEF Formatted
<1>5. \A i \in Inodes : inodes'[i].first = 0 /\ (i # Root => ~Live(i)')
  <2>1. \A i \in Inodes : \/ inodes'[i] = ZeroInode
                          \/ i = Root /\ inodes'[i] = [ZeroInode EXCEPT !.type = DirType]
    BY <1>2, <1>4 DEF PutInode, TypeOK
  <2> QED
    BY <2>1 DEF Live, ZeroInode
<1> QED
  BY <1>1, <1>3, <1>4, <1>5, Sizes, BlankStays DEF Blank

LEMMA StutterLeak == ASSUME NoLeak, UNCHANGED vars PROVE NoLeak'
<1>1. UNCHANGED <<fat, inodes, blocks, pc, op>>
  BY DEF vars, disk, memory
<1>2. (Adding' <=> Adding) /\ (Writing' <=> Writing) /\ (MakingDots' <=> MakingDots)
  BY <1>1 DEF Adding, MakingDots, MakingEntry, InCreate, Writing
<1>3. InodesListed'
  <2> SUFFICES ASSUME NEW i \in Inodes \ {Root}, Live(i)'
               PROVE  \/ ~Unlisted(i)' \/ (i = op.num /\ Adding)
                      \/ i = op.num /\ pc = "dir_inode" /\ op.node.first # inodes[op.dir].first
    BY <1>1, <1>2, Zenon DEF InodesListed
  <2> QED
    BY <1>1, StillKept, AllListedStay DEF NoLeak, InodesListed, Live
<1>4. ClustersPinned'
  <2> SUFFICES ASSUME NEW c \in Clusters, Held(c)' PROVE Pinned(c)'
    BY Zenon DEF ClustersPinned
  <2>1. Pinned(c)
    BY <1>1, SameHeld DEF NoLeak, ClustersPinned
  <2> QED
    BY <1>1, <1>2, <2>1 DEF Pinned
<1>5. FreeInodesBlank' /\ LeakLocals'
  BY <1>1, <1>2 DEF NoLeak, FreeInodesBlank, Live, LeakLocals, NewBlank, FirstKept, NoFirst,
     CurEnds, FirstFreed, InodeFreed, InCreate, InUse
<1> QED
  BY <1>3, <1>4, <1>5 DEF NoLeak

LEMMA InitLeak == Init => LeakInv
<1> SUFFICES ASSUME Init PROVE LeakInv
  OBVIOUS
<1>1. /\ \A c \in Clusters : fat[c] = FAT_FREE
      /\ \A i \in Inodes : inodes[i] = ZeroInode
      /\ pc = "mount"
  BY DEF Init, Chained
<1>2. BlankAtBoot /\ Blank
  BY <1>1 DEF BlankAtBoot, Blank, Live, ZeroInode
<1> QED
  BY <1>2, BlankLeak DEF LeakInv

\* One case per action.
LEMMA NextLeak ==
  ASSUME TypeInv, ClusterInv, TreeInv, NameInv, LeakInv, [Next]_vars PROVE LeakInv'
<1> SUFFICES ASSUME Calm' PROVE BlankAtBoot' /\ (harm' = {} => NoLeak')
  BY DEF LeakInv
<1>1. /\ Calm /\ ~PowerLoss /\ TypeOK /\ BlankAtBoot /\ faults' = 0
      /\ \A p, n, k : ~CreateUnseen(p, n, k)
      /\ harm' = {} /\ ~FormatRoot => harm = {} /\ NoLeak
  BY QuietBefore DEF Calm, TypeInv, LeakInv
<1>2. BlankAtBoot'
  BY <1>1, BootBlank
<1> SUFFICES ASSUME harm' = {} PROVE NoLeak'
  BY <1>2
<1>3. CASE Mount \/ FormatSuperblock \/ FormatFat \/ FormatInodes \/ FormatReserved
  BY <1>1, <1>3, FormatLeak
<1>4. CASE FormatRoot
  BY <1>1, <1>4, FormatRootLeak DEF ClusterInv
<1>5. CASE UNCHANGED vars
  <2>1. ~FormatRoot
    BY <1>5 DEF vars, memory, FormatRoot, Proceed, Return
  <2> QED
    BY <1>1, <1>5, <2>1, StutterLeak
<1>6. CASE /\ Next /\ ~FormatRoot
           /\ ~Mount /\ ~FormatSuperblock /\ ~FormatFat /\ ~FormatInodes /\ ~FormatReserved
  <2>1. NoLeak /\ harm = {}
    BY <1>1, <1>6, SMTT(30)
  <2>2. CASE Formatting
    BY <1>1, <1>6, <2>2, CommandStarts
       DEF Formatting, Next, Boot, Remount, EnsureDir, Continue, AllocCluster, ZeroCluster,
       MarkInode, WriteDots, WriteDotsInode, AddEntryStart, WriteEntry, WriteDirInode,
       FreeCluster, FreeInode, RemoveEntry, Seek, SetFirst, LinkCluster, WriteData,
       WriteSize, AtPrompt
  <2>3. CASE ~Formatting
    <3>1. TreeSound /\ ClustersSound /\ NameSound
      BY <2>1, <2>3 DEF ClusterInv, TreeInv, NameInv, Sound
    <3>2. CASE Boot
      BY <1>1, <1>6, <2>1, <3>2, RemountLeak, EnsureLeak DEF Boot
    <3>3. CASE Continue
      BY <1>1, <2>1, <3>1, <3>3, AllocLeak, ZeroLeak, MarkLeak, WriteDotsLeak,
         WriteDotsInodeLeak, AddEntryLeak, WriteEntryLeak, WriteDirInodeLeak, ChainLeak,
         FreeInodeLeak, RemoveEntryLeak, SeekLeak, SetFirstLeak, LinkLeak, WriteDataLeak,
         WriteSizeLeak DEF Continue
    <3>4. CASE Command
      <4>1. PICK p : \/ \E n \in Names, k \in {FileType, DirType} : Create(p, n, k)
                     \/ \E n \in Names : RemovePath(p, n)
                     \/ \E append \in BOOLEAN, len \in Lengths : WriteFile(p, append, len)
        BY <1>1, <3>4, CommandKinds
      <4> QED
        BY <1>1, <2>1, <4>1, CreateLeak, RemovePathLeak, WriteFileLeak
    <3> QED
      BY <1>1, <1>6, <3>2, <3>3, <3>4 DEF Next
  <2> QED
    BY <2>2, <2>3
<1> QED
  BY <1>3, <1>4, <1>5, <1>6

\* While nothing failed and nothing was refused for want of room: between commands
\* every inode in use is listed in a directory, and every cluster in use is the
\* first of an inode in use or follows another one, for disks of every size.
THEOREM NoLeaks == Spec => []NothingLeaks
<1>1. TypeInv /\ ClusterInv /\ TreeInv /\ NameInv /\ LeakInv => NothingLeaks
  <2> SUFFICES ASSUME TypeInv, LeakInv, harm = {}, faults = 0, crashes = 0, AtPrompt
               PROVE  /\ \A i \in Inodes \ {Root} : Live(i) => \E e \in Children : At(e).inode = i
                      /\ \A c \in Clusters : fat[c] # FAT_FREE =>
                           (\E i \in Heads : inodes[i].first = c) \/ (\E d \in Links : fat[d] = c)
    BY DEF NothingLeaks
  <2>1. NoLeak /\ pc = "idle"
    BY DEF LeakInv, Calm, AtPrompt
  <2>2. ASSUME NEW i \in Inodes \ {Root}, Live(i)
        PROVE  \E e \in Children : At(e).inode = i
    <3>1. ~Unlisted(i)
      BY <2>1, <2>2 DEF NoLeak, InodesListed, Adding, MakingDots, MakingEntry, InCreate
    <3>2. PICK d \in Inodes, s \in Slots : Child(d, s) /\ CellAt(d, s).inode = i
      BY <3>1 DEF Unlisted
    <3>3. <<d, s>> \in Children /\ At(<<d, s>>).inode = i
      BY <3>2, NamesPlain DEF Children, Entries, At, Child, CellAt, Used
    <3> QED
      BY <3>3
  <2>3. ASSUME NEW c \in Clusters, fat[c] # FAT_FREE
        PROVE  (\E i \in Heads : inodes[i].first = c) \/ (\E d \in Links : fat[d] = c)
    <3>1. ~Held(c)
      BY <2>1 DEF NoLeak, ClustersPinned, Pinned, Writing, Extending
    <3>2. (\E i \in Inodes : inodes[i].first = c) \/ (\E d \in Clusters : fat[d] = c)
      BY <2>3, <3>1 DEF Held, InUse, Unowned
    <3>3. ASSUME NEW i \in Inodes, inodes[i].first = c PROVE i \in Heads
      BY <2>1, <3>3, Sizes DEF Heads, NoLeak, FreeInodesBlank
    <3>4. ASSUME NEW d \in Clusters, fat[d] = c PROVE d \in Links
      BY <3>4 DEF Links
    <3> QED
      BY <3>2, <3>3, <3>4
  <2> QED
    BY <2>2, <2>3
<1>2. TypeInv /\ ClusterInv /\ TreeInv /\ NameInv /\ LeakInv /\ [Next]_vars => LeakInv'
  BY NextLeak
<1> QED
  BY <1>1, <1>2, InitLeak, NameInvariant, PTL DEF Spec

-----------------------------------------------------------------------------
(***************************************************************************)
(* What the files hold.                                                    *)
(*                                                                         *)
(* Every cell of a file up to its size is text written through its inode.  *)
(* write_file says in its locals what the disk does not say yet: how far   *)
(* the chain it extends is written, and that the cluster it writes is on   *)
(* that chain, which no other file's chain ever meets.                     *)
(***************************************************************************)

\* g follows the links of table T from cluster f, for k links.
Chases(g, T, f, k) ==
  g = [j \in 0..k |-> IF j = 0 THEN (IF f = 0 THEN FAT_EOF ELSE f)
                      ELSE IF g[j - 1] = FAT_EOF THEN FAT_EOF ELSE T[g[j - 1]]]

\* The cluster k links of table T after f, FAT_EOF where the chain is shorter.
ChainAt(T, f, k) ==
  LET at[j \in 0..k] == IF j = 0 THEN (IF f = 0 THEN FAT_EOF ELSE f)
                        ELSE IF at[j - 1] = FAT_EOF THEN FAT_EOF ELSE T[at[j - 1]]
  IN  at[k]

LEMMA ChainChases ==
  ASSUME NEW T, NEW f, NEW k, \E g : Chases(g, T, f, k)
  PROVE  \E g : Chases(g, T, f, k) /\ ChainAt(T, f, k) = g[k]
<1> DEFINE at == CHOOSE g : Chases(g, T, f, k)
<1>1. Chases(at, T, f, k)
  BY Zenon
<1>2. ChainAt(T, f, k) = at[k]
  BY Zenon DEF ChainAt, Chases
<1> QED
  BY <1>1, <1>2, Zenon

Start(f) == IF f = 0 THEN FAT_EOF ELSE f
After(T, d) == IF d = FAT_EOF THEN FAT_EOF ELSE T[d]

LEMMA ChasesIs ==
  ASSUME NEW g, NEW T, NEW f, NEW k \in Nat
  PROVE  Chases(g, T, f, k) <=> /\ g = [j \in 0..k |-> g[j]] /\ g[0] = Start(f)
                                /\ \A j \in 1..k : g[j] = After(T, g[j - 1])
<1>1. \A j \in 0..k : j = 0 \/ j \in 1..k
  OBVIOUS
<1>2. 0 \in 0..k /\ \A j \in 1..k : j \in 0..k /\ j # 0
  OBVIOUS
<1>3. ASSUME Chases(g, T, f, k)
      PROVE  /\ g = [j \in 0..k |-> g[j]] /\ g[0] = Start(f)
             /\ \A j \in 1..k : g[j] = After(T, g[j - 1])
  BY <1>2, <1>3 DEF Chases, Start, After
<1>4. ASSUME g = [j \in 0..k |-> g[j]], g[0] = Start(f),
             \A j \in 1..k : g[j] = After(T, g[j - 1])
      PROVE  Chases(g, T, f, k)
  <2>1. \A j \in 0..k :
          g[j] = IF j = 0 THEN (IF f = 0 THEN FAT_EOF ELSE f)
                 ELSE IF g[j - 1] = FAT_EOF THEN FAT_EOF ELSE T[g[j - 1]]
    BY <1>1, <1>4 DEF Start, After
  <2> QED
    BY <1>4, <2>1 DEF Chases
<1> QED
  BY <1>3, <1>4

\* The induction on which facts about chains rest.
LEMMA CountUp ==
  ASSUME NEW S, 0 \in S, \A k \in Nat : k \in S => k + 1 \in S
  PROVE  \A k \in Nat : k \in S
<1> SUFFICES ASSUME \E k \in Nat : k \notin S PROVE FALSE
  OBVIOUS
<1>1. PICK B : B = {k \in Nat : k \notin S}
  OBVIOUS
<1>2. PICK m : m = Min(B)
  OBVIOUS
<1>3. m \in B /\ \A y \in B : m =< y
  <2>1. B \subseteq Nat /\ B # {}
    BY <1>1
  <2> QED
    BY <1>2, <2>1, MinInSet
<1>4. m \in Nat /\ m \notin S /\ m # 0
  BY <1>1, <1>3
<1>5. m - 1 \in Nat /\ ~ m =< m - 1 /\ (m - 1) + 1 = m
  BY <1>4
<1>6. m - 1 \in S
  BY <1>1, <1>3, <1>5
<1> QED
  BY <1>4, <1>5, <1>6

LEMMA ChasesExists ==
  ASSUME NEW T, NEW f
  PROVE  \A k \in Nat : \E g : Chases(g, T, f, k)
<1>1. PICK S : S = {k \in Nat : \E g : Chases(g, T, f, k)}
  OBVIOUS
<1>2. 0 \in S
  <2>1. PICK g : g = [j \in 0..0 |-> Start(f)]
    OBVIOUS
  <2>2. g = [j \in 0..0 |-> g[j]] /\ g[0] = Start(f)
    BY <2>1
  <2>3. Chases(g, T, f, 0)
    <3>1. 0 \in Nat /\ \A j \in 1..0 : g[j] = After(T, g[j - 1])
      OBVIOUS
    <3> QED
      BY <2>2, <3>1, ChasesIs
  <2> QED
    BY <1>1, <2>3
<1>3. ASSUME NEW k \in Nat, k \in S PROVE k + 1 \in S
  <2>1. PICK g : Chases(g, T, f, k)
    BY <1>1, <1>3
  <2>2. g[0] = Start(f) /\ \A j \in 1..k : g[j] = After(T, g[j - 1])
    BY <2>1, ChasesIs
  <2>3. PICK h : h = [j \in 0..(k + 1) |-> IF j <= k THEN g[j] ELSE After(T, g[k])]
    OBVIOUS
  <2>4. h = [j \in 0..(k + 1) |-> h[j]] /\ h[0] = Start(f)
    BY <2>2, <2>3
  <2>5. ASSUME NEW j \in 1..(k + 1) PROVE h[j] = After(T, h[j - 1])
    <3>1. j \in 0..(k + 1) /\ j - 1 \in 0..(k + 1) /\ j - 1 <= k
      OBVIOUS
    <3>2. h[j - 1] = g[j - 1]
      BY <2>3, <3>1
    <3>3. CASE j <= k
      BY <2>2, <2>3, <3>1, <3>2, <3>3
    <3>4. CASE j = k + 1
      BY <2>3, <3>1, <3>2, <3>4
    <3> QED
      BY <3>3, <3>4
  <2>6. Chases(h, T, f, k + 1)
    <3>1. k + 1 \in Nat
      OBVIOUS
    <3> QED
      BY <2>4, <2>5, <3>1, ChasesIs
  <2> QED
    BY <1>1, <2>6
<1> QED
  BY <1>1, <1>2, <1>3, CountUp

\* A chain starts at its first cluster and goes on by the links.
LEMMA ChainGoes ==
  ASSUME NEW T, NEW f
  PROVE  /\ ChainAt(T, f, 0) = Start(f)
         /\ \A k \in Nat : ChainAt(T, f, k + 1) = After(T, ChainAt(T, f, k))
<1>1. ChainAt(T, f, 0) = Start(f)
  <2>1. PICK g : Chases(g, T, f, 0) /\ ChainAt(T, f, 0) = g[0]
    BY ChasesExists, ChainChases
  <2> QED
    BY <2>1, ChasesIs
<1>2. ASSUME NEW k \in Nat PROVE ChainAt(T, f, k + 1) = After(T, ChainAt(T, f, k))
  <2>1. k + 1 \in Nat
    OBVIOUS
  <2>2. PICK g : Chases(g, T, f, k + 1) /\ ChainAt(T, f, k + 1) = g[k + 1]
    BY <2>1, ChasesExists, ChainChases
  <2>3. PICK h : Chases(h, T, f, k) /\ ChainAt(T, f, k) = h[k]
    BY ChasesExists, ChainChases
  <2>4. g[0] = Start(f) /\ \A j \in 1..(k + 1) : g[j] = After(T, g[j - 1])
    BY <2>1, <2>2, ChasesIs
  <2>5. h[0] = Start(f) /\ \A j \in 1..k : h[j] = After(T, h[j - 1])
    BY <2>3, ChasesIs
  <2>6. PICK S : S = {j \in Nat : j <= k => g[j] = h[j]}
    OBVIOUS
  <2>7. 0 \in S
    BY <2>4, <2>5, <2>6
  <2>8. ASSUME NEW j \in Nat, j \in S PROVE j + 1 \in S
    <3>1. CASE j + 1 <= k
      <4>1. j + 1 \in 1..(k + 1) /\ j + 1 \in 1..k /\ (j + 1) - 1 = j /\ j <= k
        BY <3>1
      <4>2. g[j + 1] = After(T, g[j]) /\ h[j + 1] = After(T, h[j])
        BY <2>4, <2>5, <4>1
      <4> QED
        BY <2>6, <2>8, <4>1, <4>2
    <3> QED
      BY <2>6, <3>1
  <2>9. g[k] = h[k]
    <3>1. k \in S
      BY <2>7, <2>8, CountUp
    <3> QED
      BY <2>6, <3>1
  <2> QED
    <3>1. k + 1 \in 1..(k + 1) /\ (k + 1) - 1 = k
      OBVIOUS
    <3> QED
      BY <2>2, <2>3, <2>4, <2>9, <3>1
<1> QED
  BY <1>1, <1>2

-----------------------------------------------------------------------------
(* Chains on the disk. *)

\* A chain that starts in use stays so until it ends.
LEMMA ChainStays ==
  ASSUME TypeOK, LinksInUse, NEW f, InUse(f)
  PROVE  \A k \in Nat : ChainAt(fat, f, k) = FAT_EOF \/ InUse(ChainAt(fat, f, k))
<1>1. PICK S : S = {k \in Nat : ChainAt(fat, f, k) = FAT_EOF \/ InUse(ChainAt(fat, f, k))}
  OBVIOUS
<1>2. 0 \in S
  <2>1. ChainAt(fat, f, 0) = f
    BY ChainGoes, Sizes DEF Start, InUse
  <2> QED
    BY <1>1, <2>1
<1>3. ASSUME NEW k \in Nat, k \in S PROVE k + 1 \in S
  <2>1. PICK d : d = ChainAt(fat, f, k)
    OBVIOUS
  <2>2. ChainAt(fat, f, k + 1) = IF d = FAT_EOF THEN FAT_EOF ELSE fat[d]
    BY <2>1, ChainGoes DEF After
  <2>3. d # FAT_EOF => fat[d] = FAT_EOF \/ InUse(fat[d])
    BY <1>1, <1>3, <2>1, Sizes DEF InUse, LinksInUse, TypeOK, Chained, FAT_FREE
  <2> QED
    BY <1>1, <2>2, <2>3
<1>4. \A k \in Nat : k \in S
  BY <1>2, <1>3, CountUp
<1> QED
  BY <1>1, <1>4

\* A cluster of a chain is its first, or the link of the one before it.
LEMMA ChainBack ==
  ASSUME TypeOK, LinksInUse, NEW f, InUse(f)
  PROVE  /\ ChainAt(fat, f, 0) = f
         /\ \A k \in Nat :
              ChainAt(fat, f, k + 1) \in Clusters =>
                /\ ChainAt(fat, f, k) \in Clusters
                /\ ChainAt(fat, f, k + 1) = fat[ChainAt(fat, f, k)]
<1>1. ChainAt(fat, f, 0) = f
  BY ChainGoes, Sizes DEF Start, InUse
<1>2. ASSUME NEW k \in Nat, ChainAt(fat, f, k + 1) \in Clusters
      PROVE  /\ ChainAt(fat, f, k) \in Clusters
             /\ ChainAt(fat, f, k + 1) = fat[ChainAt(fat, f, k)]
  <2>1. ChainAt(fat, f, k + 1) = After(fat, ChainAt(fat, f, k))
    BY ChainGoes
  <2>2. ChainAt(fat, f, k) # FAT_EOF
    BY <1>2, <2>1, EofIsNoCluster DEF After
  <2> QED
    BY <2>1, <2>2, ChainStays DEF After, InUse
<1> QED
  BY <1>1, <1>2

LEMMA ChainOwned ==
  ASSUME TypeOK, LinksInUse, NEW f, InUse(f), NEW k \in Nat, ChainAt(fat, f, k) \in Clusters
  PROVE  ChainAt(fat, f, k) = f \/ \E d \in Clusters : fat[d] = ChainAt(fat, f, k)
<1>1. CASE k = 0
  BY <1>1, ChainBack
<1>2. CASE k # 0
  <2>1. k - 1 \in Nat /\ (k - 1) + 1 = k
    BY <1>2
  <2> QED
    BY <2>1, ChainBack
<1> QED
  BY <1>1, <1>2

\* Links are written where a chain ends, or off the chain: it goes where it went.
LEMMA ChainKept ==
  ASSUME TypeOK, LinksInUse, NEW f, InUse(f), NEW U,
         \A d \in Clusters : \/ U[d] = fat[d] \/ fat[d] = FAT_EOF
                             \/ d # f /\ \A e \in Clusters : fat[e] # d
  PROVE  \A k \in Nat :
           ChainAt(fat, f, k) \in Clusters => ChainAt(U, f, k) = ChainAt(fat, f, k)
<1>1. PICK S : S = {k \in Nat : ChainAt(fat, f, k) \in Clusters =>
                                  ChainAt(U, f, k) = ChainAt(fat, f, k)}
  OBVIOUS
<1>2. 0 \in S
  BY <1>1, ChainGoes
<1>3. ASSUME NEW k \in Nat, k \in S PROVE k + 1 \in S
  <2> SUFFICES ASSUME ChainAt(fat, f, k + 1) \in Clusters
               PROVE  ChainAt(U, f, k + 1) = ChainAt(fat, f, k + 1)
    BY <1>1
  <2>1. PICK d \in Clusters : /\ d = ChainAt(fat, f, k)
                              /\ ChainAt(fat, f, k + 1) = fat[d]
    BY ChainBack
  <2>2. ChainAt(U, f, k) = d
    BY <1>1, <1>3, <2>1
  <2>3. d = f \/ \E e \in Clusters : fat[e] = d
    BY <2>1, ChainOwned
  <2>4. U[d] = fat[d]
    BY <2>1, <2>3, EofIsNoCluster
  <2>5. ChainAt(U, f, k + 1) = After(U, d)
    BY <2>2, ChainGoes
  <2> QED
    BY <2>1, <2>4, <2>5, EofIsNoCluster DEF After
<1>4. \A k \in Nat : k \in S
  BY <1>2, <1>3, CountUp
<1> QED
  BY <1>1, <1>4

\* Chains from two clusters that no link leads to never meet.
LEMMA ChainsApart ==
  ASSUME TypeOK, LinksInUse, LinksApart, NEW f, NEW g, InUse(f), InUse(g), f # g,
         \A e \in Clusters : fat[e] # f /\ fat[e] # g
  PROVE  \A p, q \in Nat :
           ChainAt(fat, f, p) \in Clusters => ChainAt(fat, f, p) # ChainAt(fat, g, q)
<1>1. PICK S : S = {p \in Nat : ChainAt(fat, f, p) \in Clusters =>
                      \A q \in Nat : ChainAt(fat, f, p) # ChainAt(fat, g, q)}
  OBVIOUS
<1>2. \A q \in Nat : q = 0 \/ (q - 1 \in Nat /\ (q - 1) + 1 = q)
  OBVIOUS
<1>3. 0 \in S
  <2>1. ASSUME NEW q \in Nat, f \in Clusters PROVE f # ChainAt(fat, g, q)
    BY <1>2, <2>1, ChainBack
  <2> QED
    BY <1>1, <2>1, ChainBack DEF InUse
<1>4. ASSUME NEW p \in Nat, p \in S PROVE p + 1 \in S
  <2> SUFFICES ASSUME ChainAt(fat, f, p + 1) \in Clusters, NEW q \in Nat,
                      ChainAt(fat, f, p + 1) = ChainAt(fat, g, q)
               PROVE  FALSE
    BY <1>1, p + 1 \in Nat
  <2>1. PICK d \in Clusters : /\ d = ChainAt(fat, f, p)
                              /\ ChainAt(fat, f, p + 1) = fat[d]
    BY ChainBack
  <2>2. q # 0
    BY <2>1, ChainBack
  <2>3. PICK r \in Nat : q = r + 1
    BY <1>2, <2>2
  <2>4. PICK e \in Clusters : /\ e = ChainAt(fat, g, r)
                              /\ ChainAt(fat, g, q) = fat[e]
    BY <2>3, ChainBack
  <2>5. d = e
    BY <2>1, <2>4 DEF LinksApart
  <2> QED
    BY <1>1, <1>4, <2>1, <2>3, <2>4, <2>5
<1>5. \A p \in Nat : p \in S
  BY <1>3, <1>4, CountUp
<1> QED
  BY <1>1, <1>5

-----------------------------------------------------------------------------
(* Text on the disk. *)

\* Cell k of the chain from f is text of inode i: T is a FAT, B the blocks.
HasText(T, B, f, k, i) ==
  /\ ChainAt(T, f, (k - 1) \div CellsPerBlock) \in Clusters
  /\ B[ChainAt(T, f, (k - 1) \div CellsPerBlock)][((k - 1) % CellsPerBlock) + 1] = Text(i)

\* Where a cell is.
LEMMA CellPlace ==
  ASSUME NEW k \in Nat \ {0}
  PROVE  /\ (k - 1) \div CellsPerBlock \in Nat /\ ((k - 1) % CellsPerBlock) + 1 \in Slots
         /\ k = ((k - 1) \div CellsPerBlock) * CellsPerBlock + (((k - 1) % CellsPerBlock) + 1)
  BY SizeAssumption, SMTT(30) DEF Slots

\* The cells of a chain stay text when the chain goes where it went and text is
\* written over by text of the same inode only.
LEMMA TextKept ==
  ASSUME NEW T, NEW B, NEW U, NEW C, NEW f, NEW i, NEW k \in Nat \ {0}, HasText(T, B, f, k, i),
         \A p \in Nat : ChainAt(T, f, p) \in Clusters => ChainAt(U, f, p) = ChainAt(T, f, p),
         \A p \in Nat, s \in Slots :
           ChainAt(T, f, p) \in Clusters /\ B[ChainAt(T, f, p)][s] = Text(i) =>
             C[ChainAt(T, f, p)][s] = Text(i)
  PROVE  HasText(U, C, f, k, i)
  BY CellPlace DEF HasText

-----------------------------------------------------------------------------
(* The invariant. *)

\* The inode whose chain remove_path has begun to give back.
Broken ==
  IF \/ pc = "rm_free" /\ op.cur # inodes[op.num].first
     \/ pc = "rm_inode" /\ inodes[op.num].first # 0
  THEN op.num ELSE 0

\* Every cell of a file is text written through its inode.
FilesFull ==
  \A i \in Inodes \ {Broken} :
    inodes[i].type = FileType =>
      \A k \in Nat \ {0} :
        k <= inodes[i].size => HasText(fat, blocks, inodes[i].first, k, i)

ChainToFree == pc = "rm_free" => inodes[op.num].first # 0

\* write_file knows the size on the disk, and begins no further than there.
SizeKnown == Writing => op.node.size = inodes[op.num].size /\ op.off <= op.node.size

\* It is op.pos links down the chain, and writes at the cluster it looked for.
CurReached ==
  Writing =>
    /\ op.node.first # 0 => op.cur = ChainAt(fat, op.node.first, op.pos)
    /\ op.node.first = 0 => op.pos = 0
    /\ pc = "data" => op.pos = op.idx

\* How far the file is written: its old cells, and the new ones up to here.
Reached(k) ==
  \/ k <= op.node.size
  \/ k <= op.off + op.len /\ (pc = "size" \/ k <= op.idx * CellsPerBlock)

TextWritten ==
  Writing =>
    \A k \in Nat \ {0} : Reached(k) => HasText(fat, blocks, op.node.first, k, op.num)

WriteLocals == FirstKept /\ NoFirst /\ CurEnds /\ SizeKnown /\ CurReached /\ TextWritten

OwnSound == FilesFull /\ ChainToFree /\ WriteLocals

OwnInv == Sound => OwnSound

-----------------------------------------------------------------------------
(* What the steps do to the text. *)

\* Out of write_file nothing is known of a file but what the disk says.
LEMMA WriteOver == ASSUME ~Writing' PROVE WriteLocals'
  BY DEF WriteLocals, FirstKept, NoFirst, CurEnds, SizeKnown, CurReached, TextWritten,
     Writing, Extending

\* A file that holds text has a first cluster, and it is in use.
LEMMA FileHead ==
  ASSUME TypeInv, ClustersSound, FilesFull, NEW i \in Inodes \ {Broken},
         inodes[i].type = FileType, inodes[i].size # 0
  PROVE  InUse(inodes[i].first)
<1>1. PICK f : f = inodes[i].first
  OBVIOUS
<1>2. inodes[i].size \in Nat /\ 1 <= inodes[i].size /\ 1 \in Nat \ {0}
  BY DEF TypeInv, TypeOK, Inode
<1>3. HasText(fat, blocks, f, 1, i)
  BY <1>1, <1>2 DEF FilesFull
<1>4. (1 - 1) \div CellsPerBlock = 0
  BY CellPlace, SizeAssumption, SMTT(30)
<1>5. f # 0
  BY <1>3, <1>4, ChainGoes, EofIsNoCluster DEF HasText, Start
<1>6. CASE i # Removing
  BY <1>1, <1>5, <1>6 DEF ClustersSound, ChainsInUse, HeadsInUse
<1>7. CASE i = Removing
  BY <1>1, <1>5, <1>7, Sizes
     DEF Removing, Broken, ClustersSound, LocalsSound, Freeing, Unowned
<1> QED
  BY <1>6, <1>7

\* The files stay full when each keeps its inode and its text.
LEMMA FilesStay ==
  ASSUME TypeInv, ClustersSound, FilesFull,
         \A i \in Inodes :
           i # Broken' /\ inodes'[i].type = FileType /\ inodes'[i].size # 0 =>
             /\ i # Broken /\ inodes'[i] = inodes[i]
             /\ InUse(inodes[i].first) =>
                  \A k \in Nat \ {0} :
                    HasText(fat, blocks, inodes[i].first, k, i) =>
                      HasText(fat', blocks', inodes[i].first, k, i)
  PROVE  FilesFull'
<1> SUFFICES ASSUME NEW i \in Inodes, i # Broken', inodes'[i].type = FileType,
                    NEW k \in Nat \ {0}, k <= inodes'[i].size
             PROVE  HasText(fat', blocks', inodes'[i].first, k, i)
  BY DEF FilesFull
<1>1. inodes'[i].size # 0
  OBVIOUS
<1>2. i # Broken /\ inodes'[i] = inodes[i]
  BY <1>1
<1>3. InUse(inodes[i].first)
  BY <1>1, <1>2, FileHead
<1>4. HasText(fat, blocks, inodes[i].first, k, i)
  BY <1>2 DEF FilesFull
<1> QED
  BY <1>1, <1>2, <1>3, <1>4

\* Nothing on the disk changes.
LEMMA SameDisk ==
  ASSUME FilesFull, UNCHANGED <<fat, inodes, blocks>>, Broken = 0 \/ Broken' = Broken
  PROVE  FilesFull'
<1> SUFFICES ASSUME NEW i \in Inodes, i # Broken', inodes[i].type = FileType,
                    NEW k \in Nat \ {0}, k <= inodes[i].size
             PROVE  HasText(fat, blocks, inodes[i].first, k, i)
  BY DEF FilesFull
<1>1. i # Broken
  BY Sizes
<1> QED
  BY <1>1 DEF FilesFull

\* An inode is written that holds no text.
LEMMA InodeAside ==
  ASSUME TypeInv, ClustersSound, FilesFull, UNCHANGED <<fat, blocks>>, Broken = 0,
         NEW w, NEW j, NEW node, PutInode(w, j, node), node.type # FileType \/ node.size = 0
  PROVE  FilesFull'
<1>1. \A i \in Inodes : inodes'[i] = inodes[i] \/ (i = j /\ inodes'[i] = node)
  BY DEF PutInode, TypeInv, TypeOK
<1>2. 0 \notin Inodes
  BY Sizes
<1> QED
  BY <1>1, <1>2, FilesStay

\* A block is written that is on no chain.
LEMMA BlockAside ==
  ASSUME TypeOK, LinksInUse, UNCHANGED fat, NEW b,
         \A c \in Chained \ {b} : blocks'[c] = blocks[c],
         NEW f, InUse(f), b # f, \A d \in Clusters : fat[d] # b, NEW i, NEW k \in Nat \ {0},
         HasText(fat, blocks, f, k, i)
  PROVE  HasText(fat', blocks', f, k, i)
<1>1. ASSUME NEW p \in Nat, ChainAt(fat, f, p) \in Clusters
      PROVE  blocks'[ChainAt(fat, f, p)] = blocks[ChainAt(fat, f, p)]
  <2>1. ChainAt(fat, f, p) # b /\ ChainAt(fat, f, p) \in Chained
    BY <1>1, ChainOwned DEF Chained
  <2> QED
    BY <2>1
<1> QED
  BY <1>1, TextKept

\* Files are no directories: the blocks of these are on no file's chain.
LEMMA BlockApart ==
  ASSUME TypeInv, ClustersSound, FilesFull, UNCHANGED <<fat, inodes>>,
         Broken = 0 \/ Broken' = Broken,
         NEW b, \A c \in Chained \ {b} : blocks'[c] = blocks[c],
         b \notin Clusters \/ Unowned(b)
           \/ \E d \in Inodes : inodes[d].type # FileType /\ inodes[d].first = b
  PROVE  FilesFull'
<1>1. \A d \in Clusters : fat[d] # b \/ b \notin Clusters
  BY DEF Unowned, ClustersSound, OwnedOnce, HeadsAreNoLinks
<1>2. ASSUME NEW i \in Inodes, inodes[i].type = FileType, InUse(inodes[i].first)
      PROVE  b # inodes[i].first
  <2>1. inodes[i].first \in Clusters /\ inodes[i].first # 0
    BY <1>2, Sizes DEF InUse
  <2> QED
    BY <1>2, <2>1 DEF Unowned, ClustersSound, OwnedOnce, HeadsApart
<1>3. ASSUME NEW i \in Inodes, inodes[i].type = FileType, InUse(inodes[i].first),
             NEW k \in Nat \ {0}, HasText(fat, blocks, inodes[i].first, k, i)
      PROVE  HasText(fat', blocks', inodes[i].first, k, i)
  <2>1. PICK f : f = inodes[i].first
    OBVIOUS
  <2>2. ASSUME NEW p \in Nat, ChainAt(fat, f, p) \in Clusters
        PROVE  blocks'[ChainAt(fat, f, p)] = blocks[ChainAt(fat, f, p)]
    <3>1. TypeOK /\ LinksInUse /\ InUse(f)
      BY <1>3, <2>1 DEF TypeInv, ClustersSound, ChainsInUse
    <3>2. ChainAt(fat, f, p) # b /\ ChainAt(fat, f, p) \in Chained
      BY <1>1, <1>2, <1>3, <2>1, <2>2, <3>1, ChainOwned DEF Chained
    <3> QED
      BY <3>2
  <2> QED
    BY <1>3, <2>1, <2>2, TextKept
<1>4. 0 \notin Inodes
  BY Sizes
<1> QED
  BY <1>3, <1>4, FilesStay

\* Links are written where chains end, or off them.
LEMMA LinksAside ==
  ASSUME TypeOK, LinksInUse, UNCHANGED blocks, NEW f, InUse(f),
         \A d \in Clusters : \/ fat'[d] = fat[d] \/ fat[d] = FAT_EOF
                             \/ d # f /\ \A e \in Clusters : fat[e] # d,
         NEW i, NEW k \in Nat \ {0}, HasText(fat, blocks, f, k, i)
  PROVE  HasText(fat', blocks', f, k, i)
<1>1. \A p \in Nat :
        ChainAt(fat, f, p) \in Clusters => ChainAt(fat', f, p) = ChainAt(fat, f, p)
  BY ChainKept
<1> QED
  BY <1>1, TextKept

-----------------------------------------------------------------------------
(* One lemma per action, or per group of actions alike. *)

\* Booting, starting a removal, losing power.
LEMMA QuietOwn ==
  ASSUME FilesFull, UNCHANGED <<fat, inodes, blocks>>, Broken = 0,
         pc' \in {"idle", "fmt_sb", "fmt_fat", "mount", "entry", "rm_inode"}
           \/ (pc' = "alloc" /\ op'.ret \in {"dots", "entry"})
  PROVE  OwnSound'
<1>1. ~Writing' /\ ChainToFree'
  BY DEF Writing, Extending, ChainToFree
<1> QED
  BY <1>1, SameDisk, WriteOver DEF OwnSound

LEMMA MountOwn == ASSUME OwnSound, Mount \/ Remount PROVE OwnSound'
  BY QuietOwn DEF OwnSound, Mount, Remount, Return, disk, Broken

LEMMA AddEntryOwn == ASSUME TypeInv, OwnSound, AddEntryStart PROVE OwnSound'
<1>1. /\ pc = "add" /\ Broken = 0 /\ UNCHANGED <<fat, inodes, blocks>> /\ op \in Operation
  BY DEF AddEntryStart, disk, Broken, TypeInv, TypeOK
<1>2. pc' \in {"idle", "entry"} \/ (pc' = "alloc" /\ op'.ret = "entry")
  BY <1>1 DEF AddEntryStart, Return, Fresh, Operation
<1> QED
  BY <1>1, <1>2, QuietOwn DEF OwnSound

LEMMA RemovePathOwn == ASSUME TypeInv, OwnSound, NEW p, NEW n, RemovePath(p, n) PROVE OwnSound'
<1> DEFINE t == Find(Walk(p), n).inode
<1>1. pc = "idle" /\ UNCHANGED <<fat, inodes, blocks>> /\ t \in Inodes /\ Broken = 0
  BY DEF RemovePath, AtPrompt, disk, Broken
<1>2. /\ pc' = IF HasBlock(t) THEN "rm_free" ELSE "rm_inode"
      /\ op' = [NoOp EXCEPT !.dir = Walk(p), !.name = n, !.num = t, !.cur = inodes[t].first]
  BY DEF RemovePath
<1> HIDE DEF t
<1>3. op'.num = t
  BY <1>2 DEF NoOp
<1>4. ChainToFree' /\ ~Writing'
  BY <1>1, <1>2, <1>3 DEF ChainToFree, HasBlock, Writing, Extending
<1> QED
  BY <1>1, <1>4, SameDisk, WriteOver DEF OwnSound

LEMMA PowerLossOwn == ASSUME OwnSound, Sound', PowerLoss PROVE OwnSound'
<1>1. Broken = 0
  BY DEF PowerLoss, Sound, Exposed, Broken
<1> QED
  BY <1>1, QuietOwn DEF PowerLoss, disk, OwnSound

\* An inode is taken, marked, or given its directory block.
LEMMA TakeOwn ==
  ASSUME TypeInv, ClustersSound, OwnSound, pc = "idle", UNCHANGED <<fat, blocks>>,
         NEW d, NEW n, NEW k, TakeInode(d, n, k)
  PROVE  OwnSound'
<1>1. PICK w \in Outcomes : /\ PutInode(w, Min(FreeInodes), ZeroInode)
                            /\ Proceed(w, "mark", CreateOp(d, n, k))
  BY DEF TakeInode
<1>2. Broken = 0 /\ ZeroInode.size = 0
  BY DEF Broken, ZeroInode
<1>3. pc' \in {"idle", "mark"}
  BY <1>1 DEF Proceed, Return
<1>4. ~Writing' /\ ChainToFree'
  BY <1>3 DEF Writing, Extending, ChainToFree
<1>5. FilesFull'
  BY <1>1, <1>2, InodeAside DEF OwnSound
<1> QED
  BY <1>4, <1>5, WriteOver DEF OwnSound

LEMMA CreateOwn ==
  ASSUME TypeInv, ClustersSound, OwnSound, NEW p, NEW n, NEW k, Create(p, n, k) PROVE OwnSound'
  BY TakeOwn DEF Create, AtPrompt

LEMMA EnsureOwn == ASSUME TypeInv, ClustersSound, OwnSound, EnsureDir PROVE OwnSound'
<1>1. pc = "idle" /\ UNCHANGED <<fat, blocks>>
  BY DEF EnsureDir
<1>2. CASE CanCreate(Front(Head(todo)), Last(Head(todo)))
  BY <1>1, <1>2, TakeOwn DEF EnsureDir
<1>3. CASE ~CanCreate(Front(Head(todo)), Last(Head(todo)))
  <2>1. UNCHANGED <<inodes, pc, op>>
    BY <1>3 DEF EnsureDir
  <2> QED
    BY <1>1, <2>1, QuietOwn DEF OwnSound, Broken
<1> QED
  BY <1>2, <1>3

LEMMA MarkOwn == ASSUME TypeInv, ClustersSound, OwnSound, MarkInode PROVE OwnSound'
<1> DEFINE node == [ZeroInode EXCEPT !.type = op.kind]
<1>1. PICK w \in Outcomes :
        /\ PutInode(w, op.num, node)
        /\ IF op.kind = DirType THEN Proceed(w, "alloc", Fresh("dots"))
           ELSE Proceed(w, "add", op)
  BY DEF MarkInode
<1>2. Broken = 0 /\ node.size = 0 /\ UNCHANGED <<fat, blocks>> /\ op \in Operation
  BY DEF MarkInode, Broken, ZeroInode, TypeInv, TypeOK
<1> HIDE DEF node
<1>3. pc' \in {"idle", "add"} \/ (pc' = "alloc" /\ op'.ret = "dots")
  BY <1>1, <1>2 DEF Proceed, Return, Fresh, Operation
<1>4. ~Writing' /\ ChainToFree'
  BY <1>3 DEF Writing, Extending, ChainToFree
<1>5. FilesFull'
  BY <1>1, <1>2, InodeAside DEF OwnSound
<1> QED
  BY <1>4, <1>5, WriteOver DEF OwnSound

LEMMA WriteDotsInodeOwn ==
  ASSUME TypeInv, ClustersSound, OwnSound, WriteDotsInode PROVE OwnSound'
<1> DEFINE node == [type |-> DirType, size |-> CellsPerBlock, first |-> op.new]
<1>1. PICK w \in Outcomes :
        /\ PutInode(w, op.num, node)
        /\ Proceed(w, IF op.name = "" THEN "remount" ELSE "add", op)
  BY DEF WriteDotsInode
<1>2. node.type # FileType
  BY DEF FileType, DirType
<1> HIDE DEF node
<1>3. Broken = 0 /\ UNCHANGED <<fat, blocks>> /\ ~Writing' /\ ChainToFree'
  BY <1>1 DEF WriteDotsInode, Broken, Proceed, Return, Writing, Extending, ChainToFree
<1>4. FilesFull'
  BY <1>1, <1>2, <1>3, InodeAside DEF OwnSound
<1> QED
  BY <1>3, <1>4, WriteOver DEF OwnSound

LEMMA WriteDirInodeOwn ==
  ASSUME TypeInv, ClustersSound, TreeSound, OwnSound, WriteDirInode PROVE OwnSound'
<1>1. pc = "dir_inode" /\ Broken = 0 /\ UNCHANGED <<fat, blocks>> /\ Return
  BY DEF WriteDirInode, Broken
<1>2. op.node.type # FileType
  BY <1>1 DEF TreeSound, TreeLocals, EntryWritten, FileType, DirType
<1>3. ~Writing' /\ ChainToFree'
  BY <1>1 DEF Return, Writing, Extending, ChainToFree
<1>4. FilesFull'
  BY <1>1, <1>2, InodeAside DEF OwnSound, WriteDirInode
<1> QED
  BY <1>3, <1>4, WriteOver DEF OwnSound

\* The superblock is no block of a file.
LEMMA FormatSuperblockOwn ==
  ASSUME TypeInv, ClustersSound, OwnSound, FormatSuperblock PROVE OwnSound'
<1>1. PICK w \in Outcomes : PutCell(w, 0, 1, Magic) /\ Proceed(w, "fmt_fat", op)
  BY DEF FormatSuperblock
<1>2. \A c \in Chained \ {0} : blocks'[c] = blocks[c]
  BY <1>1, PutCellReads, Sizes DEF TypeInv, Chained
<1>3. Broken = 0 /\ UNCHANGED <<fat, inodes>> /\ ~Writing' /\ ChainToFree'
  BY <1>1
     DEF FormatSuperblock, Broken, Proceed, Return, Writing, Extending, ChainToFree
<1>4. FilesFull'
  BY <1>2, <1>3, BlockApart, Sizes DEF OwnSound
<1> QED
  BY <1>3, <1>4, WriteOver DEF OwnSound

LEMMA WriteDotsOwn == ASSUME TypeInv, ClustersSound, OwnSound, WriteDots PROVE OwnSound'
<1>1. PICK w \in Outcomes : /\ PutBlock(w, op.new, DotEntries(op.num, op.dir))
                            /\ Proceed(w, "dots_inode", op)
  BY DEF WriteDots
<1>2. \A c \in Chained \ {op.new} : blocks'[c] = blocks[c]
  BY <1>1, PutBlockReads DEF TypeInv
<1>3. Broken = 0 /\ UNCHANGED <<fat, inodes>> /\ ~Writing' /\ ChainToFree'
  BY <1>1 DEF WriteDots, Broken, Proceed, Return, Writing, Extending, ChainToFree
<1>4. Unowned(op.new)
  BY DEF WriteDots, ClustersSound, LocalsSound, NewHeld, Held
<1>5. FilesFull'
  BY <1>2, <1>3, <1>4, BlockApart DEF OwnSound
<1> QED
  BY <1>3, <1>5, WriteOver DEF OwnSound

LEMMA WriteEntryOwn ==
  ASSUME TypeInv, ClustersSound, TreeSound, OwnSound, WriteEntry PROVE OwnSound'
<1>1. /\ pc = "entry" /\ Broken = 0 /\ UNCHANGED <<fat, inodes>> /\ op.dir \in Inodes
      /\ op.new \in Chained /\ TypeOK
  BY DEF WriteEntry, Broken, TypeInv, TypeOK, OpTyped, Creating, Operation
<1>2. inodes[op.dir].type # FileType
  BY <1>1 DEF TreeSound, TreeLocals, EntryPlace, MakingEntry, InCreate, FileType, DirType
<1>3. Unowned(op.new) \/ op.new = inodes[op.dir].first
  BY <1>1 DEF ClustersSound, LocalsSound, EntryBlock
<1>4. \A c \in Chained \ {op.new} : blocks'[c] = blocks[c]
  <2>1. CASE FreeSlots(op.new) = {}
    BY <2>1 DEF WriteEntry
  <2>2. CASE FreeSlots(op.new) # {}
    <3>1. PICK w \in Outcomes : \E s, cell : PutCell(w, op.new, s, cell)
      BY <2>2 DEF WriteEntry
    <3> QED
      BY <1>1, <3>1 DEF PutCell, TypeOK
  <2> QED
    BY <2>1, <2>2
<1>5. ~Writing' /\ ChainToFree'
  BY DEF WriteEntry, Proceed, Return, Writing, Extending, ChainToFree
<1>6. FilesFull'
  BY <1>1, <1>2, <1>3, <1>4, BlockApart DEF OwnSound
<1> QED
  BY <1>5, <1>6, WriteOver DEF OwnSound

LEMMA RemoveEntryOwn ==
  ASSUME TypeInv, ClustersSound, OwnSound, RemoveEntry PROVE OwnSound'
<1>1. pc = "rm_entry" /\ Broken = 0 /\ UNCHANGED <<fat, inodes>> /\ TypeOK
  BY DEF RemoveEntry, Broken, TypeInv
<1>2. ~Writing' /\ ChainToFree' /\ Broken' = 0
  BY DEF RemoveEntry, Proceed, Return, Writing, Extending, ChainToFree, Broken
<1>3. CASE ~IsDir(op.dir) \/ EntrySlots(op.dir, op.name) = {}
  <2>1. blocks' = blocks
    BY <1>3 DEF RemoveEntry
  <2> QED
    BY <1>1, <1>2, <2>1, SameDisk, WriteOver DEF OwnSound
<1>4. CASE ~(~IsDir(op.dir) \/ EntrySlots(op.dir, op.name) = {})
  <2>1. op.dir \in Inodes /\ inodes[op.dir].type # FileType
    BY <1>4 DEF IsDir, FileType, DirType
  <2>2. PICK w \in Outcomes : \E s, cell : PutCell(w, inodes[op.dir].first, s, cell)
    BY <1>4 DEF RemoveEntry
  <2>3. \A c \in Chained \ {inodes[op.dir].first} : blocks'[c] = blocks[c]
    BY <1>1, <2>2 DEF PutCell, TypeOK
  <2>4. FilesFull'
    BY <1>1, <2>1, <2>3, BlockApart DEF OwnSound
  <2> QED
    BY <1>2, <2>4, WriteOver DEF OwnSound
<1> QED
  BY <1>3, <1>4

\* remove_path frees a cluster that is on its own chain and on no other file's.
LEMMA ChainOwn ==
  ASSUME TypeInv, ClustersSound, OwnSound, FreeCluster, Sound' PROVE OwnSound'
<1>1. /\ pc = "rm_free" /\ UNCHANGED <<inodes, blocks>> /\ op \in Operation /\ TypeOK
      /\ op.num \in Inodes /\ op.cur \in Clusters /\ inodes[op.num].first # 0
      /\ LinksInUse
  BY DEF FreeCluster, TypeInv, TypeOK, OpTyped, Deleting, OwnSound, ChainToFree,
     ClustersSound, ChainsInUse
<1>2. op.cur = inodes[op.num].first \/ Unowned(op.cur)
  BY <1>1 DEF ClustersSound, LocalsSound, Freeing
<1>3. \/ /\ fat' = [fat EXCEPT ![op.cur] = FAT_FREE]
         /\ op' = [op EXCEPT !.cur = fat[op.cur]]
         /\ pc' = IF fat[op.cur] \in {0, FAT_EOF} THEN "rm_inode" ELSE "rm_free"
      \/ pc' = "rm_inode" /\ UNCHANGED <<fat, op>>
  BY DEF FreeCluster, PutFat, Sound
<1>4. op'.num = op.num /\ pc' \in {"rm_free", "rm_inode"}
  BY <1>1, <1>3 DEF Operation
<1>5. Broken' = op.num
  <2>1. CASE pc' = "rm_inode"
    BY <1>1, <1>4, <2>1 DEF Broken
  <2>2. CASE pc' = "rm_free"
    <3>1. op'.cur = fat[op.cur] /\ fat[op.cur] \in Clusters
      BY <1>1, <1>3, <2>2 DEF TypeOK, Operation, Chained, FAT_FREE
    <3>2. inodes[op.num].first # fat[op.cur]
      BY <1>1, <3>1 DEF ClustersSound, OwnedOnce, HeadsAreNoLinks
    <3> QED
      BY <1>1, <1>4, <2>2, <3>1, <3>2 DEF Broken
  <2> QED
    BY <1>4, <2>1, <2>2
<1>6. ASSUME NEW i \in Inodes, i # op.num, InUse(inodes[i].first),
             NEW k \in Nat \ {0}, HasText(fat, blocks, inodes[i].first, k, i)
      PROVE  HasText(fat', blocks', inodes[i].first, k, i)
  <2>1. PICK f, c : f = inodes[i].first /\ c = op.cur
    OBVIOUS
  <2>2. c # f /\ \A e \in Clusters : fat[e] # c
    BY <1>1, <1>2, <1>6, <2>1
       DEF Unowned, ClustersSound, OwnedOnce, HeadsApart, HeadsAreNoLinks
  <2>3. \A d \in Clusters : fat'[d] = fat[d] \/ d = c
    BY <1>1, <1>3, <2>1 DEF TypeOK, Chained
  <2> QED
    BY <1>1, <1>6, <2>1, <2>2, <2>3, LinksAside
<1>7. FilesFull'
  <2>1. \A i \in Inodes : i # op.num => i # Broken
    BY Sizes DEF Broken
  <2> QED
    BY <1>1, <1>5, <1>6, <2>1, FilesStay DEF OwnSound
<1>8. ~Writing' /\ ChainToFree'
  BY <1>1, <1>4 DEF Writing, Extending, ChainToFree
<1> QED
  BY <1>7, <1>8, WriteOver DEF OwnSound

LEMMA FreeInodeOwn ==
  ASSUME TypeInv, ClustersSound, OwnSound, FreeInode, Sound' PROVE OwnSound'
<1>1. /\ pc = "rm_inode" /\ UNCHANGED <<fat, blocks>> /\ op.num \in Inodes
      /\ inodes \in [Inodes -> Inode]
  BY DEF FreeInode, TypeInv, TypeOK, OpTyped, Deleting
<1>2. PICK w \in Outcomes :
        /\ PutInode(w, op.num, ZeroInode) /\ Proceed(w, "rm_entry", op)
        /\ harm' = IF w.ok THEN harm
                   ELSE harm \cup Exposed \cup (IF w.hit THEN {"remove"} ELSE {})
  BY DEF FreeInode
<1>3. ~Writing' /\ ChainToFree' /\ Broken' = 0
  BY <1>2 DEF Proceed, Return, Writing, Extending, ChainToFree, Broken
<1>4. FilesFull'
  <2>1. CASE Broken = 0
    <3>1. ZeroInode.size = 0
      BY DEF ZeroInode
    <3> QED
      BY <1>1, <1>2, <2>1, <3>1, InodeAside DEF OwnSound
  <2>2. CASE Broken # 0
    <3>1. inodes[op.num].first # 0 /\ Broken = op.num
      BY <1>1, <2>2 DEF Broken
    <3>2. w.ok /\ w.hit
      BY <1>1, <1>2, <3>1, OutcomeType DEF Exposed, Sound
    <3>3. \A i \in Inodes : inodes'[i] = IF i = op.num THEN ZeroInode ELSE inodes[i]
      BY <1>1, <1>2, <3>2 DEF PutInode
    <3> QED
      BY <1>1, <3>1, <3>3, FilesStay DEF OwnSound, ZeroInode
  <2> QED
    BY <2>1, <2>2
<1> QED
  BY <1>3, <1>4, WriteOver DEF OwnSound

LEMMA FormatRootOwn == ASSUME TypeInv, Formatted, FormatRoot, Sound' PROVE OwnSound'
<1>1. /\ pc = "fmt_root" /\ inodes \in [Inodes -> Inode]
      /\ \A i \in Inodes : inodes[i] = ZeroInode
  BY DEF FormatRoot, Formatted, TypeInv, TypeOK
<1>2. PICK w \in Outcomes :
        /\ PutInode(w, Root, [ZeroInode EXCEPT !.type = DirType])
        /\ Proceed(w, "alloc", [NoOp EXCEPT !.dir = Root, !.num = Root, !.ret = "dots"])
        /\ harm' = IF w.ok THEN {} ELSE harm \cup Exposed
  BY DEF FormatRoot
<1>3. w.ok
  BY <1>1, <1>2 DEF Exposed, Formatting, Sound
<1>4. ~Writing' /\ ChainToFree'
  BY <1>2, <1>3 DEF Proceed, NoOp, Writing, Extending, ChainToFree
<1>5. \A i \in Inodes : inodes'[i].type # FileType
  BY <1>1, <1>2 DEF PutInode, ZeroInode, FreeType, FileType, DirType
<1>6. FilesFull'
  BY <1>5 DEF FilesFull
<1> QED
  BY <1>4, <1>6, WriteOver DEF OwnSound

-----------------------------------------------------------------------------
(* write_file. *)

\* The facts of a write in progress.
LEMMA WriteKnown ==
  ASSUME TypeInv, ClustersSound, Writing
  PROVE  /\ op \in Operation /\ op.num \in Inodes /\ op.node \in Inode /\ TypeOK
         /\ op.pos \in Nat /\ op.idx \in Nat /\ op.off \in Nat /\ op.len \in Nat
         /\ op.cur \in Chained /\ LinksInUse /\ LinksApart
         /\ Broken = 0 /\ Removing = 0
         /\ op.node.first # 0 => InUse(op.cur)
<1>1. /\ op \in Operation /\ TypeOK /\ op.num \in Inodes /\ op.cur \in Chained
  BY DEF Writing, Extending, TypeInv, TypeOK, OpTyped
<1>2. /\ op.node \in Inode /\ op.pos \in Nat /\ op.idx \in Nat /\ op.off \in Nat
      /\ op.len \in Nat
  BY <1>1 DEF Operation
<1>3. Broken = 0 /\ Removing = 0
  BY DEF Writing, Extending, Broken, Removing
<1>4. LinksInUse /\ LinksApart /\ (op.node.first # 0 => InUse(op.cur))
  BY DEF ClustersSound, OwnedOnce, ChainsInUse, LocalsSound, FileChain
<1> QED
  BY <1>1, <1>2, <1>3, <1>4

\* The chain being written starts in use, and nothing but its inode leads there.
LEMMA NodeHead ==
  ASSUME TypeInv, ClustersSound, Writing, op.node.first # 0
  PROVE  /\ InUse(op.node.first) /\ \A e \in Clusters : fat[e] # op.node.first
         /\ \A i \in Inodes \ {op.num} : inodes[i].first # op.node.first
<1>1. op.num \in Inodes /\ Removing = 0 /\ op.node \in Inode
  BY WriteKnown
<1>2. op.node.first = inodes[op.num].first \/ Held(op.node.first)
  BY DEF ClustersSound, LocalsSound, FileChain
<1>3. CASE Held(op.node.first)
  BY <1>3 DEF Held, Unowned
<1>4. CASE op.node.first = inodes[op.num].first
  <2>1. InUse(op.node.first)
    BY <1>1, <1>4, Sizes DEF ClustersSound, ChainsInUse, HeadsInUse
  <2> QED
    BY <1>1, <1>4, <2>1
       DEF InUse, ClustersSound, OwnedOnce, HeadsApart, HeadsAreNoLinks
<1> QED
  BY <1>2, <1>3, <1>4

\* A chain without a first cluster is empty.
LEMMA NoChain == ASSUME NEW T PROVE \A k \in Nat : ChainAt(T, 0, k) = FAT_EOF
<1>1. PICK S : S = {k \in Nat : ChainAt(T, 0, k) = FAT_EOF}
  OBVIOUS
<1>2. 0 \in S
  BY <1>1, ChainGoes DEF Start
<1>3. ASSUME NEW k \in Nat, k \in S PROVE k + 1 \in S
  <2>1. ChainAt(T, 0, k) = FAT_EOF /\ k + 1 \in Nat
    BY <1>1, <1>3
  <2>2. ChainAt(T, 0, k + 1) = FAT_EOF
    BY <2>1, ChainGoes DEF After
  <2> QED
    BY <1>1, <2>1, <2>2
<1>4. \A k \in Nat : k \in S
  BY <1>2, <1>3, CountUp
<1> QED
  BY <1>1, <1>4

LEMMA NothingReached ==
  ASSUME TextWritten, Writing, op.node.first = 0, NEW k \in Nat \ {0} PROVE ~Reached(k)
<1>1. ~HasText(fat, blocks, op.node.first, k, op.num)
  BY NoChain, CellPlace, EofIsNoCluster DEF HasText
<1> QED
  BY <1>1 DEF TextWritten

LEMMA WriteFileOwn ==
  ASSUME TypeInv, OwnSound, NEW p, NEW append, NEW len \in Lengths, WriteFile(p, append, len)
  PROVE  OwnSound'
<1> DEFINE i == Walk(p)
           off == IF append THEN inodes[i].size ELSE 0
<1>1. pc = "idle" /\ UNCHANGED <<fat, inodes, blocks>> /\ pc' = "seek" /\ i \in Inodes
      /\ Broken = 0
  BY DEF WriteFile, AtPrompt, disk, Broken
<1>2. inodes[i].type = FileType
  BY DEF WriteFile
<1>3. op' = [NoOp EXCEPT !.num = i, !.node = inodes[i], !.cur = inodes[i].first,
                         !.idx = off \div CellsPerBlock, !.off = off, !.len = len]
  BY DEF WriteFile
<1>4. /\ inodes[i] \in Inode /\ inodes[i].size \in Nat /\ off \in Nat /\ off <= inodes[i].size
      /\ len \in Nat
  BY <1>1, BoundAssumption DEF TypeInv, TypeOK, Inode
<1>5. /\ op'.num = i /\ op'.node = inodes[i] /\ op'.cur = inodes[i].first /\ op'.pos = 0
      /\ op'.idx = off \div CellsPerBlock /\ op'.off = off /\ op'.len = len
  BY <1>3 DEF NoOp
<1> HIDE DEF i, off
<1>6. op'.idx \in Nat /\ op'.idx * CellsPerBlock <= off
  BY <1>4, <1>5, SizeAssumption, SMTT(30)
<1>7. FilesFull' /\ ChainToFree'
  BY <1>1, SameDisk DEF OwnSound, ChainToFree
<1>8. FirstKept' /\ NoFirst' /\ CurEnds' /\ SizeKnown'
  BY <1>1, <1>4, <1>5 DEF FirstKept, NoFirst, CurEnds, SizeKnown
<1>9. CurReached'
  BY <1>1, <1>5, ChainGoes DEF CurReached, Start
<1>10. TextWritten'
  <2> SUFFICES ASSUME NEW k \in Nat \ {0}, Reached(k)'
               PROVE  HasText(fat, blocks, inodes[i].first, k, i)
    BY <1>1, <1>5, Zenon DEF TextWritten
  <2>1. k <= inodes[i].size
    BY <1>1, <1>4, <1>5, <1>6, SizeAssumption DEF Reached
  <2>2. i # Broken
    BY <1>1, Sizes
  <2> QED
    BY <1>1, <1>2, <2>1, <2>2 DEF OwnSound, FilesFull
<1> QED
  BY <1>7, <1>8, <1>9, <1>10 DEF OwnSound, WriteLocals

LEMMA SeekOwn == ASSUME TypeInv, ClustersSound, OwnSound, Seek PROVE OwnSound'
<1>1. pc = "seek" /\ UNCHANGED <<fat, inodes, blocks>> /\ Writing /\ op.cur # FAT_EOF
  BY Sizes DEF Seek, disk, Writing, Extending, TypeInv, OpTyped
<1>2. op \in Operation /\ Broken = 0 /\ op.pos \in Nat
  BY <1>1, WriteKnown
<1>3. \/ op.node.first = 0 /\ pc' = "alloc" /\ op' = Fresh("first")
      \/ op.node.first # 0 /\ fat[op.cur] = FAT_EOF /\ pc' = "alloc" /\ op' = Fresh("link")
      \/ /\ op.node.first # 0
         /\ pc' = "seek" /\ op' = [op EXCEPT !.cur = fat[op.cur], !.pos = @ + 1]
      \/ op.node.first # 0 /\ op.pos = op.idx /\ pc' = "data" /\ op' = op
  BY DEF Seek
<1>4. /\ op'.num = op.num /\ op'.node = op.node /\ op'.off = op.off /\ op'.len = op.len
      /\ op'.idx = op.idx
      /\ \/ /\ pc' = "alloc" /\ op'.ret = "first" /\ op.node.first = 0
            /\ op'.cur = op.cur /\ op'.pos = op.pos
         \/ /\ pc' = "alloc" /\ op'.ret = "link" /\ op.node.first # 0
            /\ op'.cur = op.cur /\ op'.pos = op.pos /\ fat[op.cur] = FAT_EOF
         \/ /\ pc' = "seek" /\ op'.cur = fat[op.cur] /\ op'.pos = op.pos + 1
            /\ op.node.first # 0
         \/ /\ pc' = "data" /\ op'.cur = op.cur /\ op'.pos = op.pos
            /\ op.node.first # 0 /\ op.pos = op.idx
  BY <1>2, <1>3 DEF Fresh, Operation
<1>5. FilesFull' /\ ChainToFree'
  BY <1>1, <1>2, <1>4, SameDisk DEF OwnSound, ChainToFree
<1>6. FirstKept' /\ NoFirst' /\ CurEnds' /\ SizeKnown'
  BY <1>1, <1>4
     DEF OwnSound, WriteLocals, FirstKept, NoFirst, CurEnds, SizeKnown
<1>7. CurReached'
  <2>1. /\ op.node.first # 0 => op.cur = ChainAt(fat, op.node.first, op.pos)
        /\ op.node.first = 0 => op.pos = 0
    BY <1>1 DEF OwnSound, WriteLocals, CurReached
  <2>2. op.node.first # 0 => fat[op.cur] = ChainAt(fat, op.node.first, op.pos + 1)
    BY <1>1, <1>2, <2>1, ChainGoes DEF After
  <2> QED
    BY <1>1, <1>4, <2>1, <2>2 DEF CurReached
<1>8. TextWritten'
  <2> SUFFICES ASSUME NEW k \in Nat \ {0}, Reached(k)'
               PROVE  HasText(fat, blocks, op.node.first, k, op.num)
    BY <1>1, <1>4, Zenon DEF TextWritten
  <2>1. Reached(k)
    BY <1>1, <1>4 DEF Reached
  <2> QED
    BY <1>1, <2>1 DEF OwnSound, WriteLocals, TextWritten
<1> QED
  BY <1>5, <1>6, <1>7, <1>8 DEF OwnSound, WriteLocals

\* The new chain is empty: nothing was reached of the old one.
LEMMA SetFirstOwn == ASSUME TypeInv, ClustersSound, OwnSound, SetFirst PROVE OwnSound'
<1>1. pc = "first" /\ UNCHANGED <<fat, inodes, blocks>> /\ Writing
  BY DEF SetFirst, disk, Writing, Extending
<1>2. op \in Operation /\ Broken = 0 /\ op.node \in Inode
  BY <1>1, WriteKnown
<1>3. op.node.first = 0 /\ inodes[op.num].first = 0 /\ op.pos = 0
  BY <1>1 DEF OwnSound, WriteLocals, NoFirst, FirstKept, CurReached
<1>4. /\ pc' = "seek" /\ op'.num = op.num /\ op'.node.size = op.node.size
      /\ op'.off = op.off /\ op'.len = op.len /\ op'.idx = op.idx /\ op'.pos = op.pos
      /\ op'.node.first = op.new /\ op'.cur = op.new
  BY <1>1, <1>2 DEF SetFirst, Operation, Inode
<1>5. FilesFull' /\ ChainToFree'
  BY <1>1, <1>2, <1>4, SameDisk DEF OwnSound, ChainToFree
<1>6. FirstKept' /\ NoFirst' /\ CurEnds' /\ SizeKnown'
  BY <1>1, <1>3, <1>4
     DEF OwnSound, WriteLocals, FirstKept, NoFirst, CurEnds, SizeKnown
<1>7. CurReached'
  BY <1>1, <1>3, <1>4, ChainGoes DEF CurReached, Start
<1>8. TextWritten'
  <2> SUFFICES ASSUME NEW k \in Nat \ {0}, Reached(k)' PROVE FALSE
    BY Zenon DEF TextWritten
  <2>1. Reached(k)
    BY <1>1, <1>4 DEF Reached
  <2> QED
    BY <1>1, <1>3, <2>1, NothingReached DEF OwnSound, WriteLocals
<1> QED
  BY <1>5, <1>6, <1>7, <1>8 DEF OwnSound, WriteLocals

\* The cluster handed out is on no chain.
LEMMA AllocOwn == ASSUME TypeInv, ClustersSound, OwnSound, AllocCluster PROVE OwnSound'
<1>1. /\ pc = "alloc" /\ UNCHANGED <<inodes, blocks>> /\ TypeOK /\ op \in Operation
      /\ Broken = 0 /\ Removing = 0 /\ LinksInUse /\ ChainsInUse
  BY DEF AllocCluster, TypeInv, TypeOK, Broken, Removing, ClustersSound, ChainsInUse
<1>2. CASE FreeClusters = {}
  <2>1. UNCHANGED fat /\ pc' = "idle"
    BY <1>2 DEF AllocCluster, Return
  <2> QED
    BY <1>1, <2>1, QuietOwn DEF OwnSound
<1>3. CASE FreeClusters # {}
  <2>1. PICK c \in Clusters : c = Min(FreeClusters) /\ fat[c] = FAT_FREE
    BY <1>3, FirstFree DEF FreeClusters
  <2>2. PICK w \in Outcomes : /\ PutFat(w, c, FAT_EOF)
                              /\ Proceed(w, "zero", [op EXCEPT !.new = c])
    BY <1>3, <2>1 DEF AllocCluster
  <2>3. Unowned(c) /\ \A d \in Clusters : fat'[d] = fat[d] \/ d = c
    BY <1>1, <2>1, <2>2, FreeIsUnowned DEF PutFat, TypeOK, Chained
  <2>4. ASSUME NEW f, InUse(f), NEW d \in Clusters
        PROVE  fat'[d] = fat[d] \/ (d # f /\ \A e \in Clusters : fat[e] # d)
    BY <2>1, <2>3, <2>4 DEF InUse, Unowned
  <2>5. ASSUME NEW f, InUse(f), NEW i, NEW k \in Nat \ {0}, HasText(fat, blocks, f, k, i)
        PROVE  HasText(fat', blocks', f, k, i)
    BY <1>1, <2>4, <2>5, LinksAside
  <2>6. FilesFull'
    BY <1>1, <2>5, FilesStay, Sizes DEF OwnSound
  <2>7. ChainToFree'
    BY <2>2 DEF Proceed, Return, ChainToFree
  <2>8. CASE ~Writing'
    BY <2>6, <2>7, <2>8, WriteOver DEF OwnSound
  <2>9. CASE Writing'
    <3>1. /\ pc' = "zero" /\ op'.new = c /\ op'.ret = op.ret /\ op'.num = op.num
          /\ op'.node = op.node /\ op'.cur = op.cur /\ op'.pos = op.pos /\ op'.idx = op.idx
          /\ op'.off = op.off /\ op'.len = op.len
      BY <1>1, <2>2, <2>9 DEF Proceed, Return, Operation, Writing, Extending
    <3>2. Writing
      BY <1>1, <2>9, <3>1 DEF Writing, Extending
    <3>3. op.pos \in Nat /\ op.num \in Inodes /\ (op.node.first # 0 => InUse(op.cur))
      BY <3>2, WriteKnown
    <3>4. FirstKept' /\ NoFirst' /\ SizeKnown'
      BY <1>1, <3>1, <3>2
         DEF OwnSound, WriteLocals, FirstKept, NoFirst, SizeKnown
    <3>5. CurEnds'
      <4>1. op.ret = "link" => op.node.first # 0 /\ fat[op.cur] = FAT_EOF
        BY <1>1 DEF OwnSound, WriteLocals, CurEnds
      <4>2. op.ret = "link" => fat'[op.cur] = FAT_EOF
        BY <2>1, <2>3, <3>3, <4>1, EofIsNoCluster DEF InUse
      <4> QED
        BY <1>1, <3>1, <4>1, <4>2 DEF CurEnds
    <3>6. CurReached'
      <4>1. PICK f : f = op.node.first
        OBVIOUS
      <4>2. f # 0 => op.cur = ChainAt(fat, f, op.pos)
        BY <3>2, <4>1 DEF OwnSound, WriteLocals, CurReached
      <4>3. f # 0 => ChainAt(fat', f, op.pos) = ChainAt(fat, f, op.pos)
        <5> SUFFICES ASSUME f # 0 PROVE ChainAt(fat', f, op.pos) = ChainAt(fat, f, op.pos)
          OBVIOUS
        <5>1. InUse(f)
          BY <3>2, <4>1, NodeHead
        <5>2. ChainAt(fat, f, op.pos) \in Clusters
          BY <3>3, <4>1, <4>2 DEF InUse
        <5> QED
          BY <1>1, <2>4, <3>3, <5>1, <5>2, ChainKept
      <4>4. f = 0 => op.pos = 0
        BY <3>2, <4>1 DEF OwnSound, WriteLocals, CurReached
      <4> QED
        BY <3>1, <4>1, <4>2, <4>3, <4>4 DEF CurReached
    <3>7. TextWritten'
      <4> SUFFICES ASSUME NEW k \in Nat \ {0}, Reached(k)'
                   PROVE  HasText(fat', blocks', op.node.first, k, op.num)
        BY <3>1, Zenon DEF TextWritten
      <4>1. Reached(k)
        BY <1>1, <3>1 DEF Reached
      <4>2. HasText(fat, blocks, op.node.first, k, op.num)
        BY <3>2, <4>1 DEF OwnSound, WriteLocals, TextWritten
      <4>3. op.node.first # 0
        BY <3>2, <4>1, NothingReached DEF OwnSound, WriteLocals
      <4> QED
        BY <2>5, <3>2, <4>2, <4>3, NodeHead
    <3> QED
      BY <2>6, <2>7, <3>4, <3>5, <3>6, <3>7 DEF OwnSound, WriteLocals
  <2> QED
    BY <2>8, <2>9
<1> QED
  BY <1>2, <1>3

\* The cluster blanked is on no chain yet.
LEMMA ZeroOwn == ASSUME TypeInv, ClustersSound, OwnSound, ZeroCluster PROVE OwnSound'
<1>1. /\ pc = "zero" /\ Broken = 0 /\ UNCHANGED <<fat, inodes>> /\ TypeOK
      /\ op.ret \in {"dots", "entry", "first", "link"} /\ LinksInUse
  BY DEF ZeroCluster, Broken, TypeInv, TypeOK, OpTyped, Operation, ClustersSound, ChainsInUse
<1>2. PICK w \in Outcomes : PutBlock(w, op.new, ZeroBlock) /\ Proceed(w, op.ret, op)
  BY DEF ZeroCluster
<1>3. \A c \in Chained \ {op.new} : blocks'[c] = blocks[c]
  BY <1>1, <1>2, PutBlockReads
<1>4. Unowned(op.new)
  BY <1>1 DEF ClustersSound, LocalsSound, NewHeld, Held
<1>5. FilesFull' /\ ChainToFree'
  <2>1. FilesFull'
    BY <1>1, <1>3, <1>4, BlockApart DEF OwnSound
  <2> QED
    BY <1>1, <1>2, <2>1 DEF Proceed, Return, ChainToFree
<1>6. CASE ~Writing'
  BY <1>5, <1>6, WriteOver DEF OwnSound
<1>7. CASE Writing'
  <2>1. pc' = op.ret /\ op' = op /\ op.ret \in {"first", "link"}
    BY <1>1, <1>2, <1>7 DEF Proceed, Return, Writing, Extending
  <2>2. Writing
    BY <1>1, <2>1 DEF Writing
  <2>3. FirstKept' /\ NoFirst' /\ SizeKnown' /\ CurEnds' /\ CurReached'
    BY <1>1, <2>1, <2>2
       DEF OwnSound, WriteLocals, FirstKept, NoFirst, SizeKnown, CurEnds, CurReached
  <2>4. TextWritten'
    <3> SUFFICES ASSUME NEW k \in Nat \ {0}, Reached(k)'
                 PROVE  HasText(fat', blocks', op.node.first, k, op.num)
      BY <2>1, Zenon DEF TextWritten
    <3>1. Reached(k)
      BY <1>1, <2>1 DEF Reached
    <3>2. HasText(fat, blocks, op.node.first, k, op.num)
      BY <2>2, <3>1 DEF OwnSound, WriteLocals, TextWritten
    <3>3. op.node.first # 0
      BY <2>2, <3>1, NothingReached DEF OwnSound, WriteLocals
    <3>4. InUse(op.node.first) /\ op.new # op.node.first
      BY <1>1, <2>2, <3>3, NodeHead DEF ClustersSound, LocalsSound, FileChain
    <3> QED
      BY <1>1, <1>3, <1>4, <3>2, <3>4, BlockAside DEF Unowned
  <2> QED
    BY <1>5, <2>3, <2>4 DEF OwnSound, WriteLocals
<1> QED
  BY <1>6, <1>7

\* The chain is extended where it ends.
LEMMA LinkOwn == ASSUME TypeInv, ClustersSound, OwnSound, LinkCluster PROVE OwnSound'
<1>1. pc = "link" /\ UNCHANGED <<inodes, blocks>> /\ Writing
  BY DEF LinkCluster, Writing, Extending
<1>2. /\ op \in Operation /\ op.num \in Inodes /\ TypeOK /\ Broken = 0 /\ op.pos \in Nat
      /\ LinksInUse
  BY <1>1, WriteKnown
<1>3. op.node.first # 0 /\ fat[op.cur] = FAT_EOF /\ op.cur \in Clusters
  BY <1>1, WriteKnown DEF OwnSound, WriteLocals, CurEnds, InUse
<1>4. PICK w \in Outcomes :
        /\ PutFat(w, op.cur, op.new)
        /\ Proceed(w, "seek", [op EXCEPT !.cur = op.new, !.pos = @ + 1])
  BY DEF LinkCluster
<1>5. \A d \in Clusters : fat'[d] = fat[d] \/ fat[d] = FAT_EOF
  BY <1>2, <1>3, <1>4 DEF PutFat, TypeOK, Chained
<1>6. ASSUME NEW f, InUse(f), NEW i, NEW k \in Nat \ {0}, HasText(fat, blocks, f, k, i)
      PROVE  HasText(fat', blocks', f, k, i)
  BY <1>1, <1>2, <1>5, <1>6, LinksAside
<1>7. FilesFull'
  BY <1>1, <1>2, <1>6, FilesStay, Sizes DEF OwnSound
<1>8. ChainToFree'
  BY <1>4 DEF Proceed, Return, ChainToFree
<1>9. CASE ~w.ok
  BY <1>4, <1>7, <1>8, <1>9, WriteOver DEF OwnSound, Proceed, Return, Writing, Extending
<1>10. CASE w.ok
  <2>1. /\ pc' = "seek" /\ op'.num = op.num /\ op'.node = op.node /\ op'.idx = op.idx
        /\ op'.off = op.off /\ op'.len = op.len
        /\ op'.cur = op.new /\ op'.pos = op.pos + 1
    BY <1>2, <1>4, <1>10 DEF Proceed, Operation
  <2>2. FirstKept' /\ NoFirst' /\ CurEnds' /\ SizeKnown'
    BY <1>1, <2>1 DEF OwnSound, WriteLocals, FirstKept, NoFirst, CurEnds, SizeKnown
  <2>3. CurReached'
    <3>1. PICK f, d : f = op.node.first /\ d = op.cur
      OBVIOUS
    <3>2. d = ChainAt(fat, f, op.pos) /\ d \in Clusters /\ InUse(f)
      BY <1>1, <1>3, <3>1, NodeHead DEF OwnSound, WriteLocals, CurReached
    <3>3. ChainAt(fat', f, op.pos) = d
      BY <1>2, <1>5, <3>2, ChainKept
    <3>4. fat'[d] = op.new
      BY <1>2, <1>3, <1>4, <1>10, <3>1, OutcomeType DEF PutFat, TypeOK, Chained
    <3>5. ChainAt(fat', f, op.pos + 1) = op.new
      BY <1>2, <3>2, <3>3, <3>4, ChainGoes, EofIsNoCluster DEF After
    <3> QED
      BY <1>3, <2>1, <3>1, <3>5 DEF CurReached
  <2>4. TextWritten'
    <3> SUFFICES ASSUME NEW k \in Nat \ {0}, Reached(k)'
                 PROVE  HasText(fat', blocks', op.node.first, k, op.num)
      BY <2>1, Zenon DEF TextWritten
    <3>1. Reached(k)
      BY <1>1, <2>1 DEF Reached
    <3>2. HasText(fat, blocks, op.node.first, k, op.num)
      BY <1>1, <3>1 DEF OwnSound, WriteLocals, TextWritten
    <3> QED
      BY <1>1, <1>3, <1>6, <3>2, NodeHead
  <2> QED
    BY <1>7, <1>8, <2>2, <2>3, <2>4 DEF OwnSound, WriteLocals
<1> QED
  BY <1>9, <1>10

\* The cells of cluster n of a chain.
LEMMA CellsOf ==
  ASSUME NEW n \in Nat, NEW k \in Nat \ {0},
         n * CellsPerBlock < k, k <= n * CellsPerBlock + CellsPerBlock
  PROVE  (k - 1) \div CellsPerBlock = n
<1>1. PICK q \in Nat, s \in Slots :
        q = (k - 1) \div CellsPerBlock /\ k = q * CellsPerBlock + s
  BY CellPlace
<1>2. s \in Nat /\ 1 <= s /\ s <= CellsPerBlock /\ CellsPerBlock \in Nat
  BY SizeAssumption DEF Slots
<1>3. ASSUME q < n PROVE FALSE
  <2>1. PICK r \in Nat : n = q + 1 + r
    BY <1>3, n = q + 1 + (n - q - 1), n - q - 1 \in Nat
  <2>2. n * CellsPerBlock = q * CellsPerBlock + CellsPerBlock + r * CellsPerBlock
    BY <1>2, <2>1
  <2>3. r * CellsPerBlock >= 0
    BY <1>2
  <2> QED
    BY <1>1, <1>2, <2>2, <2>3
<1>4. ASSUME n < q PROVE FALSE
  <2>1. PICK r \in Nat : q = n + 1 + r
    BY <1>4, q = n + 1 + (q - n - 1), q - n - 1 \in Nat
  <2>2. q * CellsPerBlock = n * CellsPerBlock + CellsPerBlock + r * CellsPerBlock
    BY <1>2, <2>1
  <2>3. r * CellsPerBlock >= 0
    BY <1>2
  <2> QED
    BY <1>1, <1>2, <2>2, <2>3
<1> QED
  BY <1>1, <1>3, <1>4

\* Cell s of the cluster with number op.idx, as write_file lays it out.
NewData ==
  [s \in Slots |-> IF /\ op.off < op.idx * CellsPerBlock + s
                      /\ op.idx * CellsPerBlock + s <= op.off + op.len
                   THEN Text(op.num) ELSE blocks[op.cur][s]]

\* However much of the block landed, text of this inode is all that is new in it.
LEMMA DataLands ==
  ASSUME TypeOK, op.cur \in Chained, NEW w \in Outcomes, PutBlock(w, op.cur, NewData)
  PROVE  /\ \A c \in Chained \ {op.cur} : blocks'[c] = blocks[c]
         /\ \A s \in Slots : blocks'[op.cur][s] \in {Text(op.num), blocks[op.cur][s]}
         /\ w.ok => blocks'[op.cur] = NewData
<1>1. PICK content \in Landed(w, blocks[op.cur], NewData) :
        blocks' = [blocks EXCEPT ![op.cur] = content]
  BY DEF PutBlock
<1>2. blocks'[op.cur] = content /\ \A c \in Chained \ {op.cur} : blocks'[c] = blocks[c]
  BY <1>1 DEF TypeOK
<1>3. \A s \in Slots : NewData[s] \in {Text(op.num), blocks[op.cur][s]}
  BY DEF NewData
<1>4. \A s \in Slots : content[s] \in {NewData[s], blocks[op.cur][s]}
  BY <1>1 DEF Landed
<1>5. w.ok => content = NewData
  BY <1>1 DEF Landed
<1> QED
  BY <1>2, <1>3, <1>4, <1>5

LEMMA WriteDataOwn ==
  ASSUME TypeInv, ClustersSound, TreeSound, OwnSound, WriteData PROVE OwnSound'
<1>1. pc = "data" /\ UNCHANGED <<fat, inodes>> /\ Writing /\ op.node.first # 0
  BY DEF WriteData, Writing, Extending, TreeSound, TreeLocals, FileKept
<1>2. /\ op \in Operation /\ op.num \in Inodes /\ op.node \in Inode /\ TypeOK /\ Broken = 0
      /\ op.cur \in Chained /\ op.cur \in Clusters /\ op.idx \in Nat /\ op.off \in Nat
      /\ op.len \in Nat /\ op.node.size \in Nat /\ LinksInUse /\ LinksApart
  BY <1>1, WriteKnown DEF InUse, Inode
<1>3. PICK w \in Outcomes :
        /\ PutBlock(w, op.cur, NewData)
        /\ IF op.idx = LastIdx THEN Proceed(w, "size", op)
           ELSE Proceed(w, "seek", [op EXCEPT !.idx = @ + 1, !.pos = 0,
                                              !.cur = op.node.first])
  BY DEF WriteData, NewData
<1>4. /\ \A c \in Chained \ {op.cur} : blocks'[c] = blocks[c]
      /\ \A s \in Slots : blocks'[op.cur][s] \in {Text(op.num), blocks[op.cur][s]}
      /\ w.ok => blocks'[op.cur] = NewData
  BY <1>2, <1>3, DataLands
<1>5. PICK f, num : f = op.node.first /\ num = op.num
  OBVIOUS
<1>6. op.cur = ChainAt(fat, f, op.idx) /\ InUse(f) /\ \A e \in Clusters : fat[e] # f
  BY <1>1, <1>5, NodeHead DEF OwnSound, WriteLocals, CurReached
<1>7. ASSUME NEW g, NEW k \in Nat \ {0}, HasText(fat, blocks, g, k, num)
      PROVE  HasText(fat', blocks', g, k, num)
  <2>1. ASSUME NEW c \in Clusters, NEW s \in Slots, blocks[c][s] = Text(num)
        PROVE  blocks'[c][s] = Text(num)
    BY <1>4, <1>5, <2>1 DEF Chained
  <2> QED
    BY <1>1, <1>7, <2>1, TextKept
<1>8. ASSUME NEW i \in Inodes, i # num, InUse(inodes[i].first),
             NEW k \in Nat \ {0}, HasText(fat, blocks, inodes[i].first, k, i)
      PROVE  HasText(fat', blocks', inodes[i].first, k, i)
  <2>1. PICK g : g = inodes[i].first
    OBVIOUS
  <2>2. g # f /\ InUse(g) /\ \A e \in Clusters : fat[e] # g
    BY <1>1, <1>5, <1>8, <2>1, NodeHead
       DEF InUse, ClustersSound, OwnedOnce, HeadsAreNoLinks
  <2>3. \A p \in Nat : ChainAt(fat, g, p) # op.cur
    BY <1>2, <1>6, <2>2, ChainsApart
  <2>4. ASSUME NEW p \in Nat, ChainAt(fat, g, p) \in Clusters
        PROVE  blocks'[ChainAt(fat, g, p)] = blocks[ChainAt(fat, g, p)]
    BY <1>4, <2>3, <2>4 DEF Chained
  <2> QED
    BY <1>1, <1>8, <2>1, <2>4, TextKept
<1>9. FilesFull'
  <2>1. \A i \in Inodes : i # Broken
    BY <1>2, Sizes
  <2>2. \A i \in Inodes : InUse(inodes[i].first) =>
          \A k \in Nat \ {0} : HasText(fat, blocks, inodes[i].first, k, i) =>
                                 HasText(fat', blocks', inodes[i].first, k, i)
    BY <1>7, <1>8
  <2> QED
    BY <1>1, <2>1, <2>2, FilesStay DEF OwnSound
<1>10. ChainToFree'
  BY <1>3 DEF Proceed, Return, ChainToFree
<1>11. CASE ~w.ok
  BY <1>3, <1>9, <1>10, <1>11, WriteOver
     DEF OwnSound, Proceed, Return, Writing, Extending
<1>12. CASE w.ok
  <2>1. /\ op'.num = op.num /\ op'.node = op.node /\ op'.off = op.off /\ op'.len = op.len
        /\ \/ pc' = "size" /\ op'.cur = op.cur /\ op'.pos = op.pos /\ op.idx = LastIdx
           \/ /\ pc' = "seek" /\ op'.cur = op.node.first /\ op'.pos = 0
              /\ op'.idx = op.idx + 1
    BY <1>2, <1>3, <1>12 DEF Proceed, Operation
  <2>2. FirstKept' /\ NoFirst' /\ CurEnds' /\ SizeKnown'
    BY <1>1, <2>1 DEF OwnSound, WriteLocals, FirstKept, NoFirst, CurEnds, SizeKnown
  <2>3. CurReached'
    <3>1. op.pos = op.idx /\ ChainAt(fat, f, 0) = f
      BY <1>1, <1>2, <1>6, ChainBack DEF OwnSound, WriteLocals, CurReached
    <3> QED
      BY <1>1, <1>5, <1>6, <2>1, <3>1 DEF CurReached
  <2>4. TextWritten'
    <3> SUFFICES ASSUME NEW k \in Nat \ {0}, Reached(k)'
                 PROVE  HasText(fat', blocks', f, k, num)
      BY <1>5, <2>1, Zenon DEF TextWritten
    <3>1. CASE Reached(k)
      <4>1. HasText(fat, blocks, f, k, num)
        BY <1>1, <1>5, <3>1 DEF OwnSound, WriteLocals, TextWritten
      <4> QED
        BY <1>7, <4>1
    <3>2. CASE ~Reached(k)
      <4>1. CellsPerBlock \in Nat
        BY SizeAssumption
      <4>2. op.off < k /\ op.idx * CellsPerBlock < k /\ k <= op.off + op.len
        <5>1. op.off <= op.node.size
          BY <1>1 DEF OwnSound, WriteLocals, SizeKnown
        <5>2. ~(k <= op.node.size) /\ k <= op.off + op.len
          BY <2>1, <3>2 DEF Reached
        <5>3. op.idx * CellsPerBlock \in Nat
          BY <1>2, <4>1
        <5>4. ~(k <= op.idx * CellsPerBlock)
          BY <3>2, <5>2 DEF Reached
        <5> QED
          BY <1>2, <5>1, <5>2, <5>3, <5>4
      <4>3. k <= op.idx * CellsPerBlock + CellsPerBlock
        <5>1. CASE pc' = "size"
          <6>1. PICK n \in Nat \ {0} : n = op.off + op.len
            BY <1>2, <4>2
          <6>2. op.idx = (n - 1) \div CellsPerBlock
            <7>1. op.idx = LastIdx
              BY <2>1, <5>1
            <7>2. LastIdx = (op.off + op.len - 1) \div CellsPerBlock
              BY Zenon DEF LastIdx
            <7>3. n - 1 = op.off + op.len - 1
              BY <1>2, <6>1
            <7> QED
              BY <7>1, <7>2, <7>3, Zenon
          <6>3. n <= op.idx * CellsPerBlock + CellsPerBlock
            BY <1>2, <4>1, <6>2, CellPlace DEF Slots
          <6> QED
            BY <1>2, <4>1, <4>2, <6>1, <6>3
        <5>2. CASE pc' = "seek"
          <6>1. k <= (op.idx + 1) * CellsPerBlock
            BY <2>1, <3>2, <5>2 DEF Reached
          <6>2. (op.idx + 1) * CellsPerBlock = op.idx * CellsPerBlock + CellsPerBlock
            BY <1>2, <4>1
          <6> QED
            BY <6>1, <6>2
        <5> QED
          BY <2>1, <5>1, <5>2
      <4>4. PICK s \in Slots : /\ s = ((k - 1) % CellsPerBlock) + 1
                               /\ k = op.idx * CellsPerBlock + s
        BY <1>2, <4>2, <4>3, CellsOf, CellPlace
      <4>5. blocks'[op.cur][s] = Text(num)
        BY <1>4, <1>5, <1>12, <4>2, <4>4 DEF NewData
      <4> QED
        BY <1>1, <1>2, <1>6, <4>2, <4>3, <4>4, <4>5, CellsOf DEF HasText
    <3> QED
      BY <3>1, <3>2
  <2> QED
    BY <1>9, <1>10, <2>2, <2>3, <2>4 DEF OwnSound, WriteLocals
<1> QED
  BY <1>11, <1>12

\* The inode is written back: what was reached is the file.
LEMMA WriteSizeOwn ==
  ASSUME TypeInv, ClustersSound, OwnSound, WriteSize PROVE OwnSound'
<1> DEFINE end == op.off + op.len
           node == [op.node EXCEPT !.size = IF end > @ THEN end ELSE @]
<1>1. pc = "size" /\ UNCHANGED <<fat, blocks>> /\ Writing
  BY DEF WriteSize, Writing, Extending
<1>2. /\ op.num \in Inodes /\ op.node \in Inode /\ TypeOK /\ Broken = 0
      /\ op.off \in Nat /\ op.len \in Nat
  BY <1>1, WriteKnown
<1>3. ~Writing' /\ ChainToFree'
  BY DEF WriteSize, Return, Writing, Extending, ChainToFree
<1>4. PICK w \in Outcomes : PutInode(w, op.num, node)
  BY DEF WriteSize
<1>5. /\ node.first = op.node.first
      /\ node.size = IF end > op.node.size THEN end ELSE op.node.size
  BY <1>2 DEF Inode
<1> HIDE DEF node, end
<1>6. \A i \in Inodes : inodes'[i] = inodes[i] \/ (i = op.num /\ inodes'[i] = node)
  BY <1>2, <1>4 DEF PutInode, TypeOK
<1>7. FilesFull'
  <2> SUFFICES ASSUME NEW i \in Inodes, inodes'[i].type = FileType,
                      NEW k \in Nat \ {0}, k <= inodes'[i].size
               PROVE  HasText(fat, blocks, inodes'[i].first, k, i)
    BY <1>1 DEF FilesFull
  <2>1. CASE inodes'[i] = inodes[i]
    <3>1. i # Broken
      BY <1>2, Sizes
    <3> QED
      BY <2>1, <3>1 DEF OwnSound, FilesFull
  <2>2. CASE i = op.num /\ inodes'[i] = node
    <3>1. k <= op.node.size \/ k <= op.off + op.len
      BY <1>5, <2>2 DEF end
    <3>2. Reached(k)
      BY <1>1, <3>1 DEF Reached
    <3> QED
      BY <1>1, <1>5, <2>2, <3>2 DEF OwnSound, WriteLocals, TextWritten
  <2> QED
    BY <1>6, <2>1, <2>2
<1> QED
  BY <1>3, <1>7, WriteOver DEF OwnSound

-----------------------------------------------------------------------------
(* The invariant holds. *)

LEMMA InitOwn == Init => OwnInv
<1> SUFFICES ASSUME Init PROVE OwnSound
  BY DEF OwnInv
<1>1. \A i \in Inodes : inodes[i].type # FileType
  BY DEF Init, ZeroInode, FreeType, FileType
<1>2. FilesFull
  BY <1>1 DEF FilesFull
<1>3. pc = "mount" /\ ~Writing /\ ChainToFree
  BY DEF Init, Writing, Extending, ChainToFree
<1> QED
  BY <1>2, <1>3 DEF OwnSound, WriteLocals, FirstKept, NoFirst, CurEnds, SizeKnown,
     CurReached, TextWritten, Writing

LEMMA StutterOwn == ASSUME OwnSound, UNCHANGED vars PROVE OwnSound'
<1>1. UNCHANGED <<fat, inodes, blocks, pc, op>>
  BY DEF vars, disk, memory
<1>2. FilesFull' /\ ChainToFree'
  BY <1>1, SameDisk DEF OwnSound, Broken, ChainToFree
<1>3. FirstKept' /\ NoFirst' /\ CurEnds' /\ SizeKnown' /\ CurReached'
  BY <1>1 DEF OwnSound, WriteLocals, FirstKept, NoFirst, CurEnds, SizeKnown, CurReached,
     Writing
<1>4. TextWritten'
  <2> SUFFICES ASSUME NEW k \in Nat \ {0}, Writing', Reached(k)'
               PROVE  HasText(fat, blocks, op.node.first, k, op.num)
    BY <1>1, Zenon DEF TextWritten
  <2>1. Writing /\ Reached(k)
    BY <1>1 DEF Writing, Reached
  <2> QED
    BY <2>1 DEF OwnSound, WriteLocals, TextWritten
<1> QED
  BY <1>2, <1>3, <1>4 DEF OwnSound, WriteLocals

\* One case per action.
LEMMA NextOwn == ASSUME TypeInv, ClusterInv, TreeInv, OwnInv, [Next]_vars PROVE OwnInv'
<1> SUFFICES ASSUME Sound' PROVE OwnSound'
  BY DEF OwnInv
<1>1. CASE FormatRoot
  BY <1>1, FormatRootOwn DEF ClusterInv
<1>2. CASE ~FormatRoot
  <2>1. ClustersSound /\ TreeSound /\ OwnSound /\ ~Formatting
    BY <1>2, HarmGrows DEF ClusterInv, TreeInv, OwnInv, Sound
  <2>2. CASE Boot
    <3>1. ~FormatFat /\ ~FormatInodes /\ ~FormatReserved
      BY <2>1 DEF FormatFat, FormatInodes, FormatReserved, Formatting
    <3> QED
      BY <1>2, <2>1, <2>2, <3>1, MountOwn, FormatSuperblockOwn, EnsureOwn DEF Boot
  <2>3. CASE Continue
    BY <2>1, <2>3, AllocOwn, ZeroOwn, MarkOwn, WriteDotsOwn, WriteDotsInodeOwn, AddEntryOwn,
       WriteEntryOwn, WriteDirInodeOwn, ChainOwn, FreeInodeOwn, RemoveEntryOwn, SeekOwn,
       SetFirstOwn, LinkOwn, WriteDataOwn, WriteSizeOwn DEF Continue
  <2>4. CASE Command
    <3>1. \A p, n, k : ~CreateUnseen(p, n, k)
      BY DEF CreateUnseen, Sound
    <3> QED
      BY <2>1, <2>4, <3>1, CommandKinds, CreateOwn, RemovePathOwn, WriteFileOwn
  <2>5. CASE PowerLoss
    BY <2>1, <2>5, PowerLossOwn
  <2>6. CASE UNCHANGED vars
    BY <2>1, <2>6, StutterOwn
  <2> QED
    BY <2>2, <2>3, <2>4, <2>5, <2>6 DEF Next
<1> QED
  BY <1>1, <1>2

\* The inductive invariant holds in every reachable state.
THEOREM OwnInvariant == Spec => [](TypeInv /\ ClusterInv /\ TreeInv /\ OwnInv)
<1>1. TypeInv /\ ClusterInv /\ TreeInv /\ OwnInv /\ [Next]_vars => OwnInv'
  BY NextOwn
<1> QED
  BY <1>1, InitOwn, TreeInvariant, PTL DEF Spec

-----------------------------------------------------------------------------
(* What read_file returns. *)

\* The cluster with number k of a file.
LEMMA ClusterIs == ASSUME NEW i, NEW k PROVE ClusterAt(i, k) = ChainAt(fat, inodes[i].first, k)
  BY Zenon DEF ClusterAt, ChainAt

\* A number that is in a set and bounds it is its maximum.
LEMMA MaxIs ==
  ASSUME NEW S, S \subseteq Nat, NEW m \in S, \A x \in S : x <= m
  PROVE  Max(S) = m
<1>1. \E x \in S : \A y \in S : x >= y
  <2>1. \A y \in S : m >= y
    OBVIOUS
  <2> QED
    BY <2>1
<1>2. Max(S) \in S /\ \A y \in S : Max(S) >= y
  BY <1>1 DEF Max
<1>3. Max(S) \in Nat /\ m \in Nat /\ Max(S) <= m /\ Max(S) >= m
  BY <1>2
<1> QED
  BY <1>3

LEMMA FileReads ==
  ASSUME TypeInv, FilesFull, NEW i \in Inodes \ {Broken}, inodes[i].type = FileType
  PROVE  Contents(i) = [k \in 1..inodes[i].size |-> Text(i)]
<1> DEFINE size == inodes[i].size
           Chunk(k) == ClusterAt(i, k \div CellsPerBlock)
           Have == {k \in 0..size : \A j \in 0..(k - 1) : Chunk(j) # FAT_EOF}
<1>1. size \in Nat
  BY DEF TypeInv, TypeOK, Inode
<1>2. ASSUME NEW k \in 1..size
      PROVE  /\ Chunk(k - 1) \in Clusters
             /\ blocks[Chunk(k - 1)][((k - 1) % CellsPerBlock) + 1] = Text(i)
  <2>1. k \in Nat \ {0} /\ k <= size
    BY <1>1
  <2>2. HasText(fat, blocks, inodes[i].first, k, i)
    BY <2>1 DEF FilesFull
  <2> QED
    BY <2>2, ClusterIs DEF HasText
<1>3. Max(Have) = size
  <2>1. Have \subseteq Nat /\ \A x \in Have : x <= size
    BY <1>1
  <2>2. ASSUME NEW j \in 0..(size - 1) PROVE Chunk(j) # FAT_EOF
    <3>1. j + 1 \in 1..size /\ (j + 1) - 1 = j
      BY <1>1
    <3>2. Chunk((j + 1) - 1) \in Clusters
      BY <1>2, <3>1
    <3>3. Chunk(j) \in Clusters
      BY <3>1, <3>2
    <3> QED
      BY <3>3, EofIsNoCluster
  <2>3. size \in Have
    BY <1>1, <2>2
  <2> HIDE DEF Have, size
  <2> QED
    BY <2>1, <2>3, MaxIs
<1>4. Contents(i) =
        [k \in 1..Max(Have) |-> blocks[Chunk(k - 1)][((k - 1) % CellsPerBlock) + 1]]
  BY Zenon DEF Contents
<1> HIDE DEF Chunk, Have
<1> QED
  BY <1>2, <1>3, <1>4

ReadsOwn == TypeInv /\ OwnInv => OwnContents

LEMMA OwnReads == ReadsOwn
<1> SUFFICES ASSUME TypeInv, FilesFull, NEW i \in Inodes \ {Removing},
                    inodes[i].type = FileType
             PROVE  Contents(i) = [k \in 1..inodes[i].size |-> Text(i)]
  BY DEF ReadsOwn, OwnInv, OwnSound, OwnContents
<1>1. i # Broken
  BY Sizes DEF Broken, Removing
<1> QED
  BY <1>1, FileReads

LEMMA OwnReadsNext == ReadsOwn'
  BY OwnReads, PTL

\* read_file returns the whole of a file, and in every cell text that was written
\* through its inode: whatever write_file, remove_path and create_* do to others,
\* and wherever they fail or lose power, for disks and blocks of every size.
THEOREM FilesKeepContents == Spec => []OwnContents
  BY OwnReads, OwnInvariant, PTL DEF ReadsOwn

\* A step that changes the disk writes no inode of a file but the one it is about.
LEMMA OthersKept ==
  ASSUME TypeInv, TreeInv, Sound, Sound', [Next]_vars, disk' # disk,
         NEW i \in Inodes, inodes[i].type = FileType, i # op.num, i # op'.num
  PROVE  inodes'[i] = inodes[i]
<1>1. \A j, node, w : PutInode(w, j, node) /\ j # i => inodes'[i] = inodes[i]
  BY DEF PutInode, TypeInv, TypeOK
<1>2. ASSUME NEW d, NEW n, NEW k, FreeInodes # {}, TakeInode(d, n, k)
      PROVE  inodes'[i] = inodes[i]
  <2>1. Min(FreeInodes) # i
    BY <1>2, FirstFree DEF FreeInodes, FreeType, FileType
  <2> QED
    BY <1>1, <1>2, <2>1 DEF TakeInode
<1>3. ~Formatting /\ TreeSound
  BY DEF Sound, TreeInv
<1>4. CASE Boot
  <2>1. CASE EnsureDir
    BY <1>2, <2>1 DEF EnsureDir, CanCreate
  <2> QED
    BY <1>3, <1>4, <2>1
       DEF Boot, Mount, FormatSuperblock, FormatFat, FormatInodes, FormatReserved, FormatRoot,
           Remount, Formatting, disk
<1>5. CASE Continue
  <2>1. CASE WriteDirInode
    <3>1. op.dir # i
      BY <1>3, <2>1 DEF WriteDirInode, TreeSound, TreeLocals, EntryWritten, DirType, FileType
    <3> QED
      BY <1>1, <2>1, <3>1 DEF WriteDirInode
  <2>2. CASE MarkInode \/ WriteDotsInode \/ FreeInode \/ WriteSize
    BY <1>1, <2>2 DEF MarkInode, WriteDotsInode, FreeInode, WriteSize
  <2>3. CASE ~(WriteDirInode \/ MarkInode \/ WriteDotsInode \/ FreeInode \/ WriteSize)
    BY <1>5, <2>3
       DEF Continue, AllocCluster, ZeroCluster, WriteDots, AddEntryStart, WriteEntry,
           FreeCluster, RemoveEntry, Seek, SetFirst, LinkCluster, WriteData, disk
  <2> QED
    BY <2>1, <2>2, <2>3
<1>6. CASE Command
  <2>1. \A p, n, k : ~CreateUnseen(p, n, k)
    BY DEF CreateUnseen, Sound
  <2>2. PICK p : \/ \E n \in Names, k \in {FileType, DirType} : Create(p, n, k)
                 \/ \E n \in Names : RemovePath(p, n)
                 \/ \E append \in BOOLEAN, len \in Lengths : WriteFile(p, append, len)
    BY <1>6, <2>1, CommandKinds
  <2>3. ASSUME NEW n, NEW k, Create(p, n, k) PROVE inodes'[i] = inodes[i]
    BY <1>2, <2>3 DEF Create, CanCreate
  <2> QED
    BY <2>2, <2>3 DEF RemovePath, WriteFile, disk
<1>7. CASE PowerLoss
  BY <1>7 DEF PowerLoss, disk
<1> QED
  BY <1>4, <1>5, <1>6, <1>7 DEF Next, vars

\* A step of an operation on one file leaves every other as it was, its inode and
\* all that read_file returns of it: no two files share a cluster, a cluster taken
\* from the allocator is on no file's chain, and an entry is added where no file is.
THEOREM OtherFilesStay == Spec => OthersUntouched
<1>1. TypeInv /\ TreeInv /\ OwnInv /\ (TypeInv /\ OwnInv)' /\ [Next]_vars =>
        [Sound /\ Sound' /\ disk' # disk =>
           \A i \in Inodes : inodes[i].type = FileType /\ i \notin {op.num, op'.num} =>
                               inodes'[i] = inodes[i] /\ Contents(i)' = Contents(i)]_vars
  <2> SUFFICES ASSUME TypeInv, TreeInv, OwnInv, (TypeInv /\ OwnInv)', [Next]_vars,
                      Sound, Sound', disk' # disk, NEW i \in Inodes,
                      inodes[i].type = FileType, i # op.num, i # op'.num
               PROVE  inodes'[i] = inodes[i] /\ Contents(i)' = Contents(i)
    OBVIOUS
  <2>1. inodes'[i] = inodes[i]
    BY OthersKept
  <2>2. OwnContents /\ OwnContents'
    BY OwnReads, OwnReadsNext DEF ReadsOwn
  <2>3. i # Removing /\ i # Removing'
    BY Sizes DEF Removing
  <2>4. Contents(i) = [k \in 1..inodes[i].size |-> Text(i)]
    BY <2>2, <2>3 DEF OwnContents
  <2>5. Contents(i)' = [k \in 1..inodes'[i].size |-> Text(i)]
    BY <2>1, <2>2, <2>3 DEF OwnContents, Text
  <2> QED
    BY <2>1, <2>4, <2>5
<1> QED
  BY <1>1, OwnInvariant, PTL DEF Spec, OthersUntouched
=============================================================================
