-------------------------------- MODULE FFS --------------------------------
(***************************************************************************)
(* The "fourty" file system, src/fourty/ffs.cpp: FAT, inode table and      *)
(* directory blocks on a disk, and the operations the shell calls.         *)
(*                                                                         *)
(* One step is one block write (with the reads that lead to it).  The      *)
(* kernel runs one operation at a time, so what can come between two       *)
(* writes is a failed transfer, which the code handles, or a loss of       *)
(* power, after which the next boot finds the disk as it was left.         *)
(***************************************************************************)
EXTENDS Naturals, Sequences, FiniteSets, FiniteSetsExt, SequencesExt

CONSTANTS
  InodeCount,      \* g_sb.inode_count
  DataStart,       \* FFS_DATA_START: the first block that holds data
  TotalBlocks,     \* g_sb.total_blocks
  CellsPerBlock,   \* FFS_DIRENTRIES_PER_BLOCK; a cell is 64 bytes of a block
  CellsPerSector,  \* cells in the unit the disk writes at once
  Names,           \* the path components users type
  MaxDepth,        \* bound: components in the path of a new file
  Layout,          \* the paths of ensure_default_layout, in its order
  Lengths,         \* lengths of the texts users write, in cells
  MaxFileCells,    \* bound on the size of a file, in cells
  MaxFaults,       \* bound on the failed disk transfers
  MaxCrashes       \* bound on the losses of power

Root == 1
FAT_FREE == 0
FAT_EOF == TotalBlocks       \* 2^64-1 in the code: no block has this number
FreeType == 0
FileType == 1
DirType == 2
TextType == 3                \* a cell of file text, not an entry

Inodes == 1..InodeCount
Clusters == DataStart..(TotalBlocks - 1)
Chained == Clusters \cup {0} \* block 0 stands for all that is not data
Slots == 1..CellsPerBlock

ASSUME SizeAssumption ==
  /\ InodeCount \in Nat \ {0}
  /\ DataStart \in Nat \ {0} /\ TotalBlocks \in Nat /\ DataStart < TotalBlocks
  /\ CellsPerBlock \in Nat /\ CellsPerSector \in Nat
  /\ 2 <= CellsPerSector /\ CellsPerSector <= CellsPerBlock

ASSUME BoundAssumption ==
  /\ MaxDepth \in Nat \ {0} /\ MaxFileCells \in Nat
  /\ MaxFaults \in Nat /\ MaxCrashes \in Nat
  /\ Lengths \subseteq Nat \ {0}

ASSUME NameAssumption ==
  /\ Names \cap {"", ".", "..", "FF42", "text"} = {}
  /\ Layout \in Seq(Seq(Names) \ {<<>>})

Labels == Names \cup {"", ".", "..", "FF42", "text"}
Cell == [inode : Nat, type : 0..3, name : Labels]
Inode == [type : 0..2, size : Nat, first : Chained]

ZeroCell == [inode |-> 0, type |-> 0, name |-> ""]
Magic == [inode |-> 0, type |-> 0, name |-> "FF42"]   \* the superblock
ZeroBlock == [s \in Slots |-> ZeroCell]
ZeroInode == [type |-> FreeType, size |-> 0, first |-> 0]

NoOp == [kind |-> 0, dir |-> 0, name |-> "", num |-> 0, node |-> ZeroInode,
         cur |-> 0, new |-> 0, idx |-> 0, pos |-> 0, off |-> 0, len |-> 0,
         ret |-> "idle"]

Steps ==
  {"idle", "mount", "fmt_sb", "fmt_fat", "fmt_inodes", "fmt_reserved", "fmt_root",
   "remount", "alloc", "zero", "mark", "dots", "dots_inode", "add", "entry",
   "dir_inode", "rm_free", "rm_inode", "rm_entry", "seek", "first", "link", "data",
   "size"}

Operation ==
  [kind : 0..2, dir : Inodes \cup {0}, name : Labels, num : Inodes \cup {0},
   node : Inode, cur : Chained \cup {FAT_EOF}, new : Chained, idx : Nat, pos : Nat,
   off : Nat, len : Nat, ret : {"idle", "dots", "entry", "first", "link"}]

VARIABLES
  fat,      \* disk: the file allocation table
  inodes,   \* disk: the inode table
  blocks,   \* disk: the superblock and the data blocks, cell by cell
  mounted,  \* g_mounted
  todo,     \* the paths ensure_default_layout has still to ensure
  pc,       \* the write the running operation does next; "idle" at the prompt
  op,       \* its arguments and locals
  faults, crashes,
  harm      \* history: what was given up or cut off half done, by its kind

disk == <<fat, inodes, blocks>>
memory == <<mounted, todo, pc, op>>
history == <<faults, crashes, harm>>
vars == <<disk, memory, history>>

-----------------------------------------------------------------------------
(* Reading the disk. *)

\* Slip: only directories have clusters to give back.
HasDirBlock(i) == inodes[i].first \notin {0, FAT_EOF} /\ inodes[i].type = DirType

HasBlock(i) == inodes[i].first \notin {0, FAT_EOF}

IsDir(i) == i \in Inodes /\ inodes[i].type = DirType /\ HasBlock(i)

Used(cell) == cell.inode # 0 /\ cell.name # ""

EntrySlots(d, n) ==
  {s \in Slots : LET e == blocks[inodes[d].first][s] IN Used(e) /\ e.name = n}

Find(d, n) ==
  IF IsDir(d) /\ EntrySlots(d, n) # {}
  THEN blocks[inodes[d].first][Min(EntrySlots(d, n))]
  ELSE ZeroCell

Walk(path) ==
  LET at[k \in 0..Len(path)] ==
        IF k = 0 THEN Root
        ELSE IF at[k - 1] = 0 THEN 0 ELSE Find(at[k - 1], path[k]).inode
  IN  at[Len(path)]

\* The slots dir_add_entry may take.
FreeSlots(b) == {s \in Slots : ~Used(blocks[b][s])}

\* Slip: a directory of files passes for empty.
HoldsNoDirectory(d) ==
  /\ IsDir(d)
  /\ \A s \in Slots : LET e == blocks[inodes[d].first][s]
                      IN  e.type = DirType => e.name \in {".", ".."}

IsEmptyExceptDots(d) ==
  /\ IsDir(d)
  /\ \A s \in Slots : LET e == blocks[inodes[d].first][s]
                      IN  Used(e) => e.name \in {".", ".."}

\* Slips: everything that is no directory, or no end of a chain, is free.
NonDirInodes == {i \in Inodes : inodes[i].type # DirType}
UnendedClusters == {c \in Clusters : fat[c] # FAT_EOF}

FreeInodes == {i \in Inodes : inodes[i].type = FreeType}
FreeClusters == {c \in Clusters : fat[c] = FAT_FREE}

\* The cluster get_cluster_for_index finds, FAT_EOF when the chain is shorter.
ClusterAt(i, k) ==
  LET at[j \in 0..k] ==
        IF j = 0 THEN (IF inodes[i].first = 0 THEN FAT_EOF ELSE inodes[i].first)
        ELSE IF at[j - 1] = FAT_EOF THEN FAT_EOF ELSE fat[at[j - 1]]
  IN  at[k]

\* What read_file returns for the whole file, cut short where the chain ends.
Contents(i) ==
  LET Chunk(k) == ClusterAt(i, k \div CellsPerBlock)
      Have == {k \in 0..inodes[i].size : \A j \in 0..(k - 1) : Chunk(j) # FAT_EOF}
  IN  [k \in 1..Max(Have) |-> blocks[Chunk(k - 1)][((k - 1) % CellsPerBlock) + 1]]

-----------------------------------------------------------------------------
(* Writing it.  An outcome w of a block write: w.ok is what bd_write_block *)
(* returns, w.hit whether the sector that changes reached the disk.  One   *)
(* entry of the FAT, the inode table or a directory lies in one sector; a  *)
(* write of many cells can stop after any sector.                          *)

Outcomes ==
  {[ok |-> TRUE, hit |-> TRUE]} \cup
  (IF faults < MaxFaults THEN [ok : {FALSE}, hit : BOOLEAN] ELSE {})

Landed(w, old, new) ==
  IF w.ok THEN {new}
  ELSE {[s \in Slots |-> IF s <= k * CellsPerSector THEN new[s] ELSE old[s]]
          : k \in 0..CellsPerBlock}

Count(w) == faults' = IF w.ok THEN faults ELSE faults + 1

PutInode(w, i, node) ==
  inodes' = IF w.hit THEN [inodes EXCEPT ![i] = node] ELSE inodes

PutFat(w, c, value) ==
  fat' = IF w.hit THEN [fat EXCEPT ![c] = value] ELSE fat

PutCell(w, b, s, cell) ==
  blocks' = IF w.hit THEN [blocks EXCEPT ![b][s] = cell] ELSE blocks

PutBlock(w, b, new) ==
  \E content \in Landed(w, blocks[b], new) : blocks' = [blocks EXCEPT ![b] = content]

Return == pc' = "idle" /\ op' = NoOp

\* Slip: the result of the write is not looked at.
ProceedAnyway(w, next, locals) == pc' = next /\ op' = locals

\* Go on with `next` and its locals when the write succeeded, else give up.
Proceed(w, next, locals) ==
  IF w.ok THEN pc' = next /\ op' = locals ELSE Return

Fresh(ret) == [op EXCEPT !.ret = ret, !.new = 0]  \* call alloc_cluster

\* What giving up, or losing power, leaves half done on the disk.
Formatting == pc \in {"fmt_fat", "fmt_inodes", "fmt_reserved", "fmt_root"}
Exposed ==
  (IF Formatting THEN {"format"} ELSE {}) \cup
  (IF \/ pc = "rm_entry"
      \/ pc = "rm_inode" /\ inodes[op.num].first # 0
      \/ pc = "rm_free" /\ inodes[op.num].first # op.cur
   THEN {"remove"} ELSE {})

Keep == harm' = harm

-----------------------------------------------------------------------------
(* alloc_cluster, called with op.ret the place to return to. *)

AllocCluster ==
  /\ pc = "alloc"
  /\ IF FreeClusters = {}
     THEN Return /\ UNCHANGED <<fat, faults>> /\ harm' = harm \cup {"refused"}
     ELSE \E w \in Outcomes :
            /\ PutFat(w, Min(FreeClusters), FAT_EOF) /\ Count(w)
            /\ Proceed(w, "zero", [op EXCEPT !.new = Min(FreeClusters)])
            /\ Keep
  /\ UNCHANGED <<inodes, blocks, mounted, todo, crashes>>

ZeroCluster ==
  /\ pc = "zero"
  /\ \E w \in Outcomes : /\ PutBlock(w, op.new, ZeroBlock) /\ Count(w)
                         /\ Proceed(w, op.ret, op)
  /\ Keep
  /\ UNCHANGED <<fat, inodes, mounted, todo, crashes>>

-----------------------------------------------------------------------------
(* Boot: init() mounts, or formats and mounts, then ensures the layout. *)

\* Slip: the magic number is not checked.
MountUnchecked ==
  /\ pc = "mount" /\ mounted' = TRUE /\ todo' = Layout /\ pc' = "idle"
  /\ UNCHANGED <<disk, op, history>>

Mount ==
  /\ pc = "mount"
  /\ \/ /\ blocks[0][1] = Magic
        /\ mounted' = TRUE /\ todo' = Layout /\ pc' = "idle"
        /\ UNCHANGED <<faults, harm>>
     \/ /\ blocks[0][1] # Magic
        /\ pc' = "fmt_sb" /\ UNCHANGED <<mounted, todo, faults, harm>>
     \/ /\ faults < MaxFaults        \* the superblock cannot be read
        /\ faults' = faults + 1 /\ pc' = "fmt_sb" /\ UNCHANGED <<mounted, todo, harm>>
  /\ UNCHANGED <<disk, op, crashes>>

FormatSuperblock ==
  /\ pc = "fmt_sb"
  /\ \E w \in Outcomes :
       /\ PutCell(w, 0, 1, Magic) /\ Count(w) /\ Proceed(w, "fmt_fat", op)
       /\ harm' = IF ~w.ok /\ w.hit /\ blocks[0][1] # Magic
                  THEN harm \cup {"format"} ELSE harm
  /\ UNCHANGED <<fat, inodes, mounted, todo, crashes>>

FormatFat ==
  /\ pc = "fmt_fat"
  /\ \E w \in Outcomes :
       /\ fat' = IF w.hit THEN [c \in Chained |-> FAT_FREE] ELSE fat
       /\ Count(w) /\ Proceed(w, "fmt_inodes", op)
       /\ harm' = IF w.ok THEN harm ELSE harm \cup Exposed
  /\ UNCHANGED <<inodes, blocks, mounted, todo, crashes>>

FormatInodes ==
  /\ pc = "fmt_inodes"
  /\ \E w \in Outcomes :
       /\ inodes' = IF w.hit THEN [i \in Inodes |-> ZeroInode] ELSE inodes
       /\ Count(w) /\ Proceed(w, "fmt_reserved", op)
       /\ harm' = IF w.ok THEN harm ELSE harm \cup Exposed
  /\ UNCHANGED <<fat, blocks, mounted, todo, crashes>>

\* The results of these writes are ignored.
FormatReserved ==
  /\ pc = "fmt_reserved"
  /\ \E w \in Outcomes : PutFat(w, 0, FAT_EOF) /\ Count(w)
  /\ pc' = "fmt_root" /\ Keep
  /\ UNCHANGED <<inodes, blocks, mounted, todo, op, crashes>>

\* After this write a mount finds a root; nothing older than it is left.
FormatRoot ==
  /\ pc = "fmt_root"
  /\ \E w \in Outcomes :
       /\ PutInode(w, Root, [ZeroInode EXCEPT !.type = DirType]) /\ Count(w)
       /\ Proceed(w, "alloc", [NoOp EXCEPT !.dir = Root, !.num = Root, !.ret = "dots"])
       /\ harm' = IF w.ok THEN {} ELSE harm \cup Exposed
  /\ UNCHANGED <<fat, blocks, mounted, todo, crashes>>

Remount ==
  /\ pc = "remount"
  /\ \/ todo' = Layout /\ UNCHANGED faults
     \/ faults < MaxFaults /\ faults' = faults + 1 /\ UNCHANGED todo
  /\ mounted' = TRUE /\ Return /\ Keep
  /\ UNCHANGED <<disk, crashes>>

-----------------------------------------------------------------------------
(* create_file and create_dir. *)

\* Slip: the name is not looked up first.
CanCreateTwice(p, n) == Walk(p) \in Inodes /\ FreeInodes # {}

\* walk_path finds the parent (it returns 0 for none, and no entry holds a
\* number read_inode would refuse), which has no such entry.
CanCreate(p, n) ==
  Walk(p) \in Inodes /\ Find(Walk(p), n).inode = 0 /\ FreeInodes # {}

\* alloc_inode for entry n of directory d.
CreateOp(d, n, k) ==
  [NoOp EXCEPT !.kind = k, !.dir = d, !.name = n, !.num = Min(FreeInodes)]

TakeInode(d, n, k) ==
  \E w \in Outcomes : /\ PutInode(w, Min(FreeInodes), ZeroInode) /\ Count(w)
                      /\ Proceed(w, "mark", CreateOp(d, n, k))

AtPrompt == pc = "idle" /\ mounted /\ todo = <<>>

Create(p, n, k) ==
  /\ AtPrompt /\ CanCreate(p, n) /\ TakeInode(Walk(p), n, k)
  /\ Keep
  /\ UNCHANGED <<fat, blocks, mounted, todo, crashes>>

\* A directory block that cannot be read counts as "no such entry".
CreateUnseen(p, n, k) ==
  /\ AtPrompt /\ Walk(p) \in Inodes /\ Find(Walk(p), n).inode # 0 /\ FreeInodes # {}
  /\ faults < MaxFaults /\ faults' = faults + 1
  /\ inodes' = [inodes EXCEPT ![Min(FreeInodes)] = ZeroInode]
  /\ pc' = "mark" /\ op' = CreateOp(Walk(p), n, k)
  /\ harm' = harm \cup {"unseen"}
  /\ UNCHANGED <<fat, blocks, mounted, todo, crashes>>

EnsureDir ==
  /\ pc = "idle" /\ todo # <<>> /\ todo' = Tail(todo)
  /\ LET p == Front(Head(todo))
         n == Last(Head(todo))
     IN  IF CanCreate(p, n) THEN TakeInode(Walk(p), n, DirType)
         ELSE UNCHANGED <<inodes, pc, op, faults>>
  /\ Keep
  /\ UNCHANGED <<fat, blocks, mounted, crashes>>

MarkInode ==
  /\ pc = "mark"
  /\ \E w \in Outcomes :
       /\ PutInode(w, op.num, [ZeroInode EXCEPT !.type = op.kind]) /\ Count(w)
       /\ IF op.kind = DirType THEN Proceed(w, "alloc", Fresh("dots"))
          ELSE Proceed(w, "add", op)
  /\ Keep
  /\ UNCHANGED <<fat, blocks, mounted, todo, crashes>>

\* Slip: the two entries exchanged.
DotEntriesSwapped(i, parent) ==
  [s \in Slots |-> CASE s = 1 -> [inode |-> parent, type |-> DirType, name |-> "."]
                     [] s = 2 -> [inode |-> i, type |-> DirType, name |-> ".."]
                     [] OTHER -> ZeroCell]

DotEntries(i, parent) ==
  [s \in Slots |-> CASE s = 1 -> [inode |-> i, type |-> DirType, name |-> "."]
                     [] s = 2 -> [inode |-> parent, type |-> DirType, name |-> ".."]
                     [] OTHER -> ZeroCell]

WriteDots ==
  /\ pc = "dots"
  /\ \E w \in Outcomes :
       /\ PutBlock(w, op.new, DotEntries(op.num, op.dir)) /\ Count(w)
       /\ Proceed(w, "dots_inode", op)
  /\ Keep
  /\ UNCHANGED <<fat, inodes, mounted, todo, crashes>>

\* In a format (no entry to add) the root is the directory itself.
WriteDotsInode ==
  /\ pc = "dots_inode"
  /\ \E w \in Outcomes :
       /\ PutInode(w, op.num, [type |-> DirType, size |-> CellsPerBlock, first |-> op.new])
       /\ Count(w) /\ Proceed(w, IF op.name = "" THEN "remount" ELSE "add", op)
  /\ Keep
  /\ UNCHANGED <<fat, blocks, mounted, todo, crashes>>

-----------------------------------------------------------------------------
(* dir_add_entry: the block of directory op.dir, then its inode. *)

AddEntryStart ==
  /\ pc = "add"
  /\ \/ inodes[op.dir].type # DirType /\ Return /\ harm' = harm \cup {"refused"}
     \/ /\ inodes[op.dir].type = DirType /\ HasBlock(op.dir)
        /\ pc' = "entry" /\ op' = [op EXCEPT !.new = inodes[op.dir].first] /\ Keep
     \/ /\ inodes[op.dir].type = DirType /\ ~HasBlock(op.dir)
        /\ pc' = "alloc" /\ op' = Fresh("entry") /\ Keep
  /\ UNCHANGED <<disk, mounted, todo, faults, crashes>>

WriteEntry ==
  /\ pc = "entry"
  /\ LET room == FreeSlots(op.new)
         node == [inodes[op.dir] EXCEPT !.size = CellsPerBlock, !.first = op.new]
     IN  IF room = {}
         THEN Return /\ UNCHANGED <<blocks, faults>> /\ harm' = harm \cup {"refused"}
         ELSE \E w \in Outcomes :
                /\ PutCell(w, op.new, Min(room),
                           [inode |-> op.num, type |-> op.kind, name |-> op.name])
                /\ Count(w) /\ Proceed(w, "dir_inode", [op EXCEPT !.node = node])
                /\ Keep
  /\ UNCHANGED <<fat, inodes, mounted, todo, crashes>>

\* The second write of dir_save_block.
WriteDirInode ==
  /\ pc = "dir_inode"
  /\ \E w \in Outcomes : PutInode(w, op.dir, op.node) /\ Count(w)
  /\ Return /\ Keep
  /\ UNCHANGED <<fat, blocks, mounted, todo, crashes>>

-----------------------------------------------------------------------------
(* remove_path: the chain, then the inode, then the entry. *)

RemovePath(p, n) ==
  /\ AtPrompt /\ Walk(p) \in Inodes /\ Find(Walk(p), n).inode \in Inodes
  /\ LET t == Find(Walk(p), n).inode
     IN  /\ inodes[t].type = DirType => IsEmptyExceptDots(t)
         /\ pc' = IF HasBlock(t) THEN "rm_free" ELSE "rm_inode"
         /\ op' = [NoOp EXCEPT !.dir = Walk(p), !.name = n, !.num = t,
                               !.cur = inodes[t].first]
  /\ Keep
  /\ UNCHANGED <<disk, mounted, todo, faults, crashes>>

\* Slip: the loop frees the first cluster again and again.
FreeFirstAgain ==
  /\ pc = "rm_free" /\ \E w \in Outcomes : PutFat(w, op.cur, FAT_FREE) /\ Count(w)
  /\ UNCHANGED <<inodes, blocks, memory, crashes, harm>>

\* A link that cannot be read ends the walk; a failed write does not.
FreeCluster ==
  /\ pc = "rm_free"
  /\ \/ /\ \E w \in Outcomes : /\ PutFat(w, op.cur, FAT_FREE) /\ Count(w)
                               /\ harm' = IF w.hit THEN harm ELSE harm \cup {"remove"}
        /\ op' = [op EXCEPT !.cur = fat[op.cur]]
        /\ pc' = IF fat[op.cur] \in {0, FAT_EOF} THEN "rm_inode" ELSE "rm_free"
     \/ /\ faults < MaxFaults /\ faults' = faults + 1
        /\ pc' = "rm_inode" /\ UNCHANGED <<fat, op, harm>>
  /\ UNCHANGED <<inodes, blocks, mounted, todo, crashes>>

FreeInode ==
  /\ pc = "rm_inode"
  /\ \E w \in Outcomes :
       /\ PutInode(w, op.num, ZeroInode) /\ Count(w) /\ Proceed(w, "rm_entry", op)
       /\ harm' = IF w.ok THEN harm
                  ELSE harm \cup Exposed \cup (IF w.hit THEN {"remove"} ELSE {})
  /\ UNCHANGED <<fat, blocks, mounted, todo, crashes>>

RemoveEntry ==
  /\ pc = "rm_entry"
  /\ IF ~IsDir(op.dir) \/ EntrySlots(op.dir, op.name) = {}
     THEN Return /\ harm' = harm \cup Exposed /\ UNCHANGED <<blocks, faults>>
     ELSE \E w \in Outcomes :
            /\ PutCell(w, inodes[op.dir].first, Min(EntrySlots(op.dir, op.name)), ZeroCell)
            /\ Count(w)
            /\ Proceed(w, "dir_inode", [op EXCEPT !.node = inodes[op.dir]])
            /\ harm' = IF w.hit THEN harm ELSE harm \cup Exposed
  /\ UNCHANGED <<fat, inodes, mounted, todo, crashes>>

-----------------------------------------------------------------------------
(* write_file, at offset 0 (WRITE) or at the end (WRITE ... APPEND). *)

Text(i) == [inode |-> i, type |-> TextType, name |-> "text"]

WriteFile(p, append, len) ==
  /\ AtPrompt /\ Walk(p) \in Inodes
  /\ LET i == Walk(p)
         off == IF append THEN inodes[i].size ELSE 0
     IN  /\ inodes[i].type = FileType /\ off + len <= MaxFileCells
         /\ op' = [NoOp EXCEPT !.num = i, !.node = inodes[i], !.cur = inodes[i].first,
                               !.idx = off \div CellsPerBlock, !.off = off, !.len = len]
         /\ pc' = "seek"
  /\ Keep
  /\ UNCHANGED <<disk, mounted, todo, faults, crashes>>

\* ensure_cluster_index: follow the chain, and where it ends get a cluster.
Seek ==
  /\ pc = "seek"
  /\ \/ /\ op.node.first = 0
        /\ pc' = "alloc" /\ op' = Fresh("first")
     \/ /\ op.node.first # 0 /\ op.pos < op.idx /\ fat[op.cur] = FAT_EOF
        /\ pc' = "alloc" /\ op' = Fresh("link")
     \/ /\ op.node.first # 0 /\ op.pos < op.idx /\ fat[op.cur] # FAT_EOF
        /\ pc' = "seek" /\ op' = [op EXCEPT !.cur = fat[op.cur], !.pos = @ + 1]
     \/ /\ op.node.first # 0 /\ op.pos = op.idx
        /\ pc' = "data" /\ UNCHANGED op
  /\ Keep
  /\ UNCHANGED <<disk, mounted, todo, faults, crashes>>

\* Slip: an off-by-one.
SetFirstNext ==
  /\ pc = "first"
  /\ op' = [op EXCEPT !.node.first = op.new + 1, !.cur = op.new] /\ pc' = "seek" /\ Keep
  /\ UNCHANGED <<disk, mounted, todo, faults, crashes>>

\* The first cluster is entered in the copy of the inode in memory only.
SetFirst ==
  /\ pc = "first"
  /\ op' = [op EXCEPT !.node.first = op.new, !.cur = op.new] /\ pc' = "seek" /\ Keep
  /\ UNCHANGED <<disk, mounted, todo, faults, crashes>>

LinkCluster ==
  /\ pc = "link"
  /\ \E w \in Outcomes :
       /\ PutFat(w, op.cur, op.new) /\ Count(w)
       /\ Proceed(w, "seek", [op EXCEPT !.cur = op.new, !.pos = @ + 1])
  /\ Keep
  /\ UNCHANGED <<inodes, blocks, mounted, todo, crashes>>

\* Slip: the loop over the clusters stops after one.
FirstIdx == op.idx

LastIdx == (op.off + op.len - 1) \div CellsPerBlock

WriteData ==
  /\ pc = "data"
  /\ LET at(s) == op.idx * CellsPerBlock + s
         new == [s \in Slots |-> IF op.off < at(s) /\ at(s) <= op.off + op.len
                                 THEN Text(op.num) ELSE blocks[op.cur][s]]
     IN  \E w \in Outcomes :
           /\ PutBlock(w, op.cur, new) /\ Count(w)
           /\ IF op.idx = LastIdx THEN Proceed(w, "size", op)
              ELSE Proceed(w, "seek", [op EXCEPT !.idx = @ + 1, !.pos = 0,
                                                 !.cur = op.node.first])
  /\ Keep
  /\ UNCHANGED <<fat, inodes, mounted, todo, crashes>>

WriteSize ==
  /\ pc = "size"
  /\ LET end == op.off + op.len
         node == [op.node EXCEPT !.size = IF end > @ THEN end ELSE @]
     IN  \E w \in Outcomes : PutInode(w, op.num, node) /\ Count(w)
  /\ Return /\ Keep
  /\ UNCHANGED <<fat, blocks, mounted, todo, crashes>>

-----------------------------------------------------------------------------
PowerLoss ==
  /\ crashes < MaxCrashes /\ crashes' = crashes + 1
  /\ harm' = harm \cup Exposed
  /\ mounted' = FALSE /\ todo' = <<>> /\ pc' = "mount" /\ op' = NoOp
  /\ UNCHANGED <<disk, faults>>

Paths == BoundedSeq(Names, MaxDepth)

\* A blank disk, at power on.
Init ==
  /\ fat = [c \in Chained |-> FAT_FREE]
  /\ inodes = [i \in Inodes |-> ZeroInode]
  /\ blocks = [b \in Chained |-> ZeroBlock]
  /\ mounted = FALSE /\ todo = <<>> /\ pc = "mount" /\ op = NoOp
  /\ faults = 0 /\ crashes = 0 /\ harm = {}

Boot ==
  \/ Mount \/ FormatSuperblock \/ FormatFat \/ FormatInodes \/ FormatReserved
  \/ FormatRoot \/ Remount \/ EnsureDir

Continue ==
  \/ AllocCluster \/ ZeroCluster \/ MarkInode \/ WriteDots \/ WriteDotsInode
  \/ AddEntryStart \/ WriteEntry \/ WriteDirInode \/ FreeCluster \/ FreeInode
  \/ RemoveEntry \/ Seek \/ SetFirst \/ LinkCluster \/ WriteData \/ WriteSize

Command ==
  \E p \in Paths, n \in Names :
    \/ \E k \in {FileType, DirType} :
         Len(p) < MaxDepth /\ (Create(p, n, k) \/ CreateUnseen(p, n, k))
    \/ RemovePath(p, n)
    \/ \E len \in Lengths, append \in BOOLEAN : WriteFile(Append(p, n), append, len)

Next == Boot \/ Continue \/ Command \/ PowerLoss

Spec == Init /\ [][Next]_vars

\* The processor keeps running what was started; users, disk faults and
\* losses of power owe nothing.
FairSpec == Spec /\ WF_vars(Boot) /\ WF_vars(Continue)
=============================================================================
