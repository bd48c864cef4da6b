------------------------------ MODULE FFSProps ------------------------------
(***************************************************************************)
(* What FFS must guarantee, and its refinement of FileTree.                *)
(***************************************************************************)
EXTENDS FFS

TypeOK ==
  /\ fat \in [Chained -> Chained \cup {FAT_FREE, FAT_EOF}]
  /\ inodes \in [Inodes -> Inode]
  /\ blocks \in [Chained -> [Slots -> Cell]]
  /\ mounted \in BOOLEAN /\ todo \in Seq(Seq(Names) \ {<<>>})
  /\ pc \in Steps /\ op \in Operation
  /\ faults \in 0..MaxFaults /\ crashes \in 0..MaxCrashes
  /\ harm \subseteq {"format", "remove", "unseen", "refused"}

-----------------------------------------------------------------------------
\* An undisturbed file system: no operation was interrupted where that hurts,
\* and it is not being formatted.
Sound == harm \subseteq {"refused"} /\ ~Formatting

Live(i) == inodes[i].type # FreeType

\* The inode whose clusters remove_path is giving back, 0 when none.
Removing == IF pc \in {"rm_free", "rm_inode", "rm_entry"} THEN op.num ELSE 0

Heads == {i \in Inodes : Live(i) /\ inodes[i].first # 0}
Links == {c \in Clusters : fat[c] \in Clusters}

\* The entries of the directories on the disk, as <<directory, slot>>.
Entries ==
  {e \in Inodes \X Slots : IsDir(e[1]) /\ Used(blocks[inodes[e[1]].first][e[2]])}
At(e) == blocks[inodes[e[1]].first][e[2]]
Children == {e \in Entries : At(e).name \in Names}

-----------------------------------------------------------------------------
(* Invariants. *)

\* A file system that mounts has a directory for a root: no loss of power and
\* no failed write outside format() takes that away.
RootIsDirectory == mounted /\ Sound => inodes[Root].type = DirType

\* create_* checks for the name long before dir_add_entry takes a slot: the
\* directory still holds no second entry of that name.
NamesUnique ==
  Sound => \A e, f \in Children : e[1] = f[1] /\ At(e).name = At(f).name => e = f

\* An inode has one entry, in one directory, and the root has none: no sequence
\* of creations, removals and interruptions aliases two paths.
OneEntryPerInode ==
  Sound => \A e, f \in Children : /\ At(e).inode # Root
                                  /\ At(e).inode = At(f).inode => e = f

\* An entry leads to an inode in use, of the type the entry says, except the
\* one remove_path has freed and is about to clear.
EntriesAgree ==
  Sound => \A e \in Children :
             At(e).inode # Removing =>
               At(e).inode \in Inodes /\ inodes[At(e).inode].type = At(e).type

\* A cluster is reached from one place: one inode or one link of the FAT.
ClustersOwnedOnce ==
  Sound => /\ \A i, j \in Heads : inodes[i].first = inodes[j].first => i = j
           /\ \A c, d \in Links : fat[c] = fat[d] => c = d
           /\ \A i \in Heads, c \in Links : inodes[i].first # fat[c]

\* Nothing that is in use leads to a cluster the allocator may hand out.
NoDanglingChain ==
  Sound => /\ \A i \in Heads \ {Removing} : fat[inodes[i].first] # FAT_FREE
           /\ \A c \in Links : fat[fat[c]] # FAT_FREE

\* The ".." of a directory leads to the directory that lists it.
DotDotAgrees ==
  Sound => \A e \in Children :
             At(e).type = DirType /\ At(e).inode # Removing =>
               /\ IsDir(At(e).inode)
               /\ Find(At(e).inode, ".").inode = At(e).inode
               /\ Find(At(e).inode, "..").inode = e[1]

\* read_file never runs out of chain before the size, and every cell it returns
\* was written through this inode: no other file's text, and no hole.
OwnContents ==
  Sound => \A i \in Inodes \ {Removing} :
             inodes[i].type = FileType =>
               Contents(i) = [k \in 1..inodes[i].size |-> Text(i)]

\* Without interruptions and refusals for want of room, nothing leaks: between
\* commands every inode in use has a path and every cluster in use an owner.
NothingLeaks ==
  harm = {} /\ faults = 0 /\ crashes = 0 /\ AtPrompt =>
    /\ \A i \in Inodes \ {Root} : Live(i) => \E e \in Children : At(e).inode = i
    /\ \A c \in Clusters : fat[c] # FAT_FREE =>
         (\E i \in Heads : inodes[i].first = c) \/ (\E d \in Links : fat[d] = c)

-----------------------------------------------------------------------------
(* Steps. *)

\* An operation on one file alters no other: not its inode, not its contents.
OthersUntouched ==
  [][Sound /\ Sound' /\ disk' # disk =>
       \A i \in Inodes : inodes[i].type = FileType /\ i \notin {op.num, op'.num} =>
                           inodes'[i] = inodes[i] /\ Contents(i)' = Contents(i)]_vars

-----------------------------------------------------------------------------
(* The name space, as FileTree describes it. *)

EntryOf(p) == Find(Walk(Front(p)), Last(p))

TreeOf ==
  [p \in {q \in Paths \ {<<>>} : Walk(Front(q)) # 0 /\ EntryOf(q).inode # 0}
     |-> EntryOf(p).type]

\* The paths whose entry the running command is to write or to clear: its name
\* in its directory, and the type a creation gives it.
Target == {p \in Paths \ {<<>>} : Walk(Front(p)) = op.dir /\ Last(p) = op.name}
ToAdd == IF op.kind # 0 THEN Target \X {op.kind} ELSE {}
ToRemove == IF pc \in {"rm_free", "rm_inode", "rm_entry"} THEN Target ELSE {}

Tree == INSTANCE FileTree WITH tree <- TreeOf, adding <- ToAdd,
                               removing <- ToRemove, formatting <- Formatting

\* Whatever is interrupted, each write of the disk adds at most the path the
\* running creation names, under a directory that stays, or takes at most the
\* path the running removal names, with nothing below it; a format alone
\* forgets more, all of it in one write.
NameSpaceIsTree ==
  Tree!Init /\ [][harm' \subseteq {"refused"} /\ disk' # disk /\ TreeOf' # TreeOf
                    => Tree!Next]_vars

\* A path that was listed stays listed until remove_path clears its entry.
OnlyRemovalDrops ==
  [][Sound /\ Sound' /\ disk' # disk =>
       \A p \in DOMAIN TreeOf \ DOMAIN TreeOf' : pc = "rm_entry" /\ Last(p) = op.name]_vars

-----------------------------------------------------------------------------
(* Progress. *)

\* Every command returns to the prompt: no walk of a chain is endless, even on
\* a disk that interruptions have damaged.
CommandsReturn == (pc # "idle") ~> (pc = "idle")
=============================================================================
