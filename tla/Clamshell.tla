----------------------------- MODULE Clamshell -----------------------------
(***************************************************************************)
(* The shell, src/clamshell/clamshell.cpp: its start-up, the resolution of *)
(* paths and the commands that change the working directory or the name    *)
(* space.                                                                  *)
(*                                                                         *)
(* The file system appears as its calls leave it when no transfer fails    *)
(* (FFS has their steps): paths, inodes and the ".." entries.              *)
(***************************************************************************)
EXTENDS Naturals, Sequences, FiniteSets, FiniteSetsExt, SequencesExt

CONSTANTS
  Names,        \* path components
  HOME_PATH,    \* /Users/default
  BootItems,    \* what init() ensures, in order: [path, kind]
  InodeCount,
  DirRoom,      \* entries a directory holds besides "." and ".."
  MaxSegs,      \* 32: components resolve_path collects
  MaxInput,     \* bound: components users type
  MaxBoots      \* bound on the boots

Root == 1
FreeType == 0
FileType == 1
DirType == 2

Inodes == 1..InodeCount

ASSUME ShellAssumption ==
  /\ InodeCount \in Nat \ {0} /\ MaxSegs \in Nat \ {0} /\ DirRoom \in Nat
  /\ Names \cap {".", ".."} = {} /\ HOME_PATH \in Seq(Names) /\ Len(HOME_PATH) <= MaxSegs
  /\ BootItems \in Seq([path : Seq(Names), kind : {FileType, DirType}])

\* What follows a command: where it starts, its components, a trailing slash.
Inputs ==
  {in \in [from : {"/", "~", "cwd"}, segs : BoundedSeq(Names \cup {".", ".."}, MaxInput),
           slash : BOOLEAN] : in.from = "cwd" => in.segs # << >>}

VARIABLES
  tree,         \* disk: from each path to the inode its entry names
  type,         \* disk: of each inode
  up,           \* disk: the ".." of each directory
  g_cwd_inode, g_cwd_path,
  todo,         \* what init() has still to ensure
  boots

disk == <<tree, type, up>>
shell == <<g_cwd_inode, g_cwd_path, todo>>
vars == <<disk, shell, boots>>

-----------------------------------------------------------------------------
(* resolve_path *)

\* Slip: ".." is skipped like ".".
SkipDots(path, seg) == IF seg \in {".", ".."} THEN path ELSE Append(path, seg)

TakeSegment(path, seg) ==
  CASE seg = "." -> path
    [] seg = ".." -> IF path = << >> THEN path ELSE Front(path)
    [] OTHER -> Append(path, seg)

\* The components pending before the first and after each component of a text.
Canonical(segs) ==
  LET at[k \in 0..Len(segs)] == IF k = 0 THEN << >> ELSE TakeSegment(at[k - 1], segs[k])
  IN  at

Combined(in) ==
  CASE in.from = "/" -> in.segs
    [] in.from = "~" -> HOME_PATH \o in.segs
    [] in.from = "cwd" -> g_cwd_path \o in.segs

\* No more than MaxSegs components are pending at any time.
Resolvable(in) ==
  LET all == Combined(in)
  IN  \A k \in 1..Len(all) : Len(Canonical(all)[k]) <= MaxSegs

Resolve(in) == Canonical(Combined(in))[Len(Combined(in))]

\* Slip: MAKE looks at what was typed (and then a removed working directory
\* can come back as another one).
TypedSlash(in) == in.slash

\* MAKE looks for a slash at the end of the resolved path, where
\* resolve_path leaves none but for the root.
is_dir(in) == Resolve(in) = << >>

-----------------------------------------------------------------------------
(* The calls of the file system. *)

lookup_path(path) ==
  IF path = << >> THEN Root ELSE IF path \in DOMAIN tree THEN tree[path] ELSE 0

Below(path) == {q \in DOMAIN tree : q # << >> /\ Front(q) = path}

FreeInodes == {i \in Inodes : type[i] = FreeType}

\* Before it takes an inode, create_* wants the parent, no entry and an inode.
Begins(path) ==
  /\ path # << >> /\ lookup_path(Front(path)) # 0 /\ lookup_path(path) = 0
  /\ FreeInodes # {}

\* dir_add_entry then wants a directory with room.
Accepts(path) ==
  type[lookup_path(Front(path))] = DirType /\ Cardinality(Below(Front(path))) < DirRoom

\* Refused by dir_add_entry, create_* keeps the inode it took.
Create(path, kind) ==
  IF Begins(path)
  THEN LET i == Min(FreeInodes)
       IN  /\ type' = [type EXCEPT ![i] = kind]
           /\ up' = IF kind = DirType THEN [up EXCEPT ![i] = lookup_path(Front(path))] ELSE up
           /\ tree' = IF Accepts(path)
                      THEN [q \in DOMAIN tree \cup {path} |-> IF q = path THEN i ELSE tree[q]]
                      ELSE tree
  ELSE UNCHANGED disk

Removable(path) ==
  /\ path # << >> /\ lookup_path(path) # 0
  /\ type[lookup_path(path)] = DirType => Below(path) = {}

-----------------------------------------------------------------------------
(* init() and the commands. *)

\* ensure_dir and ensure_file; the text ensure_file writes is left out.
EnsureItem ==
  /\ todo # << >> /\ todo' = Tail(todo)
  /\ Create(Head(todo).path, Head(todo).kind)
  /\ UNCHANGED <<g_cwd_inode, g_cwd_path, boots>>

AtPrompt == todo = << >>

CDIR(in) ==
  /\ AtPrompt /\ Resolvable(in)
  /\ LET inode == lookup_path(Resolve(in))
     IN  /\ inode # 0 /\ type[inode] = DirType
         /\ g_cwd_inode' = inode /\ g_cwd_path' = Resolve(in)
  /\ UNCHANGED <<disk, todo, boots>>

MAKE(in) ==
  /\ AtPrompt /\ Resolvable(in)
  /\ Create(Resolve(in), IF is_dir(in) THEN DirType ELSE FileType)
  /\ UNCHANGED <<shell, boots>>

REMOVE(in) ==
  /\ AtPrompt /\ Resolvable(in) /\ Removable(Resolve(in))
  /\ type' = [type EXCEPT ![lookup_path(Resolve(in))] = FreeType]
  /\ tree' = [q \in DOMAIN tree \ {Resolve(in)} |-> tree[q]]
  /\ UNCHANGED <<up, shell, boots>>

\* WRITE and CONCAT make the file they write to when there is none.
WRITE(in) ==
  /\ AtPrompt /\ Resolvable(in) /\ lookup_path(Resolve(in)) = 0
  /\ Create(Resolve(in), FileType)
  /\ UNCHANGED <<shell, boots>>

\* A loss of power at the prompt or in init(), and the next boot.
Reboot ==
  /\ boots < MaxBoots /\ boots' = boots + 1
  /\ g_cwd_inode' = Root /\ g_cwd_path' = << >> /\ todo' = BootItems
  /\ UNCHANGED disk

Init ==
  /\ tree = [q \in {} |-> 0]
  /\ type = [i \in Inodes |-> IF i = Root THEN DirType ELSE FreeType]
  /\ up = [i \in Inodes |-> Root]
  /\ g_cwd_inode = Root /\ g_cwd_path = << >> /\ todo = BootItems
  /\ boots = 1

Next ==
  \/ EnsureItem \/ Reboot
  \/ \E in \in Inputs : CDIR(in) \/ MAKE(in) \/ REMOVE(in) \/ WRITE(in)

Spec == Init /\ [][Next]_vars

-----------------------------------------------------------------------------
\* LDIR without a path and the prompt speak of the same directory: the working
\* directory may have been removed and its inode given to a file, but what LDIR
\* can still list is what the path of the prompt leads to.
CwdAgrees ==
  type[g_cwd_inode] = DirType => lookup_path(g_cwd_path) = g_cwd_inode

\* Following the entries on the disk, ".." included, from directory i.
Entry(i, name) ==
  IF i = 0 \/ type[i] # DirType THEN 0
  ELSE CASE name = "." -> i
         [] name = ".." -> up[i]
         [] OTHER -> LET under == {q \in DOMAIN tree : Last(q) = name /\
                                     lookup_path(Front(q)) = i}
                     IN  IF under = {} THEN 0 ELSE tree[CHOOSE q \in under : TRUE]

Follow(i, segs) ==
  LET at[k \in 0..Len(segs)] == IF k = 0 THEN i ELSE Entry(at[k - 1], segs[k])
  IN  at[Len(segs)]

\* resolve_path works on the text alone, yet where the entries on the disk lead
\* somewhere, it leads there too: removals, reused inodes and a working
\* directory that is gone never make ".." mean another directory.
LexicalIsPhysical ==
  \A in \in Inputs :
    LET start == CASE in.from = "/" -> Root
                   [] in.from = "~" -> lookup_path(HOME_PATH)
                   [] in.from = "cwd" -> g_cwd_inode
        found == Follow(start, in.segs)
    IN  Resolvable(in) /\ found # 0 => lookup_path(Resolve(in)) = found
=============================================================================
