------------------------------ MODULE FileTree ------------------------------
(***************************************************************************)
(* What the file system promises of its name space: paths appear and       *)
(* disappear one at a time, always under an existing directory, and only   *)
(* those the running command asked for.                                    *)
(***************************************************************************)
EXTENDS Naturals, Sequences, Functions, SequencesExt

CONSTANTS Names, MaxDepth, FileType, DirType

VARIABLES
  tree,        \* from each existing path to the type its entry gives it
  adding,      \* the <<path, type>> pairs the running command may add
  removing,    \* the paths the running command may remove
  formatting   \* whether the disk is being formatted

Paths == BoundedSeq(Names, MaxDepth) \ {<<>>}

IsParent(p) == p = <<>> \/ (p \in DOMAIN tree /\ tree[p] = DirType)

IsLeaf(p) == \A q \in DOMAIN tree : Len(q) > Len(p) => SubSeq(q, 1, Len(p)) # p

Init == tree = << >>

\* A path comes to exist in a directory that exists.
Add(p, t) ==
  /\ <<p, t>> \in adding
  /\ p \notin DOMAIN tree /\ IsParent(Front(p))
  /\ tree' = [q \in DOMAIN tree \cup {p} |-> IF q = p THEN t ELSE tree[q]]

\* A file, or a directory with nothing in it, ceases to exist.
Drop(p) ==
  /\ p \in removing
  /\ p \in DOMAIN tree /\ IsLeaf(p)
  /\ tree' = Restrict(tree, DOMAIN tree \ {p})

\* Formatting forgets everything.
Wipe == formatting /\ tree' = << >>

Next == \/ \E p \in Paths : (\E t \in {FileType, DirType} : Add(p, t)) \/ Drop(p)
        \/ Wipe

Spec == Init /\ [][Next]_tree
=============================================================================
