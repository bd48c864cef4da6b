-------------------------- MODULE ClamshellProofs --------------------------
(***************************************************************************)
(* Theorems about the shell: the working directory and its path belong     *)
(* together, and paths resolved as text lead where the disk does.  The     *)
(* invariant is about the name space: who names what, and what ".." is.    *)
(***************************************************************************)
EXTENDS Clamshell, TLAPS, WellFoundedInduction

\* What a component can be.
Segs == Names \cup {".", ".."}

Item == [path : Seq(Names), kind : {FileType, DirType}]

DiskTypes ==
  /\ DOMAIN tree \subseteq Seq(Names) \ {<< >>}
  /\ tree \in [DOMAIN tree -> Inodes \ {Root}]
  /\ type \in [Inodes -> {FreeType, FileType, DirType}]
  /\ up \in [Inodes -> Inodes]
  /\ type[Root] = DirType /\ up[Root] = Root

ShellTypes ==
  g_cwd_inode \in Inodes /\ g_cwd_path \in Seq(Names) /\ todo \in Seq(Item)

TypeInv == DiskTypes /\ ShellTypes

\* Only at the prompt does the shell leave the root.
BootsAtRoot == todo # << >> => g_cwd_inode = Root /\ g_cwd_path = << >>

\* What is named is in use, ...
EntriesHold == \A q \in DOMAIN tree : type[tree[q]] # FreeType

\* ... has one name, ...
OneNameEach == \A p, q \in DOMAIN tree : tree[p] = tree[q] => p = q

\* ... lies in a directory, ...
ParentsStand ==
  \A q \in DOMAIN tree : lookup_path(Front(q)) # 0 /\ type[lookup_path(Front(q))] = DirType

\* ... and a directory knows which.
UpAgrees ==
  \A q \in DOMAIN tree : type[tree[q]] = DirType => up[tree[q]] = lookup_path(Front(q))

DiskInv == DiskTypes /\ EntriesHold /\ OneNameEach /\ ParentsStand /\ UpAgrees

TreeInv == DiskInv /\ ShellTypes

Inv == TreeInv /\ BootsAtRoot /\ CwdAgrees

-----------------------------------------------------------------------------
(* Numbers and sequences. *)

LEMMA Sizes == Root \in Inodes /\ Inodes \subseteq Nat /\ 0 \notin Inodes
  BY ShellAssumption DEF Inodes, Root

\* create_* takes the first free inode: it is a free one.
LEMMA MinInSet ==
  ASSUME NEW S, S \subseteq Nat, S # {}
  PROVE  Min(S) \in S /\ \A y \in S : Min(S) =< y
<1> DEFINE R == {ss \in Nat \X Nat : ss[1] < ss[2]}
<1>1. R = OpToRel(<, Nat)
  BY Zenon DEF OpToRel
<1>2. IsWellFoundedOn(R, Nat)
  BY <1>1, NatLessThanWellFounded, Zenon
<1> HIDE DEF R
<1>3. \E x \in S : \A y \in S : ~ (<<y, x>> \in R)
  BY <1>2, WFMin, Zenon
<1>4. \A x, y \in Nat : y < x => <<y, x>> \in R
  BY DEF R
<1>5. \E x \in S : \A y \in S : x =< y
  <2>1. PICK x \in S : \A y \in S : ~ (<<y, x>> \in R)
    BY <1>3
  <2>2. \A y \in S : ~ (y < x)
    BY <2>1, <1>4
  <2>3. \A y \in S : x \in Nat /\ y \in Nat
    BY <2>1
  <2> QED
    BY <2>1, <2>2, <2>3
<1> QED
  BY <1>5 DEF Min

LEMMA Appended ==
  ASSUME NEW V, NEW s \in Seq(V), NEW v \in V
  PROVE  /\ Append(s, v) \in Seq(V) /\ Len(Append(s, v)) = Len(s) + 1 /\ Len(s) \in Nat
         /\ Append(s, v)[Len(s) + 1] = v /\ \A k \in 1..Len(s) : Append(s, v)[k] = s[k]
  OBVIOUS

LEMMA Prefixed ==
  ASSUME NEW V, NEW s \in Seq(V), NEW k \in Nat, k <= Len(s)
  PROVE  /\ SubSeq(s, 1, k) \in Seq(V) /\ Len(SubSeq(s, 1, k)) = k
         /\ \A i \in 1..k : SubSeq(s, 1, k)[i] = s[i]
  OBVIOUS

LEMMA FrontIs ==
  ASSUME NEW p \in Seq(Names), p # << >>
  PROVE  /\ Front(p) \in Seq(Names) /\ Last(p) \in Names
         /\ Len(p) \in Nat /\ Len(p) >= 1 /\ Len(Front(p)) = Len(p) - 1
         /\ \A k \in 1..(Len(p) - 1) : Front(p)[k] = p[k]
         /\ Last(p) = p[Len(p)] /\ p = Append(Front(p), Last(p))
<1>1. Len(p) \in Nat /\ Len(p) >= 1
  OBVIOUS
<1>2. /\ Front(p) \in Seq(Names) /\ Len(Front(p)) = Len(p) - 1
      /\ \A k \in 1..(Len(p) - 1) : Front(p)[k] = p[k]
  <2>1. PICK k \in Nat : k = Len(p) - 1
    BY <1>1
  <2>2. k <= Len(p) /\ Front(p) = SubSeq(p, 1, k)
    BY <1>1, <2>1 DEF Front
  <2>3. k <= Len(p)
    BY <2>2
  <2>4. /\ SubSeq(p, 1, k) \in Seq(Names) /\ Len(SubSeq(p, 1, k)) = k
        /\ \A i \in 1..k : SubSeq(p, 1, k)[i] = p[i]
    BY <2>3, Prefixed
  <2> QED
    BY <2>1, <2>2, <2>4
<1>3. Last(p) = p[Len(p)] /\ Last(p) \in Names
  BY <1>1 DEF Last
<1>4. p = Append(Front(p), Last(p))
  <2>1. PICK f \in Seq(Names) : f = Front(p)
    BY <1>2
  <2>2. PICK l \in Names : l = Last(p)
    BY <1>3
  <2>3. /\ Append(f, l) \in Seq(Names) /\ Len(Append(f, l)) = Len(f) + 1
        /\ \A k \in 1..Len(f) : Append(f, l)[k] = f[k]
        /\ Append(f, l)[Len(f) + 1] = l
    OBVIOUS
  <2>4. Len(Append(f, l)) = Len(p)
    BY <1>1, <1>2, <2>1, <2>3
  <2>5. \A k \in 1..Len(p) : Append(f, l)[k] = p[k]
    BY <1>1, <1>2, <1>3, <2>1, <2>2, <2>3
  <2> QED
    BY <2>1, <2>2, <2>3, <2>4, <2>5
<1> QED
  BY <1>1, <1>2, <1>3, <1>4

LEMMA AppendIs ==
  ASSUME NEW p \in Seq(Names), NEW n \in Names
  PROVE  /\ Append(p, n) \in Seq(Names) /\ Append(p, n) # << >>
         /\ Len(Append(p, n)) = Len(p) + 1 /\ Front(Append(p, n)) = p /\ Last(Append(p, n)) = n
<1>1. PICK q \in Seq(Names) : q = Append(p, n)
  BY Appended
<1>2. /\ Len(q) = Len(p) + 1 /\ Len(p) \in Nat /\ q[Len(p) + 1] = n
      /\ \A k \in 1..Len(p) : q[k] = p[k]
  BY <1>1, Appended
<1>3. q # << >>
  BY <1>2
<1>4. Last(q) = n
  BY <1>2 DEF Last
<1>5. Front(q) = p
  <2>1. PICK f \in Seq(Names) : f = Front(q)
    BY <1>3, FrontIs
  <2>2. Len(f) = Len(q) - 1 /\ \A k \in 1..(Len(q) - 1) : f[k] = q[k]
    BY <1>3, <2>1, FrontIs
  <2>3. Len(f) = Len(p) /\ \A k \in 1..Len(p) : f[k] = p[k]
    BY <1>2, <2>2
  <2> QED
    BY <2>1, <2>3
<1> QED
  BY <1>1, <1>2, <1>3, <1>4, <1>5


\* What a fold of g over s has come to after each element.
IsFold(f, X, x0, g, s) ==
  /\ f \in [0..Len(s) -> X] /\ f[0] = x0
  /\ \A k \in 1..Len(s) : f[k] = g[<<f[k - 1], s[k]>>]

LEMMA Iterates ==
  ASSUME NEW X, NEW Y, NEW x0 \in X, NEW g \in [X \X Y -> X], NEW s \in Seq(Y)
  PROVE  \E f : IsFold(f, X, x0, g, s)
<1> DEFINE Fold(f, n) == /\ f \in [0..n -> X] /\ f[0] = x0
                         /\ \A k \in 1..n : f[k] = g[<<f[k - 1], s[k]>>]
<1>1. PICK B : B = {n \in 0..Len(s) : ~ \E f : Fold(f, n)}
  OBVIOUS
<1>2. Len(s) \in Nat
  OBVIOUS
<1>3. SUFFICES ASSUME B # {} PROVE FALSE
  <2>1. ASSUME B = {} PROVE \E f : IsFold(f, X, x0, g, s)
    <3>1. Len(s) \in 0..Len(s) /\ Len(s) \notin B
      BY <1>2, <2>1
    <3>2. \E f : Fold(f, Len(s))
      <4> HIDE DEF Fold
      <4> QED
        BY <1>1, <3>1
    <3> QED
      BY <3>2 DEF IsFold
  <2> QED
    BY <2>1
<1>0. B \subseteq Nat
  BY <1>1, <1>2
<1>4. PICK m : m = Min(B)
  OBVIOUS
<1>5. m \in B /\ \A y \in B : m =< y
  BY <1>0, <1>3, <1>4, MinInSet
<1>6. m \in Nat /\ m <= Len(s) /\ ~ \E f : Fold(f, m)
  BY <1>1, <1>2, <1>5
<1>18. m \in Nat
  BY <1>6
<1>7. m # 0
  <2>1. PICK f : f = [k \in 0..0 |-> x0]
    OBVIOUS
  <2>2. Fold(f, 0)
    BY <2>1
  <2> QED
    BY <1>6, <2>2
<1>8. m - 1 \in 0..Len(s) /\ ~ m =< m - 1 /\ m \in 1..Len(s) /\ m - 1 \in Nat
  BY <1>2, <1>6, <1>7
<1>9. PICK f : Fold(f, m - 1)
  BY <1>1, <1>5, <1>8
<1>10. PICK y \in Y : y = s[m]
  BY <1>8
<1>11. PICK x \in X : x = f[m - 1]
  BY <1>8, <1>9
<1>12. PICK z \in X : z = g[<<x, y>>]
  OBVIOUS
<1>13. PICK h : h = [k \in 0..m |-> IF k < m THEN f[k] ELSE z]
  OBVIOUS
<1>14. h \in [0..m -> X]
  <2>1. ASSUME NEW k \in 0..m PROVE h[k] \in X
    <3>1. k \in Nat /\ k <= m
      BY <1>18
    <3>2. CASE k < m
      <4>1. k \in 0..(m - 1)
        BY <1>18, <3>1, <3>2
      <4> QED
        BY <1>9, <1>13, <3>2, <4>1
    <3>3. CASE ~ k < m
      BY <1>12, <1>13, <3>3
    <3> QED
      BY <3>2, <3>3
  <2> QED
    BY <1>13, <2>1
<1>15. h[0] = x0
  BY <1>6, <1>7, <1>9, <1>13
<1>16. ASSUME NEW k \in 1..m PROVE h[k] = g[<<h[k - 1], s[k]>>]
  <2>1. k \in 0..m /\ k - 1 \in 0..m /\ k - 1 < m
    BY <1>6
  <2>2. h[k - 1] = f[k - 1]
    BY <1>13, <2>1
  <2>3. CASE k = m
    <3>1. h[m] = z
      BY <1>6, <1>13
    <3>2. h[m - 1] = x
      BY <1>11, <2>2, <2>3
    <3> QED
      BY <1>10, <1>12, <2>3, <3>1, <3>2
  <2>4. CASE k # m
    <3>1. k \in 1..(m - 1) /\ k < m
      BY <1>6, <2>4
    <3>2. h[k] = f[k]
      BY <1>13, <2>1, <3>1
    <3> QED
      BY <1>9, <2>2, <3>1, <3>2
  <2> QED
    BY <2>3, <2>4
<1>17. Fold(h, m)
  BY <1>14, <1>15, <1>16
<1> QED
  BY <1>6, <1>17

-----------------------------------------------------------------------------
(* resolve_path, and the way along the entries on the disk. *)

LEMMA TakesPaths ==
  ASSUME NEW p \in Seq(Names), NEW seg \in Segs
  PROVE  TakeSegment(p, seg) \in Seq(Names)
<1>1. CASE seg \in Names
  BY <1>1, AppendIs, ShellAssumption DEF TakeSegment
<1>2. CASE seg = "."
  BY <1>2 DEF TakeSegment
<1>3. CASE seg = ".."
  BY <1>3, FrontIs DEF TakeSegment
<1> QED
  BY <1>1, <1>2, <1>3 DEF Segs

\* The components pending are those before, changed by one component.
LEMMA CanonicalIs ==
  ASSUME NEW s \in Seq(Segs)
  PROVE  /\ Canonical(s)[0] = << >>
         /\ \A k \in 0..Len(s) : Canonical(s)[k] \in Seq(Names)
         /\ \A k \in 1..Len(s) : Canonical(s)[k] = TakeSegment(Canonical(s)[k - 1], s[k])
<1> DEFINE Trace(c) ==
      c = [k \in 0..Len(s) |-> IF k = 0 THEN << >> ELSE TakeSegment(c[k - 1], s[k])]
<1>0. Len(s) \in Nat
  OBVIOUS
<1>1. PICK g : g = [x \in Seq(Names) \X Segs |-> TakeSegment(x[1], x[2])]
  OBVIOUS
<1>2. g \in [Seq(Names) \X Segs -> Seq(Names)]
  BY <1>1, TakesPaths
<1>3. << >> \in Seq(Names)
  OBVIOUS
<1>4. PICK f \in [0..Len(s) -> Seq(Names)] :
        f[0] = << >> /\ \A k \in 1..Len(s) : f[k] = g[<<f[k - 1], s[k]>>]
  <2>1. PICK X, Y : X = Seq(Names) /\ Y = Segs
    OBVIOUS
  <2>2. << >> \in X /\ g \in [X \X Y -> X] /\ s \in Seq(Y)
    BY <1>2, <1>3, <2>1
  <2> HIDE DEF Trace
  <2>3. \E f \in [0..Len(s) -> X] :
          f[0] = << >> /\ \A k \in 1..Len(s) : f[k] = g[<<f[k - 1], s[k]>>]
    <3>1. PICK x0 \in X : x0 = << >>
      BY <2>2
    <3>2. PICK f : IsFold(f, X, x0, g, s)
      BY <2>2, Iterates, Zenon
    <3> QED
      BY <3>1, <3>2 DEF IsFold
  <2> QED
    BY <2>1, <2>3
<1>5. ASSUME NEW k \in 1..Len(s) PROVE f[k] = TakeSegment(f[k - 1], s[k])
  <2>1. k - 1 \in 0..Len(s)
    BY <1>0
  <2>2. PICK p \in Seq(Names) : p = f[k - 1]
    BY <1>4, <2>1
  <2>3. PICK seg \in Segs : seg = s[k]
    OBVIOUS
  <2>4. g[<<p, seg>>] = TakeSegment(p, seg)
    BY <1>1
  <2> QED
    BY <1>4, <2>2, <2>3, <2>4
<1>6. Trace(f)
  <2>1. \A k \in 0..Len(s) : k = 0 \/ k \in 1..Len(s)
    BY <1>0
  <2> QED
    BY <1>4, <1>5, <2>1
<1>7. PICK c : c = Canonical(s) /\ Trace(c)
  <2>1. Canonical(s) = CHOOSE c : Trace(c)
    BY DEF Canonical
  <2> HIDE DEF Trace
  <2> QED
    BY <1>6, <2>1, Zenon
<1>8. c[0] = << >> /\ \A k \in 1..Len(s) : c[k] = TakeSegment(c[k - 1], s[k])
  <2>1. 0 \in 0..Len(s) /\ \A k \in 1..Len(s) : k \in 0..Len(s) /\ k # 0
    BY <1>0
  <2> QED
    BY <1>7, <2>1
<1>9. ASSUME NEW k \in 0..Len(s) PROVE c[k] \in Seq(Names)
  <2> DEFINE Bad == {n \in 0..Len(s) : c[n] \notin Seq(Names)}
  <2>1. SUFFICES ASSUME Bad # {} PROVE FALSE
    OBVIOUS
  <2>2. PICK m : m = Min(Bad)
    OBVIOUS
  <2>3. m \in Bad /\ \A y \in Bad : m =< y
    <3>1. Bad \subseteq Nat
      BY <1>0
    <3> HIDE DEF Bad
    <3> QED
      BY <2>1, <2>2, <3>1, MinInSet
  <2>4. m \in 0..Len(s) /\ m # 0 /\ c[m] \notin Seq(Names)
    BY <1>3, <1>8, <2>3
  <2>5. m \in 1..Len(s) /\ m - 1 \in 0..Len(s) /\ ~ m =< m - 1
    BY <1>0, <2>4
  <2>6. c[m - 1] \in Seq(Names)
    BY <2>3, <2>5
  <2>7. PICK seg \in Segs : seg = s[m]
    BY <2>5
  <2>8. TakeSegment(c[m - 1], seg) \in Seq(Names)
    BY <2>6, TakesPaths
  <2> QED
    BY <1>8, <2>4, <2>5, <2>7, <2>8
<1> QED
  BY <1>7, <1>8, <1>9

\* An entry names an inode, or none.
LEMMA EntryType ==
  ASSUME TypeInv, NEW i \in Inodes \cup {0}, NEW seg \in Segs
  PROVE  Entry(i, seg) \in Inodes \cup {0}
<1>1. CASE i = 0 \/ type[i] # DirType
  BY <1>1 DEF Entry
<1>2. CASE i \in Inodes /\ type[i] = DirType
  <2>1. i # 0
    BY <1>2, Sizes
  <2>2. CASE seg = "."
    BY <1>2, <2>1, <2>2 DEF Entry
  <2>3. CASE seg = ".."
    BY <1>2, <2>1, <2>3 DEF Entry, TypeInv, DiskTypes, ShellTypes
  <2>4. CASE seg \in Names
    <3>1. seg # "." /\ seg # ".."
      BY <2>4, ShellAssumption
    <3> DEFINE under == {q \in DOMAIN tree : Last(q) = seg /\ lookup_path(Front(q)) = i}
    <3>2. Entry(i, seg) = IF under = {} THEN 0 ELSE tree[CHOOSE q \in under : TRUE]
      BY <1>2, <2>1, <3>1 DEF Entry
    <3>3. under # {} => (CHOOSE q \in under : TRUE) \in under
      OBVIOUS
    <3>4. \A q \in under : tree[q] \in Inodes
      BY DEF TypeInv, DiskTypes, ShellTypes
    <3> QED
      BY <3>2, <3>3, <3>4
  <2> QED
    BY <2>2, <2>3, <2>4 DEF Segs
<1> QED
  BY <1>1, <1>2

\* Following the entries is going from inode to inode.
Goes(f, i, s) ==
  f[0] = i /\ \A k \in 1..Len(s) : f[k] = Entry(f[k - 1], s[k])

LEMMA FollowIs ==
  ASSUME TypeInv, NEW i \in Inodes \cup {0}, NEW s \in Seq(Segs)
  PROVE  \E f : Goes(f, i, s) /\ Follow(i, s) = f[Len(s)]
<1> DEFINE Trace(c) == c = [k \in 0..Len(s) |-> IF k = 0 THEN i ELSE Entry(c[k - 1], s[k])]
<1>0. Len(s) \in Nat
  OBVIOUS
<1>1. PICK X, Y, x0 : X = Inodes \cup {0} /\ Y = Segs /\ x0 = i
  OBVIOUS
<1>2. PICK g : g = [x \in X \X Y |-> Entry(x[1], x[2])]
  OBVIOUS
<1>3. g \in [X \X Y -> X] /\ x0 \in X /\ s \in Seq(Y)
  BY <1>1, <1>2, EntryType
<1>4. PICK f : IsFold(f, X, x0, g, s)
  <2> HIDE DEF Trace
  <2> QED
    BY <1>3, Iterates, Zenon
<1>5. f \in [0..Len(s) -> X] /\ f[0] = i
  BY <1>1, <1>4 DEF IsFold
<1>6. ASSUME NEW k \in 1..Len(s) PROVE f[k] = Entry(f[k - 1], s[k])
  <2>1. k - 1 \in 0..Len(s)
    BY <1>0
  <2>2. PICK j \in X : j = f[k - 1]
    BY <1>5, <2>1
  <2>3. PICK seg \in Y : seg = s[k]
    BY <1>1
  <2>4. g[<<j, seg>>] = Entry(j, seg)
    BY <1>2
  <2>5. f[k] = g[<<f[k - 1], s[k]>>]
    BY <1>4 DEF IsFold
  <2> QED
    BY <2>2, <2>3, <2>4, <2>5
<1>7. Trace(f)
  <2>1. \A k \in 0..Len(s) : k = 0 \/ k \in 1..Len(s)
    BY <1>0
  <2> QED
    BY <1>5, <1>6, <2>1
<1>8. PICK c : Trace(c) /\ Follow(i, s) = c[Len(s)]
  <2>1. Follow(i, s) = (CHOOSE c : Trace(c))[Len(s)]
    BY DEF Follow
  <2> HIDE DEF Trace
  <2> QED
    BY <1>7, <2>1, Zenon
<1>9. Goes(c, i, s)
  <2>1. 0 \in 0..Len(s) /\ \A k \in 1..Len(s) : k \in 0..Len(s) /\ k # 0
    BY <1>0
  <2> QED
    BY <1>8, <2>1 DEF Goes
<1> QED
  BY <1>8, <1>9

\* Two paths do not lead to one inode.
LEMMA PathsDiffer ==
  ASSUME TreeInv, NEW p, NEW q, lookup_path(p) = lookup_path(q), lookup_path(p) # 0
  PROVE  p = q
<1>1. \A r \in DOMAIN tree : r # << >> /\ tree[r] # Root
  BY DEF TreeInv, DiskInv, DiskTypes
<1>2. \A r, t \in DOMAIN tree : tree[r] = tree[t] => r = t
  BY DEF TreeInv, DiskInv, OneNameEach
<1> QED
  BY <1>1, <1>2 DEF lookup_path

\* One component: the path that takes it leads where the entry does.
LEMMA StepAgrees ==
  ASSUME TreeInv, NEW p \in Seq(Names), NEW seg \in Segs, Entry(lookup_path(p), seg) # 0
  PROVE  lookup_path(TakeSegment(p, seg)) = Entry(lookup_path(p), seg)
<1>1. PICK i : i = lookup_path(p)
  OBVIOUS
<1>2. i # 0 /\ type[i] = DirType /\ Entry(i, seg) # 0
  BY <1>1 DEF Entry
<1>3. CASE seg = "."
  BY <1>1, <1>2, <1>3 DEF Entry, TakeSegment
<1>4. CASE seg = ".."
  <2>1. Entry(i, seg) = up[i]
    BY <1>2, <1>4 DEF Entry
  <2>2. CASE p = << >>
    <3>1. TakeSegment(p, seg) = << >>
      BY <1>4, <2>2 DEF TakeSegment
    <3> QED
      BY <1>1, <2>1, <2>2, <3>1 DEF lookup_path, TreeInv, DiskInv, DiskTypes
  <2>3. CASE p # << >>
    <3>1. TakeSegment(p, seg) = Front(p)
      BY <1>4, <2>3 DEF TakeSegment
    <3>2. p \in DOMAIN tree /\ i = tree[p]
      BY <1>1, <1>2, <2>3 DEF lookup_path
    <3>3. up[i] = lookup_path(Front(p))
      BY <1>2, <3>2 DEF TreeInv, DiskInv, UpAgrees
    <3> QED
      BY <1>1, <2>1, <3>1, <3>3
  <2> QED
    BY <2>2, <2>3
<1>5. CASE seg \in Names
  <2>0. seg # "." /\ seg # ".."
    BY <1>5, ShellAssumption
  <2> DEFINE under == {q \in DOMAIN tree : Last(q) = seg /\ lookup_path(Front(q)) = i}
  <2>1. Entry(i, seg) = IF under = {} THEN 0 ELSE tree[CHOOSE q \in under : TRUE]
    BY <1>2, <2>0 DEF Entry
  <2>2. PICK q \in under : Entry(i, seg) = tree[q]
    BY <1>2, <2>1
  <2>3. q \in DOMAIN tree /\ Last(q) = seg /\ lookup_path(Front(q)) = lookup_path(p)
    BY <1>1, <2>2
  <2>4. q \in Seq(Names) /\ q # << >>
    BY <2>3 DEF TreeInv, DiskInv, DiskTypes
  <2>5. PICK r \in Seq(Names) : r = Front(q) /\ q = Append(r, seg)
    BY <2>3, <2>4, FrontIs
  <2>6. r = p
    BY <1>1, <1>2, <2>3, <2>5, PathsDiffer
  <2>7. TakeSegment(p, seg) = q
    BY <2>0, <2>5, <2>6 DEF TakeSegment
  <2> QED
    BY <1>1, <2>2, <2>3, <2>4, <2>7 DEF lookup_path
<1> QED
  BY <1>3, <1>4, <1>5 DEF Segs

\* From component m on, the text and the entries stay together.
EndsIn(all, m, s) == Len(all) = m + Len(s) /\ \A k \in 1..Len(s) : all[m + k] = s[k]

Leads(p, i) == i # 0 /\ type[i] = DirType => lookup_path(p) = i

Together(all, m, s, f) ==
  \A k \in 1..Len(s) : f[k] # 0 => lookup_path(Canonical(all)[m + k]) = f[k]

LEMMA TogetherOnwards ==
  ASSUME TreeInv, NEW all \in Seq(Segs), NEW s \in Seq(Segs), NEW m \in Nat,
         EndsIn(all, m, s), NEW i \in Inodes \cup {0}, NEW f, Goes(f, i, s),
         Leads(Canonical(all)[m], i)
  PROVE  Together(all, m, s, f)
<1> DEFINE c == Canonical(all)
<1> DEFINE Bad == {k \in 1..Len(s) : f[k] # 0 /\ lookup_path(c[m + k]) # f[k]}
<1>0. Len(s) \in Nat
  OBVIOUS
<1>1. /\ \A k \in 0..Len(all) : c[k] \in Seq(Names)
      /\ \A k \in 1..Len(all) : c[k] = TakeSegment(c[k - 1], all[k])
  BY CanonicalIs
<1>e. Len(all) = m + Len(s) /\ \A k \in 1..Len(s) : all[m + k] = s[k]
  BY DEF EndsIn
<1>l. i # 0 /\ type[i] = DirType => lookup_path(c[m]) = i
  BY DEF Leads
<1>2. SUFFICES ASSUME Bad # {} PROVE FALSE
  BY DEF Together
<1> HIDE DEF c
<1>3. Bad \subseteq Nat
  BY <1>0
<1>4. PICK n : n = Min(Bad)
  OBVIOUS
<1>5. n \in Bad /\ \A y \in Bad : n =< y
  <2> HIDE DEF Bad
  <2> QED
    BY <1>2, <1>3, <1>4, MinInSet
<1>6. n \in 1..Len(s) /\ f[n] # 0 /\ lookup_path(c[m + n]) # f[n]
  BY <1>5
<1>7. n \in Nat /\ n >= 1 /\ n <= Len(s) /\ ~ n =< n - 1 /\ n - 1 \in Nat
  BY <1>0, <1>6
<1>8. PICK seg \in Segs : seg = s[n] /\ seg = all[m + n]
  BY <1>e, <1>6
<1>9. f[n] = Entry(f[n - 1], seg)
  BY <1>6, <1>8 DEF Goes
<1>10. f[n - 1] # 0 /\ type[f[n - 1]] = DirType
  BY <1>6, <1>9 DEF Entry
<1>11. m + n \in 1..Len(all) /\ m + n - 1 \in 0..Len(all) /\ m + n - 1 = m + (n - 1)
  BY <1>0, <1>e, <1>7
<1>12. PICK p \in Seq(Names) : p = c[m + (n - 1)]
  BY <1>1, <1>11
<1>13. lookup_path(p) = f[n - 1]
  <2>1. CASE n = 1
    <3>1. f[n - 1] = i /\ m + (n - 1) = m
      BY <2>1 DEF Goes
    <3> QED
      BY <1>l, <1>10, <1>12, <3>1
  <2>2. CASE n # 1
    <3>1. n - 1 \in 1..Len(s)
      BY <1>7, <2>2
    <3>2. n - 1 \notin Bad
      BY <1>5, <1>7
    <3> QED
      BY <1>10, <1>12, <3>1, <3>2
  <2> QED
    BY <2>1, <2>2
<1>14. c[m + n] = TakeSegment(p, seg)
  <2>1. PICK j \in 1..Len(all) : j = m + n /\ j - 1 = m + (n - 1)
    BY <1>7, <1>11
  <2>2. c[j] = TakeSegment(c[j - 1], all[j])
    BY <1>1
  <2> QED
    BY <1>8, <1>12, <2>1, <2>2
<1>15. lookup_path(TakeSegment(p, seg)) = Entry(lookup_path(p), seg)
  BY <1>6, <1>9, <1>13, StepAgrees
<1> QED
  BY <1>6, <1>9, <1>13, <1>14, <1>15

LEMMA Joined ==
  ASSUME NEW V, NEW a \in Seq(V), NEW b \in Seq(V)
  PROVE  /\ a \o b \in Seq(V) /\ Len(a \o b) = Len(a) + Len(b)
         /\ \A k \in 1..Len(a) : (a \o b)[k] = a[k]
         /\ \A k \in 1..Len(b) : (a \o b)[Len(a) + k] = b[k]
  OBVIOUS

LEMMA EmptyPath == << >> \in Seq(Names)
  OBVIOUS

\* A path without "." and ".." is pending as it stands.
LEMMA PathStays ==
  ASSUME NEW all \in Seq(Segs), NEW p \in Seq(Names), Len(p) <= Len(all),
         \A k \in 1..Len(p) : all[k] = p[k]
  PROVE  Canonical(all)[Len(p)] = p
<1> DEFINE c == Canonical(all)
<1> DEFINE Same(q, n) == q \in Seq(Names) /\ Len(q) = n /\ \A k \in 1..n : q[k] = p[k]
<1> DEFINE Bad == {n \in 0..Len(p) : ~ Same(c[n], n)}
<1>0. Len(p) \in Nat /\ Len(all) \in Nat
  OBVIOUS
<1>1. c[0] = << >> /\ \A k \in 1..Len(all) : c[k] = TakeSegment(c[k - 1], all[k])
  BY CanonicalIs
<1> HIDE DEF c
<1>2. Bad = {}
  <2>1. SUFFICES ASSUME Bad # {} PROVE FALSE
    OBVIOUS
  <2>2. Bad \subseteq Nat
    BY <1>0
  <2>3. PICK n : n = Min(Bad)
    OBVIOUS
  <2>4. n \in Bad /\ \A y \in Bad : n =< y
    <3> HIDE DEF Bad
    <3> QED
      BY <2>1, <2>2, <2>3, MinInSet
  <2>5. n \in 0..Len(p) /\ ~ Same(c[n], n)
    BY <2>4
  <2>6. n # 0
    <3>1. Same(c[0], 0)
      BY <1>1
    <3> QED
      BY <2>5, <3>1
  <2>7. n \in Nat /\ n >= 1 /\ n <= Len(p) /\ ~ n =< n - 1 /\ n - 1 \in 0..Len(p)
    BY <1>0, <2>5, <2>6
  <2>8. Same(c[n - 1], n - 1)
    BY <2>4, <2>7
  <2>9. PICK q \in Seq(Names) : q = c[n - 1]
    BY <2>8
  <2>10. Len(q) = n - 1 /\ \A k \in 1..(n - 1) : q[k] = p[k]
    BY <2>8, <2>9
  <2>11. PICK a \in Names : a = p[n] /\ a = all[n]
    BY <2>7
  <2>12. a # "." /\ a # ".."
    BY ShellAssumption
  <2>13. c[n] = Append(q, a)
    <3>1. n \in 1..Len(all)
      BY <1>0, <2>7
    <3> QED
      BY <1>1, <2>9, <2>11, <2>12, <3>1 DEF TakeSegment
  <2>14. PICK r \in Seq(Names) : r = Append(q, a)
    BY Appended
  <2>15. Len(r) = Len(q) + 1 /\ r[Len(q) + 1] = a /\ \A k \in 1..Len(q) : r[k] = q[k]
    BY <2>14, Appended
  <2>16. Len(r) = n /\ r[n] = a /\ \A k \in 1..(n - 1) : r[k] = p[k]
    BY <2>7, <2>10, <2>15
  <2>17. ASSUME NEW k \in 1..n PROVE r[k] = p[k]
    <3>1. k = n \/ k \in 1..(n - 1)
      BY <2>7
    <3> QED
      BY <2>11, <2>16, <3>1
  <2>18. Same(r, n)
    BY <2>16, <2>17
  <2> QED
    BY <2>5, <2>13, <2>14, <2>18
<1>3. Same(c[Len(p)], Len(p))
  <2>1. Len(p) \in 0..Len(p)
    BY <1>0
  <2> QED
    BY <1>2, <2>1
<1>4. PICK q \in Seq(Names) : q = c[Len(p)]
  BY <1>3
<1>5. Len(q) = Len(p) /\ \A k \in 1..Len(p) : q[k] = p[k]
  BY <1>3, <1>4
<1>6. q = p
  BY <1>5
<1> QED
  BY <1>4, <1>6 DEF c

\* What a user types is a text of components; so is the whole of it.
LEMMA InputType ==
  ASSUME TypeInv, NEW in \in Inputs
  PROVE  /\ in.from \in {"/", "~", "cwd"} /\ in.segs \in Seq(Segs)
         /\ in.from = "cwd" => in.segs # << >>
         /\ Combined(in) \in Seq(Segs) /\ Resolve(in) \in Seq(Names)
<1>1. in.from \in {"/", "~", "cwd"} /\ in.segs \in BoundedSeq(Segs, MaxInput)
      /\ (in.from = "cwd" => in.segs # << >>)
  BY DEF Inputs, Segs
<1>2. in.segs \in Seq(Segs)
  BY <1>1 DEF BoundedSeq, SeqOf
<1>3. HOME_PATH \in Seq(Segs) /\ g_cwd_path \in Seq(Segs)
  BY ShellAssumption DEF TypeInv, ShellTypes, Segs
<1>4. PICK all \in Seq(Segs) : all = Combined(in)
  <2>1. \A s, t \in Seq(Segs) : s \o t \in Seq(Segs)
    OBVIOUS
  <2>2. Combined(in) \in {in.segs, HOME_PATH \o in.segs, g_cwd_path \o in.segs}
    BY <1>1 DEF Combined
  <2> QED
    BY <1>2, <1>3, <2>1, <2>2
<1>5. Len(all) \in 0..Len(all)
  OBVIOUS
<1>6. Canonical(all)[Len(all)] \in Seq(Names)
  BY <1>5, CanonicalIs
<1> QED
  BY <1>1, <1>2, <1>4, <1>6 DEF Resolve

\* A text that starts with a path p, at an inode p leads to.
LEMMA FromPath ==
  ASSUME TreeInv, NEW p \in Seq(Names), NEW s \in Seq(Segs), NEW i \in Inodes \cup {0},
         i # 0 /\ (type[i] = DirType \/ s = << >>) => lookup_path(p) = i,
         Follow(i, s) # 0
  PROVE  lookup_path(Canonical(p \o s)[Len(p \o s)]) = Follow(i, s)
<1>1. PICK all \in Seq(Segs) : all = p \o s
  <2>1. p \in Seq(Segs)
    BY DEF Segs
  <2> QED
    BY <2>1, Joined
<1>2. PICK m \in Nat : m = Len(p)
  OBVIOUS
<1>3. /\ Len(all) = m + Len(s) /\ Len(s) \in Nat
      /\ \A k \in 1..m : all[k] = p[k]
      /\ \A k \in 1..Len(s) : all[m + k] = s[k]
  <2>1. p \in Seq(Segs)
    BY DEF Segs
  <2> QED
    BY <1>1, <1>2, <2>1, Joined
<1>4. Canonical(all)[m] = p
  BY <1>2, <1>3, PathStays
<1>5. TypeInv
  BY DEF TreeInv, DiskInv, TypeInv
<1>6. PICK f : Goes(f, i, s) /\ Follow(i, s) = f[Len(s)]
  BY <1>5, FollowIs
<1>7. CASE s = << >>
  <2>1. Len(s) = 0 /\ Len(all) = m
    BY <1>3, <1>7
  <2>2. f[0] = i
    BY <1>6 DEF Goes
  <2> QED
    BY <1>1, <1>4, <1>6, <1>7, <2>1, <2>2
<1>8. CASE s # << >>
  <2>1. Len(s) \in 1..Len(s)
    BY <1>8
  <2>2. Leads(Canonical(all)[m], i) /\ EndsIn(all, m, s)
    BY <1>3, <1>4 DEF Leads, EndsIn
  <2>3. Together(all, m, s, f)
    BY <1>6, <2>2, TogetherOnwards
  <2> QED
    BY <1>1, <1>3, <1>6, <2>1, <2>3 DEF Together
<1> QED
  BY <1>7, <1>8

LEMMA TextIsDisk == Inv => LexicalIsPhysical
<1> SUFFICES ASSUME Inv, NEW in \in Inputs PROVE
      LET start == CASE in.from = "/" -> Root
                     [] in.from = "~" -> lookup_path(HOME_PATH)
                     [] in.from = "cwd" -> g_cwd_inode
          found == Follow(start, in.segs)
      IN  Resolvable(in) /\ found # 0 => lookup_path(Resolve(in)) = found
  BY DEF LexicalIsPhysical
<1>1. TreeInv /\ TypeInv /\ CwdAgrees
  BY DEF Inv, TreeInv, DiskInv, TypeInv
<1>2. in.segs \in Seq(Segs) /\ in.from \in {"/", "~", "cwd"}
  BY <1>1, InputType
<1>3. Root # 0 /\ lookup_path(<< >>) = Root /\ Root \in Inodes
  BY Sizes DEF lookup_path
<1>4. ASSUME in.from = "/", Follow(Root, in.segs) # 0
      PROVE  lookup_path(Resolve(in)) = Follow(Root, in.segs)
  <2>1. PICK p \in Seq(Names) : p = << >>
    BY EmptyPath
  <2>2. p \o in.segs = in.segs
    BY <1>2, <2>1
  <2>3. lookup_path(Canonical(p \o in.segs)[Len(p \o in.segs)]) = Follow(Root, in.segs)
    BY <1>1, <1>2, <1>3, <1>4, <2>1, FromPath
  <2> QED
    BY <1>4, <2>2, <2>3 DEF Resolve, Combined
<1>5. ASSUME in.from = "~", Follow(lookup_path(HOME_PATH), in.segs) # 0
      PROVE  lookup_path(Resolve(in)) = Follow(lookup_path(HOME_PATH), in.segs)
  <2>1. lookup_path(HOME_PATH) \in Inodes \cup {0}
    BY <1>1, Sizes DEF lookup_path, TypeInv, DiskTypes, ShellTypes
  <2>2. HOME_PATH \in Seq(Names)
    BY ShellAssumption
  <2>3. lookup_path(Canonical(HOME_PATH \o in.segs)[Len(HOME_PATH \o in.segs)])
          = Follow(lookup_path(HOME_PATH), in.segs)
    BY <1>1, <1>2, <1>5, <2>1, <2>2, FromPath
  <2> QED
    BY <1>5, <2>3 DEF Resolve, Combined
<1>6. ASSUME in.from = "cwd", Follow(g_cwd_inode, in.segs) # 0
      PROVE  lookup_path(Resolve(in)) = Follow(g_cwd_inode, in.segs)
  <2>1. in.segs # << >>
    BY <1>1, <1>6, InputType
  <2>2. g_cwd_inode \in Inodes /\ g_cwd_path \in Seq(Names)
    BY <1>1 DEF TypeInv, DiskTypes, ShellTypes
  <2>3. type[g_cwd_inode] = DirType => lookup_path(g_cwd_path) = g_cwd_inode
    BY <1>1 DEF CwdAgrees
  <2>4. lookup_path(Canonical(g_cwd_path \o in.segs)[Len(g_cwd_path \o in.segs)])
          = Follow(g_cwd_inode, in.segs)
    BY <1>1, <1>2, <1>6, <2>1, <2>2, <2>3, FromPath
  <2> QED
    BY <1>6, <2>4 DEF Resolve, Combined
<1> QED
  BY <1>2, <1>4, <1>5, <1>6

-----------------------------------------------------------------------------
(* The calls of the file system. *)

LEMMA SameDisk ==
  ASSUME DiskInv, UNCHANGED disk
  PROVE  DiskInv' /\ type' = type /\ \A p : lookup_path(p)' = lookup_path(p)
<1>1. tree' = tree /\ type' = type /\ up' = up
  BY DEF disk
<1>2. ASSUME NEW p PROVE lookup_path(p)' = lookup_path(p)
  BY <1>1 DEF lookup_path
<1>3. DiskTypes' /\ EntriesHold' /\ OneNameEach'
  BY <1>1 DEF DiskInv, DiskTypes, EntriesHold, OneNameEach
<1>4. ParentsStand' /\ UpAgrees'
  BY <1>1, <1>2 DEF DiskInv, ParentsStand, UpAgrees
<1> QED
  BY <1>1, <1>2, <1>3, <1>4 DEF DiskInv

\* create_* takes a free inode for a path that led nowhere, in a directory.
LEMMA CreateKeeps ==
  ASSUME DiskInv, NEW path \in Seq(Names), NEW kind \in {FileType, DirType},
         Create(path, kind)
  PROVE  /\ DiskInv'
         /\ \A i \in Inodes : type'[i] = type[i] \/ (type[i] = FreeType /\ type'[i] = kind)
         /\ \A p : lookup_path(p) # 0 => lookup_path(p)' = lookup_path(p)
<1>t. /\ DOMAIN tree \subseteq Seq(Names) \ {<< >>}
      /\ tree \in [DOMAIN tree -> Inodes \ {Root}]
      /\ type \in [Inodes -> {FreeType, FileType, DirType}]
      /\ up \in [Inodes -> Inodes]
      /\ type[Root] = DirType /\ up[Root] = Root
  BY DEF DiskInv, DiskTypes
<1>k. FreeType # FileType /\ FreeType # DirType /\ FileType # DirType
  BY DEF FreeType, FileType, DirType
<1>1. CASE ~ Begins(path)
  <2>1. UNCHANGED disk
    BY <1>1 DEF Create
  <2> QED
    <3>1. DiskInv' /\ type' = type /\ \A p : lookup_path(p)' = lookup_path(p)
      BY <2>1, SameDisk
    <3>2. \A i \in Inodes : type'[i] = type[i] \/ (type[i] = FreeType /\ type'[i] = kind)
      BY <3>1
    <3>3. \A p : lookup_path(p) # 0 => lookup_path(p)' = lookup_path(p)
      BY <3>1
    <3> QED
      BY <3>1, <3>2, <3>3
<1>2. CASE Begins(path)
  <2>1. PICK i \in Inodes : i = Min(FreeInodes) /\ type[i] = FreeType
    BY <1>2, Sizes, MinInSet DEF Begins, FreeInodes
  <2>2. i # Root
    BY <1>k, <1>t, <2>1
  <2>3. PICK d \in Inodes : d = lookup_path(Front(path))
    BY <1>2, <1>t, Sizes DEF Begins, lookup_path
  <2>4. path # << >> /\ path \notin DOMAIN tree
    BY <1>2, <1>t, Sizes DEF Begins, lookup_path
  <2>5. /\ type' = [type EXCEPT ![i] = kind]
        /\ up' = IF kind = DirType THEN [up EXCEPT ![i] = d] ELSE up
        /\ tree' = IF Accepts(path)
                   THEN [q \in DOMAIN tree \cup {path} |-> IF q = path THEN i ELSE tree[q]]
                   ELSE tree
    BY <1>2, <2>1, <2>3 DEF Create
  <2>6. \A q \in DOMAIN tree : tree[q] # i
    BY <2>1 DEF DiskInv, EntriesHold
  <2>7. ASSUME NEW j \in Inodes PROVE type'[j] = IF j = i THEN kind ELSE type[j]
    BY <1>t, <2>5
  <2>8. ASSUME NEW j \in Inodes, j # i PROVE up'[j] = up[j]
    BY <1>t, <2>5, <2>8
  <2>9. kind = DirType => up'[i] = d
    BY <1>t, <2>5
  <2>10. \A q \in DOMAIN tree : q \in DOMAIN tree' /\ tree'[q] = tree[q]
    BY <2>4, <2>5
  <2>11. \A q \in DOMAIN tree' : q \in DOMAIN tree \/ (Accepts(path) /\ q = path /\ tree'[q] = i)
    <3>1. CASE Accepts(path)
      <4>1. tree' = [q \in DOMAIN tree \cup {path} |-> IF q = path THEN i ELSE tree[q]]
        BY <2>5, <3>1
      <4>2. DOMAIN tree' = DOMAIN tree \cup {path} /\ tree'[path] = i
        BY <4>1
      <4> QED
        BY <3>1, <4>2
    <3>2. CASE ~ Accepts(path)
      <4>1. tree' = tree
        BY <2>5, <3>2
      <4> QED
        BY <4>1
    <3> QED
      BY <3>1, <3>2
  <2>12. ASSUME NEW p, lookup_path(p) # 0 PROVE lookup_path(p)' = lookup_path(p)
    <3>1. CASE p = << >>
      BY <3>1 DEF lookup_path
    <3>2. CASE p # << >>
      BY <2>10, <2>12, <3>2 DEF lookup_path
    <3> QED
      BY <3>1, <3>2
  <2>13. DiskTypes'
    <3>1. DOMAIN tree' \subseteq Seq(Names) \ {<< >>}
      BY <1>t, <2>4, <2>11
    <3>2. tree' \in [DOMAIN tree' -> Inodes \ {Root}]
      <4>1. tree' = [q \in DOMAIN tree' |-> tree'[q]]
        BY <1>t, <2>5
      <4>2. \A q \in DOMAIN tree' : tree'[q] \in Inodes \ {Root}
        BY <1>t, <2>1, <2>2, <2>10, <2>11
      <4> QED
        BY <4>1, <4>2
    <3>3. type' \in [Inodes -> {FreeType, FileType, DirType}] /\ type'[Root] = DirType
      BY <1>t, <2>2, <2>5, Sizes
    <3>4. up' \in [Inodes -> Inodes] /\ up'[Root] = Root
      BY <1>t, <2>2, <2>5, Sizes
    <3> QED
      BY <3>1, <3>2, <3>3, <3>4 DEF DiskTypes
  <2>14. EntriesHold'
    <3>1. ASSUME NEW q \in DOMAIN tree' PROVE type'[tree'[q]] # FreeType
      <4>1. CASE q \in DOMAIN tree
        BY <1>t, <2>6, <2>7, <2>10, <4>1 DEF DiskInv, EntriesHold
      <4>2. CASE tree'[q] = i
        BY <1>k, <2>7, <4>2
      <4> QED
        BY <2>11, <4>1, <4>2
    <3> QED
      BY <3>1 DEF EntriesHold
  <2>15. OneNameEach'
    <3>1. \A p, q \in DOMAIN tree : tree[p] = tree[q] => p = q
      BY DEF DiskInv, OneNameEach
    <3>2. \A p, q \in DOMAIN tree' : tree'[p] = tree'[q] => p = q
      BY <2>6, <2>10, <2>11, <3>1
    <3> QED
      BY <3>2 DEF OneNameEach
  <2>16. ASSUME NEW q \in DOMAIN tree'
         PROVE  /\ lookup_path(Front(q))' # 0 /\ type'[lookup_path(Front(q))'] = DirType
                /\ type'[tree'[q]] = DirType => up'[tree'[q]] = lookup_path(Front(q))'
    <3>1. CASE q \in DOMAIN tree
      <4>1. PICK j \in Inodes : j = lookup_path(Front(q)) /\ type[j] = DirType
        BY <1>t, <3>1, Sizes DEF DiskInv, ParentsStand, lookup_path
      <4>2. lookup_path(Front(q))' = j
        BY <2>12, <4>1, Sizes
      <4>3. type'[j] = DirType
        BY <1>k, <2>1, <2>7, <4>1
      <4>4. PICK n \in Inodes : n = tree[q] /\ n # i
        BY <1>t, <2>6, <3>1
      <4>5. type[n] = DirType => up[n] = j
        BY <3>1, <4>1, <4>4 DEF DiskInv, UpAgrees
      <4>6. type'[n] = type[n] /\ up'[n] = up[n] /\ tree'[q] = n
        BY <2>7, <2>8, <2>10, <3>1, <4>4
      <4> QED
        BY <4>1, <4>2, <4>3, <4>5, <4>6, Sizes
    <3>2. CASE Accepts(path) /\ q = path /\ tree'[q] = i
      <4>1. type[d] = DirType
        BY <2>3, <3>2 DEF Accepts
      <4>2. lookup_path(Front(q))' = d
        BY <2>3, <2>12, <3>2, Sizes
      <4>3. type'[d] = DirType
        BY <1>k, <2>1, <2>7, <4>1
      <4>4. type'[i] = kind
        BY <2>7
      <4> QED
        BY <2>3, <2>9, <3>2, <4>2, <4>3, <4>4, Sizes
    <3> QED
      BY <2>11, <3>1, <3>2
  <2>17. ParentsStand' /\ UpAgrees'
    BY <2>16 DEF ParentsStand, UpAgrees
  <2> QED
    <3>1. DiskInv'
      BY <2>13, <2>14, <2>15, <2>17 DEF DiskInv
    <3>2. \A j \in Inodes : type'[j] = type[j] \/ (type[j] = FreeType /\ type'[j] = kind)
      <4>1. \A j \in Inodes : j # i => type'[j] = type[j]
        BY <2>7
      <4>2. type'[i] = kind
        BY <2>7
      <4> QED
        BY <2>1, <4>1, <4>2
    <3> QED
      BY <2>12, <3>1, <3>2
<1> QED
  BY <1>1, <1>2

\* remove_path takes what has nothing below it.
LEMMA RemoveKeeps ==
  ASSUME DiskInv, NEW path \in Seq(Names), Removable(path),
         type' = [type EXCEPT ![lookup_path(path)] = FreeType],
         tree' = [q \in DOMAIN tree \ {path} |-> tree[q]], UNCHANGED up
  PROVE  /\ DiskInv'
         /\ \A j \in Inodes : type'[j] = IF j = lookup_path(path) THEN FreeType ELSE type[j]
         /\ \A p : p # path => lookup_path(p)' = lookup_path(p)
<1>t. /\ DOMAIN tree \subseteq Seq(Names) \ {<< >>}
      /\ tree \in [DOMAIN tree -> Inodes \ {Root}]
      /\ type \in [Inodes -> {FreeType, FileType, DirType}]
      /\ up \in [Inodes -> Inodes]
      /\ type[Root] = DirType /\ up[Root] = Root
  BY DEF DiskInv, DiskTypes
<1>1. path \in DOMAIN tree /\ path # << >> /\ lookup_path(path) = tree[path]
  BY DEF Removable, lookup_path
<1>2. PICK i \in Inodes : i = tree[path] /\ i # Root
  BY <1>t, <1>1
<1>3. ASSUME NEW j \in Inodes PROVE type'[j] = IF j = i THEN FreeType ELSE type[j]
  BY <1>t, <1>1, <1>2
<1>4. \A q \in DOMAIN tree' : q \in DOMAIN tree /\ q # path /\ tree'[q] = tree[q]
  OBVIOUS
<1>5. \A p, q \in DOMAIN tree : tree[p] = tree[q] => p = q
  BY DEF DiskInv, OneNameEach
<1>6. \A q \in DOMAIN tree' : tree'[q] # i
  BY <1>1, <1>2, <1>4, <1>5
<1>7. ASSUME NEW p, p # path PROVE lookup_path(p)' = lookup_path(p)
  <2>1. p \in DOMAIN tree' <=> p \in DOMAIN tree
    BY <1>7
  <2> QED
    BY <1>4, <2>1 DEF lookup_path
<1>8. DiskTypes'
  <2>1. tree' \in [DOMAIN tree' -> Inodes \ {Root}]
    BY <1>t, <1>4
  <2>2. type' \in [Inodes -> {FreeType, FileType, DirType}] /\ type'[Root] = DirType
    BY <1>t, <1>1, <1>2, <1>3, Sizes
  <2> QED
    BY <1>t, <1>4, <2>1, <2>2 DEF DiskTypes
<1>9. EntriesHold'
  <2>1. ASSUME NEW q \in DOMAIN tree' PROVE type'[tree'[q]] # FreeType
    BY <1>t, <1>3, <1>4, <1>6 DEF DiskInv, EntriesHold
  <2> QED
    BY <2>1 DEF EntriesHold
<1>10. OneNameEach'
  <2>1. \A p, q \in DOMAIN tree' : tree'[p] = tree'[q] => p = q
    BY <1>4, <1>5
  <2> QED
    BY <2>1 DEF OneNameEach
<1>11. ASSUME NEW q \in DOMAIN tree'
       PROVE  /\ lookup_path(Front(q))' # 0 /\ type'[lookup_path(Front(q))'] = DirType
              /\ type'[tree'[q]] = DirType => up'[tree'[q]] = lookup_path(Front(q))'
  <2>1. q \in DOMAIN tree /\ tree'[q] = tree[q] /\ q # << >>
    BY <1>t, <1>4
  <2>2. PICK j \in Inodes : j = lookup_path(Front(q)) /\ type[j] = DirType
    BY <1>t, <2>1, Sizes DEF DiskInv, ParentsStand, lookup_path
  <2>3. Front(q) # path
    <3>1. SUFFICES ASSUME Front(q) = path PROVE FALSE
      OBVIOUS
    <3>2. q \in Below(path)
      BY <2>1, <3>1 DEF Below
    <3>3. type[lookup_path(path)] = DirType
      BY <2>2, <3>1
    <3> QED
      BY <3>2, <3>3 DEF Removable
  <2>4. lookup_path(Front(q))' = j
    BY <1>7, <2>2, <2>3
  <2>5. j # i
    <3>1. CASE Front(q) = << >>
      BY <1>2, <2>2, <3>1 DEF lookup_path
    <3>2. CASE Front(q) # << >>
      BY <1>1, <1>2, <1>5, <2>2, <2>3, <3>2, Sizes DEF lookup_path
    <3> QED
      BY <3>1, <3>2
  <2>6. type'[j] = DirType
    BY <1>3, <2>2, <2>5
  <2>7. PICK n \in Inodes : n = tree[q] /\ n # i
    BY <1>t, <1>6, <2>1
  <2>8. type[n] = DirType => up[n] = j
    BY <2>1, <2>2, <2>7 DEF DiskInv, UpAgrees
  <2>9. type'[n] = type[n]
    BY <1>3, <2>7
  <2> QED
    BY <2>1, <2>4, <2>6, <2>7, <2>8, <2>9, Sizes
<1>12. ParentsStand' /\ UpAgrees'
  BY <1>11 DEF ParentsStand, UpAgrees
<1> QED
  BY <1>1, <1>2, <1>3, <1>7, <1>8, <1>9, <1>10, <1>12 DEF DiskInv

-----------------------------------------------------------------------------
(* The invariant. *)

LEMMA InitInv == Init => Inv
<1> SUFFICES ASSUME Init PROVE Inv
  OBVIOUS
<1>1. DOMAIN tree = {} /\ tree = [q \in {} |-> 0]
  BY DEF Init
<1>2. DiskTypes
  BY <1>1, Sizes DEF Init, DiskTypes
<1>3. EntriesHold /\ OneNameEach /\ ParentsStand /\ UpAgrees
  BY <1>1 DEF EntriesHold, OneNameEach, ParentsStand, UpAgrees
<1>4. ShellTypes
  BY ShellAssumption, Sizes, EmptyPath DEF Init, ShellTypes, Item
<1>5. BootsAtRoot /\ CwdAgrees
  BY DEF Init, BootsAtRoot, CwdAgrees, lookup_path
<1> QED
  BY <1>2, <1>3, <1>4, <1>5 DEF Inv, TreeInv, DiskInv

\* Nothing the shell may create makes the working directory another one.
LEMMA CreateKeepsCwd ==
  ASSUME Inv, NEW path \in Seq(Names), NEW kind \in {FileType, DirType},
         Create(path, kind), UNCHANGED <<g_cwd_inode, g_cwd_path>>,
         kind = FileType \/ path = << >> \/ g_cwd_inode = Root
  PROVE  DiskInv' /\ CwdAgrees'
<1>1. DiskInv /\ g_cwd_inode \in Inodes /\ CwdAgrees
  BY DEF Inv, TreeInv, ShellTypes
<1>k. FreeType # FileType /\ FreeType # DirType /\ FileType # DirType
  BY DEF FreeType, FileType, DirType
<1>r. type[Root] = DirType
  BY <1>1 DEF DiskInv, DiskTypes
<1>2. CASE path = << >>
  <2>1. UNCHANGED disk
    BY <1>2 DEF Create, Begins
  <2>2. DiskInv' /\ type' = type /\ \A p : lookup_path(p)' = lookup_path(p)
    BY <1>1, <2>1, SameDisk
  <2>3. lookup_path(g_cwd_path)' = lookup_path(g_cwd_path)
    BY <2>1 DEF disk, lookup_path
  <2> QED
    BY <1>1, <2>2, <2>3 DEF CwdAgrees
<1>3. CASE kind = FileType \/ g_cwd_inode = Root
  <2>1. /\ DiskInv'
        /\ \A i \in Inodes : type'[i] = type[i] \/ (type[i] = FreeType /\ type'[i] = kind)
        /\ \A p : lookup_path(p) # 0 => lookup_path(p)' = lookup_path(p)
    BY <1>1, CreateKeeps
  <2>2. ASSUME type'[g_cwd_inode] = DirType PROVE lookup_path(g_cwd_path)' = g_cwd_inode
    <3>1. type[g_cwd_inode] = DirType
      BY <1>1, <1>3, <1>k, <1>r, <2>1, <2>2
    <3>2. PICK p : p = g_cwd_path /\ lookup_path(p) = g_cwd_inode
      BY <1>1, <3>1 DEF CwdAgrees
    <3>3. lookup_path(p)' = lookup_path(p)
      BY <1>1, <2>1, <3>2, Sizes
    <3>4. g_cwd_path' = p
      BY <3>2
    <3> QED
      BY <3>2, <3>3, <3>4 DEF lookup_path
  <2> QED
    BY <2>1, <2>2 DEF CwdAgrees
<1> QED
  BY <1>2, <1>3

LEMMA NextInv == Inv /\ [Next]_vars => Inv'
<1> SUFFICES ASSUME Inv, [Next]_vars PROVE Inv'
  OBVIOUS
<1>1. DiskInv /\ ShellTypes /\ BootsAtRoot /\ CwdAgrees /\ TypeInv
  BY DEF Inv, TreeInv, DiskInv, TypeInv
<1>2. CASE EnsureItem
  <2>1. PICK item \in Item : item = Head(todo) /\ Tail(todo) \in Seq(Item)
    BY <1>1, <1>2 DEF EnsureItem, ShellTypes
  <2>2. item.path \in Seq(Names) /\ item.kind \in {FileType, DirType}
    BY DEF Item
  <2>3. Create(item.path, item.kind) /\ UNCHANGED <<g_cwd_inode, g_cwd_path>>
        /\ todo' = Tail(todo) /\ todo # << >>
    BY <1>2, <2>1 DEF EnsureItem
  <2>4. g_cwd_inode = Root /\ g_cwd_path = << >>
    BY <1>1, <2>3 DEF BootsAtRoot
  <2>5. DiskInv' /\ CwdAgrees'
    BY <2>2, <2>3, <2>4, CreateKeepsCwd
  <2>6. ShellTypes' /\ BootsAtRoot'
    BY <1>1, <2>1, <2>3, <2>4 DEF ShellTypes, BootsAtRoot
  <2> QED
    BY <2>5, <2>6 DEF Inv, TreeInv
<1>3. CASE Reboot
  <2>1. DiskInv' /\ type' = type
    BY <1>1, <1>3, SameDisk DEF Reboot
  <2>2. ShellTypes'
    BY <1>3, ShellAssumption, Sizes, EmptyPath DEF Reboot, ShellTypes, Item
  <2>3. BootsAtRoot' /\ CwdAgrees'
    BY <1>3 DEF Reboot, BootsAtRoot, CwdAgrees, lookup_path
  <2> QED
    BY <2>1, <2>2, <2>3 DEF Inv, TreeInv
<1>4. ASSUME NEW in \in Inputs, CDIR(in) PROVE Inv'
  <2>1. PICK p \in Seq(Names) : p = Resolve(in)
    BY <1>1, InputType
  <2>2. PICK i : i = lookup_path(p)
    OBVIOUS
  <2>3. /\ todo = << >> /\ i # 0 /\ type[i] = DirType
        /\ g_cwd_inode' = i /\ g_cwd_path' = p /\ UNCHANGED <<disk, todo>>
    BY <1>4, <2>1, <2>2 DEF CDIR, AtPrompt
  <2>4. i \in Inodes
    BY <1>1, <2>2, <2>3, Sizes DEF lookup_path, DiskInv, DiskTypes
  <2>5. DiskInv' /\ type' = type /\ lookup_path(p)' = i
    BY <1>1, <2>2, <2>3, SameDisk
  <2>6. ShellTypes' /\ BootsAtRoot'
    BY <1>1, <2>3, <2>4 DEF ShellTypes, BootsAtRoot
  <2>7. CwdAgrees'
    BY <2>3, <2>5 DEF CwdAgrees, lookup_path
  <2> QED
    BY <2>5, <2>6, <2>7 DEF Inv, TreeInv
<1>5. ASSUME NEW in \in Inputs, MAKE(in) \/ WRITE(in) PROVE Inv'
  <2>1. PICK p \in Seq(Names) : p = Resolve(in)
    BY <1>1, InputType
  <2>2. PICK kind \in {FileType, DirType} :
          Create(p, kind) /\ (kind = FileType \/ p = << >>)
    BY <1>5, <2>1 DEF MAKE, WRITE, is_dir
  <2>3. UNCHANGED <<g_cwd_inode, g_cwd_path, todo>>
    BY <1>5 DEF MAKE, WRITE, shell
  <2>4. DiskInv' /\ CwdAgrees'
    BY <2>2, <2>3, CreateKeepsCwd
  <2>5. ShellTypes' /\ BootsAtRoot'
    BY <1>1, <2>3 DEF ShellTypes, BootsAtRoot
  <2> QED
    BY <2>4, <2>5 DEF Inv, TreeInv
<1>6. ASSUME NEW in \in Inputs, REMOVE(in) PROVE Inv'
  <2>1. PICK p \in Seq(Names) : p = Resolve(in)
    BY <1>1, InputType
  <2>2. /\ Removable(p) /\ type' = [type EXCEPT ![lookup_path(p)] = FreeType]
        /\ tree' = [q \in DOMAIN tree \ {p} |-> tree[q]] /\ up' = up
        /\ g_cwd_inode' = g_cwd_inode /\ g_cwd_path' = g_cwd_path /\ todo' = todo
    BY <1>6, <2>1 DEF REMOVE, shell
  <2>3. /\ DiskInv'
        /\ \A j \in Inodes : type'[j] = IF j = lookup_path(p) THEN FreeType ELSE type[j]
        /\ \A q : q # p => lookup_path(q)' = lookup_path(q)
    BY <1>1, <2>2, RemoveKeeps
  <2>4. ShellTypes' /\ BootsAtRoot'
    BY <1>1, <2>2 DEF ShellTypes, BootsAtRoot
  <2>5. ASSUME type'[g_cwd_inode] = DirType PROVE lookup_path(g_cwd_path)' = g_cwd_inode
    <3>1. g_cwd_inode # lookup_path(p) /\ type[g_cwd_inode] = DirType
      BY <1>1, <2>3, <2>5 DEF ShellTypes, FreeType, DirType
    <3>2. PICK q : q = g_cwd_path /\ lookup_path(q) = g_cwd_inode
      BY <1>1, <3>1 DEF CwdAgrees
    <3>3. lookup_path(q)' = lookup_path(q)
      BY <2>3, <3>1, <3>2
    <3>4. g_cwd_path' = q
      BY <2>2, <3>2
    <3> QED
      BY <3>2, <3>3, <3>4 DEF lookup_path
  <2>6. CwdAgrees'
    BY <2>2, <2>5 DEF CwdAgrees
  <2> QED
    BY <2>3, <2>4, <2>6 DEF Inv, TreeInv
<1>7. CASE UNCHANGED vars
  <2>1. UNCHANGED disk /\ UNCHANGED <<g_cwd_inode, g_cwd_path, todo>>
    BY <1>7 DEF vars, shell
  <2>2. DiskInv' /\ type' = type
    BY <1>1, <2>1, SameDisk
  <2>3. ShellTypes' /\ BootsAtRoot' /\ CwdAgrees'
    BY <1>1, <2>1 DEF disk, ShellTypes, BootsAtRoot, CwdAgrees, lookup_path
  <2> QED
    BY <2>2, <2>3 DEF Inv, TreeInv
<1> QED
  BY <1>2, <1>3, <1>4, <1>5, <1>6, <1>7 DEF Next

\* The name space is a tree of directories in which each inode has one path
\* and ".." leads up: what resolve_path and the working directory rely on.
THEOREM ShellInvariant == Spec => []Inv
<1>1. Init => Inv
  BY InitInv
<1>2. Inv /\ [Next]_vars => Inv'
  BY NextInv
<1> QED
  BY <1>1, <1>2, PTL DEF Spec

\* LDIR and the prompt speak of the same directory, whatever was removed.
THEOREM WorkingDirectoryAgrees == Spec => []CwdAgrees
<1>1. Inv => CwdAgrees
  BY DEF Inv
<1> QED
  BY <1>1, ShellInvariant, PTL

\* Paths resolved as text lead where the entries on the disk lead, from the
\* root, from the home directory and from a working directory that may be gone.
THEOREM TextLeadsWhereDiskDoes == Spec => []LexicalIsPhysical
<1>1. Inv => LexicalIsPhysical
  BY TextIsDisk
<1> QED
  BY <1>1, ShellInvariant, PTL
=============================================================================
