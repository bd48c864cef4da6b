--------------------------- MODULE TerminalProofs ---------------------------
(***************************************************************************)
(* The text console implements the transcript, and what stands before the  *)
(* cursor is the prompt and the line that will run.                        *)
(*                                                                         *)
(* The screen is a window on a sheet of rows that only grows (Rows).  That *)
(* every character written is a step of the sheet needs one fact more: the *)
(* rows below the cursor are empty.  The line is then followed on the      *)
(* sheet alone, through the characters that are still to be written.       *)
(***************************************************************************)
EXTENDS Terminal, TLAPS

-----------------------------------------------------------------------------
(* Sequences, and the window on the sheet. *)

LEMMA SameSequence ==
  ASSUME NEW R, NEW s \in Seq(R), NEW t \in Seq(R), Len(s) = Len(t),
         \A i \in 1..Len(s) : s[i] = t[i]
  PROVE  s = t
  OBVIOUS

RowType == [1..VGA_WIDTH -> Chars]

WithRow(v, k, w) == [v EXCEPT ![k] = w]
Gone(s, v) == Append(s, Head(v))
MovedUp(v, e) == Append(Tail(v), e)
RowsOf(s, v, r) == s \o SubSeq(v, 1, r + 1)

LEMMA ConcatIs ==
  ASSUME NEW R, NEW s \in Seq(R), NEW u \in Seq(R), NEW t, t = s \o u
  PROVE  /\ t \in Seq(R) /\ Len(t) = Len(s) + Len(u) /\ Len(s) \in Nat /\ Len(u) \in Nat
         /\ \A i \in DOMAIN t : t[i] = IF i <= Len(s) THEN s[i] ELSE u[i - Len(s)]
  OBVIOUS

LEMMA PrefixIs ==
  ASSUME NEW R, NEW v \in Seq(R), NEW k \in Nat, 1 <= k, k <= Len(v), NEW u, u = SubSeq(v, 1, k)
  PROVE  u \in Seq(R) /\ Len(u) = k /\ \A i \in 1..k : u[i] = v[i]
  OBVIOUS

LEMMA RowsOfIs ==
  ASSUME NEW R, NEW s \in Seq(R), NEW v \in Seq(R), NEW r \in Nat, r + 1 <= Len(v),
         NEW t, t = RowsOf(s, v, r)
  PROVE  /\ t \in Seq(R) /\ Len(t) = Len(s) + r + 1 /\ Len(s) \in Nat
         /\ \A i \in 1..Len(t) : t[i] = IF i <= Len(s) THEN s[i] ELSE v[i - Len(s)]
         /\ t[Len(t)] = v[r + 1]
<1>1. PICK k : k = r + 1
  OBVIOUS
<1>2. PICK u : u = SubSeq(v, 1, k)
  OBVIOUS
<1>3. k \in Nat /\ 1 <= k /\ k <= Len(v)
  BY <1>1
<1>4. u \in Seq(R) /\ Len(u) = k /\ \A i \in 1..k : u[i] = v[i]
  BY <1>2, <1>3, PrefixIs
<1>5. t = s \o u
  BY <1>1, <1>2 DEF RowsOf
<1>6. /\ t \in Seq(R) /\ Len(t) = Len(s) + Len(u) /\ Len(s) \in Nat
      /\ \A i \in DOMAIN t : t[i] = IF i <= Len(s) THEN s[i] ELSE u[i - Len(s)]
  BY <1>4, <1>5, ConcatIs
<1>7. ASSUME NEW i \in 1..Len(t) PROVE t[i] = IF i <= Len(s) THEN s[i] ELSE v[i - Len(s)]
  <2>1. i \in DOMAIN t
    BY ONLY <1>6, i \in 1..Len(t)
  <2>2. t[i] = IF i <= Len(s) THEN s[i] ELSE u[i - Len(s)]
    BY <1>6, <2>1
  <2>3. CASE i <= Len(s)
    BY <2>2, <2>3
  <2>4. CASE ~(i <= Len(s))
    <3>1. i - Len(s) \in 1..k
      BY ONLY <1>3, <1>4, <1>6, <2>4, i \in 1..Len(t)
    <3> QED
      BY <1>4, <2>2, <2>4, <3>1
  <2> QED
    BY <2>3, <2>4
<1>8. t[Len(t)] = v[r + 1]
  <2>1. PICK n : n = Len(t)
    OBVIOUS
  <2>2. n \in 1..Len(t) /\ ~(n <= Len(s)) /\ n - Len(s) = k
    BY ONLY <1>3, <1>4, <1>6, <2>1
  <2>3. t[n] = v[n - Len(s)]
    BY <1>7, <2>2
  <2> QED
    BY <1>1, <2>1, <2>2, <2>3
<1>9. Len(t) = Len(s) + r + 1
  BY ONLY <1>1, <1>4, <1>6, r \in Nat
<1> QED
  BY <1>6, <1>7, <1>8, <1>9

LEMMA AppendIs ==
  ASSUME NEW R, NEW s \in Seq(R), NEW e \in R, NEW t, t = Append(s, e)
  PROVE  /\ t \in Seq(R) /\ Len(t) = Len(s) + 1 /\ Len(s) \in Nat /\ t[Len(s) + 1] = e
         /\ \A i \in 1..Len(s) : t[i] = s[i]
  OBVIOUS

LEMMA SetIs ==
  ASSUME NEW R, NEW s \in Seq(R), NEW k \in 1..Len(s), NEW e \in R, NEW t, t = [s EXCEPT ![k] = e]
  PROVE  /\ t \in Seq(R) /\ Len(t) = Len(s) /\ t[k] = e
         /\ \A i \in 1..Len(s) : i # k => t[i] = s[i]
  OBVIOUS

LEMMA TailIs ==
  ASSUME NEW R, NEW s \in Seq(R), NEW n \in Nat, Len(s) = n + 1, NEW t, t = Tail(s)
  PROVE  /\ t \in Seq(R) /\ Len(t) = n /\ Head(s) = s[1] /\ s[1] \in R
         /\ \A i \in 1..n : t[i] = s[i + 1]
  OBVIOUS

LEMMA LastRow ==
  ASSUME NEW s \in Seq(RowType), NEW v \in Seq(RowType), NEW r \in Nat, r + 1 <= Len(v)
  PROVE  RowsOf(s, v, r)[Len(RowsOf(s, v, r))] = v[r + 1]
  BY RowsOfIs

\* A character changes the last row of the sheet.
LEMMA SheetSet ==
  ASSUME NEW s \in Seq(RowType), NEW v \in Seq(RowType), NEW r \in Nat, r + 1 <= Len(v),
         NEW w \in RowType
  PROVE  /\ WithRow(v, r + 1, w) \in Seq(RowType) /\ Len(WithRow(v, r + 1, w)) = Len(v)
         /\ WithRow(v, r + 1, w)[r + 1] = w
         /\ \A y \in 1..Len(v) : y # r + 1 => WithRow(v, r + 1, w)[y] = v[y]
         /\ RowsOf(s, WithRow(v, r + 1, w), r) = WithRow(RowsOf(s, v, r), Len(RowsOf(s, v, r)), w)
<1>0. PICK k : k = r + 1
  OBVIOUS
<1>u. PICK u : u = WithRow(v, k, w)
  OBVIOUS
<1>t. PICK t : t = RowsOf(s, v, r)
  OBVIOUS
<1>n. PICK n : n = Len(t)
  OBVIOUS
<1>1. k \in 1..Len(v) /\ k \in Nat
  BY ONLY <1>0, r \in Nat, r + 1 <= Len(v), v \in Seq(RowType)
<1>2. /\ u \in Seq(RowType) /\ Len(u) = Len(v) /\ u[k] = w
      /\ \A y \in 1..Len(v) : y # k => u[y] = v[y]
  BY <1>1, <1>u, SetIs DEF WithRow
<1>3. /\ t \in Seq(RowType) /\ n = Len(s) + r + 1 /\ Len(s) \in Nat /\ t[n] = v[k] /\ Len(t) = n
      /\ \A i \in 1..n : t[i] = IF i <= Len(s) THEN s[i] ELSE v[i - Len(s)]
  <2>1. /\ t \in Seq(RowType) /\ Len(t) = Len(s) + r + 1 /\ Len(s) \in Nat
        /\ \A i \in 1..Len(t) : t[i] = IF i <= Len(s) THEN s[i] ELSE v[i - Len(s)]
        /\ t[Len(t)] = v[r + 1]
    BY <1>t, RowsOfIs
  <2> QED
    BY <1>0, <1>n, <2>1
<1>4. PICK q : q = RowsOf(s, u, r)
  OBVIOUS
<1>5. /\ q \in Seq(RowType) /\ Len(q) = n /\ q[n] = w
      /\ \A i \in 1..n : q[i] = IF i <= Len(s) THEN s[i] ELSE u[i - Len(s)]
  <2>1. r + 1 <= Len(u)
    BY <1>2
  <2>2. /\ q \in Seq(RowType) /\ Len(q) = Len(s) + r + 1 /\ q[Len(q)] = u[r + 1]
        /\ \A i \in 1..Len(q) : q[i] = IF i <= Len(s) THEN s[i] ELSE u[i - Len(s)]
    <3>1. u \in Seq(RowType)
      BY <1>2
    <3> QED
      BY ONLY <1>4, <2>1, <3>1, s \in Seq(RowType), r \in Nat, RowsOfIs
  <2>3. Len(q) = n
    BY <1>3, <2>2
  <2> QED
    BY <1>0, <1>2, <2>2, <2>3
<1>6. PICK p : p = WithRow(t, n, w)
  OBVIOUS
<1>7. n \in 1..Len(t) /\ n \in Nat
  BY ONLY <1>3, r \in Nat
<1>8. p \in Seq(RowType) /\ Len(p) = n /\ p[n] = w /\ \A i \in 1..n : i # n => p[i] = t[i]
  <2>1. t \in Seq(RowType) /\ Len(t) = n
    BY <1>3
  <2>2. /\ p \in Seq(RowType) /\ Len(p) = Len(t) /\ p[n] = w
        /\ \A i \in 1..Len(t) : i # n => p[i] = t[i]
    BY ONLY <1>6, <1>7, <2>1, w \in RowType, SetIs DEF WithRow
  <2> QED
    BY ONLY <2>1, <2>2
<1>9. ASSUME NEW i \in 1..n PROVE q[i] = p[i]
  <2>1. CASE i = n
    BY <1>5, <1>8, <2>1
  <2>2. CASE i # n /\ i <= Len(s)
    BY <1>3, <1>5, <1>8, <2>2
  <2>3. CASE i # n /\ ~(i <= Len(s))
    <3>1. i - Len(s) \in 1..Len(v) /\ i - Len(s) # k
      BY ONLY <1>3, <1>0, <2>3, r \in Nat, i \in 1..n, v \in Seq(RowType), r + 1 <= Len(v)
    <3>2. u[i - Len(s)] = v[i - Len(s)]
      BY <1>2, <3>1
    <3> QED
      BY <1>3, <1>5, <1>8, <2>3, <3>2
  <2> QED
    BY <2>1, <2>2, <2>3
<1>10. q = p
  BY <1>5, <1>8, <1>9, SameSequence
<1> QED
  BY <1>0, <1>u, <1>t, <1>n, <1>2, <1>4, <1>6, <1>10

\* The cursor goes down on the screen.
LEMMA SheetDown ==
  ASSUME NEW s \in Seq(RowType), NEW v \in Seq(RowType), NEW r \in Nat, r + 2 <= Len(v),
         NEW k, k = r + 1, NEW e, e = v[r + 2]
  PROVE  RowsOf(s, v, k) = Append(RowsOf(s, v, r), e)
<1>1. PICK t : t = RowsOf(s, v, r)
  OBVIOUS
<1>2. PICK q : q = RowsOf(s, v, k)
  OBVIOUS
<1>3. PICK p : p = Append(t, e)
  OBVIOUS
<1>4. k \in Nat /\ r + 1 <= Len(v) /\ k + 1 <= Len(v) /\ e \in RowType /\ k + 1 = r + 2
  BY ONLY k = r + 1, r \in Nat, r + 2 <= Len(v), v \in Seq(RowType), e = v[r + 2]
<1>5. /\ t \in Seq(RowType) /\ Len(t) = Len(s) + r + 1 /\ Len(s) \in Nat
      /\ \A i \in 1..Len(t) : t[i] = IF i <= Len(s) THEN s[i] ELSE v[i - Len(s)]
  BY <1>1, <1>4, RowsOfIs
<1>6. /\ q \in Seq(RowType) /\ Len(q) = Len(s) + k + 1
      /\ \A i \in 1..Len(q) : q[i] = IF i <= Len(s) THEN s[i] ELSE v[i - Len(s)]
      /\ q[Len(q)] = v[k + 1]
  BY <1>2, <1>4, RowsOfIs
<1>7. /\ p \in Seq(RowType) /\ Len(p) = Len(t) + 1 /\ p[Len(t) + 1] = e /\ Len(t) \in Nat
      /\ \A i \in 1..Len(t) : p[i] = t[i]
  <2>1. t \in Seq(RowType)
    BY <1>5
  <2>2. e \in RowType
    BY <1>4
  <2> QED
    BY ONLY <1>3, <2>1, <2>2, AppendIs
<1>8. Len(q) = Len(t) + 1
  BY ONLY <1>5, <1>6, <1>7, k = r + 1, r \in Nat
<1>9. ASSUME NEW i \in 1..Len(q) PROVE q[i] = p[i]
  <2>1. CASE i = Len(t) + 1
    BY <1>4, <1>6, <1>7, <1>8, <2>1
  <2>2. CASE i # Len(t) + 1
    <3>1. i \in 1..Len(t)
      BY ONLY <1>7, <1>8, <2>2, i \in 1..Len(q)
    <3> QED
      BY <1>5, <1>6, <1>7, <3>1
  <2> QED
    BY <2>1, <2>2
<1>10. q = p
  BY <1>6, <1>7, <1>8, <1>9, SameSequence
<1> QED
  BY <1>1, <1>2, <1>3, <1>10

\* At the bottom of the screen the sheet moves up under the window.
LEMMA SheetScroll ==
  ASSUME NEW s \in Seq(RowType), NEW v \in Seq(RowType), NEW r \in Nat, r + 1 = Len(v),
         NEW e \in RowType
  PROVE  /\ MovedUp(v, e) \in Seq(RowType) /\ Len(MovedUp(v, e)) = Len(v)
         /\ MovedUp(v, e)[Len(v)] = e /\ Gone(s, v) \in Seq(RowType)
         /\ RowsOf(Gone(s, v), MovedUp(v, e), r) = Append(RowsOf(s, v, r), e)
<1>u. PICK u : u = MovedUp(v, e)
  OBVIOUS
<1>a. PICK a : a = Gone(s, v)
  OBVIOUS
<1>1. PICK tl : tl = Tail(v)
  OBVIOUS
<1>2. PICK h : h = Head(v)
  OBVIOUS
<1>3. /\ h = v[1] /\ h \in RowType /\ tl \in Seq(RowType) /\ Len(tl) = r
      /\ \A i \in 1..r : tl[i] = v[i + 1]
  BY <1>1, <1>2, TailIs
<1>4. u \in Seq(RowType) /\ Len(u) = r + 1 /\ (\A i \in 1..r : u[i] = v[i + 1]) /\ u[r + 1] = e
  <2>1. u = Append(tl, e)
    BY <1>1, <1>u DEF MovedUp
  <2>2. /\ u \in Seq(RowType) /\ Len(u) = Len(tl) + 1 /\ u[Len(tl) + 1] = e
        /\ \A i \in 1..Len(tl) : u[i] = tl[i]
    BY <1>3, <2>1, AppendIs
  <2> QED
    BY <1>3, <2>2
<1>5. /\ a \in Seq(RowType) /\ Len(a) = Len(s) + 1 /\ (\A i \in 1..Len(s) : a[i] = s[i])
      /\ a[Len(s) + 1] = v[1] /\ Len(s) \in Nat
  <2>1. a = Append(s, h)
    BY <1>2, <1>a DEF Gone
  <2> QED
    BY <1>3, <2>1, AppendIs
<1>6. PICK t : t = RowsOf(s, v, r)
  OBVIOUS
<1>7. PICK q : q = RowsOf(a, u, r)
  OBVIOUS
<1>8. PICK p : p = Append(t, e)
  OBVIOUS
<1>9. /\ t \in Seq(RowType) /\ Len(t) = Len(s) + r + 1
      /\ \A i \in 1..Len(t) : t[i] = IF i <= Len(s) THEN s[i] ELSE v[i - Len(s)]
  BY <1>6, RowsOfIs
<1>10. /\ q \in Seq(RowType) /\ Len(q) = Len(a) + r + 1
       /\ \A i \in 1..Len(q) : q[i] = IF i <= Len(a) THEN a[i] ELSE u[i - Len(a)]
       /\ q[Len(q)] = u[r + 1]
  <2>1. r + 1 <= Len(u)
    BY <1>4
  <2> QED
    <3>1. u \in Seq(RowType) /\ a \in Seq(RowType)
      BY <1>4, <1>5
    <3> QED
      BY ONLY <1>7, <2>1, <3>1, r \in Nat, RowsOfIs
<1>11. /\ p \in Seq(RowType) /\ Len(p) = Len(t) + 1 /\ p[Len(t) + 1] = e /\ Len(t) \in Nat
       /\ \A i \in 1..Len(t) : p[i] = t[i]
  <2>1. t \in Seq(RowType)
    BY <1>9
  <2> QED
    BY ONLY <1>8, <2>1, e \in RowType, AppendIs
<1>12. Len(q) = Len(t) + 1
  BY ONLY <1>5, <1>9, <1>10, <1>11, r \in Nat
<1>13. ASSUME NEW i \in 1..Len(q) PROVE q[i] = p[i]
  <2>1. CASE i = Len(t) + 1
    BY <1>4, <1>10, <1>11, <1>12, <2>1
  <2>2. CASE i <= Len(s)
    <3>1. i \in 1..Len(s) /\ i <= Len(a) /\ i \in 1..Len(t)
      BY ONLY <1>5, <1>9, <2>2, i \in 1..Len(q), r \in Nat
    <3> QED
      BY <1>5, <1>9, <1>10, <1>11, <2>2, <3>1
  <2>3. CASE i = Len(s) + 1
    <3>1. i <= Len(a) /\ i \in 1..Len(t) /\ ~(i <= Len(s)) /\ i - Len(s) = 1
      BY ONLY <1>5, <1>9, <2>3, r \in Nat
    <3> QED
      BY <1>5, <1>9, <1>10, <1>11, <2>3, <3>1
  <2>4. CASE i > Len(s) + 1 /\ i # Len(t) + 1
    <3>1. PICK j : j = i - Len(a)
      OBVIOUS
    <3>2. j \in 1..r /\ ~(i <= Len(a)) /\ ~(i <= Len(s)) /\ i \in 1..Len(t) /\ i - Len(s) = j + 1
      <4>1. Len(a) = Len(s) + 1 /\ Len(s) \in Nat /\ Len(t) = Len(s) + r + 1
        BY <1>5, <1>9
      <4>2. Len(q) = Len(t) + 1
        BY <1>12
      <4> QED
        BY ONLY <2>4, <3>1, <4>1, <4>2, i \in 1..Len(q), r \in Nat
    <3>3. q[i] = u[j] /\ t[i] = v[j + 1]
      BY <1>9, <1>10, <3>1, <3>2
    <3> QED
      BY <1>4, <1>11, <3>2, <3>3
  <2> QED
    BY ONLY <1>5, <1>12, <2>1, <2>2, <2>3, <2>4, i \in 1..Len(q), r \in Nat
<1>14. q = p
  BY <1>10, <1>11, <1>12, <1>13, SameSequence
<1> QED
  BY <1>u, <1>a, <1>4, <1>5, <1>6, <1>7, <1>8, <1>14

-----------------------------------------------------------------------------
(* The console. *)

\* What stands on the screen and above it, and where the cursor is.
ConsoleTyped ==
  /\ vga \in Seq(RowType) /\ Len(vga) = VGA_HEIGHT /\ scrolled \in Seq(RowType)
  /\ row \in 0..(VGA_HEIGHT - 1) /\ col \in 0..(VGA_WIDTH - 1)

\* Nothing stands after the cursor: every backspace leaves a blank, and a row
\* is empty when the cursor comes to it.
NothingBelow == \A y \in (row + 2)..VGA_HEIGHT : vga[y] = EmptyRow
NothingRight == \A x \in (col + 1)..VGA_WIDTH : vga[row + 1][x] = Blank

ConsoleInv == ConsoleTyped /\ NothingBelow /\ NothingRight

LEMMA EmptyRowIs ==
  /\ VGA_WIDTH \in Nat \ {0} /\ VGA_HEIGHT \in Nat \ {0} /\ Blank \in Chars
  /\ EmptyRow \in RowType /\ \A x \in 1..VGA_WIDTH : EmptyRow[x] = Blank
<1>1. VGA_WIDTH \in Nat \ {0} /\ VGA_HEIGHT \in Nat \ {0}
  BY TerminalAssumption
<1>2. Blank \in Chars
  BY DEF Chars
<1> QED
  BY <1>1, <1>2 DEF EmptyRow, RowType

\* A cell of the row of the cursor is written.
CursorRow(c, x) == [vga[row + 1] EXCEPT ![x + 1] = c]
OnSheet(c, x) == [Rows EXCEPT ![Len(Rows)][x + 1] = c]

LEMMA CellSet ==
  ASSUME ConsoleTyped, NEW x \in 0..(VGA_WIDTH - 1), NEW c \in Chars
  PROVE  /\ PutAt(c, x) \in Seq(RowType) /\ Len(PutAt(c, x)) = VGA_HEIGHT
         /\ PutAt(c, x)[row + 1] = CursorRow(c, x)
         /\ \A y \in 1..VGA_HEIGHT : y # row + 1 => PutAt(c, x)[y] = vga[y]
         /\ CursorRow(c, x) \in RowType /\ CursorRow(c, x)[x + 1] = c
         /\ \A z \in 1..VGA_WIDTH : z # x + 1 => CursorRow(c, x)[z] = vga[row + 1][z]
         /\ RowsOf(scrolled, PutAt(c, x), row) = OnSheet(c, x)
<1>u. PICK u : u = PutAt(c, x)
  OBVIOUS
<1>w. PICK w : w = CursorRow(c, x)
  OBVIOUS
<1>1. /\ vga \in Seq(RowType) /\ Len(vga) = VGA_HEIGHT /\ scrolled \in Seq(RowType)
      /\ row \in Nat /\ row + 1 <= Len(vga) /\ row + 1 \in 1..Len(vga)
  BY EmptyRowIs DEF ConsoleTyped
<1>2. PICK v \in Seq(RowType) : v = vga
  BY <1>1
<1>3. PICK s \in Seq(RowType) : s = scrolled
  BY <1>1
<1>4. PICK r \in Nat : r = row
  BY <1>1
<1>5. vga[row + 1] \in RowType
  BY <1>1
<1>6. /\ w \in RowType /\ w[x + 1] = c
      /\ \A z \in 1..VGA_WIDTH : z # x + 1 => w[z] = vga[row + 1][z]
  <2>1. x + 1 \in 1..VGA_WIDTH
    BY EmptyRowIs
  <2>2. w = [vga[row + 1] EXCEPT ![x + 1] = c]
    BY <1>w DEF CursorRow
  <2> QED
    BY <1>5, <2>1, <2>2 DEF RowType
<1>7. u = WithRow(v, r + 1, w)
  BY <1>2, <1>4, <1>u, <1>w DEF WithRow, PutAt, CursorRow
<1>8. r + 1 <= Len(v) /\ r + 1 \in 1..Len(v)
  BY <1>1, <1>2, <1>4
<1>9. /\ u \in Seq(RowType) /\ Len(u) = Len(v) /\ u[r + 1] = w
      /\ \A y \in 1..Len(v) : y # r + 1 => u[y] = v[y]
      /\ RowsOf(s, u, r) = WithRow(RowsOf(s, v, r), Len(RowsOf(s, v, r)), w)
  <2>1. w \in RowType
    BY <1>6
  <2>2. r + 1 <= Len(v)
    BY <1>8
  <2>3. /\ WithRow(v, r + 1, w) \in Seq(RowType) /\ Len(WithRow(v, r + 1, w)) = Len(v)
        /\ WithRow(v, r + 1, w)[r + 1] = w
        /\ \A y \in 1..Len(v) : y # r + 1 => WithRow(v, r + 1, w)[y] = v[y]
        /\ RowsOf(s, WithRow(v, r + 1, w), r) = WithRow(RowsOf(s, v, r), Len(RowsOf(s, v, r)), w)
    BY ONLY <2>1, <2>2, v \in Seq(RowType), s \in Seq(RowType), r \in Nat, SheetSet
  <2> QED
    BY <1>7, <2>3
<1>10. PICK t : t = RowsOf(s, v, r)
  OBVIOUS
<1>11. t[Len(t)] = v[r + 1]
  <2>1. r + 1 <= Len(v)
    BY <1>8
  <2> QED
    BY <1>10, <2>1, LastRow
<1>12. WithRow(t, Len(t), w) = OnSheet(c, x)
  <2>1. t = Rows
    BY <1>2, <1>3, <1>4, <1>10 DEF Rows, RowsOf
  <2> QED
    BY <1>2, <1>4, <1>11, <1>w, <2>1 DEF WithRow, OnSheet, CursorRow
<1> QED
  <2>1. /\ u \in Seq(RowType) /\ Len(u) = VGA_HEIGHT /\ u[row + 1] = w
        /\ \A y \in 1..VGA_HEIGHT : y # row + 1 => u[y] = vga[y]
    BY <1>1, <1>2, <1>4, <1>9
  <2>2. RowsOf(scrolled, u, row) = OnSheet(c, x)
    BY <1>2, <1>3, <1>4, <1>9, <1>10, <1>12
  <2> QED
    BY <1>6, <1>u, <1>w, <2>1, <2>2

\* The cursor goes to the next row, which is empty.
LEMMA RowStep ==
  ASSUME ConsoleTyped, NEW v \in Seq(RowType), Len(v) = VGA_HEIGHT,
         \A y \in (row + 2)..VGA_HEIGHT : v[y] = EmptyRow, NextRow(v)
  PROVE  ConsoleInv' /\ col' = 0 /\ Rows' = Append(RowsOf(scrolled, v, row), EmptyRow)
<1>1. PICK r : r = row
  OBVIOUS
<1>2. PICK s : s = scrolled
  OBVIOUS
<1>3. PICK e : e = EmptyRow
  OBVIOUS
<1>4. PICK k : k = r + 1
  OBVIOUS
<1>5. /\ r \in Nat /\ r + 1 <= VGA_HEIGHT /\ s \in Seq(RowType) /\ e \in RowType
      /\ VGA_WIDTH \in Nat \ {0} /\ VGA_HEIGHT \in Nat \ {0}
  BY <1>1, <1>2, <1>3, EmptyRowIs DEF ConsoleTyped
<1>6. col' = 0
  BY DEF NextRow
<1>7. CASE RoomBelow
  <2>1. r + 2 <= VGA_HEIGHT /\ v[r + 2] = e
    BY <1>1, <1>3, <1>5, <1>7 DEF RoomBelow
  <2>2. vga' = v /\ row' = k /\ scrolled' = s /\ k \in 1..(VGA_HEIGHT - 1)
    BY <1>1, <1>2, <1>4, <1>5, <1>7, <2>1 DEF NextRow
  <2>3. RowsOf(s, v, k) = Append(RowsOf(s, v, r), e)
    <3>1. r + 2 <= Len(v) /\ e = v[r + 2] /\ r \in Nat /\ s \in Seq(RowType)
      BY <1>5, <2>1
    <3> QED
      BY ONLY <1>4, <3>1, v \in Seq(RowType), SheetDown
  <2>4. Rows' = RowsOf(s, v, k)
    BY <2>2 DEF Rows, RowsOf
  <2>5. ConsoleTyped'
    BY <1>5, <1>6, <2>2 DEF ConsoleTyped, RowType
  <2>6. NothingBelow'
    BY <1>1, <1>3, <1>4, <1>5, <2>2 DEF NothingBelow, EmptyRow
  <2>7. NothingRight'
    <3>1. vga'[row' + 1] = e
      BY <1>4, <1>5, <2>1, <2>2
    <3> QED
      BY <1>3, <1>6, <3>1, EmptyRowIs DEF NothingRight
  <2> QED
    BY <1>1, <1>2, <1>3, <1>6, <2>3, <2>4, <2>5, <2>6, <2>7 DEF ConsoleInv
<1>8. CASE ~RoomBelow
  <2>1. PICK u : u = MovedUp(v, e)
    OBVIOUS
  <2>2. PICK a : a = Gone(s, v)
    OBVIOUS
  <2>3. r + 1 = VGA_HEIGHT
    BY <1>1, <1>5, <1>8 DEF RoomBelow
  <2>4. vga' = u /\ row' = r /\ scrolled' = a
    BY <1>1, <1>2, <1>3, <1>8, <2>1, <2>2 DEF NextRow, ClearedRow, MovedUp, Gone
  <2>5. /\ u \in Seq(RowType) /\ Len(u) = Len(v) /\ u[Len(v)] = e /\ a \in Seq(RowType)
        /\ RowsOf(a, u, r) = Append(RowsOf(s, v, r), e)
    <3>1. r + 1 = Len(v) /\ r \in Nat /\ s \in Seq(RowType) /\ e \in RowType
      BY <1>5, <2>3
    <3> QED
      BY <2>1, <2>2, <3>1, SheetScroll
  <2>6. Rows' = RowsOf(a, u, r)
    BY <2>4 DEF Rows, RowsOf
  <2>7. ConsoleTyped'
    BY <1>5, <1>6, <2>3, <2>4, <2>5 DEF ConsoleTyped, RowType
  <2>8. NothingBelow'
    BY <1>5, <2>3, <2>4 DEF NothingBelow
  <2>9. NothingRight'
    BY <1>3, <1>6, <2>3, <2>4, <2>5, EmptyRowIs DEF NothingRight
  <2> QED
    BY <1>1, <1>2, <1>3, <1>6, <2>5, <2>6, <2>7, <2>8, <2>9 DEF ConsoleInv
<1> QED
  BY <1>7, <1>8

\* A character is written: the last row gets it, and after the last cell of
\* the row the cursor goes to a new one.
LEMMA PutStep ==
  ASSUME ConsoleInv, NEW c \in Chars, Put(c)
  PROVE  ConsoleInv' /\ Sheet!Put(c)
<1>1. PICK u : u = PutAt(c, col)
  OBVIOUS
<1>2. PICK w : w = CursorRow(c, col)
  OBVIOUS
<1>3. /\ VGA_WIDTH \in Nat \ {0} /\ VGA_HEIGHT \in Nat \ {0} /\ scrolled \in Seq(RowType)
      /\ row \in 0..(VGA_HEIGHT - 1) /\ col \in 0..(VGA_WIDTH - 1)
  BY EmptyRowIs DEF ConsoleInv, ConsoleTyped
<1>4. /\ u \in Seq(RowType) /\ Len(u) = VGA_HEIGHT /\ u[row + 1] = w
      /\ \A y \in 1..VGA_HEIGHT : y # row + 1 => u[y] = vga[y]
      /\ \A z \in 1..VGA_WIDTH : z # col + 1 => w[z] = vga[row + 1][z]
      /\ RowsOf(scrolled, u, row) = OnSheet(c, col)
  <2>1. ConsoleTyped
    BY DEF ConsoleInv
  <2>2. PICK x \in 0..(VGA_WIDTH - 1) : x = col
    BY <1>3
  <2>3. /\ PutAt(c, x) \in Seq(RowType) /\ Len(PutAt(c, x)) = VGA_HEIGHT
        /\ PutAt(c, x)[row + 1] = CursorRow(c, x)
        /\ \A y \in 1..VGA_HEIGHT : y # row + 1 => PutAt(c, x)[y] = vga[y]
        /\ \A z \in 1..VGA_WIDTH : z # x + 1 => CursorRow(c, x)[z] = vga[row + 1][z]
        /\ RowsOf(scrolled, PutAt(c, x), row) = OnSheet(c, x)
    BY ONLY <2>1, x \in 0..(VGA_WIDTH - 1), c \in Chars, CellSet
  <2> QED
    BY <1>1, <1>2, <2>2, <2>3
<1>5. RowsOf(scrolled, u, row) = Sheet!Written(c)
  BY <1>4 DEF Sheet!Written, OnSheet
<1>6. \A y \in (row + 2)..VGA_HEIGHT : u[y] = EmptyRow
  <2>1. \A y \in (row + 2)..VGA_HEIGHT : vga[y] = EmptyRow
    BY DEF ConsoleInv, NothingBelow
  <2>2. \A y \in (row + 2)..VGA_HEIGHT : y \in 1..VGA_HEIGHT /\ y # row + 1
    BY ONLY <1>3
  <2>3. \A y \in 1..VGA_HEIGHT : y # row + 1 => u[y] = vga[y]
    BY <1>4
  <2> QED
    BY ONLY <2>1, <2>2, <2>3
<1>7. CASE col + 1 < VGA_WIDTH
  <2>1. vga' = u /\ col' = col + 1 /\ row' = row /\ scrolled' = scrolled
    BY <1>1, <1>7 DEF Put
  <2>2. Rows' = RowsOf(scrolled, u, row)
    BY <2>1 DEF Rows, RowsOf
  <2>3. ConsoleTyped'
    <3>1. u \in Seq(RowType) /\ Len(u) = VGA_HEIGHT
      BY <1>4
    <3>2. col + 1 \in 0..(VGA_WIDTH - 1)
      BY <1>3, <1>7
    <3> QED
      BY ONLY <1>3, <2>1, <3>1, <3>2 DEF ConsoleTyped, RowType
  <2>4. NothingBelow'
    BY <1>6, <2>1 DEF NothingBelow, EmptyRow
  <2>5. NothingRight'
    <3>1. \A z \in (col + 1)..VGA_WIDTH : vga[row + 1][z] = Blank
      BY DEF ConsoleInv, NothingRight
    <3>2. \A z \in 1..VGA_WIDTH : z # col + 1 => u[row + 1][z] = vga[row + 1][z]
      BY <1>4
    <3>3. \A z \in (col + 1 + 1)..VGA_WIDTH : u[row + 1][z] = Blank
      BY ONLY <1>3, <3>1, <3>2
    <3> QED
      BY ONLY <2>1, <3>3 DEF NothingRight, Blank
  <2> QED
    BY <1>5, <1>7, <2>1, <2>2, <2>3, <2>4, <2>5 DEF ConsoleInv, Sheet!Put
<1>8. CASE ~(col + 1 < VGA_WIDTH)
  <2>1. NextRow(u)
    BY <1>1, <1>8 DEF Put
  <2>2. ConsoleTyped /\ u \in Seq(RowType) /\ Len(u) = VGA_HEIGHT
    BY <1>4 DEF ConsoleInv
  <2>3. ConsoleInv' /\ col' = 0 /\ Rows' = Append(RowsOf(scrolled, u, row), EmptyRow)
    BY <1>6, <2>1, <2>2, RowStep
  <2>4. Sheet!Empty = EmptyRow
    BY DEF Sheet!Empty, EmptyRow
  <2> QED
    BY <1>5, <1>8, <2>3, <2>4 DEF Sheet!Put
<1> QED
  BY <1>7, <1>8

LEMMA NewlineStep ==
  ASSUME ConsoleInv, NextRow(vga)
  PROVE  ConsoleInv' /\ Sheet!NewLine
<1>1. PICK v : v = vga
  OBVIOUS
<1>2. /\ ConsoleTyped /\ v \in Seq(RowType) /\ Len(v) = VGA_HEIGHT /\ NextRow(v)
      /\ \A y \in (row + 2)..VGA_HEIGHT : v[y] = EmptyRow
  BY <1>1 DEF ConsoleInv, ConsoleTyped, NothingBelow
<1>3. ConsoleInv' /\ col' = 0 /\ Rows' = Append(RowsOf(scrolled, v, row), EmptyRow)
  BY <1>2, RowStep
<1>4. RowsOf(scrolled, v, row) = Rows /\ Sheet!Empty = EmptyRow
  BY <1>1 DEF Rows, RowsOf, Sheet!Empty, EmptyRow
<1> QED
  BY <1>3, <1>4 DEF Sheet!NewLine

\* A backspace clears the cell before the cursor.
LEMMA EraseStep ==
  ASSUME ConsoleInv, Backspace
  PROVE  ConsoleInv' /\ IF col = 0 THEN UNCHANGED <<Rows, col>> ELSE Sheet!Erase
<1>1. CASE col = 0
  <2>1. UNCHANGED <<vga, row, col, scrolled>>
    BY <1>1 DEF Backspace, console
  <2>2. UNCHANGED <<Rows, col>>
    BY <2>1 DEF Rows
  <2> QED
    BY <1>1, <2>1, <2>2
    DEF ConsoleInv, ConsoleTyped, NothingBelow, NothingRight, RowType, EmptyRow
<1>2. CASE col # 0
  <2>1. PICK u : u = PutAt(Blank, col - 1)
    OBVIOUS
  <2>2. PICK w : w = CursorRow(Blank, col - 1)
    OBVIOUS
  <2>3. /\ VGA_WIDTH \in Nat \ {0} /\ VGA_HEIGHT \in Nat \ {0} /\ scrolled \in Seq(RowType)
        /\ row \in 0..(VGA_HEIGHT - 1) /\ col \in 1..(VGA_WIDTH - 1) /\ Blank \in Chars
    BY <1>2, EmptyRowIs DEF ConsoleInv, ConsoleTyped
  <2>4. /\ u \in Seq(RowType) /\ Len(u) = VGA_HEIGHT /\ u[row + 1] = w
        /\ \A y \in 1..VGA_HEIGHT : y # row + 1 => u[y] = vga[y]
        /\ w[col] = Blank /\ \A z \in 1..VGA_WIDTH : z # col => w[z] = vga[row + 1][z]
        /\ RowsOf(scrolled, u, row) = [Rows EXCEPT ![Len(Rows)][col] = Blank]
    <3>1. ConsoleTyped /\ Blank \in Chars
      BY <2>3 DEF ConsoleInv
    <3>2. PICK x \in 0..(VGA_WIDTH - 1) : x = col - 1
      BY <2>3
    <3>3. /\ PutAt(Blank, x) \in Seq(RowType) /\ Len(PutAt(Blank, x)) = VGA_HEIGHT
          /\ PutAt(Blank, x)[row + 1] = CursorRow(Blank, x)
          /\ \A y \in 1..VGA_HEIGHT : y # row + 1 => PutAt(Blank, x)[y] = vga[y]
          /\ CursorRow(Blank, x)[x + 1] = Blank
          /\ \A z \in 1..VGA_WIDTH : z # x + 1 => CursorRow(Blank, x)[z] = vga[row + 1][z]
          /\ RowsOf(scrolled, PutAt(Blank, x), row) = OnSheet(Blank, x)
      BY ONLY <3>1, x \in 0..(VGA_WIDTH - 1), CellSet
    <3>4. x + 1 = col
      BY <2>3, <3>2
    <3>5. u = PutAt(Blank, x) /\ w = CursorRow(Blank, x)
      BY <2>1, <2>2, <3>2
    <3>6. OnSheet(Blank, x) = [Rows EXCEPT ![Len(Rows)][col] = Blank]
      BY <3>4 DEF OnSheet
    <3> QED
      BY ONLY <3>3, <3>4, <3>5, <3>6
  <2>5. vga' = u /\ col' = col - 1 /\ row' = row /\ scrolled' = scrolled
    BY <1>2, <2>1 DEF Backspace
  <2>6. Rows' = RowsOf(scrolled, u, row)
    BY <2>5 DEF Rows, RowsOf
  <2>7. ConsoleTyped'
    <3>1. u \in Seq(RowType) /\ Len(u) = VGA_HEIGHT
      BY <2>4
    <3>2. col - 1 \in 0..(VGA_WIDTH - 1)
      BY <2>3
    <3> QED
      BY ONLY <2>3, <2>5, <3>1, <3>2 DEF ConsoleTyped, RowType
  <2>8. NothingBelow'
    <3>1. \A y \in (row + 2)..VGA_HEIGHT : vga[y] = EmptyRow
      BY DEF ConsoleInv, NothingBelow
    <3>2. \A y \in 1..VGA_HEIGHT : y # row + 1 => u[y] = vga[y]
      BY <2>4
    <3>3. \A y \in (row + 2)..VGA_HEIGHT : u[y] = EmptyRow
      BY ONLY <2>3, <3>1, <3>2
    <3> QED
      BY ONLY <2>5, <3>3 DEF NothingBelow, EmptyRow
  <2>9. NothingRight'
    <3>1. \A z \in (col + 1)..VGA_WIDTH : vga[row + 1][z] = Blank
      BY DEF ConsoleInv, NothingRight
    <3>2. /\ u[row + 1][col] = Blank
          /\ \A z \in 1..VGA_WIDTH : z # col => u[row + 1][z] = vga[row + 1][z]
      BY <2>4
    <3>3. \A z \in (col - 1 + 1)..VGA_WIDTH : u[row + 1][z] = Blank
      BY ONLY <2>3, <3>1, <3>2
    <3> QED
      BY ONLY <2>5, <3>3 DEF NothingRight, Blank
  <2>10. Sheet!Erase
    BY <2>3, <2>4, <2>5, <2>6 DEF Sheet!Erase
  <2> QED
    BY <1>2, <2>7, <2>8, <2>9, <2>10 DEF ConsoleInv
<1> QED
  BY <1>1, <1>2

\* What texts are made of, and what is written.
Plain == Chars \ {Newline, Return, Erase}
Letters == Plain \cup {Newline, Erase}

LEMMA WriteStep ==
  ASSUME ConsoleInv, NEW c \in Letters, console_putc(c)
  PROVE  /\ ConsoleInv'
         /\ c = Newline => Sheet!NewLine
         /\ c = Erase => IF col = 0 THEN UNCHANGED <<Rows, col>> ELSE Sheet!Erase
         /\ c \notin {Newline, Erase} => Sheet!Put(c)
<1>1. CASE c = Newline
  <2>1. NextRow(vga) /\ c # Erase
    BY <1>1 DEF console_putc, Newline, Return, Erase
  <2> QED
    BY <1>1, <2>1, NewlineStep
<1>2. CASE c = Erase
  <2>1. Backspace /\ c # Newline
    BY <1>2 DEF console_putc, Newline, Return, Erase
  <2> QED
    BY <1>2, <2>1, EraseStep
<1>3. CASE c \notin {Newline, Erase}
  <2>1. c \in Chars /\ c \notin {Newline, Return, Erase}
    BY <1>3 DEF Letters, Plain
  <2>2. Put(c)
    BY <2>1 DEF console_putc
  <2> QED
    BY <1>3, <2>1, <2>2, PutStep
<1> QED
  BY <1>1, <1>2, <1>3

LEMMA SheetStep ==
  ASSUME ConsoleInv, NEW c \in Letters, console_putc(c)
  PROVE  ConsoleInv' /\ (Sheet!Next \/ UNCHANGED <<Rows, col>>)
<1>1. c \notin {Newline, Erase} => c \in Chars
  BY DEF Letters, Plain
<1> QED
  BY <1>1, WriteStep DEF Sheet!Next

-----------------------------------------------------------------------------
(* The shell, and what it writes. *)

ShellTyped ==
  /\ pc \in {"read", "run"} /\ prompt \in Prompts /\ stuck \in BOOLEAN
  /\ line \in Seq(Printable) /\ Len(line) < LineSize /\ output \in Seq(Letters)

TypeInv == ConsoleInv /\ ShellTyped

LEMMA TextsTyped ==
  /\ Printable \subseteq Plain /\ Plain \subseteq Letters /\ Blank \in Plain
  /\ \A p \in Prompts : p \in Seq(Plain) /\ p \in Seq(Letters)
  /\ \A t \in Outputs : t \in Seq(Letters)
<1>1. Printable \subseteq Plain /\ Plain \subseteq Letters
  BY TerminalAssumption DEF Plain, Letters, Chars
<1>2. Blank \in Plain
  BY EmptyRowIs DEF Plain, Blank, Newline, Return, Erase
<1>3. ASSUME NEW t \in Prompts \cup Outputs, NEW i \in DOMAIN t
      PROVE  t[i] \in Chars /\ t[i] \notin {Return, Erase}
  <2>1. t[i] \in Chars
    BY <1>3 DEF Chars
  <2> QED
    BY <1>3, <2>1, TerminalAssumption
<1>4. ASSUME NEW p \in Prompts PROVE p \in Seq(Plain) /\ p \in Seq(Letters)
  <2>1. p \in Seq(STRING) /\ \A i \in DOMAIN p : p[i] # Newline
    BY <1>4, TerminalAssumption
  <2>2. \A i \in DOMAIN p : p[i] \in Plain
    BY <1>3, <1>4, <2>1 DEF Plain
  <2>3. \A i \in DOMAIN p : p[i] \in Letters
    BY <1>1, <2>2
  <2> QED
    BY <2>1, <2>2, <2>3
<1>5. ASSUME NEW t \in Outputs PROVE t \in Seq(Letters)
  <2>1. t \in Seq(STRING)
    BY <1>5, TerminalAssumption
  <2>2. \A i \in DOMAIN t : t[i] \in Letters
    BY <1>3, <1>5 DEF Letters, Plain
  <2> QED
    BY <2>1, <2>2
<1> QED
  BY <1>1, <1>2, <1>4, <1>5

LEMMA FirstRow ==
  ASSUME NEW R, NEW v \in Seq(R), 1 <= Len(v), NEW e, v[1] = e
  PROVE  SubSeq(v, 1, 1) = <<e>>
<1>1. PICK u : u = SubSeq(v, 1, 1)
  OBVIOUS
<1>2. u \in Seq(R) /\ Len(u) = 1 /\ u[1] = v[1]
  BY <1>1
<1>3. PICK w : w = <<e>>
  OBVIOUS
<1>4. w \in Seq(R) /\ Len(w) = 1 /\ w[1] = e
  BY <1>3
<1>5. \A i \in 1..Len(u) : u[i] = w[i]
  BY <1>2, <1>4
<1> QED
  BY <1>1, <1>2, <1>3, <1>4, <1>5, SameSequence

Shorter(s) == SubSeq(s, 1, Len(s) - 1)

LEMMA ShorterIs ==
  ASSUME NEW s \in Seq(Printable), s # << >>
  PROVE  /\ Len(s) \in Nat \ {0} /\ Shorter(s) \in Seq(Printable) /\ Len(Shorter(s)) = Len(s) - 1
         /\ \A i \in 1..(Len(s) - 1) : Shorter(s)[i] = s[i]
<1>1. PICK n \in Nat : Len(s) = n
  OBVIOUS
<1>2. n # 0
  BY <1>1
<1>3. PICK t : t = SubSeq(s, 1, n - 1)
  OBVIOUS
<1>4. t \in Seq(Printable) /\ Len(t) = n - 1 /\ \A i \in 1..(n - 1) : t[i] = s[i]
  BY <1>1, <1>2, <1>3
<1>5. t = Shorter(s)
  BY <1>1, <1>3 DEF Shorter
<1> QED
  BY <1>1, <1>2, <1>4, <1>5

LEMMA EmptyLine == << >> \in Seq(Printable) /\ Len(<< >>) < LineSize
<1>1. Len(<< >>) = 0
  OBVIOUS
<1> QED
  BY <1>1, TerminalAssumption

LEMMA TypeInit == Init => TypeInv /\ Sheet!Init
<1> SUFFICES ASSUME Init PROVE TypeInv /\ Sheet!Init
  OBVIOUS
<1>1. /\ EmptyRow \in RowType /\ VGA_HEIGHT \in Nat \ {0} /\ VGA_WIDTH \in Nat \ {0}
      /\ \A x \in 1..VGA_WIDTH : EmptyRow[x] = Blank
  BY EmptyRowIs
<1>2. PICK e : e = EmptyRow
  OBVIOUS
<1>3. PICK h \in Nat \ {0} : h = VGA_HEIGHT
  BY <1>1
<1>4. PICK v : v = [y \in 1..h |-> e]
  OBVIOUS
<1>5. v \in Seq(RowType) /\ Len(v) = h /\ \A y \in 1..h : v[y] = e
  BY <1>1, <1>2, <1>4
<1>6. vga = v /\ row = 0 /\ col = 0 /\ scrolled = << >>
  BY <1>2, <1>3, <1>4 DEF Init
<1>7. ConsoleInv
  BY <1>1, <1>2, <1>3, <1>5, <1>6 DEF ConsoleInv, ConsoleTyped, NothingBelow, NothingRight
<1>8. ShellTyped
  <2>1. line \in Seq(Printable) /\ Len(line) < LineSize
    BY EmptyLine DEF Init
  <2>2. prompt \in Prompts /\ output \in Seq(Letters)
    BY TextsTyped DEF Init
  <2> QED
    BY <2>1, <2>2 DEF Init, ShellTyped
<1>9. Rows = <<e>>
  <2>1. SubSeq(v, 1, 1) = <<e>>
    BY <1>2, <1>1, <1>5, FirstRow
  <2> QED
    BY <1>6, <2>1 DEF Rows
<1> QED
  BY <1>2, <1>6, <1>7, <1>8, <1>9 DEF TypeInv, Sheet!Init, Sheet!Empty, EmptyRow

\* What is written is on the console afterwards.
LEMMA HeadTail ==
  ASSUME NEW R, NEW s \in Seq(R), s # << >>
  PROVE  /\ Head(s) \in R /\ Head(s) = s[1] /\ Tail(s) \in Seq(R) /\ Len(s) \in Nat \ {0}
         /\ Len(Tail(s)) = Len(s) - 1 /\ \A i \in 1..(Len(s) - 1) : Tail(s)[i] = s[i + 1]
  OBVIOUS

LEMMA TypeNext == TypeInv /\ [Next]_vars => TypeInv' /\ [Sheet!Next]_<<Rows, col>>
<1> SUFFICES ASSUME TypeInv, [Next]_vars PROVE TypeInv' /\ [Sheet!Next]_<<Rows, col>>
  OBVIOUS
<1>1. ConsoleInv /\ ShellTyped
  BY DEF TypeInv
<1>2. ASSUME UNCHANGED console PROVE ConsoleInv' /\ UNCHANGED <<Rows, col>>
  <2>1. UNCHANGED <<vga, row, col, scrolled>>
    BY <1>2 DEF console
  <2> QED
    BY <1>1, <2>1
    DEF ConsoleInv, ConsoleTyped, NothingBelow, NothingRight, RowType, EmptyRow, Rows
<1>3. CASE Write
  <2>1. PICK c : c = Head(output)
    OBVIOUS
  <2>2. output # << >> /\ console_putc(c) /\ output' = Tail(output) /\ UNCHANGED shell
    BY <1>3, <2>1 DEF Write
  <2>3. output \in Seq(Letters) /\ stuck \in BOOLEAN
    BY <1>1 DEF ShellTyped
  <2>4. c \in Letters /\ Tail(output) \in Seq(Letters)
    BY <2>1, <2>2, <2>3, HeadTail
  <2>5. ConsoleInv' /\ (Sheet!Next \/ UNCHANGED <<Rows, col>>)
    BY <1>1, <2>2, <2>4, SheetStep
  <2>6. ShellTyped'
    <3>1. stuck' \in BOOLEAN
      BY <1>3, <2>3 DEF Write
    <3> QED
      BY <1>1, <2>2, <2>4, <3>1 DEF ShellTyped, shell, Letters, Plain, Chars
  <2> QED
    BY <2>5, <2>6 DEF TypeInv
<1>4. CASE ReadChar
  <2>1. ConsoleInv' /\ UNCHANGED <<Rows, col>>
    BY <1>2, <1>4 DEF ReadChar
  <2>2. /\ line \in Seq(Printable) /\ Len(line) < LineSize /\ LineSize \in Nat /\ Len(line) \in Nat
        /\ Newline \in Letters /\ Erase \in Letters /\ Blank \in Letters
    BY <1>1, TerminalAssumption, TextsTyped DEF ShellTyped, Letters
  <2>3. line' \in Seq(Printable) /\ Len(line') < LineSize /\ output' \in Seq(Letters)
    <3>1. CASE Enter
      BY <2>2, <3>1 DEF Enter
    <3>2. CASE DeleteLast
      <4>1. /\ line # << >> /\ line' = SubSeq(line, 1, Len(line) - 1)
            /\ output' = <<Erase, Blank, Erase>>
        BY <3>2 DEF DeleteLast, RubOut
      <4>2. line' \in Seq(Printable) /\ Len(line') = Len(line) - 1
        <5>1. line \in Seq(Printable)
          BY <2>2
        <5> QED
          BY <4>1, <5>1, ShorterIs DEF Shorter
      <4> QED
        BY <2>2, <4>1, <4>2
    <3>3. ASSUME NEW c \in Printable, Type(c)
          PROVE  line' \in Seq(Printable) /\ Len(line') < LineSize /\ output' \in Seq(Letters)
      <4>1. Len(line) + 1 < LineSize /\ line' = Append(line, c) /\ output' = <<c>>
        BY <3>3 DEF Type
      <4>2. c \in Letters
        BY <3>3, TextsTyped
      <4> QED
        BY <2>2, <3>3, <4>1, <4>2
    <3> QED
      BY <1>4, <3>1, <3>2, <3>3 DEF ReadChar
  <2>4. pc' \in {"read", "run"} /\ prompt' \in Prompts /\ stuck' \in BOOLEAN
    BY <1>1, <1>4 DEF ShellTyped, ReadChar, Enter, DeleteLast, Type
  <2> QED
    BY <2>1, <2>3, <2>4 DEF TypeInv, ShellTyped, Letters, Plain, Chars
<1>5. CASE RunLine
  <2>1. ConsoleInv' /\ UNCHANGED <<Rows, col>>
    BY <1>2, <1>5 DEF RunLine
  <2>2. output' \in Seq(Letters) /\ prompt' \in Prompts
    BY <1>5, TextsTyped DEF RunLine
  <2>3. pc' = "read" /\ line' = << >> /\ stuck' = FALSE
    BY <1>5 DEF RunLine
  <2>4. line' \in Seq(Printable) /\ Len(line') < LineSize
    BY <2>3, EmptyLine
  <2> QED
    BY <2>1, <2>2, <2>3, <2>4 DEF TypeInv, ShellTyped, Letters, Plain, Chars
<1>6. CASE UNCHANGED vars
  <2>1. UNCHANGED console /\ UNCHANGED <<output, pc, prompt, line, stuck>>
    BY <1>6 DEF vars, shell
  <2>2. ConsoleInv' /\ UNCHANGED <<Rows, col>>
    BY <1>2, <2>1
  <2>3. ShellTyped'
    BY <1>1, <2>1 DEF ShellTyped, Letters, Plain, Chars
  <2> QED
    BY <2>2, <2>3 DEF TypeInv
<1> QED
  BY <1>3, <1>4, <1>5, <1>6 DEF Next

LEMMA TypeHolds == Spec => []TypeInv
<1>1. TypeInv /\ [Next]_vars => TypeInv'
  BY TypeNext
<1>2. Init => TypeInv
  BY TypeInit
<1> QED
  BY <1>1, <1>2, PTL DEF Spec

LEMMA TypeInvImplies == TypeInv => TypeOK
<1> SUFFICES ASSUME TypeInv PROVE TypeOK
  OBVIOUS
<1>1. ConsoleTyped /\ ShellTyped
  BY DEF TypeInv, ConsoleInv
<1>2. vga \in Seq(RowType) /\ Len(vga) = VGA_HEIGHT
  BY <1>1 DEF ConsoleTyped
<1>3. DOMAIN vga = 1..VGA_HEIGHT /\ \A y \in DOMAIN vga : vga[y] \in RowType
  BY <1>2
<1>4. \A y \in DOMAIN vga : DOMAIN vga[y] = 1..VGA_WIDTH
  BY <1>3 DEF RowType
<1> QED
  BY <1>1, <1>3, <1>4 DEF TypeOK, ConsoleTyped, ShellTyped

\* The variables have their types and the cursor stays on the screen.
THEOREM TypeCorrect == Spec => []TypeOK
<1>1. TypeInv => TypeOK
  BY TypeInvImplies
<1> QED
  BY <1>1, TypeHolds, PTL

\* Whatever is typed and written, the screen is the end of a transcript that
\* only grows: wrapping at the last column, scrolling at the last row and
\* backspaces lose, repeat and mix no rows.
THEOREM ConsoleIsTranscript == Spec => IsTranscript
<1>1. Init => Sheet!Init
  BY TypeInit
<1>2. TypeInv /\ [Next]_vars => [Sheet!Next]_<<Rows, col>>
  BY TypeNext
<1> QED
  BY <1>1, <1>2, TypeHolds, PTL DEF Spec, IsTranscript, Sheet!Spec

-----------------------------------------------------------------------------
(* Where a cell of the sheet is. *)

Pos(n, x) == (n - 1) * VGA_WIDTH + x
RowAt(k) == (k \div VGA_WIDTH) + 1
ColAt(k) == (k % VGA_WIDTH) + 1
Cell(rows, k) == rows[RowAt(k)][ColAt(k)]

LEMMA DivMod ==
  ASSUME NEW k \in Nat, NEW w \in Nat \ {0}
  PROVE  k \div w \in Nat /\ k % w \in 0..(w - 1) /\ k = (k \div w) * w + (k % w)
<1>1. k % w \in 0..(w - 1)
  OBVIOUS
<1>2. k \div w \in Nat
  OBVIOUS
<1>3. k = (k \div w) * w + (k % w)
  OBVIOUS
<1> QED
  BY <1>1, <1>2, <1>3

LEMMA Distribute ==
  ASSUME NEW a \in Nat, NEW e \in Nat, NEW w \in Nat
  PROVE  (a + 1 + e) * w = a * w + w + e * w /\ e * w \in Nat /\ a * w \in Nat
  OBVIOUS

\* Cells are counted row by row.
LEMMA Before ==
  ASSUME NEW q \in Nat, NEW a \in Nat, NEW w \in Nat \ {0}, NEW m \in 0..(w - 1),
         NEW x \in 0..(w - 1), q * w + m < a * w + x
  PROVE  q < a \/ (q = a /\ m < x)
<1>1. CASE q > a
  <2>1. PICK e \in Nat : q = a + 1 + e
    BY <1>1
  <2>2. q * w = a * w + w + e * w /\ e * w \in Nat /\ a * w \in Nat
    BY <2>1, Distribute
  <2> QED
    BY <2>2
<1>2. CASE q = a
  <2>1. a * w \in Nat
    BY Distribute
  <2> QED
    BY <1>2, <2>1
<1> QED
  BY <1>1, <1>2

LEMMA Same ==
  ASSUME NEW q \in Nat, NEW a \in Nat, NEW w \in Nat \ {0}, NEW m \in 0..(w - 1),
         NEW x \in 0..(w - 1), q * w + m = a * w + x
  PROVE  q = a /\ m = x
<1>1. ASSUME NEW b \in Nat, NEW c \in Nat, NEW y \in 0..(w - 1), NEW z \in 0..(w - 1), b > c
      PROVE  c * w + y < b * w + z
  <2>1. PICK e \in Nat : b = c + 1 + e
    BY <1>1
  <2>2. b * w = c * w + w + e * w /\ e * w \in Nat /\ c * w \in Nat
    BY <2>1, Distribute
  <2> QED
    BY <2>2
<1>2. ~(q > a)
  <2> SUFFICES ASSUME q > a PROVE FALSE
    OBVIOUS
  <2>1. a * w + x < q * w + m
    BY <1>1
  <2> QED
    BY <2>1, Distribute
<1>3. ~(a > q)
  <2> SUFFICES ASSUME a > q PROVE FALSE
    OBVIOUS
  <2>1. q * w + m < a * w + x
    BY <1>1
  <2> QED
    BY <2>1, Distribute
<1>4. q = a
  BY <1>2, <1>3
<1> QED
  BY <1>4, Distribute

\* The cell at x of row n, and the cells before it.
LEMMA Place ==
  ASSUME NEW n \in Nat \ {0}, NEW x \in 0..(VGA_WIDTH - 1)
  PROVE  /\ Pos(n, x) \in Nat /\ RowAt(Pos(n, x)) = n /\ ColAt(Pos(n, x)) = x + 1
         /\ \A k \in 0..(Pos(n, x) - 1) :
              /\ RowAt(k) \in 1..n /\ ColAt(k) \in 1..VGA_WIDTH
              /\ RowAt(k) < n \/ (RowAt(k) = n /\ ColAt(k) < x + 1)
<1>w. PICK w \in Nat \ {0} : w = VGA_WIDTH
  BY EmptyRowIs
<1>p. PICK p : p = (n - 1) * w + x
  OBVIOUS
<1>x. x \in 0..(w - 1)
  BY <1>w
<1>1. PICK a \in Nat : a = n - 1
  OBVIOUS
<1>2. a * w \in Nat /\ p = a * w + x /\ p \in Nat
  <2>1. a * w \in Nat
    BY Distribute
  <2> QED
    BY <1>1, <1>p, <1>x, <2>1
<1>3. p \div w = a /\ p % w = x
  <2>1. p \div w \in Nat /\ p % w \in 0..(w - 1) /\ p = (p \div w) * w + (p % w)
    BY <1>2, DivMod
  <2>2. PICK q \in Nat : q = p \div w
    BY <2>1
  <2>3. PICK m \in 0..(w - 1) : m = p % w
    BY <2>1
  <2>4. q * w + m = a * w + x
    BY <1>2, <2>1, <2>2, <2>3
  <2>5. q = a /\ m = x
    BY <1>x, <2>4, Same
  <2> QED
    BY <2>2, <2>3, <2>5
<1>4. ASSUME NEW k \in 0..(p - 1)
      PROVE  /\ (k \div w) + 1 \in 1..n /\ (k % w) + 1 \in 1..w
             /\ (k \div w) + 1 < n \/ (k \div w + 1 = n /\ (k % w) + 1 < x + 1)
  <2>1. k \in Nat /\ k < p
    BY <1>2
  <2>2. k \div w \in Nat /\ k % w \in 0..(w - 1) /\ k = (k \div w) * w + (k % w)
    BY <2>1, DivMod
  <2>3. PICK q \in Nat : q = k \div w
    BY <2>2
  <2>4. PICK m \in 0..(w - 1) : m = k % w
    BY <2>2
  <2>5. q * w + m < a * w + x
    BY <1>2, <2>1, <2>2, <2>3, <2>4
  <2>6. q < a \/ (q = a /\ m < x)
    BY <1>x, <2>5, Before
  <2>7. q + 1 \in 1..n /\ m + 1 \in 1..w /\ (q + 1 < n \/ (q + 1 = n /\ m + 1 < x + 1))
    BY <1>1, <2>6
  <2> QED
    BY <2>3, <2>4, <2>7
<1>5. Pos(n, x) = p
  BY <1>w, <1>p DEF Pos
<1>6. RowAt(p) = n /\ ColAt(p) = x + 1
  BY <1>1, <1>3, <1>w DEF RowAt, ColAt
<1> QED
  BY <1>2, <1>4, <1>5, <1>6, <1>w DEF RowAt, ColAt

LEMMA RowsTyped ==
  ASSUME ConsoleInv
  PROVE  Rows \in Seq(RowType) /\ Len(Rows) \in Nat \ {0} /\ Cursor \in Nat
<1>1. /\ vga \in Seq(RowType) /\ Len(vga) = VGA_HEIGHT /\ scrolled \in Seq(RowType)
      /\ row \in 0..(VGA_HEIGHT - 1) /\ col \in 0..(VGA_WIDTH - 1)
      /\ VGA_WIDTH \in Nat \ {0} /\ VGA_HEIGHT \in Nat \ {0}
  BY EmptyRowIs DEF ConsoleInv, ConsoleTyped
<1>2. PICK v \in Seq(RowType) : v = vga
  BY <1>1
<1>3. PICK s \in Seq(RowType) : s = scrolled
  BY <1>1
<1>4. PICK r \in Nat : r = row
  BY <1>1
<1>5. PICK t : t = RowsOf(s, v, r)
  OBVIOUS
<1>6. r + 1 <= Len(v)
  BY <1>1, <1>2, <1>4
<1>7. t \in Seq(RowType) /\ Len(t) = Len(s) + r + 1 /\ Len(s) \in Nat
  BY <1>5, <1>6, RowsOfIs
<1>8. t = Rows
  BY <1>2, <1>3, <1>4, <1>5 DEF Rows, RowsOf
<1>9. PICK n \in Nat \ {0} : n = Len(Rows)
  BY <1>7, <1>8
<1>10. (n - 1) * VGA_WIDTH \in Nat
  <2>1. PICK a \in Nat : a = n - 1
    BY <1>9
  <2> QED
    BY <1>1, <2>1, Distribute
<1> QED
  BY <1>1, <1>7, <1>8, <1>9, <1>10 DEF Cursor

\* A cell of the last row is written: the cells before it stay.
LEMMA CellsSet ==
  ASSUME NEW rows \in Seq(RowType), NEW n \in Nat \ {0}, NEW x \in 0..(VGA_WIDTH - 1), NEW c,
         NEW t, \A y \in 1..(n - 1) : t[y] = rows[y], t[n][x + 1] = c,
         \A z \in 1..VGA_WIDTH : z # x + 1 => t[n][z] = rows[n][z]
  PROVE  /\ Pos(n, x) \in Nat /\ Cell(t, Pos(n, x)) = c
         /\ \A k \in 0..(Pos(n, x) - 1) : Cell(t, k) = Cell(rows, k)
<1>1. /\ Pos(n, x) \in Nat /\ RowAt(Pos(n, x)) = n /\ ColAt(Pos(n, x)) = x + 1
      /\ \A k \in 0..(Pos(n, x) - 1) :
           /\ RowAt(k) \in 1..n /\ ColAt(k) \in 1..VGA_WIDTH
           /\ RowAt(k) < n \/ (RowAt(k) = n /\ ColAt(k) < x + 1)
  BY Place
<1>2. Cell(t, Pos(n, x)) = c
  BY <1>1 DEF Cell
<1>3. ASSUME NEW k \in 0..(Pos(n, x) - 1) PROVE Cell(t, k) = Cell(rows, k)
  <2>1. PICK y \in 1..n : y = RowAt(k)
    BY <1>1
  <2>2. PICK z \in 1..VGA_WIDTH : z = ColAt(k)
    BY <1>1
  <2>3. y < n \/ (y = n /\ z < x + 1)
    BY <1>1, <2>1, <2>2
  <2>4. t[y][z] = rows[y][z]
    <3>1. CASE y = n
      <4>1. z # x + 1
        BY <2>3, <3>1
      <4> QED
        BY <3>1, <4>1
    <3>2. CASE y # n
      <4>1. y \in 1..(n - 1)
        BY <3>2
      <4> QED
        BY <4>1
    <3> QED
      BY <3>1, <3>2
  <2> QED
    BY <2>1, <2>2, <2>4 DEF Cell
<1> QED
  BY <1>1, <1>2, <1>3

\* The cursor goes on, over the end of a row and the bottom of the screen too.
LEMMA Advance ==
  ASSUME ConsoleInv, ConsoleInv', NEW c \in Plain, Sheet!Put(c)
  PROVE  /\ Cursor \in Nat /\ Cursor' = Cursor + 1 /\ Cell(Rows', Cursor) = c
         /\ \A k \in 0..(Cursor - 1) : Cell(Rows', k) = Cell(Rows, k)
<1>1. Rows \in Seq(RowType) /\ Len(Rows) \in Nat \ {0}
  BY RowsTyped
<1>2. PICK rows \in Seq(RowType) : rows = Rows
  BY <1>1
<1>3. PICK n \in Nat \ {0} : n = Len(rows)
  BY <1>1, <1>2
<1>4. VGA_WIDTH \in Nat \ {0} /\ col \in 0..(VGA_WIDTH - 1)
  BY EmptyRowIs DEF ConsoleInv, ConsoleTyped
<1>5. PICK x \in 0..(VGA_WIDTH - 1) : x = col
  BY <1>4
<1>6. PICK p : p = (n - 1) * VGA_WIDTH + x
  OBVIOUS
<1>7. Cursor = p
  BY <1>2, <1>3, <1>5, <1>6 DEF Cursor
<1>8. PICK w : w = [rows[n] EXCEPT ![x + 1] = c]
  OBVIOUS
<1>9. PICK u : u = [rows EXCEPT ![n] = w]
  OBVIOUS
<1>10. w \in RowType
  <2>1. rows[n] \in RowType /\ x + 1 \in 1..VGA_WIDTH /\ c \in Chars
    BY <1>3, <1>4 DEF Plain
  <2> QED
    BY <1>8, <2>1 DEF RowType
<1>11. u \in Seq(RowType) /\ Len(u) = n /\ \A y \in 1..n : u[y] = IF y = n THEN w ELSE rows[y]
  <2>1. n \in 1..Len(rows)
    BY <1>3
  <2> QED
    BY <1>3, <1>9, <1>10, <2>1, SetIs
<1>12. u = Sheet!Written(c)
  BY <1>2, <1>3, <1>5, <1>8, <1>9 DEF Sheet!Written
<1>13. PICK t : t = Rows'
  OBVIOUS
<1>14. (\A y \in 1..n : t[y] = IF y = n THEN w ELSE rows[y]) /\ Cursor' = p + 1
  <2>1. CASE x + 1 < VGA_WIDTH
    <3>1. t = u /\ col' = x + 1
      BY <1>5, <1>12, <1>13, <2>1 DEF Sheet!Put
    <3>2. Cursor' = (n - 1) * VGA_WIDTH + (x + 1)
      BY <1>11, <1>13, <3>1 DEF Cursor
    <3>3. PICK a \in Nat : a = n - 1
      BY <1>3
    <3>4. a * VGA_WIDTH \in Nat
      BY <1>4, Distribute
    <3> QED
      BY <1>6, <1>11, <3>1, <3>2, <3>3, <3>4
  <2>2. CASE ~(x + 1 < VGA_WIDTH)
    <3>1. t = Append(u, EmptyRow) /\ col' = 0
      BY <1>5, <1>12, <1>13, <2>2 DEF Sheet!Put, Sheet!Empty, EmptyRow
    <3>2. PICK e \in RowType : e = EmptyRow
      BY EmptyRowIs
    <3>3. Len(t) = n + 1 /\ \A y \in 1..n : t[y] = u[y]
      BY <1>11, <3>1, <3>2, AppendIs
    <3>4. Cursor' = n * VGA_WIDTH + 0
      BY <1>13, <3>1, <3>3 DEF Cursor
    <3>5. PICK a \in Nat : a = n - 1
      BY <1>3
    <3>6. n * VGA_WIDTH = a * VGA_WIDTH + VGA_WIDTH /\ a * VGA_WIDTH \in Nat
      <4>1. /\ (a + 1 + 0) * VGA_WIDTH = a * VGA_WIDTH + VGA_WIDTH + 0 * VGA_WIDTH
            /\ a * VGA_WIDTH \in Nat
        BY <1>4, Distribute
      <4>2. n = a + 1 + 0 /\ 0 * VGA_WIDTH = 0
        BY <1>4, <3>5
      <4> QED
        BY <1>4, <4>1, <4>2
    <3>7. Cursor' = p + 1
      BY <1>4, <1>6, <2>2, <3>4, <3>5, <3>6
    <3> QED
      BY <1>11, <3>3, <3>7
  <2> QED
    BY <2>1, <2>2
<1>15. p \in Nat /\ Cell(t, p) = c /\ \A k \in 0..(p - 1) : Cell(t, k) = Cell(rows, k)
  <2>1. \A y \in 1..(n - 1) : t[y] = rows[y]
    BY <1>14
  <2>2. t[n] = w
    BY <1>14
  <2>3. x + 1 \in 1..VGA_WIDTH /\ rows[n] \in RowType
    BY <1>3, <1>4
  <2>4. t[n][x + 1] = c /\ \A z \in 1..VGA_WIDTH : z # x + 1 => t[n][z] = rows[n][z]
    BY <1>8, <2>2, <2>3 DEF RowType
  <2>5. /\ Pos(n, x) \in Nat /\ Cell(t, Pos(n, x)) = c
        /\ \A k \in 0..(Pos(n, x) - 1) : Cell(t, k) = Cell(rows, k)
    BY ONLY <2>1, <2>4, rows \in Seq(RowType), n \in Nat \ {0}, x \in 0..(VGA_WIDTH - 1), CellsSet
  <2> QED
    BY <1>6, <2>5 DEF Pos
<1> QED
  BY <1>2, <1>7, <1>13, <1>14, <1>15

\* The cursor goes to a new row.
LEMMA NewRow ==
  ASSUME ConsoleInv, Sheet!NewLine
  PROVE  Cursor' \in Nat
<1>1. PICK rows \in Seq(RowType) : rows = Rows
  BY RowsTyped
<1>2. PICK n \in Nat : n = Len(rows)
  OBVIOUS
<1>3. PICK e \in RowType : e = EmptyRow
  BY EmptyRowIs
<1>4. PICK t : t = Rows'
  OBVIOUS
<1>5. t = Append(rows, e) /\ col' = 0
  BY <1>1, <1>3, <1>4 DEF Sheet!NewLine, Sheet!Empty, EmptyRow
<1>6. Len(t) = n + 1
  BY <1>2, <1>5
<1>7. n * VGA_WIDTH \in Nat
  BY EmptyRowIs, Distribute
<1>8. Cursor' = (n + 1 - 1) * VGA_WIDTH + 0
  BY <1>4, <1>5, <1>6 DEF Cursor
<1>9. n + 1 - 1 = n
  OBVIOUS
<1> QED
  BY <1>7, <1>8, <1>9

\* The cursor goes back over a cell, which is cleared.
LEMMA Retreat ==
  ASSUME ConsoleInv, ConsoleInv', Sheet!Erase
  PROVE  /\ Cursor \in Nat \ {0} /\ Cursor' = Cursor - 1
         /\ \A k \in 0..(Cursor - 2) : Cell(Rows', k) = Cell(Rows, k)
<1>1. Rows \in Seq(RowType) /\ Len(Rows) \in Nat \ {0}
  BY RowsTyped
<1>2. PICK rows \in Seq(RowType) : rows = Rows
  BY <1>1
<1>3. PICK n \in Nat \ {0} : n = Len(rows)
  BY <1>1, <1>2
<1>4. VGA_WIDTH \in Nat \ {0} /\ col \in 0..(VGA_WIDTH - 1) /\ col > 0
  BY EmptyRowIs DEF ConsoleInv, ConsoleTyped, Sheet!Erase
<1>5. PICK x \in 0..(VGA_WIDTH - 1) : x = col - 1
  BY <1>4
<1>6. x + 1 = col
  BY <1>4, <1>5
<1>7. PICK p : p = (n - 1) * VGA_WIDTH + x
  OBVIOUS
<1>8. PICK w : w = [rows[n] EXCEPT ![x + 1] = Blank]
  OBVIOUS
<1>9. PICK t : t = [rows EXCEPT ![n] = w]
  OBVIOUS
<1>10. w \in RowType
  <2>1. rows[n] \in RowType /\ x + 1 \in 1..VGA_WIDTH /\ Blank \in Chars
    BY <1>3, <1>4, EmptyRowIs
  <2> QED
    BY <1>8, <2>1 DEF RowType
<1>11. t \in Seq(RowType) /\ Len(t) = n /\ \A y \in 1..n : t[y] = IF y = n THEN w ELSE rows[y]
  <2>1. n \in 1..Len(rows)
    BY <1>3
  <2> QED
    BY <1>3, <1>9, <1>10, <2>1, SetIs
<1>12. t = Rows' /\ col' = x
  BY <1>2, <1>3, <1>5, <1>6, <1>8, <1>9 DEF Sheet!Erase
<1>13. p \in Nat /\ \A k \in 0..(p - 1) : Cell(t, k) = Cell(rows, k)
  <2>1. \A y \in 1..(n - 1) : t[y] = rows[y]
    BY <1>11
  <2>2. t[n] = w
    BY <1>11
  <2>3. x + 1 \in 1..VGA_WIDTH /\ rows[n] \in RowType
    BY <1>3, <1>4
  <2>4. t[n][x + 1] = Blank /\ \A z \in 1..VGA_WIDTH : z # x + 1 => t[n][z] = rows[n][z]
    BY <1>8, <2>2, <2>3 DEF RowType
  <2>5. /\ Pos(n, x) \in Nat /\ Cell(t, Pos(n, x)) = Blank
        /\ \A k \in 0..(Pos(n, x) - 1) : Cell(t, k) = Cell(rows, k)
    BY ONLY <2>1, <2>4, rows \in Seq(RowType), n \in Nat \ {0}, x \in 0..(VGA_WIDTH - 1), CellsSet
  <2> QED
    BY <1>7, <2>5 DEF Pos
<1>14. Cursor' = p
  BY <1>7, <1>11, <1>12 DEF Cursor
<1>15. Cursor = p + 1
  <2>1. PICK a \in Nat : a = n - 1
    BY <1>3
  <2>2. a * VGA_WIDTH \in Nat
    BY <1>4, Distribute
  <2>3. Cursor = a * VGA_WIDTH + col
    BY <1>2, <1>3, <2>1 DEF Cursor
  <2> QED
    BY <1>4, <1>6, <1>7, <2>1, <2>2, <2>3
<1> QED
  BY <1>2, <1>12, <1>13, <1>14, <1>15

-----------------------------------------------------------------------------
(* The prompt and the line. *)

Text == prompt \o line

\* The text ends d cells before the cursor, at p.
IsShown(rows, p, text, d) ==
  /\ Len(text) + d <= p
  /\ \A i \in 1..Len(text) : Cell(rows, p - d - Len(text) + i - 1) = text[i]

\* The text ends with what is still to be written, and the rest of it is before
\* the cursor.
IsComing(rows, p, text, out) ==
  /\ Len(text) <= p + Len(out)
  /\ \A j \in 1..Len(out) : out[j] # Erase
  /\ \A i \in 1..Len(text) :
       IF Len(text) - i < Len(out) THEN out[Len(out) - (Len(text) - i)] = text[i]
       ELSE Cell(rows, p + Len(out) - Len(text) + i - 1) = text[i]

\* Echoing a character, or taking one back.
Followed ==
  pc = "read" /\ ~stuck =>
    \/ IsComing(Rows, Cursor, Text, output)
    \/ output = RubOut /\ IsShown(Rows, Cursor, Text, 1)
    \/ output = <<Blank, Erase>> /\ IsShown(Rows, Cursor, Text, 0) /\ col + 1 < VGA_WIDTH
    \/ output = <<Erase>> /\ IsShown(Rows, Cursor, Text, 1) /\ col > 0

LEMMA ComingPut ==
  ASSUME NEW text \in Seq(Plain), NEW out \in Seq(Letters), out # << >>, NEW p \in Nat,
         NEW rows, NEW next, IsComing(rows, p, text, out), Cell(next, p) = Head(out),
         \A k \in 0..(p - 1) : Cell(next, k) = Cell(rows, k)
  PROVE  IsComing(next, p + 1, text, Tail(out))
<1>1. PICK n \in Nat : n = Len(text)
  OBVIOUS
<1>2. PICK m \in Nat \ {0} : m = Len(out)
  BY HeadTail
<1>3. PICK rest : rest = Tail(out)
  OBVIOUS
<1>4. Len(rest) = m - 1 /\ Head(out) = out[1] /\ \A j \in 1..(m - 1) : rest[j] = out[j + 1]
  BY <1>2, <1>3, HeadTail
<1>5. /\ n <= p + m /\ \A j \in 1..m : out[j] # Erase
      /\ \A i \in 1..n : IF n - i < m THEN out[m - (n - i)] = text[i]
                         ELSE Cell(rows, p + m - n + i - 1) = text[i]
  BY <1>1, <1>2 DEF IsComing
<1>6. n <= p + 1 + (m - 1)
  BY <1>5
<1>7. \A j \in 1..(m - 1) : rest[j] # Erase
  BY <1>4, <1>5
<1>8. ASSUME NEW i \in 1..n
      PROVE  IF n - i < m - 1 THEN rest[m - 1 - (n - i)] = text[i]
             ELSE Cell(next, p + 1 + (m - 1) - n + i - 1) = text[i]
  <2>1. CASE n - i < m - 1
    <3>1. PICK j \in 1..(m - 1) : j = m - 1 - (n - i)
      BY <2>1
    <3>2. m - (n - i) = j + 1 /\ n - i < m
      BY <2>1, <3>1
    <3>3. out[j + 1] = text[i]
      BY <1>5, <3>2
    <3> QED
      BY <1>4, <2>1, <3>1, <3>3
  <2>2. CASE n - i = m - 1
    <3>1. m - (n - i) = 1 /\ n - i < m /\ p + 1 + (m - 1) - n + i - 1 = p
      BY <2>2
    <3>2. out[1] = text[i]
      BY <1>5, <3>1
    <3> QED
      BY <1>4, <2>2, <3>1, <3>2
  <2>3. CASE n - i > m - 1
    <3>1. PICK k \in 0..(p - 1) : k = p + m - n + i - 1
      BY <1>5, <2>3
    <3>2. p + 1 + (m - 1) - n + i - 1 = k /\ ~(n - i < m) /\ ~(n - i < m - 1)
      BY <2>3, <3>1
    <3>3. Cell(rows, k) = text[i]
      BY <1>5, <3>1, <3>2
    <3> QED
      BY <3>2, <3>3
  <2> QED
    BY <2>1, <2>2, <2>3
<1> QED
  BY <1>1, <1>3, <1>4, <1>6, <1>7, <1>8 DEF IsComing

\* What is written before the prompt may be anything.
LEMMA ComingSkip ==
  ASSUME NEW text \in Seq(Plain), NEW out \in Seq(Letters), out # << >>, NEW p \in Nat,
         NEW q \in Nat, NEW rows, NEW next, IsComing(rows, p, text, out), Head(out) \notin Plain
  PROVE  IsComing(next, q, text, Tail(out))
<1>1. PICK n \in Nat : n = Len(text)
  OBVIOUS
<1>2. PICK m \in Nat \ {0} : m = Len(out)
  BY HeadTail
<1>3. PICK rest : rest = Tail(out)
  OBVIOUS
<1>4. Len(rest) = m - 1 /\ Head(out) = out[1] /\ \A j \in 1..(m - 1) : rest[j] = out[j + 1]
  BY <1>2, <1>3, HeadTail
<1>5. /\ \A j \in 1..m : out[j] # Erase
      /\ \A i \in 1..n : n - i < m => out[m - (n - i)] = text[i]
  BY <1>1, <1>2 DEF IsComing
<1>6. n < m
  <2> SUFFICES ASSUME ~(n < m) PROVE FALSE
    OBVIOUS
  <2>1. PICK i \in 1..n : i = n - m + 1
    OBVIOUS
  <2>2. n - i < m /\ m - (n - i) = 1
    BY <2>1
  <2>3. out[1] = text[i]
    BY <1>5, <2>2
  <2>4. text[i] \in Plain
    BY <1>1
  <2> QED
    BY <1>4, <2>3, <2>4
<1>7. ASSUME NEW i \in 1..n PROVE n - i < m - 1 /\ rest[m - 1 - (n - i)] = text[i]
  <2>1. PICK j \in 1..(m - 1) : j = m - 1 - (n - i)
    BY <1>6
  <2>2. m - (n - i) = j + 1 /\ n - i < m /\ n - i < m - 1
    BY <1>6, <2>1
  <2>3. out[j + 1] = text[i]
    BY <1>5, <2>2
  <2> QED
    BY <1>4, <2>1, <2>2, <2>3
<1>8. n <= q + (m - 1) /\ \A j \in 1..(m - 1) : rest[j] # Erase
  BY <1>4, <1>5, <1>6
<1> QED
  BY <1>1, <1>3, <1>4, <1>7, <1>8 DEF IsComing

LEMMA ShownErase ==
  ASSUME NEW text \in Seq(Plain), NEW p \in Nat \ {0}, NEW q, q = p - 1, NEW rows, NEW next,
         IsShown(rows, p, text, 1), \A k \in 0..(p - 2) : Cell(next, k) = Cell(rows, k)
  PROVE  IsShown(next, q, text, 0) /\ IsComing(next, q, text, << >>)
<1>1. PICK n \in Nat : n = Len(text)
  OBVIOUS
<1>2. n + 1 <= p /\ \A i \in 1..n : Cell(rows, p - 1 - n + i - 1) = text[i]
  BY <1>1 DEF IsShown
<1>3. ASSUME NEW i \in 1..n PROVE Cell(next, q - n + i - 1) = text[i]
  <2>1. PICK k \in 0..(p - 2) : k = p - 1 - n + i - 1
    BY <1>2
  <2>2. q - n + i - 1 = k
    BY <2>1
  <2> QED
    BY <1>2, <2>1, <2>2
<1>4. q \in Nat /\ n <= q /\ Len(<< >>) = 0
  BY <1>2
<1>5. \A i \in 1..n : q - 0 - n + i - 1 = q - n + i - 1 /\ q + 0 - n + i - 1 = q - n + i - 1
  BY <1>4
<1>6. IsShown(next, q, text, 0)
  BY <1>1, <1>3, <1>4, <1>5 DEF IsShown
<1>7. IsComing(next, q, text, << >>)
  BY <1>1, <1>3, <1>4, <1>5 DEF IsComing
<1> QED
  BY <1>6, <1>7

LEMMA ShownPut ==
  ASSUME NEW text \in Seq(Plain), NEW p \in Nat, NEW q, q = p + 1, NEW rows, NEW next,
         IsShown(rows, p, text, 0), \A k \in 0..(p - 1) : Cell(next, k) = Cell(rows, k)
  PROVE  IsShown(next, q, text, 1)
<1>1. PICK n \in Nat : n = Len(text)
  OBVIOUS
<1>2. n <= p /\ \A i \in 1..n : Cell(rows, p - 0 - n + i - 1) = text[i]
  BY <1>1 DEF IsShown
<1>3. ASSUME NEW i \in 1..n PROVE Cell(next, q - 1 - n + i - 1) = text[i]
  <2>1. PICK k \in 0..(p - 1) : k = p - 0 - n + i - 1
    BY <1>2
  <2>2. q - 1 - n + i - 1 = k
    BY <2>1
  <2> QED
    BY <1>2, <2>1, <2>2
<1> QED
  BY <1>1, <1>2, <1>3 DEF IsShown

LEMMA NothingComing ==
  ASSUME NEW text \in Seq(Plain), NEW p \in Nat, NEW rows, IsComing(rows, p, text, << >>)
  PROVE  Len(text) <= p /\ \A i \in 1..Len(text) : Cell(rows, p - Len(text) + i - 1) = text[i]
<1>1. PICK n \in Nat : n = Len(text)
  OBVIOUS
<1>2. PICK m : m = Len(<< >>)
  OBVIOUS
<1>3. m = 0
  BY <1>2
<1>4. /\ n <= p + m
      /\ \A i \in 1..n : ~(n - i < m) => Cell(rows, p + m - n + i - 1) = text[i]
  BY <1>1, <1>2 DEF IsComing
<1>5. ASSUME NEW i \in 1..n PROVE Cell(rows, p - n + i - 1) = text[i]
  <2>1. ~(n - i < m) /\ p + m - n + i - 1 = p - n + i - 1
    BY <1>3
  <2> QED
    BY <1>4, <2>1
<1> QED
  BY <1>1, <1>3, <1>4, <1>5

\* The last character of the line is taken back.
LEMMA ShownLess ==
  ASSUME NEW text \in Seq(Plain), NEW less \in Seq(Plain), Len(text) = Len(less) + 1,
         \A i \in 1..Len(less) : less[i] = text[i], NEW p \in Nat, NEW rows,
         IsComing(rows, p, text, << >>)
  PROVE  IsShown(rows, p, less, 1)
<1>1. PICK n \in Nat : n = Len(less)
  OBVIOUS
<1>2. n + 1 <= p /\ \A i \in 1..(n + 1) : Cell(rows, p - (n + 1) + i - 1) = text[i]
  BY <1>1, NothingComing
<1>3. ASSUME NEW i \in 1..n PROVE Cell(rows, p - 1 - n + i - 1) = less[i]
  <2>1. i \in 1..(n + 1) /\ p - 1 - n + i - 1 = p - (n + 1) + i - 1 /\ less[i] = text[i]
    BY <1>1
  <2> QED
    BY <1>2, <2>1
<1> QED
  BY <1>1, <1>2, <1>3 DEF IsShown

\* A character is added to the line.
LEMMA ComingMore ==
  ASSUME NEW text \in Seq(Plain), NEW more \in Seq(Plain), Len(more) = Len(text) + 1,
         NEW c \in Plain, more[Len(more)] = c, \A i \in 1..Len(text) : more[i] = text[i],
         NEW p \in Nat, NEW rows, IsComing(rows, p, text, << >>)
  PROVE  IsComing(rows, p, more, <<c>>)
<1>1. PICK n \in Nat : n = Len(text)
  OBVIOUS
<1>2. n <= p /\ \A i \in 1..n : Cell(rows, p - n + i - 1) = text[i]
  BY <1>1, NothingComing
<1>3. PICK out : out = <<c>>
  OBVIOUS
<1>4. Len(out) = 1 /\ out[1] = c /\ c # Erase
  BY <1>3 DEF Plain
<1>5. Len(more) = n + 1 /\ more[n + 1] = c
  BY <1>1
<1>6. ASSUME NEW i \in 1..(n + 1)
      PROVE  IF n + 1 - i < 1 THEN out[1 - (n + 1 - i)] = more[i]
             ELSE Cell(rows, p + 1 - (n + 1) + i - 1) = more[i]
  <2>1. CASE i = n + 1
    <3>1. n + 1 - i < 1 /\ 1 - (n + 1 - i) = 1
      BY <2>1
    <3> QED
      BY <1>4, <1>5, <2>1, <3>1
  <2>2. CASE i # n + 1
    <3>1. i \in 1..n /\ ~(n + 1 - i < 1) /\ p + 1 - (n + 1) + i - 1 = p - n + i - 1
      BY <2>2
    <3>2. more[i] = text[i]
      BY <1>1, <3>1
    <3> QED
      BY <1>2, <3>1, <3>2
  <2> QED
    BY <2>1, <2>2
<1>7. n + 1 <= p + 1 /\ \A j \in 1..1 : out[j] # Erase
  BY <1>2, <1>4
<1> QED
  <2>1. Len(more) <= p + Len(out)
    BY <1>4, <1>5, <1>7
  <2>2. \A j \in 1..Len(out) : out[j] # Erase
    BY <1>4, <1>7
  <2>3. \A i \in 1..Len(more) :
          IF Len(more) - i < Len(out) THEN out[Len(out) - (Len(more) - i)] = more[i]
          ELSE Cell(rows, p + Len(out) - Len(more) + i - 1) = more[i]
    <3>1. Len(out) = 1 /\ Len(more) = n + 1
      BY <1>4, <1>5
    <3> QED
      BY ONLY <1>6, <3>1
  <2>4. IsComing(rows, p, more, out)
    BY ONLY <2>1, <2>2, <2>3 DEF IsComing
  <2> QED
    BY <1>3, <2>4

\* The output of a command and the next prompt are to be written.
LEMMA ComingNew ==
  ASSUME NEW t \in Outputs, NEW p \in Prompts, NEW q \in Nat, NEW rows
  PROVE  IsComing(rows, q, p, t \o p)
<1>1. t \in Seq(Letters) /\ p \in Seq(Letters) /\ p \in Seq(Plain)
  BY TextsTyped
<1>2. PICK out : out = t \o p
  OBVIOUS
<1>3. PICK n \in Nat : n = Len(p)
  BY <1>1
<1>4. PICK m \in Nat : m = Len(t)
  BY <1>1
<1>5. /\ out \in Seq(Letters) /\ Len(out) = m + n
      /\ \A j \in DOMAIN out : out[j] = IF j <= m THEN t[j] ELSE p[j - m]
  BY <1>1, <1>2, <1>3, <1>4, ConcatIs
<1>6. DOMAIN out = 1..(m + n)
  BY <1>5
<1>7. ASSUME NEW j \in 1..(m + n) PROVE out[j] # Erase
  <2>1. CASE j <= m
    <3>1. j \in DOMAIN t
      BY <1>1, <1>4, <2>1
    <3>2. t[j] # Erase
      BY <3>1, TerminalAssumption
    <3> QED
      BY <1>5, <1>6, <2>1, <3>2
  <2>2. CASE ~(j <= m)
    <3>1. j - m \in 1..n
      BY <2>2
    <3>2. p[j - m] \in Plain
      BY <1>1, <1>3, <3>1
    <3> QED
      BY <1>5, <1>6, <2>2, <3>2 DEF Plain
  <2> QED
    BY <2>1, <2>2
<1>8. ASSUME NEW i \in 1..n PROVE n - i < m + n /\ out[m + n - (n - i)] = p[i]
  <2>1. PICK j \in 1..(m + n) : j = m + n - (n - i)
    OBVIOUS
  <2>2. ~(j <= m) /\ j - m = i /\ n - i < m + n
    BY <2>1
  <2> QED
    BY <1>5, <1>6, <2>1, <2>2
<1>9. n <= q + (m + n)
  OBVIOUS
<1> QED
  <2>1. Len(p) <= q + Len(out)
    BY <1>3, <1>5, <1>9
  <2>2. \A j \in 1..Len(out) : out[j] # Erase
    BY <1>5, <1>7
  <2>3. \A i \in 1..Len(p) :
          IF Len(p) - i < Len(out) THEN out[Len(out) - (Len(p) - i)] = p[i]
          ELSE Cell(rows, q + Len(out) - Len(p) + i - 1) = p[i]
    <3>1. Len(out) = m + n
      BY <1>5
    <3> QED
      BY ONLY <1>3, <1>8, <3>1
  <2>4. IsComing(rows, q, p, out)
    BY ONLY <2>1, <2>2, <2>3 DEF IsComing
  <2> QED
    BY <1>2, <2>4

LEMMA TextIs ==
  ASSUME NEW p \in Prompts, NEW l \in Seq(Printable), NEW t, t = p \o l
  PROVE  /\ t \in Seq(Plain) /\ p \in Seq(Plain) /\ l \in Seq(Plain) /\ Len(t) = Len(p) + Len(l)
         /\ Len(p) \in Nat /\ Len(l) \in Nat
         /\ \A i \in 1..Len(t) : t[i] = IF i <= Len(p) THEN p[i] ELSE l[i - Len(p)]
<1>1. p \in Seq(Plain) /\ l \in Seq(Plain)
  BY TextsTyped
<1> QED
  BY <1>1, ConcatIs

Joined(p, l) == p \o l

LEMMA JoinedIs ==
  ASSUME NEW p \in Prompts, NEW l \in Seq(Printable)
  PROVE  /\ Joined(p, l) \in Seq(Plain) /\ Len(Joined(p, l)) = Len(p) + Len(l)
         /\ \A i \in 1..Len(Joined(p, l)) :
              Joined(p, l)[i] = IF i <= Len(p) THEN p[i] ELSE l[i - Len(p)]
<1>1. PICK t : t = p \o l
  OBVIOUS
<1>2. p \in Seq(Plain) /\ l \in Seq(Plain)
  BY TextsTyped
<1>3. /\ t \in Seq(Plain) /\ Len(t) = Len(p) + Len(l)
      /\ \A i \in DOMAIN t : t[i] = IF i <= Len(p) THEN p[i] ELSE l[i - Len(p)]
  BY <1>1, <1>2, ConcatIs
<1>4. DOMAIN t = 1..Len(t)
  BY <1>3
<1> QED
  BY <1>1, <1>3, <1>4 DEF Joined

LineInv == TypeInv /\ Followed

LEMMA LineInit == Init => LineInv
<1> SUFFICES ASSUME Init PROVE LineInv
  OBVIOUS
<1>1. TypeInv
  BY TypeInit
<1>2. Cursor \in Nat
  BY <1>1, RowsTyped DEF TypeInv
<1>3. PICK p \in Prompts : p = prompt
  BY DEF Init
<1>4. p \in Seq(Plain)
  BY TextsTyped
<1>5. Text = p /\ output = p
  BY <1>3, <1>4 DEF Init, Text
<1>6. IsComing(Rows, Cursor, p, p)
  <2>1. \A j \in 1..Len(p) : p[j] # Erase
    BY <1>4 DEF Plain
  <2>2. PICK n \in Nat : n = Len(p)
    BY <1>4
  <2>3. ASSUME NEW i \in 1..n PROVE n - i < n /\ p[n - (n - i)] = p[i]
    <3>1. n - i < n /\ n - (n - i) = i
      OBVIOUS
    <3> QED
      BY <3>1
  <2>4. n <= Cursor + n
    BY <1>2
  <2> QED
    BY <2>1, <2>2, <2>3, <2>4 DEF IsComing
<1> QED
  BY <1>1, <1>5, <1>6 DEF LineInv, Followed

\* A character is written.
LEMMA FollowedWrite ==
  ASSUME TypeInv, TypeInv', Followed, Write
  PROVE  Followed'
<1> SUFFICES ASSUME pc' = "read", ~stuck'
    PROVE  \/ IsComing(Rows', Cursor', Text', output')
           \/ output' = RubOut /\ IsShown(Rows', Cursor', Text', 1)
           \/ /\ output' = <<Blank, Erase>> /\ IsShown(Rows', Cursor', Text', 0)
              /\ col' + 1 < VGA_WIDTH
           \/ output' = <<Erase>> /\ IsShown(Rows', Cursor', Text', 1) /\ col' > 0
  BY DEF Followed, RubOut, IsComing, IsShown, Cell, RowAt, ColAt, Blank, Erase
<1>1. ConsoleInv /\ ConsoleInv' /\ ShellTyped
  BY DEF TypeInv
<1>2. PICK c : c = Head(output)
  OBVIOUS
<1>3. /\ output # << >> /\ console_putc(c) /\ output' = Tail(output) /\ UNCHANGED shell
      /\ stuck' = (stuck \/ (c = Erase /\ col = 0))
  BY <1>2 DEF Write
<1>4. PICK text \in Seq(Plain) : text = Text
  <2>1. Text \in Seq(Plain)
    BY <1>1, TextIs DEF ShellTyped, Text
  <2> QED
    BY <2>1
<1>5. PICK out \in Seq(Letters) : out = output
  BY <1>1 DEF ShellTyped
<1>6. c \in Letters /\ out # << >> /\ c = Head(out) /\ output' = Tail(out)
  BY <1>2, <1>3, <1>5, HeadTail
<1>7. PICK p \in Nat : p = Cursor
  BY <1>1, RowsTyped
<1>8. PICK rows : rows = Rows
  OBVIOUS
<1>9. PICK next : next = Rows'
  OBVIOUS
<1>10. pc = "read" /\ ~stuck /\ Text' = text /\ ~(c = Erase /\ col = 0)
  BY <1>3, <1>4 DEF shell, Text
<1>11. /\ c = Newline => Sheet!NewLine
       /\ c = Erase => Sheet!Erase
       /\ c \notin {Newline, Erase} => c \in Plain /\ Sheet!Put(c)
  BY <1>1, <1>3, <1>6, <1>10, WriteStep DEF Letters
<1>12. CASE IsComing(rows, p, text, out)
  <2>1. c # Erase
    <3>1. Len(out) \in Nat \ {0} /\ c = out[1]
      BY <1>6, HeadTail
    <3> QED
      BY <1>12, <3>1 DEF IsComing
  <2>2. CASE c = Newline
    <3>1. PICK q \in Nat : q = Cursor'
      BY <1>1, <1>11, <2>2, NewRow
    <3>2. Head(out) \notin Plain
      BY <1>6, <2>2 DEF Plain
    <3>3. IsComing(next, q, text, Tail(out))
      BY <1>6, <1>12, <3>2, ComingSkip
    <3> QED
      BY <1>6, <1>9, <1>10, <3>1, <3>3
  <2>3. CASE c # Newline
    <3>1. c \in Plain /\ Sheet!Put(c)
      BY <1>11, <2>1, <2>3
    <3>2. /\ Cursor' = p + 1 /\ Cell(next, p) = Head(out)
          /\ \A k \in 0..(p - 1) : Cell(next, k) = Cell(rows, k)
      BY <1>1, <1>6, <1>7, <1>8, <1>9, <3>1, Advance
    <3>3. IsComing(next, p + 1, text, Tail(out))
      BY <1>6, <1>12, <3>2, ComingPut
    <3> QED
      BY <1>6, <1>9, <1>10, <3>2, <3>3
  <2> QED
    BY <2>2, <2>3
<1>13. ASSUME IsShown(rows, p, text, 1), c = Erase
       PROVE  /\ Cursor' = p - 1 /\ col > 0 /\ col' = col - 1
              /\ IsShown(next, p - 1, text, 0) /\ IsComing(next, p - 1, text, << >>)
  <2>1. Sheet!Erase
    BY <1>11, <1>13
  <2>2. /\ p \in Nat \ {0} /\ Cursor' = p - 1
        /\ \A k \in 0..(p - 2) : Cell(next, k) = Cell(rows, k)
    BY <1>1, <1>7, <1>8, <1>9, <2>1, Retreat
  <2>3. IsShown(next, p - 1, text, 0) /\ IsComing(next, p - 1, text, << >>)
    BY <1>13, <2>2, ShownErase
  <2> QED
    BY <2>1, <2>2, <2>3 DEF Sheet!Erase
<1>14. CASE out = RubOut /\ IsShown(rows, p, text, 1)
  <2>1. c = Erase /\ Tail(out) = <<Blank, Erase>>
    BY <1>6, <1>14 DEF RubOut
  <2>2. col + 1 <= VGA_WIDTH /\ col \in Nat
    BY <1>1, EmptyRowIs DEF ConsoleInv, ConsoleTyped
  <2>3. col' + 1 < VGA_WIDTH
    BY <1>13, <1>14, <2>1, <2>2, EmptyRowIs
  <2> QED
    BY <1>6, <1>9, <1>10, <1>13, <1>14, <2>1, <2>3
<1>15. CASE out = <<Blank, Erase>> /\ IsShown(rows, p, text, 0) /\ col + 1 < VGA_WIDTH
  <2>1. c = Blank /\ Tail(out) = <<Erase>>
    BY <1>6, <1>15
  <2>2. c \in Plain /\ Sheet!Put(c)
    BY <1>11, <2>1 DEF Blank, Newline, Erase
  <2>3. Cursor' = p + 1 /\ \A k \in 0..(p - 1) : Cell(next, k) = Cell(rows, k)
    BY <1>1, <1>7, <1>8, <1>9, <2>2, Advance
  <2>4. IsShown(next, p + 1, text, 1)
    BY <1>15, <2>3, ShownPut
  <2>5. col' = col + 1 /\ col \in Nat
    BY <1>1, <1>15, <2>2, EmptyRowIs DEF Sheet!Put, ConsoleInv, ConsoleTyped
  <2> QED
    BY <1>6, <1>9, <1>10, <2>1, <2>3, <2>4, <2>5
<1>16. CASE out = <<Erase>> /\ IsShown(rows, p, text, 1) /\ col > 0
  <2>1. c = Erase /\ Tail(out) = << >>
    BY <1>6, <1>16
  <2> QED
    BY <1>6, <1>9, <1>10, <1>13, <1>16, <2>1
<1>17. \/ IsComing(rows, p, text, out)
       \/ out = RubOut /\ IsShown(rows, p, text, 1)
       \/ out = <<Blank, Erase>> /\ IsShown(rows, p, text, 0) /\ col + 1 < VGA_WIDTH
       \/ out = <<Erase>> /\ IsShown(rows, p, text, 1) /\ col > 0
  BY <1>4, <1>5, <1>7, <1>8, <1>10 DEF Followed
<1> QED
  BY <1>12, <1>14, <1>15, <1>16, <1>17

\* A character is taken from the keyboard.
LEMMA FollowedRead ==
  ASSUME TypeInv, TypeInv', Followed, ReadChar
  PROVE  Followed'
<1> SUFFICES ASSUME pc' = "read", ~stuck'
    PROVE  \/ IsComing(Rows', Cursor', Text', output')
           \/ output' = RubOut /\ IsShown(Rows', Cursor', Text', 1)
  BY DEF Followed, RubOut, IsComing, IsShown, Cell, RowAt, ColAt, Blank, Erase
<1>1. ConsoleInv /\ ShellTyped /\ ShellTyped'
  BY DEF TypeInv
<1>2. /\ pc = "read" /\ output = << >> /\ ~stuck
      /\ UNCHANGED <<vga, row, col, scrolled>>
  BY DEF ReadChar, console
<1>3. Rows' = Rows /\ Cursor' = Cursor
  BY <1>2 DEF Rows, Cursor
<1>4. PICK p \in Nat : p = Cursor
  BY <1>1, RowsTyped
<1>5. PICK rows : rows = Rows
  OBVIOUS
<1>6. PICK lead \in Prompts : lead = prompt
  BY <1>1 DEF ShellTyped
<1>7. PICK l \in Seq(Printable) : l = line
  BY <1>1 DEF ShellTyped
<1>8. PICK text : text = lead \o l
  OBVIOUS
<1>9. IsComing(rows, p, text, << >>)
  <2>1. IsComing(Rows, Cursor, Text, output)
    <3>1. << >> # RubOut /\ << >> # <<Blank, Erase>> /\ << >> # <<Erase>>
      BY DEF RubOut
    <3> QED
      BY <1>2, <3>1 DEF Followed
  <2>2. text = Text
    BY <1>6, <1>7, <1>8 DEF Text
  <2> QED
    BY <1>2, <1>4, <1>5, <2>1, <2>2
<1>10. /\ text \in Seq(Plain) /\ Len(text) = Len(lead) + Len(l)
       /\ Len(lead) \in Nat /\ Len(l) \in Nat
       /\ \A i \in 1..Len(text) : text[i] = IF i <= Len(lead) THEN lead[i] ELSE l[i - Len(lead)]
  BY <1>8, TextIs
<1>11. ~Enter
  BY DEF Enter
<1>12. CASE DeleteLast
  <2>1. PICK less \in Seq(Printable) : less = line'
    BY <1>1 DEF ShellTyped
  <2>2. l # << >> /\ less = SubSeq(l, 1, Len(l) - 1) /\ output' = RubOut /\ prompt' = lead
    BY <1>6, <1>7, <1>12, <2>1 DEF DeleteLast
  <2>3. /\ Len(l) \in Nat \ {0} /\ Len(less) = Len(l) - 1
        /\ \A i \in 1..(Len(l) - 1) : less[i] = l[i]
    <3>1. l # << >>
      BY <2>2
    <3>2. less = Shorter(l)
      BY <2>2 DEF Shorter
    <3> QED
      BY <3>1, <3>2, ShorterIs
  <2>4. PICK t : t = lead \o less
    OBVIOUS
  <2>5. /\ t \in Seq(Plain) /\ Len(t) = Len(lead) + Len(less)
        /\ \A i \in 1..Len(t) : t[i] = IF i <= Len(lead) THEN lead[i] ELSE less[i - Len(lead)]
    <3>1. t = Joined(lead, less)
      BY <2>4 DEF Joined
    <3> QED
      BY <3>1, JoinedIs
  <2>6. Text' = t
    BY <2>1, <2>2, <2>4 DEF Text
  <2>7. Len(text) = Len(t) + 1
    BY <1>10, <2>3, <2>5
  <2>8. ASSUME NEW i \in 1..Len(t) PROVE t[i] = text[i]
    <3>1. i \in 1..Len(text)
      BY <1>10, <2>3, <2>5
    <3>2. CASE i <= Len(lead)
      BY <1>10, <2>5, <3>1, <3>2
    <3>3. CASE ~(i <= Len(lead))
      <4>1. i - Len(lead) \in 1..(Len(l) - 1)
        BY <1>10, <2>3, <2>5, <3>3
      <4> QED
        BY <1>10, <2>3, <2>5, <3>1, <3>3, <4>1
    <3> QED
      BY <3>2, <3>3
  <2>9. IsShown(rows, p, t, 1)
    BY <1>9, <1>10, <2>5, <2>7, <2>8, ShownLess
  <2> QED
    BY <1>3, <1>4, <1>5, <2>2, <2>6, <2>9
<1>13. ASSUME NEW c \in Printable, Type(c)
       PROVE  IsComing(Rows', Cursor', Text', output')
  <2>1. PICK more \in Seq(Printable) : more = line'
    BY <1>1, <1>7, <1>13 DEF Type
  <2>2. more = Append(l, c) /\ output' = <<c>> /\ prompt' = lead
    BY <1>6, <1>7, <1>13, <2>1 DEF Type
  <2>3. Len(more) = Len(l) + 1 /\ more[Len(l) + 1] = c /\ \A i \in 1..Len(l) : more[i] = l[i]
    BY <1>13, <2>2, AppendIs
  <2>4. PICK t : t = lead \o more
    OBVIOUS
  <2>5. /\ t \in Seq(Plain) /\ Len(t) = Len(lead) + Len(more)
        /\ \A i \in 1..Len(t) : t[i] = IF i <= Len(lead) THEN lead[i] ELSE more[i - Len(lead)]
    <3>1. t = Joined(lead, more)
      BY <2>4 DEF Joined
    <3> QED
      BY <3>1, JoinedIs
  <2>6. Text' = t
    BY <2>1, <2>2, <2>4 DEF Text
  <2>7. Len(t) = Len(text) + 1 /\ Len(text) \in Nat
    BY <1>10, <2>3, <2>5
  <2>8. t[Len(t)] = c
    <3>1. PICK k \in 1..Len(t) : k = Len(t)
      BY <2>7
    <3>2. ~(k <= Len(lead)) /\ k - Len(lead) = Len(l) + 1
      BY <1>10, <2>3, <2>5, <3>1
    <3> QED
      BY <2>3, <2>5, <3>1, <3>2
  <2>9. ASSUME NEW i \in 1..Len(text) PROVE t[i] = text[i]
    <3>1. i \in 1..Len(t)
      BY <2>7
    <3>2. CASE i <= Len(lead)
      BY <1>10, <2>5, <3>1, <3>2
    <3>3. CASE ~(i <= Len(lead))
      <4>1. i - Len(lead) \in 1..Len(l)
        BY <1>10, <3>3
      <4> QED
        BY <1>10, <2>3, <2>5, <3>1, <3>3, <4>1
    <3> QED
      BY <3>2, <3>3
  <2>10. c \in Plain
    BY <1>13, TextsTyped
  <2>11. IsComing(rows, p, t, <<c>>)
    BY <1>9, <1>10, <2>5, <2>7, <2>8, <2>9, <2>10, ComingMore
  <2> QED
    BY <1>3, <1>4, <1>5, <2>2, <2>6, <2>11
<1> QED
  BY <1>11, <1>12, <1>13 DEF ReadChar

LEMMA LineNext == LineInv /\ [Next]_vars => LineInv'
<1> SUFFICES ASSUME LineInv, [Next]_vars PROVE LineInv'
  OBVIOUS
<1>1. TypeInv /\ Followed
  BY DEF LineInv
<1>2. TypeInv'
  BY <1>1, TypeNext
<1>3. CASE Write
  BY <1>1, <1>2, <1>3, FollowedWrite DEF LineInv
<1>4. CASE ReadChar
  BY <1>1, <1>2, <1>4, FollowedRead DEF LineInv
<1>5. CASE RunLine
  <2>1. PICK t \in Outputs, p \in Prompts : output' = t \o p /\ prompt' = p
    BY <1>5 DEF RunLine
  <2>2. line' = << >> /\ UNCHANGED <<vga, row, col, scrolled>>
    BY <1>5 DEF RunLine, console
  <2>3. Text' = p
    <3>1. p \in Seq(Plain)
      BY TextsTyped
    <3> QED
      BY <2>1, <2>2, <3>1 DEF Text
  <2>4. Cursor' = Cursor
    BY <2>2 DEF Cursor, Rows
  <2>5. PICK q \in Nat : q = Cursor'
    BY <1>1, <2>4, RowsTyped DEF TypeInv
  <2>6. PICK rows : rows = Rows'
    OBVIOUS
  <2>7. IsComing(rows, q, p, t \o p)
    BY ComingNew
  <2>8. IsComing(Rows', Cursor', Text', output')
    BY <2>1, <2>3, <2>5, <2>6, <2>7
  <2>9. Followed'
    BY <2>8 DEF Followed, IsComing, Cell, RowAt, ColAt, Erase
  <2> QED
    BY <1>2, <2>9 DEF LineInv
<1>6. CASE UNCHANGED vars
  <2>1. UNCHANGED <<vga, row, col, scrolled, output, pc, prompt, line, stuck>>
    BY <1>6 DEF vars, console, shell
  <2>2. UNCHANGED <<Rows, Cursor, Text>>
    BY <2>1 DEF Rows, Cursor, Text
  <2>3. Followed'
    BY <1>1, <2>1, <2>2
    DEF Followed, RubOut, IsComing, IsShown, Cell, RowAt, ColAt, Blank, Erase
  <2> QED
    BY <1>2, <2>3 DEF LineInv
<1> QED
  BY <1>3, <1>4, <1>5, <1>6 DEF Next

LEMMA LineInvImplies == LineInv => LineIsShown
<1> SUFFICES ASSUME LineInv, pc = "read", output = << >>, ~stuck
    PROVE  /\ Shown(Len(prompt) + Len(line)) = prompt \o line
           /\ \A x \in (col + 1)..VGA_WIDTH : vga[row + 1][x] = Blank
           /\ \A y \in (row + 2)..VGA_HEIGHT : vga[y] = EmptyRow
  BY DEF LineIsShown
<1>1. ConsoleInv /\ ShellTyped /\ Followed
  BY DEF LineInv, TypeInv
<1>2. PICK lead \in Prompts : lead = prompt
  BY <1>1 DEF ShellTyped
<1>3. PICK l \in Seq(Printable) : l = line
  BY <1>1 DEF ShellTyped
<1>4. PICK text : text = lead \o l
  OBVIOUS
<1>5. PICK p \in Nat : p = Cursor
  BY <1>1, RowsTyped
<1>6. PICK rows : rows = Rows
  OBVIOUS
<1>7. IsComing(rows, p, text, << >>)
  <2>1. << >> # RubOut /\ << >> # <<Blank, Erase>> /\ << >> # <<Erase>>
    BY DEF RubOut
  <2>2. IsComing(Rows, Cursor, Text, output)
    BY <1>1, <2>1 DEF Followed
  <2>3. text = Text
    BY <1>2, <1>3, <1>4 DEF Text
  <2> QED
    BY <1>5, <1>6, <2>2, <2>3
<1>8. text \in Seq(Plain) /\ Len(text) = Len(lead) + Len(l) /\ Len(lead) \in Nat /\ Len(l) \in Nat
  BY <1>4, TextIs
<1>9. PICK n \in Nat : n = Len(text)
  BY <1>8
<1>10. n <= p /\ \A i \in 1..n : Cell(rows, p - n + i - 1) = text[i]
  BY <1>7, <1>8, <1>9, NothingComing
<1>11. ASSUME NEW i \in 1..n PROVE Cells[p - n + i - 1] = text[i]
  <2>1. PICK k \in Nat : k = p - n + i - 1
    BY <1>10
  <2>2. Cells[k] = Cell(rows, k)
    BY <1>6 DEF Cells, Cell, RowAt, ColAt
  <2> QED
    BY <1>10, <2>1, <2>2
<1>12. Shown(n) = text
  <2>1. PICK s : s = Shown(n)
    OBVIOUS
  <2>2. s = [i \in 1..n |-> Cells[p - n + i - 1]]
    BY <1>5, <2>1 DEF Shown
  <2>3. s \in Seq(Plain) /\ Len(s) = n /\ \A i \in 1..n : s[i] = text[i]
    <3>1. \A i \in 1..n : Cells[p - n + i - 1] \in Plain
      BY <1>8, <1>9, <1>11
    <3>2. s \in [1..n -> Plain]
      BY <2>2, <3>1
    <3>3. \A i \in 1..n : s[i] = text[i]
      BY <1>11, <2>2
    <3> QED
      BY <3>2, <3>3
  <2> QED
    BY <1>8, <1>9, <2>1, <2>3, SameSequence
<1>13. n = Len(prompt) + Len(line) /\ text = prompt \o line
  BY <1>2, <1>3, <1>4, <1>8, <1>9
<1> QED
  BY <1>1, <1>12, <1>13 DEF ConsoleInv, NothingBelow, NothingRight

\* When read_line waits for a key, what stands before the cursor is the prompt
\* and the line that will run, and nothing stands after it: for every size of
\* the screen and of the line, over wrapped rows and while the screen scrolls,
\* with the characters taken back by backspaces, until one comes at the left
\* edge.
THEOREM LineStaysShown == Spec => []LineIsShown
<1>1. Init => LineInv
  BY LineInit
<1>2. LineInv /\ [Next]_vars => LineInv'
  BY LineNext
<1>3. LineInv => LineIsShown
  BY LineInvImplies
<1> QED
  BY <1>1, <1>2, <1>3, PTL DEF Spec
=============================================================================
