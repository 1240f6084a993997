----------------------------- MODULE ShellProofs -----------------------------
(***************************************************************************)
(* Proofs about module Shell, for every size of the input buffer and of    *)
(* the screen and every alphabet: the input line implements LineEditor,    *)
(* keys keep their order, and the screen shows the line.                   *)
(***************************************************************************)
EXTENDS Shell, SequenceTheorems, NaturalsInduction, WellFoundedInduction, TLAPS

(* The console: what puts does to a screen, by induction over the string.   *)

\* Induction over the natural numbers: the least number without a property
\* has a predecessor with it.
LEMMA Induction ==
    ASSUME NEW T, 0 \in T, \A n \in Nat : n \in T => n + 1 \in T
    PROVE  Nat \subseteq T
<1> SUFFICES ASSUME NEW S, S = {n \in Nat : n \notin T}, S # {} PROVE FALSE
  BY Zenon
<1>1. PICK m \in S : \A n \in S : ~(<<n, m>> \in OpToRel(<, Nat))
  BY WFMin, NatLessThanWellFounded, Zenon
<1>2. m \in Nat /\ m \notin T /\ m # 0 /\ m - 1 \in Nat
  OBVIOUS
<1>3. m - 1 \notin T
  <2>1. m - 1 + 1 = m
    BY <1>2
  <2> QED
    BY <1>2, <2>1
<1>4. m - 1 \in S /\ m - 1 < m
  BY <1>2, <1>3
<1>5. <<m - 1, m>> \in OpToRel(<, Nat)
  BY <1>2, <1>4, Zenon DEF OpToRel
<1> QED
  BY <1>1, <1>4, <1>5, Zenon

\* drawn is the screen before the string and after each of its characters.
Drawing(drawn, s, str) ==
    /\ drawn[0] = s
    /\ \A n \in 1..Len(str) : drawn[n] = putc(drawn[n - 1], str[n])

\* puts is what its recursive definition says.
LEMMA PutsDraws ==
    ASSUME NEW s, NEW str, Len(str) \in Nat
    PROVE  \E drawn : Drawing(drawn, s, str) /\ puts(s, str) = drawn[Len(str)]
<1> DEFINE Eq(f, m) == f = [n \in 0..m |-> IF n = 0 THEN s ELSE putc(f[n - 1], str[n])]
           T == {m \in Nat : \E f : Eq(f, m)}
<1>1. 0 \in T
  <2> DEFINE f == [n \in 0..0 |-> s]
  <2>1. f = [n \in 0..0 |-> IF n = 0 THEN s ELSE putc(f[n - 1], str[n])]
    OBVIOUS
  <2> QED
    BY <2>1, Zenon
<1>2. ASSUME NEW m \in Nat, m \in T PROVE m + 1 \in T
  <2>1. PICK f : Eq(f, m)
    BY <1>2
  <2> DEFINE g == [n \in 0..(m + 1) |-> IF n = m + 1 THEN putc(f[m], str[m + 1]) ELSE f[n]]
  <2>2. ASSUME NEW n \in 0..(m + 1)
        PROVE  g[n] = IF n = 0 THEN s ELSE putc(g[n - 1], str[n])
    <3>1. CASE n = m + 1
      <4>1. n # 0 /\ n - 1 = m /\ m \in 0..(m + 1) /\ m # m + 1
        BY <3>1
      <4> QED
        BY <3>1, <4>1
    <3>2. CASE n = 0
      BY <2>1, <3>2
    <3>3. CASE n # m + 1 /\ n # 0
      <4>1. n \in 0..m /\ n - 1 \in 0..(m + 1) /\ n - 1 # m + 1
        BY <3>3
      <4>2. f[n] = putc(f[n - 1], str[n])
        BY <2>1, <3>3, <4>1
      <4> QED
        BY <3>3, <4>1, <4>2
    <3> QED
      BY <3>1, <3>2, <3>3
  <2>3. Eq(g, m + 1)
    <3> HIDE DEF g
    <3>1. g = [n \in 0..(m + 1) |-> g[n]]
      BY DEF g
    <3> QED
      BY <2>2, <3>1, Zenon
  <2>4. m + 1 \in Nat
    OBVIOUS
  <2> HIDE DEF g, Eq
  <2> QED
    BY <2>3, <2>4, Zenon
<1>3. Len(str) \in T
  <2> HIDE DEF T
  <2>1. Nat \subseteq T
    BY <1>1, <1>2, Induction, Zenon
  <2> QED
    BY <2>1, Zenon
<1>4. PICK f : Eq(f, Len(str))
  BY <1>3
<1> DEFINE drawn == CHOOSE g : Eq(g, Len(str))
<1>5. Eq(drawn, Len(str))
  <2> HIDE DEF Eq
  <2> QED
    BY <1>4
<1>6. puts(s, str) = drawn[Len(str)]
  BY Zenon DEF puts
<1>7. Drawing(drawn, s, str)
  <2> HIDE DEF drawn
  <2> QED
    BY <1>5 DEF Drawing
<1> QED
  BY <1>6, <1>7, Zenon

\* A screen that shows characters of V, with the cursor in or right behind a row.
IsScreen(s, V) ==
    s \in [buffer : [Cells -> V], cursor_x : 0..width, cursor_y : Nat, stray : BOOLEAN]

OnScreen(s) == s.cursor_y < height

Position(s) == s.cursor_y * width + s.cursor_x

\* What assignments to the fields of a screen leave.
LEMMA Updated ==
    ASSUME NEW B, NEW X, NEW Y, NEW Z, NEW s \in [buffer : B, cursor_x : X, cursor_y : Y, stray : Z],
           NEW b \in B, NEW x \in X, NEW y \in Y
    PROVE  LET t == [[s EXCEPT !.cursor_x = x, !.cursor_y = y] EXCEPT !.buffer = b]
               u == [s EXCEPT !.cursor_x = x, !.cursor_y = y] IN
           /\ t \in [buffer : B, cursor_x : X, cursor_y : Y, stray : Z]
           /\ t.buffer = b /\ t.cursor_x = x /\ t.cursor_y = y /\ t.stray = s.stray
           /\ u \in [buffer : B, cursor_x : X, cursor_y : Y, stray : Z]
           /\ u.buffer = s.buffer /\ u.cursor_x = x /\ u.cursor_y = y /\ u.stray = s.stray
  BY Zenon

LEMMA Drawn ==
    ASSUME NEW B, NEW X, NEW Y, NEW Z, NEW s \in [buffer : B, cursor_x : X, cursor_y : Y, stray : Z],
           NEW c, NEW p, [s.buffer EXCEPT ![p] = c] \in B, NEW x \in X
    PROVE  LET t == [[s EXCEPT !.buffer[p] = c] EXCEPT !.cursor_x = x] IN
           /\ t \in [buffer : B, cursor_x : X, cursor_y : Y, stray : Z]
           /\ t.buffer = [s.buffer EXCEPT ![p] = c] /\ t.cursor_x = x /\ t.cursor_y = s.cursor_y /\ t.stray = s.stray
  BY Zenon

LEMMA RowsInOrder ==
    ASSUME NEW a \in Nat, NEW b \in Nat, a < b
    PROVE  a * width + width <= b * width
<1>1. width \in Nat /\ b - a - 1 \in Nat
  BY ScreenSize
<1>2. (b - a - 1) * width \in Nat
  BY <1>1
<1>3. (b - a - 1) * width = b * width - a * width - width
  BY <1>1
<1>4. a * width \in Nat /\ b * width \in Nat
  BY <1>1
<1> QED
  BY <1>1, <1>2, <1>3, <1>4

LEMMA RowBelow ==
    ASSUME NEW y \in Nat, NEW x \in Nat, y * width + x < width * height
    PROVE  y < height
<1> SUFFICES ASSUME y >= height PROVE FALSE
  BY ScreenSize
<1>1. width \in Nat /\ height \in Nat /\ y - height \in Nat
  BY ScreenSize
<1>2. (y - height) * width \in Nat /\ (y - height) * width = y * width - width * height
  BY <1>1
<1>3. y * width \in Nat /\ width * height \in Nat
  BY <1>1
<1> QED
  BY <1>2, <1>3

LEMMA Newline ==
    ASSUME NEW V, Blank \in V, NEW s, IsScreen(s, V)
    PROVE  LET t == print_newline(s) IN
           /\ IsScreen(t, V) /\ OnScreen(t) /\ t.cursor_x = 0 /\ t.stray = s.stray
           /\ s.cursor_y < height - 1 => t.buffer = s.buffer /\ t.cursor_y = s.cursor_y + 1
<1> DEFINE t == print_newline(s)
           Good == /\ IsScreen(t, V) /\ OnScreen(t) /\ t.cursor_x = 0 /\ t.stray = s.stray
                   /\ s.cursor_y < height - 1 => t.buffer = s.buffer /\ t.cursor_y = s.cursor_y + 1
<1> USE ScreenSize
<1>0. t = print_newline(s)
  OBVIOUS
<1> HIDE DEF t
<1>1. s \in [buffer : [Cells -> V], cursor_x : 0..width, cursor_y : Nat, stray : BOOLEAN]
  BY DEF IsScreen
<1>2. ASSUME s.cursor_y >= height - 1 PROVE Good
  <2>1. t = [[s EXCEPT !.cursor_x = 0, !.cursor_y = height - 1] EXCEPT !.buffer = Scrolled(s.buffer)]
    BY <1>0, <1>2 DEF print_newline, AtBottom, set_cursor
  <2>2. Scrolled(s.buffer) \in [Cells -> V]
    <3> SUFFICES ASSUME NEW i \in Cells, RowOf(i) # 0, RowOf(i) # height - 1
                 PROVE  i + width \in Cells
      BY <1>1 DEF Scrolled
    <3> DEFINE q == i \div width
    <3>1. /\ i \in Nat /\ i < width * height /\ width \in Nat /\ height \in Nat
          /\ q \in Nat /\ q # height - 1 /\ i < (q + 1) * width /\ q * width <= i
      BY SMTT(30) DEF Cells, RowOf
    <3> HIDE DEF q
    <3>2. q < height
      <4>1. q * width \in Nat /\ q * width + 0 < width * height
        BY <3>1
      <4> QED
        BY <3>1, <4>1, RowBelow
    <3>3. q + 1 < height /\ q + 1 \in Nat
      BY <3>1, <3>2
    <3>4. (q + 1) * width + width <= height * width
      BY <3>1, <3>3, RowsInOrder
    <3> QED
      BY <3>1, <3>3, <3>4 DEF Cells
  <2>3. /\ t \in [buffer : [Cells -> V], cursor_x : 0..width, cursor_y : Nat, stray : BOOLEAN]
        /\ t.cursor_x = 0 /\ t.cursor_y = height - 1 /\ t.stray = s.stray
    <3>1. 0 \in 0..width /\ height - 1 \in Nat
      OBVIOUS
    <3> QED
      BY <1>1, <2>1, <2>2, <3>1, Updated, Zenon
  <2>4. IsScreen(t, V)
    BY <2>3, Zenon DEF IsScreen
  <2>5. OnScreen(t) /\ ~(s.cursor_y < height - 1)
    BY <1>1, <1>2, <2>3 DEF OnScreen
  <2> QED
    BY <2>3, <2>4, <2>5, Zenon
<1>3. ASSUME ~(s.cursor_y >= height - 1) PROVE Good
  <2>1. t = [s EXCEPT !.cursor_x = 0, !.cursor_y = s.cursor_y + 1]
    BY <1>0, <1>3 DEF print_newline, AtBottom, set_cursor
  <2>2. /\ t \in [buffer : [Cells -> V], cursor_x : 0..width, cursor_y : Nat, stray : BOOLEAN]
        /\ t.cursor_x = 0 /\ t.cursor_y = s.cursor_y + 1 /\ t.stray = s.stray
        /\ t.buffer = s.buffer
    <3>1. 0 \in 0..width /\ s.cursor_y + 1 \in Nat /\ s.buffer \in [Cells -> V]
      BY <1>1
    <3> QED
      BY <1>1, <2>1, <3>1, Updated, Zenon
  <2>3. IsScreen(t, V)
    BY <2>2, Zenon DEF IsScreen
  <2>4. OnScreen(t)
    BY <1>1, <1>3, <2>2 DEF OnScreen
  <2> QED
    BY <2>2, <2>3, <2>4, Zenon
<1>4. Good
  BY <1>2, <1>3, Zenon
<1> QED
  BY <1>4, Zenon DEF t

\* c is written at the cursor, which moves on.
Writes(s, c, t, V) ==
    /\ IsScreen(t, V) /\ OnScreen(t) /\ t.stray = s.stray
    /\ t.buffer = [s.buffer EXCEPT ![Position(s)] = c]
    /\ Position(t) = Position(s) + 1

\* What putc does with a character other than the newline.
LEMMA PutcFits ==
    ASSUME NEW V, Blank \in V, NEW s, IsScreen(s, V), NEW c \in V, c # NL,
           Position(s) < width * height
    PROVE  Writes(s, c, putc(s, c), V)
<1> USE ScreenSize
<1> DEFINE r == IF s.cursor_x >= width THEN print_newline(s) ELSE s
           t == putc(s, c)
<1>1. s \in [buffer : [Cells -> V], cursor_x : 0..width, cursor_y : Nat, stray : BOOLEAN]
  BY DEF IsScreen
<1>2. /\ IsScreen(r, V) /\ r.cursor_x < width /\ r.stray = s.stray /\ r.buffer = s.buffer
      /\ Position(r) = Position(s)
  <2>1. CASE s.cursor_x >= width
    <3>1. s.cursor_x = width /\ s.cursor_y \in Nat /\ s.cursor_y + 1 \in Nat
      BY <1>1, <2>1
    <3>2. s.cursor_y * width + width = (s.cursor_y + 1) * width + 0
      BY <3>1
    <3>3. s.cursor_y + 1 < height
      <4>1. (s.cursor_y + 1) * width + 0 < width * height
        BY <3>1, <3>2 DEF Position
      <4> QED
        BY <3>1, <4>1, RowBelow
    <3>4. /\ IsScreen(r, V) /\ r.cursor_x = 0 /\ r.stray = s.stray /\ r.buffer = s.buffer
          /\ r.cursor_y = s.cursor_y + 1
      BY <2>1, <3>1, <3>3, Newline
    <3> QED
      BY <3>1, <3>2, <3>4 DEF Position
  <2>2. CASE ~(s.cursor_x >= width)
    BY <1>1, <2>2
  <2> QED
    BY <2>1, <2>2
<1> HIDE DEF r
<1>3. r \in [buffer : [Cells -> V], cursor_x : 0..width, cursor_y : Nat, stray : BOOLEAN]
  BY <1>2 DEF IsScreen
<1> DEFINE p == r.cursor_y * width + r.cursor_x
<1>4. p = Position(s) /\ p \in Cells /\ p \in Int
  <2>1. p = Position(s)
    BY <1>2 DEF Position
  <2>2. p \in Nat
    BY <1>3
  <2> QED
    BY <2>1, <2>2 DEF Cells
<1>5. t = [[r EXCEPT !.buffer[p] = c] EXCEPT !.cursor_x = r.cursor_x + 1]
  <2>1. t = [Draw(r, c) EXCEPT !.cursor_x = @ + 1]
    BY Zenon DEF putc, r
  <2>2. Draw(r, c) = [r EXCEPT !.buffer[p] = c]
    BY <1>4 DEF Draw
  <2>3. [r EXCEPT !.buffer[p] = c].cursor_x = r.cursor_x
    BY <1>3
  <2> QED
    BY <1>3, <2>1, <2>2, <2>3
<1> HIDE DEF t
<1>6. /\ t \in [buffer : [Cells -> V], cursor_x : 0..width, cursor_y : Nat, stray : BOOLEAN]
      /\ t.cursor_x = r.cursor_x + 1 /\ t.cursor_y = r.cursor_y /\ t.stray = r.stray
      /\ t.buffer = [r.buffer EXCEPT ![p] = c]
  <2>1. [r.buffer EXCEPT ![p] = c] \in [Cells -> V] /\ r.cursor_x + 1 \in 0..width
    BY <1>2, <1>3, <1>4
  <2> HIDE DEF p
  <2> QED
    BY <1>3, <1>5, <2>1, Drawn, Zenon
<1>7. r.cursor_y < height
  BY <1>3, <1>4, RowBelow
<1>8. Position(t) = p + 1
  BY <1>3, <1>6 DEF Position
<1> HIDE DEF p
<1>9. Writes(s, c, t, V)
  <2>1. IsScreen(t, V)
    BY <1>6, Zenon DEF IsScreen
  <2>2. OnScreen(t)
    BY <1>6, <1>7, Zenon DEF OnScreen
  <2> QED
    BY <1>2, <1>4, <1>6, <1>8, <2>1, <2>2, Zenon DEF Writes
<1> QED
  BY <1>9, Zenon DEF t

\* Whatever the character, one written on the screen is written within it.
LEMMA PutcStays ==
    ASSUME NEW V, Blank \in V, NEW s, IsScreen(s, V), OnScreen(s), NEW c \in V \cup {NL}
    PROVE  LET t == putc(s, c) IN IsScreen(t, V) /\ OnScreen(t) /\ t.stray = s.stray
<1> USE ScreenSize
<1>1. CASE c = NL
  BY <1>1, Newline DEF putc
<1>2. ASSUME NEW r, IsScreen(r, V), OnScreen(r), ~(r.cursor_x >= width), c # NL
      PROVE  IsScreen(putc(r, c), V) /\ OnScreen(putc(r, c)) /\ putc(r, c).stray = r.stray
  <2>1. r.cursor_y \in Nat /\ r.cursor_y < height /\ r.cursor_x \in Nat /\ r.cursor_x < width
    BY <1>2 DEF IsScreen, OnScreen
  <2>2. r.cursor_y * width + width <= height * width
    BY <2>1, RowsInOrder
  <2>3. Position(r) < width * height
    BY <2>1, <2>2 DEF Position
  <2>4. c \in V
    BY <1>2, Zenon
  <2>5. Writes(r, c, putc(r, c), V)
    BY <1>2, <2>3, <2>4, PutcFits, Zenon
  <2> QED
    BY <2>5, Zenon DEF Writes
<1>3. CASE c # NL /\ s.cursor_x >= width
  <2> DEFINE r == print_newline(s)
  <2>1. IsScreen(r, V) /\ OnScreen(r) /\ r.cursor_x = 0 /\ r.stray = s.stray
    BY Newline
  <2>2. ~(r.cursor_x >= width)
    BY <2>1
  <2>3. putc(s, c) = putc(r, c)
    BY <1>3, <2>2 DEF putc
  <2> HIDE DEF r
  <2> QED
    BY <1>2, <1>3, <2>1, <2>2, <2>3
<1> QED
  BY <1>1, <1>2, <1>3

\* Characters are written on the screen and nowhere else.
Stays(s, t, V) == IsScreen(t, V) /\ OnScreen(t) /\ t.stray = s.stray

\* Nor does a string leave the screen; behind a newline a row begins.
LEMMA PutsStays ==
    ASSUME NEW V, Blank \in V, NEW s, IsScreen(s, V), OnScreen(s), NEW str \in Seq(V \cup {NL})
    PROVE  /\ Stays(s, puts(s, str), V)
           /\ Len(str) > 0 /\ str[Len(str)] = NL => puts(s, str).cursor_x = 0
<1>1. Len(str) \in Nat /\ \A n \in 1..Len(str) : str[n] \in V \cup {NL}
  BY ElementOfSeq, LenProperties
<1>2. PICK drawn : Drawing(drawn, s, str) /\ puts(s, str) = drawn[Len(str)]
  BY <1>1, PutsDraws, Zenon
<1> DEFINE Good(u) == IsScreen(u, V) /\ OnScreen(u) /\ u.stray = s.stray
           T == {n \in Nat : n <= Len(str) => Good(drawn[n])}
<1>3. 0 \in T
  BY <1>2 DEF Drawing
<1>4. ASSUME NEW n \in Nat, n \in T, n + 1 <= Len(str) PROVE Good(drawn[n + 1])
  <2>1. n <= Len(str) /\ n + 1 \in 1..Len(str) /\ n + 1 - 1 = n
    BY <1>1, <1>4
  <2>2. Good(drawn[n])
    BY <1>4, <2>1, Zenon
  <2>3. drawn[n + 1] = putc(drawn[n], str[n + 1])
    BY <1>2, <2>1 DEF Drawing
  <2>4. Good(putc(drawn[n], str[n + 1]))
    <3>1. str[n + 1] \in V \cup {NL}
      BY <1>1, <2>1, Zenon
    <3> QED
      BY <2>2, <3>1, PutcStays, ZenonT(30)
  <2> QED
    BY <2>3, <2>4
<1>5. \A n \in Nat : n \in T => n + 1 \in T
  <2> HIDE DEF Good
  <2> QED
    BY <1>4
<1>6. Len(str) \in T
  <2> HIDE DEF T
  <2>1. Nat \subseteq T
    BY <1>3, <1>5, Induction, Zenon
  <2> QED
    BY <1>1, <2>1, Zenon
<1>7. Good(drawn[Len(str)])
  BY <1>1, <1>6
<1>8. ASSUME Len(str) > 0, str[Len(str)] = NL PROVE drawn[Len(str)].cursor_x = 0
  <2> DEFINE m == Len(str) - 1
  <2>1. m \in Nat /\ m + 1 = Len(str) /\ m <= Len(str) /\ Len(str) \in 1..Len(str)
    BY <1>1, <1>8
  <2>2. m \in T
    <3> HIDE DEF T
    <3>1. Nat \subseteq T
      BY <1>3, <1>5, Induction, Zenon
    <3> QED
      BY <2>1, <3>1, Zenon
  <2>3. IsScreen(drawn[m], V)
    BY <2>1, <2>2
  <2>4. drawn[Len(str)] = putc(drawn[m], NL)
    BY <1>2, <1>8, <2>1 DEF Drawing
  <2>5. putc(drawn[m], NL) = print_newline(drawn[m])
    BY Zenon DEF putc
  <2> QED
    BY <2>3, <2>4, <2>5, Newline
<1> QED
  BY <1>2, <1>7, <1>8, Zenon DEF Stays

\* str is written from the cursor on, which moves behind it.
WritesAll(s, str, t, V) ==
    /\ IsScreen(t, V) /\ t.stray = s.stray /\ Position(t) = Position(s) + Len(str)
    /\ \A n \in 1..Len(str) : t.buffer[Position(s) + n - 1] = str[n]
    /\ \A i \in Cells : i < Position(s) \/ i >= Position(s) + Len(str) => t.buffer[i] = s.buffer[i]

\* What puts does with a string without newlines that fits on the screen.
LEMMA PutsFits ==
    ASSUME NEW V, Blank \in V, NEW s, IsScreen(s, V),
           NEW str \in Seq(V), \A n \in 1..Len(str) : str[n] # NL,
           Position(s) + Len(str) <= width * height
    PROVE  WritesAll(s, str, puts(s, str), V)
<1> DEFINE p == Position(s)
<1>1. Len(str) \in Nat /\ \A n \in 1..Len(str) : str[n] \in V
  BY ElementOfSeq, LenProperties
<1>2. PICK drawn : Drawing(drawn, s, str) /\ puts(s, str) = drawn[Len(str)]
  BY <1>1, PutsDraws, Zenon
<1>p. p \in Nat /\ width * height \in Nat
  BY ScreenSize DEF IsScreen, Position
<1> HIDE DEF p
<1> DEFINE Good(u, n) ==
               /\ IsScreen(u, V) /\ u.stray = s.stray /\ Position(u) = p + n
               /\ \A k \in 1..n : u.buffer[p + k - 1] = str[k]
               /\ \A i \in Cells : i < p \/ i >= p + n => u.buffer[i] = s.buffer[i]
           T == {n \in Nat : n <= Len(str) => Good(drawn[n], n)}
<1>3. 0 \in T
  <2>1. Good(s, 0)
    BY <1>p DEF p
  <2> QED
    BY <1>2, <2>1 DEF Drawing
<1>4. ASSUME NEW n \in Nat, n \in T, n + 1 <= Len(str) PROVE Good(drawn[n + 1], n + 1)
  <2> DEFINE u == drawn[n]
             v == drawn[n + 1]
             c == str[n + 1]
  <2>1. n <= Len(str) /\ n + 1 \in 1..Len(str) /\ n + 1 - 1 = n
    BY <1>1, <1>4
  <2>2. Good(u, n)
    BY <1>4, <2>1, Zenon
  <2>3. v = putc(u, c)
    BY <1>2, <2>1 DEF Drawing
  <2>4. c \in V /\ c # NL /\ Position(u) = p + n /\ Position(u) < width * height
    BY <1>1, <1>p, <2>1, <2>2 DEF p
  <2> HIDE DEF u, v, c
  <2>5. /\ IsScreen(v, V) /\ v.stray = u.stray
        /\ v.buffer = [u.buffer EXCEPT ![p + n] = c] /\ Position(v) = p + n + 1
    <3>0. IsScreen(u, V) /\ c \in V /\ c # NL /\ Position(u) < width * height
      BY <2>2, <2>4, Zenon
    <3>1. Writes(u, c, putc(u, c), V)
      BY <3>0, PutcFits, Zenon
    <3> QED
      BY <2>3, <2>4, <3>1 DEF Writes
  <2>6. u.buffer \in [Cells -> V] /\ Cells = 0..(width * height - 1)
    BY <2>2 DEF IsScreen, Cells
  <2>7. \A i \in Cells : v.buffer[i] = IF i = p + n THEN c ELSE u.buffer[i]
    BY <2>5, <2>6, Zenon
  <2>8. ASSUME NEW k \in 1..(n + 1) PROVE v.buffer[p + k - 1] = str[k]
    <3>1. p + k - 1 \in Cells /\ (k = n + 1 <=> p + k - 1 = p + n) /\ (k # n + 1 => k \in 1..n)
      BY <1>p, <2>4, <2>6
    <3>2. k # n + 1 => u.buffer[p + k - 1] = str[k]
      BY <2>2, <3>1, Zenon
    <3> QED
      BY <2>7, <3>1, <3>2 DEF c
  <2>9. ASSUME NEW i \in Cells, i < p \/ i >= p + (n + 1) PROVE v.buffer[i] = s.buffer[i]
    <3>1. i # p + n /\ (i < p \/ i >= p + n)
      BY <1>p, <2>6, <2>9
    <3>2. u.buffer[i] = s.buffer[i]
      BY <2>2, <3>1, Zenon
    <3> QED
      BY <2>7, <3>1, <3>2
  <2>10. Position(v) = p + (n + 1) /\ v.stray = s.stray
    BY <1>p, <2>2, <2>5
  <2>11. Good(v, n + 1)
    BY <2>5, <2>8, <2>9, <2>10, Zenon
  <2> QED
    BY <2>11, Zenon DEF v
<1>5. \A n \in Nat : n \in T => n + 1 \in T
  <2> HIDE DEF Good
  <2> QED
    BY <1>4
<1>6. Len(str) \in T
  <2> HIDE DEF T
  <2>1. Nat \subseteq T
    BY <1>3, <1>5, Induction, Zenon
  <2> QED
    BY <1>1, <2>1, Zenon
<1>7. Good(drawn[Len(str)], Len(str))
  <2> HIDE DEF Good
  <2> QED
    BY <1>1, <1>6
<1> QED
  BY <1>2, <1>7, Zenon DEF p, WritesAll

-----------------------------------------------------------------------------
(* The inductive invariant.                                                 *)

Chars == Printable \cup {NUL}

\* The line lies within the buffer, and Enter empties it.
LineInv ==
    /\ input_buffer \in [0..(MAX_BUFFER - 1) -> Chars]
    /\ buffer_len \in 0..(MAX_BUFFER - 1)
    /\ cursor_idx \in 0..buffer_len
    /\ pc \in {"start", "command", "init"} => buffer_len = 0

\* Until shell_input is called a key in the slot is a new one.
KeyInv ==
    /\ pc \in {"start", "poll", "input"} /\ pending_key # NONE => fresh
    /\ pc = "input" => pending_key # NONE
    /\ shift_pressed => down # {}

\* What a cell of the screen shows.
Shown == Chars \cup {Blank}

\* No character has gone astray, the prompt is on the screen, and a command or
\* a prompt is printed from the start of a row of the screen.
ScreenInv ==
    /\ IsScreen(screen, Shown) /\ ~screen.stray
    /\ prompt_start_y \in 1..(height - 1)
    /\ pc \in {"start", "command", "init"} => OnScreen(screen) /\ screen.cursor_x = 0
    /\ longest \in Nat /\ buffer_len <= longest

PromptShown == \A k \in 1..PROMPT_LEN : screen.buffer[CellOf(k - 1)] = PROMPT[k]
LineShown == \A k \in 1..buffer_len : screen.buffer[CellOf(PROMPT_LEN + k - 1)] = input_buffer[k - 1]
BlankFrom(n) ==
    \A k \in (PROMPT_LEN + n)..(PROMPT_LEN + longest - 1) : screen.buffer[CellOf(k)] = Blank

\* What the screen shows of the line, also while redraw_line has yet to draw it:
\* an edit makes the line at most one character shorter.
DisplayInv ==
    FitsBelowPrompt(longest) =>
        /\ pc \in {"poll", "input", "clear"} =>
              /\ PromptShown /\ LineShown /\ BlankFrom(buffer_len)
              /\ Position(screen) = CellOf(PROMPT_LEN + cursor_idx)
        /\ pc = "redraw" => PromptShown /\ BlankFrom(buffer_len + 1)

IInv == LineInv /\ KeyInv /\ ScreenInv /\ DisplayInv

-----------------------------------------------------------------------------
(* Parts of the buffer as sequences.                                        *)

LineOf(buf, n) == [i \in 1..n |-> buf[i - 1]]

\* s is the part of length n that starts at index k.
Part(s, buf, k, n) ==
    s \in Seq(Chars) /\ Len(s) = n /\ \A i \in 1..n : s[i] = buf[k + i - 1]

LEMMA PartUnique ==
    ASSUME NEW buf, NEW k \in Nat, NEW n \in Nat, NEW s, NEW t, Part(s, buf, k, n), Part(t, buf, k, n)
    PROVE  s = t
  BY SeqEqual, Zenon DEF Part

\* The two parts of the line that the cursor separates.
LEMMA Parts ==
    ASSUME NEW buf \in [0..(MAX_BUFFER - 1) -> Chars],
           NEW n \in 0..(MAX_BUFFER - 1), NEW c \in 0..n
    PROVE  /\ Part(SubSeq(LineOf(buf, n), 1, c), buf, 0, c)
           /\ Part(SubSeq(LineOf(buf, n), c + 1, n), buf, c, n - c)
           /\ Part(LineOf(buf, n), buf, 0, n)
<1> USE BufferHoldsLine
<1> DEFINE s == LineOf(buf, n)
<1>1. \A i \in 1..n : s[i] = buf[i - 1] /\ s[i] \in Chars
  BY DEF LineOf
<1>2. s \in Seq(Chars) /\ Len(s) = n
  BY <1>1 DEF LineOf
<1> HIDE DEF s
<1>3. Part(SubSeq(s, 1, c), buf, 0, c)
  <2>1. \A i \in 1..c : s[i] \in Chars
    BY <1>1
  <2>2. /\ SubSeq(s, 1, c) \in Seq(Chars)
        /\ Len(SubSeq(s, 1, c)) = IF 1 <= c THEN c - 1 + 1 ELSE 0
        /\ \A i \in 1..(c - 1 + 1) : SubSeq(s, 1, c)[i] = s[1 + i - 1]
    BY <2>1, SubSeqProperties
  <2>3. ASSUME NEW i \in 1..c PROVE SubSeq(s, 1, c)[i] = buf[0 + i - 1]
    <3>1. i \in 1..(c - 1 + 1) /\ 1 + i - 1 = i /\ i \in 1..n /\ 0 + i - 1 = i - 1
      BY <2>3
    <3> QED
      BY <1>1, <2>2, <3>1
  <2>4. Len(SubSeq(s, 1, c)) = c
    BY <2>2
  <2> QED
    BY <2>2, <2>3, <2>4 DEF Part
<1>4. Part(SubSeq(s, c + 1, n), buf, c, n - c)
  <2>1. \A i \in (c + 1)..n : s[i] \in Chars
    BY <1>1
  <2>2. /\ SubSeq(s, c + 1, n) \in Seq(Chars)
        /\ Len(SubSeq(s, c + 1, n)) = IF c + 1 <= n THEN n - (c + 1) + 1 ELSE 0
        /\ \A i \in 1..(n - (c + 1) + 1) : SubSeq(s, c + 1, n)[i] = s[c + 1 + i - 1]
    BY <2>1, SubSeqProperties
  <2>3. ASSUME NEW i \in 1..(n - c) PROVE SubSeq(s, c + 1, n)[i] = buf[c + i - 1]
    <3>1. i \in 1..(n - (c + 1) + 1) /\ c + 1 + i - 1 = c + i /\ c + i \in 1..n
      BY <2>3
    <3> QED
      BY <1>1, <2>2, <3>1
  <2>4. Len(SubSeq(s, c + 1, n)) = n - c
    BY <2>2
  <2> QED
    BY <2>2, <2>3, <2>4, Zenon DEF Part
<1>5. Part(s, buf, 0, n)
  BY <1>1, <1>2 DEF Part
<1> QED
  BY <1>3, <1>4, <1>5 DEF s

\* Parts of two buffers that agree.
LEMMA PartSame ==
    ASSUME NEW buf, NEW new, NEW k \in Nat, NEW j \in Nat, NEW n \in Nat, NEW s,
           Part(s, buf, k, n), \A i \in 1..n : buf[k + i - 1] = new[j + i - 1]
    PROVE  Part(s, new, j, n)
  BY Zenon DEF Part

LEMMA PartAppend ==
    ASSUME NEW buf, NEW k \in Nat, NEW n \in Nat, NEW s, NEW x \in Chars,
           Part(s, buf, k, n), buf[k + n] = x
    PROVE  Part(Append(s, x), buf, k, n + 1)
<1>1. s \in Seq(Chars) /\ Len(s) = n /\ \A i \in 1..n : s[i] = buf[k + i - 1]
  BY DEF Part
<1>2. /\ Append(s, x) \in Seq(Chars) /\ Len(Append(s, x)) = n + 1
      /\ \A i \in 1..n : Append(s, x)[i] = s[i]
      /\ Append(s, x)[n + 1] = x
  BY <1>1, AppendProperties
<1>3. ASSUME NEW i \in 1..(n + 1) PROVE Append(s, x)[i] = buf[k + i - 1]
  <2>1. CASE i = n + 1
    <3>1. k + i - 1 = k + n
      BY <2>1
    <3> QED
      BY <1>2, <2>1, <3>1
  <2>2. CASE i \in 1..n
    BY <1>1, <1>2, <2>2
  <2>3. i = n + 1 \/ i \in 1..n
    OBVIOUS
  <2> QED
    BY <2>1, <2>2, <2>3, Zenon
<1> QED
  BY <1>2, <1>3 DEF Part

LEMMA PartFront ==
    ASSUME NEW buf, NEW k \in Nat, NEW n \in Nat, n > 0, NEW s, Part(s, buf, k, n)
    PROVE  Part(SubSeq(s, 1, Len(s) - 1), buf, k, n - 1)
<1>1. s \in Seq(Chars) /\ Len(s) = n /\ \A i \in 1..n : s[i] = buf[k + i - 1] /\ s[i] \in Chars
  BY ElementOfSeq DEF Part
<1>2. \A i \in 1..(n - 1) : s[i] \in Chars
  BY <1>1
<1>3. /\ SubSeq(s, 1, n - 1) \in Seq(Chars)
      /\ Len(SubSeq(s, 1, n - 1)) = IF 1 <= n - 1 THEN n - 1 - 1 + 1 ELSE 0
      /\ \A i \in 1..(n - 1 - 1 + 1) : SubSeq(s, 1, n - 1)[i] = s[1 + i - 1]
  BY <1>2, SubSeqProperties
<1>4. Len(SubSeq(s, 1, n - 1)) = n - 1
  BY <1>3
<1>5. ASSUME NEW i \in 1..(n - 1) PROVE SubSeq(s, 1, n - 1)[i] = buf[k + i - 1]
  <2>1. i \in 1..(n - 1 - 1 + 1) /\ 1 + i - 1 = i /\ i \in 1..n
    BY <1>5
  <2> QED
    BY <1>1, <1>3, <2>1
<1> QED
  BY <1>1, <1>3, <1>4, <1>5 DEF Part

LEMMA PartTail ==
    ASSUME NEW buf, NEW k \in Nat, NEW n \in Nat, n > 0, NEW s, Part(s, buf, k, n)
    PROVE  Part(Tail(s), buf, k + 1, n - 1) /\ Head(s) = buf[k] /\ Head(s) \in Chars
<1>1. s \in Seq(Chars) /\ Len(s) = n /\ s # <<>> /\ \A i \in 1..n : s[i] = buf[k + i - 1]
  BY DEF Part
<1>2. /\ Head(s) \in Chars /\ Tail(s) \in Seq(Chars) /\ Len(Tail(s)) = n - 1
      /\ \A i \in 1..(n - 1) : Tail(s)[i] = s[i + 1]
  BY <1>1, HeadTailProperties
<1>3. Head(s) = buf[k]
  BY <1>1
<1>4. ASSUME NEW i \in 1..(n - 1) PROVE Tail(s)[i] = buf[k + 1 + i - 1]
  <2>1. i + 1 \in 1..n /\ k + (i + 1) - 1 = k + 1 + i - 1
    BY <1>4
  <2> QED
    BY <1>1, <1>2, <2>1
<1> QED
  BY <1>2, <1>3, <1>4 DEF Part

\* Two parts that follow one another.
LEMMA PartConcat ==
    ASSUME NEW buf, NEW k \in Nat, NEW n \in Nat, NEW m \in Nat, NEW s, NEW t,
           Part(s, buf, k, n), Part(t, buf, k + n, m)
    PROVE  Part(s \o t, buf, k, n + m)
<1>1. s \in Seq(Chars) /\ Len(s) = n /\ \A i \in 1..n : s[i] = buf[k + i - 1]
  BY DEF Part
<1>2. t \in Seq(Chars) /\ Len(t) = m /\ \A i \in 1..m : t[i] = buf[k + n + i - 1]
  BY DEF Part
<1>3. /\ s \o t \in Seq(Chars) /\ Len(s \o t) = n + m
      /\ \A i \in 1..(n + m) : (s \o t)[i] = IF i <= n THEN s[i] ELSE t[i - n]
  <2>1. s \in Seq(Chars) /\ t \in Seq(Chars) /\ Len(s) = n /\ Len(t) = m
    BY <1>1, <1>2, Zenon
  <2> QED
    BY <2>1, ConcatProperties, ZenonT(30)
<1>4. ASSUME NEW i \in 1..(n + m) PROVE (s \o t)[i] = buf[k + i - 1]
  <2>1. CASE i <= n
    <3>1. i \in 1..n
      BY <2>1
    <3> QED
      BY <1>1, <1>3, <2>1, <3>1
  <2>2. CASE ~(i <= n)
    <3>1. i - n \in 1..m /\ k + n + (i - n) - 1 = k + i - 1
      BY <2>2
    <3> QED
      BY <1>2, <1>3, <2>2, <3>1
  <2> QED
    BY <2>1, <2>2, Zenon
<1> QED
  BY <1>3, <1>4 DEF Part

-----------------------------------------------------------------------------
(* The steps.                                                               *)

Bf == SubSeq(Line, 1, cursor_idx)
Af == SubSeq(Line, cursor_idx + 1, buffer_len)

\* The refinement mapping, before and after a step.
LEMMA MapNow ==
    ASSUME LineInv
    PROVE  /\ Part(Bf, input_buffer, 0, cursor_idx)
           /\ Part(Af, input_buffer, cursor_idx, buffer_len - cursor_idx)
           /\ Part(Line, input_buffer, 0, buffer_len)
<1>1. Line = LineOf(input_buffer, buffer_len)
  BY DEF Line, LineOf
<1> QED
  BY <1>1, Parts DEF LineInv, Bf, Af

LEMMA MapThen ==
    ASSUME LineInv'
    PROVE  /\ Part(Bf', input_buffer', 0, cursor_idx')
           /\ Part(Af', input_buffer', cursor_idx', buffer_len' - cursor_idx')
<1>1. Line' = LineOf(input_buffer', buffer_len')
  BY SMTT(30) DEF Line, LineOf
<1> QED
  BY <1>1, Parts DEF LineInv, Bf, Af

\* What the mapping makes of the actions of LineEditor.
LEMMA EditorActions ==
    /\ \A c \in Printable :
          Len(Bf) + Len(Af) < MAX_BUFFER - 1 /\ Bf' = Append(Bf, c) /\ Af' = Af /\ cmd_copy' = cmd_copy
            => Editor!Next
    /\ Bf # <<>> /\ Bf' = SubSeq(Bf, 1, Len(Bf) - 1) /\ Af' = Af /\ cmd_copy' = cmd_copy
         => Editor!Next
    /\ Bf # <<>> /\ Bf' = SubSeq(Bf, 1, Len(Bf) - 1) /\ Af' = <<Bf[Len(Bf)]>> \o Af
         /\ cmd_copy' = cmd_copy => Editor!Next
    /\ Af # <<>> /\ Bf' = Append(Bf, Head(Af)) /\ Af' = Tail(Af) /\ cmd_copy' = cmd_copy
         => Editor!Next
    /\ cmd_copy' = Bf \o Af /\ Bf' = <<>> /\ Af' = <<>> => Editor!Next
    /\ UNCHANGED <<Bf, Af, cmd_copy>> => UNCHANGED (Editor!vars)
  BY Zenon DEF Editor!Next, Editor!Insert, Editor!Erase, Editor!MoveLeft, Editor!MoveRight,
         Editor!Submit, Editor!vars, Editor!AllButLast, Bf, Af

LEMMA InsertStep ==
    ASSUME LineInv, NEW c \in Printable, InputChar(c)
    PROVE  LineInv' /\ Editor!Next
<1> USE BufferHoldsLine
<1> DEFINE M == MAX_BUFFER
           n == buffer_len
           k == cursor_idx
<1>1. /\ input_buffer \in [0..(M - 1) -> Chars] /\ n \in Nat /\ k \in Nat /\ k <= n /\ n < M - 1
      /\ c \in Chars /\ k + 1 \in Nat /\ n - k \in Nat
  BY DEF LineInv, InputChar, HasRoom, Chars
<1>2. /\ input_buffer' = [i \in 0..(M - 1) |->
                             CASE i = k -> c
                               [] i \in (k + 1)..n -> input_buffer[i - 1]
                               [] OTHER -> input_buffer[i]]
      /\ buffer_len' = n + 1 /\ cursor_idx' = k + 1 /\ pc' = "redraw" /\ cmd_copy' = cmd_copy
  BY DEF InputChar, Edit
<1> HIDE DEF M, n, k
<1>3. /\ \A i \in 0..(M - 1) : i < k => input_buffer'[i] = input_buffer[i]
      /\ input_buffer'[k] = c
      /\ \A i \in (k + 1)..n : input_buffer'[i] = input_buffer[i - 1]
  BY <1>1, <1>2, SMTT(30) DEF M
<1>4. \A i \in 0..(M - 1) : input_buffer'[i] \in Chars
  <2> SUFFICES ASSUME NEW i \in 0..(M - 1) PROVE input_buffer'[i] \in Chars
    OBVIOUS
  <2>1. CASE i = k
    BY <1>1, <1>3, <2>1
  <2>2. CASE i \in (k + 1)..n
    <3>1. i - 1 \in 0..(M - 1)
      BY <1>1, <2>2 DEF M
    <3> QED
      BY <1>1, <1>3, <2>2, <3>1, SMTT(30)
  <2>3. CASE i # k /\ i \notin (k + 1)..n
    BY <1>1, <1>2, <2>3
  <2> QED
    BY <2>1, <2>2, <2>3
<1>5. LineInv'
  <2>1. input_buffer' \in [0..(M - 1) -> Chars]
    BY <1>2, <1>4
  <2>2. buffer_len' \in 0..(M - 1) /\ cursor_idx' \in 0..buffer_len'
    BY <1>1, <1>2 DEF M
  <2> QED
    BY <1>2, <2>1, <2>2 DEF LineInv, M
<1>6. Part(Bf, input_buffer, 0, k) /\ Part(Af, input_buffer, k, n - k)
  BY MapNow DEF n, k
<1>7. Part(Bf', input_buffer', 0, k + 1) /\ Part(Af', input_buffer', k + 1, n - k)
  <2>1. buffer_len' - cursor_idx' = n - k
    BY <1>1, <1>2
  <2> QED
    BY <1>2, <1>5, <2>1, MapThen, SMTT(30)
<1>8. Bf' = Append(Bf, c)
  <2>1. \A i \in 1..k : input_buffer[0 + i - 1] = input_buffer'[0 + i - 1]
    BY <1>1, <1>3 DEF M
  <2>2. Part(Bf, input_buffer', 0, k)
    BY <1>1, <1>6, <2>1, PartSame, ZenonT(30)
  <2>3. Part(Append(Bf, c), input_buffer', 0, k + 1)
    BY <1>1, <1>3, <2>2, PartAppend
  <2> QED
    BY <1>1, <1>7, <2>3, PartUnique, ZenonT(30)
<1>9. Af' = Af
  <2>1. \A i \in 1..(n - k) : input_buffer[k + i - 1] = input_buffer'[k + 1 + i - 1]
    <3> SUFFICES ASSUME NEW i \in 1..(n - k)
                 PROVE  input_buffer[k + i - 1] = input_buffer'[k + 1 + i - 1]
      OBVIOUS
    <3> DEFINE m == k + i
    <3>1. m \in (k + 1)..n /\ k + 1 + i - 1 = m /\ k + i - 1 = m - 1
      BY <1>1
    <3> HIDE DEF m
    <3> QED
      BY <1>3, <3>1
  <2>2. Part(Af, input_buffer', k + 1, n - k)
    BY <1>1, <1>6, <2>1, PartSame, ZenonT(30)
  <2> QED
    BY <1>1, <1>7, <2>2, PartUnique, SMTT(30)
<1>10. Len(Bf) + Len(Af) < MAX_BUFFER - 1
  BY <1>1, <1>6 DEF Part, M
<1> QED
  BY <1>2, <1>5, <1>8, <1>9, <1>10, EditorActions, SMTT(30)

LEMMA EraseStep ==
    ASSUME LineInv, InputBackspace
    PROVE  LineInv' /\ Editor!Next
<1> USE BufferHoldsLine
<1> DEFINE M == MAX_BUFFER
           n == buffer_len
           k == cursor_idx
<1>1. /\ input_buffer \in [0..(M - 1) -> Chars] /\ n \in Nat /\ k \in Nat /\ 0 < k /\ k <= n /\ n < M
      /\ k - 1 \in Nat /\ n - k \in Nat
  BY DEF LineInv, InputBackspace
<1>2. /\ input_buffer' = [i \in 0..(M - 1) |-> IF i \in (k - 1)..(n - 2)
                                               THEN input_buffer[i + 1] ELSE input_buffer[i]]
      /\ buffer_len' = n - 1 /\ cursor_idx' = k - 1 /\ pc' = "redraw" /\ cmd_copy' = cmd_copy
  BY DEF InputBackspace, Edit, EraseAt
<1> HIDE DEF M, n, k
<1>3. /\ \A i \in 0..(M - 1) : i < k - 1 => input_buffer'[i] = input_buffer[i]
      /\ \A i \in (k - 1)..(n - 2) : input_buffer'[i] = input_buffer[i + 1]
  BY <1>1, <1>2 DEF M
<1>4. \A i \in 0..(M - 1) : input_buffer'[i] \in Chars
  <2> SUFFICES ASSUME NEW i \in 0..(M - 1) PROVE input_buffer'[i] \in Chars
    OBVIOUS
  <2>1. CASE i \in (k - 1)..(n - 2)
    <3>1. i + 1 \in 0..(M - 1)
      BY <1>1, <2>1 DEF M
    <3> QED
      BY <1>1, <1>3, <2>1, <3>1, SMTT(30)
  <2>2. CASE i \notin (k - 1)..(n - 2)
    BY <1>1, <1>2, <2>2, SMTT(30)
  <2> QED
    BY <2>1, <2>2
<1>5. LineInv'
  <2>1. input_buffer' \in [0..(M - 1) -> Chars]
    BY <1>2, <1>4
  <2>2. buffer_len' \in 0..(M - 1) /\ cursor_idx' \in 0..buffer_len'
    BY <1>1, <1>2 DEF M
  <2> QED
    BY <1>2, <2>1, <2>2, SMTT(30) DEF LineInv, M
<1>6. Part(Bf, input_buffer, 0, k) /\ Part(Af, input_buffer, k, n - k)
  BY MapNow DEF n, k
<1>7. Part(Bf', input_buffer', 0, k - 1) /\ Part(Af', input_buffer', k - 1, n - k)
  <2>1. buffer_len' - cursor_idx' = n - k
    BY <1>1, <1>2
  <2> QED
    BY <1>2, <1>5, <2>1, MapThen, SMTT(30)
<1>8. Bf' = SubSeq(Bf, 1, Len(Bf) - 1)
  <2>1. Part(SubSeq(Bf, 1, Len(Bf) - 1), input_buffer, 0, k - 1)
    BY <1>1, <1>6, PartFront
  <2>2. \A i \in 1..(k - 1) : input_buffer[0 + i - 1] = input_buffer'[0 + i - 1]
    BY <1>1, <1>3 DEF M
  <2>3. Part(SubSeq(Bf, 1, Len(Bf) - 1), input_buffer', 0, k - 1)
    BY <1>1, <2>1, <2>2, PartSame, ZenonT(30)
  <2> QED
    BY <1>1, <1>7, <2>3, PartUnique, ZenonT(30)
<1>9. Af' = Af
  <2>1. \A i \in 1..(n - k) : input_buffer[k + i - 1] = input_buffer'[k - 1 + i - 1]
    <3> SUFFICES ASSUME NEW i \in 1..(n - k)
                 PROVE  input_buffer[k + i - 1] = input_buffer'[k - 1 + i - 1]
      OBVIOUS
    <3> DEFINE m == k + i - 2
    <3>1. m \in (k - 1)..(n - 2) /\ k - 1 + i - 1 = m /\ k + i - 1 = m + 1
      BY <1>1
    <3> HIDE DEF m
    <3> QED
      BY <1>3, <3>1
  <2>2. Part(Af, input_buffer', k - 1, n - k)
    <3>1. k \in Nat /\ k - 1 \in Nat /\ n - k \in Nat /\ Part(Af, input_buffer, k, n - k)
      BY <1>1, <1>6, Zenon
    <3> QED
      BY <2>1, <3>1, PartSame, ZenonT(30)
  <2> QED
    BY <1>1, <1>7, <2>2, PartUnique
<1>10. Bf # <<>>
  BY <1>1, <1>6 DEF Part
<1> QED
  BY <1>2, <1>5, <1>8, <1>9, <1>10, EditorActions, SMTT(30)

LEMMA MoveStep ==
    ASSUME LineInv, InputLeft \/ InputRight
    PROVE  LineInv' /\ Editor!Next
<1> USE BufferHoldsLine
<1> DEFINE n == buffer_len
           k == cursor_idx
           buf == input_buffer
<1>1. /\ n \in Nat /\ k \in Nat /\ k <= n /\ n - k \in Nat
      /\ UNCHANGED <<input_buffer, buffer_len, cmd_copy>> /\ pc' = "redraw"
  BY DEF LineInv, InputLeft, InputRight, Edit
<1>2. Part(Bf, buf, 0, k) /\ Part(Af, buf, k, n - k)
  BY MapNow
<1>3. CASE InputLeft
  <2>1. k > 0 /\ cursor_idx' = k - 1 /\ k - 1 \in Nat
    BY <1>1, <1>3 DEF InputLeft
  <2>2. LineInv'
    BY <1>1, <2>1 DEF LineInv
  <2>3. Part(Bf', buf, 0, k - 1) /\ Part(Af', buf, k - 1, n - k + 1)
    <3>1. buffer_len' - cursor_idx' = n - k + 1
      BY <1>1, <2>1
    <3> QED
      BY <1>1, <2>1, <2>2, <3>1, MapThen, SMTT(30)
  <2>4. Part(SubSeq(Bf, 1, Len(Bf) - 1), buf, 0, k - 1)
    BY <1>1, <1>2, <2>1, PartFront, SMTT(30)
  <2>5. Bf' = SubSeq(Bf, 1, Len(Bf) - 1)
    BY <1>1, <2>1, <2>3, <2>4, PartUnique, Zenon
  <2>6. Bf # <<>> /\ Len(Bf) = k /\ Bf[k] = buf[k - 1] /\ Bf[k] \in Chars
    BY <1>1, <1>2, <2>1, ElementOfSeq DEF Part
  <2>7. Part(<<Bf[Len(Bf)]>>, buf, k - 1, 1)
    <3>1. <<Bf[k]>> \in Seq(Chars) /\ Len(<<Bf[k]>>) = 1 /\ <<Bf[k]>>[1] = buf[k - 1]
      BY <2>6
    <3>2. \A i \in 1..1 : i = 1 /\ k - 1 + i - 1 = k - 1
      BY <1>1
    <3> QED
      BY <2>6, <3>1, <3>2 DEF Part
  <2>8. Part(<<Bf[Len(Bf)]>> \o Af, buf, k - 1, n - k + 1)
    <3>1. k - 1 + 1 = k /\ 1 + (n - k) = n - k + 1 /\ 1 \in Nat
      BY <1>1
    <3>2. Part(Af, buf, k - 1 + 1, n - k)
      BY <1>2, <3>1
    <3>3. Part(<<Bf[Len(Bf)]>> \o Af, buf, k - 1, 1 + (n - k))
      BY <1>1, <2>1, <2>7, <3>1, <3>2, PartConcat, ZenonT(30)
    <3> QED
      BY <3>1, <3>3
  <2>9. Af' = <<Bf[Len(Bf)]>> \o Af
    <3>1. n - k + 1 \in Nat
      BY <1>1
    <3> QED
      BY <2>1, <2>3, <2>8, <3>1, PartUnique, Zenon
  <2> QED
    BY <1>1, <2>2, <2>5, <2>6, <2>9, EditorActions
<1>4. CASE InputRight
  <2>1. k < n /\ cursor_idx' = k + 1 /\ k + 1 \in Nat /\ n - k - 1 \in Nat /\ n - k > 0
    BY <1>1, <1>4, SMTT(30) DEF InputRight, LineInv
  <2>2. LineInv'
    BY <1>1, <2>1, SMTT(30) DEF LineInv
  <2>3. Part(Bf', buf, 0, k + 1) /\ Part(Af', buf, k + 1, n - k - 1)
    <3>1. buffer_len' - cursor_idx' = n - k - 1
      BY <1>1, <2>1
    <3> QED
      BY <1>1, <2>1, <2>2, <3>1, MapThen, SMTT(30)
  <2>4. Part(Tail(Af), buf, k + 1, n - k - 1) /\ Head(Af) = buf[k] /\ Head(Af) \in Chars
    BY <1>1, <1>2, <2>1, PartTail, SMTT(30)
  <2>5. Part(Append(Bf, Head(Af)), buf, 0, k + 1)
    <3>1. 0 + k = k
      BY <1>1
    <3> QED
      BY <1>1, <1>2, <2>4, <3>1, PartAppend, SMTT(30)
  <2>6. Bf' = Append(Bf, Head(Af)) /\ Af' = Tail(Af)
    BY <1>1, <2>1, <2>3, <2>4, <2>5, PartUnique, ZenonT(30)
  <2>7. Af # <<>>
    BY <1>1, <1>2, <2>1 DEF Part
  <2> QED
    BY <1>1, <2>2, <2>6, <2>7, EditorActions, SMTT(30)
<1> QED
  BY <1>3, <1>4

LEMMA EnterStep ==
    ASSUME LineInv, InputEnter
    PROVE  LineInv' /\ Editor!Next
<1> USE BufferHoldsLine
<1> DEFINE n == buffer_len
           k == cursor_idx
<1>1. /\ n \in Nat /\ k \in Nat /\ k <= n /\ n - k \in Nat
      /\ input_buffer' = [i \in 0..(MAX_BUFFER - 1) |-> NUL]
      /\ buffer_len' = 0 /\ cursor_idx' = 0 /\ cmd_copy' = Line
  BY DEF LineInv, InputEnter
<1>2. LineInv'
  BY <1>1 DEF LineInv, Chars
<1>3. /\ Part(Bf, input_buffer, 0, k) /\ Part(Af, input_buffer, k, n - k)
      /\ Part(Line, input_buffer, 0, n)
  BY MapNow
<1>4. Part(Bf \o Af, input_buffer, 0, n)
  <2>1. 0 + k = k /\ k + (n - k) = n
    BY <1>1
  <2>2. Part(Af, input_buffer, 0 + k, n - k)
    BY <1>3, <2>1
  <2>3. Part(Bf \o Af, input_buffer, 0, k + (n - k))
    BY <1>1, <1>3, <2>2, PartConcat, SMTT(30)
  <2> QED
    BY <2>1, <2>3, SMTT(30)
<1>5. cmd_copy' = Bf \o Af
  BY <1>1, <1>3, <1>4, PartUnique, ZenonT(30)
<1>6. Bf' = <<>> /\ Af' = <<>>
  <2>1. Part(Bf', input_buffer', 0, 0) /\ Part(Af', input_buffer', 0, 0 - 0)
    BY <1>1, <1>2, MapThen
  <2> QED
    BY <2>1 DEF Part
<1> QED
  BY <1>2, <1>5, <1>6, EditorActions

\* Every other step leaves the line and what was submitted alone.
LEMMA IdleStep ==
    ASSUME LineInv,
           \/ shell_init \/ Poll \/ redraw_line \/ process_command \/ PollClear \/ Interrupt
           \/ \E key \in Special \cup Printable \cup {TAB} : InputIgnored(key)
           \/ UNCHANGED vars
    PROVE  LineInv' /\ UNCHANGED (Editor!vars)
<1> USE BufferHoldsLine
<1>1. CASE shell_init
  <2>1. /\ input_buffer' = [i \in 0..(MAX_BUFFER - 1) |-> NUL] /\ buffer_len = 0
        /\ buffer_len' = 0 /\ cursor_idx' = 0 /\ cursor_idx = 0 /\ cmd_copy' = cmd_copy
    BY <1>1 DEF shell_init, LineInv
  <2>2. LineInv'
    BY <2>1 DEF LineInv, Chars
  <2>3. Bf' = <<>> /\ Af' = <<>>
    <3>1. Part(Bf', input_buffer', 0, 0) /\ Part(Af', input_buffer', 0, 0 - 0)
      BY <2>1, <2>2, MapThen, SMTT(30)
    <3> QED
      BY <3>1 DEF Part
  <2>4. Bf = <<>> /\ Af = <<>>
    <3>1. Part(Bf, input_buffer, 0, 0) /\ Part(Af, input_buffer, 0, 0 - 0)
      BY <2>1, MapNow
    <3> QED
      BY <3>1 DEF Part
  <2> QED
    BY <2>1, <2>2, <2>3, <2>4, EditorActions, SMTT(30)
<1>2. ASSUME UNCHANGED <<line, cmd_copy>>,
             pc' \in {"start", "command", "init"} => pc \in {"start", "command", "init"}
      PROVE  LineInv' /\ UNCHANGED (Editor!vars)
  <2>1. UNCHANGED <<input_buffer, buffer_len, cursor_idx, cmd_copy>>
    BY <1>2 DEF line
  <2>2. LineInv'
    BY <1>2, <2>1 DEF LineInv
  <2>3. UNCHANGED <<Bf, Af, cmd_copy>>
    BY <2>1 DEF Bf, Af, Line
  <2> QED
    BY <2>2, <2>3, EditorActions
<1>3. CASE Poll
  BY <1>2, <1>3 DEF Poll
<1>4. CASE redraw_line
  BY <1>2, <1>4 DEF redraw_line
<1>5. CASE process_command
  BY <1>2, <1>5 DEF process_command
<1>6. CASE PollClear
  BY <1>2, <1>6 DEF PollClear
<1>7. CASE Interrupt
  BY <1>2, <1>7, SMTT(30) DEF Interrupt
<1>8. CASE \E key \in Special \cup Printable \cup {TAB} : InputIgnored(key)
  BY <1>2, <1>8, SMTT(30) DEF InputIgnored
<1>9. CASE UNCHANGED vars
  BY <1>2, <1>9, SMTT(30) DEF vars, line
<1> QED
  BY <1>1, <1>3, <1>4, <1>5, <1>6, <1>7, <1>8, <1>9, SMTT(30)

LEMMA LineStep ==
    ASSUME LineInv, [Next]_vars
    PROVE  LineInv' /\ [Editor!Next]_(Editor!vars)
  BY InsertStep, EraseStep, MoveStep, EnterStep, IdleStep, SMTT(30) DEF Next, shell_task_main, shell_input

LEMMA KeyStep ==
    ASSUME KeyInv, [Next]_vars
    PROVE  KeyInv'
<1>1. CASE shell_input
  <2>1. /\ UNCHANGED <<shift_pressed, down>> /\ pc' \in {"command", "redraw", "clear"}
    BY <1>1 DEF shell_input, InputEnter, InputBackspace, InputLeft, InputRight, InputChar,
                InputIgnored, Edit, Input
  <2> QED
    BY <2>1 DEF KeyInv
<1>2. CASE shell_init \/ Poll \/ redraw_line \/ process_command
  <2>1. /\ UNCHANGED keyboardVars
        /\ pc' \in {"start", "poll", "input"} => pc \in {"start", "poll", "input"}
        /\ pc' = "input" => pending_key # NONE
    BY <1>2 DEF shell_init, Poll, redraw_line, process_command
  <2> QED
    BY <2>1, SMTT(30) DEF KeyInv, keyboardVars
<1>3. CASE PollClear
  BY <1>3 DEF PollClear, EmptySlot, KeyInv
<1>4. CASE Interrupt
  <2>1. pc' = pc /\ keyboard_handler
    BY <1>4 DEF Interrupt
  <2>2. CASE (\E k \in Shifts : ShiftDown(k) \/ ShiftUp(k)) \/ ShiftMasked
    <3>1. UNCHANGED <<pending_key, fresh>> /\ (shift_pressed' => down' # {})
      BY <2>2 DEF ShiftDown, ShiftUp, ShiftMasked, Released
    <3> QED
      BY <2>1, <3>1, SMTT(30) DEF KeyInv
  <2>3. CASE (\E k \in Special : SpecialKey(k)) \/ (\E code \in Codes : CharKey(code))
    <3>1. fresh' /\ pending_key' # NONE /\ UNCHANGED <<shift_pressed, down>>
      BY <2>3 DEF SpecialKey, CharKey, Pend, Special, NONE, KEY_LEFT, KEY_RIGHT, BACKSPACE, ENTER
    <3> QED
      BY <2>1, <3>1, SMTT(30) DEF KeyInv
  <2> QED
    BY <2>1, <2>2, <2>3, SMTT(30) DEF keyboard_handler
<1>5. CASE UNCHANGED vars
  BY <1>5 DEF vars, KeyInv
<1> QED
  BY <1>1, <1>2, <1>3, <1>4, <1>5, SMTT(30) DEF Next, shell_task_main

-----------------------------------------------------------------------------
(* The screen.                                                              *)

LEMMA ShownFacts == Blank \in Shown /\ NL \notin Shown /\ Chars \subseteq Shown
  BY PrintableStaysInRow, Zenon DEF Shown, Chars, NL, NUL, Blank

\* The cells of a line that fits, and of the space behind it.
LEMMA CellsOfLine ==
    ASSUME ScreenInv, FitsBelowPrompt(longest), NEW k \in 0..(PROMPT_LEN + longest)
    PROVE  CellOf(k) \in Cells /\ CellOf(k) = prompt_start_y * width + k
<1> USE ScreenSize, PromptFits
<1> DEFINE m == PROMPT_LEN + longest
           q == m \div width
           y == prompt_start_y + q
<1>1. /\ m \in Nat /\ width \in Nat /\ width > 0 /\ prompt_start_y \in Nat /\ k \in Nat /\ k <= m
      /\ prompt_start_y + q < height /\ height \in Nat
  BY DEF ScreenInv, FitsBelowPrompt
<1> HIDE DEF m
<1>2. q \in Nat /\ m < q * width + width
  BY <1>1
<1> HIDE DEF q
<1>3. y \in Nat /\ y < height
  BY <1>1, <1>2
<1>4. y * width + width <= height * width
  BY <1>1, <1>3, RowsInOrder
<1>5. y * width = prompt_start_y * width + q * width
  BY <1>1, <1>2
<1>6. prompt_start_y * width \in Nat /\ q * width \in Nat /\ height * width \in Nat
  BY <1>1, <1>2
<1>7. prompt_start_y * width + k \in 0..(width * height - 1)
  <2> HIDE DEF y
  <2> QED
    BY <1>1, <1>2, <1>4, <1>5, <1>6
<1> QED
  BY <1>7 DEF CellOf, Cells

\* t is s with the cursor in column x of row y.
Moved(s, t, x, y) ==
    /\ IsScreen(t, Shown) /\ t.buffer = s.buffer /\ t.cursor_x = x /\ t.cursor_y = y
    /\ t.stray = s.stray /\ Position(t) = y * width + x

LEMMA SetCursor ==
    ASSUME NEW s, IsScreen(s, Shown), NEW x \in 0..width, NEW y \in Nat
    PROVE  Moved(s, set_cursor(s, x, y), x, y)
<1> DEFINE t == set_cursor(s, x, y)
<1>1. s \in [buffer : [Cells -> Shown], cursor_x : 0..width, cursor_y : Nat, stray : BOOLEAN]
  BY Zenon DEF IsScreen
<1>2. s.buffer \in [Cells -> Shown]
  BY <1>1, Zenon
<1>3. /\ t \in [buffer : [Cells -> Shown], cursor_x : 0..width, cursor_y : Nat, stray : BOOLEAN]
      /\ t.buffer = s.buffer /\ t.cursor_x = x /\ t.cursor_y = y /\ t.stray = s.stray
  BY <1>1, <1>2, Updated, Zenon DEF set_cursor
<1> HIDE DEF t
<1>4. IsScreen(t, Shown) /\ Position(t) = y * width + x
  BY <1>3, Zenon DEF IsScreen, Position
<1> QED
  BY <1>3, <1>4, Zenon DEF t, Moved

\* The characters that redraw_line writes.
LEMMA RedrawnLine ==
    ASSUME LineInv
    PROVE  /\ Redrawn \in Seq(Shown) /\ Len(Redrawn) = buffer_len + 1
           /\ \A n \in 1..buffer_len : Redrawn[n] = input_buffer[n - 1]
           /\ Redrawn[buffer_len + 1] = Blank
           /\ \A n \in 1..Len(Redrawn) : Redrawn[n] # NL
<1>1. buffer_len \in Nat
  BY BufferHoldsLine DEF LineInv
<1>2. Line \in Seq(Chars) /\ Len(Line) = buffer_len /\ \A n \in 1..buffer_len : Line[n] = input_buffer[0 + n - 1]
  BY MapNow, Zenon DEF Part
<1>3. Line \in Seq(Shown) /\ \A n \in 1..buffer_len : Line[n] \in Shown
  <2>1. \A n \in 1..Len(Line) : Line[n] \in Chars
    BY <1>2, ElementOfSeq, Zenon
  <2>2. \A n \in 1..Len(Line) : Line[n] \in Shown
    BY <2>1, ShownFacts, Zenon
  <2>3. Line = [n \in 1..Len(Line) |-> Line[n]]
    BY <1>1, <1>2 DEF Line
  <2> HIDE DEF Line
  <2> QED
    BY <1>1, <1>2, <2>2, <2>3, IsASeq
<1>4. /\ Redrawn \in Seq(Shown) /\ Len(Redrawn) = buffer_len + 1
      /\ \A n \in 1..buffer_len : Redrawn[n] = Line[n]
      /\ Redrawn[buffer_len + 1] = Blank
  BY <1>2, <1>3, ShownFacts, AppendProperties DEF Redrawn
<1>5. \A n \in 1..buffer_len : Redrawn[n] = input_buffer[n - 1]
  BY <1>1, <1>2, <1>4
<1>6. \A n \in 1..Len(Redrawn) : Redrawn[n] # NL
  BY <1>4, ElementOfSeq, ShownFacts, Zenon
<1> QED
  BY <1>4, <1>5, <1>6, Zenon

LEMMA RedrawStep ==
    ASSUME LineInv, ScreenInv, DisplayInv, redraw_line
    PROVE  ScreenInv' /\ DisplayInv'
<1> USE ScreenSize, PromptFits, ShownFacts
<1> DEFINE total == PROMPT_LEN + cursor_idx
           s == set_cursor(screen, PROMPT_LEN, prompt_start_y)
           t == puts(s, Redrawn)
           y == prompt_start_y + (total \div width)
           x == total % width
<1>1. /\ screen' = set_cursor(t, x, y) /\ pc = "redraw" /\ pc' = "clear"
      /\ UNCHANGED <<input_buffer, buffer_len, cursor_idx, prompt_start_y, longest>>
  BY Zenon DEF redraw_line, line
<1>2. /\ total \in Nat /\ PROMPT_LEN \in Nat /\ PROMPT_LEN \in 0..width /\ prompt_start_y \in Nat
      /\ prompt_start_y < height /\ longest \in Nat /\ buffer_len \in Nat /\ buffer_len <= longest
      /\ IsScreen(screen, Shown) /\ screen.stray = FALSE /\ cursor_idx \in Nat
  BY BufferHoldsLine DEF LineInv, ScreenInv, IsScreen
<1> HIDE DEF total
<1>3. x \in 0..width /\ y \in Nat /\ y * width + x = prompt_start_y * width + total
  <2>1. /\ total \div width \in Nat /\ x \in 0..width
        /\ (total \div width) * width + x = total
    BY <1>2
  <2>2. y * width = prompt_start_y * width + (total \div width) * width
    BY <1>2, <2>1
  <2> QED
    BY <1>2, <2>1, <2>2
<1> HIDE DEF x, y
<1>4. /\ IsScreen(s, Shown) /\ s.buffer = screen.buffer /\ s.cursor_y = prompt_start_y
      /\ s.stray = FALSE /\ Position(s) = prompt_start_y * width + PROMPT_LEN
  <2>1. Moved(screen, s, PROMPT_LEN, prompt_start_y)
    BY <1>2, SetCursor, Zenon
  <2> QED
    BY <1>2, <2>1, Zenon DEF Moved
<1> HIDE DEF s
<1>5. IsScreen(t, Shown) /\ t.stray = FALSE
  <2>1. OnScreen(s)
    BY <1>2, <1>4 DEF OnScreen
  <2>2. Redrawn \in Seq(Shown \cup {NL})
    <3>1. Redrawn \in Seq(Shown)
      BY RedrawnLine, Zenon
    <3> QED
      BY <3>1
  <2>3. Stays(s, t, Shown)
    BY <1>4, <2>1, <2>2, PutsStays, Zenon
  <2> QED
    BY <1>4, <2>3, Zenon DEF Stays
<1>6. FitsBelowPrompt(longest) =>
        /\ Position(s) + Len(Redrawn) <= width * height
        /\ t.buffer \in [Cells -> Shown]
        /\ \A n \in 1..Len(Redrawn) : t.buffer[Position(s) + n - 1] = Redrawn[n]
        /\ \A i \in Cells : i < Position(s) \/ i >= Position(s) + Len(Redrawn) => t.buffer[i] = screen.buffer[i]
  <2> SUFFICES ASSUME FitsBelowPrompt(longest)
               PROVE  /\ Position(s) + Len(Redrawn) <= width * height
                      /\ t.buffer \in [Cells -> Shown]
                      /\ \A n \in 1..Len(Redrawn) : t.buffer[Position(s) + n - 1] = Redrawn[n]
                      /\ \A i \in Cells : i < Position(s) \/ i >= Position(s) + Len(Redrawn)
                            => t.buffer[i] = screen.buffer[i]
    BY Zenon
  <2>1. Position(s) + Len(Redrawn) <= width * height
    <3>1. PROMPT_LEN + buffer_len \in 0..(PROMPT_LEN + longest)
      BY <1>2
    <3>2. prompt_start_y * width + (PROMPT_LEN + buffer_len) \in Cells
      BY <3>1, CellsOfLine
    <3>3. Len(Redrawn) = buffer_len + 1
      BY RedrawnLine, Zenon
    <3>4. prompt_start_y * width \in Nat /\ width * height \in Nat
      BY <1>2
    <3> QED
      BY <1>2, <1>4, <3>2, <3>3, <3>4 DEF Cells
  <2>2. t.buffer \in [Cells -> Shown]
    BY <1>5, Zenon DEF IsScreen
  <2>3. Redrawn \in Seq(Shown) /\ \A n \in 1..Len(Redrawn) : Redrawn[n] # NL
    BY RedrawnLine, Zenon
  <2>4. /\ \A n \in 1..Len(Redrawn) : t.buffer[Position(s) + n - 1] = Redrawn[n]
        /\ \A i \in Cells : i < Position(s) \/ i >= Position(s) + Len(Redrawn) => t.buffer[i] = s.buffer[i]
    <3>1. WritesAll(s, Redrawn, t, Shown)
      BY <1>4, <2>1, <2>3, PutsFits, Zenon
    <3> QED
      BY <3>1, Zenon DEF WritesAll
  <2> QED
    BY <1>4, <2>1, <2>2, <2>4, Zenon
<1> HIDE DEF t
<1>7. /\ IsScreen(screen', Shown) /\ screen'.buffer = t.buffer /\ screen'.stray = FALSE
      /\ Position(screen') = y * width + x
  <2>1. Moved(t, screen', x, y)
    BY <1>1, <1>3, <1>5, SetCursor, ZenonT(30)
  <2> QED
    BY <1>5, <2>1, Zenon DEF Moved
<1>8. ScreenInv'
  BY <1>1, <1>2, <1>7, SMTT(30) DEF ScreenInv
<1>9. ASSUME FitsBelowPrompt(longest)
      PROVE  /\ PromptShown' /\ LineShown' /\ BlankFrom(buffer_len)'
             /\ Position(screen)' = CellOf(PROMPT_LEN + cursor_idx)'
  <2> DEFINE p == prompt_start_y * width
  <2>0. p \in Nat /\ Position(s) = p + PROMPT_LEN /\ Len(Redrawn) = buffer_len + 1
    BY <1>2, <1>4, RedrawnLine
  <2>1. \A k \in 0..(PROMPT_LEN + longest) : CellOf(k) = p + k /\ p + k \in Cells
    BY <1>9, CellsOfLine
  <2>2. \A k \in 0..(PROMPT_LEN + longest) : CellOf(k)' = p + k
    BY <1>1, <2>1 DEF CellOf
  <2>3. PromptShown /\ BlankFrom(buffer_len + 1)
    BY <1>1, <1>9 DEF DisplayInv
  <2> HIDE DEF p
  <2>4. ASSUME NEW k \in 1..PROMPT_LEN PROVE screen'.buffer[CellOf(k - 1)'] = PROMPT[k]
    <3>1. k - 1 \in 0..(PROMPT_LEN + longest) /\ p + (k - 1) < p + PROMPT_LEN
      BY <1>2, <2>0
    <3>2. screen.buffer[p + (k - 1)] = PROMPT[k]
      BY <2>1, <2>3, <3>1 DEF PromptShown
    <3>3. t.buffer[p + (k - 1)] = screen.buffer[p + (k - 1)]
      BY <1>6, <1>9, <2>0, <2>1, <3>1, SMTT(30)
    <3> QED
      BY <1>7, <2>2, <3>1, <3>2, <3>3
  <2>5. ASSUME NEW k \in 1..buffer_len
        PROVE  screen'.buffer[CellOf(PROMPT_LEN + k - 1)'] = input_buffer[k - 1]
    <3>1. /\ PROMPT_LEN + k - 1 \in 0..(PROMPT_LEN + longest) /\ k \in 1..Len(Redrawn)
          /\ p + (PROMPT_LEN + k - 1) = Position(s) + k - 1
      BY <1>2, <2>0
    <3>2. t.buffer[Position(s) + k - 1] = input_buffer[k - 1]
      BY <1>6, <1>9, <3>1, RedrawnLine
    <3> QED
      BY <1>7, <2>2, <3>1, <3>2, SMTT(30)
  <2>6. ASSUME NEW k \in (PROMPT_LEN + buffer_len)..(PROMPT_LEN + longest - 1)
        PROVE  screen'.buffer[CellOf(k)'] = Blank
    <3>1. k \in 0..(PROMPT_LEN + longest) /\ k \in Int
      BY <1>2
    <3>2. CASE k = PROMPT_LEN + buffer_len
      <4>1. /\ buffer_len + 1 \in 1..Len(Redrawn)
            /\ p + k = Position(s) + (buffer_len + 1) - 1
        BY <1>2, <2>0, <3>2, SMTT(30)
      <4>2. t.buffer[Position(s) + (buffer_len + 1) - 1] = Blank
        BY <1>6, <1>9, <4>1, RedrawnLine, SMTT(30)
      <4> QED
        BY <1>7, <2>2, <3>1, <4>1, <4>2, SMTT(30)
    <3>3. CASE k # PROMPT_LEN + buffer_len
      <4>1. /\ k \in (PROMPT_LEN + (buffer_len + 1))..(PROMPT_LEN + longest - 1)
            /\ p + k >= Position(s) + Len(Redrawn)
        BY <1>2, <2>0, <3>3, SMTT(30)
      <4>2. screen.buffer[p + k] = Blank
        BY <2>1, <2>3, <3>1, <4>1, SMTT(30) DEF BlankFrom
      <4>3. t.buffer[p + k] = screen.buffer[p + k]
        BY <1>6, <1>9, <2>1, <3>1, <4>1, SMTT(30)
      <4> QED
        BY <1>7, <2>2, <3>1, <4>2, <4>3, SMTT(30)
    <3> QED
      BY <3>2, <3>3, Zenon
  <2>7. Position(screen') = CellOf(PROMPT_LEN + cursor_idx)'
    BY <1>1, <1>3, <1>7 DEF CellOf, total
  <2> QED
    BY <1>1, <2>4, <2>5, <2>6, <2>7, SMTT(30) DEF PromptShown, LineShown, BlankFrom, Position
<1>10. DisplayInv'
  <2>1. FitsBelowPrompt(longest)' = FitsBelowPrompt(longest) /\ pc' # "redraw"
    BY <1>1 DEF FitsBelowPrompt
  <2> QED
    BY <1>9, <2>1, Zenon DEF DisplayInv
<1> QED
  BY <1>8, <1>10

\* The prompt fits in its row.
LEMMA PromptStep ==
    ASSUME LineInv, ScreenInv, shell_init
    PROVE  ScreenInv' /\ DisplayInv'
<1> USE ScreenSize, PromptFits, ShownFacts
<1> DEFINE s == IF screen.cursor_y < 1 THEN set_cursor(screen, 0, 1) ELSE screen
           t == puts(s, PROMPT)
<1>1. /\ screen' = t /\ prompt_start_y' = s.cursor_y /\ buffer_len' = 0 /\ cursor_idx' = 0
      /\ longest' = 0 /\ pc' \in {"poll", "clear"}
      /\ IsScreen(screen, Shown) /\ OnScreen(screen) /\ screen.cursor_x = 0 /\ screen.stray = FALSE
  <2>1. /\ screen' = t /\ prompt_start_y' = s.cursor_y /\ buffer_len' = 0 /\ cursor_idx' = 0
        /\ longest' = 0 /\ pc' \in {"poll", "clear"} /\ pc \in {"start", "command", "init"}
    BY Zenon DEF shell_init
  <2>2. screen.stray \in BOOLEAN
    BY Zenon DEF ScreenInv, IsScreen
  <2> QED
    BY <2>1, <2>2, Zenon DEF ScreenInv
<1>2. /\ IsScreen(s, Shown) /\ s.cursor_x = 0 /\ s.stray = FALSE
      /\ s.cursor_y \in 1..(height - 1) /\ s.cursor_y \in Nat
  <2>0. screen.cursor_y \in Nat /\ screen.cursor_y < height
    BY <1>1 DEF IsScreen, OnScreen
  <2>1. CASE screen.cursor_y < 1
    <3>1. 0 \in 0..width /\ 1 \in Nat /\ 1 \in 1..(height - 1)
      OBVIOUS
    <3>2. Moved(screen, s, 0, 1)
      BY <1>1, <2>1, <3>1, SetCursor, ZenonT(30)
    <3> HIDE DEF s
    <3> QED
      BY <1>1, <3>1, <3>2, Zenon DEF Moved
  <2>2. CASE ~(screen.cursor_y < 1)
    BY <1>1, <2>0, <2>2
  <2> QED
    BY <2>1, <2>2, Zenon
<1> HIDE DEF s
<1> DEFINE p == s.cursor_y * width
<1>3. /\ p \in Nat /\ Position(s) = p /\ p + width <= width * height /\ width * height \in Nat
      /\ PROMPT_LEN \in Nat /\ PROMPT_LEN < width
  <2>1. p + width <= height * width
    BY <1>2, RowsInOrder
  <2> QED
    BY <1>2, <2>1 DEF Position
<1>4. /\ PROMPT \in Seq(Shown) /\ Len(PROMPT) = PROMPT_LEN /\ \A n \in 1..Len(PROMPT) : PROMPT[n] # NL
  <2>1. PROMPT \in Seq(Printable) /\ Len(PROMPT) = PROMPT_LEN
    BY DEF PROMPT_LEN
  <2>2. \A n \in 1..Len(PROMPT) : PROMPT[n] \in Printable
    BY <2>1, ElementOfSeq, Zenon
  <2>3. PROMPT \in Seq(Shown)
    BY <2>1 DEF Shown, Chars
  <2> QED
    BY <2>1, <2>2, <2>3, PrintableStaysInRow, Zenon
<1> HIDE DEF p
<1>5. WritesAll(s, PROMPT, t, Shown)
  <2>1. Position(s) + Len(PROMPT) <= width * height
    BY <1>3, <1>4
  <2> QED
    BY <1>2, <1>4, <2>1, PutsFits, ZenonT(30)
<1> HIDE DEF t
<1>6. /\ IsScreen(screen', Shown) /\ screen'.stray = FALSE /\ Position(screen') = p + PROMPT_LEN
      /\ \A n \in 1..PROMPT_LEN : screen'.buffer[p + n - 1] = PROMPT[n]
  BY <1>1, <1>2, <1>3, <1>4, <1>5, ZenonT(30) DEF WritesAll
<1>7. ScreenInv'
  BY <1>1, <1>2, <1>6, SMTT(30) DEF ScreenInv
<1>8. DisplayInv'
  <2>1. \A k \in Int : CellOf(k)' = p + k
    BY <1>1 DEF CellOf, p
  <2>2. PromptShown'
    <3> SUFFICES ASSUME NEW k \in 1..PROMPT_LEN PROVE screen'.buffer[CellOf(k - 1)'] = PROMPT[k]
      BY Zenon DEF PromptShown
    <3>1. CellOf(k - 1)' = p + k - 1
      BY <1>3, <2>1
    <3> QED
      BY <1>6, <3>1
  <2>3. LineShown' /\ BlankFrom(buffer_len)'
    BY <1>1, <1>3, SMTT(30) DEF LineShown, BlankFrom
  <2>4. Position(screen') = CellOf(PROMPT_LEN + cursor_idx)'
    BY <1>1, <1>3, <1>6 DEF CellOf, p
  <2>5. Position(screen)' = Position(screen')
    BY Zenon DEF Position
  <2>6. pc' # "redraw"
    BY <1>1
  <2> QED
    BY <2>2, <2>3, <2>4, <2>5, <2>6, ZenonT(30) DEF DisplayInv
<1> QED
  BY <1>7, <1>8

\* Enter and what a command prints leave the cursor at the start of a row.
LEMMA RowStep ==
    ASSUME ScreenInv, InputEnter \/ process_command
    PROVE  ScreenInv' /\ DisplayInv'
<1> USE ScreenSize, ShownFacts
<1>0. IsScreen(screen, Shown) /\ screen.stray = FALSE /\ screen.cursor_y \in Nat
  BY DEF ScreenInv, IsScreen
<1>1. /\ pc' \in {"command", "init", "lost"} /\ prompt_start_y' = prompt_start_y /\ longest' = longest
      /\ buffer_len' \in {0, buffer_len}
  BY Zenon DEF InputEnter, Input, process_command, line
<1>2. ASSUME NEW s, IsScreen(s, Shown), OnScreen(s), s.cursor_x = 0, s.stray = FALSE, screen' = s
      PROVE  ScreenInv' /\ DisplayInv'
  <2>1. IsScreen(screen', Shown) /\ OnScreen(screen)' /\ screen'.cursor_x = 0 /\ screen'.stray = FALSE
    BY <1>2, Zenon DEF OnScreen
  <2>2. ScreenInv'
    BY <1>1, <2>1, SMTT(30) DEF ScreenInv
  <2>3. pc' \notin {"poll", "input", "clear", "redraw"}
    BY <1>1
  <2> QED
    BY <2>2, <2>3, Zenon DEF DisplayInv
<1>3. CASE InputEnter
  <2> DEFINE t == print_newline(screen)
  <2>1. IsScreen(t, Shown) /\ OnScreen(t) /\ t.cursor_x = 0 /\ t.stray = FALSE
    BY <1>0, Newline
  <2>2. screen' = puts(screen, <<NL>>) /\ Len(<<NL>>) = 1 /\ <<NL>>[1] = NL
    BY <1>3 DEF InputEnter
  <2>3. PICK drawn : Drawing(drawn, screen, <<NL>>) /\ puts(screen, <<NL>>) = drawn[1]
    BY <2>2, PutsDraws, Zenon
  <2>4. drawn[1] = putc(screen, NL)
    BY <2>2, <2>3 DEF Drawing
  <2>5. screen' = t
    BY <2>2, <2>3, <2>4, Zenon DEF putc
  <2> HIDE DEF t
  <2> QED
    BY <1>2, <2>1, <2>5, Zenon
<1>4. CASE process_command
  <2>0. OnScreen(screen) /\ screen.cursor_x = 0
    BY <1>4 DEF process_command, ScreenInv
  <2>1. CASE screen' = screen
    BY <1>0, <1>2, <2>0, <2>1, Zenon
  <2>2. CASE screen' = print_clear(screen)
    <3> DEFINE b == [i \in Cells |-> Blank]
               t == print_clear(screen)
    <3>1. b \in [Cells -> Shown] /\ 0 \in 0..width /\ 1 \in Nat /\ 1 < height
      OBVIOUS
    <3>2. t = [[screen EXCEPT !.cursor_x = 0, !.cursor_y = 1] EXCEPT !.buffer = b]
      BY Zenon DEF print_clear, set_cursor
    <3>3. /\ t \in [buffer : [Cells -> Shown], cursor_x : 0..width, cursor_y : Nat, stray : BOOLEAN]
          /\ t.cursor_x = 0 /\ t.cursor_y = 1 /\ t.stray = FALSE
      <4> HIDE DEF b, t
      <4>1. screen \in [buffer : [Cells -> Shown], cursor_x : 0..width, cursor_y : Nat, stray : BOOLEAN]
        BY <1>0, Zenon DEF IsScreen
      <4> QED
        BY <1>0, <3>1, <3>2, <4>1, Updated, Zenon
    <3> HIDE DEF t
    <3>4. IsScreen(t, Shown) /\ OnScreen(t)
      BY <3>1, <3>3, Zenon DEF IsScreen, OnScreen
    <3>5. screen' = t
      BY <2>2, Zenon DEF t
    <3> QED
      BY <1>2, <3>3, <3>4, <3>5, Zenon
  <2>3. ASSUME NEW out \in Outputs, screen' = puts(screen, Append(out, NL))
        PROVE  ScreenInv' /\ DisplayInv'
    <3> DEFINE str == Append(out, NL)
               t == puts(screen, str)
    <3>1. out \in Seq(Shown \cup {NL})
      BY OutputsAreText DEF Shown, Chars
    <3>2. str \in Seq(Shown \cup {NL}) /\ Len(str) > 0 /\ str[Len(str)] = NL
      BY <3>1
    <3> HIDE DEF str
    <3>3. IsScreen(t, Shown) /\ OnScreen(t) /\ t.stray = FALSE /\ t.cursor_x = 0
      <4>1. Stays(screen, t, Shown) /\ t.cursor_x = 0
        BY <1>0, <2>0, <3>2, PutsStays, Zenon
      <4> QED
        BY <1>0, <4>1, Zenon DEF Stays
    <3>4. screen' = t
      BY <2>3, Zenon DEF str
    <3> HIDE DEF t
    <3> QED
      BY <1>2, <3>3, <3>4, Zenon
  <2> QED
    BY <1>4, <2>1, <2>2, <2>3, Zenon DEF process_command
<1> QED
  BY <1>3, <1>4, Zenon

\* An edit leaves the screen to redraw_line.
LEMMA EditStep ==
    ASSUME LineInv, ScreenInv, DisplayInv,
           InputBackspace \/ InputLeft \/ InputRight \/ \E c \in Printable : InputChar(c)
    PROVE  ScreenInv' /\ DisplayInv'
<1>1. /\ screen' = screen /\ prompt_start_y' = prompt_start_y /\ pc = "input" /\ pc' = "redraw"
  BY Zenon DEF InputBackspace, InputLeft, InputRight, InputChar, Edit, Input
<1>2. buffer_len \in Nat /\ longest \in Nat /\ buffer_len <= longest /\ PROMPT_LEN \in Nat
  BY BufferHoldsLine, PromptFits DEF LineInv, ScreenInv
<1>3. \/ buffer_len' = buffer_len - 1 /\ buffer_len > 0 /\ longest' = longest
      \/ buffer_len' = buffer_len /\ longest' = longest
      \/ buffer_len' = buffer_len + 1 /\ longest' = longest /\ buffer_len < longest
      \/ buffer_len' = buffer_len + 1 /\ longest' = buffer_len + 1 /\ longest = buffer_len
  <2>1. CASE InputBackspace
    BY <1>2, <2>1 DEF InputBackspace, LineInv
  <2>2. CASE InputLeft \/ InputRight
    BY <1>2, <2>2 DEF InputLeft, InputRight
  <2>3. CASE \E c \in Printable : InputChar(c)
    <3>1. /\ buffer_len' = buffer_len + 1
          /\ longest' = IF longest > buffer_len THEN longest ELSE buffer_len + 1
      BY <2>3, Zenon DEF InputChar
    <3> QED
      BY <1>2, <3>1
  <2> QED
    BY <2>1, <2>2, <2>3
<1>s. /\ buffer_len' \in Int /\ longest' \in Int /\ buffer_len <= buffer_len' + 1
      /\ longest' = longest \/ (longest' = buffer_len + 1 /\ buffer_len' = buffer_len + 1)
  BY <1>2, <1>3
<1>4. ScreenInv'
  <2>1. longest' \in Nat /\ buffer_len' <= longest'
    BY <1>2, <1>3
  <2>2. IsScreen(screen, Shown)' = IsScreen(screen, Shown)
    BY <1>1, Zenon DEF IsScreen
  <2> QED
    BY <1>1, <2>1, <2>2 DEF ScreenInv
<1>5. ASSUME FitsBelowPrompt(longest)' PROVE PromptShown' /\ BlankFrom(buffer_len + 1)'
  <2>1. \A k \in Int : CellOf(k)' = CellOf(k)
    BY <1>1 DEF CellOf
  <2>2. longest' = longest \/ longest' = longest + 1
    BY <1>2, <1>3
  <2>3. FitsBelowPrompt(longest)
    <3> DEFINE m == PROMPT_LEN + longest
    <3>1. m \in Nat /\ width \in Nat /\ width > 0 /\ prompt_start_y \in Nat /\ height \in Nat
      BY <1>2, ScreenSize DEF ScreenInv
    <3>2. m \div width <= (m + 1) \div width
      BY <3>1
    <3>3. PROMPT_LEN + longest' \in {m, m + 1}
      BY <1>2, <2>2
    <3>4. prompt_start_y + ((PROMPT_LEN + longest') \div width) < height
      BY <1>1, <1>5 DEF FitsBelowPrompt
    <3> HIDE DEF m
    <3>5. m \div width \in Int /\ (m + 1) \div width \in Int
      BY <3>1
    <3>6. prompt_start_y + (m \div width) < height
      <4>1. CASE PROMPT_LEN + longest' = m
        BY <3>4, <4>1
      <4>2. CASE PROMPT_LEN + longest' = m + 1
        BY <3>1, <3>2, <3>4, <3>5, <4>2
      <4> QED
        BY <3>3, <4>1, <4>2
    <3> QED
      BY <3>6 DEF FitsBelowPrompt, m
  <2>4. PromptShown /\ BlankFrom(buffer_len)
    BY <1>1, <2>3 DEF DisplayInv
  <2>5. PromptShown'
    <3>1. \A k \in 1..PROMPT_LEN : CellOf(k - 1)' = CellOf(k - 1)
      BY <1>2, <2>1
    <3> QED
      BY <1>1, <2>4, <3>1 DEF PromptShown
  <2>6. ASSUME NEW k \in (PROMPT_LEN + (buffer_len' + 1))..(PROMPT_LEN + longest' - 1)
        PROVE  screen'.buffer[CellOf(k)'] = Blank
    <3>1. k \in Int /\ k \in (PROMPT_LEN + buffer_len)..(PROMPT_LEN + longest - 1)
      <4> DEFINE P == PROMPT_LEN
                 n == buffer_len
                 m == buffer_len'
                 l == longest'
      <4>1. /\ P \in Nat /\ n \in Nat /\ m \in Int /\ l \in Int /\ n <= m + 1
            /\ l = longest \/ (l = n + 1 /\ m = n + 1)
        BY <1>2, <1>s, Zenon
      <4> HIDE DEF P, n, m, l
      <4>2. k \in (P + (m + 1))..(P + l - 1)
        BY DEF P, m, l
      <4>3. k \in Int /\ k \in (P + n)..(P + longest - 1)
        BY <4>1, <4>2
      <4> QED
        BY <4>3 DEF P, n
    <3> QED
      BY <1>1, <2>1, <2>4, <3>1 DEF BlankFrom
  <2> QED
    BY <2>5, <2>6, Zenon DEF BlankFrom
<1>6. DisplayInv'
  <2>1. pc' \notin {"poll", "input", "clear"}
    BY <1>1
  <2> QED
    BY <1>5, <2>1, Zenon DEF DisplayInv
<1> QED
  BY <1>4, <1>6

\* The other steps leave the line and the screen alone.
LEMMA WaitStep ==
    ASSUME ScreenInv, DisplayInv,
           \/ Poll \/ PollClear \/ Interrupt \/ UNCHANGED vars
           \/ \E key \in Special \cup Printable \cup {TAB} : InputIgnored(key)
    PROVE  ScreenInv' /\ DisplayInv'
<1>1. /\ UNCHANGED <<screen, input_buffer, buffer_len, cursor_idx, prompt_start_y, longest>>
      /\ pc' = pc \/ (pc \in {"poll", "input", "clear"} /\ pc' \in {"poll", "input", "clear"})
  <2>1. CASE Poll
    BY <2>1 DEF Poll, line
  <2>2. CASE PollClear
    BY <2>2 DEF PollClear, line
  <2>3. CASE Interrupt
    BY <2>3 DEF Interrupt, line
  <2>4. CASE UNCHANGED vars
    BY <2>4 DEF vars
  <2>5. CASE \E key \in Special \cup Printable \cup {TAB} : InputIgnored(key)
    BY <2>5 DEF InputIgnored, Input, line
  <2> QED
    BY <2>1, <2>2, <2>3, <2>4, <2>5, Zenon
<1>2. /\ PromptShown' = PromptShown /\ LineShown' = LineShown /\ BlankFrom(buffer_len)' = BlankFrom(buffer_len)
      /\ BlankFrom(buffer_len + 1)' = BlankFrom(buffer_len + 1) /\ FitsBelowPrompt(longest)' = FitsBelowPrompt(longest)
      /\ Position(screen)' = Position(screen)
      /\ CellOf(PROMPT_LEN + cursor_idx)' = CellOf(PROMPT_LEN + cursor_idx)
      /\ IsScreen(screen, Shown)' = IsScreen(screen, Shown) /\ OnScreen(screen)' = OnScreen(screen)
  BY <1>1, Zenon DEF PromptShown, LineShown, BlankFrom, FitsBelowPrompt, Position, CellOf, IsScreen, OnScreen
<1>3. /\ pc' \in {"poll", "input", "clear"} => pc \in {"poll", "input", "clear"}
      /\ pc' = "redraw" => pc = "redraw"
      /\ pc' \in {"start", "command", "init"} => pc \in {"start", "command", "init"}
  BY <1>1
<1>4. ScreenInv'
  BY <1>1, <1>2, <1>3 DEF ScreenInv
<1>5. DisplayInv'
  BY <1>2, <1>3, Zenon DEF DisplayInv
<1> QED
  BY <1>4, <1>5

LEMMA ScreenStep ==
    ASSUME LineInv, ScreenInv, DisplayInv, [Next]_vars
    PROVE  ScreenInv' /\ DisplayInv'
  BY RedrawStep, PromptStep, RowStep, EditStep, WaitStep, Zenon DEF Next, shell_task_main, shell_input

LEMMA InitInv ==
    ASSUME Init
    PROVE  LineInv /\ KeyInv /\ Editor!Init /\ ScreenInv /\ DisplayInv
<1> USE BufferHoldsLine
<1>1. LineInv
  BY DEF Init, LineInv, Chars
<1>2. KeyInv
  BY DEF Init, KeyboardInit, KeyInv
<1>3. Bf = <<>> /\ Af = <<>>
  <2>1. cursor_idx = 0 /\ buffer_len = 0
    BY DEF Init
  <2>2. Part(Bf, input_buffer, 0, 0) /\ Part(Af, input_buffer, 0, 0 - 0)
    BY <1>1, <2>1, MapNow, SMTT(30)
  <2> QED
    BY <2>2 DEF Part
<1>4. Editor!Init
  BY <1>3, SMTT(30) DEF Editor!Init, Init, Bf, Af
<1>5. IsScreen(screen, Shown) /\ OnScreen(screen) /\ screen.cursor_x = 0 /\ screen.stray = FALSE
  <2> DEFINE b == [i \in Cells |-> Blank]
  <2>1. screen = [buffer |-> b, cursor_x |-> 0, cursor_y |-> 2, stray |-> FALSE]
    BY Zenon DEF Init, Screen
  <2>2. b \in [Cells -> Shown] /\ 0 \in 0..width /\ 2 \in Nat /\ 2 < height /\ FALSE \in BOOLEAN
    BY ScreenSize, ShownFacts
  <2> HIDE DEF b
  <2>3. /\ screen \in [buffer : [Cells -> Shown], cursor_x : 0..width, cursor_y : Nat, stray : BOOLEAN]
        /\ screen.cursor_x = 0 /\ screen.cursor_y = 2 /\ screen.stray = FALSE
    BY <2>1, <2>2, Zenon
  <2> QED
    BY <2>2, <2>3, Zenon DEF IsScreen, OnScreen
<1>6. ScreenInv /\ DisplayInv
  <2>1. prompt_start_y = 1 /\ longest = 0 /\ buffer_len = 0 /\ pc = "start"
    BY Zenon DEF Init
  <2>2. ScreenInv
    BY <1>5, <2>1, ScreenSize DEF ScreenInv
  <2>3. pc \notin {"poll", "input", "clear", "redraw"}
    BY <2>1
  <2> QED
    BY <2>2, <2>3, Zenon DEF DisplayInv
<1> QED
  BY <1>1, <1>2, <1>4, <1>6, Zenon

-----------------------------------------------------------------------------
(* The theorems.                                                            *)

\* The line stays within input_buffer, a key in the slot is new until
\* shell_input has been called with it, and the screen shows the line or, once
\* redraw_line is due, what it was before the edit.
THEOREM ShellInvariant == Spec => []IInv
<1>1. Init => IInv
  BY InitInv DEF IInv
<1>2. IInv /\ [Next]_vars => IInv'
  BY LineStep, KeyStep, ScreenStep DEF IInv
<1> QED
  BY <1>1, <1>2, PTL DEF Spec

\* Whatever the size of input_buffer, the shifting loops of shell_input make
\* the array, its length and the cursor index a line that is edited at its
\* cursor and submitted whole.
THEOREM LineIsEdited == Spec => EditsLikeLineEditor
<1>1. Init => Editor!Init
  BY InitInv
<1>2. IInv /\ [Next]_vars => [Editor!Next]_(Editor!vars)
  BY LineStep DEF IInv
<1> QED
  BY <1>1, <1>2, ShellInvariant, PTL DEF Spec, EditsLikeLineEditor

\* process_pending_key never passes a key to shell_input twice, nor an older
\* one after a newer one.
THEOREM KeysStayInOrder == Spec => []KeysInOrder
<1>1. IInv => KeysInOrder
  BY DEF IInv, KeyInv, KeysInOrder
<1> QED
  BY <1>1, ShellInvariant, PTL

\* keyboard_handler has shift_pressed set only while a key is held down that
\* sends codes of a shift key.
THEOREM ShiftIsReleased == Spec => []ShiftNeverStuck
<1>1. IInv => ShiftNeverStuck
  BY DEF IInv, KeyInv, ShiftNeverStuck
<1> QED
  BY <1>1, ShellInvariant, PTL

\* For every size of the screen and whatever is typed and printed, putc writes
\* no character behind the end of the VGA buffer: after redraw_line has set the
\* cursor to a row that does not exist, it is set again or a row is begun
\* before the next character.
THEOREM NothingGoesAstray == Spec => []WritesStayOnScreen
<1>1. IInv => WritesStayOnScreen
  BY DEF IInv, ScreenInv, WritesStayOnScreen
<1> QED
  BY <1>1, ShellInvariant, PTL

LEMMA DisplayFacts ==
    ASSUME IInv
    PROVE  DisplayShowsLine
<1> SUFFICES ASSUME pc = "poll", FitsBelowPrompt(longest) PROVE ShowsLine
  BY Zenon DEF DisplayShowsLine
<1> DEFINE text == PROMPT \o Line
<1>1. /\ PromptShown /\ LineShown /\ BlankFrom(buffer_len)
      /\ Position(screen) = CellOf(PROMPT_LEN + cursor_idx)
  BY DEF IInv, DisplayInv
<1>2. /\ Line \in Seq(Chars) /\ Len(Line) = buffer_len /\ buffer_len \in Nat
      /\ \A n \in 1..buffer_len : Line[n] = input_buffer[n - 1]
  <2>1. Part(Line, input_buffer, 0, buffer_len) /\ buffer_len \in Nat
    BY MapNow, BufferHoldsLine DEF IInv, LineInv
  <2> QED
    BY <2>1 DEF Part
<1>3. PROMPT \in Seq(Printable) /\ Len(PROMPT) = PROMPT_LEN /\ PROMPT_LEN \in Nat
  BY PromptFits DEF PROMPT_LEN
<1>4. /\ Len(text) = PROMPT_LEN + buffer_len
      /\ \A k \in 1..(PROMPT_LEN + buffer_len) : text[k] = IF k <= PROMPT_LEN THEN PROMPT[k] ELSE Line[k - PROMPT_LEN]
  <2>1. PROMPT \in Seq(Chars)
    BY <1>3 DEF Chars
  <2> QED
    BY <1>2, <1>3, <2>1, ConcatProperties, ZenonT(30)
<1> HIDE DEF text
<1>5. ASSUME NEW k \in 1..Len(text) PROVE screen.buffer[CellOf(k - 1)] = text[k]
  <2>0. k \in 1..(PROMPT_LEN + buffer_len) /\ k \in Int
    BY <1>4
  <2>1. CASE k <= PROMPT_LEN
    <3>1. k \in 1..PROMPT_LEN
      BY <1>3, <2>0, <2>1
    <3> QED
      BY <1>1, <1>4, <2>0, <2>1, <3>1, Zenon DEF PromptShown
  <2>2. CASE ~(k <= PROMPT_LEN)
    <3> DEFINE n == k - PROMPT_LEN
    <3>1. n \in 1..buffer_len /\ PROMPT_LEN + n - 1 = k - 1
      BY <1>2, <1>3, <2>0, <2>2, SMTT(30)
    <3>2. text[k] = Line[n]
      BY <1>4, <2>0, <2>2, Zenon
    <3> HIDE DEF n
    <3>3. screen.buffer[CellOf(PROMPT_LEN + n - 1)] = input_buffer[n - 1]
      BY <1>1, <3>1, Zenon DEF LineShown
    <3> QED
      BY <1>2, <3>1, <3>2, <3>3
  <2> QED
    BY <2>1, <2>2, Zenon
<1>6. \A k \in Len(text)..(PROMPT_LEN + longest - 1) : screen.buffer[CellOf(k)] = Blank
  BY <1>1, <1>4, Zenon DEF BlankFrom
<1> QED
  BY <1>1, <1>5, <1>6, Zenon DEF ShowsLine, text, Position

\* For every size of the screen and of input_buffer: as long as the line under
\* this prompt has never been so long that it reached behind the last row, so
\* that redraw_line scrolled the screen and prompt_start_y was left behind, the
\* screen stays in step with the line through any sequence of edits, also over
\* a wrap above the last row: the prompt, the line, nothing of its earlier and
\* longer self, and the cursor in its place.
THEOREM DisplayFollowsLine == Spec => []DisplayShowsLine
  BY DisplayFacts, ShellInvariant, PTL
=============================================================================
