--------------------------- MODULE ScreensProofs ----------------------------
(***************************************************************************)
(* Proofs about the applications over the panel (Screens): the text that   *)
(* the graphical shell shows, the picture of draw-picora, the fills of     *)
(* colored-screen and the backlight, for every size, text and test.        *)
(* ScreensInv, the inductive invariant, has a part for the control of the  *)
(* panel and one for what each application draws.                          *)
(***************************************************************************)
EXTENDS Screens, ListProofs

(***************************************************************************)
(* The text typed: folds of a character at a time.                         *)
(***************************************************************************)

\* What a character does to the paper, and to the grid, and where each begins.
TypeOn(medium, x, c) == IF medium = "paper" THEN Type(x, c) ELSE gfx_console_putc(x, c)
Fresh(medium) == IF medium = "paper" THEN Sheet ELSE BlankGrid

\* What a fold of these is chosen to be.
FoldIter(medium, it, s, n) ==
    it = [t \in SUBSET (1 .. n) |->
            IF t = {} THEN Fresh(medium) ELSE TypeOn(medium, it[t \ {Max(t)}], s[Max(t)])]

\* There is a fold of either kind over any text of the first N characters.
LEMMA FoldIterExists ==
    ASSUME NEW medium, NEW s, NEW N \in Nat
    PROVE  \E it : FoldIter(medium, it, s, N)
<1> DEFINE S == {n \in Nat : \E it : FoldIter(medium, it, s, n)}
<1>1. 0 \in S
  <2> DEFINE it == [t \in SUBSET (1 .. 0) |-> Fresh(medium)]
  <2>1. \A t \in SUBSET (1 .. 0) : t = {}
    OBVIOUS
  <2>2. FoldIter(medium, it, s, 0)
    BY <2>1 DEF FoldIter
  <2> QED
    BY <2>2
<1>2. ASSUME NEW n \in 0 .. N - 1, n \in S PROVE n + 1 \in S
  <2>1. PICK a : FoldIter(medium, a, s, n)
    BY <1>2
  <2> DEFINE U == SUBSET (1 .. n + 1)
             b == [t \in U |-> IF n + 1 \in t THEN TypeOn(medium, a[t \ {n + 1}], s[n + 1]) ELSE a[t]]
             g == [t \in U |-> IF t = {} THEN Fresh(medium) ELSE TypeOn(medium, b[t \ {Max(t)}], s[Max(t)])]
  <2>2. ASSUME NEW t \in U PROVE b[t] = g[t]
    <3>1. CASE n + 1 \in t
      <4>1. Max(t) = n + 1
        BY <3>1, MaxTop
      <4>2. t \ {n + 1} \in U /\ n + 1 \notin t \ {n + 1} /\ t # {}
        BY <3>1
      <4>3. b[t \ {n + 1}] = a[t \ {n + 1}]
        BY <4>2
      <4>4. g[t] = TypeOn(medium, b[t \ {n + 1}], s[n + 1])
        BY <4>1, <4>2
      <4> QED
        BY <3>1, <4>3, <4>4
    <3>2. CASE n + 1 \notin t
      <4>1. t \in SUBSET (1 .. n)
        BY <3>2
      <4>2. b[t] = a[t]
        BY <3>2
      <4>3. a[t] = IF t = {} THEN Fresh(medium) ELSE TypeOn(medium, a[t \ {Max(t)}], s[Max(t)])
        BY <2>1, <4>1 DEF FoldIter
      <4>4. t \ {Max(t)} \in U /\ n + 1 \notin t \ {Max(t)}
        BY <3>2
      <4>5. b[t \ {Max(t)}] = a[t \ {Max(t)}]
        BY <4>4
      <4> QED
        BY <4>2, <4>3, <4>5
    <3> QED
      BY <3>1, <3>2
  <2>3. b = g
    <3> HIDE DEF U
    <3> QED
      BY <2>2
  <2>4. FoldIter(medium, b, s, n + 1)
    BY <2>3 DEF FoldIter
  <2> HIDE DEF b
  <2> QED
    BY <2>4
<1>3. \A n \in 0 .. N : n \in S
  <2> HIDE DEF S
  <2> QED
    BY <1>1, <1>2, UpTo
<1> QED
  BY <1>3

\* FoldLeft over the paper is the value of such a fold at the whole text.
LEMMA PaperFold ==
    ASSUME NEW X, NEW s \in Seq(X)
    PROVE  \E it : FoldIter("paper", it, s, Len(s)) /\ FoldLeft(Type, Sheet, s) = it[1 .. Len(s)]
<1> DEFINE P(it) == it = [t \in SUBSET (1 .. Len(s)) |->
                           IF t = {} THEN Sheet ELSE Type(it[t \ {Max(t)}], s[Max(t)])]
           C == CHOOSE it : P(it)
<1>1. DOMAIN s = 1 .. Len(s) /\ Len(s) \in Nat
  OBVIOUS
<1>2. FoldLeft(Type, Sheet, s) =
        (CHOOSE it : it = [t \in SUBSET DOMAIN s |->
                             IF t = {} THEN Sheet ELSE Type(it[t \ {Max(t)}], s[Max(t)])])[DOMAIN s]
  BY DEF FoldLeft, MapThenFoldSet
<1>3. FoldLeft(Type, Sheet, s) = C[1 .. Len(s)]
  BY <1>1, <1>2, Zenon
<1>4. ASSUME NEW it
      PROVE  P(it) <=> FoldIter("paper", it, s, Len(s))
  <2> DEFINE f == [t \in SUBSET (1 .. Len(s)) |->
                     IF t = {} THEN Sheet ELSE Type(it[t \ {Max(t)}], s[Max(t)])]
             g == [t \in SUBSET (1 .. Len(s)) |->
                     IF t = {} THEN Fresh("paper") ELSE TypeOn("paper", it[t \ {Max(t)}], s[Max(t)])]
  <2>1. Fresh("paper") = Sheet /\ \A x, c : TypeOn("paper", x, c) = Type(x, c)
    BY DEF Fresh, TypeOn
  <2>2. f = g
    BY <2>1
  <2>3. (P(it) <=> it = f) /\ (FoldIter("paper", it, s, Len(s)) <=> it = g)
    BY Zenon DEF FoldIter
  <2> HIDE DEF P, f, g
  <2> QED
    BY <2>2, <2>3
<1> HIDE DEF P
<1>5. \E it : P(it)
  <2>1. PICK it : FoldIter("paper", it, s, Len(s))
    BY <1>1, FoldIterExists
  <2> QED
    BY <1>4, <2>1
<1>6. P(C)
  BY <1>5
<1> HIDE DEF C
<1> QED
  BY <1>3, <1>4, <1>6

\* FoldLeft over the grid is the value of such a fold at the whole text.
LEMMA GridFold ==
    ASSUME NEW X, NEW s \in Seq(X)
    PROVE  \E it : FoldIter("grid", it, s, Len(s)) /\ FoldLeft(gfx_console_putc, BlankGrid, s) = it[1 .. Len(s)]
<1> DEFINE P(it) == it = [t \in SUBSET (1 .. Len(s)) |->
                           IF t = {} THEN BlankGrid ELSE gfx_console_putc(it[t \ {Max(t)}], s[Max(t)])]
           C == CHOOSE it : P(it)
<1>1. DOMAIN s = 1 .. Len(s) /\ Len(s) \in Nat
  OBVIOUS
<1>2. FoldLeft(gfx_console_putc, BlankGrid, s) =
        (CHOOSE it : it = [t \in SUBSET DOMAIN s |->
                             IF t = {} THEN BlankGrid ELSE gfx_console_putc(it[t \ {Max(t)}], s[Max(t)])])[DOMAIN s]
  BY DEF FoldLeft, MapThenFoldSet
<1>3. FoldLeft(gfx_console_putc, BlankGrid, s) = C[1 .. Len(s)]
  BY <1>1, <1>2, Zenon
<1>4. ASSUME NEW it
      PROVE  P(it) <=> FoldIter("grid", it, s, Len(s))
  <2> DEFINE f == [t \in SUBSET (1 .. Len(s)) |->
                     IF t = {} THEN BlankGrid ELSE gfx_console_putc(it[t \ {Max(t)}], s[Max(t)])]
             g == [t \in SUBSET (1 .. Len(s)) |->
                     IF t = {} THEN Fresh("grid") ELSE TypeOn("grid", it[t \ {Max(t)}], s[Max(t)])]
  <2>1. Fresh("grid") = BlankGrid /\ \A x, c : TypeOn("grid", x, c) = gfx_console_putc(x, c)
    BY DEF Fresh, TypeOn
  <2>2. f = g
    BY <2>1
  <2>3. (P(it) <=> it = f) /\ (FoldIter("grid", it, s, Len(s)) <=> it = g)
    BY Zenon DEF FoldIter
  <2> HIDE DEF P, f, g
  <2> QED
    BY <2>2, <2>3
<1> HIDE DEF P
<1>5. \E it : P(it)
  <2>1. PICK it : FoldIter("grid", it, s, Len(s))
    BY <1>1, FoldIterExists
  <2> QED
    BY <1>4, <2>1
<1>6. P(C)
  BY <1>5
<1> HIDE DEF C
<1> QED
  BY <1>3, <1>4, <1>6

\* One more character on the paper is typed on what is there.
LEMMA PaperAppend ==
    ASSUME NEW X, NEW s \in Seq(X), NEW c \in X
    PROVE  FoldLeft(Type, Sheet, Append(s, c)) = Type(FoldLeft(Type, Sheet, s), c)
<1> DEFINE N == Len(s)
           r == Append(s, c)
<1>1. /\ N \in Nat /\ r \in Seq(X) /\ Len(r) = N + 1 /\ r[N + 1] = c
      /\ \A i \in 1 .. N : r[i] = s[i]
  OBVIOUS
<1> HIDE DEF N, r
<1>2. PICK a : FoldIter("paper", a, s, N) /\ FoldLeft(Type, Sheet, s) = a[1 .. N]
  BY PaperFold DEF N
<1>3. PICK b : FoldIter("paper", b, r, N + 1) /\ FoldLeft(Type, Sheet, r) = b[1 .. N + 1]
  BY <1>1, PaperFold
<1> DEFINE S == {k \in 0 .. N : a[1 .. k] = b[1 .. k]}
<1>4. ASSUME NEW k \in 0 .. N
      PROVE  /\ b[1 .. k + 1] = Type(b[1 .. k], r[k + 1])
             /\ k < N => a[1 .. k + 1] = Type(a[1 .. k], s[k + 1])
  <2>1. /\ 1 .. k + 1 \in SUBSET (1 .. N + 1) /\ 1 .. k + 1 # {} /\ k + 1 \in 1 .. k + 1
        /\ k < N => 1 .. k + 1 \in SUBSET (1 .. N)
        /\ (1 .. k + 1) \ {k + 1} = 1 .. k
        /\ k \in Nat
    BY <1>1
  <2>2. Max(1 .. k + 1) = k + 1
    BY <2>1, MaxTop
  <2>3. b[1 .. k + 1] = Type(b[(1 .. k + 1) \ {Max(1 .. k + 1)}], r[Max(1 .. k + 1)])
    BY <1>3, <2>1 DEF FoldIter, TypeOn, Fresh
  <2>4. k < N => a[1 .. k + 1] = Type(a[(1 .. k + 1) \ {Max(1 .. k + 1)}], s[Max(1 .. k + 1)])
    BY <1>2, <2>1 DEF FoldIter, TypeOn, Fresh
  <2> QED
    BY <2>1, <2>2, <2>3, <2>4
<1>5. 0 \in S
  <2>1. 1 .. 0 = {} /\ 0 \in 0 .. N
    BY <1>1
  <2>2. a[{}] = Sheet /\ b[{}] = Sheet
    BY <1>2, <1>3 DEF FoldIter, TypeOn, Fresh
  <2> QED
    BY <2>1, <2>2
<1>6. ASSUME NEW k \in 0 .. N - 1, k \in S PROVE k + 1 \in S
  <2>1. k \in 0 .. N /\ k < N /\ k + 1 \in 0 .. N /\ k + 1 \in 1 .. N
    BY <1>1
  <2>2. r[k + 1] = s[k + 1]
    BY <1>1, <2>1
  <2>3. a[1 .. k + 1] = b[1 .. k + 1]
    BY <1>4, <1>6, <2>1, <2>2
  <2> QED
    BY <2>1, <2>3
<1>7. \A k \in 0 .. N : k \in S
  <2> HIDE DEF S
  <2> QED
    BY <1>1, <1>5, <1>6, UpTo
<1>8. N \in 0 .. N /\ a[1 .. N] = b[1 .. N]
  BY <1>1, <1>7
<1> QED
  BY <1>1, <1>2, <1>3, <1>4, <1>8 DEF r

(***************************************************************************)
(* Division, for the ring and the tab stops.                               *)
(***************************************************************************)

\* Quotient and remainder.
LEMMA DivMod ==
    ASSUME NEW a \in Int, NEW b \in Nat \ {0}
    PROVE  a = b * (a \div b) + (a % b) /\ a % b \in 0 .. b - 1 /\ a \div b \in Int
OBVIOUS

\* They are the only ones.
LEMMA DivModOnly ==
    ASSUME NEW b \in Nat \ {0}, NEW a \in Int, NEW q \in Int, NEW r \in 0 .. b - 1, a = b * q + r
    PROVE  a \div b = q /\ a % b = r
<1> DEFINE d == a \div b
           m == a % b
<1>1. b * d + m = b * q + r /\ d \in Int /\ m \in 0 .. b - 1
  BY DivMod
<1> HIDE DEF d, m
<1>2. CASE d < q
  <2>1. b * (q - d) >= b
    BY <1>1, <1>2
  <2> QED
    BY <1>1, <2>1
<1>3. CASE d > q
  <2>1. b * (d - q) >= b
    BY <1>1, <1>3
  <2> QED
    BY <1>1, <2>1
<1>4. d = q /\ m = r
  BY <1>1, <1>2, <1>3
<1> QED
  BY <1>4 DEF d, m

\* The remainder of a difference of two positions of a ring, without the division.
LEMMA RingDistance ==
    ASSUME NEW R \in Nat \ {0}, NEW x \in Int, -R <= x, x < 2 * R
    PROVE  x % R = IF x < 0 THEN x + R ELSE IF x < R THEN x ELSE x - R
<1>1. CASE x < 0
  <2>1. x = R * (-1) + (x + R) /\ x + R \in 0 .. R - 1
    BY <1>1
  <2> QED
    BY <1>1, <2>1, DivModOnly
<1>2. CASE 0 <= x /\ x < R
  <2>1. x = R * 0 + x /\ x \in 0 .. R - 1
    BY <1>2
  <2> QED
    BY <1>2, <2>1, DivModOnly
<1>3. CASE R <= x
  <2>1. x = R * 1 + (x - R) /\ x - R \in 0 .. R - 1
    BY <1>3
  <2> QED
    BY <1>3, <2>1, DivModOnly
<1> QED
  BY <1>1, <1>2, <1>3

\* The positions of col + 1 .. n behind which no tab stop comes but the next.
LEMMA TabStops ==
    ASSUME NEW T \in Nat \ {0}, NEW c \in Nat, NEW i \in Nat, i > c
    PROVE  /\ (c \div T + 1) * T \in Nat /\ (c \div T + 1) * T > c
           /\ (\A j \in c + 1 .. i - 1 : j % T # 0) <=> i <= (c \div T + 1) * T
<1> DEFINE q == c \div T
           stop == (q + 1) * T
<1>1. c = T * q + (c % T) /\ c % T \in 0 .. T - 1 /\ q \in Int
  BY DivMod
<1>2. stop \in Int /\ stop = T * (q + 1) /\ stop = T * q + T
  <2> HIDE DEF q
  <2> QED
    BY <1>1
<1>3. stop > c
  <2>1. stop = c - (c % T) + T
    BY <1>1, <1>2
  <2> HIDE DEF stop, q
  <2> QED
    BY <1>1, <1>2, <2>1
<1>4. ASSUME \A j \in c + 1 .. i - 1 : j % T # 0 PROVE i <= stop
  <2>1. CASE i > stop
    <3>1. stop \in c + 1 .. i - 1
      <4> HIDE DEF stop
      <4> QED
        BY <1>2, <1>3, <2>1
    <3>2. stop % T = 0
      <4>1. stop = T * (q + 1) + 0 /\ q + 1 \in Int /\ 0 \in 0 .. T - 1
        BY <1>1, <1>2
      <4> HIDE DEF stop
      <4> QED
        BY <1>2, <4>1, DivModOnly
    <3> QED
      BY <1>4, <3>1, <3>2
  <2> HIDE DEF stop
  <2> QED
    BY <1>2, <2>1
<1>5. ASSUME i <= stop, NEW j \in c + 1 .. i - 1 PROVE j % T # 0
  <2>1. j > T * q /\ j < T * q + T /\ j \in Int /\ T * q \in Int
    <3> HIDE DEF stop, q
    <3> QED
      BY <1>1, <1>2, <1>5
  <2>2. j = T * q + (j - T * q) /\ j - T * q \in 0 .. T - 1 /\ j - T * q # 0
    <3> DEFINE y == T * q
    <3> HIDE DEF y
    <3> QED
      BY <2>1
  <2>3. j % T = j - T * q
    <3> HIDE DEF q
    <3> QED
      BY <1>1, <2>1, <2>2, DivModOnly
  <2> QED
    BY <2>2, <2>3
<1> HIDE DEF stop
<1>6. stop \in Nat /\ stop > c
  BY <1>2, <1>3
<1>7. (\A j \in c + 1 .. i - 1 : j % T # 0) <=> i <= stop
  BY <1>4, <1>5
<1> QED
  BY <1>6, <1>7 DEF stop

(***************************************************************************)
(* The grid of lvgl_port.c shows the end of the paper.                     *)
(***************************************************************************)

Glyphs == Chars \cup ToSet(Test) \cup {" ", "\n", "NUL"}
Line == [1 .. Cols -> Glyphs]
Off(p) == IF Len(p.lines) > Rows THEN Len(p.lines) - Rows ELSE 0

\* The grid shows the end of the paper, the cursor at most behind the last column.
ShowsAt(g, p) ==
    /\ g \in [rows : [1 .. Rows -> Line], row : 1 .. Rows, col : 0 .. Cols]
    /\ p \in [lines : Seq(Line), col : 0 .. Cols]
    /\ Len(p.lines) # 0
    /\ g.col = p.col /\ g.row = Len(p.lines) - Off(p)
    /\ \A r \in 1 .. Rows : g.rows[r] = IF r <= g.row THEN p.lines[Off(p) + r] ELSE Blank
Shows(g, p) == ShowsAt(g, p) /\ g.col < Cols

\* What the assumption on the constants says of each.
LEMMA Sizes == Rows \in Nat \ {0} /\ Cols \in Nat \ {0} /\ Tab \in Nat \ {0} /\ RingSize \in Nat \ {0}
BY GfxConsoleAssumption

\* An empty line is a line.
LEMMA BlankLine == Blank \in Line
BY DEF Blank, Line, Glyphs

\* How many lines of the paper went off the top.
LEMMA OffFacts ==
    ASSUME NEW p, NEW n \in Nat, Len(p.lines) = n
    PROVE  Off(p) \in Nat /\ Off(p) = IF n > Rows THEN n - Rows ELSE 0
BY Sizes DEF Off

\* The empty grid shows the empty paper.
LEMMA BlankShown == Shows(BlankGrid, Sheet)
<1>1. <<Blank>> \in Seq(Line) /\ Len(<<Blank>>) = 1 /\ <<Blank>>[1] = Blank
  BY BlankLine
<1>2. BlankGrid.rows = [r \in 1 .. Rows |-> Blank] /\ BlankGrid.row = 1 /\ BlankGrid.col = 0
  BY DEF BlankGrid
<1>3. Sheet.lines = <<Blank>> /\ Sheet.col = 0
  BY DEF Sheet
<1>4. Off(Sheet) = 0
  BY <1>1, <1>3, Sizes DEF Off
<1>5. BlankGrid \in [rows : [1 .. Rows -> Line], row : 1 .. Rows, col : 0 .. Cols]
  BY BlankLine, Sizes DEF BlankGrid
<1>6. Sheet \in [lines : Seq(Line), col : 0 .. Cols]
  BY <1>1, Sizes DEF Sheet
<1> QED
  BY <1>1, <1>2, <1>3, <1>4, <1>5, <1>6, Sizes DEF Shows, ShowsAt

\* console_newline() and scroll_up(): a line feed on the paper, also when the grid scrolls.
LEMMA NewlineShown ==
    ASSUME NEW g, NEW p, ShowsAt(g, p)
    PROVE  Shows(console_newline(g), Feed(p))
<1> DEFINE L == Len(p.lines)
           q == Feed(p)
<1>1. /\ g \in [rows : [1 .. Rows -> Line], row : 1 .. Rows, col : 0 .. Cols]
      /\ p.lines \in Seq(Line) /\ L \in Nat \ {0}
      /\ g.row = L - Off(p)
      /\ \A r \in 1 .. Rows : g.rows[r] = IF r <= g.row THEN p.lines[Off(p) + r] ELSE Blank
      /\ g.rows \in [1 .. Rows -> Line] /\ g.row \in 1 .. Rows
  BY DEF ShowsAt
<1>2. /\ q.lines = Append(p.lines, Blank) /\ q.col = 0
      /\ q.lines \in Seq(Line) /\ Len(q.lines) = L + 1 /\ q.lines[L + 1] = Blank
      /\ \A i \in 1 .. L : q.lines[i] = p.lines[i]
      /\ q \in [lines : Seq(Line), col : 0 .. Cols]
  BY <1>1, BlankLine, Sizes DEF Feed
<1>3. CASE g.row < Rows
  <2>1. L < Rows /\ Off(p) = 0 /\ Off(q) = 0
    <3> HIDE DEF q
    <3>1. L \in Nat /\ Len(p.lines) = L /\ L + 1 \in Nat /\ Len(q.lines) = L + 1
      BY <1>1, <1>2
    <3>2. Off(p) \in Nat /\ (L > Rows => Off(p) = L - Rows) /\ (~ L > Rows => Off(p) = 0)
      BY <3>1, OffFacts
    <3>3. ~ L + 1 > Rows => Off(q) = 0
      BY <3>1, OffFacts
    <3> DEFINE x == Off(p)
               y == Off(q)
    <3> HIDE DEF L, x, y
    <3>4. L < Rows /\ x = 0 /\ y = 0
      <4>1. g.row = L - x /\ x \in Nat /\ L \in Nat /\ (L > Rows => x = L - Rows) /\ (~ L > Rows => x = 0)
        BY <1>1, <3>1, <3>2 DEF x
      <4>2. L < Rows /\ x = 0
        BY <1>3, <4>1, Sizes
      <4> QED
        BY <3>1, <3>3, <4>2, Sizes DEF y
    <3> QED
      BY <3>4 DEF x, y
  <2> DEFINE h == console_newline(g)
  <2>2. /\ h.rows = g.rows /\ h.row = g.row + 1 /\ h.col = 0
        /\ h \in [rows : [1 .. Rows -> Line], row : 1 .. Rows, col : 0 .. Cols]
    <3>1. h = [g EXCEPT !.col = 0, !.row = @ + 1]
      BY <1>3 DEF console_newline
    <3>2. g.row + 1 \in 1 .. Rows /\ 0 \in 0 .. Cols
      BY <1>1, <1>3, Sizes
    <3> HIDE DEF h
    <3> QED
      BY <1>1, <3>1, <3>2
  <2>3. ASSUME NEW r \in 1 .. Rows
        PROVE  h.rows[r] = IF r <= h.row THEN q.lines[Off(q) + r] ELSE Blank
    <3> HIDE DEF h, q
    <3>1. CASE r <= L
      BY <1>1, <1>2, <2>1, <2>2, <3>1
    <3>2. CASE r = L + 1
      BY <1>1, <1>2, <2>1, <2>2, <3>2
    <3>3. CASE r > L + 1
      BY <1>1, <1>2, <2>1, <2>2, <3>3
    <3> QED
      BY <1>1, <3>1, <3>2, <3>3
  <2>4. h.col < Cols /\ h.col = q.col /\ h.row = Len(q.lines) - Off(q) /\ Len(q.lines) # 0
    <3> HIDE DEF h, q
    <3> QED
      BY <1>1, <1>2, <2>1, <2>2, Sizes
  <2> HIDE DEF h, q
  <2>5. Shows(h, q)
    BY <1>2, <2>2, <2>3, <2>4 DEF Shows, ShowsAt
  <2> QED
    BY <2>5 DEF h, q
<1>4. CASE ~ g.row < Rows
  <2>1. g.row = Rows /\ L >= Rows /\ Off(p) = L - Rows /\ Off(q) = L + 1 - Rows
    BY <1>1, <1>2, <1>4, Sizes DEF Off
  <2> DEFINE h == console_newline(g)
  <2>2. /\ h.rows = [r \in 1 .. Rows |-> IF r < Rows THEN g.rows[r + 1] ELSE Blank]
        /\ h.row = Rows /\ h.col = 0
        /\ h \in [rows : [1 .. Rows -> Line], row : 1 .. Rows, col : 0 .. Cols]
    <3>1. \A r \in 1 .. Rows : (IF r < Rows THEN g.rows[r + 1] ELSE Blank) \in Line
      BY <1>1, BlankLine, Sizes
    <3> DEFINE f == [g EXCEPT !.col = 0]
    <3>2. /\ f \in [rows : [1 .. Rows -> Line], row : 1 .. Rows, col : 0 .. Cols]
          /\ f.rows = g.rows /\ f.row = g.row /\ f.col = 0
      BY <1>1, Sizes
    <3>3. h = scroll_up(f)
      BY <1>4 DEF console_newline
    <3> HIDE DEF f, h
    <3> DEFINE new == [r \in 1 .. Rows |-> IF r < Rows THEN g.rows[r + 1] ELSE Blank]
    <3>4. h = [f EXCEPT !.rows = new]
      BY <3>2, <3>3 DEF scroll_up
    <3>5. new \in [1 .. Rows -> Line]
      BY <3>1
    <3> HIDE DEF new
    <3>6. h.rows = new /\ h.row = Rows /\ h.col = 0 /\ h \in [rows : [1 .. Rows -> Line], row : 1 .. Rows, col : 0 .. Cols]
      BY <2>1, <3>2, <3>4, <3>5
    <3> QED
      BY <3>6 DEF new
  <2>3. ASSUME NEW r \in 1 .. Rows
        PROVE  h.rows[r] = IF r <= h.row THEN q.lines[Off(q) + r] ELSE Blank
    <3> HIDE DEF h, q
    <3>1. CASE r < Rows
      <4>1. Off(q) + r = Off(p) + (r + 1) /\ Off(q) + r \in 1 .. L /\ r + 1 \in 1 .. Rows
        <5> DEFINE x == Off(p)
                   y == Off(q)
        <5>1. L \in Nat /\ x = L - Rows /\ y = L + 1 - Rows /\ L >= Rows
          BY <1>1, <2>1
        <5> HIDE DEF x, y, L
        <5>2. y + r = x + (r + 1) /\ y + r \in 1 .. L /\ r + 1 \in 1 .. Rows
          BY <5>1, <3>1, Sizes
        <5> QED
          BY <5>2 DEF x, y
      <4>2. h.rows[r] = g.rows[r + 1]
        BY <2>2, <3>1
      <4>3. g.rows[r + 1] = p.lines[Off(p) + (r + 1)]
        BY <1>1, <2>1, <4>1
      <4> QED
        BY <1>2, <2>2, <4>1, <4>2, <4>3, Sizes
    <3>2. CASE r = Rows
      BY <1>1, <1>2, <2>1, <2>2, <3>2, Sizes
    <3> QED
      BY <3>1, <3>2, Sizes
  <2>4. h.col < Cols /\ h.col = q.col /\ h.row = Len(q.lines) - Off(q) /\ Len(q.lines) # 0
    <3> HIDE DEF h, q
    <3> QED
      BY <1>1, <1>2, <2>1, <2>2, Sizes
  <2> HIDE DEF h, q
  <2>5. Shows(h, q)
    BY <1>2, <2>2, <2>3, <2>4 DEF Shows, ShowsAt
  <2> QED
    BY <2>5 DEF h, q
<1> QED
  BY <1>3, <1>4

\* The wrap at the last column: the cursor is on the grid again.
LEMMA WrappedShown ==
    ASSUME NEW g, NEW p, ShowsAt(g, p)
    PROVE  Shows(Wrapped(g), FeedFull(p))
<1>1. g.col \in 0 .. Cols /\ p.col = g.col
  BY DEF ShowsAt
<1>2. CASE g.col = Cols
  BY <1>1, <1>2, NewlineShown, Sizes DEF Wrapped, FeedFull
<1>3. CASE g.col < Cols
  BY <1>1, <1>3, Sizes DEF Wrapped, FeedFull, Shows
<1> QED
  BY <1>1, <1>2, <1>3, Sizes

\* Cells cs of the line of the cursor are set, on the grid and on the paper.
LEMMA InkShown ==
    ASSUME NEW g, NEW p, Shows(g, p), NEW cs \in SUBSET (1 .. Cols), NEW c \in Glyphs,
           NEW n \in 0 .. Cols, Max(cs) = n,
           NEW h, h.rows = [g.rows EXCEPT ![g.row] = [i \in 1 .. Cols |-> IF i \in cs THEN c ELSE @[i]]],
           h.row = g.row, h.col = n, h = [rows |-> h.rows, row |-> h.row, col |-> h.col]
    PROVE  ShowsAt(h, Ink(p, cs, c))
<1> DEFINE L == Len(p.lines)
           q == Ink(p, cs, c)
           old == p.lines[L]
           new == [i \in 1 .. Cols |-> IF i \in cs THEN c ELSE old[i]]
<1>1. /\ p.lines \in Seq(Line) /\ L \in Nat \ {0}
      /\ g.row = L - Off(p)
      /\ \A r \in 1 .. Rows : g.rows[r] = IF r <= g.row THEN p.lines[Off(p) + r] ELSE Blank
      /\ g.rows \in [1 .. Rows -> Line] /\ g.row \in 1 .. Rows
  BY DEF Shows, ShowsAt
<1>2. old \in Line /\ g.rows[g.row] = old
  <2>1. Off(p) \in Nat
    BY <1>1, OffFacts
  <2> QED
    BY <1>1, <2>1
<1>3. new \in Line
  BY <1>2 DEF Line
<1>4. /\ q.lines = [p.lines EXCEPT ![L] = new] /\ q.col = n
      /\ q = [lines |-> q.lines, col |-> q.col]
  BY DEF Ink
<1>5. /\ q.lines \in Seq(Line) /\ Len(q.lines) = L /\ q.lines[L] = new
      /\ \A i \in 1 .. L : i # L => q.lines[i] = p.lines[i]
  <2> HIDE DEF new, q
  <2> QED
    BY <1>1, <1>3, <1>4
<1>6. Off(q) = Off(p)
  <2> HIDE DEF q
  <2> QED
    BY <1>5 DEF Off
<1>7. /\ h.rows = [g.rows EXCEPT ![g.row] = new]
      /\ h.rows \in [1 .. Rows -> Line] /\ h.rows[g.row] = new
      /\ \A r \in 1 .. Rows : r # g.row => h.rows[r] = g.rows[r]
  <2>1. h.rows = [g.rows EXCEPT ![g.row] = new]
    BY <1>1, <1>2
  <2> HIDE DEF new
  <2> QED
    BY <1>1, <1>3, <2>1
<1> HIDE DEF q, new
<1>8. ASSUME NEW r \in 1 .. Rows
      PROVE  h.rows[r] = IF r <= h.row THEN q.lines[Off(q) + r] ELSE Blank
  <2>0. Off(p) \in Nat
    BY <1>1, OffFacts
  <2>1. CASE r = g.row
    <3>1. Off(q) + r = L
      BY <1>1, <1>6, <2>0, <2>1
    <3> QED
      BY <1>5, <1>7, <2>1, <3>1
  <2>2. CASE r # g.row
    <3>1. h.rows[r] = IF r <= g.row THEN p.lines[Off(p) + r] ELSE Blank
      BY <1>1, <1>7, <2>2
    <3>2. r <= g.row => Off(p) + r \in 1 .. L /\ Off(p) + r # L
      BY <1>1, <2>0, <2>2
    <3> QED
      BY <1>5, <1>6, <3>1, <3>2
  <2> QED
    BY <2>1, <2>2
<1>9. h \in [rows : [1 .. Rows -> Line], row : 1 .. Rows, col : 0 .. Cols]
  BY <1>1, <1>7
<1>10. q \in [lines : Seq(Line), col : 0 .. Cols]
  BY <1>4, <1>5
<1> QED
  BY <1>1, <1>4, <1>5, <1>6, <1>8, <1>9, <1>10 DEF q, ShowsAt

\* A character that is printed.
LEMMA PutShown ==
    ASSUME NEW g, NEW p, Shows(g, p), NEW c \in Glyphs
    PROVE  ShowsAt(PutAt(g, c), Ink(p, {p.col + 1}, c))
<1> DEFINE h == PutAt(g, c)
           cs == {p.col + 1}
           n == p.col + 1
<1>1. /\ g \in [rows : [1 .. Rows -> Line], row : 1 .. Rows, col : 0 .. Cols]
      /\ g.rows \in [1 .. Rows -> Line] /\ g.row \in 1 .. Rows
      /\ g.col \in 0 .. Cols - 1 /\ p.col = g.col
  BY Sizes DEF Shows, ShowsAt
<1>2. n \in 1 .. Cols /\ n \in 0 .. Cols /\ cs \in SUBSET (1 .. Cols)
  BY <1>1, Sizes
<1>3. Max(cs) = n
  BY <1>2 DEF Max
<1>4. g.rows[g.row] \in Line
  BY <1>1
<1>5. [g.rows[g.row] EXCEPT ![n] = c] = [i \in 1 .. Cols |-> IF i \in cs THEN c ELSE g.rows[g.row][i]]
  <2> DEFINE old == g.rows[g.row]
  <2> HIDE DEF old
  <2>1. [old EXCEPT ![n] = c] = [i \in 1 .. Cols |-> IF i \in cs THEN c ELSE old[i]]
    BY <1>2, <1>4 DEF Line, old
  <2> QED
    BY <2>1 DEF old
<1>6. /\ h.rows = [g.rows EXCEPT ![g.row] = [g.rows[g.row] EXCEPT ![n] = c]]
      /\ h.row = g.row /\ h.col = n /\ h = [rows |-> h.rows, row |-> h.row, col |-> h.col]
  <2>1. h = [g EXCEPT !.rows[g.row][n] = c, !.col = n]
    BY <1>1 DEF PutAt
  <2> HIDE DEF n, h
  <2> QED
    BY <1>1, <2>1
<1>7. h.rows = [g.rows EXCEPT ![g.row] = [i \in 1 .. Cols |-> IF i \in cs THEN c ELSE @[i]]]
  BY <1>5, <1>6
<1> HIDE DEF h, cs, n
<1>8. ShowsAt(h, Ink(p, cs, c))
  BY <1>2, <1>3, <1>6, <1>7, InkShown
<1> QED
  BY <1>8 DEF h, cs, n

\* A tab: blanks up to the next stop or the end of the line.
LEMMA TabShown ==
    ASSUME NEW g, NEW p, Shows(g, p)
    PROVE  ShowsAt(TabTo(g), Ink(p, ToStop(p), " "))
<1> DEFINE next == (g.col \div Tab + 1) * Tab
           stop == IF next < Cols THEN next ELSE Cols
           h == TabTo(g)
           cs == ToStop(p)
<1>1. /\ g \in [rows : [1 .. Rows -> Line], row : 1 .. Rows, col : 0 .. Cols]
      /\ g.rows \in [1 .. Rows -> Line] /\ g.row \in 1 .. Rows
      /\ g.col \in 0 .. Cols - 1 /\ g.col \in Nat /\ p.col = g.col
  BY Sizes DEF Shows, ShowsAt
<1>2. next \in Nat /\ next > g.col
  <2>1. g.col + 1 \in Nat /\ g.col + 1 > g.col
    BY <1>1
  <2> QED
    BY <1>1, <2>1, TabStops, Sizes
<1>3. cs = {i \in g.col + 1 .. Cols : i <= next}
  <2>1. \A i \in g.col + 1 .. Cols : (\A j \in g.col + 1 .. i - 1 : j % Tab # 0) <=> i <= next
    <3> TAKE i \in g.col + 1 .. Cols
    <3>1. i \in Nat /\ i > g.col
      BY <1>1, Sizes
    <3> QED
      BY <1>1, <3>1, TabStops, Sizes
  <2> HIDE DEF next
  <2> QED
    BY <1>1, <2>1 DEF ToStop
<1>4. stop \in g.col + 1 .. Cols /\ cs = g.col + 1 .. stop
  <2> HIDE DEF next, cs
  <2> QED
    BY <1>1, <1>2, <1>3, Sizes
<1>5. /\ h.rows = [g.rows EXCEPT ![g.row] = [c \in 1 .. Cols |-> IF c \in g.col + 1 .. stop THEN " " ELSE @[c]]]
      /\ h.row = g.row /\ h.col = stop /\ h = [rows |-> h.rows, row |-> h.row, col |-> h.col]
  <2>1. h = [g EXCEPT !.rows[g.row] = [c \in 1 .. Cols |-> IF c \in g.col + 1 .. stop THEN " " ELSE @[c]],
                     !.col = stop]
    BY DEF TabTo
  <2> HIDE DEF stop, h
  <2> QED
    BY <1>1, <2>1
<1> HIDE DEF h, cs, next, stop
<1>6. cs \in SUBSET (1 .. Cols) /\ stop \in 0 .. Cols /\ Max(cs) = stop
  <2>1. cs \in SUBSET (1 .. Cols) /\ stop \in 0 .. Cols
    BY <1>1, <1>4, Sizes
  <2>2. stop \in cs /\ \A y \in cs : stop >= y
    BY <1>1, <1>4, Sizes
  <2>3. \A x \in cs : (\A y \in cs : x >= y) => x = stop
    BY <1>1, <1>4, <2>2, Sizes
  <2> QED
    BY <2>1, <2>2, <2>3 DEF Max
<1>7. " " \in Glyphs
  BY DEF Glyphs
<1>8. ShowsAt(h, Ink(p, cs, " "))
  BY <1>4, <1>5, <1>6, <1>7, InkShown
<1> QED
  BY <1>8 DEF h, cs

\* A backspace: the cursor goes back, and not beyond the first column.
LEMMA BackShown ==
    ASSUME NEW g, NEW p, Shows(g, p)
    PROVE  Shows([g EXCEPT !.col = IF @ > 0 THEN @ - 1 ELSE 0], [p EXCEPT !.col = Max({0, @ - 1})])
<1>1. /\ g \in [rows : [1 .. Rows -> Line], row : 1 .. Rows, col : 0 .. Cols]
      /\ g.col \in 0 .. Cols - 1 /\ p.col = g.col
      /\ p \in [lines : Seq(Line), col : 0 .. Cols]
  BY Sizes DEF Shows, ShowsAt
<1> DEFINE n == IF g.col > 0 THEN g.col - 1 ELSE 0
           h == [g EXCEPT !.col = n]
           q == [p EXCEPT !.col = n]
<1>2. n \in 0 .. Cols - 1
  BY <1>1, Sizes
<1>3. Max({0, p.col - 1}) = n
  <2>1. CASE g.col > 0
    <3>1. p.col - 1 >= 0 /\ p.col - 1 \in Nat
      BY <1>1, <2>1
    <3> QED
      BY <1>1, <2>1, <3>1 DEF Max
  <2>2. CASE g.col = 0
    <3>1. p.col - 1 = -1
      BY <1>1, <2>2
    <3> QED
      BY <1>1, <2>2, <3>1 DEF Max
  <2> QED
    BY <1>1, <2>1, <2>2
<1>4. /\ h.rows = g.rows /\ h.row = g.row /\ h.col = n
      /\ q.lines = p.lines /\ q.col = n
      /\ h \in [rows : [1 .. Rows -> Line], row : 1 .. Rows, col : 0 .. Cols]
      /\ q \in [lines : Seq(Line), col : 0 .. Cols]
  <2> HIDE DEF n
  <2>1. n \in 0 .. Cols
    BY <1>2, Sizes
  <2> QED
    BY <1>1, <2>1
<1>5. Off(q) = Off(p)
  BY <1>4 DEF Off
<1>6. Shows(h, q)
  <2> HIDE DEF h, q, n
  <2> QED
    BY <1>1, <1>2, <1>4, <1>5, Sizes DEF Shows, ShowsAt
<1>7. [g EXCEPT !.col = IF @ > 0 THEN @ - 1 ELSE 0] = h /\ [p EXCEPT !.col = Max({0, @ - 1})] = q
  BY <1>3
<1> QED
  BY <1>6, <1>7

\* gfx_console_putc() on the grid is typing on the paper, whatever the character.
LEMMA PutcShown ==
    ASSUME NEW g, NEW p, Shows(g, p), NEW c \in Glyphs
    PROVE  Shows(gfx_console_putc(g, c), Type(p, c))
<1>1. CASE c = "\n"
  BY <1>1, NewlineShown DEF gfx_console_putc, Type, Shows
<1>2. CASE c = "BS"
  <2>1. c # "\n"
    BY <1>2
  <2> QED
    BY <1>2, <2>1, BackShown DEF gfx_console_putc, Type
<1>3. CASE c = "\t"
  <2>1. c # "\n" /\ c # "BS"
    BY <1>3
  <2> QED
    BY <1>3, <2>1, TabShown, WrappedShown DEF gfx_console_putc, Type
<1>4. CASE c # "\n" /\ c # "BS" /\ c # "\t"
  BY <1>4, PutShown, WrappedShown DEF gfx_console_putc, Type
<1> QED
  BY <1>1, <1>2, <1>3, <1>4

(***************************************************************************)
(* Control: where the bring-up and the application are, and what that says *)
(* of the panel.                                                           *)
(***************************************************************************)
Steps == {"none", "again", "sdram", "clear", "clock", "reset", "frame", "host", "prime",
          "video", "panel", "light", "done"}
Early == {"sdram", "clear", "clock", "reset"}          \* before the first frame
Late  == {"host", "prime", "video", "panel", "light"}  \* after it
Finished == buf[1].kind \notin {"noise", "black"}

DisplayOK ==
    /\ buf = [b \in Buffers |-> buf[b]]
    /\ drawing \in 0 .. 2 /\ shadow \in Buffers /\ scanned \in Buffers
    /\ reload \in BOOLEAN /\ ltdc \in BOOLEAN /\ clock \in BOOLEAN /\ lit \in BOOLEAN
    /\ stream \in {"off", "command", "video"}
    /\ panel \in SUBSET (1 .. Commands)
    /\ step \in Steps

\* The bring-up: from the first frame on, it stays in the first buffer, whole; once the
\* video runs, that buffer is the one that is scanned and nothing asks for another.
BringUpInv ==
    /\ step \in Early \/ step \in Late \/ step = "done" => drawing = 0
    /\ step \in Late => Finished
    /\ step \in {"panel", "light"} => ltdc /\ stream = "video" /\ shadow = 1 /\ scanned = 1 /\ ~reload
    /\ step = "light" => clock /\ panel = 1 .. Commands

ShellInv ==
    /\ caller \in {"none", "gfxshell", "picture"}
    /\ renderer \in {"unborn", "sleep", "drain", "drawing"}
    /\ gfx_active \in BOOLEAN /\ picture_ready \in BOOLEAN
    /\ label_made \in BOOLEAN /\ buf2_next \in BOOLEAN
    /\ ~gfx_active => renderer = "unborn"
    /\ caller = "gfxshell" => ~gfx_active /\ step # "again"
    /\ ~gfx_active /\ (caller # "gfxshell" \/ step \in Early \/ (step = "frame" /\ drawing = 0)) =>
         ~label_made /\ ~buf2_next
    /\ app = "graphical-shell" =>
         /\ (caller = "none") <=> (step = "none")
         /\ caller # "none" => renderer \in {"unborn", "sleep"}
         /\ caller = "none" => ((drawing # 0) <=> (renderer = "drawing"))
         /\ step = "again" => drawing = 1
         /\ step = "frame" => drawing \in {0, 1}
         /\ step = "frame" /\ caller = "gfxshell" /\ drawing = 1 => label_made
    /\ app # "graphical-shell" => ~gfx_active /\ caller = "none"

PicoraInv ==
    /\ place \in {"none", "starting", "first", "poll", "redraw", "refused"}
    /\ app = "draw-picora" =>
         /\ (place = "starting") <=> (step # "none")
         /\ step # "again"
         /\ (drawing = 1) <=> (place \in {"first", "redraw"})
         /\ drawing \in {0, 1}
    /\ app # "draw-picora" => place = "none"

ColorInv ==
    /\ colortest_ready \in BOOLEAN
    /\ app = "colored-screen" =>
         /\ step # "again" /\ drawing \in {0, 1}
         /\ step # "none" => drawing = 0 /\ ~colortest_ready
         /\ step = "none" /\ ~colortest_ready => fills = <<>>
         /\ fills = <<>> => drawing = 0
    /\ app # "colored-screen" => ~colortest_ready

ControlInv == app \in Apps /\ DisplayOK /\ BringUpInv /\ ShellInv /\ PicoraInv /\ ColorInv

(***************************************************************************)
(* The text: the ring, and the grid that shows the end of the paper.       *)
(***************************************************************************)
Positions == 0 .. RingSize - 1
TextInv ==
    /\ rb \in [Positions -> Glyphs] /\ head \in Positions /\ tail \in Positions
    /\ accepted \in Seq(Glyphs) /\ drained \in Seq(Glyphs)
    /\ ~gfx_active => head = tail
    /\ TextKept
    /\ label_made => Shows(Grid, Paper)

(***************************************************************************)
(* The picture.                                                            *)
(***************************************************************************)
Frames == << <<"src", 0, 0, BgBase>>, <<"parent", 0, -Stride, BgBase>>, <<"src", 0, 0, BgBase>>,
             <<"brown", -Stride, 0, BgBase>>, <<"brown", 0, 0, BgBase>>,
             <<"brown", 0, 0, Complement(BgBase)>> >>
Pending == IF button /\ ~was_pressed THEN 1 ELSE 0      \* a press the task has not seen
PictureInv ==
    /\ button \in BOOLEAN /\ was_pressed \in BOOLEAN
    /\ presses \in Nat /\ acted \in Nat /\ acted + Pending <= presses
    /\ action = acted % 6 /\ shown = Frames[action + 1]
    /\ place \in {"none", "starting", "first"} => acted = 0
    /\ place \in {"poll", "refused"} => buf[1].text = shown

(***************************************************************************)
(* The colour tests: what has been filled.                                 *)
(***************************************************************************)
Done == Len(Tests[test]) - Len(fills)
Framed == buf[1] = [kind |-> buf[1].kind, text |-> buf[1].text]
CellsInv ==
    /\ test \in DOMAIN Tests \cup {"none"}
    /\ test = "none" => fills = <<>> /\ ~colortest_ready
    /\ test # "none" =>
         /\ Len(fills) \in 0 .. Len(Tests[test])
         /\ fills = [i \in 1 .. Len(fills) |-> Tests[test][Done + i]]
         /\ ~colortest_ready => Done = 0
    /\ app = "colored-screen" => Framed /\ (step # "none" => test # "none")
    /\ colortest_ready /\ test # "colorbars" /\ Done > 0 =>
         buf[1].text = [c \in Screen |-> IF c \in Tests[test][Done].cells THEN Tests[test][Done].color
                                         ELSE "black"]
    /\ colortest_ready /\ test = "colorbars" =>
         \A i \in 1 .. Done : \A c \in Tests[test][i].cells : buf[1].text[c] = Bars[i]

ScreensInv == ControlInv /\ TextInv /\ PictureInv /\ CellsInv

\* What a step of the bring-up does to the applications' part of the control.
LEMMA BringUpMoves ==
    ASSUME app \in Apps, ShellInv, PicoraInv, ColorInv,
           step \notin {"none", "again"}, step' \notin {"none", "again"},
           step' \in Early \/ step' = "frame" => step \in Early,
           drawing = 0, drawing' = 0,
           UNCHANGED <<appVars, lvglVars, picoraVars, colorVars, app>>
    PROVE  ShellInv' /\ PicoraInv' /\ ColorInv'
<1> USE DEF lvglVars, appVars, picoraVars, colorVars
<1>1. ShellInv'
  BY DEF ShellInv
<1>2. PicoraInv'
  BY DEF PicoraInv
<1>3. ColorInv'
  BY DEF ColorInv
<1> QED
  BY <1>1, <1>2, <1>3

\* The display's hardware and the bring-up keep the control part.
LEMMA PanelControl ==
    ASSUME ControlInv, Panel
    PROVE  ControlInv'
<1>0. /\ app \in Apps /\ DisplayOK /\ BringUpInv /\ ShellInv /\ PicoraInv /\ ColorInv
      /\ UNCHANGED <<ringVars, gridVars, lvglVars, appVars, picoraVars, colorVars, app>>
  BY DEF ControlInv, Panel, Hardware
<1>1. ASSUME BringUp
      PROVE  /\ step \notin {"none", "again"} /\ step' \notin {"none", "again"}
             /\ step' \in Early \/ step' = "frame" => step \in Early
             /\ (step \in Early \/ step \in Late) /\ UNCHANGED drawing
  <2>1. CASE hal_sdram_init
    BY <2>1 DEF hal_sdram_init, Early, Late
  <2>2. CASE hal_display_init
    BY <2>2 DEF hal_display_init, Early, Late
  <2>3. CASE disp_clock_init
    BY <2>3 DEF disp_clock_init, Early, Late
  <2>4. CASE panel_reset
    BY <2>4 DEF panel_reset, Early, Late
  <2>5. CASE dsi_host_init
    BY <2>5 DEF dsi_host_init, Early, Late
  <2>6. CASE Prime
    BY <2>6 DEF Prime, Early, Late
  <2>7. CASE StartVideo
    BY <2>7 DEF StartVideo, Early, Late
  <2>8. CASE otm8009a_init
    BY <2>8 DEF otm8009a_init, Early, Late
  <2>9. CASE hal_display_backlight_on
    BY <2>9 DEF hal_display_backlight_on, Early, Late
  <2> QED
    BY <1>1, <2>1, <2>2, <2>3, <2>4, <2>5, <2>6, <2>7, <2>8, <2>9 DEF BringUp
<1>2. ASSUME BringUp PROVE DisplayOK' /\ BringUpInv'
  <2>1. CASE hal_sdram_init
    <3>1. DisplayOK'
      BY <1>0, <2>1 DEF hal_sdram_init, DisplayOK, Steps, Buffers
    <3>2. BringUpInv'
      BY <1>0, <2>1, <3>1 DEF hal_sdram_init, BringUpInv, DisplayOK, Early, Late, Finished, Buffers
    <3> QED
      BY <3>1, <3>2
  <2>2. CASE hal_display_init
    <3>1. DisplayOK'
      BY <1>0, <2>2 DEF hal_display_init, DisplayOK, Steps, Buffers
    <3>2. BringUpInv'
      BY <1>0, <2>2, <3>1 DEF hal_display_init, BringUpInv, DisplayOK, Early, Late, Finished, Buffers
    <3> QED
      BY <3>1, <3>2
  <2>3. CASE disp_clock_init
    <3>1. DisplayOK'
      BY <1>0, <2>3 DEF disp_clock_init, DisplayOK, Steps, Buffers
    <3>2. BringUpInv'
      BY <1>0, <2>3, <3>1 DEF disp_clock_init, BringUpInv, DisplayOK, Early, Late, Finished, Buffers
    <3> QED
      BY <3>1, <3>2
  <2>4. CASE panel_reset
    <3>1. DisplayOK'
      BY <1>0, <2>4 DEF panel_reset, DisplayOK, Steps, Buffers
    <3>2. BringUpInv'
      BY <1>0, <2>4, <3>1 DEF panel_reset, BringUpInv, DisplayOK, Early, Late, Finished, Buffers
    <3> QED
      BY <3>1, <3>2
  <2>5. CASE dsi_host_init
    <3>1. DisplayOK'
      BY <1>0, <2>5 DEF dsi_host_init, DisplayOK, Steps, Buffers
    <3>2. BringUpInv'
      BY <1>0, <2>5, <3>1 DEF dsi_host_init, BringUpInv, DisplayOK, Early, Late, Finished, Buffers
    <3> QED
      BY <3>1, <3>2
  <2>6. CASE Prime
    <3>1. DisplayOK'
      BY <1>0, <2>6 DEF Prime, DisplayOK, Steps, Buffers
    <3>2. BringUpInv'
      BY <1>0, <2>6, <3>1 DEF Prime, BringUpInv, DisplayOK, Early, Late, Finished, Buffers
    <3> QED
      BY <3>1, <3>2
  <2>7. CASE StartVideo
    <3>1. /\ step = "video" /\ step' = "panel" /\ shadow' = 1 /\ scanned' = 1 /\ stream' = "video"
          /\ ltdc' /\ ~reload' /\ UNCHANGED <<buf, drawing, clock, panel, lit>>
          /\ ltdc' \in BOOLEAN /\ reload' \in BOOLEAN
      BY <2>7 DEF StartVideo, ltdc_init
    <3>2. DisplayOK'
      BY <1>0, <3>1 DEF DisplayOK, Steps, Buffers
    <3>3. BringUpInv'
      BY <1>0, <3>1 DEF BringUpInv, Early, Late, Finished
    <3> QED
      BY <3>2, <3>3
  <2>8. CASE otm8009a_init
    <3>1. PICK unsent \in Unsent :
            /\ panel' = panel \cup ((1 .. Commands) \ unsent)
            /\ step' = IF unsent = {} THEN "light" ELSE "done"
      BY <2>8 DEF otm8009a_init
    <3>2. /\ step = "panel"
          /\ UNCHANGED <<buf, drawing, shadow, reload, scanned, ltdc, clock, stream, lit>>
      BY <2>8 DEF otm8009a_init
    <3>3. panel' \in SUBSET (1 .. Commands)
      BY <1>0, <3>1 DEF DisplayOK
    <3>4. DisplayOK'
      BY <1>0, <3>1, <3>2, <3>3 DEF DisplayOK, Steps
    <3>5. unsent = {} => Drains /\ panel' = 1 .. Commands
      BY <1>0, <3>1, DisplayAssumption DEF Unsent, DisplayOK
    <3>6. step' = "light" => clock
      BY <1>0, <3>1, <3>2, <3>5 DEF Drains, BringUpInv
    <3>7. step' = "light" => panel' = 1 .. Commands
      BY <3>1, <3>5
    <3>8. BringUpInv'
      BY <1>0, <3>1, <3>2, <3>6, <3>7 DEF BringUpInv, Early, Late, Finished
    <3> QED
      BY <3>4, <3>8
  <2>9. CASE hal_display_backlight_on
    <3>1. DisplayOK'
      BY <1>0, <2>9 DEF hal_display_backlight_on, DisplayOK, Steps, Buffers
    <3>2. BringUpInv'
      BY <1>0, <2>9, <3>1 DEF hal_display_backlight_on, BringUpInv, DisplayOK, Early, Late, Finished, Buffers
    <3> QED
      BY <3>1, <3>2
  <2> QED
    BY <1>2, <2>1, <2>2, <2>3, <2>4, <2>5, <2>6, <2>7, <2>8, <2>9 DEF BringUp
<1>3. CASE BringUp
  <2>1. drawing = 0 /\ drawing' = 0
    BY <1>0, <1>1, <1>3 DEF BringUpInv
  <2>2. ShellInv' /\ PicoraInv' /\ ColorInv'
    BY <1>0, <1>1, <1>3, <2>1, BringUpMoves
  <2> QED
    BY <1>0, <1>2, <1>3, <2>2 DEF ControlInv
<1>4. CASE VBlank
  <2>1. DisplayOK'
    BY <1>0, <1>4 DEF VBlank, DisplayOK
  <2>2. BringUpInv'
    BY <1>0, <1>4 DEF VBlank, BringUpInv, Finished
  <2>3. ShellInv' /\ PicoraInv' /\ ColorInv'
    BY <1>0, <1>4 DEF VBlank, ShellInv, PicoraInv, ColorInv, lvglVars, appVars, picoraVars, colorVars
  <2> QED
    BY <1>0, <2>1, <2>2, <2>3 DEF ControlInv
<1> QED
  BY <1>3, <1>4 DEF Panel, Hardware

\* A drawing into one buffer leaves the other.
LEMMA Drew ==
    ASSUME NEW f, NEW g, NEW b \in Buffers, NEW x, f = [i \in Buffers |-> f[i]], g = [f EXCEPT ![b] = x]
    PROVE  g = [i \in Buffers |-> g[i]] /\ g[b] = x /\ \A i \in Buffers : i # b => g[i] = f[i]
OBVIOUS

\* The graphical shell keeps the control part.
LEMMA ShellControl ==
    ASSUME ControlInv, app = "graphical-shell",
           Renderer \/ Commanding \/ cli_gfxshell \/ cli_picture \/ (\E c \in Chars : hal_uart_output_hook(c)),
           UNCHANGED <<picoraVars, colorVars, app>>
    PROVE  ControlInv'
<1>0. /\ app \in Apps /\ DisplayOK /\ BringUpInv /\ ShellInv /\ PicoraInv /\ ColorInv
      /\ app = "graphical-shell" /\ UNCHANGED <<picoraVars, colorVars, app>>
  BY DEF ControlInv
<1> USE DEF displayVars, lvglVars, appVars, picoraVars, colorVars
<1>1. CASE Wake
  <2>1. DisplayOK'
    BY <1>0, <1>1 DEF Wake, DisplayOK, Steps, Buffers
  <2>2. BringUpInv'
    BY <1>0, <1>1 DEF Wake, BringUpInv, DisplayOK, Early, Late, Finished, Buffers
  <2>3. ShellInv'
    BY <1>0, <1>1 DEF Wake, ShellInv, DisplayOK, Early, Buffers
  <2>4. PicoraInv'
    BY <1>0, <1>1 DEF Wake, PicoraInv, DisplayOK, Buffers
  <2>5. ColorInv'
    BY <1>0, <1>1 DEF Wake, ColorInv, DisplayOK
  <2> QED
    BY <1>0, <2>1, <2>2, <2>3, <2>4, <2>5 DEF ControlInv
<1>2. CASE gfxshell_drain_rb
  <2>1. DisplayOK'
    BY <1>0, <1>2 DEF gfxshell_drain_rb, DisplayOK, Steps, Buffers
  <2>2. BringUpInv'
    BY <1>0, <1>2 DEF gfxshell_drain_rb, BringUpInv, DisplayOK, Early, Late, Finished, Buffers
  <2>3. ShellInv'
    BY <1>0, <1>2 DEF gfxshell_drain_rb, ShellInv, DisplayOK, Early, Buffers
  <2>4. PicoraInv'
    BY <1>0, <1>2 DEF gfxshell_drain_rb, PicoraInv, DisplayOK, Buffers
  <2>5. ColorInv'
    BY <1>0, <1>2 DEF gfxshell_drain_rb, ColorInv, DisplayOK
  <2> QED
    BY <1>0, <2>1, <2>2, <2>3, <2>4, <2>5 DEF ControlInv
<1>3. CASE lvgl_port_handler
  <2>1. /\ renderer = "drain" /\ renderer' \in {"sleep", "drawing"}
        /\ renderer' = "sleep" => UNCHANGED <<drawing, buf2_next>>
        /\ renderer' = "drawing" => drawing' \in {1, 2} /\ buf2_next' \in BOOLEAN
    BY <1>0, <1>3 DEF lvgl_port_handler, DrawLabel, Draw
  <2>2. UNCHANGED <<buf, shadow, reload, scanned, ltdc, clock, stream, panel, lit, step,
                     label_made, gfx_active, picture_ready, caller, picoraVars, colorVars, app>>
    BY <1>0, <1>3 DEF lvgl_port_handler
  <2>3. caller = "none" /\ step = "none" /\ gfx_active
    BY <1>0, <2>1 DEF ShellInv
  <2>4. DisplayOK'
    BY <1>0, <2>1, <2>2, <2>3 DEF DisplayOK, Steps, Buffers
  <2>5. BringUpInv'
    BY <1>0, <2>1, <2>2, <2>3 DEF BringUpInv, DisplayOK, Early, Late, Finished, Buffers
  <2>6. ShellInv'
    BY <1>0, <2>1, <2>2, <2>3 DEF ShellInv, DisplayOK, Early, Buffers
  <2>7. PicoraInv'
    BY <1>0, <2>1, <2>2, <2>3 DEF PicoraInv, DisplayOK, Buffers
  <2>8. ColorInv'
    BY <1>0, <2>1, <2>2, <2>3 DEF ColorInv, DisplayOK
  <2> QED
    BY <1>0, <2>4, <2>5, <2>6, <2>7, <2>8 DEF ControlInv
<1>4. CASE lv_flush_cb
  <2>1. /\ renderer = "drawing" /\ renderer' = "sleep" /\ caller = "none" /\ step = "none" /\ gfx_active /\ drawing \in Buffers
    BY <1>0, <1>4 DEF lv_flush_cb, ShellInv, DisplayOK, Buffers
  <2>2. /\ drawing' = 0 /\ shadow' = drawing /\ reload' = ltdc
        /\ \E x : buf' = [buf EXCEPT ![drawing] = x]
    BY <1>0, <1>4 DEF lv_flush_cb, LabelDrawn, Drawn, hal_display_flip
  <2>3. buf' = [b \in Buffers |-> buf'[b]]
    BY <1>0, <2>1, <2>2, Drew DEF DisplayOK
  <2>4. UNCHANGED <<scanned, ltdc, clock, stream, panel, lit, step, lvglVars,
                     gfx_active, picture_ready, caller, picoraVars, colorVars, app>>
    BY <1>0, <1>4 DEF lv_flush_cb
  <2>5. DisplayOK'
    BY <1>0, <2>1, <2>2, <2>3, <2>4 DEF DisplayOK, Steps, Buffers
  <2>6. BringUpInv'
    BY <1>0, <2>1, <2>2, <2>3, <2>4 DEF BringUpInv, DisplayOK, Early, Late, Finished, Buffers
  <2>7. ShellInv'
    BY <1>0, <2>1, <2>2, <2>3, <2>4 DEF ShellInv, DisplayOK, Early, Buffers
  <2>8. PicoraInv'
    BY <1>0, <2>1, <2>2, <2>3, <2>4 DEF PicoraInv, DisplayOK, Buffers
  <2>9. ColorInv'
    BY <1>0, <2>1, <2>2, <2>3, <2>4 DEF ColorInv, DisplayOK
  <2> QED
    BY <1>0, <2>5, <2>6, <2>7, <2>8, <2>9 DEF ControlInv
<1>5. CASE FirstHouse
  <2>1. DisplayOK'
    BY <1>0, <1>5 DEF FirstHouse, DisplayOK, Steps, Buffers
  <2>2. BringUpInv'
    BY <1>0, <1>5 DEF FirstHouse, BringUpInv, DisplayOK, Early, Late, Finished, Buffers
  <2>3. ShellInv'
    BY <1>0, <1>5 DEF FirstHouse, ShellInv, DisplayOK, Early, Buffers
  <2>4. PicoraInv'
    BY <1>0, <1>5 DEF FirstHouse, PicoraInv, DisplayOK, Buffers
  <2>5. ColorInv'
    BY <1>0, <1>5 DEF FirstHouse, ColorInv, DisplayOK
  <2> QED
    BY <1>0, <2>1, <2>2, <2>3, <2>4, <2>5 DEF ControlInv
<1>6. CASE draw_house_picture
  <2>1. /\ caller = "picture" /\ drawing = 1 /\ step \in {"again", "frame"} /\ drawing' = 0
        /\ step' = IF step = "again" THEN "done" ELSE "host"
    BY <1>0, <1>6 DEF draw_house_picture, Drawn, ShellInv, BringUpInv, DisplayOK, Steps, Early, Late
  <2>2. buf' = [buf EXCEPT ![1] = House] /\ 1 \in Buffers
    BY <1>0, <1>6 DEF draw_house_picture, Drawn, Buffers
  <2>3. buf' = [b \in Buffers |-> buf'[b]] /\ buf'[1] = House /\ House.kind = "house"
    BY <1>0, <2>2, Drew DEF DisplayOK, House
  <2>4. UNCHANGED <<shadow, reload, scanned, ltdc, clock, stream, panel, lit,
                     lvglVars, appVars, picoraVars, colorVars, app>>
    BY <1>0, <1>6 DEF draw_house_picture
  <2>5. DisplayOK'
    BY <1>0, <2>1, <2>2, <2>3, <2>4 DEF DisplayOK, Steps, Buffers
  <2>6. BringUpInv'
    BY <1>0, <2>1, <2>2, <2>3, <2>4 DEF BringUpInv, DisplayOK, Early, Late, Finished, Buffers
  <2>7. ShellInv'
    BY <1>0, <2>1, <2>2, <2>3, <2>4 DEF ShellInv, DisplayOK, Early, Buffers
  <2>8. PicoraInv'
    BY <1>0, <2>1, <2>2, <2>3, <2>4 DEF PicoraInv, DisplayOK, Buffers
  <2>9. ColorInv'
    BY <1>0, <2>1, <2>2, <2>3, <2>4 DEF ColorInv, DisplayOK
  <2> QED
    BY <1>0, <2>5, <2>6, <2>7, <2>8, <2>9 DEF ControlInv
<1>7. CASE lvgl_port_init
  <2>1. /\ caller = "gfxshell" /\ step = "frame" /\ drawing = 0 /\ ~gfx_active /\ ~buf2_next
    BY <1>0, <1>7 DEF lvgl_port_init, ShellInv
  <2>2. PICK made \in BOOLEAN :
          /\ label_made' = made
          /\ made => DrawLabel /\ UNCHANGED step
          /\ ~made => step' = "done" /\ UNCHANGED <<drawing, buf2_next>>
    BY <1>0, <1>7 DEF lvgl_port_init
  <2>3. /\ label_made' \in BOOLEAN /\ step' \in {"frame", "done"}
        /\ step' = "frame" => label_made' /\ drawing' = 1 /\ buf2_next' \in BOOLEAN
        /\ step' = "done" => ~label_made' /\ UNCHANGED <<drawing, buf2_next>>
    BY <1>0, <2>1, <2>2 DEF DrawLabel, Draw
  <2>4. UNCHANGED <<buf, shadow, reload, scanned, ltdc, clock, stream, panel, lit,
                     appVars, picoraVars, colorVars, app>>
    BY <1>0, <1>7 DEF lvgl_port_init
  <2>5. DisplayOK'
    BY <1>0, <2>1, <2>2, <2>3, <2>4 DEF DisplayOK, Steps, Buffers
  <2>6. BringUpInv'
    BY <1>0, <2>1, <2>2, <2>3, <2>4 DEF BringUpInv, DisplayOK, Early, Late, Finished, Buffers
  <2>7. ShellInv'
    BY <1>0, <2>1, <2>2, <2>3, <2>4 DEF ShellInv, DisplayOK, Early, Buffers
  <2>8. PicoraInv'
    BY <1>0, <2>1, <2>2, <2>3, <2>4 DEF PicoraInv, DisplayOK, Buffers
  <2>9. ColorInv'
    BY <1>0, <2>1, <2>2, <2>3, <2>4 DEF ColorInv, DisplayOK
  <2> QED
    BY <1>0, <2>5, <2>6, <2>7, <2>8, <2>9 DEF ControlInv
<1>8. CASE FirstLabel
  <2>1. /\ caller = "gfxshell" /\ step = "frame" /\ step' = "host" /\ drawing = 1 /\ label_made /\ ~gfx_active /\ drawing \in Buffers
    BY <1>0, <1>8 DEF FirstLabel, ShellInv, Buffers
  <2>2. /\ drawing' = 0 /\ shadow' = 1 /\ reload' = ltdc /\ buf' = [buf EXCEPT ![1] = Label(label)]
    BY <1>0, <2>1, <1>8 DEF FirstLabel, LabelDrawn, Drawn, hal_display_flip
  <2>3. buf' = [b \in Buffers |-> buf'[b]] /\ buf'[1] = Label(label) /\ Label(label).kind = "label"
    BY <1>0, <2>1, <2>2, Drew DEF DisplayOK, Label
  <2>4. UNCHANGED <<scanned, ltdc, clock, stream, panel, lit,
                     lvglVars, appVars, picoraVars, colorVars, app>>
    BY <1>0, <1>8 DEF FirstLabel
  <2>5. DisplayOK'
    BY <1>0, <2>1, <2>2, <2>3, <2>4 DEF DisplayOK, Steps, Buffers
  <2>6. BringUpInv'
    BY <1>0, <2>1, <2>2, <2>3, <2>4 DEF BringUpInv, DisplayOK, Early, Late, Finished, Buffers
  <2>7. ShellInv'
    BY <1>0, <2>1, <2>2, <2>3, <2>4 DEF ShellInv, DisplayOK, Early, Buffers
  <2>8. PicoraInv'
    BY <1>0, <2>1, <2>2, <2>3, <2>4 DEF PicoraInv, DisplayOK, Buffers
  <2>9. ColorInv'
    BY <1>0, <2>1, <2>2, <2>3, <2>4 DEF ColorInv, DisplayOK
  <2> QED
    BY <1>0, <2>5, <2>6, <2>7, <2>8, <2>9 DEF ControlInv
<1>9. CASE Finish
  <2>1. /\ step = "done" /\ step' = "none" /\ caller' = "none" /\ caller # "none" /\ drawing = 0 /\ drawing' = 0
    BY <1>0, <1>9 DEF Finish, ShellInv, BringUpInv
  <2>2. /\ caller = "gfxshell" => gfx_active' = TRUE /\ renderer' \in {"unborn", "sleep"} /\ UNCHANGED picture_ready
        /\ caller # "gfxshell" => picture_ready' = TRUE /\ UNCHANGED <<gfx_active, renderer>>
    BY <1>0, <1>9 DEF Finish
  <2>3. /\ gfx_active \in BOOLEAN /\ picture_ready \in BOOLEAN
        /\ ~gfx_active => renderer = "unborn"
    BY <1>0, <2>1 DEF ShellInv
  <2>4. gfx_active' \in BOOLEAN
    BY <1>0, <2>2, <2>3
  <2>5. picture_ready' \in BOOLEAN
    BY <1>0, <2>2, <2>3
  <2>6. ~gfx_active' => caller # "gfxshell"
    BY <1>0, <2>2
  <2>7. ~gfx_active' => ~gfx_active /\ renderer' = "unborn"
    BY <1>0, <2>2, <2>3, <2>6
  <2>8. UNCHANGED <<buf, shadow, reload, scanned, ltdc, clock, stream, panel, lit,
                     lvglVars, picoraVars, colorVars, app>>
    BY <1>0, <1>9 DEF Finish
  <2>9. DisplayOK'
    BY <1>0, <2>1, <2>2, <2>3, <2>4, <2>5, <2>6, <2>7, <2>8 DEF DisplayOK, Steps, Buffers
  <2>10. BringUpInv'
    BY <1>0, <2>1, <2>2, <2>3, <2>4, <2>5, <2>6, <2>7, <2>8 DEF BringUpInv, DisplayOK, Early, Late,
       Finished, Buffers
  <2>11. ShellInv'
    BY <1>0, <2>1, <2>2, <2>3, <2>4, <2>5, <2>6, <2>7, <2>8 DEF ShellInv, DisplayOK, Early, Buffers
  <2>12. PicoraInv'
    BY <1>0, <2>1, <2>2, <2>3, <2>4, <2>5, <2>6, <2>7, <2>8 DEF PicoraInv, DisplayOK, Buffers
  <2>13. ColorInv'
    BY <1>0, <2>1, <2>2, <2>3, <2>4, <2>5, <2>6, <2>7, <2>8 DEF ColorInv, DisplayOK
  <2> QED
    BY <1>0, <2>9, <2>10, <2>11, <2>12, <2>13 DEF ControlInv
<1>10. CASE cli_gfxshell
  <2>1. step = "none" /\ drawing = 0
    BY <1>0, <1>10 DEF cli_gfxshell, Prompt, ShellInv
  <2>2. DisplayOK'
    BY <1>0, <1>10, <2>1 DEF cli_gfxshell, Prompt, DisplayOK, Steps, Buffers
  <2>3. BringUpInv'
    BY <1>0, <1>10, <2>1 DEF cli_gfxshell, Prompt, BringUpInv, DisplayOK, Early, Late, Finished, Buffers
  <2>4. ShellInv'
    BY <1>0, <1>10, <2>1 DEF cli_gfxshell, Prompt, ShellInv, DisplayOK, Early, Buffers
  <2>5. PicoraInv'
    BY <1>0, <1>10, <2>1 DEF cli_gfxshell, Prompt, PicoraInv, DisplayOK, Buffers
  <2>6. ColorInv'
    BY <1>0, <1>10, <2>1 DEF cli_gfxshell, Prompt, ColorInv, DisplayOK
  <2> QED
    BY <1>0, <2>2, <2>3, <2>4, <2>5, <2>6 DEF ControlInv
<1>11. CASE cli_picture
  <2>1. step = "none" /\ drawing = 0
    BY <1>0, <1>11 DEF cli_picture, Prompt, ShellInv
  <2>2. DisplayOK'
    BY <1>0, <1>11, <2>1 DEF cli_picture, Prompt, DisplayOK, Steps, Buffers
  <2>3. BringUpInv'
    BY <1>0, <1>11, <2>1 DEF cli_picture, Prompt, BringUpInv, DisplayOK, Early, Late, Finished, Buffers
  <2>4. ShellInv'
    BY <1>0, <1>11, <2>1 DEF cli_picture, Prompt, ShellInv, DisplayOK, Early, Buffers
  <2>5. PicoraInv'
    BY <1>0, <1>11, <2>1 DEF cli_picture, Prompt, PicoraInv, DisplayOK, Buffers
  <2>6. ColorInv'
    BY <1>0, <1>11, <2>1 DEF cli_picture, Prompt, ColorInv, DisplayOK
  <2> QED
    BY <1>0, <2>2, <2>3, <2>4, <2>5, <2>6 DEF ControlInv
<1>12. CASE \E c \in Chars : hal_uart_output_hook(c)
  <2>1. DisplayOK'
    BY <1>0, <1>12 DEF hal_uart_output_hook, DisplayOK, Steps, Buffers
  <2>2. BringUpInv'
    BY <1>0, <1>12 DEF hal_uart_output_hook, BringUpInv, DisplayOK, Early, Late, Finished, Buffers
  <2>3. ShellInv'
    BY <1>0, <1>12 DEF hal_uart_output_hook, ShellInv, DisplayOK, Early, Buffers
  <2>4. PicoraInv'
    BY <1>0, <1>12 DEF hal_uart_output_hook, PicoraInv, DisplayOK, Buffers
  <2>5. ColorInv'
    BY <1>0, <1>12 DEF hal_uart_output_hook, ColorInv, DisplayOK
  <2> QED
    BY <1>0, <2>1, <2>2, <2>3, <2>4, <2>5 DEF ControlInv
<1> QED
  BY <1>1, <1>2, <1>3, <1>4, <1>5, <1>6, <1>7, <1>8, <1>9, <1>10, <1>11, <1>12 DEF Renderer, Commanding

\* draw-picora keeps the control part.
LEMMA PicoraControl ==
    ASSUME ControlInv, app = "draw-picora", PicoraStep \/ cli_picora \/ Button,
           UNCHANGED <<ringVars, gridVars, lvglVars, appVars, colorVars, app>>
    PROVE  ControlInv'
<1>0. /\ app \in Apps /\ DisplayOK /\ BringUpInv /\ ShellInv /\ PicoraInv /\ ColorInv
      /\ app = "draw-picora" /\ UNCHANGED <<ringVars, gridVars, lvglVars, appVars, colorVars, app>>
  BY DEF ControlInv
<1> USE DEF displayVars, lvglVars, appVars, picoraVars, colorVars
<1>1. CASE ensure_display_started
  <2>1. /\ place = "starting" /\ drawing = 0 /\ step \in {"frame", "done"}
    BY <1>0, <1>1 DEF ensure_display_started, PicoraInv, DisplayOK
  <2>2. /\ step = "frame" => step' = "host" /\ buf' = [buf EXCEPT ![1] = Cleared] /\ UNCHANGED <<drawing, place>>
        /\ step = "done" => step' = "none" /\ drawing' = 1 /\ place' = "first" /\ UNCHANGED buf
    BY <1>0, <1>1 DEF ensure_display_started
  <2>3. /\ buf' = [b \in Buffers |-> buf'[b]]
        /\ step' = "host" => buf'[1].kind = "cleared"
    BY <1>0, <2>1, <2>2, Drew DEF DisplayOK, Buffers, Cleared
  <2>4. UNCHANGED <<shadow, reload, scanned, ltdc, clock, stream, panel, lit,
                     lvglVars, appVars, colorVars, app>>
    BY <1>0, <1>1 DEF ensure_display_started
  <2>5. DisplayOK'
    BY <1>0, <2>1, <2>2, <2>3, <2>4 DEF DisplayOK, Steps, Buffers
  <2>6. BringUpInv'
    BY <1>0, <2>1, <2>2, <2>3, <2>4 DEF BringUpInv, DisplayOK, Early, Late, Finished, Buffers
  <2>7. ShellInv'
    BY <1>0, <2>1, <2>2, <2>3, <2>4 DEF ShellInv, DisplayOK, Early, Buffers
  <2>8. PicoraInv'
    BY <1>0, <2>1, <2>2, <2>3, <2>4 DEF PicoraInv, DisplayOK, Buffers
  <2>9. ColorInv'
    BY <1>0, <2>1, <2>2, <2>3, <2>4 DEF ColorInv, DisplayOK
  <2> QED
    BY <1>0, <2>5, <2>6, <2>7, <2>8, <2>9 DEF ControlInv
<1>2. CASE redraw
  <2>1. /\ place \in {"first", "redraw"} /\ place' \in {"poll", "refused"} /\ drawing = 1 /\ drawing' = 0 /\ step = "none"
    BY <1>0, <1>2 DEF redraw, saramos_task_add, PicoraInv
  <2>2. buf' = [b \in Buffers |-> buf'[b]]
    BY <1>0, <1>2, Drew DEF redraw, DisplayOK, Buffers
  <2>3. UNCHANGED <<shadow, reload, scanned, ltdc, clock, stream, panel, lit, step,
                     lvglVars, appVars, colorVars, app>>
    BY <1>0, <1>2 DEF redraw
  <2>4. DisplayOK'
    BY <1>0, <2>1, <2>2, <2>3 DEF DisplayOK, Steps, Buffers
  <2>5. BringUpInv'
    BY <1>0, <2>1, <2>2, <2>3 DEF BringUpInv, DisplayOK, Early, Late, Finished, Buffers
  <2>6. ShellInv'
    BY <1>0, <2>1, <2>2, <2>3 DEF ShellInv, DisplayOK, Early, Buffers
  <2>7. PicoraInv'
    BY <1>0, <2>1, <2>2, <2>3 DEF PicoraInv, DisplayOK, Buffers
  <2>8. ColorInv'
    BY <1>0, <2>1, <2>2, <2>3 DEF ColorInv, DisplayOK
  <2> QED
    BY <1>0, <2>4, <2>5, <2>6, <2>7, <2>8 DEF ControlInv
<1>3. CASE button_task_entry
  <2>1. place = "poll" /\ step = "none" /\ drawing = 0
    BY <1>0, <1>3 DEF button_task_entry, PicoraInv
  <2>2. \/ place' = "redraw" /\ drawing' = 1
        \/ UNCHANGED <<shown, action, acted, place, drawing>>
    BY <1>0, <1>3 DEF button_task_entry
  <2>3. \/ place' = "redraw" /\ drawing' = 1
        \/ UNCHANGED <<place, drawing>>
    BY <1>0, <2>2
  <2>4. UNCHANGED <<buf, shadow, reload, scanned, ltdc, clock, stream, panel, lit, step,
                     lvglVars, appVars, colorVars, app>>
    BY <1>0, <1>3 DEF button_task_entry
  <2>5. DisplayOK'
    BY <1>0, <2>1, <2>2, <2>3, <2>4 DEF DisplayOK, Steps, Buffers
  <2>6. BringUpInv'
    BY <1>0, <2>1, <2>2, <2>3, <2>4 DEF BringUpInv, DisplayOK, Early, Late, Finished, Buffers
  <2>7. ShellInv'
    BY <1>0, <2>1, <2>2, <2>3, <2>4 DEF ShellInv, DisplayOK, Early, Buffers
  <2>8. PicoraInv'
    BY <1>0, <2>1, <2>2, <2>3, <2>4 DEF PicoraInv, DisplayOK, Buffers
  <2>9. ColorInv'
    BY <1>0, <2>1, <2>2, <2>3, <2>4 DEF ColorInv, DisplayOK
  <2> QED
    BY <1>0, <2>5, <2>6, <2>7, <2>8, <2>9 DEF ControlInv
<1>4. CASE cli_picora
  <2>1. drawing = 0 /\ step = "none"
    BY <1>0, <1>4 DEF cli_picora, PicoraInv
  <2>2. DisplayOK'
    BY <1>0, <1>4, <2>1 DEF cli_picora, DisplayOK, Steps, Buffers
  <2>3. BringUpInv'
    BY <1>0, <1>4, <2>1 DEF cli_picora, BringUpInv, DisplayOK, Early, Late, Finished, Buffers
  <2>4. ShellInv'
    BY <1>0, <1>4, <2>1 DEF cli_picora, ShellInv, DisplayOK, Early, Buffers
  <2>5. PicoraInv'
    BY <1>0, <1>4, <2>1 DEF cli_picora, PicoraInv, DisplayOK, Buffers
  <2>6. ColorInv'
    BY <1>0, <1>4, <2>1 DEF cli_picora, ColorInv, DisplayOK
  <2> QED
    BY <1>0, <2>2, <2>3, <2>4, <2>5, <2>6 DEF ControlInv
<1>5. CASE Button
  <2>1. DisplayOK'
    BY <1>0, <1>5 DEF Button, DisplayOK, Steps, Buffers
  <2>2. BringUpInv'
    BY <1>0, <1>5 DEF Button, BringUpInv, DisplayOK, Early, Late, Finished, Buffers
  <2>3. ShellInv'
    BY <1>0, <1>5 DEF Button, ShellInv, DisplayOK, Early, Buffers
  <2>4. PicoraInv'
    BY <1>0, <1>5 DEF Button, PicoraInv, DisplayOK, Buffers
  <2>5. ColorInv'
    BY <1>0, <1>5 DEF Button, ColorInv, DisplayOK
  <2> QED
    BY <1>0, <2>1, <2>2, <2>3, <2>4, <2>5 DEF ControlInv
<1> QED
  BY <1>1, <1>2, <1>3, <1>4, <1>5 DEF PicoraStep

\* colored-screen keeps the control part.
LEMMA ColorControl ==
    ASSUME ControlInv, app = "colored-screen", ColorStep \/ (\E t \in DOMAIN Tests : RunTest(t)),
           UNCHANGED <<ringVars, gridVars, lvglVars, appVars, picoraVars, app>>
    PROVE  ControlInv'
<1>0. /\ app \in Apps /\ DisplayOK /\ BringUpInv /\ ShellInv /\ PicoraInv /\ ColorInv
      /\ app = "colored-screen" /\ UNCHANGED <<ringVars, gridVars, lvglVars, appVars, picoraVars, app>>
  BY DEF ControlInv
<1> USE DEF displayVars, lvglVars, appVars, picoraVars, colorVars
<1>1. CASE BlackFirst
  <2>1. /\ drawing = 0 /\ drawing' = 0 /\ step \in {"frame", "done"} /\ fills' = fills
    BY <1>0, <1>1 DEF BlackFirst, ColorInv
  <2>2. /\ step = "frame" => step' = "host" /\ buf' = [buf EXCEPT ![1] = BlackScreen] /\ UNCHANGED colortest_ready
        /\ step = "done" => step' = "none" /\ colortest_ready' = TRUE /\ UNCHANGED buf
    BY <1>0, <1>1 DEF BlackFirst
  <2>3. /\ buf' = [b \in Buffers |-> buf'[b]]
        /\ step' = "host" => buf'[1].kind = "cells"
    BY <1>0, <2>1, <2>2, Drew DEF DisplayOK, Buffers, BlackScreen
  <2>4. colortest_ready \in BOOLEAN /\ ~colortest_ready
    BY <1>0, <2>1 DEF ColorInv
  <2>5. step = "frame" => ~colortest_ready'
    BY <1>0, <2>2, <2>4
  <2>6. step = "done" => colortest_ready'
    BY <1>0, <2>2
  <2>7. colortest_ready' \in BOOLEAN
    BY <1>0, <2>1, <2>2, <2>4
  <2>8. UNCHANGED <<shadow, reload, scanned, ltdc, clock, stream, panel, lit, lvglVars, appVars, picoraVars, app>>
    BY <1>0, <1>1 DEF BlackFirst
  <2>9. DisplayOK'
    BY <1>0, <2>1, <2>2, <2>3, <2>4, <2>5, <2>6, <2>7, <2>8 DEF DisplayOK, Steps, Buffers
  <2>10. BringUpInv'
    BY <1>0, <2>1, <2>2, <2>3, <2>4, <2>5, <2>6, <2>7, <2>8 DEF BringUpInv, DisplayOK, Early, Late,
       Finished, Buffers
  <2>11. ShellInv'
    BY <1>0, <2>1, <2>2, <2>3, <2>4, <2>5, <2>6, <2>7, <2>8 DEF ShellInv, DisplayOK, Early, Buffers
  <2>12. PicoraInv'
    BY <1>0, <2>1, <2>2, <2>3, <2>4, <2>5, <2>6, <2>7, <2>8 DEF PicoraInv, DisplayOK, Buffers
  <2>13. ColorInv'
    BY <1>0, <2>1, <2>2, <2>3, <2>4, <2>5, <2>6, <2>7, <2>8 DEF ColorInv, DisplayOK
  <2> QED
    BY <1>0, <2>9, <2>10, <2>11, <2>12, <2>13 DEF ControlInv
<1>2. CASE fill_rect
  <2>1. DisplayOK'
    BY <1>0, <1>2 DEF fill_rect, DisplayOK, Steps, Buffers
  <2>2. BringUpInv'
    BY <1>0, <1>2 DEF fill_rect, BringUpInv, DisplayOK, Early, Late, Finished, Buffers
  <2>3. ShellInv'
    BY <1>0, <1>2 DEF fill_rect, ShellInv, DisplayOK, Early, Buffers
  <2>4. PicoraInv'
    BY <1>0, <1>2 DEF fill_rect, PicoraInv, DisplayOK, Buffers
  <2>5. ColorInv'
    BY <1>0, <1>2 DEF fill_rect, ColorInv, DisplayOK
  <2> QED
    BY <1>0, <2>1, <2>2, <2>3, <2>4, <2>5 DEF ControlInv
<1>3. CASE \E t \in DOMAIN Tests : RunTest(t)
  <2>1. /\ drawing = 0 /\ step = "none" /\ step' \in {"none", "sdram"}
        /\ step' = "none" <=> colortest_ready
    BY <1>0, <1>3 DEF RunTest, ColorInv
  <2>2. UNCHANGED <<buf, drawing, shadow, reload, scanned, ltdc, clock, stream, panel, lit,
                     colortest_ready, lvglVars, appVars, picoraVars, app>>
    BY <1>0, <1>3 DEF RunTest
  <2>3. DisplayOK'
    BY <1>0, <2>1, <2>2 DEF DisplayOK, Steps, Buffers
  <2>4. BringUpInv'
    BY <1>0, <2>1, <2>2 DEF BringUpInv, DisplayOK, Early, Late, Finished, Buffers
  <2>5. ShellInv'
    BY <1>0, <2>1, <2>2 DEF ShellInv, DisplayOK, Early, Buffers
  <2>6. PicoraInv'
    BY <1>0, <2>1, <2>2 DEF PicoraInv, DisplayOK, Buffers
  <2>7. ColorInv'
    BY <1>0, <2>1, <2>2 DEF ColorInv, DisplayOK
  <2> QED
    BY <1>0, <2>3, <2>4, <2>5, <2>6, <2>7 DEF ControlInv
<1> QED
  BY <1>1, <1>2, <1>3 DEF ColorStep

(***************************************************************************)
(* Sequences, and the ring of GFX_RB_SIZE characters.                      *)
(***************************************************************************)

\* Sequences of a length and of the same elements are the same.
LEMMA SeqSame ==
    ASSUME NEW T, NEW a \in Seq(T), NEW b \in Seq(T), Len(a) = Len(b),
           \A i \in 1 .. Len(a) : a[i] = b[i]
    PROVE  a = b
OBVIOUS

\* The elements of a sequence that is one longer.
LEMMA AppendElements ==
    ASSUME NEW T, NEW a \in Seq(T), NEW c \in T
    PROVE  /\ Append(a, c) \in Seq(T)
           /\ Len(a) \in Nat /\ Len(Append(a, c)) = Len(a) + 1
           /\ Append(a, c)[Len(a) + 1] = c
           /\ \A i \in 1 .. Len(a) : Append(a, c)[i] = a[i]
OBVIOUS

\* The elements of a tail.
LEMMA TailElements ==
    ASSUME NEW T, NEW a \in Seq(T), a # <<>>
    PROVE  /\ Tail(a) \in Seq(T)
           /\ Len(a) \in Nat \ {0} /\ Len(Tail(a)) = Len(a) - 1
           /\ \A i \in 1 .. Len(a) - 1 : Tail(a)[i] = a[i + 1]
OBVIOUS

\* An append to the second of two parts of a sequence.
LEMMA ConcatAppend ==
    ASSUME NEW T, NEW a \in Seq(T), NEW b \in Seq(T), NEW c \in T
    PROVE  a \o Append(b, c) = Append(a \o b, c)
<1>0. PICK d : d = Append(b, c)
  OBVIOUS
<1>1. /\ d \in Seq(T) /\ Len(d) = Len(b) + 1 /\ d[Len(b) + 1] = c
      /\ \A i \in 1 .. Len(b) : d[i] = b[i]
  BY <1>0, AppendElements
<1> DEFINE ab == a \o b
<1>2. /\ ab \in Seq(T) /\ Len(ab) = Len(a) + Len(b) /\ Len(a) \in Nat /\ Len(b) \in Nat
      /\ \A i \in 1 .. Len(a) : ab[i] = a[i]
      /\ \A i \in 1 .. Len(b) : ab[Len(a) + i] = b[i]
  BY ConcatElements
<1> HIDE DEF ab
<1> DEFINE x == a \o d
<1>3. /\ x \in Seq(T) /\ Len(x) = Len(a) + Len(b) + 1
      /\ \A i \in 1 .. Len(a) : x[i] = a[i]
      /\ \A i \in 1 .. Len(b) + 1 : x[Len(a) + i] = d[i]
  <2>0. d \in Seq(T)
    BY <1>1
  <2>1. /\ x \in Seq(T) /\ Len(x) = Len(a) + Len(d)
        /\ \A i \in 1 .. Len(a) : x[i] = a[i]
        /\ \A i \in 1 .. Len(d) : x[Len(a) + i] = d[i]
    BY <2>0, ConcatElements
  <2> HIDE DEF x
  <2> QED
    BY <1>1, <1>2, <2>1
<1> HIDE DEF x
<1> DEFINE y == Append(ab, c)
<1>4. /\ y \in Seq(T) /\ Len(y) = Len(a) + Len(b) + 1 /\ y[Len(a) + Len(b) + 1] = c
      /\ \A i \in 1 .. Len(a) + Len(b) : y[i] = ab[i]
  <2>1. /\ y \in Seq(T) /\ Len(y) = Len(ab) + 1 /\ y[Len(ab) + 1] = c
        /\ \A i \in 1 .. Len(ab) : y[i] = ab[i]
    BY <1>2, AppendElements
  <2> HIDE DEF y
  <2> QED
    BY <1>2, <2>1
<1> HIDE DEF y
<1>5. ASSUME NEW i \in 1 .. Len(a) + Len(b) + 1 PROVE x[i] = y[i]
  <2>1. CASE i \in 1 .. Len(a)
    <3>1. i \in 1 .. Len(a) + Len(b)
      BY <1>2, <2>1
    <3> QED
      BY <1>2, <1>3, <1>4, <2>1, <3>1
  <2>2. CASE i \notin 1 .. Len(a)
    <3> DEFINE j == i - Len(a)
    <3>1. j \in 1 .. Len(b) + 1 /\ i = Len(a) + j
      BY <1>2, <2>2
    <3> HIDE DEF j
    <3>2. x[i] = d[j]
      BY <1>3, <3>1
    <3>3. CASE j = Len(b) + 1
      BY <1>1, <1>2, <1>4, <3>1, <3>2, <3>3
    <3>4. CASE j \in 1 .. Len(b)
      <4>1. i \in 1 .. Len(a) + Len(b)
        BY <1>2, <3>1, <3>4
      <4> QED
        BY <1>1, <1>2, <1>4, <3>1, <3>2, <3>4, <4>1
    <3> QED
      BY <1>2, <3>1, <3>3, <3>4
  <2> QED
    BY <2>1, <2>2
<1>6. x = y
  BY <1>3, <1>4, <1>5, SeqSame
<1> QED
  BY <1>0, <1>6 DEF x, y, ab

\* A move of one element from the second part to the end of the first.
LEMMA ConcatMove ==
    ASSUME NEW T, NEW a \in Seq(T), NEW b \in Seq(T), b # <<>>
    PROVE  a \o b = Append(a, b[1]) \o Tail(b)
<1>0. PICK c, d : c = Tail(b) /\ d = Append(a, b[1])
  OBVIOUS
<1> DEFINE x == a \o b
<1>1. /\ c \in Seq(T) /\ Len(b) \in Nat \ {0} /\ Len(c) = Len(b) - 1 /\ b[1] \in T
      /\ \A i \in 1 .. Len(b) - 1 : c[i] = b[i + 1]
  BY <1>0
<1>2. /\ d \in Seq(T) /\ Len(d) = Len(a) + 1 /\ d[Len(a) + 1] = b[1] /\ Len(a) \in Nat
      /\ \A i \in 1 .. Len(a) : d[i] = a[i]
  BY <1>0, <1>1, AppendElements
<1>3. /\ x \in Seq(T) /\ Len(x) = Len(a) + Len(b)
      /\ \A i \in 1 .. Len(a) : x[i] = a[i]
      /\ \A i \in 1 .. Len(b) : x[Len(a) + i] = b[i]
  BY ConcatElements
<1> HIDE DEF x
<1> DEFINE y == d \o c
<1>4. /\ y \in Seq(T) /\ Len(y) = Len(a) + 1 + (Len(b) - 1)
      /\ \A i \in 1 .. Len(a) + 1 : y[i] = d[i]
      /\ \A i \in 1 .. Len(b) - 1 : y[Len(a) + 1 + i] = c[i]
  <2>0. c \in Seq(T) /\ d \in Seq(T)
    BY <1>1, <1>2
  <2>1. /\ y \in Seq(T) /\ Len(y) = Len(d) + Len(c)
        /\ \A i \in 1 .. Len(d) : y[i] = d[i]
        /\ \A i \in 1 .. Len(c) : y[Len(d) + i] = c[i]
    BY <2>0, ConcatElements
  <2> HIDE DEF y
  <2> QED
    BY <1>1, <1>2, <2>1
<1> HIDE DEF y
<1>5. ASSUME NEW i \in 1 .. Len(a) + Len(b) PROVE x[i] = y[i]
  <2>1. CASE i \in 1 .. Len(a)
    <3>1. i \in 1 .. Len(a) + 1
      BY <1>2, <2>1
    <3> QED
      BY <1>2, <1>3, <1>4, <2>1, <3>1
  <2>2. CASE i = Len(a) + 1
    <3>1. 1 \in 1 .. Len(b) /\ Len(a) + 1 \in 1 .. Len(a) + 1
      BY <1>1, <1>2
    <3>2. x[Len(a) + 1] = b[1]
      BY <1>3, <3>1
    <3> QED
      BY <1>2, <1>4, <2>2, <3>1, <3>2
  <2>3. CASE i > Len(a) + 1
    <3> DEFINE j == i - Len(a) - 1
    <3>1. j \in 1 .. Len(b) - 1 /\ i = Len(a) + 1 + j /\ i = Len(a) + (j + 1) /\ j + 1 \in 1 .. Len(b)
      BY <1>1, <1>2, <2>3
    <3> HIDE DEF j
    <3>2. y[i] = c[j] /\ c[j] = b[j + 1]
      BY <1>1, <1>4, <3>1
    <3>3. x[i] = b[j + 1]
      BY <1>3, <3>1
    <3> QED
      BY <3>2, <3>3
  <2> QED
    BY <1>2, <2>1, <2>2, <2>3
<1>6. Len(x) = Len(y)
  BY <1>1, <1>2, <1>3, <1>4
<1>7. x = y
  BY <1>3, <1>4, <1>5, <1>6, SeqSame
<1> QED
  BY <1>0, <1>7 DEF x, y

\* The test text typed on the empty grid and on the empty paper: the grid shows the paper.
LEMMA TestShown ==
    Shows(FoldLeft(gfx_console_putc, BlankGrid, Test), FoldLeft(Type, Sheet, Test))
<1> DEFINE N == Len(Test)
<1>1. Test \in Seq(ToSet(Test)) /\ N \in Nat /\ \A i \in 1 .. N : Test[i] \in Glyphs
  <2>1. Test \in Seq(ToSet(Test))
    BY GfxConsoleAssumption
  <2>2. N \in Nat /\ \A i \in 1 .. N : Test[i] \in ToSet(Test)
    BY <2>1
  <2> QED
    BY <2>1, <2>2 DEF Glyphs
<1>2. PICK a : FoldIter("grid", a, Test, N) /\ FoldLeft(gfx_console_putc, BlankGrid, Test) = a[1 .. N]
  BY <1>1, GridFold
<1>3. PICK b : FoldIter("paper", b, Test, N) /\ FoldLeft(Type, Sheet, Test) = b[1 .. N]
  BY <1>1, PaperFold
<1> HIDE DEF N
<1> DEFINE S == {k \in 0 .. N : Shows(a[1 .. k], b[1 .. k])}
<1>4. 0 \in S
  <2>1. 1 .. 0 = {} /\ 0 \in 0 .. N
    BY <1>1
  <2>2. a[{}] = BlankGrid /\ b[{}] = Sheet
    BY <1>2, <1>3 DEF FoldIter, Fresh
  <2> QED
    BY <2>1, <2>2, BlankShown
<1>5. ASSUME NEW k \in 0 .. N - 1, k \in S PROVE k + 1 \in S
  <2>0. k \in Nat /\ k + 1 \in 0 .. N /\ k + 1 \in 1 .. N
    BY <1>1
  <2>1. /\ 1 .. k + 1 \in SUBSET (1 .. N) /\ 1 .. k + 1 # {} /\ k + 1 \in 1 .. k + 1
        /\ (1 .. k + 1) \ {k + 1} = 1 .. k
        /\ k \in Nat /\ k + 1 \in 0 .. N /\ k + 1 \in 1 .. N
    <3> HIDE DEF S
    <3>1. 1 .. k + 1 # {} /\ k + 1 \in 1 .. k + 1
      BY <2>0
    <3>2. (1 .. k + 1) \ {k + 1} = 1 .. k
      BY <2>0
    <3>3. 1 .. k + 1 \in SUBSET (1 .. N)
      BY <1>1, <2>0
    <3> QED
      BY <2>0, <3>1, <3>2, <3>3
  <2>2. Max(1 .. k + 1) = k + 1
    BY <2>1, MaxTop
  <2>3. a[1 .. k + 1] = TypeOn("grid", a[(1 .. k + 1) \ {Max(1 .. k + 1)}], Test[Max(1 .. k + 1)])
    BY <1>2, <2>1 DEF FoldIter
  <2>4. b[1 .. k + 1] = TypeOn("paper", b[(1 .. k + 1) \ {Max(1 .. k + 1)}], Test[Max(1 .. k + 1)])
    BY <1>3, <2>1 DEF FoldIter
  <2>5. /\ a[1 .. k + 1] = gfx_console_putc(a[1 .. k], Test[k + 1])
        /\ b[1 .. k + 1] = Type(b[1 .. k], Test[k + 1])
    BY <2>1, <2>2, <2>3, <2>4 DEF TypeOn
  <2>6. Shows(a[1 .. k], b[1 .. k]) /\ Test[k + 1] \in Glyphs
    BY <1>1, <1>5, <2>1
  <2> QED
    BY <2>1, <2>5, <2>6, PutcShown
<1>6. \A k \in 0 .. N : k \in S
  <2> HIDE DEF S
  <2> QED
    BY <1>1, <1>4, <1>5, UpTo
<1>7. N \in 0 .. N
  BY <1>1
<1> QED
  BY <1>2, <1>3, <1>6, <1>7

(* The ring. *)
\* The remainder of a number that is at most a turn away from the ring's positions.
Near(x, R) == IF x < 0 THEN x + R ELSE IF x < R THEN x ELSE x - R

\* The next position of a ring is the sum, or that less the ring.
LEMMA NearIsRest ==
    ASSUME NEW R \in Nat \ {0}, NEW x \in Int, -R <= x, x < 2 * R
    PROVE  x % R = Near(x, R)
BY RingDistance, Zenon DEF Near

\* A ring of R positions whose head h moves on to n, or whose tail t does, and the m
\* characters it held before.
HeadMoves(R, h, t, n, m) ==
    /\ R \in Nat \ {0} /\ h \in 0 .. R - 1 /\ t \in 0 .. R - 1
    /\ n = (h + 1) % R /\ n # t /\ m = (h - t) % R
TailMoves(R, h, t, n, m) ==
    /\ R \in Nat \ {0} /\ h \in 0 .. R - 1 /\ t \in 0 .. R - 1
    /\ n = (t + 1) % R /\ h # t /\ m = (h - t) % R

\* A put behind the head makes one more wait, and leaves those that waited.
LEMMA RingPut ==
    ASSUME NEW R, NEW h, NEW t, NEW n, NEW m, HeadMoves(R, h, t, n, m)
    PROVE  /\ n \in 0 .. R - 1 /\ m \in 0 .. R - 2
           /\ (n - t) % R = m + 1
           /\ \A i \in 1 .. m : (t + i - 1) % R \in (0 .. R - 1) \ {h}
           /\ (t + (m + 1) - 1) % R = h
<1>0. /\ R \in Nat \ {0} /\ h \in 0 .. R - 1 /\ t \in 0 .. R - 1
      /\ n = (h + 1) % R /\ n # t /\ m = (h - t) % R
  BY DEF HeadMoves
<1>1. n = Near(h + 1, R)
  <2>1. h + 1 \in Int /\ -R <= h + 1 /\ h + 1 < 2 * R
    BY <1>0
  <2> QED
    BY <1>0, <2>1, NearIsRest, Zenon
<1>2. m = Near(h - t, R)
  <2>1. h - t \in Int /\ -R <= h - t /\ h - t < 2 * R
    BY <1>0
  <2> QED
    BY <1>0, <2>1, NearIsRest, Zenon
<1>4. n \in 0 .. R - 1 /\ m \in 0 .. R - 1
  BY <1>0, <1>1, <1>2 DEF Near
<1>5. (n - t) % R = Near(n - t, R)
  <2>1. n - t \in Int /\ -R <= n - t /\ n - t < 2 * R
    BY <1>0, <1>4
  <2> QED
    BY <1>0, <2>1, NearIsRest, Zenon
<1>6. m \in 0 .. R - 2 /\ Near(n - t, R) = m + 1
  BY <1>0, <1>1, <1>2, <1>4 DEF Near
<1>7. ASSUME NEW i \in 1 .. m PROVE (t + i - 1) % R \in (0 .. R - 1) \ {h}
  <2>1. t + i - 1 \in Int /\ -R <= t + i - 1 /\ t + i - 1 < 2 * R
    BY <1>0, <1>6
  <2>2. (t + i - 1) % R = Near(t + i - 1, R)
    BY <1>0, <2>1, NearIsRest, Zenon
  <2>3. Near(t + i - 1, R) \in (0 .. R - 1) \ {h}
    BY <1>0, <1>2, <1>6 DEF Near
  <2> QED
    BY <1>0, <2>2, <2>3
<1>8. (t + (m + 1) - 1) % R = h
  <2>1. t + (m + 1) - 1 \in Int /\ -R <= t + (m + 1) - 1 /\ t + (m + 1) - 1 < 2 * R
    BY <1>0, <1>6
  <2>2. (t + (m + 1) - 1) % R = Near(t + (m + 1) - 1, R)
    BY <1>0, <2>1, NearIsRest, Zenon
  <2>3. Near(t + (m + 1) - 1, R) = h
    BY <1>0, <1>2, <1>6 DEF Near
  <2> QED
    BY <1>0, <2>2, <2>3
<1> QED
  BY <1>0, <1>4, <1>5, <1>6, <1>7, <1>8

\* A take at the tail makes one less wait, and leaves the others.
LEMMA RingTake ==
    ASSUME NEW R, NEW h, NEW t, NEW n, NEW m, TailMoves(R, h, t, n, m)
    PROVE  /\ n \in 0 .. R - 1 /\ m \in 1 .. R - 1
           /\ (h - n) % R = m - 1
           /\ \A i \in 1 .. m - 1 : (n + i - 1) % R = (t + (i + 1) - 1) % R
           /\ \A i \in 1 .. m : (t + i - 1) % R \in 0 .. R - 1
           /\ (t + 1 - 1) % R = t
<1>0. /\ R \in Nat \ {0} /\ h \in 0 .. R - 1 /\ t \in 0 .. R - 1
      /\ n = (t + 1) % R /\ h # t /\ m = (h - t) % R
  BY DEF TailMoves
<1>1. n = Near(t + 1, R)
  <2>1. t + 1 \in Int /\ -R <= t + 1 /\ t + 1 < 2 * R
    BY <1>0
  <2> QED
    BY <1>0, <2>1, NearIsRest, Zenon
<1>2. m = Near(h - t, R)
  <2>1. h - t \in Int /\ -R <= h - t /\ h - t < 2 * R
    BY <1>0
  <2> QED
    BY <1>0, <2>1, NearIsRest, Zenon
<1>3. n \in 0 .. R - 1 /\ m \in 1 .. R - 1
  BY <1>0, <1>1, <1>2 DEF Near
<1>4. (h - n) % R = Near(h - n, R)
  <2>1. h - n \in Int /\ -R <= h - n /\ h - n < 2 * R
    BY <1>0, <1>3
  <2> QED
    BY <1>0, <2>1, NearIsRest, Zenon
<1>5. Near(h - n, R) = m - 1
  BY <1>0, <1>1, <1>2, <1>3 DEF Near
<1>6. ASSUME NEW i \in 1 .. m - 1 PROVE (n + i - 1) % R = (t + (i + 1) - 1) % R
  <2>1. n + i - 1 \in Int /\ -R <= n + i - 1 /\ n + i - 1 < 2 * R
    BY <1>0, <1>3
  <2>2. t + (i + 1) - 1 \in Int /\ -R <= t + (i + 1) - 1 /\ t + (i + 1) - 1 < 2 * R
    BY <1>0, <1>3
  <2>3. (n + i - 1) % R = Near(n + i - 1, R)
    BY <1>0, <2>1, NearIsRest, Zenon
  <2>4. (t + (i + 1) - 1) % R = Near(t + (i + 1) - 1, R)
    BY <1>0, <2>2, NearIsRest, Zenon
  <2>5. Near(n + i - 1, R) = Near(t + (i + 1) - 1, R)
    BY <1>0, <1>1, <1>2, <1>3 DEF Near
  <2> QED
    BY <1>0, <2>3, <2>4, <2>5
<1>7. ASSUME NEW i \in 1 .. m PROVE (t + i - 1) % R \in 0 .. R - 1
  <2>1. t + i - 1 \in Int
    BY <1>0, <1>3
  <2> QED
    BY <1>0, <2>1, DivMod
<1>8. (t + 1 - 1) % R = t
  <2>1. t + 1 - 1 \in Int /\ -R <= t + 1 - 1 /\ t + 1 - 1 < 2 * R
    BY <1>0
  <2>2. (t + 1 - 1) % R = Near(t + 1 - 1, R)
    BY <1>0, <2>1, NearIsRest, Zenon
  <2>3. Near(t + 1 - 1, R) = t
    BY <1>0 DEF Near
  <2> QED
    BY <1>0, <2>2, <2>3
<1> QED
  BY <1>0, <1>3, <1>4, <1>5, <1>6, <1>7, <1>8

\* What waits in the ring, by the distance of head and tail.
LEMMA WaitingFacts ==
    ASSUME rb \in [Positions -> Glyphs], head \in Positions, tail \in Positions
    PROVE  /\ Waiting \in Seq(Glyphs) /\ Len(Waiting) = (head - tail) % RingSize
           /\ (head - tail) % RingSize \in Nat
           /\ head = tail => Waiting = <<>>
<1> DEFINE m == (head - tail) % RingSize
<1>1. m \in Nat /\ (head = tail => m = 0)
  <2>1. head - tail \in Int /\ m \in 0 .. RingSize - 1
    BY Sizes, DivMod DEF Positions
  <2>2. ASSUME head = tail PROVE m = 0
    <3>1. head - tail = RingSize * 0 + 0 /\ 0 \in 0 .. RingSize - 1
      BY <2>2, Sizes DEF Positions
    <3> QED
      BY <2>1, <3>1, Sizes, DivModOnly
  <2> QED
    BY <2>1, <2>2, Sizes
<1>2. ASSUME NEW i \in 1 .. m PROVE rb[(tail + i - 1) % RingSize] \in Glyphs
  <2>1. tail + i - 1 \in Int
    BY <1>1 DEF Positions
  <2>2. (tail + i - 1) % RingSize \in Positions
    BY <2>1, Sizes, DivMod DEF Positions
  <2> QED
    BY <2>2
<1>3. Waiting = [i \in 1 .. m |-> rb[(tail + i - 1) % RingSize]]
  BY DEF Waiting
<1> HIDE DEF m
<1>4. Waiting \in Seq(Glyphs) /\ Len(Waiting) = m
  BY <1>1, <1>2, <1>3
<1> QED
  BY <1>1, <1>4 DEF m

\* rb_put() keeps the text: it is the last that waits.
LEMMA PutKept ==
    ASSUME TextInv, NEW c \in Glyphs, rb_put(c), UNCHANGED <<tail, drained>>
    PROVE  TextKept' /\ rb' \in [Positions -> Glyphs] /\ head' \in Positions /\ accepted' \in Seq(Glyphs)
<1>1. /\ rb \in [Positions -> Glyphs] /\ head \in Positions /\ tail \in Positions
      /\ accepted \in Seq(Glyphs) /\ drained \in Seq(Glyphs) /\ accepted = drained \o Waiting
  BY DEF TextInv, TextKept
<1>2. /\ head' = (head + 1) % RingSize /\ head' # tail
      /\ rb' = [rb EXCEPT ![head] = c] /\ accepted' = Append(accepted, c)
      /\ tail' = tail /\ drained' = drained
  BY DEF rb_put, After
<1>3. PICK n : n = (head - tail) % RingSize
  OBVIOUS
<1>4. /\ head' \in 0 .. RingSize - 1 /\ n \in 0 .. RingSize - 2
      /\ (head' - tail) % RingSize = n + 1
      /\ \A i \in 1 .. n : (tail + i - 1) % RingSize \in (0 .. RingSize - 1) \ {head}
      /\ (tail + (n + 1) - 1) % RingSize = head
  <2>1. RingSize \in Nat \ {0} /\ head \in 0 .. RingSize - 1 /\ tail \in 0 .. RingSize - 1
    BY <1>1, Sizes DEF Positions
  <2> QED
    <3>1. HeadMoves(RingSize, head, tail, head', n)
      BY <1>2, <1>3, <2>1 DEF HeadMoves
    <3> QED
      BY <3>1, RingPut
<1>5. rb' \in [Positions -> Glyphs] /\ head' \in Positions /\ accepted' \in Seq(Glyphs)
  BY <1>1, <1>2, <1>4 DEF Positions
<1>6. /\ Waiting \in Seq(Glyphs) /\ Len(Waiting) = n
      /\ Waiting = [i \in 1 .. n |-> rb[(tail + i - 1) % RingSize]]
  BY <1>1, <1>3, WaitingFacts DEF Waiting
<1>a. /\ Append(Waiting, c) \in Seq(Glyphs)
      /\ Len(Waiting) \in Nat /\ Len(Append(Waiting, c)) = Len(Waiting) + 1
      /\ Append(Waiting, c)[Len(Waiting) + 1] = c
      /\ \A i \in 1 .. Len(Waiting) : Append(Waiting, c)[i] = Waiting[i]
  <2>1. Waiting \in Seq(Glyphs)
    BY <1>6
  <2> QED
    BY <2>1, AppendElements
<1>7. Waiting' = [i \in 1 .. n + 1 |-> rb'[(tail + i - 1) % RingSize]]
  BY <1>2, <1>4 DEF Waiting
<1>8. ASSUME NEW i \in 1 .. n + 1 PROVE rb'[(tail + i - 1) % RingSize] = Append(Waiting, c)[i]
  <2>1. CASE i = n + 1
    <3>1. Append(Waiting, c)[i] = c
      BY <1>6, <1>a, <2>1
    <3>2. rb'[head] = c
      BY <1>1, <1>2
    <3> QED
      BY <1>4, <2>1, <3>1, <3>2
  <2>2. CASE i # n + 1
    <3>1. i \in 1 .. n
      BY <1>4, <2>2
    <3>2. Append(Waiting, c)[i] = rb[(tail + i - 1) % RingSize]
      BY <1>6, <1>a, <3>1
    <3>3. (tail + i - 1) % RingSize \in Positions \ {head}
      BY <1>4, <3>1 DEF Positions
    <3> QED
      BY <1>1, <1>2, <3>2, <3>3
  <2> QED
    BY <2>1, <2>2
<1>9. Append(Waiting, c) \in Seq(Glyphs) /\ Len(Append(Waiting, c)) = n + 1
  BY <1>6, <1>a
<1>10. Waiting' \in Seq(Glyphs) /\ Len(Waiting') = n + 1
  <2>1. n + 1 \in Nat
    BY <1>4, Sizes
  <2>2. \A i \in 1 .. n + 1 : Append(Waiting, c)[i] \in Glyphs
    BY <1>9
  <2>3. \A i \in 1 .. n + 1 : rb'[(tail + i - 1) % RingSize] \in Glyphs
    BY <1>8, <2>2
  <2> QED
    BY <1>7, <2>1, <2>3
<1>11. Waiting' = Append(Waiting, c)
  <2>1. \A i \in 1 .. n + 1 : Waiting'[i] = Append(Waiting, c)[i]
    BY <1>7, <1>8
  <2> QED
    BY <1>9, <1>10, <2>1, SeqSame
<1>12. drained \o Append(Waiting, c) = Append(drained \o Waiting, c)
  <2>1. drained \in Seq(Glyphs) /\ Waiting \in Seq(Glyphs)
    BY <1>1, <1>6
  <2> QED
    BY <2>1, ConcatAppend
<1>13. TextKept'
  BY <1>1, <1>2, <1>11, <1>12 DEF TextKept
<1> QED
  BY <1>5, <1>13

\* The drain keeps the text: what leaves the ring is the first that waited.
LEMMA TakeKept ==
    ASSUME TextInv, head # tail,
           tail' = After(tail), drained' = Append(drained, rb[tail]), UNCHANGED <<rb, head, accepted>>
    PROVE  /\ TextKept' /\ rb[tail] \in Glyphs
           /\ tail' \in Positions /\ drained' \in Seq(Glyphs)
<1>1. /\ rb \in [Positions -> Glyphs] /\ head \in Positions /\ tail \in Positions
      /\ accepted \in Seq(Glyphs) /\ drained \in Seq(Glyphs) /\ accepted = drained \o Waiting
  BY DEF TextInv, TextKept
<1>2. PICK n : n = (head - tail) % RingSize
  OBVIOUS
<1>3. PICK t : t = (tail + 1) % RingSize
  OBVIOUS
<1>4. /\ t \in 0 .. RingSize - 1 /\ n \in 1 .. RingSize - 1
      /\ (head - t) % RingSize = n - 1
      /\ \A i \in 1 .. n - 1 : (t + i - 1) % RingSize = (tail + (i + 1) - 1) % RingSize
      /\ \A i \in 1 .. n : (tail + i - 1) % RingSize \in 0 .. RingSize - 1
      /\ (tail + 1 - 1) % RingSize = tail
  <2>1. RingSize \in Nat \ {0} /\ head \in 0 .. RingSize - 1 /\ tail \in 0 .. RingSize - 1
    BY <1>1, Sizes DEF Positions
  <2> QED
    <3>1. TailMoves(RingSize, head, tail, t, n)
      BY <1>2, <1>3, <2>1 DEF TailMoves
    <3> QED
      BY <3>1, RingTake
<1>5. tail' = t /\ t \in Positions
  BY <1>3, <1>4 DEF After, Positions
<1>6. rb[tail] \in Glyphs /\ drained' \in Seq(Glyphs)
  BY <1>1, AppendElements
<1>7. /\ Waiting \in Seq(Glyphs) /\ Len(Waiting) = n
      /\ Waiting = [i \in 1 .. n |-> rb[(tail + i - 1) % RingSize]]
  BY <1>1, <1>2, WaitingFacts DEF Waiting
<1>8. Waiting' = [i \in 1 .. n - 1 |-> rb[(t + i - 1) % RingSize]]
  BY <1>4, <1>5 DEF Waiting
<1>9. Waiting # <<>> /\ Waiting[1] = rb[tail]
  <2>1. 1 \in 1 .. n /\ n # 0
    BY <1>4, Sizes
  <2>2. Waiting[1] = rb[(tail + 1 - 1) % RingSize]
    BY <1>7, <2>1
  <2> QED
    BY <1>4, <1>7, <2>1, <2>2
<1>10. /\ Tail(Waiting) \in Seq(Glyphs) /\ Len(Tail(Waiting)) = n - 1
       /\ \A i \in 1 .. n - 1 : Tail(Waiting)[i] = Waiting[i + 1]
  <2>1. /\ Tail(Waiting) \in Seq(Glyphs)
        /\ Len(Waiting) \in Nat \ {0} /\ Len(Tail(Waiting)) = Len(Waiting) - 1
        /\ \A i \in 1 .. Len(Waiting) - 1 : Tail(Waiting)[i] = Waiting[i + 1]
    BY <1>7, <1>9, TailElements, Zenon
  <2> QED
    BY <1>7, <2>1
<1>11. ASSUME NEW i \in 1 .. n - 1 PROVE Waiting'[i] = Tail(Waiting)[i]
  <2>1. i + 1 \in 1 .. n
    BY <1>4, Sizes
  <2>2. Waiting[i + 1] = rb[(tail + (i + 1) - 1) % RingSize]
    BY <1>7, <2>1
  <2> QED
    BY <1>4, <1>8, <1>10, <2>2
<1>12. Waiting' \in Seq(Glyphs) /\ Len(Waiting') = n - 1
  <2>1. n - 1 \in Nat
    BY <1>4, Sizes
  <2>2. \A i \in 1 .. n - 1 : Tail(Waiting)[i] \in Glyphs
    BY <1>10
  <2>3. \A i \in 1 .. n - 1 : rb[(t + i - 1) % RingSize] \in Glyphs
    BY <1>8, <1>11, <2>2
  <2> QED
    BY <1>8, <2>1, <2>3
<1>13. Waiting' = Tail(Waiting)
  BY <1>10, <1>11, <1>12, SeqSame
<1>14. drained \o Waiting = Append(drained, Waiting[1]) \o Tail(Waiting)
  BY <1>1, <1>7, <1>9, ConcatMove
<1>15. TextKept'
  BY <1>1, <1>9, <1>13, <1>14 DEF TextKept
<1> QED
  BY <1>5, <1>6, <1>15

\* A step that leaves the ring and the grid alone keeps the text.
LEMMA TextStays ==
    ASSUME TextInv, UNCHANGED <<ringVars, rows, row, col, label_made>>, ~gfx_active' => ~gfx_active
    PROVE  TextInv'
BY DEF TextInv, TextKept, Waiting, Grid, Paper, ringVars

\* A grid that is set shows the paper if the new one does.
LEMMA GridSet ==
    ASSUME NEW g, NEW p, Shows(g, p), SetGrid(g)
    PROVE  Grid' = g
<1>1. g \in [rows : [1 .. Rows -> Line], row : 1 .. Rows, col : 0 .. Cols]
  BY DEF Shows, ShowsAt
<1>2. g = [rows |-> g.rows, row |-> g.row, col |-> g.col]
  BY <1>1
<1> QED
  BY <1>2 DEF Grid, SetGrid

\* The text part holds in the beginning.
LEMMA TextInit ==
    ASSUME ScreensInit
    PROVE  TextInv
<1>1. /\ rb = [i \in 0 .. RingSize - 1 |-> "\n"] /\ head = 0 /\ tail = 0
      /\ accepted = <<>> /\ drained = <<>> /\ ~label_made /\ ~gfx_active
  BY DEF ScreensInit, Init
<1>2. rb \in [Positions -> Glyphs] /\ head \in Positions /\ tail \in Positions
  BY <1>1, Sizes DEF Positions, Glyphs
<1>3. Waiting = <<>>
  BY <1>1, <1>2, WaitingFacts
<1>4. accepted \in Seq(Glyphs) /\ drained \in Seq(Glyphs) /\ accepted = drained \o Waiting
  BY <1>1, <1>3
<1> QED
  BY <1>1, <1>2, <1>4 DEF TextInv, TextKept

\* Every step keeps the text part.
LEMMA TextStep ==
    ASSUME ControlInv, TextInv, [ScreensNext]_screenVars
    PROVE  TextInv'
<1> USE DEF ringVars
<1>1. ASSUME NEW c \in Chars, hal_uart_output_hook(c) PROVE TextInv'
  <2>1. rb_put(c) /\ gfx_active /\ UNCHANGED <<tail, drained, rows, row, col, label_made, gfx_active>>
    BY <1>1 DEF hal_uart_output_hook, gridVars, lvglVars, appVars
  <2>2. TextKept' /\ rb' \in [Positions -> Glyphs] /\ head' \in Positions /\ accepted' \in Seq(Glyphs)
    <3>1. c \in Glyphs
      BY DEF Glyphs
    <3> QED
      BY <2>1, <3>1, PutKept
  <2>3. label_made' => Shows(Grid', Paper')
    BY <2>1 DEF TextInv, Grid, Paper
  <2> QED
    BY <2>1, <2>2, <2>3 DEF TextInv
<1>2. CASE gfxshell_drain_rb
  <2>1. /\ head # tail /\ SetGrid(gfx_console_putc(Grid, rb[tail]))
        /\ tail' = After(tail) /\ drained' = Append(drained, rb[tail])
        /\ UNCHANGED <<rb, head, accepted, label_made, gfx_active>>
    BY <1>2 DEF gfxshell_drain_rb, lvglVars, appVars
  <2>2. /\ TextKept' /\ rb[tail] \in Glyphs
        /\ tail' \in Positions /\ drained' \in Seq(Glyphs)
    BY <2>1, TakeKept
  <2>3. ASSUME label_made PROVE Shows(Grid', Paper')
    <3>1. Shows(gfx_console_putc(Grid, rb[tail]), Type(Paper, rb[tail]))
      BY <2>2, <2>3, PutcShown DEF TextInv
    <3>2. Paper' = Type(Paper, rb[tail])
      <4>1. drained \in Seq(Glyphs)
        BY DEF TextInv
      <4> QED
        BY <2>1, <2>2, <4>1, PaperAppend DEF Paper
    <3>3. Grid' = gfx_console_putc(Grid, rb[tail])
      BY <2>1, <3>1, GridSet
    <3> QED
      BY <3>1, <3>2, <3>3
  <2>4. gfx_active
    BY <1>2 DEF gfxshell_drain_rb, ControlInv, ShellInv
  <2> QED
    BY <2>1, <2>2, <2>3, <2>4 DEF TextInv
<1>3. CASE lvgl_port_init
  <2>1. ~gfx_active /\ UNCHANGED <<rb, head, tail, gfx_active>>
    BY <1>3 DEF lvgl_port_init, ControlInv, ShellInv, appVars
  <2>2. PICK made \in BOOLEAN :
          LET g == FoldLeft(gfx_console_putc, BlankGrid, Test)
          IN  /\ label_made' = made
              /\ made => SetGrid(g) /\ drained' = Test /\ accepted' = Test
              /\ ~made => UNCHANGED <<rows, row, col, drained, accepted>>
    BY <1>3 DEF lvgl_port_init
  <2>3. head = tail /\ Waiting = <<>> /\ Waiting' = <<>>
    <3>1. Waiting = <<>> /\ head = tail
      BY <2>1, WaitingFacts DEF TextInv
    <3> QED
      BY <2>1, <3>1 DEF Waiting
  <2>4. CASE made
    <3>1. Test \in Seq(Glyphs)
      <4>1. Test \in Seq(ToSet(Test))
        BY GfxConsoleAssumption
      <4>2. ToSet(Test) \subseteq Glyphs
        BY DEF Glyphs
      <4> QED
        BY <4>1, <4>2
    <3>2. TextKept'
      BY <2>2, <2>3, <2>4, <3>1 DEF TextKept
    <3>3. Shows(Grid', Paper')
      BY <2>2, <2>4, TestShown, GridSet DEF Paper
    <3> QED
      BY <2>1, <2>2, <2>3, <2>4, <3>1, <3>2, <3>3 DEF TextInv
  <2>5. CASE ~made
    <3>1. TextKept'
      BY <2>2, <2>3, <2>5 DEF TextKept, TextInv
    <3> QED
      BY <2>1, <2>2, <2>5, <3>1 DEF TextInv
  <2> QED
    BY <2>2, <2>4, <2>5
<1>4. CASE Finish
  <2>1. UNCHANGED <<ringVars, rows, row, col, label_made>> /\ (~gfx_active' => ~gfx_active)
    BY <1>4 DEF Finish, gridVars, lvglVars, ControlInv, ShellInv
  <2> QED
    BY <2>1, TextStays
<1>5. CASE UNCHANGED <<ringVars, rows, row, col, label_made, gfx_active>>
  BY <1>5, TextStays
<1>6. CASE ScreensNext
  <2> USE DEF gridVars, lvglVars, appVars
  <2>1. CASE app = "graphical-shell" /\ (Renderer \/ Commanding)
    <3>1. CASE Wake \/ lvgl_port_handler \/ lv_flush_cb
      BY <1>5, <3>1 DEF Wake, lvgl_port_handler, lv_flush_cb
    <3>2. CASE FirstHouse \/ draw_house_picture \/ FirstLabel
      BY <1>5, <3>2 DEF FirstHouse, draw_house_picture, FirstLabel
    <3> QED
      BY <1>2, <1>3, <1>4, <2>1, <3>1, <3>2 DEF Renderer, Commanding
  <2>2. CASE Panel
    BY <1>5, <2>2 DEF Panel, Hardware
  <2>3. CASE app = "graphical-shell" /\ (cli_gfxshell \/ cli_picture \/ \E c \in Chars : hal_uart_output_hook(c))
    BY <1>1, <1>5, <2>3 DEF cli_gfxshell, cli_picture
  <2> QED
    BY <1>5, <1>6, <2>1, <2>2, <2>3 DEF ScreensNext, Runs, Used
<1>7. CASE UNCHANGED screenVars
  BY <1>5, <1>7 DEF screenVars, vars, gridVars, lvglVars, appVars
<1> QED
  BY <1>6, <1>7

\* With it the text is right.
LEMMA TextImplied ==
    ASSUME TextInv
    PROVE  TextRight
<1>1. TextKept
  BY DEF TextInv
<1>2. ASSUME label_made PROVE GridRight
  <2> DEFINE lines == Paper.lines
             L == Len(lines)
             end == SubSeq(lines, Max({1, L - Rows + 1}), L)
  <2>1. Shows(Grid, Paper)
    BY <1>2 DEF TextInv
  <2>2. /\ rows \in [1 .. Rows -> Line] /\ row \in 1 .. Rows /\ col \in 0 .. Cols
        /\ lines \in Seq(Line) /\ L \in Nat \ {0} /\ col = Paper.col /\ row = L - Off(Paper)
        /\ \A r \in 1 .. Rows : rows[r] = IF r <= row THEN lines[Off(Paper) + r] ELSE Blank
    BY <2>1 DEF Shows, ShowsAt, Grid
  <2>3. Off(Paper) = IF L > Rows THEN L - Rows ELSE 0
    BY DEF Off
  <2>4. PICK o : o = Off(Paper)
    OBVIOUS
  <2>5. Max({1, L - Rows + 1}) = o + 1
    <3> HIDE DEF L
    <3>1. CASE L > Rows
      <4>1. L - Rows + 1 \in Int /\ L - Rows + 1 >= 1 /\ L - Rows + 1 = o + 1
        BY <2>2, <2>3, <2>4, <3>1, Sizes
      <4> QED
        BY <4>1 DEF Max
    <3>2. CASE ~ L > Rows
      <4>1. L - Rows + 1 \in Int /\ 1 >= L - Rows + 1 /\ o = 0
        BY <2>2, <2>3, <2>4, <3>2, Sizes
      <4> QED
        BY <4>1 DEF Max
    <3> QED
      BY <3>1, <3>2
  <2>6. o \in Nat /\ o + row = L /\ row \in Nat
    <3> HIDE DEF L
    <3> QED
      BY <2>2, <2>3, <2>4, Sizes
  <2> HIDE DEF lines, L
  <2>7. end = SubSeq(lines, o + 1, L)
    BY <2>5
  <2> HIDE DEF end
  <2>8. end = [i \in 1 .. row |-> lines[o + i]] /\ Len(end) = row
    <3>1. L - (o + 1) + 1 = row
      BY <2>2, <2>6
    <3>2. end = [i \in 1 .. L - (o + 1) + 1 |-> lines[i + (o + 1) - 1]]
      BY <2>2, <2>6, <2>7 DEF L
    <3>3. \A i \in 1 .. row : i + (o + 1) - 1 = o + i
      BY <2>6
    <3>4. end = [i \in 1 .. row |-> lines[o + i]]
      BY <3>1, <3>2, <3>3
    <3> QED
      BY <2>6, <3>4
  <2>9. ASSUME NEW r \in 1 .. Rows
        PROVE  rows[r] = IF r \in DOMAIN end THEN end[r] ELSE Blank
    <3>1. r \in DOMAIN end <=> r <= row
      BY <2>6, <2>8
    <3> QED
      BY <2>2, <2>4, <2>8, <3>1
  <2>10. row = Len(end) /\ col = Paper.col
    BY <2>2, <2>8
  <2> QED
    BY <2>9, <2>10 DEF GridRight, end, L, lines
<1>3. GridRight
  BY <1>2 DEF GridRight
<1> QED
  BY <1>1, <1>3 DEF TextRight

\* The next action of six.
LEMMA NextOfSix ==
    ASSUME NEW n \in Nat
    PROVE  n % 6 \in 0 .. 5 /\ (n + 1) % 6 = ((n % 6) + 1) % 6
OBVIOUS

\* The images leave room for every offset of the cycle.
LEMMA RoomToMove ==
    ASSUME NEW i \in Images, NEW off \in {-Stride, 0, Stride}
    PROVE  /\ Clamped(off, DisplayWidth - Width[i]) = off
           /\ Clamped(off, DisplayHeight - Height[i]) = off
           /\ (DisplayWidth - Width[i]) \div 2 + off >= 0
           /\ (DisplayWidth - Width[i]) \div 2 + off + Width[i] <= DisplayWidth
           /\ (DisplayHeight - Height[i]) \div 2 + off >= 0
           /\ (DisplayHeight - Height[i]) \div 2 + off + Height[i] <= DisplayHeight
<1>1. /\ Width[i] \in Nat /\ Width[i] + 40 <= DisplayWidth /\ DisplayWidth \in Nat
      /\ Height[i] \in Nat /\ Height[i] + 40 <= DisplayHeight /\ DisplayHeight \in Nat
  BY PicoraAssumption DEF Stride
<1>2. off \in {-20, 0, 20}
  BY DEF Stride
<1>3. ASSUME NEW w \in Nat, NEW d \in Nat, w + 40 <= d
      PROVE  /\ Clamped(off, d - w) = off
             /\ (d - w) \div 2 + off >= 0 /\ (d - w) \div 2 + off + w <= d
  <2>1. PICK r : r = d - w
    OBVIOUS
  <2>2. PICK h : h = r \div 2
    OBVIOUS
  <2>3. r \in Nat /\ r >= 40 /\ h \in Nat /\ h >= 20 /\ h <= r - 20
    BY <1>3, <2>1, <2>2
  <2>4. Clamped(off, r) = off
    BY <1>2, <2>2, <2>3 DEF Clamped
  <2> QED
    BY <1>2, <1>3, <2>1, <2>2, <2>3, <2>4
<1> QED
  BY <1>1, <1>3

\* Each action makes of its picture the next one of the cycle.
LEMMA Cycle ==
    ASSUME action \in 0 .. 5, shown = Frames[action + 1], execute_system_action
    PROVE  action' \in 0 .. 5 /\ action' = (action + 1) % 6 /\ shown' = Frames[action' + 1]
<1>1. /\ Frames[1] = <<"src", 0, 0, BgBase>>
      /\ Frames[2] = <<"parent", 0, -Stride, BgBase>>
      /\ Frames[3] = <<"src", 0, 0, BgBase>>
      /\ Frames[4] = <<"brown", -Stride, 0, BgBase>>
      /\ Frames[5] = <<"brown", 0, 0, BgBase>>
      /\ Frames[6] = <<"brown", 0, 0, Complement(BgBase)>>
  BY DEF Frames
<1>2. /\ Actions[1] = "MOVE_UP" /\ Actions[2] = "MOVE_DOWN" /\ Actions[3] = "MOVE_LEFT"
      /\ Actions[4] = "MOVE_RIGHT" /\ Actions[5] = "CLEAR" /\ Actions[6] = "RESTORE" /\ Len(Actions) = 6
  BY DEF Actions
<1>3. action' = (action + 1) % 6 /\ action' \in 0 .. 5
  BY <1>2 DEF execute_system_action
<1>4. {0, -Stride, Stride} \subseteq Int /\ 0 - Stride = -Stride /\ 0 + Stride = Stride
      /\ -Stride + Stride = 0
  BY DEF Stride
<1>5. ASSUME NEW i \in Images, NEW x \in {-Stride, 0, Stride}, NEW y \in {-Stride, 0, Stride}, ShowAt(i, x, y)
      PROVE  cur_img' = i /\ off_x' = x /\ off_y' = y
  BY <1>5, RoomToMove DEF ShowAt, clamp_offsets
<1>6. "src" \in Images /\ "parent" \in Images /\ "brown" \in Images
  BY DEF Images
<1>7. shown = <<cur_img, off_x, off_y, bg>> /\ shown' = <<cur_img', off_x', off_y', bg'>>
  BY DEF shown
<1>8. CASE action = 0
  <2>1. ShowAt("parent", off_x, off_y - Stride) /\ bg' = bg
    <3>1. Actions[action + 1] = "MOVE_UP"
      BY <1>2, <1>8
    <3> QED
      BY <3>1 DEF execute_system_action
  <2>2. off_x = 0 /\ off_y = 0 /\ bg = BgBase
    <3>1. shown = Frames[1]
      BY <1>8
    <3> QED
      BY <1>1, <1>7, <3>1
  <2>3. cur_img' = "parent" /\ off_x' = 0 /\ off_y' = -Stride
    BY <1>4, <1>5, <1>6, <2>1, <2>2
  <2> QED
    BY <1>1, <1>3, <1>7, <1>8, <2>1, <2>2, <2>3
<1>9. CASE action = 1
  <2>1. ShowAt("src", off_x, off_y + Stride) /\ bg' = bg
    <3>1. Actions[action + 1] = "MOVE_DOWN"
      BY <1>2, <1>9
    <3> QED
      BY <3>1 DEF execute_system_action
  <2>2. off_x = 0 /\ off_y = -Stride /\ bg = BgBase
    <3>1. shown = Frames[2]
      BY <1>9
    <3> QED
      BY <1>1, <1>7, <3>1
  <2>3. cur_img' = "src" /\ off_x' = 0 /\ off_y' = 0
    BY <1>4, <1>5, <1>6, <2>1, <2>2
  <2> QED
    BY <1>1, <1>3, <1>7, <1>9, <2>1, <2>2, <2>3
<1>10. CASE action = 2
  <2>1. ShowAt("brown", off_x - Stride, off_y) /\ bg' = bg
    <3>1. Actions[action + 1] = "MOVE_LEFT"
      BY <1>2, <1>10
    <3> QED
      BY <3>1 DEF execute_system_action
  <2>2. off_x = 0 /\ off_y = 0 /\ bg = BgBase
    <3>1. shown = Frames[3]
      BY <1>10
    <3> QED
      BY <1>1, <1>7, <3>1
  <2>3. cur_img' = "brown" /\ off_x' = -Stride /\ off_y' = 0
    BY <1>4, <1>5, <1>6, <2>1, <2>2
  <2> QED
    BY <1>1, <1>3, <1>7, <1>10, <2>1, <2>2, <2>3
<1>11. CASE action = 3
  <2>1. ShowAt("brown", off_x + Stride, off_y) /\ bg' = bg
    <3>1. Actions[action + 1] = "MOVE_RIGHT"
      BY <1>2, <1>11
    <3> QED
      BY <3>1 DEF execute_system_action
  <2>2. off_x = -Stride /\ off_y = 0 /\ bg = BgBase
    <3>1. shown = Frames[4]
      BY <1>11
    <3> QED
      BY <1>1, <1>7, <3>1
  <2>3. cur_img' = "brown" /\ off_x' = 0 /\ off_y' = 0
    BY <1>4, <1>5, <1>6, <2>1, <2>2
  <2> QED
    BY <1>1, <1>3, <1>7, <1>11, <2>1, <2>2, <2>3
<1>12. CASE action = 4
  <2>1. ShowAt(cur_img, off_x, off_y) /\ bg' = Complement(bg)
    <3>1. Actions[action + 1] = "CLEAR"
      BY <1>2, <1>12
    <3> QED
      BY <3>1 DEF execute_system_action
  <2>2. cur_img = "brown" /\ off_x = 0 /\ off_y = 0 /\ bg = BgBase
    <3>1. shown = Frames[5]
      BY <1>12
    <3> QED
      BY <1>1, <1>7, <3>1
  <2>3. cur_img' = "brown" /\ off_x' = 0 /\ off_y' = 0
    BY <1>4, <1>5, <1>6, <2>1, <2>2
  <2> QED
    BY <1>1, <1>3, <1>7, <1>12, <2>1, <2>2, <2>3
<1>13. CASE action = 5
  <2>1. ShowAt("src", 0, 0) /\ bg' = BgBase
    <3>1. Actions[action + 1] = "RESTORE"
      BY <1>2, <1>13
    <3> QED
      BY <3>1 DEF execute_system_action
  <2>2. cur_img' = "src" /\ off_x' = 0 /\ off_y' = 0
    BY <1>4, <1>5, <1>6, <2>1
  <2> QED
    BY <1>1, <1>3, <1>7, <1>13, <2>1, <2>2
<1> QED
  BY <1>8, <1>9, <1>10, <1>11, <1>12, <1>13

\* The picture part holds in the beginning.
LEMMA PictureInit ==
    ASSUME ScreensInit
    PROVE  PictureInv
<1>1. /\ cur_img = "src" /\ off_x = 0 /\ off_y = 0 /\ bg = BgBase /\ action = 0
      /\ place = "none" /\ button = FALSE /\ was_pressed = FALSE
      /\ presses = 0 /\ acted = 0
  BY DEF ScreensInit, PicoraInit
<1>2. 0 % 6 = 0 /\ Frames[1] = shown
  BY <1>1 DEF Frames, shown
<1>3. Pending = 0 /\ action = acted % 6 /\ shown = Frames[action + 1]
  BY <1>1, <1>2 DEF Pending
<1>4. button \in BOOLEAN /\ was_pressed \in BOOLEAN
  BY <1>1
<1>5. presses \in Nat /\ acted \in Nat /\ acted + Pending <= presses
  BY <1>1, <1>3
<1>6. place \notin {"poll", "refused"} /\ acted = 0
  BY <1>1
<1> QED
  BY <1>3, <1>4, <1>5, <1>6 DEF PictureInv

\* Every step keeps the picture part.
LEMMA PictureStep ==
    ASSUME ControlInv, PictureInv, [ScreensNext]_screenVars
    PROVE  PictureInv'
<1>1. CASE UNCHANGED picoraVars /\ (place \in {"poll", "refused"} => buf[1]' = buf[1])
  <2>1. UNCHANGED <<shown, action, place, button, was_pressed, presses, acted>>
    BY <1>1 DEF picoraVars, shown
  <2> QED
    BY <1>1, <2>1 DEF PictureInv, Pending
<1>2. ASSUME app # "draw-picora", UNCHANGED picoraVars PROVE PictureInv'
  BY <1>1, <1>2 DEF ControlInv, PicoraInv
<1>3. CASE Panel
  <2>1. ASSUME app = "draw-picora", place \in {"poll", "refused"} PROVE buf' = buf
    <3>1. step = "none"
      BY <2>1 DEF ControlInv, PicoraInv
    <3>2. CASE BringUp
      BY <3>1, <3>2 DEF BringUp, hal_sdram_init, hal_display_init, disp_clock_init, panel_reset,
            dsi_host_init, Prime, StartVideo, otm8009a_init, hal_display_backlight_on
    <3>3. CASE VBlank
      BY <3>3 DEF VBlank
    <3> QED
      BY <1>3, <3>2, <3>3 DEF Panel, Hardware
  <2>2. UNCHANGED picoraVars
    BY <1>3 DEF Panel
  <2> QED
    BY <1>1, <1>2, <2>1, <2>2
<1>4. ASSUME app = "draw-picora", ensure_display_started PROVE PictureInv'
  <2>1. /\ place = "starting" /\ place' \in {"starting", "first"}
        /\ UNCHANGED <<shown, action, button, was_pressed, presses, acted>>
    BY <1>4 DEF ensure_display_started
  <2> QED
    BY <2>1 DEF PictureInv, Pending
<1>5. ASSUME app = "draw-picora", redraw PROVE PictureInv'
  <2>1. /\ place \in {"first", "redraw"} /\ place' \in {"poll", "refused"}
        /\ UNCHANGED <<shown, action, button, was_pressed, presses, acted>>
        /\ buf' = [buf EXCEPT ![1] = [kind |-> "picora", text |-> shown]]
    BY <1>5 DEF redraw, saramos_task_add
  <2>2. buf = [b \in Buffers |-> buf[b]] /\ 1 \in Buffers
    BY DEF ControlInv, DisplayOK, Buffers
  <2>3. buf'[1] = [kind |-> "picora", text |-> shown]
    BY <2>1, <2>2
  <2>4. buf'[1].text = shown
    BY <2>3
  <2> QED
    BY <2>1, <2>4 DEF PictureInv, Pending
<1>6. ASSUME app = "draw-picora", button_task_entry PROVE PictureInv'
  <2>1. /\ place = "poll" /\ button # was_pressed /\ was_pressed' = button
        /\ UNCHANGED <<buf, button, presses>>
    BY <1>6 DEF button_task_entry
  <2>2. CASE button
    <3>1. execute_system_action /\ place' = "redraw" /\ acted' = acted + 1
      BY <1>6, <2>2 DEF button_task_entry, execute_system_action
    <3>2. /\ acted \in Nat /\ presses \in Nat /\ acted + 1 <= presses /\ ~was_pressed
          /\ action = acted % 6 /\ shown = Frames[action + 1]
      BY <2>1, <2>2 DEF PictureInv, Pending
    <3>3. action \in 0 .. 5 /\ (acted + 1) % 6 = (action + 1) % 6
      BY <3>2, NextOfSix
    <3>4. action' = acted' % 6 /\ shown' = Frames[action' + 1]
      BY <3>1, <3>2, <3>3, Cycle
    <3>5. Pending' = 0 /\ acted' \in Nat /\ acted' + 0 <= presses'
      BY <2>1, <2>2, <3>1, <3>2 DEF Pending
    <3>6. button' \in BOOLEAN /\ was_pressed' \in BOOLEAN /\ presses' \in Nat
      BY <2>1 DEF PictureInv
    <3> QED
      BY <3>1, <3>4, <3>5, <3>6 DEF PictureInv
  <2>3. CASE ~button
    <3>1. UNCHANGED <<shown, action, acted, place>>
      BY <1>6, <2>3 DEF button_task_entry
    <3>2. Pending' = 0 /\ Pending \in Nat
      BY <2>1, <2>3 DEF Pending
    <3>3. button' \in BOOLEAN /\ was_pressed' \in BOOLEAN
      BY <2>1 DEF PictureInv
    <3> QED
      BY <2>1, <3>1, <3>2, <3>3 DEF PictureInv
  <2> QED
    BY <2>2, <2>3
<1>7. ASSUME app = "draw-picora", cli_picora PROVE PictureInv'
  <2>1. /\ place = "none" /\ place' = "starting" /\ UNCHANGED <<button, was_pressed, presses, acted>>
        /\ cur_img' = "src" /\ off_x' = 0 /\ off_y' = 0 /\ bg' = BgBase /\ action' = 0
    BY <1>7 DEF cli_picora
  <2>2. acted = 0 /\ 0 % 6 = 0
    BY <2>1 DEF PictureInv
  <2>3. shown' = Frames[1]
    BY <2>1 DEF shown, Frames
  <2> QED
    BY <2>1, <2>2, <2>3 DEF PictureInv, Pending
<1>8. ASSUME app = "draw-picora", Button PROVE PictureInv'
  <2>1. /\ button' = ~button /\ presses' = IF button THEN presses ELSE presses + 1
        /\ UNCHANGED <<buf, shown, action, place, was_pressed, acted>>
    BY <1>8 DEF Button, displayVars
  <2>2. /\ button \in BOOLEAN /\ was_pressed \in BOOLEAN
        /\ presses \in Nat /\ acted \in Nat /\ acted + Pending <= presses
    BY DEF PictureInv
  <2>3. button' \in BOOLEAN /\ was_pressed' \in BOOLEAN /\ presses' \in Nat
    BY <2>1, <2>2
  <2>4. acted' + Pending' <= presses'
    <3>1. CASE button
      BY <2>1, <2>2, <3>1 DEF Pending
    <3>2. CASE ~button
      BY <2>1, <2>2, <3>2 DEF Pending
    <3> QED
      BY <3>1, <3>2
  <2> QED
    BY <2>1, <2>3, <2>4 DEF PictureInv
<1>9. CASE ScreensNext
  <2>1. CASE app = "draw-picora" /\ (PicoraStep \/ cli_picora \/ Button)
    BY <1>4, <1>5, <1>6, <1>7, <1>8, <2>1 DEF PicoraStep
  <2>2. CASE app # "draw-picora" /\ UNCHANGED picoraVars
    BY <1>2, <2>2
  <2> QED
    BY <1>3, <1>9, <2>1, <2>2 DEF ScreensNext, Runs, Used
<1>10. CASE UNCHANGED screenVars
  BY <1>1, <1>10 DEF screenVars, vars, displayVars
<1> QED
  BY <1>9, <1>10

\* With it the picture is right.
LEMMA PictureImplied ==
    ASSUME PictureInv
    PROVE  PictureRight
<1>1. /\ presses \in Nat /\ acted \in Nat /\ acted + Pending <= presses
      /\ action = acted % 6 /\ shown = Frames[action + 1] /\ action \in 0 .. 5
      /\ place \in {"poll", "refused"} => buf[1].text = Frames[(acted % 6) + 1]
  BY NextOfSix DEF PictureInv
<1>2. acted <= presses
  BY <1>1 DEF Pending
<1>3. cur_img \in Images /\ off_x \in {-Stride, 0, Stride} /\ off_y \in {-Stride, 0, Stride}
  <2>1. \A k \in 1 .. 6 : /\ Frames[k][1] \in Images /\ Frames[k][2] \in {-Stride, 0, Stride}
                          /\ Frames[k][3] \in {-Stride, 0, Stride}
    BY DEF Frames, Images
  <2>2. action + 1 \in 1 .. 6
    BY <1>1
  <2>3. cur_img = Frames[action + 1][1] /\ off_x = Frames[action + 1][2] /\ off_y = Frames[action + 1][3]
    BY <1>1 DEF shown
  <2> QED
    BY <2>1, <2>2, <2>3
<1> QED
  BY <1>1, <1>2, <1>3, RoomToMove DEF PictureRight, Frames

(***************************************************************************)
(* The fills of the colour tests.                                          *)
(***************************************************************************)

\* No fill comes on one that is not a clear of the screen.
Clearing(e) == \A d \in 0 .. Len(e) - 1 : e[d + 1] = Clear \/ (d > 0 /\ e[d] = Clear)

\* A sequence in which every second fill clears, one longer by such a pair.
LEMMA ClearingConcat ==
    ASSUME NEW X, NEW a \in Seq(X), NEW b \in Seq(X), Clearing(a), b[1] = Clear, Len(b) \in 1 .. 2
    PROVE  Clearing(a \o b)
<1>1. PICK r : r = a \o b
  OBVIOUS
<1>2. /\ Len(a) \in Nat /\ Len(r) = Len(a) + Len(b)
      /\ \A i \in 1 .. Len(a) : r[i] = a[i]
      /\ \A i \in 1 .. Len(b) : r[Len(a) + i] = b[i]
  BY <1>1, ConcatElements
<1>3. ASSUME NEW d \in 0 .. Len(r) - 1 PROVE r[d + 1] = Clear \/ (d > 0 /\ r[d] = Clear)
  <2>1. CASE d < Len(a)
    <3>1. d \in 0 .. Len(a) - 1 /\ d + 1 \in 1 .. Len(a) /\ (d > 0 => d \in 1 .. Len(a))
      BY <1>2, <2>1
    <3> QED
      BY <1>2, <3>1 DEF Clearing
  <2>2. CASE d = Len(a)
    <3>1. 1 \in 1 .. Len(b)
      OBVIOUS
    <3>2. r[Len(a) + 1] = b[1]
      BY <1>2, <3>1
    <3> QED
      BY <2>2, <3>2
  <2>3. CASE d > Len(a)
    <3>1. d = Len(a) + 1 /\ 1 \in 1 .. Len(b)
      <4>1. PICK n, m : n = Len(a) /\ m = Len(b)
        OBVIOUS
      <4>2. n \in Nat /\ m \in 1 .. 2 /\ d \in 0 .. n + m - 1 /\ d > n
        BY <1>2, <2>3, <4>1
      <4>3. d = n + 1 /\ 1 \in 1 .. m
        BY <4>2
      <4> QED
        BY <4>1, <4>3
    <3>2. r[Len(a) + 1] = b[1] /\ d > 0
      BY <1>2, <3>1
    <3> QED
      BY <3>1, <3>2
  <2> QED
    BY <1>2, <2>1, <2>2, <2>3
<1> QED
  BY <1>1, <1>3 DEF Clearing

\* Each(): every second fill clears, and the last one does.
LEMMA EachFacts ==
    ASSUME NEW X, Clear \in X, NEW shows \in Seq(X)
    PROVE  /\ Each(shows) \in Seq(X) /\ Clearing(Each(shows))
           /\ Len(Each(shows)) > 0 /\ Each(shows)[Len(Each(shows))] = Clear
<1> DEFINE s == [i \in DOMAIN shows |-> <<Clear, shows[i]>>]
           C == <<Clear>>
<1>1. PICK N : N = Len(shows)
  OBVIOUS
<1>2. N \in Nat /\ DOMAIN shows = 1 .. N /\ \A i \in 1 .. N : shows[i] \in X
  BY <1>1
<1>3. \A i \in 1 .. N : <<Clear, shows[i]>> \in Seq(X)
  BY <1>2
<1>4. s \in Seq(Seq(X)) /\ Len(s) = N /\ \A i \in 1 .. N : s[i] = <<Clear, shows[i]>>
  <2>1. s = [i \in 1 .. N |-> <<Clear, shows[i]>>]
    BY <1>2
  <2> QED
    BY <1>2, <1>3, <2>1
<1>5. C \in Seq(X) /\ Len(C) = 1 /\ C[1] = Clear
  OBVIOUS
<1>6. Each(shows) = FlattenSeq(s) \o C
  BY DEF Each
<1> HIDE DEF s, C
<1>7. FlattenSeq(s) \in Seq(X)
  BY <1>4, FlattenedType
<1>8. Clearing(FlattenSeq(s))
  <2>1. CASE N = 0
    <3>1. FlattenSeq(s) = s /\ Len(s) = 0
      BY <1>4, <2>1 DEF FlattenSeq
    <3> QED
      BY <3>1 DEF Clearing
  <2>2. CASE N # 0
    <3>1. PICK f : FlatIter(f, s, N) /\ FlattenSeq(s) = f[N]
      <4>1. s # <<>>
        BY <1>4, <2>2
      <4> QED
        BY <1>4, <4>1, Flattened
    <3> DEFINE S == {n \in Nat : n = 0 \/ (f[n] \in Seq(X) /\ Clearing(f[n]))}
    <3>2. ASSUME NEW n \in 0 .. N - 1, n \in S PROVE n + 1 \in S
      <4>1. n + 1 \in 1 .. N /\ n + 1 \in Nat
        BY <1>2
      <4>2. f[1] = s[1] /\ \A i \in 1 .. N - 1 : f[i + 1] = f[i] \o s[i + 1]
        <5>1. N \in Nat \ {0}
          BY <1>2, <2>2
        <5> QED
          BY <3>1, <5>1, FlatValues
      <4>3. PICK b : b = s[n + 1]
        OBVIOUS
      <4>4. b \in Seq(X) /\ Len(b) = 2 /\ b[1] = Clear
        <5>1. b = <<Clear, shows[n + 1]>> /\ b \in Seq(X)
          BY <1>3, <1>4, <4>1, <4>3
        <5> QED
          BY <5>1
      <4>5. CASE n = 0
        <5>1. f[n + 1] = b
          BY <4>2, <4>3, <4>5
        <5>2. Clearing(b)
          BY <4>4 DEF Clearing
        <5> QED
          BY <4>1, <4>4, <5>1, <5>2
      <4>6. CASE n # 0
        <5>1. f[n] \in Seq(X) /\ Clearing(f[n])
          BY <3>2, <4>6
        <5>2. f[n + 1] = f[n] \o b
          <6>1. n \in 1 .. N - 1
            BY <1>2, <4>6
          <6> QED
            BY <4>2, <4>3, <6>1
        <5>3. f[n] \o b \in Seq(X)
          BY <4>4, <5>1
        <5>4. Clearing(f[n] \o b)
          BY <4>4, <5>1, ClearingConcat
        <5> QED
          BY <4>1, <5>2, <5>3, <5>4
      <4> QED
        BY <4>5, <4>6
    <3>3. \A n \in 0 .. N : n \in S
      <4>1. 0 \in S
        OBVIOUS
      <4> HIDE DEF S
      <4> QED
        BY <1>2, <3>2, <4>1, UpTo
    <3> QED
      BY <1>2, <2>2, <3>1, <3>3
  <2> QED
    BY <2>1, <2>2
<1>9. PICK a : a = FlattenSeq(s)
  OBVIOUS
<1>10. a \in Seq(X) /\ Clearing(a) /\ Each(shows) = a \o C
  BY <1>6, <1>7, <1>8, <1>9
<1>11. Clearing(a \o C)
  BY <1>5, <1>10, ClearingConcat
<1>12. /\ a \o C \in Seq(X) /\ Len(a) \in Nat /\ Len(a \o C) = Len(a) + Len(C)
       /\ \A i \in 1 .. Len(C) : (a \o C)[Len(a) + i] = C[i]
  <2>1. a \in Seq(X) /\ C \in Seq(X)
    BY <1>5, <1>10
  <2> QED
    BY <2>1, ConcatElements
<1>13. Len(a \o C) > 0 /\ (a \o C)[Len(a \o C)] = Clear
  <2>1. 1 \in 1 .. Len(C) /\ Len(a \o C) = Len(a) + 1
    BY <1>5, <1>12
  <2>2. (a \o C)[Len(a) + 1] = C[1]
    BY <1>12, <2>1
  <2> QED
    BY <1>5, <1>12, <2>1, <2>2
<1> QED
  BY <1>10, <1>11, <1>12, <1>13

(***************************************************************************)
(* The colour tests: the fills of each, and the bars.                      *)
(***************************************************************************)

Bar(i) == {c \in Screen : c[1] - 1 >= (i - 1) * bar_w /\ (i < Len(Bars) => c[1] - 1 < i * bar_w)}

\* The colour bars, by their number.
LEMMA BarsFacts ==
    /\ Len(Bars) \in Nat \ {0} /\ bar_w \in Nat
    /\ colorbars = [i \in 1 .. Len(Bars) |-> Fill(Bar(i), Bars[i])]
    /\ Len(colorbars) = Len(Bars)
    /\ \A i \in 1 .. Len(Bars) : colorbars[i].cells = Bar(i) /\ colorbars[i].color = Bars[i]
<1>1. Bars \in Seq(ToSet(Bars)) /\ Bars # <<>> /\ Columns \in Nat
  BY ColorAssumption
<1>2. Len(Bars) \in Nat \ {0} /\ DOMAIN Bars = 1 .. Len(Bars)
  BY <1>1
<1>3. bar_w \in Nat
  BY <1>1, <1>2 DEF bar_w
<1>4. colorbars = [i \in 1 .. Len(Bars) |-> Fill(Bar(i), Bars[i])]
  BY <1>2 DEF colorbars, Bar
<1>5. Len(colorbars) = Len(Bars)
  BY <1>2, <1>4
<1>6. \A i \in 1 .. Len(Bars) : colorbars[i].cells = Bar(i) /\ colorbars[i].color = Bars[i]
  BY <1>4 DEF Fill
<1> QED
  BY <1>2, <1>3, <1>4, <1>5, <1>6

\* No cell is in two bars.
LEMMA BarsApart ==
    ASSUME NEW i \in 1 .. Len(Bars), NEW j \in 1 .. Len(Bars), i < j
    PROVE  Bar(i) \cap Bar(j) = {}
<1>1. PICK n : n = Len(Bars)
  OBVIOUS
<1>2. n \in Nat /\ bar_w \in Nat /\ i \in 1 .. n /\ j \in 1 .. n /\ i < n
  BY <1>1, BarsFacts
<1>3. i * bar_w <= (j - 1) * bar_w /\ i * bar_w \in Nat /\ (j - 1) * bar_w \in Nat
  <2>1. PICK d : d = j - 1 - i
    OBVIOUS
  <2>2. d \in Nat /\ j - 1 = i + d /\ i \in Nat
    BY <1>2, <2>1
  <2>3. d * bar_w \in Nat /\ i * bar_w \in Nat /\ (i + d) * bar_w = i * bar_w + d * bar_w
    BY <1>2, <2>2
  <2> QED
    BY <2>2, <2>3
<1>4. ASSUME NEW c \in Bar(i), c \in Bar(j) PROVE FALSE
  <2>1. c[1] - 1 < i * bar_w /\ c[1] - 1 >= (j - 1) * bar_w /\ c[1] \in Int
    <3>1. c \in Screen
      BY DEF Bar
    <3>2. c[1] \in Int
      BY <3>1, ColorAssumption DEF Screen
    <3> QED
      BY <1>1, <1>2, <1>4, <3>2 DEF Bar
  <2> QED
    BY <1>3, <2>1
<1> QED
  BY <1>4

\* Every cell is in one: the last bar takes the columns that the division leaves.
LEMMA BarsCover ==
    ASSUME NEW c \in Screen
    PROVE  \E i \in 1 .. Len(Bars) : c \in Bar(i)
<1>1. PICK n : n = Len(Bars)
  OBVIOUS
<1>2. n \in Nat \ {0} /\ bar_w \in Nat /\ c[1] \in Nat \ {0}
  BY <1>1, BarsFacts, ColorAssumption DEF Screen
<1> DEFINE S == {i \in 1 .. n : i = n \/ c[1] - 1 < i * bar_w}
<1>3. S \in SUBSET Nat /\ n \in S
  BY <1>2
<1>4. PICK m : m \in S /\ \A y \in S : m <= y
  BY <1>3, MinOfNats
<1>5. m \in 1 .. n /\ (m < n => c[1] - 1 < m * bar_w)
  BY <1>2, <1>4
<1>6. c[1] - 1 >= (m - 1) * bar_w
  <2>1. CASE m = 1
    <3>1. (m - 1) * bar_w = 0
      BY <1>2, <2>1
    <3> QED
      BY <1>2, <3>1
  <2>2. CASE m # 1
    <3>1. m - 1 \in 1 .. n /\ m - 1 # n /\ ~ m <= m - 1
      BY <1>2, <1>5, <2>2
    <3>2. ~ c[1] - 1 < (m - 1) * bar_w
      BY <1>4, <3>1
    <3>3. (m - 1) * bar_w \in Int
      BY <1>2, <3>1
    <3> QED
      BY <1>2, <3>2, <3>3
  <2> QED
    BY <2>1, <2>2
<1> QED
  BY <1>1, <1>5, <1>6 DEF Bar

\* A row of fills of one colour.
LEMMA InType ==
    ASSUME NEW cells, cells \in Seq(ToSet(cells)), NEW color
    PROVE  In(cells, color) \in Seq({Fill(r, color) : r \in ToSet(cells)})
<1>1. PICK n : n = Len(cells)
  OBVIOUS
<1>2. n \in Nat /\ DOMAIN cells = 1 .. n /\ \A i \in 1 .. n : cells[i] \in ToSet(cells)
  BY <1>1
<1>3. In(cells, color) = [i \in 1 .. n |-> Fill(cells[i], color)]
  BY <1>2 DEF In
<1>4. \A i \in 1 .. n : Fill(cells[i], color) \in {Fill(r, color) : r \in ToSet(cells)}
  BY <1>2
<1> QED
  BY <1>2, <1>3, <1>4

\* The commands that clear the screen, and the one that does not.
Cleaned(e) == Clearing(e) /\ Len(e) > 0 /\ e[Len(e)] = Clear

\* The tests: all but the bars clear the screen before every fill and at the end.
LEMMA TestsFacts ==
    /\ DOMAIN Tests = {"colortest", "halftest", "stripetest", "longtest", "bandtest", "colorbars"}
    /\ Tests["colorbars"] = colorbars
    /\ \A t \in DOMAIN Tests : /\ \E X : Tests[t] \in Seq(X)
                               /\ t # "colorbars" => Cleaned(Tests[t])
<1>1. /\ DOMAIN Tests = {"colortest", "halftest", "stripetest", "longtest", "bandtest", "colorbars"}
      /\ Tests["colorbars"] = colorbars
      /\ Tests["colortest"] = Each([i \in DOMAIN Colors |-> Fill(Screen, Colors[i])])
      /\ Tests["halftest"] = Each(FlattenSeq([i \in DOMAIN Colors |-> In(Regions, Colors[i])]))
      /\ Tests["stripetest"] = Each(In(Stripes, "white"))
      /\ Tests["longtest"] = Each(<<Fill(Top, "red"), Fill(Left, "red")>>)
      /\ Tests["bandtest"] = Each(In(Bands, "green"))
  BY DEF Tests
<1>2. ASSUME NEW X, NEW s \in Seq(X)
      PROVE  (\E Y : Each(s) \in Seq(Y)) /\ Cleaned(Each(s))
  <2>1. s \in Seq(X \cup {Clear}) /\ Clear \in X \cup {Clear}
    BY <1>2
  <2> QED
    BY <2>1, EachFacts DEF Cleaned
<1>3. PICK n : n = Len(Colors)
  OBVIOUS
<1>4. n \in Nat /\ DOMAIN Colors = 1 .. n /\ \A i \in 1 .. n : Colors[i] \in ToSet(Colors)
  BY <1>3, ColorAssumption
<1>5. [i \in DOMAIN Colors |-> Fill(Screen, Colors[i])] \in Seq({Fill(Screen, c) : c \in ToSet(Colors)})
  <2>1. \A i \in 1 .. n : Fill(Screen, Colors[i]) \in {Fill(Screen, c) : c \in ToSet(Colors)}
    BY <1>4
  <2> QED
    BY <1>4, <2>1
<1>6. \E X : FlattenSeq([i \in DOMAIN Colors |-> In(Regions, Colors[i])]) \in Seq(X)
  <2> DEFINE X == UNION {{Fill(r, c) : r \in ToSet(Regions)} : c \in ToSet(Colors)}
  <2>1. ASSUME NEW i \in 1 .. n PROVE In(Regions, Colors[i]) \in Seq(X)
    <3>1. In(Regions, Colors[i]) \in Seq({Fill(r, Colors[i]) : r \in ToSet(Regions)})
      BY ColorAssumption, InType
    <3>2. {Fill(r, Colors[i]) : r \in ToSet(Regions)} \subseteq X
      BY <1>4
    <3>3. PICK A : A = {Fill(r, Colors[i]) : r \in ToSet(Regions)}
      OBVIOUS
    <3>4. In(Regions, Colors[i]) \in Seq(A) /\ A \subseteq X
      BY <3>1, <3>2, <3>3
    <3> HIDE DEF X
    <3> QED
      BY <3>4
  <2> HIDE DEF X
  <2>2. [i \in DOMAIN Colors |-> In(Regions, Colors[i])] \in Seq(Seq(X))
    BY <1>4, <2>1
  <2> QED
    BY <2>2, FlattenedType
<1>7. \E X : In(Stripes, "white") \in Seq(X)
  BY ColorAssumption, InType
<1>8. \E X : In(Bands, "green") \in Seq(X)
  BY ColorAssumption, InType
<1>9. <<Fill(Top, "red"), Fill(Left, "red")>> \in Seq({Fill(Top, "red"), Fill(Left, "red")})
  OBVIOUS
<1>10. \E X : colorbars \in Seq(X)
  <2>1. \A i \in 1 .. Len(Bars) : Fill(Bar(i), Bars[i]) \in {Fill(Bar(j), Bars[j]) : j \in 1 .. Len(Bars)}
    OBVIOUS
  <2>2. [i \in 1 .. Len(Bars) |-> Fill(Bar(i), Bars[i])] \in Seq({Fill(Bar(j), Bars[j]) : j \in 1 .. Len(Bars)})
    BY <2>1, BarsFacts
  <2> QED
    BY <2>2, BarsFacts
<1>11. ASSUME NEW t \in DOMAIN Tests
       PROVE  (\E X : Tests[t] \in Seq(X)) /\ (t # "colorbars" => Cleaned(Tests[t]))
  <2>1. CASE t = "colortest"
    BY <1>1, <1>2, <1>5, <2>1
  <2>2. CASE t = "halftest"
    BY <1>1, <1>2, <1>6, <2>2
  <2>3. CASE t = "stripetest"
    BY <1>1, <1>2, <1>7, <2>3
  <2>4. CASE t = "longtest"
    BY <1>1, <1>2, <1>9, <2>4
  <2>5. CASE t = "bandtest"
    BY <1>1, <1>2, <1>8, <2>5
  <2>6. CASE t = "colorbars"
    BY <1>1, <1>10, <2>6
  <2> QED
    BY <1>1, <2>1, <2>2, <2>3, <2>4, <2>5, <2>6
<1> QED
  BY <1>1, <1>11

\* The cells part holds in the beginning.
LEMMA CellsInit ==
    ASSUME ScreensInit
    PROVE  CellsInv
<1>1. colortest_ready = FALSE /\ fills = <<>> /\ test = "none" /\ step = "none" /\ buf = [b \in Buffers |-> Noise]
  BY DEF ScreensInit, Init, DisplayInit, ColorInit
<1>2. Framed
  BY <1>1 DEF Framed, Noise, Buffers
<1> QED
  BY <1>1, <1>2 DEF CellsInv

\* One fill.
LEMMA FillCells ==
    ASSUME ControlInv, CellsInv, app = "colored-screen",
           fills # <<>>, step = "none", fills' = Tail(fills),
           buf' = [buf EXCEPT ![1].text = [c \in Screen |->
                       IF c \in Head(fills).cells THEN Head(fills).color ELSE @[c]]],
           UNCHANGED <<colortest_ready, test, app>>
    PROVE  CellsInv'
<1> DEFINE e == Tests[test]
<1>1. colortest_ready /\ test \in DOMAIN Tests
  BY DEF ControlInv, ColorInv, CellsInv
<1>2. "none" \notin DOMAIN Tests /\ \E X : e \in Seq(X)
  BY <1>1, TestsFacts
<1>3. PICK X : e \in Seq(X)
  BY <1>2
<1>4. PICK n, k : n = Len(e) /\ k = Len(fills)
  OBVIOUS
<1>5. n \in Nat /\ k \in 0 .. n /\ Done = n - k /\ fills = [i \in 1 .. k |-> e[Done + i]]
  <2>1. n \in Nat
    BY <1>3, <1>4
  <2> QED
    BY <1>1, <1>2, <1>4, <2>1 DEF CellsInv, Done
<1>6. PICK d : d = Done
  OBVIOUS
<1>7. d \in 0 .. n /\ d = n - k /\ fills = [i \in 1 .. k |-> e[d + i]]
  BY <1>5, <1>6
<1>a. fills \in Seq(X)
  <2>1. \A i \in 1 .. k : d + i \in 1 .. n
    BY <1>5, <1>7
  <2>2. \A i \in 1 .. n : e[i] \in X
    BY <1>3, <1>4
  <2>3. \A i \in 1 .. k : e[d + i] \in X
    BY <2>1, <2>2
  <2> QED
    BY <1>5, <1>7, <2>3
<1>8. k # 0 /\ d + 1 \in 1 .. n /\ Head(fills) = e[d + 1]
  <2>1. k # 0
    BY <1>4, <1>a
  <2>2. d + 1 \in 1 .. n /\ 1 \in 1 .. k
    BY <1>5, <1>7, <2>1
  <2>3. Head(fills) = fills[1]
    BY <1>a
  <2> QED
    BY <1>7, <2>1, <2>2, <2>3
<1>9. /\ fills' = [i \in 1 .. k - 1 |-> e[d + 1 + i]] /\ Len(fills') = k - 1
  <2>1. /\ Tail(fills) \in Seq(X) /\ Len(Tail(fills)) = k - 1
        /\ \A i \in 1 .. k - 1 : Tail(fills)[i] = fills[i + 1]
    BY <1>4, <1>a, TailElements
  <2>2. \A i \in 1 .. k - 1 : i + 1 \in 1 .. k /\ d + (i + 1) = d + 1 + i
    BY <1>5, <1>7
  <2>3. \A i \in 1 .. k - 1 : Tail(fills)[i] = e[d + 1 + i]
    BY <1>7, <2>1, <2>2
  <2>4. PICK q : q = Tail(fills)
    OBVIOUS
  <2>a. q \in Seq(X) /\ Len(q) = k - 1
    BY <2>1, <2>4
  <2>5. q = [i \in 1 .. k - 1 |-> q[i]]
    BY <2>a
  <2>6. \A i \in 1 .. k - 1 : q[i] = e[d + 1 + i]
    BY <2>3, <2>4
  <2>7. q = [i \in 1 .. k - 1 |-> e[d + 1 + i]]
    BY <2>5, <2>6
  <2> QED
    BY <2>1, <2>4, <2>7
<1>10. Done' = d + 1 /\ Len(fills') \in 0 .. n
  BY <1>4, <1>5, <1>7, <1>8, <1>9 DEF Done
<1>11. /\ buf'[1] = [buf[1] EXCEPT !.text = [c \in Screen |-> IF c \in e[d + 1].cells THEN e[d + 1].color ELSE @[c]]]
  <2>1. 1 \in DOMAIN buf
    BY DEF ControlInv, DisplayOK, Buffers
  <2> QED
    BY <1>8, <2>1
<1>12. /\ buf'[1].text = [c \in Screen |-> IF c \in e[d + 1].cells THEN e[d + 1].color ELSE buf[1].text[c]]
       /\ Framed'
  <2>1. buf[1] = [kind |-> buf[1].kind, text |-> buf[1].text]
    BY DEF CellsInv, Framed
  <2> QED
    BY <1>11, <2>1 DEF Framed
<1> HIDE DEF e
<1>13. ASSUME test # "colorbars"
       PROVE  buf'[1].text = [c \in Screen |-> IF c \in e[d + 1].cells THEN e[d + 1].color ELSE "black"]
  <2>1. Cleaned(e)
    BY <1>1, <1>13, TestsFacts DEF e
  <2>2. e[d + 1] = Clear \/ (d > 0 /\ e[d] = Clear)
    <3>1. d \in 0 .. Len(e) - 1
      BY <1>4, <1>5, <1>7, <1>8
    <3> QED
      BY <2>1, <3>1 DEF Cleaned, Clearing
  <2>3. CASE e[d + 1] = Clear
    BY <1>12, <2>3 DEF Clear, Fill
  <2>4. CASE d > 0 /\ e[d] = Clear
    <3>1. buf[1].text = [c \in Screen |-> IF c \in e[d].cells THEN e[d].color ELSE "black"]
      BY <1>1, <1>6, <1>13, <2>4 DEF CellsInv, e
    <3>2. \A c \in Screen : buf[1].text[c] = "black"
      BY <2>4, <3>1 DEF Clear, Fill
    <3> QED
      BY <1>12, <3>2
  <2> QED
    BY <2>2, <2>3, <2>4
<1>14. ASSUME test = "colorbars", NEW i \in 1 .. d + 1, NEW c \in e[i].cells
       PROVE  buf'[1].text[c] = Bars[i]
  <2>1. e = colorbars /\ n = Len(Bars)
    BY <1>4, <1>14, TestsFacts, BarsFacts DEF e
  <2>2. i \in 1 .. Len(Bars) /\ d + 1 \in 1 .. Len(Bars) /\ c \in Bar(i) /\ c \in Screen
    <3>1. i \in 1 .. n
      BY <1>5, <1>7, <1>8
    <3>2. c \in Bar(i)
      BY <2>1, <3>1, BarsFacts
    <3> QED
      BY <1>8, <2>1, <3>1, <3>2 DEF Bar
  <2>3. buf'[1].text[c] = IF c \in Bar(d + 1) THEN Bars[d + 1] ELSE buf[1].text[c]
    BY <1>12, <2>1, <2>2, BarsFacts
  <2>4. CASE i = d + 1
    BY <2>2, <2>3, <2>4
  <2>5. CASE i # d + 1
    <3>1. i < d + 1 /\ i \in 1 .. d
      BY <1>7, <2>5
    <3>2. c \notin Bar(d + 1)
      BY <2>2, <3>1, BarsApart
    <3>3. buf[1].text[c] = Bars[i]
      BY <1>1, <1>6, <1>14, <3>1 DEF CellsInv, e
    <3> QED
      BY <2>3, <3>2, <3>3
  <2> QED
    BY <2>4, <2>5
<1>15. /\ test' # "none" /\ test' \in DOMAIN Tests
       /\ Tests[test'] = e
       /\ fills' = [i \in 1 .. Len(fills') |-> e[Done' + i]]
       /\ colortest_ready'
  BY <1>1, <1>2, <1>9, <1>10 DEF e
<1> QED
  <2>1. test' # "colorbars" =>
          buf'[1].text = [c \in Screen |-> IF c \in Tests[test'][Done'].cells THEN Tests[test'][Done'].color ELSE "black"]
    BY <1>10, <1>13, <1>15
  <2>2. test' = "colorbars" =>
          \A i \in 1 .. Done' : \A c \in Tests[test'][i].cells : buf'[1].text[c] = Bars[i]
    BY <1>10, <1>14, <1>15
  <2> QED
    BY <1>4, <1>10, <1>12, <1>15, <2>1, <2>2 DEF CellsInv

\* A step that leaves the tests and, once they are ready, the screen alone keeps the cells part.
LEMMA CellsKept ==
    ASSUME CellsInv, UNCHANGED <<colorVars, app>>,
           app = "colored-screen" => Framed', colortest_ready => UNCHANGED buf,
           step' # "none" => step # "none"
    PROVE  CellsInv'
<1>1. UNCHANGED <<colortest_ready, fills, test, app>>
  BY DEF colorVars
<1>2. UNCHANGED Done
  BY <1>1 DEF Done
<1> QED
  BY <1>1, <1>2 DEF CellsInv

\* Every step keeps the cells part.
LEMMA CellsStep ==
    ASSUME ControlInv, CellsInv, [ScreensNext]_screenVars
    PROVE  CellsInv'
<1>0. ~colortest_ready \/ app = "colored-screen"
  BY DEF ControlInv, ColorInv
<1>f. app = "colored-screen" => Framed
  BY DEF CellsInv
<1>k. ASSUME UNCHANGED <<buf, colorVars, app>>, step' # "none" => step # "none" PROVE CellsInv'
  <2>1. app = "colored-screen" => Framed'
    BY <1>f, <1>k DEF Framed
  <2> QED
    BY <1>k, <2>1, CellsKept
<1>b. 1 \in DOMAIN buf
  BY DEF ControlInv, DisplayOK, Buffers
<1>1. CASE UNCHANGED screenVars
  <2>1. UNCHANGED <<buf, step, colorVars, app>>
    BY <1>1 DEF screenVars, vars, displayVars
  <2> QED
    BY <1>k, <2>1
<1>2. ASSUME app # "colored-screen", UNCHANGED <<colorVars, app>> PROVE CellsInv'
  BY <1>0, <1>2 DEF CellsInv, Done, colorVars
<1>3. CASE Panel
  <2>1. UNCHANGED <<colorVars, app>>
    BY <1>3 DEF Panel
  <2>s. step' # "none" => step # "none"
    BY <1>3 DEF Panel, Hardware, BringUp, VBlank, hal_sdram_init, hal_display_init, disp_clock_init,
       panel_reset,
                dsi_host_init, Prime, StartVideo, otm8009a_init, hal_display_backlight_on
  <2>2. CASE UNCHANGED buf
    BY <1>k, <2>1, <2>2, <2>s
  <2>3. CASE hal_sdram_init \/ hal_display_init
    <3>1. step # "none" /\ (buf'[1] = Noise \/ buf'[1] = Black)
      BY <1>b, <2>3 DEF hal_sdram_init, hal_display_init
    <3>2. Framed'
      BY <3>1 DEF Framed, Noise, Black
    <3>3. ~colortest_ready
      BY <1>0, <3>1 DEF ControlInv, ColorInv
    <3> QED
      BY <2>1, <2>s, <3>2, <3>3, CellsKept
  <2> QED
    BY <1>3, <2>2, <2>3 DEF Panel, Hardware, BringUp, VBlank, disp_clock_init, panel_reset,
       dsi_host_init, Prime,
                            StartVideo, otm8009a_init, hal_display_backlight_on
<1>4. CASE app = "colored-screen" /\ BlackFirst /\ UNCHANGED app
  <2>1. step # "none" /\ ~colortest_ready /\ UNCHANGED <<fills, test>>
    BY <1>4 DEF BlackFirst, ControlInv, ColorInv
  <2>2. CASE buf' = [buf EXCEPT ![1] = BlackScreen] /\ UNCHANGED colortest_ready
    <3>1. buf'[1] = BlackScreen
      BY <1>b, <2>2
    <3>2. Framed'
      BY <3>1 DEF Framed, BlackScreen
    <3> QED
      BY <1>4, <2>1, <2>2, <3>2, CellsKept DEF colorVars
  <2>3. CASE UNCHANGED buf /\ colortest_ready' = TRUE
    <3>1. test # "none" /\ Done = 0 /\ Done' = 0
      BY <1>4, <2>1 DEF CellsInv, Done
    <3>2. Framed'
      BY <1>4, <1>f, <2>3 DEF Framed
    <3>3. UNCHANGED <<fills, test, buf, app>>
      BY <1>4, <2>1, <2>3
    <3> QED
      BY <3>1, <3>2, <3>3 DEF CellsInv
  <2> QED
    BY <1>4, <2>2, <2>3 DEF BlackFirst
<1>5. CASE app = "colored-screen" /\ fill_rect /\ UNCHANGED app
  <2>1. CASE UNCHANGED <<buf, fills>>
    <3>1. UNCHANGED <<buf, step, colorVars, app>>
      BY <1>5, <2>1 DEF fill_rect, colorVars
    <3> QED
      BY <1>k, <3>1
  <2>2. CASE /\ fills' = Tail(fills)
             /\ buf' = [buf EXCEPT ![1].text = [c \in Screen |->
                            IF c \in Head(fills).cells THEN Head(fills).color ELSE @[c]]]
    BY <1>5, <2>2, FillCells DEF fill_rect
  <2> QED
    BY <1>5, <2>1, <2>2 DEF fill_rect
<1>6. ASSUME app = "colored-screen", NEW t \in DOMAIN Tests, RunTest(t), UNCHANGED app
      PROVE  CellsInv'
  <2>1. test' = t /\ fills' = Tests[t] /\ UNCHANGED <<buf, colortest_ready>>
    BY <1>6 DEF RunTest
  <2>2. t # "none" /\ \E X : Tests[t] \in Seq(X)
    BY <1>6, TestsFacts
  <2>3. PICK e, X : e = Tests[t] /\ e \in Seq(X)
    BY <2>2
  <2>4. Done' = 0 /\ Len(fills') = Len(e) /\ Len(e) \in Nat
    BY <2>1, <2>3 DEF Done
  <2>5. e = [i \in 1 .. Len(e) |-> e[0 + i]]
    BY <2>3
  <2>6. Framed'
    BY <1>6, <1>f, <2>1 DEF Framed
  <2>7. fills' = [i \in 1 .. Len(fills') |-> Tests[test'][Done' + i]]
    BY <2>1, <2>3, <2>4, <2>5
  <2>8. Len(fills') \in 0 .. Len(Tests[test']) /\ test' \in DOMAIN Tests /\ test' # "none"
    BY <1>6, <2>1, <2>2, <2>3, <2>4
  <2> QED
    BY <2>4, <2>6, <2>7, <2>8 DEF CellsInv
<1>7. CASE Runs
  BY <1>2, <1>4, <1>5, <1>7 DEF Runs, ColorStep, picoraVars, ringVars
<1>8. CASE Used
  BY <1>2, <1>6, <1>8 DEF Used
<1> QED
  BY <1>1, <1>3, <1>7, <1>8 DEF ScreensNext

\* With it the tests are right.
LEMMA CellsImplied ==
    ASSUME ControlInv, CellsInv
    PROVE  TestsRight
<1> SUFFICES ASSUME colortest_ready, drawing = 0, Len(fills) < Len(Tests[test])
             PROVE  LET cells == buf[1].text
                        last == Tests[test][Len(Tests[test]) - Len(fills)]
                    IN  IF test = "colorbars"
                        THEN fills = <<>> => \A c \in Screen : \E i \in DOMAIN Bars :
                                /\ cells[c] = Bars[i]
                                /\ (i - 1) * bar_w < c[1] /\ (i < Len(Bars) => c[1] <= i * bar_w)
                        ELSE /\ cells = [c \in Screen |-> IF c \in last.cells THEN last.color ELSE "black"]
                             /\ fills = <<>> => cells = BlackScreen.text
  BY DEF TestsRight
<1>1. test # "none" /\ test \in DOMAIN Tests
  BY DEF CellsInv
<1>2. PICK e, X, d, n : e = Tests[test] /\ e \in Seq(X) /\ d = Done /\ n = Len(e)
  BY <1>1, TestsFacts
<1>3. n \in Nat /\ d = n - Len(fills) /\ Len(fills) \in 0 .. n /\ Len(fills) < n
  BY <1>1, <1>2 DEF CellsInv, Done
<1>4. d \in 1 .. n /\ (fills = <<>> => d = n)
  BY <1>3
<1>5. CASE test = "colorbars"
  <2>1. ASSUME fills = <<>>, NEW c \in Screen
        PROVE  \E i \in DOMAIN Bars : /\ buf[1].text[c] = Bars[i]
                                      /\ (i - 1) * bar_w < c[1] /\ (i < Len(Bars) => c[1] <= i * bar_w)
    <3>1. PICK i \in 1 .. Len(Bars) : c \in Bar(i)
      BY BarsCover
    <3>2. e = colorbars /\ n = Len(Bars)
      BY <1>2, <1>5, TestsFacts, BarsFacts
    <3>3. c \in e[i].cells /\ i \in 1 .. d
      BY <1>4, <2>1, <3>1, <3>2, BarsFacts
    <3>4. buf[1].text[c] = Bars[i]
      BY <1>2, <1>5, <3>3 DEF CellsInv
    <3>5. DOMAIN Bars = 1 .. Len(Bars)
      BY ColorAssumption
    <3>6. (i - 1) * bar_w < c[1] /\ (i < Len(Bars) => c[1] <= i * bar_w)
      <4>1. PICK m : m = Len(Bars)
        OBVIOUS
      <4>2. m \in Nat /\ bar_w \in Nat /\ i \in 1 .. m /\ c[1] \in Int
        BY <4>1, BarsFacts, ColorAssumption DEF Screen
      <4>3. (i - 1) * bar_w \in Int /\ i * bar_w \in Int
        BY <4>2
      <4>4. c[1] - 1 >= (i - 1) * bar_w /\ (i < m => c[1] - 1 < i * bar_w)
        BY <3>1, <4>1 DEF Bar
      <4> QED
        BY <4>1, <4>2, <4>3, <4>4
    <3> QED
      BY <3>4, <3>5, <3>6
  <2> QED
    BY <1>5, <2>1
<1>6. CASE test # "colorbars"
  <2>1. buf[1].text = [c \in Screen |-> IF c \in e[d].cells THEN e[d].color ELSE "black"]
    BY <1>1, <1>2, <1>4, <1>6 DEF CellsInv
  <2>2. e[d] = Tests[test][Len(Tests[test]) - Len(fills)]
    BY <1>2 DEF Done
  <2>3. ASSUME fills = <<>> PROVE buf[1].text = BlackScreen.text
    <3>1. e[d] = Clear
      BY <1>1, <1>2, <1>4, <1>6, <2>3, TestsFacts DEF Cleaned
    <3> QED
      BY <2>1, <3>1 DEF Clear, Fill, BlackScreen
  <2> QED
    BY <1>6, <2>1, <2>2, <2>3
<1> QED
  BY <1>5, <1>6

(***************************************************************************)
(* The invariant of the applications, and what follows.                    *)
(***************************************************************************)

\* The control part holds in the beginning.
LEMMA ControlInit ==
    ASSUME ScreensInit
    PROVE  ControlInv
<1>1. /\ buf = [b \in Buffers |-> Noise] /\ drawing = 0
      /\ shadow = 1 /\ reload = FALSE /\ scanned = 1 /\ ltdc = FALSE
      /\ clock = FALSE /\ stream = "off" /\ panel = {} /\ lit = FALSE /\ step = "none"
  BY DEF ScreensInit, Init, DisplayInit
<1>2. DisplayOK
  <2>1. buf = [b \in Buffers |-> buf[b]]
    BY <1>1
  <2>3. reload \in BOOLEAN /\ ltdc \in BOOLEAN /\ clock \in BOOLEAN /\ lit \in BOOLEAN
    BY <1>1
  <2>4. panel \in SUBSET (1 .. Commands) /\ step \in Steps /\ stream \in {"off", "command", "video"}
    BY <1>1 DEF Steps
  <2>5. drawing \in 0 .. 2 /\ shadow \in Buffers /\ scanned \in Buffers
    BY <1>1 DEF Buffers
  <2> QED
    BY <2>1, <2>3, <2>4, <2>5 DEF DisplayOK
<1>3. BringUpInv
  BY <1>1 DEF BringUpInv, Early, Late
<1>4. ShellInv
  BY <1>1 DEF ScreensInit, Init, ShellInv, Early
<1>5. PicoraInv
  BY <1>1 DEF ScreensInit, PicoraInit, PicoraInv
<1>6. ColorInv
  BY <1>1 DEF ScreensInit, ColorInit, ColorInv
<1> QED
  BY <1>2, <1>3, <1>4, <1>5, <1>6 DEF ScreensInit, ControlInv

\* Every step keeps the control part.
LEMMA ControlStep ==
    ASSUME ControlInv, [ScreensNext]_screenVars
    PROVE  ControlInv'
<1>1. CASE Panel
  BY <1>1, PanelControl
<1>2. ASSUME app = "graphical-shell",
             Renderer \/ Commanding \/ cli_gfxshell \/ cli_picture \/ (\E c \in Chars : hal_uart_output_hook(c)),
             UNCHANGED <<picoraVars, colorVars, app>>
      PROVE  ControlInv'
  BY <1>2, ShellControl
<1>3. ASSUME app = "draw-picora", PicoraStep \/ cli_picora \/ Button,
             UNCHANGED <<ringVars, gridVars, lvglVars, appVars, colorVars, app>>
      PROVE  ControlInv'
  BY <1>3, PicoraControl
<1>4. ASSUME app = "colored-screen", ColorStep \/ (\E t \in DOMAIN Tests : RunTest(t)),
             UNCHANGED <<ringVars, gridVars, lvglVars, appVars, picoraVars, app>>
      PROVE  ControlInv'
  BY <1>4, ColorControl
<1>5. CASE UNCHANGED screenVars
  <2>1. UNCHANGED <<displayVars, lvglVars, appVars, picoraVars, colorVars, app>>
    BY <1>5 DEF screenVars, vars
  <2>2. DisplayOK'
    BY <2>1 DEF displayVars, ControlInv, DisplayOK
  <2>3. BringUpInv'
    BY <2>1 DEF displayVars, ControlInv, BringUpInv, Finished
  <2>4. ShellInv'
    BY <2>1 DEF displayVars, lvglVars, appVars, ControlInv, ShellInv
  <2>5. PicoraInv'
    BY <2>1 DEF displayVars, picoraVars, ControlInv, PicoraInv
  <2>6. ColorInv'
    BY <2>1 DEF displayVars, colorVars, ControlInv, ColorInv
  <2> QED
    BY <2>1, <2>2, <2>3, <2>4, <2>5, <2>6 DEF ControlInv
<1>6. CASE Runs
  BY <1>2, <1>3, <1>4, <1>6 DEF Runs
<1>7. CASE Used
  BY <1>2, <1>3, <1>4, <1>7 DEF Used
<1> QED
  BY <1>1, <1>5, <1>6, <1>7 DEF ScreensNext

\* The inductive invariant of the applications over the panel.
THEOREM ScreensInvariant == ScreensSpec => []ScreensInv
<1>1. ScreensInit => ScreensInv
  BY ControlInit, TextInit, PictureInit, CellsInit DEF ScreensInv
<1>2. ScreensInv /\ [ScreensNext]_screenVars => ScreensInv'
  BY ControlStep, TextStep, PictureStep, CellsStep DEF ScreensInv
<1> QED
  BY <1>1, <1>2, PTL DEF ScreensSpec

\* What each application draws is what was printed, pressed or asked for: for every size of
\* grid and ring, every text, every picture and every set of tests.
THEOREM ScreenRightCorrect == ScreensSpec => []ScreenRight
<1>1. ScreensInv => ScreenRight
  BY TextImplied, PictureImplied, CellsImplied DEF ScreensInv, ScreenRight
<1> QED
  BY <1>1, ScreensInvariant, PTL

\* The backlight is switched on by hal_display_backlight_on() alone, and what it finds.
LEMMA LitStep ==
    ASSUME ControlInv, [ScreensNext]_screenVars, lit' # lit, lit', ~lit
    PROVE  /\ clock /\ ltdc /\ stream = "video" /\ panel = 1 .. Commands
           /\ drawing # scanned /\ buf[scanned].kind \notin {"noise", "black"}
<1>1. hal_display_backlight_on
  <2>1. CASE Panel
    BY <2>1 DEF Panel, Hardware, BringUp, VBlank, hal_sdram_init, hal_display_init, disp_clock_init,
       panel_reset,
                dsi_host_init, Prime, StartVideo, otm8009a_init
  <2>2. UNCHANGED lit \/ Panel
    <3>1. CASE UNCHANGED screenVars
      BY <3>1 DEF screenVars, vars, displayVars
    <3>2. ASSUME Renderer \/ Commanding \/ cli_gfxshell \/ cli_picture \/ (\E c \in Chars : hal_uart_output_hook(c))
          PROVE  UNCHANGED lit
      BY <3>2 DEF Renderer, Commanding, cli_gfxshell, cli_picture, hal_uart_output_hook, Wake,
         gfxshell_drain_rb,
                  lvgl_port_handler, lv_flush_cb, FirstHouse, draw_house_picture, lvgl_port_init, FirstLabel, Finish,
                  displayVars
    <3>3. ASSUME PicoraStep \/ cli_picora \/ Button
          PROVE  UNCHANGED lit
      BY <3>3 DEF PicoraStep, cli_picora, Button, ensure_display_started, redraw, button_task_entry, displayVars
    <3>4. ASSUME ColorStep \/ (\E t \in DOMAIN Tests : RunTest(t))
          PROVE  UNCHANGED lit
      BY <3>4 DEF ColorStep, BlackFirst, fill_rect, RunTest
    <3> QED
      BY <3>1, <3>2, <3>3, <3>4 DEF ScreensNext, Runs, Used
  <2> QED
    BY <2>1, <2>2
<1>2. step = "light"
  BY <1>1 DEF hal_display_backlight_on
<1> QED
  BY <1>2 DEF ControlInv, BringUpInv, Early, Late, Finished

\* The backlight comes on only over a whole picture, whichever wait ran out before.
THEOREM LitWhenWholeCorrect == ScreensSpec => LitWhenWhole
<1>1. ScreensInv /\ [ScreensNext]_screenVars =>
        [lit' /\ ~lit =>
           /\ clock /\ ltdc /\ stream = "video" /\ panel = 1 .. Commands
           /\ drawing # scanned /\ buf[scanned].kind \notin {"noise", "black"}]_lit
  BY LitStep DEF ScreensInv
<1> QED
  BY <1>1, ScreensInvariant, PTL DEF ScreensSpec, LitWhenWhole
=============================================================================
