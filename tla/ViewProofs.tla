----------------------------- MODULE ViewProofs -----------------------------
(***************************************************************************)
(* The counters and the cursor of module View, for windows of any size and *)
(* texts of any length.  The counters need no strengthening; the cursor    *)
(* stays in the text because, while nothing disturbs it, the rows in use   *)
(* are all filled with lines and the cursor is in one of them.             *)
(***************************************************************************)
EXTENDS View, TLAPS

\* What CursorInText rests on.
RowsFilled ==
    ~ disturbed => /\ ~ resized /\ drift = 0
                   /\ 1 <= numdisplaylines
                   /\ lineoffset + numdisplaylines <= numlines
                   /\ y < numdisplaylines
                   /\ x <= text[lineoffset + y + 1]

Inv == TypeOK /\ CountersExact /\ DisplayExact /\ RowsFilled

(***************************************************************************)
(* Edits of the text.                                                      *)
(***************************************************************************)

\* An edit leaves a text, and a break or a join that is not refused changes the
\* number of lines by one (BlockingVector::insert and ::remove).
LEMMA SplitText ==
    ASSUME text \in Seq(Nat), NEW l \in Nat, NEW i \in Nat, NEW t, t = Split(l, i)
    PROVE  /\ t \in Seq(Nat)
           /\ Len(t) = Len(text) + (IF Inside(l, i) THEN 1 ELSE 0)
<1>1. CASE ~ Inside(l, i)
    BY <1>1 DEF Split
<1>2. CASE Inside(l, i)
    <2>1. l + 1 \in 1 .. Len(text) /\ text[l + 1] - i \in Nat
        BY <1>2 DEF Inside
    <2>2. t = [k \in 1 .. Len(text) + 1 |->
                 IF k <= l THEN text[k]
                 ELSE IF k = l + 1 THEN i
                 ELSE IF k = l + 2 THEN text[l + 1] - i ELSE text[k - 1]]
        BY <1>2 DEF Split
    <2>3. \A k \in 1 .. Len(text) + 1 : t[k] \in Nat
        BY <2>1, <2>2, SMTT(30)
    <2> QED
        BY <1>2, <2>2, <2>3
<1> QED
    BY <1>1, <1>2

LEMMA JoinedText ==
    ASSUME text \in Seq(Nat), NEW l \in Nat, NEW t, t = Joined(l)
    PROVE  /\ t \in Seq(Nat)
           /\ Len(t) = Len(text) - (IF CanJoin(l) THEN 1 ELSE 0)
           /\ CanJoin(l) => text[l] <= t[l]
<1>1. CASE ~ CanJoin(l)
    BY <1>1 DEF Joined
<1>2. CASE CanJoin(l)
    <2>1. l \in 1 .. Len(text) /\ l + 1 \in 1 .. Len(text)
        BY <1>2 DEF CanJoin
    <2>2. t = [k \in 1 .. Len(text) - 1 |->
                 IF k < l THEN text[k]
                 ELSE IF k = l THEN text[l] + text[l + 1] ELSE text[k + 1]]
        BY <1>2 DEF Joined
    <2>3. ASSUME NEW k \in 1 .. Len(text) - 1 PROVE t[k] \in Nat
        <3>1. CASE k < l
            BY <2>1, <2>2, <3>1
        <3>2. CASE k = l
            BY <2>1, <2>2, <3>2
        <3>3. CASE k > l
            BY <2>1, <2>2, <3>3
        <3> QED
            BY <2>1, <3>1, <3>2, <3>3
    <2>4. t \in Seq(Nat) /\ Len(t) = Len(text) - 1
        BY <2>1, <2>2, <2>3
    <2>5. l \in 1 .. Len(text) - 1 /\ text[l] \in Nat /\ text[l + 1] \in Nat
        BY <1>2, <2>1 DEF CanJoin
    <2>6. t[l] = text[l] + text[l + 1]
        BY <2>2, <2>5
    <2> QED
        BY <1>2, <2>4, <2>5, <2>6
<1> QED
    BY <1>1, <1>2

LEMMA WidenedText ==
    ASSUME text \in Seq(Nat), NEW l \in Nat, NEW i \in Nat, NEW n \in Nat,
           NEW t, t = Widened(l, i, n)
    PROVE  /\ t \in Seq(Nat) /\ Len(t) = Len(text)
           /\ \A k \in 1 .. Len(text) : text[k] <= t[k]
           /\ Inside(l, i) => t[l + 1] = text[l + 1] + n
BY DEF Widened, Inside

LEMMA NarrowedText ==
    ASSUME NEW u \in Seq(Nat), NEW l \in Nat, NEW i \in Nat, NEW t \in Narrowed(u, l, i)
    PROVE  /\ t \in Seq(Nat) /\ Len(t) = Len(u)
           /\ \A k \in 1 .. Len(u) : t[k] \in { u[k], u[k] - 1 }
           /\ l < Len(u) /\ i < u[l + 1] => i <= t[l + 1]
<1>1. CASE ~ (l < Len(u) /\ i <= u[l + 1])
    BY <1>1 DEF Narrowed
<1>2. CASE l < Len(u) /\ i <= u[l + 1]
    <2>1. l + 1 \in 1 .. Len(u) /\ u[l + 1] \in Nat
        BY <1>2
    <2>2. u[l + 1] # 0 /\ t = [u EXCEPT ![l + 1] = u[l + 1] - 1]
        BY <1>2 DEF Narrowed
    <2> QED
        BY <1>2, <2>1, <2>2
<1> QED
    BY <1>1, <1>2

(***************************************************************************)
(* Moving the cursor.                                                      *)
(***************************************************************************)
LEMMA ScrolledType ==
    ASSUME NEW row \in Int, NEW n \in Int, NEW nd \in Int, NEW offset \in Nat,
           NEW s, s = Scrolled(row, n, nd, offset)
    PROVE  s.offset \in Nat /\ s.row \in Nat
BY DEF Scrolled, Greater

\* Rows that are all filled stay filled when the cursor moves by one row at most
\* beyond them.
LEMMA ScrolledStays ==
    ASSUME NEW row \in Int, NEW n \in Int, NEW nd \in Int, NEW offset \in Nat,
           1 <= nd, offset + nd <= n, row <= nd,
           NEW s, s = Scrolled(row, n, nd, offset)
    PROVE  /\ s.offset + nd <= n /\ s.row < nd /\ s.row + s.offset < n
           /\ s.row + s.offset + 1 = s.offset + s.row + 1
           /\ 0 <= row /\ row < nd => s.row = row /\ s.offset = offset
BY DEF Scrolled, Greater

LEMMA WidthType ==
    ASSUME NEW t \in Seq(Nat), NEW l \in Nat, NEW width \in line_width(t, l)
    PROVE  width \in Nat /\ (l < Len(t) => width = t[l + 1])
<1>1. CASE l < Len(t)
    BY <1>1 DEF line_width
<1>2. CASE ~ l < Len(t)
    BY <1>2, ViewAssumption DEF line_width
<1> QED
    BY <1>1, <1>2

\* What move_win_rel() does, with the row and the column it computes.
LEMMA MoveSteps ==
    ASSUME TypeOK,
           NEW dx \in Int, NEW dy \in Int, NEW t \in Seq(Nat),
           NEW n \in Int, NEW nd \in Int,
           move_win_rel(dx, dy, t, n, nd),
           NEW s, s = Scrolled(y + dy, n, nd, lineoffset)
    PROVE  \E width, col \in Nat :
              /\ s.row + s.offset < Len(t) => width = t[s.row + s.offset + 1]
              /\ col <= width \/ col = 0
              /\ col <= x + dx \/ col = 0
              /\ lineoffset' = s.offset
              /\ IF InWindow(s.row, col) THEN y' = s.row /\ x' = col
                                         ELSE y' = y /\ x' = x
<1>1. x \in Nat /\ y + dy \in Int /\ lineoffset \in Nat
    BY DEF TypeOK
<1>2. s.offset \in Nat /\ s.row \in Nat
    BY <1>1, ScrolledType
<1>3. PICK width \in line_width(t, s.row + s.offset) :
         /\ lineoffset' = s.offset
         /\ IF InWindow(s.row, Greater(Lesser(x + dx, width), 0))
            THEN y' = s.row /\ x' = Greater(Lesser(x + dx, width), 0)
            ELSE y' = y /\ x' = x
    BY DEF move_win_rel
<1>4. width \in Nat /\ (s.row + s.offset < Len(t) => width = t[s.row + s.offset + 1])
    BY <1>2, WidthType
<1> DEFINE col == Greater(Lesser(x + dx, width), 0)
<1>5. col \in Nat /\ (col <= width \/ col = 0) /\ (col <= x + dx \/ col = 0)
    BY <1>1, <1>4 DEF Greater, Lesser
<1> HIDE DEF col
<1>6. IF InWindow(s.row, col) THEN y' = s.row /\ x' = col ELSE y' = y /\ x' = x
    BY <1>3 DEF col
<1> QED
    BY <1>3, <1>4, <1>5, <1>6

\* Wherever move_win_rel() is asked to go, the cursor stays in the window.
LEMMA MoveType ==
    ASSUME TypeOK, maxy' = maxy,
           NEW dx \in Int, NEW dy \in Int, NEW t \in Seq(Nat),
           NEW n \in Int, NEW nd \in Int,
           move_win_rel(dx, dy, t, n, nd)
    PROVE  lineoffset' \in Nat /\ y' \in 0 .. maxy' - 1 /\ x' \in 0 .. maxx - 1
<1> DEFINE s == Scrolled(y + dy, n, nd, lineoffset)
<1>1. /\ y + dy \in Int /\ lineoffset \in Nat /\ maxy \in Nat /\ maxx \in Nat
      /\ y \in 0 .. maxy - 1 /\ x \in 0 .. maxx - 1
    BY ViewAssumption DEF TypeOK
<1>2. s.offset \in Nat /\ s.row \in Nat
    BY <1>1, ScrolledType
<1>3. PICK col \in Nat : /\ lineoffset' = s.offset
                         /\ IF InWindow(s.row, col) THEN y' = s.row /\ x' = col
                                                    ELSE y' = y /\ x' = x
    BY MoveSteps
<1> HIDE DEF s
<1> QED
    BY <1>1, <1>2, <1>3, SMTT(30) DEF InWindow

\* From filled rows it goes to a line of the text, unless wmove() refuses a
\* column right of the window.
LEMMA MoveStays ==
    ASSUME TypeOK,
           NEW dx \in Int, NEW dy \in Int, NEW t \in Seq(Nat),
           NEW n \in Int, NEW nd \in Int,
           move_win_rel(dx, dy, t, n, nd),
           n = Len(t), 1 <= nd, nd <= maxy, lineoffset + nd <= n, y + dy <= nd,
           \/ x + dx < maxx
           \/ dy = 0 /\ y < nd /\ x <= t[lineoffset + y + 1]
    PROVE  lineoffset' + nd <= n /\ y' < nd /\ x' <= t[lineoffset' + y' + 1]
<1> DEFINE s == Scrolled(y + dy, n, nd, lineoffset)
<1>1. /\ x \in Nat /\ y \in Nat /\ y + dy \in Int /\ lineoffset \in Nat
      /\ maxy \in Nat /\ maxx \in Nat \ {0}
    BY ViewAssumption DEF TypeOK
<1>2. s.offset \in Nat /\ s.row \in Nat
    BY <1>1, ScrolledType
<1>3. /\ s.offset + nd <= n /\ s.row < nd /\ s.row + s.offset < n
      /\ s.row + s.offset + 1 = s.offset + s.row + 1
      /\ 0 <= y + dy /\ y + dy < nd => s.row = y + dy /\ s.offset = lineoffset
    <2>1. 1 <= nd /\ lineoffset + nd <= n /\ y + dy <= nd /\ n \in Int /\ nd \in Int
        OBVIOUS
    <2> QED
        BY ONLY <1>1, <2>1, ScrolledStays DEF s
<1>4. PICK width, col \in Nat :
              /\ s.row + s.offset < Len(t) => width = t[s.row + s.offset + 1]
              /\ col <= width \/ col = 0
              /\ col <= x + dx \/ col = 0
              /\ lineoffset' = s.offset
              /\ IF InWindow(s.row, col) THEN y' = s.row /\ x' = col
                                         ELSE y' = y /\ x' = x
    BY MoveSteps
<1> HIDE DEF s
<1>5. width = t[s.offset + s.row + 1] /\ col <= t[s.offset + s.row + 1]
    <2>1. s.row + s.offset < Len(t) /\ s.row + s.offset + 1 = s.offset + s.row + 1
        BY <1>3
    <2>2. width = t[s.offset + s.row + 1]
        BY <1>4, <2>1
    <2> QED
        BY <1>4, <2>2
<1>6. CASE InWindow(s.row, col)
    BY <1>1, <1>2, <1>3, <1>4, <1>5, <1>6
<1>7. CASE ~ InWindow(s.row, col)
    <2>1. ~ col < maxx
        BY <1>1, <1>2, <1>3, <1>7, SMTT(30) DEF InWindow
    <2>2. ~ x + dx < maxx
        BY <1>1, <1>4, <2>1
    <2>3. dy = 0 /\ y < nd /\ x <= t[lineoffset + y + 1]
        BY <2>2
    <2>4. s.offset = lineoffset
        BY <1>1, <1>3, <2>3
    <2>5. lineoffset' = lineoffset /\ y' = y /\ x' = x
        BY <1>4, <1>7, <2>4
    <2> QED
        BY <2>3, <2>5
<1> QED
    BY <1>6, <1>7

(***************************************************************************)
(* The initial states, and every step.                                     *)
(***************************************************************************)
LEMMA InitInv == Init => Inv
<1> SUFFICES ASSUME Init PROVE Inv
    OBVIOUS
<1>1. text \in Seq(Nat) /\ Len(text) = 1 /\ text[1] = 0
    BY DEF Init
<1>2. maxy \in Height /\ seen \in Height /\ 0 \in 0 .. maxy - 1 /\ 0 \in 0 .. maxx - 1
    BY ViewAssumption DEF Init
<1>3. TypeOK
    <2>1. numlines \in Int /\ numdisplaylines \in Int /\ lineoffset \in Nat /\ drift \in Int
        BY DEF Init
    <2>2. y \in 0 .. maxy - 1 /\ x \in 0 .. maxx - 1
        BY <1>2 DEF Init
    <2>3. resized \in BOOLEAN /\ disturbed \in BOOLEAN
        BY Zenon DEF Init
    <2> QED
        BY <1>1, <1>2, <2>1, <2>2, <2>3 DEF TypeOK
<1> QED
    <2>1. /\ numlines = 1 /\ numdisplaylines = 1 /\ lineoffset = 0 /\ y = 0 /\ x = 0
          /\ drift = 0 /\ resized = FALSE /\ disturbed = FALSE
        BY DEF Init
    <2>2. 1 = Lesser(1, maxy)
        BY <1>2, ViewAssumption DEF Lesser
    <2>3. CountersExact /\ DisplayExact
        BY <1>1, <2>1, <2>2 DEF CountersExact, DisplayExact
    <2>4. RowsFilled
        BY <1>1, <2>1 DEF RowsFilled
    <2> QED
        BY <1>3, <2>3, <2>4 DEF Inv

\* What the invariant says of the values that a step starts from.
LEMMA Facts ==
    ASSUME Inv
    PROVE  /\ text \in Seq(Nat) /\ Len(text) \in Nat
           /\ numlines \in Int /\ numdisplaylines \in Int /\ lineoffset \in Nat
           /\ maxy \in Nat \ {0} /\ seen \in Nat \ {0} /\ maxx \in Nat \ {0}
           /\ y \in Nat /\ x \in Nat /\ y < maxy /\ x < maxx
           /\ drift \in Int /\ resized \in BOOLEAN /\ disturbed \in BOOLEAN
BY ViewAssumption DEF Inv, TypeOK

\* What it says while nothing disturbs the cursor.
LEMMA Filled ==
    ASSUME Inv, ~ disturbed
    PROVE  /\ ~ resized /\ drift = 0 /\ numlines = Len(text)
           /\ 1 <= numdisplaylines /\ numdisplaylines <= maxy
           /\ numdisplaylines = Lesser(numlines, maxy)
           /\ lineoffset + numdisplaylines <= numlines
           /\ y < numdisplaylines
           /\ x <= text[lineoffset + y + 1]
<1>1. /\ ~ resized /\ drift = 0 /\ 1 <= numdisplaylines
      /\ lineoffset + numdisplaylines <= numlines /\ y < numdisplaylines
      /\ x <= text[lineoffset + y + 1]
    BY DEF Inv, RowsFilled
<1>2. numdisplaylines = Lesser(numlines, maxy) /\ numlines = Len(text)
    BY <1>1, Facts DEF Inv, DisplayExact, CountersExact
<1>3. numdisplaylines <= maxy
    BY <1>2, Facts DEF Lesser
<1> QED
    BY <1>1, <1>2, <1>3

LEMMA ArrowKeeps ==
    ASSUME Inv, NEW dx \in {-1, 0, 1}, NEW dy \in {-1, 0, 1}, dx = 0 \/ dy = 0,
           KEY_Arrow(dx, dy)
    PROVE  Inv'
<1>1. /\ UNCHANGED << text, numlines, numdisplaylines, maxy, drift, resized, disturbed >>
      /\ seen' = maxy
      /\ move_win_rel(dx, dy, text, numlines, numdisplaylines)
    BY DEF KEY_Arrow, Key, counters, history
<1>2. TypeOK'
    BY <1>1, Facts, MoveType DEF Inv, TypeOK
<1>3. CountersExact' /\ DisplayExact'
    BY <1>1 DEF Inv, CountersExact, DisplayExact
<1>4. ASSUME ~ disturbed PROVE RowsFilled'
    <2>1. y + dy <= numdisplaylines
        <3>1. y \in Nat /\ y < numdisplaylines /\ numdisplaylines \in Int
            BY <1>4, Facts, Filled
        <3> QED
            BY ONLY <3>1, dy \in {-1, 0, 1}
    <2>2. x + dx < maxx \/ (dy = 0 /\ y < numdisplaylines /\ x <= text[lineoffset + y + 1])
        <3>1. CASE dx = 0
            BY <3>1, Facts
        <3>2. CASE dy = 0
            BY <1>4, <3>2, Filled
        <3> QED
            BY <3>1, <3>2
    <2>3. /\ lineoffset' + numdisplaylines <= numlines /\ y' < numdisplaylines
          /\ x' <= text[lineoffset' + y' + 1]
        <3>1. /\ TypeOK /\ dx \in Int /\ dy \in Int /\ text \in Seq(Nat)
              /\ numlines \in Int /\ numdisplaylines \in Int
              /\ numlines = Len(text) /\ 1 <= numdisplaylines /\ numdisplaylines <= maxy
              /\ lineoffset + numdisplaylines <= numlines
            BY <1>4, Facts, Filled DEF Inv
        <3> QED
            BY ONLY <1>1, <2>1, <2>2, <3>1, MoveStays
    <2> QED
        BY <1>1, <1>4, <2>3, Filled DEF RowsFilled
<1> QED
    BY <1>1, <1>2, <1>3, <1>4 DEF Inv, RowsFilled

LEMMA EnterKeeps ==
    ASSUME Inv, ENTER_KEY
    PROVE  Inv'
<1> DEFINE l  == y + lineoffset
           t1 == text'
           n1 == numlines'
           d1 == numdisplaylines'
           o1 == lineoffset'
           y1 == y'
           f1 == drift'
           s  == Scrolled(y + 1, n1, d1, lineoffset)
<1>1. /\ n1 = numlines + 1 /\ t1 = Split(l, x)
      /\ d1 = IF numdisplaylines < seen THEN numdisplaylines + 1 ELSE numdisplaylines
      /\ o1 = s.offset /\ y1 = IF s.row < maxy THEN s.row ELSE y
      /\ f1 = IF Inside(l, x) THEN drift ELSE drift + 1
    BY DEF ENTER_KEY, DisplayMore
<1>2. /\ seen' = maxy /\ maxy' = maxy /\ x' = 0
      /\ resized' = (resized \/ seen # maxy)
      /\ disturbed' = (disturbed \/ seen # maxy)
    BY DEF ENTER_KEY, Key
<1>3. s = Scrolled(y + 1, n1, d1, lineoffset) /\ l = y + lineoffset
    OBVIOUS
<1> HIDE DEF l, t1, n1, d1, o1, y1, f1, s
<1>4. /\ y \in Nat /\ y + 1 \in Int /\ lineoffset \in Nat /\ l \in Nat /\ n1 \in Int /\ d1 \in Int
      /\ y < maxy /\ maxy \in Nat /\ numlines \in Int /\ numdisplaylines \in Int
    <2>1. /\ y \in Nat /\ lineoffset \in Nat /\ numlines \in Int /\ numdisplaylines \in Int
          /\ y < maxy /\ maxy \in Nat
        BY Facts
    <2> QED
        BY ONLY <1>1, <1>3, <2>1
<1>5. s.offset \in Nat /\ s.row \in Nat
    BY ONLY <1>3, <1>4, ScrolledType
<1>6. t1 \in Seq(Nat) /\ Len(t1) = Len(text) + (IF Inside(l, x) THEN 1 ELSE 0)
    <2>1. text \in Seq(Nat) /\ l \in Nat /\ x \in Nat
        BY <1>4, Facts
    <2> QED
        BY ONLY <1>1, <2>1, SplitText
<1>7. o1 \in Nat /\ y1 \in 0 .. maxy - 1 /\ f1 \in Int
    BY <1>1, <1>4, <1>5, Facts
<1>8. n1 = Len(t1) + f1
    <2>1. numlines = Len(text) + drift /\ drift \in Int /\ Len(text) \in Nat
        BY Facts DEF Inv, CountersExact
    <2> QED
        BY <1>1, <1>6, <2>1
<1>9. ASSUME ~ resized' PROVE d1 = Lesser(n1, maxy)
    <2>1. seen = maxy /\ numdisplaylines = Lesser(numlines, maxy)
        BY <1>2, <1>9 DEF Inv, DisplayExact
    <2> QED
        BY <1>1, <2>1, Facts DEF Lesser
<1>10. ASSUME ~ disturbed'
       PROVE  /\ ~ resized' /\ f1 = 0 /\ 1 <= d1 /\ o1 + d1 <= n1 /\ y1 < d1
              /\ 0 <= t1[o1 + y1 + 1]
    <2>1. ~ disturbed /\ seen = maxy
        BY <1>2, <1>10
    <2>2. /\ lineoffset + numdisplaylines <= numlines /\ y < numdisplaylines
          /\ 1 <= numdisplaylines /\ numdisplaylines <= maxy
          /\ numlines = Len(text) /\ ~ resized /\ drift = 0
          /\ x <= text[lineoffset + y + 1]
        BY <2>1, Filled
    <2>3. lineoffset + y + 1 = l + 1 /\ l < Len(text)
        BY ONLY <1>3, <1>4, <2>2
    <2>4. Inside(l, x)
        BY <2>2, <2>3 DEF Inside
    <2>5. 1 <= d1 /\ lineoffset + d1 <= n1 /\ y + 1 <= d1 /\ y < d1
        BY ONLY <1>1, <1>4, <2>2
    <2>6. s.offset + d1 <= n1 /\ s.row < d1
        BY ONLY <1>3, <1>4, <2>5, ScrolledStays
    <2>7. o1 + d1 <= n1 /\ y1 < d1
        BY <1>1, <2>5, <2>6
    <2>8. o1 + y1 + 1 \in 1 .. n1
        BY ONLY <1>4, <1>7, <2>5, <2>7
    <2>9. n1 = Len(t1)
        BY <1>1, <1>6, <2>2, <2>4
    <2>10. t1[o1 + y1 + 1] \in Nat
        BY ONLY <1>6, <2>8, <2>9
    <2>11. ~ resized'
        BY <1>2, <2>1, <2>2
    <2>12. f1 = 0
        BY ONLY <1>1, <2>2, <2>4
    <2>13. 0 <= t1[o1 + y1 + 1]
        BY ONLY <2>10
    <2> QED
        BY <2>5, <2>7, <2>11, <2>12, <2>13
<1>11. TypeOK'
    <2>1. resized' \in BOOLEAN /\ disturbed' \in BOOLEAN
        BY <1>2, Facts, Zenon
    <2>2. x' \in 0 .. maxx - 1 /\ seen' \in Height /\ maxy' \in Height
        BY <1>2, Facts DEF Inv, TypeOK
    <2> QED
        BY <1>2, <1>4, <1>6, <1>7, <2>1, <2>2 DEF TypeOK, t1, n1, d1, o1, y1, f1
<1>12. CountersExact' /\ DisplayExact'
    BY <1>2, <1>8, <1>9 DEF CountersExact, DisplayExact, t1, n1, d1, f1
<1>13. RowsFilled'
    BY <1>2, <1>10 DEF RowsFilled, t1, n1, d1, o1, y1, f1
<1> QED
    BY <1>11, <1>12, <1>13 DEF Inv

\* An edit that keeps the lines, with a cursor that stays where it is or moves
\* within them.
LEMMA SameLinesKeep ==
    ASSUME Inv, text' \in Seq(Nat), Len(text') = Len(text),
           UNCHANGED << numlines, numdisplaylines, maxy, drift, resized, disturbed >>,
           seen' \in Height,
           lineoffset' \in Nat, y' \in 0 .. maxy' - 1, x' \in 0 .. maxx - 1,
           ~ disturbed => /\ lineoffset' + numdisplaylines <= numlines
                          /\ y' < numdisplaylines
                          /\ x' <= text'[lineoffset' + y' + 1]
    PROVE  Inv'
<1>1. TypeOK'
    BY DEF Inv, TypeOK
<1>2. CountersExact' /\ DisplayExact'
    BY DEF Inv, CountersExact, DisplayExact
<1>3. RowsFilled'
    BY DEF Inv, RowsFilled
<1> QED
    BY <1>1, <1>2, <1>3 DEF Inv

LEMMA BackspaceCharKeeps ==
    ASSUME Inv, BackspaceChar
    PROVE  Inv'
<1>1. /\ UNCHANGED << numlines, numdisplaylines, maxy, drift, resized, disturbed >>
      /\ seen' = maxy /\ x > 0
      /\ move_win_rel(-1, 0, text, numlines, numdisplaylines)
      /\ text' \in Narrowed(text, y' + lineoffset', x')
    BY DEF BackspaceChar, Key, counters, history
<1>2. TypeOK /\ numlines \in Int /\ numdisplaylines \in Int /\ text \in Seq(Nat)
    BY Facts DEF Inv
<1>3. lineoffset' \in Nat /\ y' \in 0 .. maxy' - 1 /\ x' \in 0 .. maxx - 1
    BY <1>1, <1>2, MoveType
<1>4. y' + lineoffset' \in Nat /\ x' \in Nat
    <2> DEFINE y1 == y'
               o1 == lineoffset'
    <2>1. y1 \in Nat /\ o1 \in Nat /\ x' \in Nat
        BY <1>3
    <2> HIDE DEF y1, o1
    <2>2. y1 + o1 \in Nat
        BY ONLY <2>1
    <2> QED
        BY <2>1, <2>2 DEF y1, o1
<1>5. /\ text' \in Seq(Nat) /\ Len(text') = Len(text)
      /\ y' + lineoffset' < Len(text) /\ x' < text[y' + lineoffset' + 1]
            => x' <= text'[y' + lineoffset' + 1]
    BY <1>1, <1>2, <1>4, NarrowedText
<1>6. ASSUME ~ disturbed
      PROVE  /\ lineoffset' = lineoffset /\ y' = y /\ x' < x
    <2> DEFINE s == Scrolled(y + 0, numlines, numdisplaylines, lineoffset)
    <2>1. PICK width, col \in Nat :
              /\ col <= x + -1 \/ col = 0
              /\ lineoffset' = s.offset
              /\ IF InWindow(s.row, col) THEN y' = s.row /\ x' = col
                                         ELSE y' = y /\ x' = x
        BY <1>1, <1>2, MoveSteps
    <2>2. s.row = y /\ s.offset = lineoffset
        <3>1. /\ 1 <= numdisplaylines /\ lineoffset + numdisplaylines <= numlines
              /\ y < numdisplaylines
            BY <1>6, Filled
        <3>2. y + 0 = y /\ y \in Nat /\ lineoffset \in Nat
            BY Facts
        <3> QED
            BY <1>2, <3>1, <3>2 DEF Scrolled, Greater
    <2> HIDE DEF s
    <2>3. col < x /\ x < maxx /\ y < maxy
        BY <1>1, <2>1, Facts
    <2>4. InWindow(y, col)
        BY <2>3, Facts DEF InWindow
    <2> QED
        BY <2>1, <2>2, <2>3, <2>4
<1>7. ASSUME ~ disturbed
      PROVE  /\ lineoffset' + numdisplaylines <= numlines /\ y' < numdisplaylines
             /\ x' <= text'[lineoffset' + y' + 1]
    <2>1. /\ lineoffset + numdisplaylines <= numlines /\ y < numdisplaylines
          /\ numlines = Len(text) /\ x <= text[lineoffset + y + 1]
        BY <1>7, Filled
    <2>2. /\ y \in Nat /\ lineoffset \in Nat /\ x \in Nat /\ Len(text) \in Nat
        BY Facts
    <2>3. /\ y + lineoffset < Len(text) /\ lineoffset + y + 1 = y + lineoffset + 1
          /\ lineoffset + y + 1 \in 1 .. Len(text)
        BY ONLY <1>2, <2>1, <2>2
    <2>4. x' < text[y + lineoffset + 1]
        <3>1. text[lineoffset + y + 1] \in Nat
            BY ONLY <1>2, <2>3
        <3>2. x' < x
            BY <1>6, <1>7
        <3> QED
            BY ONLY <1>4, <2>1, <2>2, <2>3, <3>1, <3>2
    <2> QED
        BY <1>5, <1>6, <1>7, <2>1, <2>3, <2>4
<1>8. seen' \in Height
    BY <1>1 DEF Inv, TypeOK
<1> QED
    BY ONLY Inv, <1>1, <1>3, <1>5, <1>7, <1>8, SameLinesKeep

\* A join counted down, whether the text has refused it or not.
LEMMA CountedJoin ==
    ASSUME Inv, NEW l \in Nat,
           text' = Joined(l), CountJoin, UNCHANGED << maxy, resized >>,
           drift' = IF CanJoin(l) THEN drift ELSE drift - 1
    PROVE  /\ text' \in Seq(Nat) /\ numlines' \in Int /\ numdisplaylines' \in Int
           /\ drift' \in Int
           /\ CanJoin(l) => text[l] <= text'[l] /\ Len(text') = Len(text) - 1
           /\ numlines' = numlines - 1
           /\ numdisplaylines' = IF numlines = numdisplaylines
                                 THEN numdisplaylines - 1 ELSE numdisplaylines
           /\ CountersExact' /\ DisplayExact'
<1> DEFINE t1 == text'
           n1 == numlines'
           d1 == numdisplaylines'
           f1 == drift'
<1>1. /\ t1 = Joined(l) /\ n1 = numlines - 1
      /\ d1 = IF numlines = numdisplaylines THEN numdisplaylines - 1 ELSE numdisplaylines
      /\ f1 = IF CanJoin(l) THEN drift ELSE drift - 1
    BY DEF CountJoin
<1> HIDE DEF t1, n1, d1, f1
<1>2. /\ text \in Seq(Nat) /\ Len(text) \in Nat /\ drift \in Int
      /\ numlines \in Int /\ numdisplaylines \in Int /\ maxy \in Nat
    BY Facts
<1>3. /\ t1 \in Seq(Nat)
      /\ CanJoin(l) => text[l] <= t1[l]
      /\ Len(t1) = Len(text) - (IF CanJoin(l) THEN 1 ELSE 0)
    BY ONLY <1>1, <1>2, l \in Nat, JoinedText
<1>4. n1 \in Int /\ d1 \in Int /\ f1 \in Int
    BY ONLY <1>1, <1>2
<1>5. n1 = Len(t1) + f1
    <2>1. numlines = Len(text) + drift
        BY DEF Inv, CountersExact
    <2>2. CASE CanJoin(l)
        BY <1>1, <1>2, <1>3, <2>1, <2>2
    <2>3. CASE ~ CanJoin(l)
        BY <1>1, <1>2, <1>3, <2>1, <2>3
    <2> QED
        BY ONLY <2>2, <2>3
<1>6. ASSUME ~ resized PROVE d1 = Lesser(n1, maxy)
    <2>1. numdisplaylines = Lesser(numlines, maxy)
        BY <1>6 DEF Inv, DisplayExact
    <2> QED
        BY ONLY <1>1, <1>2, <2>1 DEF Lesser
<1>7. CountersExact' /\ DisplayExact'
    BY <1>5, <1>6 DEF CountersExact, DisplayExact, t1, n1, d1, f1
<1>8. CanJoin(l) => text[l] <= t1[l] /\ Len(t1) = Len(text) - 1
    BY ONLY <1>3
<1> QED
    BY <1>1, <1>3, <1>4, <1>7, <1>8 DEF t1, n1, d1, f1

LEMMA BackspaceJoinKeeps ==
    ASSUME Inv, BackspaceJoin
    PROVE  Inv'
<1> DEFINE l  == y + lineoffset
           t1 == text'
           n1 == numlines'
           d1 == numdisplaylines'
           o1 == lineoffset'
           y1 == y'
           x1 == x'
<1>1. PICK above_width \in line_width(text, l - 1) :
         /\ move_win_rel(above_width, -1, t1, n1, d1)
         /\ disturbed' = (disturbed \/ lineoffset > 0 \/ above_width >= maxx)
    BY DEF BackspaceJoin
<1>2. /\ seen' = maxy /\ maxy' = maxy /\ resized' = resized /\ x = 0 /\ y > 0
      /\ t1 = Joined(l) /\ CountJoin
      /\ drift' = IF CanJoin(l) THEN drift ELSE drift - 1
    BY DEF BackspaceJoin, Key
<1>3. l = y + lineoffset
    OBVIOUS
<1>4. l \in Nat /\ l - 1 \in Nat
    BY <1>2, Facts
<1> HIDE DEF l
<1>5. /\ t1 \in Seq(Nat) /\ n1 \in Int /\ d1 \in Int /\ drift' \in Int
      /\ CanJoin(l) => Len(t1) = Len(text) - 1
      /\ n1 = numlines - 1
      /\ d1 = IF numlines = numdisplaylines
                            THEN numdisplaylines - 1 ELSE numdisplaylines
      /\ CountersExact' /\ DisplayExact'
    BY <1>2, <1>4, CountedJoin
<1>6. above_width \in Nat
    BY <1>1, <1>4, Facts, WidthType
<1> HIDE DEF t1, n1, d1
<1>7. TypeOK /\ above_width \in Int /\ -1 \in Int /\ maxy' = maxy
    BY <1>2, <1>6 DEF Inv
<1>8. o1 \in Nat /\ y1 \in 0 .. maxy' - 1 /\ x1 \in 0 .. maxx - 1
    BY ONLY <1>1, <1>5, <1>7, MoveType
<1>9. TypeOK'
    <2>1. resized' \in BOOLEAN /\ disturbed' \in BOOLEAN
        BY <1>1, <1>2, Facts, Zenon
    <2>2. seen' \in Height /\ maxy' \in Height
        BY <1>2 DEF Inv, TypeOK
    <2> QED
        BY <1>2, <1>5, <1>8, <2>1, <2>2 DEF TypeOK, t1, n1, d1, o1, y1, x1
<1>10. ASSUME ~ disturbed'
       PROVE  /\ ~ resized /\ drift' = 0 /\ 1 <= d1 /\ o1 + d1 <= n1 /\ y1 < d1
              /\ x1 <= t1[o1 + y1 + 1]
    <2>1. ~ disturbed /\ ~ lineoffset > 0 /\ ~ above_width >= maxx
        BY <1>1, <1>10
    <2>2. /\ ~ resized /\ drift = 0 /\ numlines = Len(text)
          /\ 1 <= numdisplaylines /\ numdisplaylines <= maxy
          /\ lineoffset + numdisplaylines <= numlines /\ y < numdisplaylines
        BY <2>1, Filled
    <2>3. /\ Len(text) \in Nat /\ numlines \in Int /\ numdisplaylines \in Int
          /\ lineoffset \in Nat /\ y \in Nat /\ maxy \in Nat /\ maxx \in Nat
        BY Facts
    <2>4. CanJoin(l)
        BY ONLY <1>2, <1>3, <2>2, <2>3 DEF CanJoin
    <2>5. n1 = Len(t1) /\ drift' = 0
        BY ONLY <1>2, <1>5, <2>2, <2>4
    <2>6. 1 <= d1 /\ d1 <= maxy /\ lineoffset + d1 <= n1 /\ y + -1 <= d1
        BY ONLY <1>2, <1>5, <2>1, <2>2, <2>3
    <2>7. x + above_width < maxx
        BY ONLY <1>2, <1>6, <2>1, <2>3
    <2>8. o1 + d1 <= n1 /\ y1 < d1 /\ x1 <= t1[o1 + y1 + 1]
        BY ONLY <1>1, <1>5, <1>7, <2>5, <2>6, <2>7, MoveStays
    <2> QED
        BY <2>2, <2>5, <2>6, <2>8
<1>11. RowsFilled'
    BY <1>2, <1>10 DEF RowsFilled, t1, n1, d1, o1, y1, x1
<1> QED
    BY <1>5, <1>9, <1>11 DEF Inv

LEMMA DeleteCharKeeps ==
    ASSUME Inv, DeleteChar
    PROVE  Inv'
<1> DEFINE l == y + lineoffset
<1>1. /\ UNCHANGED << numlines, numdisplaylines, maxy, drift, resized, disturbed >>
      /\ seen' = maxy /\ lineoffset' = lineoffset /\ y' = y /\ x' = x
      /\ text' \in Narrowed(text, l, x)
    BY DEF DeleteChar, Key, counters, cursor, history
<1>2. PICK width \in line_width(text, l) : x < width
    BY DEF DeleteChar
<1>3. l \in Nat /\ x \in Nat /\ text \in Seq(Nat)
    BY Facts
<1>4. /\ text' \in Seq(Nat) /\ Len(text') = Len(text)
      /\ l < Len(text) /\ x < text[l + 1] => x <= text'[l + 1]
    BY <1>1, <1>3, NarrowedText
<1>5. ASSUME ~ disturbed
      PROVE  /\ lineoffset + numdisplaylines <= numlines /\ y < numdisplaylines
             /\ x <= text'[lineoffset + y + 1]
    <2>1. /\ lineoffset + numdisplaylines <= numlines /\ y < numdisplaylines
          /\ numlines = Len(text)
        BY <1>5, Filled
    <2>2. l < Len(text) /\ lineoffset + y + 1 = l + 1
        BY <2>1, Facts, SMTT(30)
    <2>3. x < text[l + 1]
        BY <1>2, <1>3, <2>2, WidthType
    <2> QED
        BY <1>4, <2>1, <2>2, <2>3
<1>6. /\ seen' \in Height /\ lineoffset' \in Nat
      /\ y' \in 0 .. maxy' - 1 /\ x' \in 0 .. maxx - 1
    BY <1>1 DEF Inv, TypeOK
<1>7. ~ disturbed => /\ lineoffset' + numdisplaylines <= numlines
                     /\ y' < numdisplaylines
                     /\ x' <= text'[lineoffset' + y' + 1]
    BY <1>1, <1>5
<1> QED
    BY ONLY Inv, <1>1, <1>4, <1>6, <1>7, SameLinesKeep

LEMMA DeleteJoinKeeps ==
    ASSUME Inv, DeleteJoin
    PROVE  Inv'
<1> DEFINE l  == y + lineoffset + 1
           t1 == text'
           n1 == numlines'
           d1 == numdisplaylines'
<1>1. PICK width \in line_width(text, y + lineoffset) : x >= width
    BY DEF DeleteJoin
<1>2. /\ seen' = maxy /\ maxy' = maxy /\ resized' = resized /\ y < numlines - 1
      /\ lineoffset' = lineoffset /\ y' = y /\ x' = x
      /\ t1 = Joined(l) /\ CountJoin
      /\ drift' = IF CanJoin(l) THEN drift ELSE drift - 1
      /\ disturbed' = (disturbed \/ lineoffset > 0)
    BY DEF DeleteJoin, Key, cursor
<1>3. /\ l \in Nat /\ y \in Nat /\ lineoffset \in Nat /\ l = y + lineoffset + 1
      /\ numlines \in Int /\ numdisplaylines \in Int /\ Len(text) \in Nat
    BY Facts
<1> HIDE DEF l
<1>4. /\ t1 \in Seq(Nat) /\ n1 \in Int /\ d1 \in Int /\ drift' \in Int
      /\ CanJoin(l) => text[l] <= t1[l] /\ Len(t1) = Len(text) - 1
      /\ n1 = numlines - 1
      /\ d1 = IF numlines = numdisplaylines THEN numdisplaylines - 1 ELSE numdisplaylines
      /\ CountersExact' /\ DisplayExact'
    BY <1>2, <1>3, CountedJoin
<1> HIDE DEF t1, n1, d1
<1>5. TypeOK'
    <2>1. resized' \in BOOLEAN /\ disturbed' \in BOOLEAN
        BY <1>2, Facts, Zenon
    <2>2. /\ seen' \in Height /\ maxy' \in Height /\ lineoffset' \in Nat
          /\ y' \in 0 .. maxy' - 1 /\ x' \in 0 .. maxx - 1
        BY <1>2 DEF Inv, TypeOK
    <2> QED
        BY <1>4, <2>1, <2>2 DEF TypeOK, t1, n1, d1
<1>6. ASSUME ~ disturbed'
      PROVE  /\ ~ resized /\ drift' = 0 /\ 1 <= d1 /\ lineoffset + d1 <= n1 /\ y < d1
             /\ x <= t1[lineoffset + y + 1]
    <2>1. ~ disturbed /\ ~ lineoffset > 0
        BY <1>2, <1>6
    <2>2. /\ ~ resized /\ drift = 0 /\ numlines = Len(text) /\ 1 <= numdisplaylines
          /\ lineoffset + numdisplaylines <= numlines /\ y < numdisplaylines
          /\ x <= text[lineoffset + y + 1]
        BY <2>1, Filled
    <2>3. CanJoin(l)
        BY ONLY <1>2, <1>3, <2>1, <2>2 DEF CanJoin
    <2>4. 1 <= d1 /\ lineoffset + d1 <= n1 /\ y < d1 /\ lineoffset + y + 1 = l
        BY ONLY <1>2, <1>3, <1>4, <2>1, <2>2
    <2>5. l \in 1 .. Len(text) - 1
        BY ONLY <1>2, <1>3, <2>1, <2>2
    <2>6. text[l] \in Nat /\ t1[l] \in Nat /\ x \in Nat
        <3>1. text \in Seq(Nat) /\ x \in Nat
            BY Facts
        <3> QED
            BY ONLY <1>3, <1>4, <2>3, <2>5, <3>1, SMTT(30)
    <2>7. x <= t1[l]
        BY ONLY <1>4, <2>2, <2>3, <2>4, <2>6
    <2> QED
        BY <1>2, <2>2, <2>3, <2>4, <2>7
<1>7. RowsFilled'
    BY <1>2, <1>6 DEF RowsFilled, t1, n1, d1
<1> QED
    BY <1>4, <1>5, <1>7 DEF Inv

LEMMA TypeKeeps ==
    ASSUME Inv, NEW n \in Nat, Type(n)
    PROVE  Inv'
<1> DEFINE l  == y + lineoffset
           t1 == text'
<1>1. /\ UNCHANGED << numlines, numdisplaylines, maxy, drift, resized, disturbed >>
      /\ seen' = maxy
      /\ t1 = Widened(l, x, n)
      /\ move_win_rel(n, 0, t1, numlines, numdisplaylines)
    BY DEF Type, Key, counters, history
<1>2. /\ l \in Nat /\ x \in Nat /\ text \in Seq(Nat) /\ Len(text) \in Nat
      /\ numlines \in Int /\ numdisplaylines \in Int
      /\ y \in Nat /\ lineoffset \in Nat /\ l = y + lineoffset
      /\ n \in Int /\ 0 \in Int
    BY Facts
<1> HIDE DEF l
<1>3. /\ t1 \in Seq(Nat) /\ Len(t1) = Len(text)
      /\ \A k \in 1 .. Len(text) : text[k] <= t1[k]
    <2>1. l \in Nat /\ x \in Nat /\ n \in Nat /\ text \in Seq(Nat) /\ t1 = Widened(l, x, n)
        BY <1>1, <1>2
    <2> HIDE DEF t1
    <2> QED
        BY ONLY <2>1, WidenedText
<1> HIDE DEF t1
<1>4. TypeOK /\ maxy' = maxy
    BY <1>1 DEF Inv
<1>5. lineoffset' \in Nat /\ y' \in 0 .. maxy' - 1 /\ x' \in 0 .. maxx - 1
    BY ONLY <1>1, <1>2, <1>3, <1>4, MoveType
<1>6. ASSUME ~ disturbed
      PROVE  /\ lineoffset' + numdisplaylines <= numlines /\ y' < numdisplaylines
             /\ x' <= t1[lineoffset' + y' + 1]
    <2>1. /\ lineoffset + numdisplaylines <= numlines /\ y < numdisplaylines
          /\ 1 <= numdisplaylines /\ numdisplaylines <= maxy
          /\ numlines = Len(text) /\ x <= text[lineoffset + y + 1]
        BY <1>6, Filled
    <2>2. lineoffset + y + 1 \in 1 .. Len(text) /\ y + 0 <= numdisplaylines /\ 0 = 0
        BY ONLY <1>2, <2>1
    <2>3. x <= t1[lineoffset + y + 1]
        <3>1. text[lineoffset + y + 1] \in Nat /\ t1[lineoffset + y + 1] \in Nat
            BY ONLY <1>2, <1>3, <2>2
        <3>2. text[lineoffset + y + 1] <= t1[lineoffset + y + 1]
            BY ONLY <1>3, <2>2
        <3> QED
            BY ONLY <1>2, <2>1, <3>1, <3>2
    <2>4. numlines = Len(t1)
        BY <1>3, <2>1
    <2> QED
        BY ONLY <1>1, <1>2, <1>3, <1>4, <2>1, <2>2, <2>3, <2>4, MoveStays
<1>7. seen' \in Height
    BY <1>1 DEF Inv, TypeOK
<1> QED
    BY ONLY Inv, <1>1, <1>3, <1>5, <1>6, <1>7, SameLinesKeep DEF t1

LEMMA NoKeyKeeps ==
    ASSUME Inv, NoKey
    PROVE  Inv'
<1>1. /\ UNCHANGED << text, numlines, numdisplaylines, lineoffset, y, x, maxy,
                      drift, resized, disturbed >>
      /\ seen' = maxy
    BY DEF NoKey, Key, counters, cursor, history
<1> QED
    BY <1>1 DEF Inv, TypeOK, CountersExact, DisplayExact, RowsFilled

LEMMA FullContentKeeps ==
    ASSUME Inv, NEW lines \in Texts, NEW force \in BOOLEAN, FullContent(lines, force)
    PROVE  Inv'
<1> DEFINE offset == IF force THEN 0 ELSE lineoffset
           row    == IF force THEN 0 ELSE y
           o1 == lineoffset'
           d1 == numdisplaylines'
<1>1. /\ text' = lines /\ o1 = (IF offset + row >= Len(lines) THEN 0 ELSE offset)
      /\ y' = row /\ x' = (IF force THEN 0 ELSE x)
      /\ numlines' = Len(lines) /\ d1 = Lesser(Len(lines), maxy)
      /\ drift' = 0 /\ resized' = FALSE
      /\ maxy' = maxy /\ seen' = seen
    BY DEF FullContent
<1>2. disturbed' = IF force THEN lines = << >> ELSE disturbed \/ lines # text
    BY DEF FullContent
<1>3. lines \in Seq(Nat) /\ Len(lines) \in Nat
    BY ViewAssumption
<1>4. offset \in Nat /\ row \in Nat /\ row < maxy
    BY Facts
<1>5. d1 \in Int /\ (1 <= Len(lines) => 1 <= d1) /\ d1 <= Len(lines)
    BY <1>1, <1>3, Facts DEF Lesser
<1>6. ASSUME ~ disturbed'
      PROVE  /\ 1 <= d1 /\ o1 + d1 <= Len(lines) /\ row < d1
             /\ x' <= lines[o1 + row + 1]
    <2>1. CASE force
        <3>1. lines # << >> /\ Len(lines) >= 1
            <4>1. lines # << >>
                BY <1>2, <1>6, <2>1, Zenon
            <4> QED
                BY <1>3, <4>1
        <3>2. o1 = 0 /\ row = 0 /\ x' = 0
            BY <1>1, <2>1
        <3> HIDE DEF offset, row, o1, d1
        <3> QED
            BY <1>3, <1>5, <3>1, <3>2
    <2>2. CASE ~ force
        <3>1. ~ disturbed /\ lines = text
            BY <1>2, <1>6, <2>2
        <3>2. /\ numlines = Len(lines) /\ 1 <= numdisplaylines
              /\ numdisplaylines = Lesser(numlines, maxy)
              /\ lineoffset + numdisplaylines <= numlines
              /\ y < numdisplaylines /\ x <= lines[lineoffset + y + 1]
            BY <3>1, Filled
        <3>3. /\ lineoffset \in Nat /\ y \in Nat /\ numlines \in Int /\ numdisplaylines \in Int
            BY Facts
        <3>4. d1 = numdisplaylines /\ row = y /\ offset = lineoffset /\ x' = x
            BY <1>1, <2>2, <3>2
        <3>5. o1 = lineoffset
            BY ONLY <1>1, <3>2, <3>3, <3>4
        <3> QED
            BY <3>2, <3>4, <3>5
    <2> QED
        BY <2>1, <2>2
<1>7. disturbed' \in BOOLEAN
    <2>1. CASE force
        BY <1>2, <2>1
    <2>2. CASE ~ force
        BY <1>2, <2>2, Facts
    <2> QED
        BY <2>1, <2>2
<1>8. o1 \in Nat /\ x' \in 0 .. maxx - 1 /\ row \in 0 .. maxy - 1 /\ maxy \in Height
      /\ seen \in Height
    <2>1. x' \in Nat /\ x' < maxx /\ maxx \in Nat /\ maxy \in Nat
        BY <1>1, Facts
    <2>2. maxy \in Height /\ seen \in Height
        BY DEF Inv, TypeOK
    <2>3. o1 \in Nat
        BY <1>1, <1>4
    <2> HIDE DEF offset, row, o1, d1
    <2> QED
        BY ONLY <1>4, <2>1, <2>2, <2>3
<1> HIDE DEF offset, row
<1>9. TypeOK'
    <2>1. resized' \in BOOLEAN
        BY <1>1, Zenon
    <2> QED
        BY <1>1, <1>3, <1>5, <1>7, <1>8, <2>1 DEF TypeOK
<1>10. CountersExact' /\ DisplayExact'
    BY <1>1, <1>3 DEF CountersExact, DisplayExact
<1>11. RowsFilled'
    BY <1>1, <1>6 DEF RowsFilled
<1> QED
    BY <1>9, <1>10, <1>11 DEF Inv

LEMMA RemoteCharKeeps ==
    ASSUME Inv, NEW l \in Nat, NEW i \in Nat, RemoteChar(l, i)
    PROVE  Inv'
<1> DEFINE t1 == text'
<1>1. /\ UNCHANGED << numlines, numdisplaylines, lineoffset, y, x, maxy, seen,
                      drift, resized, disturbed >>
      /\ t1 = Widened(l, i, 1)
    BY DEF RemoteChar, counters, cursor, history
<1>2. /\ text \in Seq(Nat) /\ Len(text) \in Nat /\ lineoffset \in Nat /\ y \in Nat
      /\ x \in Nat /\ numlines \in Int /\ numdisplaylines \in Int
    BY Facts
<1>3. /\ t1 \in Seq(Nat) /\ Len(t1) = Len(text)
      /\ \A k \in 1 .. Len(text) : text[k] <= t1[k]
    <2> DEFINE n == 1
    <2>1. /\ l \in Nat /\ i \in Nat /\ n \in Nat /\ text \in Seq(Nat)
          /\ t1 = Widened(l, i, n)
        BY <1>1, <1>2
    <2> HIDE DEF t1, n
    <2> QED
        BY ONLY <2>1, WidenedText
<1> HIDE DEF t1
<1>4. ASSUME ~ disturbed
      PROVE  /\ lineoffset + numdisplaylines <= numlines /\ y < numdisplaylines
             /\ x <= t1[lineoffset + y + 1]
    <2>1. /\ lineoffset + numdisplaylines <= numlines /\ y < numdisplaylines
          /\ numlines = Len(text) /\ x <= text[lineoffset + y + 1]
        BY <1>4, Filled
    <2>2. lineoffset + y + 1 \in 1 .. Len(text)
        BY ONLY <1>2, <2>1
    <2>3. text[lineoffset + y + 1] \in Nat /\ t1[lineoffset + y + 1] \in Nat
        BY ONLY <1>2, <1>3, <2>2
    <2>4. text[lineoffset + y + 1] <= t1[lineoffset + y + 1]
        BY ONLY <1>3, <2>2
    <2>5. x <= t1[lineoffset + y + 1]
        BY ONLY <1>2, <2>1, <2>3, <2>4
    <2> QED
        BY <2>1, <2>5
<1>5. /\ seen' \in Height /\ lineoffset' \in Nat
      /\ y' \in 0 .. maxy' - 1 /\ x' \in 0 .. maxx - 1
    BY <1>1 DEF Inv, TypeOK
<1>6. ~ disturbed => /\ lineoffset' + numdisplaylines <= numlines
                     /\ y' < numdisplaylines
                     /\ x' <= t1[lineoffset' + y' + 1]
    BY <1>1, <1>4
<1> QED
    BY ONLY Inv, <1>1, <1>3, <1>5, <1>6, SameLinesKeep DEF t1

LEMMA RemoteEnterKeeps ==
    ASSUME Inv, NEW l \in Nat, NEW i \in Nat, RemoteEnter(l, i)
    PROVE  Inv'
<1> DEFINE t1 == text'
           n1 == numlines'
           d1 == numdisplaylines'
           f1 == drift'
<1>1. /\ t1 = Split(l, i) /\ n1 = numlines + 1
      /\ d1 = IF numdisplaylines < maxy THEN numdisplaylines + 1 ELSE numdisplaylines
      /\ f1 = IF Inside(l, i) THEN drift ELSE drift + 1
    BY DEF RemoteEnter, DisplayMore
<1>2. /\ disturbed' = TRUE /\ UNCHANGED << lineoffset, y, x, maxy, seen, resized >>
    BY DEF RemoteEnter, cursor
<1> HIDE DEF t1, n1, d1, f1
<1>3. /\ text \in Seq(Nat) /\ Len(text) \in Nat /\ drift \in Int
      /\ numlines \in Int /\ numdisplaylines \in Int /\ maxy \in Nat
    BY Facts
<1>4. t1 \in Seq(Nat) /\ Len(t1) = Len(text) + (IF Inside(l, i) THEN 1 ELSE 0)
    BY <1>1, <1>3, SplitText
<1>5. n1 \in Int /\ d1 \in Int /\ f1 \in Int
    BY ONLY <1>1, <1>3
<1>6. n1 = Len(t1) + f1
    <2>1. numlines = Len(text) + drift
        BY DEF Inv, CountersExact
    <2>2. CASE Inside(l, i)
        BY <1>1, <1>3, <1>4, <2>1, <2>2
    <2>3. CASE ~ Inside(l, i)
        BY <1>1, <1>3, <1>4, <2>1, <2>3
    <2> QED
        BY ONLY <2>2, <2>3
<1>7. ASSUME ~ resized PROVE d1 = Lesser(n1, maxy)
    <2>1. numdisplaylines = Lesser(numlines, maxy)
        BY <1>7 DEF Inv, DisplayExact
    <2> QED
        BY ONLY <1>1, <1>3, <2>1 DEF Lesser
<1>8. TypeOK'
    BY <1>2, <1>4, <1>5 DEF Inv, TypeOK, t1, n1, d1, f1
<1>9. CountersExact' /\ DisplayExact' /\ RowsFilled'
    BY <1>2, <1>6, <1>7 DEF CountersExact, DisplayExact, RowsFilled, t1, n1, d1, f1
<1> QED
    BY <1>8, <1>9 DEF Inv

LEMMA RemoteRemoveKeeps ==
    ASSUME Inv, NEW l \in Nat, NEW i \in Nat, RemoteRemove(l, i)
    PROVE  Inv'
<1>1. /\ text' \in Narrowed(text, l, i) /\ disturbed' = TRUE
      /\ UNCHANGED << numlines, numdisplaylines, lineoffset, y, x, maxy, seen,
                      drift, resized >>
    BY DEF RemoteRemove, counters, cursor
<1>2. text' \in Seq(Nat) /\ Len(text') = Len(text)
    BY <1>1, Facts, NarrowedText
<1> QED
    BY <1>1, <1>2 DEF Inv, TypeOK, CountersExact, DisplayExact, RowsFilled

LEMMA RemoteJoinKeeps ==
    ASSUME Inv, NEW l \in Nat, RemoteJoin(l)
    PROVE  Inv'
<1> DEFINE n1 == numlines'
<1>1. /\ text' = Joined(l) /\ CountJoin
      /\ drift' = IF CanJoin(l) THEN drift ELSE drift - 1
      /\ lineoffset' = IF lineoffset + y >= n1 THEN Greater(n1 - y, 0) ELSE lineoffset
      /\ disturbed' = TRUE /\ UNCHANGED << y, x, maxy, seen, resized >>
    BY DEF RemoteJoin
<1>2. /\ text' \in Seq(Nat) /\ n1 \in Int /\ numdisplaylines' \in Int
      /\ drift' \in Int /\ CountersExact' /\ DisplayExact'
    BY <1>1, CountedJoin
<1> HIDE DEF n1
<1>3. lineoffset' \in Nat
    <2>1. y \in Nat /\ lineoffset \in Nat
        BY Facts
    <2>2. Greater(n1 - y, 0) \in Nat
        BY ONLY <1>2, <2>1 DEF Greater
    <2> QED
        BY <1>1, <2>1, <2>2
<1>4. TypeOK' /\ RowsFilled'
    BY <1>1, <1>2, <1>3 DEF Inv, TypeOK, RowsFilled, n1
<1> QED
    BY <1>2, <1>4 DEF Inv

LEMMA ResizeKeeps ==
    ASSUME Inv, NEW h \in Height, Resize(h)
    PROVE  Inv'
<1>1. /\ maxy' = h /\ numdisplaylines' = Lesser(h, numdisplaylines)
      /\ y' = Lesser(y, h - 1) /\ resized' = TRUE /\ disturbed' = TRUE
      /\ UNCHANGED << text, numlines, lineoffset, x, seen, drift >>
    BY DEF Resize
<1>2. h \in Nat \ {0}
    BY ViewAssumption
<1>3. numdisplaylines' \in Int /\ y' \in 0 .. h - 1
    BY <1>1, <1>2, Facts DEF Lesser
<1> QED
    BY <1>1, <1>3 DEF Inv, TypeOK, CountersExact, DisplayExact, RowsFilled

LEMMA StepInv == Inv /\ [Next]_vars => Inv'
<1> SUFFICES ASSUME Inv, [Next]_vars PROVE Inv'
    OBVIOUS
<1>1. CASE KEY_Arrow(0, -1) \/ KEY_Arrow(0, 1) \/ KEY_Arrow(-1, 0) \/ KEY_Arrow(1, 0)
    BY <1>1, ArrowKeeps
<1>2. CASE ENTER_KEY
    BY <1>2, EnterKeeps
<1>3. CASE BackspaceChar
    BY <1>3, BackspaceCharKeeps
<1>4. CASE BackspaceJoin
    BY <1>4, BackspaceJoinKeeps
<1>5. CASE DeleteChar
    BY <1>5, DeleteCharKeeps
<1>6. CASE DeleteJoin
    BY <1>6, DeleteJoinKeeps
<1>7. CASE Type(1) \/ Type(4)
    BY <1>7, TypeKeeps
<1>8. CASE NoKey
    BY <1>8, NoKeyKeeps
<1>9. CASE Remote
    <2>1. ASSUME NEW lines \in Texts, NEW force \in BOOLEAN, FullContent(lines, force)
          PROVE  Inv'
        BY <2>1, FullContentKeeps
    <2>2. ASSUME NEW l \in 0 .. MaxLines, NEW i \in 0 .. MaxChars,
                 RemoteChar(l, i) \/ RemoteEnter(l, i) \/ RemoteRemove(l, i)
          PROVE  Inv'
        <3>1. l \in Nat /\ i \in Nat
            BY ViewAssumption
        <3> QED
            BY <2>2, <3>1, RemoteCharKeeps, RemoteEnterKeeps, RemoteRemoveKeeps
    <2>3. ASSUME NEW l \in 1 .. MaxLines, RemoteJoin(l) PROVE Inv'
        <3>1. l \in Nat
            BY ViewAssumption
        <3> QED
            BY <2>3, <3>1, RemoteJoinKeeps
    <2> QED
        BY <1>9, <2>1, <2>2, <2>3 DEF Remote
<1>10. CASE \E h \in Height \ {maxy} : Resize(h)
    BY <1>10, ResizeKeeps
<1>11. CASE UNCHANGED vars
    BY <1>11 DEF vars, counters, cursor, history, Inv, TypeOK, CountersExact,
                 DisplayExact, RowsFilled
<1> QED
    BY <1>1, <1>2, <1>3, <1>4, <1>5, <1>6, <1>7, <1>8, <1>9, <1>10, <1>11
    DEF Next, Local

\* Filled rows hold the cursor on a line of the text.
LEMMA InvCursor == Inv => CursorInText
<1> SUFFICES ASSUME Inv, ~ disturbed
             PROVE  /\ lineoffset + y < Len(text)
                    /\ x <= text[lineoffset + y + 1]
                    /\ drift = 0
    BY DEF CursorInText
<1> QED
    BY Filled, Facts

(***************************************************************************)
(* The theorems.                                                           *)
(***************************************************************************)

\* The strengthened invariant holds of every behaviour.
THEOREM Invariant == Spec => []Inv
BY InitInv, StepInv, PTL DEF Spec

\* Whatever the keys, the packets and the resizings, the cursor stays inside the
\* window and every variable keeps its type (move_win_rel, resize_handler).
THEOREM TypeCorrect == Spec => []TypeOK
<1>1. Inv => TypeOK
    BY DEF Inv
<1> QED
    BY <1>1, Invariant, PTL

\* The line counter of the client is off by the refused line breaks and joins and
\* by nothing else (editor.cpp, ENTER_KEY, KEY_BACKSPACE, KEY_DC, Remove, Enter).
THEOREM CountersExactAlways == Spec => []CountersExact
<1>1. Inv => CountersExact
    BY DEF Inv
<1> QED
    BY <1>1, Invariant, PTL

\* The counter of the rows in use follows it as long as the window keeps its size.
THEOREM DisplayExactAlways == Spec => []DisplayExact
<1>1. Inv => DisplayExact
    BY DEF Inv
<1> QED
    BY <1>1, Invariant, PTL

\* While nothing disturbs it, the cursor stands in the text and its user's edits
\* are accepted.
THEOREM CursorInTextAlways == Spec => []CursorInText
BY Invariant, InvCursor, PTL
=============================================================================
