--------------------------- MODULE TextBufferProofs ---------------------------
(***************************************************************************)
(* The two texts, of any size and for files of any contents.               *)
(*                                                                         *)
(* First the container of the default build: undoing an edit, swapping two *)
(* edits, the round trip through the wire, and that the lines implement a  *)
(* flat text.                                                              *)
(*                                                                         *)
(* Then the list of the LOCKFREE build, which has the characters of a      *)
(* text, and each member function of which does to them what that of       *)
(* BlockingVector does to its vector: the characters of slots, buffers and *)
(* lines, and the place at which insertIntoLine() puts one; a line broken, *)
(* joined and emptied; the lists; what is read into a new list and saved   *)
(* from one; last the invariant of LockfreeClient.                         *)
(***************************************************************************)
EXTENDS LockfreeClient, BlockingVectorProofs

-----------------------------------------------------------------------------
\* Putting back the element that was replaced.
LEMMA ReplacedBack ==
    ASSUME NEW S, NEW s \in Seq(S), NEW i \in 1 .. Len(s), NEW e \in S
    PROVE  ReplaceAt(ReplaceAt(s, i, e), i, s[i]) = s
<1> DEFINE t == ReplaceAt(s, i, e)
           x == s[i]
           u == ReplaceAt(t, i, x)
<1>1. /\ t \in Seq(S) /\ Len(t) = Len(s)
      /\ \A j \in 1 .. Len(s) : t[j] = IF j = i THEN e ELSE s[j]
  BY Replaced
<1> HIDE DEF t
<1>2. t \in Seq(S) /\ i \in 1 .. Len(t) /\ x \in S
  BY <1>1
<1> HIDE DEF x
<1>3. /\ u \in Seq(S) /\ Len(u) = Len(t)
      /\ \A j \in 1 .. Len(t) : u[j] = IF j = i THEN x ELSE t[j]
  BY <1>2 DEF ReplaceAt
<1> HIDE DEF u
<1>4. u = s
  BY <1>1, <1>3, SeqEqual DEF x
<1> QED
  BY <1>4 DEF t, u, x

\* Of an element that is replaced by two, putting it back and removing the one
\* below it.
TwoFor(s, l, x, y) == SubSeq(s, 1, l - 1) \o << x, y >> \o SubSeq(s, l + 1, Len(s))

LEMMA TwoBackToOne ==
    ASSUME NEW S, NEW s \in Seq(S), NEW l \in 1 .. Len(s), NEW x \in S, NEW y \in S,
           NEW t, t = TwoFor(s, l, x, y)
    PROVE  /\ Len(t) = Len(s) + 1 /\ t[l] = x /\ t[l + 1] = y
           /\ RemoveAt(ReplaceAt(t, l, s[l]), l + 1) = s
<1> DEFINE above == SubSeq(s, 1, l - 1)
           below == SubSeq(s, l + 1, Len(s))
           two   == << x, y >>
           top   == above \o two
<1>1. /\ above \in Seq(S) /\ Len(above) = l - 1
      /\ \A j \in 1 .. l - 1 : above[j] = s[j]
  OBVIOUS
<1>2. /\ below \in Seq(S) /\ Len(below) = Len(s) - l
      /\ \A j \in 1 .. Len(s) - l : below[j] = s[l + j]
  OBVIOUS
<1>3. two \in Seq(S) /\ Len(two) = 2 /\ two[1] = x /\ two[2] = y
  OBVIOUS
<1>4. t = top \o below
  BY DEF TwoFor
<1> HIDE DEF above, below, two
<1>5. /\ top \in Seq(S) /\ Len(top) = l + 1
      /\ \A j \in 1 .. l + 1 : top[j] = IF j <= l - 1 THEN above[j] ELSE two[j - (l - 1)]
  <2>1. /\ top \in Seq(S) /\ Len(top) = Len(above) + Len(two)
        /\ \A j \in 1 .. Len(above) + Len(two) :
              top[j] = IF j <= Len(above) THEN above[j] ELSE two[j - Len(above)]
    BY <1>1, <1>3, ConcatProperties
  <2>2. Len(above) + Len(two) = l + 1
    BY <1>1, <1>3
  <2> HIDE DEF top
  <2> QED
    BY <1>1, <1>3, <2>1, <2>2
<1> HIDE DEF top
<1>6. /\ top \o below \in Seq(S) /\ Len(top \o below) = Len(s) + 1
      /\ \A j \in 1 .. Len(s) + 1 : (top \o below)[j] =
            IF j <= l + 1 THEN top[j] ELSE below[j - (l + 1)]
  <2> DEFINE all == top \o below
  <2>1. /\ all \in Seq(S) /\ Len(all) = Len(top) + Len(below)
        /\ \A j \in 1 .. Len(top) + Len(below) :
              all[j] = IF j <= Len(top) THEN top[j] ELSE below[j - Len(top)]
    BY <1>2, <1>5, ConcatProperties
  <2>2. Len(top) + Len(below) = Len(s) + 1
    BY <1>2, <1>5
  <2> HIDE DEF all
  <2>3. /\ all \in Seq(S) /\ Len(all) = Len(s) + 1
        /\ \A j \in 1 .. Len(s) + 1 : all[j] =
              IF j <= l + 1 THEN top[j] ELSE below[j - (l + 1)]
    BY <1>2, <1>5, <2>1, <2>2
  <2> QED
    BY <2>3 DEF all
<1>7. ASSUME NEW j \in 1 .. l - 1 PROVE t[j] = s[j]
  <2>1. j \in 1 .. l + 1 /\ j \in 1 .. Len(s) + 1 /\ j <= l - 1 /\ j <= l + 1
    OBVIOUS
  <2> QED
    BY <1>1, <1>4, <1>5, <1>6, <2>1
<1>8. t[l] = x /\ t[l + 1] = y
  BY <1>3, <1>4, <1>5, <1>6
<1>9. ASSUME NEW j \in l + 2 .. Len(s) + 1 PROVE t[j] = s[j - 1]
  <2>1. j - (l + 1) \in 1 .. Len(s) - l /\ t[j] = below[j - (l + 1)]
    BY <1>4, <1>6
  <2>2. below[j - (l + 1)] = s[l + (j - (l + 1))]
    BY <1>2, <2>1
  <2> QED
    BY <2>1, <2>2
<1> DEFINE e == s[l]
           r == ReplaceAt(t, l, e)
           u == RemoveAt(r, l + 1)
<1>10. Len(s) \in Nat /\ l \in Nat /\ e \in S /\ e = s[l]
  OBVIOUS
<1>11. /\ t \in Seq(S) /\ Len(t) = Len(s) + 1
       /\ \A j \in 1 .. l - 1 : t[j] = s[j]
       /\ t[l] = x /\ t[l + 1] = y
       /\ \A j \in l + 2 .. Len(s) + 1 : t[j] = s[j - 1]
  BY <1>4, <1>6, <1>7, <1>8, <1>9
<1> HIDE DEF e
<1>12. /\ r \in Seq(S) /\ Len(r) = Len(s) + 1
      /\ \A j \in 1 .. Len(s) + 1 : r[j] = IF j = l THEN e ELSE t[j]
  <2>1. l \in 1 .. Len(t) /\ e \in S /\ t \in Seq(S)
    BY <1>10, <1>11
  <2>2. /\ r \in Seq(S) /\ Len(r) = Len(t)
        /\ \A j \in 1 .. Len(t) : r[j] = IF j = l THEN e ELSE t[j]
    BY ONLY <2>1, Replaced
  <2> QED
    BY <1>11, <2>2
<1> HIDE DEF r
<1>13. u = s
  <2>1. /\ u \in Seq(S) /\ Len(u) = Len(s)
        /\ \A j \in 1 .. l : u[j] = r[j]
        /\ \A j \in l + 1 .. Len(s) : u[j] = r[j + 1]
    <3>1. l + 1 \in 1 .. Len(r)
      BY <1>10, <1>12
    <3>2. /\ u \in Seq(S) /\ Len(u) = Len(r) - 1
          /\ \A j \in 1 .. l + 1 - 1 : u[j] = r[j]
          /\ \A j \in l + 1 .. Len(r) - 1 : u[j] = r[j + 1]
      <4> DEFINE m == l + 1
      <4> HIDE DEF m
      <4>1. m \in 1 .. Len(r)
        BY <3>1 DEF m
      <4>2. /\ RemoveAt(r, m) \in Seq(S)
            /\ Len(RemoveAt(r, m)) = Len(r) - 1
            /\ \A j \in 1 .. m - 1 : RemoveAt(r, m)[j] = r[j]
            /\ \A j \in m .. Len(r) - 1 : RemoveAt(r, m)[j] = r[j + 1]
        BY <1>12, <4>1, Removed
      <4> QED
        BY <4>2 DEF m
    <3> QED
      BY <1>10, <1>12, <3>2
  <2> HIDE DEF u
  <2>2. ASSUME NEW j \in 1 .. Len(s) PROVE u[j] = s[j]
    <3>1. CASE j < l
      BY <1>10, <1>11, <1>12, <2>1, <3>1
    <3>2. CASE j = l
      BY <1>10, <1>12, <2>1, <3>2
    <3>3. CASE j > l
      <4>1. j + 1 \in l + 2 .. Len(s) + 1 /\ j \in l + 1 .. Len(s) /\ j + 1 # l
        BY <1>10, <3>3
      <4>2. u[j] = t[j + 1] /\ t[j + 1] = s[j + 1 - 1]
        BY <1>10, <1>11, <1>12, <2>1, <4>1
      <4> QED
        BY <4>2
    <3> QED
      BY <1>10, <3>1, <3>2, <3>3
  <2> QED
    BY <2>1, <2>2, SeqEqual
<1> QED
  BY <1>11, <1>13 DEF e, r, u

LEMMA RemoveInserted ==
    ASSUME NEW S, NEW s \in Seq(S), NEW i \in 1 .. Len(s) + 1, NEW e \in S
    PROVE  RemoveAt(InsertAt(s, i, e), i) = s
<1> DEFINE t == InsertAt(s, i, e)
           u == RemoveAt(t, i)
<1>1. /\ t \in Seq(S) /\ Len(t) = Len(s) + 1 /\ Len(s) \in Nat
      /\ \A j \in 1 .. i - 1 : t[j] = s[j]
      /\ \A j \in i + 1 .. Len(s) + 1 : t[j] = s[j - 1]
  BY Inserted
<1> HIDE DEF t
<1>2. i \in 1 .. Len(t)
  BY <1>1
<1>3. /\ u \in Seq(S) /\ Len(u) = Len(t) - 1
      /\ \A j \in 1 .. i - 1 : u[j] = t[j]
      /\ \A j \in i .. Len(t) - 1 : u[j] = t[j + 1]
  BY <1>1, <1>2, Removed
<1> HIDE DEF u
<1>4. ASSUME NEW j \in 1 .. Len(s) PROVE u[j] = s[j]
  <2>1. CASE j < i
    BY <1>1, <1>3, <2>1
  <2>2. CASE j >= i
    <3>1. j + 1 \in i + 1 .. Len(s) + 1 /\ j \in i .. Len(t) - 1
      BY <1>1, <2>2
    <3>2. u[j] = t[j + 1] /\ t[j + 1] = s[j + 1 - 1]
      BY <1>1, <1>3, <3>1
    <3> QED
      BY <3>2
  <2> QED
    BY <2>1, <2>2
<1>5. u = s
  BY <1>1, <1>3, <1>4, SeqEqual
<1> QED
  BY <1>5 DEF u, t

-----------------------------------------------------------------------------
(***************************************************************************)
(* Removing what has just been inserted.                                   *)
(***************************************************************************)
\* insert() of a character, then remove() at the same index.
LEMMA CharRestored ==
    ASSUME NEW doc \in Doc, NEW line \in 0 .. Len(doc) - 1,
           NEW index \in 0 .. Len(doc[line + 1]), NEW ch \in Char
    PROVE  RemoveChar(InsertChar(doc, line, index, ch), line, index) = { doc }
<1> DEFINE l    == line + 1
           row  == doc[l]
           row2 == InsertAt(row, index + 1, ch)
           doc2 == ReplaceAt(doc, l, row2)
<1>1. /\ l \in 1 .. Len(doc) /\ row \in Seq(Char) /\ index \in Nat /\ line \in Nat
      /\ index + 1 \in 1 .. Len(row) + 1 /\ ch # Enter
  BY EnterAssumption DEF Doc, Line
<1>2. row2 \in Seq(Char) /\ Len(row2) = Len(row) + 1
  BY <1>1, Inserted
<1>3. RemoveAt(row2, index + 1) = row
  BY <1>1, RemoveInserted
<1>4. InsertChar(doc, line, index, ch) = doc2
  BY <1>1 DEF InsertChar, HasLine
<1> HIDE DEF row2
<1>5. /\ doc2 \in Doc /\ Len(doc2) = Len(doc) /\ doc2[l] = row2
      /\ ReplaceAt(doc2, l, row) = doc
  <2>1. doc \in Seq(Line) /\ row2 \in Line /\ row \in Line
    BY <1>1, <1>2 DEF Doc, Line
  <2>2. /\ doc2 \in Seq(Line) /\ Len(doc2) = Len(doc)
        /\ \A j \in 1 .. Len(doc) : doc2[j] = IF j = l THEN row2 ELSE doc[j]
    BY <1>1, <2>1, Replaced
  <2>3. ReplaceAt(doc2, l, row) = doc
    BY <1>1, <2>1, ReplacedBack
  <2> HIDE DEF doc2
  <2> QED
    BY <1>1, <2>2, <2>3 DEF Doc
<1> HIDE DEF doc2
<1>6. /\ HasLine(doc2, line) /\ ~ ErasesEnd(doc2, line, index)
      /\ ~ index > Len(doc2[line + 1]) /\ index # Join
  BY <1>1, <1>2, <1>5 DEF HasLine, ErasesEnd, Join
<1>7. RemoveChar(doc2, line, index) = { ReplaceAt(doc2, l, RemoveAt(doc2[l], index + 1)) }
  BY <1>6 DEF RemoveChar
<1> QED
  BY <1>3, <1>4, <1>5, <1>7

\* insert() of a line break, then remove() of the break above the next line.
LEMMA BreakRestored ==
    ASSUME NEW doc \in Doc, NEW line \in 0 .. Len(doc) - 1,
           NEW index \in 0 .. Len(doc[line + 1])
    PROVE  RemoveChar(InsertChar(doc, line, index, Enter), line + 1, Join) = { doc }
<1> DEFINE l      == line + 1
           row    == doc[l]
           first  == SubSeq(row, 1, index)
           second == SubSeq(row, index + 1, Len(row))
           doc2   == BreakLine(doc, line, index)
<1>1. /\ l \in 1 .. Len(doc) /\ row \in Line /\ index \in Nat /\ line \in Nat
      /\ Len(doc) \in Nat /\ Len(row) \in Nat
  BY DEF Doc, Line
<1>2. InsertChar(doc, line, index, Enter) = doc2
  BY <1>1 DEF InsertChar, HasLine
<1>3. first \in Line /\ second \in Line /\ first \o second = row
  <2>1. /\ first \in Seq(Char) /\ Len(first) = index
        /\ \A j \in 1 .. index : first[j] = row[j]
    BY <1>1 DEF Line
  <2>2. /\ second \in Seq(Char) /\ Len(second) = Len(row) - index
        /\ \A j \in 1 .. Len(row) - index : second[j] = row[index + j]
    BY <1>1 DEF Line
  <2> HIDE DEF first, second
  <2>3. /\ first \o second \in Seq(Char) /\ Len(first \o second) = Len(row)
        /\ \A j \in 1 .. Len(row) : (first \o second)[j] =
              IF j <= index THEN first[j] ELSE second[j - index]
    BY <1>1, <2>1, <2>2, ConcatProperties
  <2>4. ASSUME NEW j \in 1 .. Len(row) PROVE (first \o second)[j] = row[j]
    <3>1. CASE j <= index
      BY <1>1, <2>1, <2>3, <3>1
    <3>2. CASE ~ j <= index
      <4>1. j - index \in 1 .. Len(row) - index
        BY <1>1, <3>2
      <4> QED
        BY <1>1, <2>2, <2>3, <3>2, <4>1
    <3> QED
      BY <3>1, <3>2
  <2> QED
    BY <1>1, <2>1, <2>2, <2>3, <2>4, SeqEqual DEF Line
<1> HIDE DEF first, second
<1>4. doc2 = TwoFor(doc, l, first, second)
  <2>1. l - 1 = line /\ l + 1 = line + 2
    BY <1>1
  <2>2. doc2 = SubSeq(doc, 1, line) \o << first, second >> \o SubSeq(doc, line + 2, Len(doc))
    BY DEF BreakLine, first, second
  <2> QED
    BY <2>1, <2>2 DEF TwoFor
<1>5. doc \in Seq(Line)
  BY DEF Doc
<1>6. /\ Len(doc2) = Len(doc) + 1 /\ doc2[l] = first /\ doc2[l + 1] = second
      /\ RemoveAt(ReplaceAt(doc2, l, doc[l]), l + 1) = doc
  <2>1. l \in 1 .. Len(doc)
    BY <1>1
  <2> HIDE DEF doc2, l
  <2> QED
    BY <1>3, <1>4, <1>5, <2>1, TwoBackToOne
<1> HIDE DEF doc2
<1>7. RemoveChar(doc2, line + 1, Join) = { RemoveAt(ReplaceAt(doc2, l, row), l + 1) }
  <2>1. HasLine(doc2, l) /\ l # 0 /\ doc2[l] \o doc2[l + 1] = row
    BY <1>1, <1>3, <1>6, SMTT(30) DEF HasLine
  <2> QED
    BY <2>1 DEF RemoveChar, JoinLine
<1> QED
  BY <1>2, <1>6, <1>7

\* Backspace takes back what has been typed, in a text of any size and at any
\* place of it, whether a character or a line break.
THEOREM TypingIsUndone == data \in Doc => InsertThenRemove
BY CharRestored, BreakRestored DEF InsertThenRemove

-----------------------------------------------------------------------------
(***************************************************************************)
(* Edits in different lines.                                               *)
(***************************************************************************)
\* What an edit inside a line may leave of that line.
Rows(row, index) ==
    { InsertAt(row, index + 1, ch) : ch \in Char } \cup
    (IF index = Len(row) THEN {} ELSE { RemoveAt(row, index + 1) })

\* An edit inside a line replaces that line and no other.
LEMMA EditsByRow ==
    ASSUME NEW doc \in Doc, NEW line \in 0 .. Len(doc) - 1,
           NEW index \in 0 .. Len(doc[line + 1])
    PROVE  /\ Rows(doc[line + 1], index) \subseteq Line
           /\ LineEdits(doc, line, index) =
                 { ReplaceAt(doc, line + 1, row) : row \in Rows(doc[line + 1], index) }
<1> DEFINE old == doc[line + 1]
<1>1. /\ line \in Nat /\ line + 1 \in 1 .. Len(doc) /\ old \in Seq(Char) /\ index \in Nat
      /\ Len(old) \in Nat /\ index + 1 \in 1 .. Len(old) + 1
  BY DEF Doc, Line
<1>2. \A ch \in Char : InsertAt(old, index + 1, ch) \in Line
  BY <1>1, Inserted DEF Line
<1>3. index # Len(old) => RemoveAt(old, index + 1) \in Line
  <2>1. index # Len(old) => index + 1 \in 1 .. Len(old)
    BY <1>1
  <2> QED BY <1>1, <2>1, Removed DEF Line
<1>4. \A ch \in Char :
        InsertChar(doc, line, index, ch) = ReplaceAt(doc, line + 1, InsertAt(old, index + 1, ch))
  BY <1>1, EnterAssumption DEF InsertChar, HasLine
<1>5. ErasesEnd(doc, line, index) <=> index = Len(old)
  BY <1>1 DEF ErasesEnd, HasLine
<1>6. index # Len(old) =>
        RemoveChar(doc, line, index) = { ReplaceAt(doc, line + 1, RemoveAt(old, index + 1)) }
  <2> SUFFICES ASSUME index # Len(old)
               PROVE  RemoveChar(doc, line, index)
                        = { ReplaceAt(doc, line + 1, RemoveAt(old, index + 1)) }
    OBVIOUS
  <2>1. index # Join /\ HasLine(doc, line) /\ ~ index > Len(old) /\ ~ ErasesEnd(doc, line, index)
    BY <1>1, <1>5 DEF Join, HasLine
  <2> QED BY <2>1 DEF RemoveChar
<1>7. Rows(old, index) \subseteq Line
  BY <1>2, <1>3 DEF Rows
<1> HIDE DEF old
<1>8. LineEdits(doc, line, index)
        = { ReplaceAt(doc, line + 1, row) : row \in Rows(old, index) }
  <2>1. CASE index = Len(old)
    <3>1. LineEdits(doc, line, index) = { InsertChar(doc, line, index, ch) : ch \in Char }
      BY <1>5, <2>1 DEF LineEdits
    <3>2. Rows(old, index) = { InsertAt(old, index + 1, ch) : ch \in Char }
      BY <2>1 DEF Rows
    <3> QED BY <1>4, <3>1, <3>2
  <2>2. CASE index # Len(old)
    <3>1. LineEdits(doc, line, index) = { InsertChar(doc, line, index, ch) : ch \in Char } \cup
             { ReplaceAt(doc, line + 1, RemoveAt(old, index + 1)) }
      BY <1>5, <1>6, <2>2 DEF LineEdits
    <3>2. Rows(old, index) = { InsertAt(old, index + 1, ch) : ch \in Char } \cup
             { RemoveAt(old, index + 1) }
      BY <2>2 DEF Rows
    <3> QED BY <1>4, <3>1, <3>2
  <2> QED BY <2>1, <2>2
<1> QED BY <1>7, <1>8 DEF old

LEMMA ReplacedBoth ==
    ASSUME NEW S, NEW s \in Seq(S), NEW i \in 1 .. Len(s), NEW j \in 1 .. Len(s), i # j,
           NEW d \in S, NEW e \in S
    PROVE  ReplaceAt(ReplaceAt(s, i, d), j, e) = ReplaceAt(ReplaceAt(s, j, e), i, d)
<1> DEFINE t == ReplaceAt(s, i, d)
           u == ReplaceAt(s, j, e)
           v == ReplaceAt(t, j, e)
           w == ReplaceAt(u, i, d)
<1>1. /\ t \in Seq(S) /\ Len(t) = Len(s)
      /\ \A n \in 1 .. Len(s) : t[n] = IF n = i THEN d ELSE s[n]
  BY Replaced
<1>2. /\ u \in Seq(S) /\ Len(u) = Len(s)
      /\ \A n \in 1 .. Len(s) : u[n] = IF n = j THEN e ELSE s[n]
  BY Replaced
<1> HIDE DEF t, u
<1>3. /\ v \in Seq(S) /\ Len(v) = Len(s)
      /\ \A n \in 1 .. Len(s) : v[n] = IF n = j THEN e ELSE t[n]
  BY <1>1, Replaced
<1>4. /\ w \in Seq(S) /\ Len(w) = Len(s)
      /\ \A n \in 1 .. Len(s) : w[n] = IF n = i THEN d ELSE u[n]
  BY <1>2, Replaced
<1> HIDE DEF v, w
<1>5. v = w
  BY <1>1, <1>2, <1>3, <1>4, SeqEqual
<1> QED BY <1>5 DEF v, w, t, u

\* The texts after an edit in line k and then one in line l.
After(doc, k, i, l, j) == UNION { LineEdits(d, l, j) : d \in LineEdits(doc, k, i) }

\* Two edits in different lines, the first of them in line k.
LEMMA TwoEdits ==
    ASSUME NEW doc \in Doc, NEW k \in 0 .. Len(doc) - 1, NEW l \in 0 .. Len(doc) - 1, k # l,
           NEW i \in 0 .. Len(doc[k + 1]), NEW j \in 0 .. Len(doc[l + 1]), NEW text
    PROVE  text \in After(doc, k, i, l, j)
             <=> \E p \in Rows(doc[k + 1], i), q \in Rows(doc[l + 1], j) :
                    text = ReplaceAt(ReplaceAt(doc, k + 1, p), l + 1, q)
<1>1. /\ Rows(doc[k + 1], i) \subseteq Line
      /\ LineEdits(doc, k, i) = { ReplaceAt(doc, k + 1, p) : p \in Rows(doc[k + 1], i) }
  BY EditsByRow
<1>2. \A p \in Rows(doc[k + 1], i) :
         LineEdits(ReplaceAt(doc, k + 1, p), l, j)
           = { ReplaceAt(ReplaceAt(doc, k + 1, p), l + 1, q) : q \in Rows(doc[l + 1], j) }
  <2> SUFFICES ASSUME NEW p \in Rows(doc[k + 1], i)
               PROVE  LineEdits(ReplaceAt(doc, k + 1, p), l, j)
                        = { ReplaceAt(ReplaceAt(doc, k + 1, p), l + 1, q) :
                              q \in Rows(doc[l + 1], j) }
    OBVIOUS
  <2> DEFINE d == ReplaceAt(doc, k + 1, p)
  <2>1. doc \in Seq(Line) /\ k + 1 \in 1 .. Len(doc) /\ l + 1 \in 1 .. Len(doc) /\ l + 1 # k + 1
        /\ p \in Line
    BY <1>1 DEF Doc
  <2>2. /\ d \in Seq(Line) /\ Len(d) = Len(doc)
        /\ \A n \in 1 .. Len(doc) : d[n] = IF n = k + 1 THEN p ELSE doc[n]
    BY <2>1, Replaced
  <2> HIDE DEF d
  <2>3. d[l + 1] = doc[l + 1]
    BY <2>1, <2>2
  <2>4. d \in Doc /\ l \in 0 .. Len(d) - 1 /\ j \in 0 .. Len(d[l + 1])
    BY <2>2, <2>3 DEF Doc
  <2>5. LineEdits(d, l, j) = { ReplaceAt(d, l + 1, q) : q \in Rows(d[l + 1], j) }
    BY <2>4, EditsByRow
  <2>6. LineEdits(d, l, j) = { ReplaceAt(d, l + 1, q) : q \in Rows(doc[l + 1], j) }
    BY <2>3, <2>5
  <2> QED BY <2>6 DEF d
<1>3. text \in After(doc, k, i, l, j)
        <=> \E p \in Rows(doc[k + 1], i) : text \in LineEdits(ReplaceAt(doc, k + 1, p), l, j)
  BY <1>1 DEF After
<1>4. \A p \in Rows(doc[k + 1], i) :
         text \in LineEdits(ReplaceAt(doc, k + 1, p), l, j)
           <=> \E q \in Rows(doc[l + 1], j) :
                  text = ReplaceAt(ReplaceAt(doc, k + 1, p), l + 1, q)
  BY <1>2
<1> QED BY <1>3, <1>4

LEMMA EditsMade ==
    ASSUME NEW doc \in Doc, NEW k \in 0 .. Len(doc) - 1, NEW l \in 0 .. Len(doc) - 1, k # l,
           NEW i \in 0 .. Len(doc[k + 1]), NEW j \in 0 .. Len(doc[l + 1]),
           NEW p \in Rows(doc[k + 1], i), NEW q \in Rows(doc[l + 1], j)
    PROVE  ReplaceAt(ReplaceAt(doc, k + 1, p), l + 1, q) \in After(doc, k, i, l, j)
BY TwoEdits

LEMMA OrderIsNoMatter ==
    ASSUME NEW doc \in Doc, NEW k \in 0 .. Len(doc) - 1, NEW l \in 0 .. Len(doc) - 1, k # l,
           NEW i \in 0 .. Len(doc[k + 1]), NEW j \in 0 .. Len(doc[l + 1]), NEW text,
           text \in After(doc, k, i, l, j)
    PROVE  text \in After(doc, l, j, k, i)
<1> DEFINE P == Rows(doc[k + 1], i)
           Q == Rows(doc[l + 1], j)
<1>1. doc \in Seq(Line) /\ k + 1 \in 1 .. Len(doc) /\ l + 1 \in 1 .. Len(doc) /\ k + 1 # l + 1
      /\ l # k
  BY DEF Doc
<1>2. P \subseteq Line /\ Q \subseteq Line
  BY EditsByRow
<1>3. \E p \in P, q \in Q : text = ReplaceAt(ReplaceAt(doc, k + 1, p), l + 1, q)
  BY TwoEdits
<1>4. PICK p \in P, q \in Q : text = ReplaceAt(ReplaceAt(doc, k + 1, p), l + 1, q)
  BY <1>3
<1>5. ReplaceAt(ReplaceAt(doc, l + 1, q), k + 1, p) \in After(doc, l, j, k, i)
  BY <1>1, EditsMade
<1> HIDE DEF P, Q
<1>6. text = ReplaceAt(ReplaceAt(doc, l + 1, q), k + 1, p)
  BY <1>1, <1>2, <1>4, ReplacedBoth
<1> QED BY <1>5, <1>6

\* In a text of any size two edits inside different lines lead to the same text
\* whichever the replica applies first (blockingVector.cpp:40 and :73).
THEOREM EditsCommute == data \in Doc => LineEditsCommute
<1> SUFFICES ASSUME data \in Doc,
                    NEW k \in 0 .. Len(data) - 1, NEW l \in 0 .. Len(data) - 1, k < l,
                    NEW i \in 0 .. Len(data[k + 1]), NEW j \in 0 .. Len(data[l + 1])
             PROVE  After(data, k, i, l, j) = After(data, l, j, k, i)
  BY DEF LineEditsCommute, After
<1>1. k # l /\ l # k
  OBVIOUS
<1>2. \A text : text \in After(data, k, i, l, j) => text \in After(data, l, j, k, i)
  BY <1>1, OrderIsNoMatter
<1>3. \A text : text \in After(data, l, j, k, i) => text \in After(data, k, i, l, j)
  BY <1>1, OrderIsNoMatter
<1> QED BY <1>2, <1>3
-----------------------------------------------------------------------------
(***************************************************************************)
(* Files: without carriage returns, loading takes what is saved back.      *)
(***************************************************************************)
\* A file is loaded without any line break inside a line, whatever is in it.
LEMMA LinesOfType ==
    ASSUME NEW chars \in Seq(Char \cup {Enter, Newline})
    PROVE  LinesOf(chars) \in Doc
<1> DEFINE S == Char \cup {Enter}
           rows == SplitAt(chars, Newline)
           read == IF Last(rows) = << >> THEN Front(rows) ELSE rows
<1>1. chars \in Seq(S \cup {Newline})
  <2>1. S \cup {Newline} = Char \cup {Enter, Newline}
    OBVIOUS
  <2> QED BY <2>1
<1> HIDE DEF S
<1>2. rows \in SomeRows(S)
  BY <1>1, SplitType
<1> HIDE DEF rows
<1>3. read \in Seq(Seq(S))
  BY <1>2, FrontLast DEF SomeRows
<1>4. LinesOf(chars) = [i \in DOMAIN read |-> Without(read[i], Enter)]
  BY DEF LinesOf, rows
<1> HIDE DEF read
<1>5. \A i \in DOMAIN read : Without(read[i], Enter) \in Line
  <2> TAKE i \in DOMAIN read
  <2>1. read[i] \in Seq(S)
    BY <1>3
  <2>2. Without(read[i], Enter) \in Seq(S \ {Enter})
    BY <2>1, WithoutType
  <2>3. S \ {Enter} = Char
    BY EnterAssumption DEF S
  <2> QED BY <2>2, <2>3 DEF Line
<1>6. DOMAIN read = 1 .. Len(read) /\ Len(read) \in Nat
  BY <1>3
<1>7. [i \in 1 .. Len(read) |-> Without(read[i], Enter)] \in Seq(Line)
  BY <1>5, <1>6
<1> QED BY <1>4, <1>6, <1>7 DEF Doc

\* What is saved is loaded again.
LEMMA SavedIsLoaded ==
    ASSUME NEW doc \in Doc
    PROVE  /\ FileOf(doc) \in Seq(Char \cup {Enter, Newline})
           /\ LinesOf(FileOf(doc)) = doc
<1> DEFINE rows == SplitAt(FileOf(doc), Newline)
           none == << >>
           longer == Append(doc, none)
<1>1. doc \in Seq(Seq(Char)) /\ none \in Seq(Char) /\ Newline \notin Char
  BY DiskAssumption DEF Doc, Line
<1>2. FileOf(doc) \in Seq(Char \cup {Newline})
  BY <1>1, TerminatedAppend DEF FileOf
<1>3. FileOf(doc) \in Seq(Char \cup {Enter, Newline})
  <2>1. Char \cup {Newline} \subseteq Char \cup {Enter, Newline}
    OBVIOUS
  <2> QED BY <1>2, <2>1
<1>4. rows = longer
  BY <1>1, SplitTerminated DEF FileOf
<1>5. Last(longer) = none /\ Front(longer) = doc
  <2> HIDE DEF none
  <2> QED BY <1>1, AppendBasics
<1>6. LinesOf(FileOf(doc)) = [i \in DOMAIN doc |-> Without(doc[i], Enter)]
  <2>1. LinesOf(FileOf(doc)) = LET read == IF Last(rows) = none THEN Front(rows) ELSE rows
                               IN  [i \in DOMAIN read |-> Without(read[i], Enter)]
    BY DEF LinesOf
  <2> HIDE DEF rows, longer, none
  <2> QED BY <1>4, <1>5, <2>1
<1>7. \A i \in DOMAIN doc : Without(doc[i], Enter) = doc[i]
  <2> TAKE i \in DOMAIN doc
  <2>1. doc[i] \in Seq(Char)
    BY <1>1
  <2> QED BY <2>1, EnterAssumption, WithoutNone
<1>8. [i \in DOMAIN doc |-> Without(doc[i], Enter)] = doc
  BY <1>1, <1>7
<1> QED BY <1>3, <1>6, <1>8

\* What is serialized is deserialized, with a length that is up to a byte
\* beyond its end.
LEMMA SerializedIsRead ==
    ASSUME NEW doc \in Doc
    PROVE  LET sent == Serialize(doc)
               size == SerializedSize(doc) + 1
           IN  /\ sent \in Seq(Char \cup {Enter})
               /\ IntsIn(size) = Len(sent)
               /\ sent # << >> => Last(sent) = Enter
               /\ Deserialize(sent, size) = doc
<1> DEFINE sent == Serialize(doc)
           size == SerializedSize(doc) + 1
           none == << >>
           longer == Append(doc, none)
<1>1. doc \in Seq(Seq(Char)) /\ none \in Seq(Char) /\ Enter \notin Char
  BY EnterAssumption DEF Doc, Line
<1>2. sent \in Seq(Char \cup {Enter})
  BY <1>1, TerminatedAppend DEF Serialize
<1>3. size = 4 * (3 + Len(sent)) + 1 /\ Len(sent) \in Nat
  BY <1>2 DEF SerializedSize
<1>4. SplitAt(sent, Enter) = longer
  BY <1>1, SplitTerminated DEF Serialize
<1>5. sent # << >> => Last(sent) = Enter
  <2> SUFFICES ASSUME sent # << >> PROVE Last(sent) = Enter
    OBVIOUS
  <2>1. doc # << >>
    BY TerminatedEmpty DEF Serialize
  <2> QED BY <1>1, <2>1, TerminatedEnds DEF Serialize
<1> HIDE DEF size
<1>6. IntsIn(size) = Len(sent)
  <2> DEFINE n == Len(sent)
  <2>1. n \in Nat /\ size = 4 * (3 + n) + 1
    BY <1>3
  <2> HIDE DEF n, sent
  <2>2. (4 * (3 + n) + 1) \div 4 = 3 + n
    BY <2>1
  <2>3. IntsIn(size) = n
    BY <2>1, <2>2 DEF IntsIn
  <2> QED BY <2>3 DEF n
<1> HIDE DEF sent
<1>7. SubSeq(sent, 1, IntsIn(size)) = sent
  BY <1>2, <1>6
<1>8. Deserialize(sent, size) = Front(longer)
  BY <1>4, <1>7 DEF Deserialize
<1>9. Front(longer) = doc
  <2> HIDE DEF none
  <2> QED BY <1>1, AppendBasics
<1> QED BY <1>2, <1>5, <1>6, <1>8, <1>9 DEF sent, size

-----------------------------------------------------------------------------
(***************************************************************************)
(* The flat text that the lines stand for: a document is what lies above a *)
(* line, the line, and what lies below it, and an edit of the line is one  *)
(* of the string between the two.                                          *)
(***************************************************************************)
\* A sequence put together has the parts it was put together of,
LEMMA PartsOfConcat ==
    ASSUME NEW S, NEW x \in Seq(S), NEW y \in Seq(S)
    PROVE  /\ x \o y \in Seq(S) /\ Len(x \o y) = Len(x) + Len(y)
           /\ SubSeq(x \o y, 1, Len(x)) = x
           /\ SubSeq(x \o y, Len(x) + 1, Len(x \o y)) = y
OBVIOUS

\* an insertion between them goes between them,
LEMMA InsertBetween ==
    ASSUME NEW S, NEW x \in Seq(S), NEW y \in Seq(S), NEW e \in S
    PROVE  InsertAt(x \o y, Len(x) + 1, e) = (x \o << e >>) \o y
<1> DEFINE both == x \o y
<1>1. SubSeq(both, 1, Len(x)) = x /\ SubSeq(both, Len(x) + 1, Len(both)) = y
  BY PartsOfConcat
<1>2. (Len(x) + 1) - 1 = Len(x)
  OBVIOUS
<1> HIDE DEF both
<1>3. InsertAt(both, Len(x) + 1, e) = x \o << e >> \o y
  BY <1>1, <1>2 DEF InsertAt
<1> QED BY <1>3 DEF both

\* and a removal there takes out what was between them.
LEMMA RemoveBetween ==
    ASSUME NEW S, NEW x \in Seq(S), NEW y \in Seq(S), NEW e \in S
    PROVE  RemoveAt((x \o << e >>) \o y, Len(x) + 1) = x \o y
<1> DEFINE xe == x \o << e >>
           all == xe \o y
           ey == << e >> \o y
           one == << e >>
<1>1. xe \in Seq(S) /\ Len(xe) = Len(x) + 1 /\ one \in Seq(S) /\ ey \in Seq(S) /\ Len(x) \in Nat
  OBVIOUS
<1>2. all = x \o ey
  OBVIOUS
<1> HIDE DEF xe, ey
<1>3. SubSeq(all, Len(xe) + 1, Len(all)) = y
  BY <1>1, PartsOfConcat
<1>4. SubSeq(x \o ey, 1, Len(x)) = x
  BY <1>1, PartsOfConcat
<1>5. SubSeq(all, 1, Len(x)) = x
  BY <1>2, <1>4
<1>6. (Len(x) + 1) - 1 = Len(x) /\ (Len(x) + 1) + 1 = Len(xe) + 1
  BY <1>1
<1> HIDE DEF all
<1>7. RemoveAt(all, Len(x) + 1) = x \o y
  BY <1>3, <1>5, <1>6 DEF RemoveAt
<1> QED BY <1>7 DEF all, xe

\* A line between those above and those below it.
Around(above, row, below) == (above \o << row >>) \o below

LEMMA AroundLine ==
    ASSUME NEW S, NEW doc \in Seq(S), NEW line \in 0 .. Len(doc) - 1
    PROVE  /\ SubSeq(doc, 1, line) \in Seq(S)
           /\ SubSeq(doc, line + 2, Len(doc)) \in Seq(S)
           /\ doc[line + 1] \in S
           /\ doc = Around(SubSeq(doc, 1, line), doc[line + 1], SubSeq(doc, line + 2, Len(doc)))
<1> DEFINE above == SubSeq(doc, 1, line)
           below == SubSeq(doc, line + 2, Len(doc))
           row == doc[line + 1]
           top == above \o << row >>
<1>1. above \in Seq(S) /\ Len(above) = line /\ \A i \in 1 .. line : above[i] = doc[i]
  OBVIOUS
<1>2. /\ below \in Seq(S) /\ Len(below) = Len(doc) - line - 1
      /\ \A i \in 1 .. Len(doc) - line - 1 : below[i] = doc[line + 1 + i]
  OBVIOUS
<1>3. row \in S /\ line \in Nat /\ Len(doc) \in Nat
  OBVIOUS
<1> HIDE DEF above, below, row
<1>4. /\ top \in Seq(S) /\ Len(top) = line + 1 /\ top[line + 1] = row
      /\ \A i \in 1 .. line : top[i] = above[i]
  BY <1>1, <1>3
<1> HIDE DEF top
<1> DEFINE all == top \o below
<1>5. /\ all \in Seq(S) /\ Len(all) = Len(top) + Len(below)
      /\ \A i \in 1 .. Len(top) + Len(below) :
            all[i] = IF i <= Len(top) THEN top[i] ELSE below[i - Len(top)]
  BY <1>2, <1>4, ConcatProperties
<1> HIDE DEF all
<1>6. Len(top) + Len(below) = Len(doc)
  BY <1>2, <1>3, <1>4
<1>7. \A i \in 1 .. Len(doc) : all[i] = doc[i]
  <2> TAKE i \in 1 .. Len(doc)
  <2>0. all[i] = IF i <= line + 1 THEN top[i] ELSE below[i - (line + 1)]
    BY <1>4, <1>5, <1>6
  <2>1. CASE i <= line
    BY <1>1, <1>3, <1>4, <2>0, <2>1
  <2>2. CASE i = line + 1
    BY <1>3, <1>4, <2>0, <2>2 DEF row
  <2>3. CASE i > line + 1
    <3> DEFINE j == i - (line + 1)
    <3>1. j \in 1 .. Len(doc) - line - 1 /\ line + 1 + j = i
      BY <1>3, <2>3
    <3>2. all[i] = below[j]
      BY <1>3, <2>0, <2>3
    <3> HIDE DEF j
    <3>3. below[j] = doc[line + 1 + j]
      BY <1>2, <3>1
    <3> QED BY <3>1, <3>2, <3>3
  <2> QED BY <1>3, <2>1, <2>2, <2>3
<1>8. all = doc
  BY <1>5, <1>6, <1>7, SeqEqual
<1> QED BY <1>1, <1>2, <1>3, <1>8 DEF Around, above, below, row, top, all

\* Replacing a line leaves what is around it.
LEMMA ReplacedIsAround ==
    ASSUME NEW S, NEW doc \in Seq(S), NEW line \in 0 .. Len(doc) - 1, NEW new \in S
    PROVE  ReplaceAt(doc, line + 1, new)
             = Around(SubSeq(doc, 1, line), new, SubSeq(doc, line + 2, Len(doc)))
<1> DEFINE r == ReplaceAt(doc, line + 1, new)
<1>1. /\ r \in Seq(S) /\ Len(r) = Len(doc) /\ line \in 0 .. Len(r) - 1
      /\ r[line + 1] = new
      /\ \A i \in 1 .. Len(doc) : i # line + 1 => r[i] = doc[i]
  <2> DEFINE l == line + 1
  <2>1. l \in 1 .. Len(doc)
    OBVIOUS
  <2>2. /\ ReplaceAt(doc, l, new) \in Seq(S)
        /\ Len(ReplaceAt(doc, l, new)) = Len(doc)
        /\ \A j \in 1 .. Len(doc) : ReplaceAt(doc, l, new)[j] = IF j = l THEN new ELSE doc[j]
    <3> HIDE DEF l
    <3> QED BY <2>1 DEF ReplaceAt
  <2> QED BY <2>1, <2>2
<1> HIDE DEF r
<1>2. r = Around(SubSeq(r, 1, line), r[line + 1], SubSeq(r, line + 2, Len(r)))
  BY <1>1, AroundLine
<1>3. SubSeq(r, 1, line) = SubSeq(doc, 1, line)
  BY <1>1
<1>4. SubSeq(r, line + 2, Len(r)) = SubSeq(doc, line + 2, Len(doc))
  BY <1>1
<1> QED BY <1>1, <1>2, <1>3, <1>4 DEF r

\* The flat text of lines put together is that of the parts.
LEMMA SerializedAround ==
    ASSUME NEW above \in Doc, NEW row \in Line, NEW below \in Doc
    PROVE  /\ Serialize(above) \in Seq(Char \cup {Enter}) /\ Serialize(below) \in Seq(Char \cup {Enter})
           /\ Serialize(Around(above, row, below))
                = (Serialize(above) \o row) \o (<< Enter >> \o Serialize(below))
<1> DEFINE C == Seq(Char \cup {Enter})
           a == Serialize(above)
           b == Serialize(below)
           top == above \o << row >>
<1>1. above \in Seq(Seq(Char)) /\ row \in Seq(Char) /\ below \in Seq(Seq(Char))
      /\ top \in Seq(Seq(Char)) /\ top = Append(above, row)
  BY DEF Doc, Line
<1>2. a \in C /\ b \in C /\ Terminated(Append(above, row), Enter) = a \o Append(row, Enter)
  <2>1. Terminated(above, Enter) \in C
    BY <1>1, TerminatedAppend
  <2>2. Terminated(below, Enter) \in C
    BY <1>1, TerminatedAppend
  <2>3. Terminated(Append(above, row), Enter) = Terminated(above, Enter) \o Append(row, Enter)
    <3>1. above \in Seq(Seq(Char))
      BY <1>1
    <3>2. row \in Seq(Char)
      BY <1>1
    <3> QED BY ONLY <3>1, <3>2, TerminatedAppend
  <2> QED BY <2>1, <2>2, <2>3 DEF Serialize
<1> HIDE DEF top
<1>3. Serialize(top \o below) = Serialize(top) \o b
  BY <1>1, TerminatedConcat DEF Serialize
<1>4. Serialize(top) = a \o Append(row, Enter)
  BY <1>1, <1>2 DEF Serialize
<1>5. row \in C
  BY <1>1
<1> HIDE DEF a, b
<1>6. (a \o Append(row, Enter)) \o b = (a \o row) \o (<< Enter >> \o b)
  <2> DEFINE e == << Enter >>
             ar == a \o row
  <2>1. e \in C /\ Append(row, Enter) = row \o e /\ ar \in C
    BY <1>2, <1>5
  <2>2. a \o (row \o e) = ar \o e
    BY <1>2, <1>5, <2>1
  <2> HIDE DEF e, ar
  <2>3. (ar \o e) \o b = ar \o (e \o b)
    BY <1>2, <2>1
  <2> QED BY <2>1, <2>2, <2>3 DEF e, ar
<1> QED BY <1>2, <1>3, <1>4, <1>6 DEF a, b, top, Around

\* What the steps of FlatText do to the string.
Grows(flat, result, input) == \E p \in 1 .. Len(flat) : result = InsertAt(flat, p, input)
Shrinks(flat, result) == \E p \in 1 .. Len(flat) - 1 : result = RemoveAt(flat, p)

\* Flat texts.
Flat == Seq(Char \cup {Enter})

LEMMA GrowsBetween ==
    ASSUME NEW x \in Flat, NEW y \in Flat, NEW input \in Char \cup {Enter}, y # << >>
    PROVE  Grows(x \o y, (x \o << input >>) \o y, input)
<1> DEFINE flat == x \o y
           p == Len(x) + 1
<1>1. flat \in Flat /\ Len(flat) = Len(x) + Len(y) /\ Len(x) \in Nat /\ Len(y) \in Nat /\ Len(y) > 0
  BY DEF Flat
<1>2. p \in 1 .. Len(flat)
  BY <1>1
<1>3. InsertAt(flat, p, input) = (x \o << input >>) \o y
  BY InsertBetween DEF Flat
<1> HIDE DEF flat, p
<1>4. Grows(flat, (x \o << input >>) \o y, input)
  BY <1>2, <1>3 DEF Grows
<1> QED BY <1>4 DEF flat

LEMMA ShrinksBetween ==
    ASSUME NEW x \in Flat, NEW y \in Flat, NEW ch \in Char \cup {Enter}, y # << >>
    PROVE  Shrinks((x \o << ch >>) \o y, x \o y)
<1> DEFINE flat == (x \o << ch >>) \o y
           p == Len(x) + 1
<1>1. flat \in Flat /\ Len(flat) = Len(x) + 1 + Len(y) /\ Len(x) \in Nat /\ Len(y) \in Nat /\ Len(y) > 0
  BY DEF Flat
<1>2. p \in 1 .. Len(flat) - 1
  BY <1>1
<1>3. RemoveAt(flat, p) = x \o y
  BY RemoveBetween DEF Flat
<1> HIDE DEF flat, p
<1>4. Shrinks(flat, x \o y)
  BY <1>2, <1>3 DEF Shrinks
<1> QED BY <1>4 DEF flat

\* A row cut in two: what surrounds the cut in the flat text.
LEMMA FlatCut ==
    ASSUME NEW above \in Doc, NEW left \in Line, NEW right \in Line, NEW below \in Doc
    PROVE  /\ Serialize(above) \o left \in Flat
           /\ right \o (<< Enter >> \o Serialize(below)) \in Flat
           /\ right \o (<< Enter >> \o Serialize(below)) # << >>
           /\ Serialize(Around(above, left \o right, below))
                = (Serialize(above) \o left) \o (right \o (<< Enter >> \o Serialize(below)))
<1> DEFINE a == Serialize(above)
           b == << Enter >> \o Serialize(below)
           row == left \o right
<1>1. row \in Line /\ left \in Flat /\ right \in Flat
  BY DEF Line, Flat
<1>2. a \in Flat /\ Serialize(below) \in Flat
  BY SerializedAround DEF Flat
<1> DEFINE sb == Serialize(below)
<1>3. sb \in Flat
  BY <1>2
<1> HIDE DEF sb
<1>4. << Enter >> \o sb \in Flat /\ Len(<< Enter >> \o sb) = Len(sb) + 1 /\ Len(sb) \in Nat
  BY <1>3 DEF Flat
<1>5. b \in Flat /\ Len(b) > 0
  BY <1>4 DEF sb
<1> HIDE DEF b
<1>6. Len(right \o b) > 0 /\ right \o b \in Flat
  BY <1>1, <1>5 DEF Flat
<1> HIDE DEF row
<1>7. Serialize(Around(above, row, below)) = (a \o row) \o b
  BY <1>1, SerializedAround DEF b
<1> HIDE DEF a
<1>8. a \o (left \o right) = (a \o left) \o right
  BY <1>1, <1>2 DEF Flat
<1>9. ((a \o left) \o right) \o b = (a \o left) \o (right \o b)
  <2> DEFINE al == a \o left
  <2>1. al \in Flat
    BY <1>1, <1>2 DEF Flat
  <2> HIDE DEF al
  <2>2. (al \o right) \o b = al \o (right \o b)
    BY <1>1, <1>5, <2>1 DEF Flat
  <2> QED BY <2>2 DEF al
<1>10. a \o left \in Flat
  BY <1>1, <1>2 DEF Flat
<1>11. right \o b # << >>
  BY <1>6
<1>12. Serialize(Around(above, row, below)) = (a \o left) \o (right \o b)
  BY <1>7, <1>8, <1>9 DEF row
<1> QED BY <1>6, <1>10, <1>11, <1>12 DEF a, b, row

\* A character more or less in a row is one more or less in the flat text,
LEMMA CharInFlat ==
    ASSUME NEW above \in Doc, NEW left \in Line, NEW right \in Line, NEW below \in Doc, NEW ch \in Char
    PROVE  LET without == Serialize(Around(above, left \o right, below))
               with    == Serialize(Around(above, (left \o << ch >>) \o right, below))
           IN  Grows(without, with, ch) /\ Shrinks(with, without)
<1> DEFINE a == Serialize(above)
           x == a \o left
           y == right \o (<< Enter >> \o Serialize(below))
           longer == left \o << ch >>
           one == << ch >>
<1>1. longer \in Line
  BY DEF Line
<1>2. x \in Flat /\ y \in Flat /\ y # << >> /\ Serialize(Around(above, left \o right, below)) = x \o y
  BY FlatCut
<1> HIDE DEF longer, y
<1>3. Serialize(Around(above, longer \o right, below)) = (a \o longer) \o y
  BY <1>1, FlatCut DEF y
<1>4. a \in Flat /\ left \in Flat /\ one \in Flat /\ ch \in Char \cup {Enter}
  <2>1. a \in Flat
    BY SerializedAround DEF Flat
  <2> QED BY <2>1 DEF Flat, Line
<1> HIDE DEF a
<1>5. a \o longer = x \o << ch >>
  <2>1. a \o (left \o one) = (a \o left) \o one
    <3> HIDE DEF one
    <3> QED BY <1>4 DEF Flat
  <2> QED BY <2>1 DEF longer
<1> HIDE DEF x
<1>6. Grows(x \o y, (x \o << ch >>) \o y, ch) /\ Shrinks((x \o << ch >>) \o y, x \o y)
  BY <1>2, <1>4, GrowsBetween, ShrinksBetween
<1> QED BY <1>2, <1>3, <1>5, <1>6 DEF longer

\* and so is a row more or less.
LEMMA BreakInFlat ==
    ASSUME NEW above \in Doc, NEW left \in Line, NEW right \in Line, NEW below \in Doc
    PROVE  LET joined == Serialize(Around(above, left \o right, below))
               broken == Serialize(Around(Append(above, left), right, below))
           IN  Grows(joined, broken, Enter) /\ Shrinks(broken, joined)
<1> DEFINE a == Serialize(above)
           e == << Enter >>
           x == a \o left
           b == e \o Serialize(below)
           y == right \o b
           xe == x \o e
           more == Append(above, left)
<1>1. more \in Doc
  BY DEF Doc
<1>2. x \in Flat /\ y \in Flat /\ y # << >> /\ Serialize(Around(above, left \o right, below)) = x \o y
  BY FlatCut
<1>3. a \in Flat /\ left \in Flat /\ right \in Flat /\ e \in Flat /\ Serialize(below) \in Flat
  <2>1. a \in Flat /\ Serialize(below) \in Flat
    BY SerializedAround DEF Flat
  <2> QED BY <2>1 DEF Flat, Line
<1>4. b \in Flat
  <2> HIDE DEF e
  <2> DEFINE sb == Serialize(below)
  <2>1. sb \in Flat
    BY <1>3
  <2> HIDE DEF sb
  <2>2. e \o sb \in Flat
    BY <1>3, <2>1 DEF Flat
  <2> QED BY <2>2 DEF sb
<1>5. Serialize(more) = xe
  <2>1. above \in Seq(Seq(Char))
    BY DEF Doc, Line
  <2>2. left \in Seq(Char)
    BY DEF Line
  <2>3. Terminated(Append(above, left), Enter) = Terminated(above, Enter) \o Append(left, Enter)
    BY ONLY <2>1, <2>2, TerminatedAppend
  <2>4. Serialize(more) = a \o Append(left, Enter)
    BY <2>3 DEF Serialize
  <2>5. Append(left, Enter) = left \o e
    BY <2>2
  <2> HIDE DEF a, e, more
  <2>6. a \o (left \o e) = (a \o left) \o e
    BY <1>3 DEF Flat
  <2> QED BY <2>4, <2>5, <2>6
<1> HIDE DEF more, b
<1>6. Serialize(Around(more, right, below)) = (Serialize(more) \o right) \o b
  BY <1>1, SerializedAround DEF b
<1> HIDE DEF x, e
<1>7. xe \in Flat
  BY <1>2, <1>3 DEF Flat
<1> HIDE DEF xe
<1>8. (xe \o right) \o b = xe \o y
  BY <1>3, <1>4, <1>7, SMTT(30) DEF Flat
<1> HIDE DEF y
<1>9. Enter \in Char \cup {Enter}
  OBVIOUS
<1>10. Grows(x \o y, (x \o << Enter >>) \o y, Enter) /\ Shrinks((x \o << Enter >>) \o y, x \o y)
  BY <1>2, <1>9, GrowsBetween, ShrinksBetween
<1>11. Serialize(Around(more, right, below)) = (x \o << Enter >>) \o y
  BY <1>5, <1>6, <1>8 DEF xe, e
<1> QED BY <1>2, <1>10, <1>11 DEF more

\* The two parts of a row cut at an index.
LEMMA CutSeq ==
    ASSUME NEW S, NEW row \in Seq(S), NEW index \in 0 .. Len(row)
    PROVE  /\ SubSeq(row, 1, index) \in Seq(S) /\ Len(SubSeq(row, 1, index)) = index
           /\ SubSeq(row, index + 1, Len(row)) \in Seq(S)
           /\ row = SubSeq(row, 1, index) \o SubSeq(row, index + 1, Len(row))
<1> DEFINE left == SubSeq(row, 1, index)
           right == SubSeq(row, index + 1, Len(row))
           all == left \o right
<1>1. Len(row) \in Nat
  OBVIOUS
<1>2. left \in Seq(S) /\ Len(left) = index /\ \A i \in 1 .. index : left[i] = row[i]
  BY <1>1
<1>3. /\ right \in Seq(S) /\ Len(right) = Len(row) - index
      /\ \A i \in 1 .. Len(row) - index : right[i] = row[index + i]
  BY <1>1
<1> HIDE DEF left, right
<1>4. /\ all \in Seq(S) /\ Len(all) = Len(left) + Len(right)
      /\ \A i \in 1 .. Len(left) + Len(right) :
            all[i] = IF i <= Len(left) THEN left[i] ELSE right[i - Len(left)]
  BY <1>2, <1>3, ConcatProperties
<1> HIDE DEF all
<1>5. \A i \in 1 .. Len(row) : all[i] = row[i]
  <2> TAKE i \in 1 .. Len(row)
  <2>1. CASE i <= index
    BY <1>1, <1>2, <1>3, <1>4, <2>1
  <2>2. CASE i > index
    <3>1. i - index \in 1 .. Len(row) - index /\ index + (i - index) = i
      BY <1>1, <2>2
    <3> QED BY <1>1, <1>2, <1>3, <1>4, <2>2, <3>1
  <2> QED BY <2>1, <2>2
<1>6. all = row
  BY <1>1, <1>2, <1>3, <1>4, <1>5, SeqEqual
<1> QED BY <1>2, <1>3, <1>6 DEF left, right, all

LEMMA CutRow ==
    ASSUME NEW row \in Line, NEW index \in 0 .. Len(row)
    PROVE  /\ SubSeq(row, 1, index) \in Line /\ SubSeq(row, index + 1, Len(row)) \in Line
           /\ row = SubSeq(row, 1, index) \o SubSeq(row, index + 1, Len(row))
BY CutSeq DEF Line

\* insert() puts one character into the flat text, or changes nothing.
LEMMA InsertIsFlat ==
    ASSUME NEW doc \in Doc, NEW line \in Nat, NEW index \in Int, NEW input \in Char \cup {Enter}
    PROVE  \/ InsertChar(doc, line, index, input) = doc
           \/ Grows(Serialize(doc), Serialize(InsertChar(doc, line, index, input)), input)
<1> DEFINE result == InsertChar(doc, line, index, input)
<1>1. CASE ~ HasLine(doc, line) \/ index \notin 0 .. Len(doc[line + 1])
  BY <1>1 DEF InsertChar
<1>2. CASE HasLine(doc, line) /\ index \in 0 .. Len(doc[line + 1])
  <2> DEFINE above == SubSeq(doc, 1, line)
             below == SubSeq(doc, line + 2, Len(doc))
             row == doc[line + 1]
             left == SubSeq(row, 1, index)
             right == SubSeq(row, index + 1, Len(row))
  <2>1. line \in 0 .. Len(doc) - 1 /\ doc \in Seq(Line)
    BY <1>2 DEF HasLine, Doc
  <2>2. above \in Doc /\ below \in Doc /\ row \in Line /\ doc = Around(above, row, below)
    BY <2>1, AroundLine DEF Doc
  <2>3. index \in 0 .. Len(row)
    BY <1>2
  <2>4. left \in Line /\ right \in Line /\ row = left \o right
    <3> HIDE DEF row
    <3> QED BY <2>2, <2>3, CutRow
  <2>5. CASE input = Enter
    <3>1. result = SubSeq(doc, 1, line) \o << left, right >> \o SubSeq(doc, line + 2, Len(doc))
      BY <1>2, <2>5 DEF InsertChar, BreakLine
    <3> DEFINE two == << left, right >>
    <3>2. result = above \o two \o below
      BY <3>1
    <3> HIDE DEF above, below, row, left, right
    <3>3. above \o two = Append(above, left) \o << right >>
      BY <2>2, <2>4 DEF Doc
    <3>4. result = Around(Append(above, left), right, below)
      BY <3>2, <3>3 DEF Around
    <3> HIDE DEF result
    <3>5. Grows(Serialize(Around(above, left \o right, below)),
                Serialize(Around(Append(above, left), right, below)), Enter)
      BY <2>2, <2>4, BreakInFlat
    <3>6. Grows(Serialize(doc), Serialize(result), input)
      BY <2>2, <2>4, <2>5, <3>4, <3>5
    <3> QED BY <3>6 DEF result
  <2>6. CASE input # Enter
    <3>0. input \in Char
      BY <2>6
    <3> DEFINE new == InsertAt(row, index + 1, input)
    <3>1. result = ReplaceAt(doc, line + 1, new)
      BY <1>2, <2>6 DEF InsertChar
    <3>2. (index + 1) - 1 = index
      OBVIOUS
    <3>3. new = left \o << input >> \o right
      BY <3>2 DEF InsertAt
    <3> DEFINE more == left \o << input >>
    <3> HIDE DEF left, right, row
    <3>4. more \in Line
      BY <2>4, <3>0 DEF Line
    <3>5. new = more \o right
      BY <3>3
    <3> HIDE DEF more, new
    <3>6. new \in Line
      BY <2>4, <3>4, <3>5 DEF Line
    <3>7. ReplaceAt(doc, line + 1, new) = Around(above, new, below)
      BY <2>1, <3>6, ReplacedIsAround
    <3> HIDE DEF above, below
    <3>8. Grows(Serialize(Around(above, left \o right, below)),
                Serialize(Around(above, (left \o << input >>) \o right, below)), input)
      BY <2>2, <2>4, <3>0, CharInFlat
    <3> HIDE DEF result
    <3>9. Grows(Serialize(doc), Serialize(result), input)
      BY <2>2, <2>4, <3>1, <3>5, <3>7, <3>8 DEF more
    <3> QED BY <3>9 DEF result
  <2> QED BY <2>5, <2>6
<1> QED BY <1>1, <1>2

\* remove() takes one character out of the flat text, or changes nothing.
LEMMA RemoveIsFlat ==
    ASSUME NEW doc \in Doc, NEW line \in Nat, NEW index \in Int, index >= Join,
           NEW result \in RemoveChar(doc, line, index)
    PROVE  result = doc \/ Shrinks(Serialize(doc), Serialize(result))
<1>1. CASE index = Join
  <2>1. result = JoinLine(doc, line)
    BY <1>1 DEF RemoveChar
  <2>2. CASE line = 0 \/ ~ HasLine(doc, line)
    BY <2>1, <2>2 DEF JoinLine
  <2>3. CASE line # 0 /\ HasLine(doc, line)
    <3> DEFINE upper == line - 1
               above == SubSeq(doc, 1, upper)
               left == doc[line]
               right == doc[line + 1]
               below == SubSeq(doc, line + 2, Len(doc))
               both == left \o right
               joined == ReplaceAt(doc, line, both)
               under == SubSeq(doc, line + 1, Len(doc))
    <3>1. upper \in 0 .. Len(doc) - 1 /\ line \in 0 .. Len(doc) - 1 /\ doc \in Seq(Line)
          /\ upper + 1 = line /\ upper + 2 = line + 1
      BY <2>3 DEF HasLine, Doc
    <3>2. /\ above \in Doc /\ left \in Line /\ right \in Line /\ below \in Doc /\ under \in Doc
          /\ doc = Around(above, left, under)
      <4> HIDE DEF upper
      <4>1. /\ SubSeq(doc, 1, upper) \in Seq(Line)
            /\ SubSeq(doc, upper + 2, Len(doc)) \in Seq(Line)
            /\ doc[upper + 1] \in Line
            /\ doc = Around(SubSeq(doc, 1, upper), doc[upper + 1], SubSeq(doc, upper + 2, Len(doc)))
        BY <3>1, AroundLine
      <4>2. right \in Line /\ below \in Seq(Line)
        BY <3>1, AroundLine
      <4> QED BY <3>1, <4>1, <4>2 DEF Doc
    <3>3. under = << right >> \o below
      BY <3>1
    <3>4. both \in Line
      BY <3>2 DEF Line
    <3>5. joined = Around(above, both, under)
      <4> HIDE DEF upper, both
      <4>1. ReplaceAt(doc, upper + 1, both)
              = Around(SubSeq(doc, 1, upper), both, SubSeq(doc, upper + 2, Len(doc)))
        BY <3>1, <3>4, ReplacedIsAround
      <4> QED BY <3>1, <4>1
    <3>6. result = RemoveAt(joined, line + 1)
      BY <2>1, <2>3 DEF JoinLine
    <3>7. Len(above) = upper
      BY <3>1
    <3> HIDE DEF above, left, right, below, both, joined, under
    <3> DEFINE top == above \o << both >>
    <3>8. top \in Seq(Line) /\ Len(top) = line /\ top \in Doc
      BY <3>1, <3>2, <3>4, <3>7 DEF Doc
    <3>9. joined = (top \o << right >>) \o below
      <4>1. joined = top \o (<< right >> \o below)
        BY <3>3, <3>5 DEF Around
      <4> HIDE DEF top
      <4>2. top \o (<< right >> \o below) = (top \o << right >>) \o below
        BY <3>2, <3>8, SMTT(30) DEF Doc
      <4> QED BY <4>1, <4>2
    <3>10. result = top \o below
      <4> HIDE DEF top
      <4>1. RemoveAt((top \o << right >>) \o below, Len(top) + 1) = top \o below
        BY <3>2, <3>8, RemoveBetween DEF Doc
      <4> QED BY <3>6, <3>8, <3>9, <4>1
    <3>11. result = Around(above, both, below)
      BY <3>10 DEF Around
    <3>12. doc = Around(Append(above, left), right, below)
      <4> DEFINE a2 == Append(above, left)
      <4>1. a2 \in Doc /\ above \o << left >> = a2
        BY <3>2 DEF Doc
      <4> HIDE DEF a2
      <4>2. doc = a2 \o (<< right >> \o below)
        BY <3>2, <3>3, <4>1 DEF Around
      <4>3. a2 \o (<< right >> \o below) = (a2 \o << right >>) \o below
        BY <3>2, <4>1, SMTT(30) DEF Doc
      <4> QED BY <4>2, <4>3 DEF Around, a2
    <3>13. Shrinks(Serialize(Around(Append(above, left), right, below)),
                   Serialize(Around(above, left \o right, below)))
      BY <3>2, BreakInFlat
    <3> QED BY <3>11, <3>12, <3>13 DEF both
  <2> QED BY <2>2, <2>3
<1>2. CASE index # Join
  <2> DEFINE above == SubSeq(doc, 1, line)
             below == SubSeq(doc, line + 2, Len(doc))
             row == doc[line + 1]
  <2>0. index \in Nat
    BY <1>2 DEF Join
  <2>1. CASE ~ HasLine(doc, line)
    BY <1>2, <2>1 DEF RemoveChar
  <2>2. CASE HasLine(doc, line)
    <3>1. line \in 0 .. Len(doc) - 1 /\ doc \in Seq(Line)
      BY <2>2 DEF HasLine, Doc
    <3>2. above \in Doc /\ below \in Doc /\ row \in Line /\ doc = Around(above, row, below)
      BY <3>1, AroundLine DEF Doc
    <3>3. CASE index > Len(row)
      BY <1>2, <3>3 DEF RemoveChar
    <3>4. ASSUME NEW left \in Line, NEW ch \in Char, NEW right \in Line,
                 row = (left \o << ch >>) \o right,
                 result = ReplaceAt(doc, line + 1, left \o right)
          PROVE  Shrinks(Serialize(doc), Serialize(result))
      <4> DEFINE new == left \o right
      <4>1. new \in Line
        BY DEF Line
      <4> HIDE DEF new
      <4>2. ReplaceAt(doc, line + 1, new) = Around(above, new, below)
        BY <3>1, <4>1, ReplacedIsAround
      <4> HIDE DEF above, below, row
      <4>3. Shrinks(Serialize(Around(above, (left \o << ch >>) \o right, below)),
                    Serialize(Around(above, left \o right, below)))
        BY <3>2, CharInFlat
      <4> QED BY <3>2, <3>4, <4>2, <4>3 DEF new
    <3>5. CASE index = Len(row)
      <4>1. ErasesEnd(doc, line, index)
        BY <2>2, <3>5 DEF ErasesEnd
      <4>2. result = ReplaceAt(doc, line + 1, Front(row)) /\ index >= 1
        BY <1>2, <2>0, <2>2, <3>5, <4>1 DEF RemoveChar
      <4> DEFINE left == Front(row)
                 ch == Last(row)
                 right == << >>
      <4> HIDE DEF row
      <4>3. left \in Line /\ ch \in Char /\ right \in Line /\ row = Append(left, ch)
        BY <3>2, <3>5, <4>2, FrontLast DEF Line
      <4> HIDE DEF left, ch
      <4>4. row = (left \o << ch >>) \o right /\ left \o right = left
        BY <4>3 DEF Line
      <4>5. result = ReplaceAt(doc, line + 1, left \o right)
        BY <4>2, <4>4 DEF left
      <4> QED BY <3>4, <4>3, <4>4, <4>5
    <3>6. CASE index < Len(row)
      <4>1. result = ReplaceAt(doc, line + 1, RemoveAt(row, index + 1))
        <5>1. ~ ErasesEnd(doc, line, index) /\ ~ (index > Len(doc[line + 1]))
          BY <2>0, <3>2, <3>6 DEF ErasesEnd, Line
        <5> QED BY <1>2, <2>2, <5>1 DEF RemoveChar
      <4> DEFINE left == SubSeq(row, 1, index)
                 ch == row[index + 1]
                 right == SubSeq(row, index + 2, Len(row))
      <4>2. index \in 0 .. Len(row) - 1
        BY <2>0, <3>6
      <4> HIDE DEF row
      <4>3. /\ left \in Line /\ ch \in Char /\ right \in Line
            /\ row = Around(left, ch, right)
        BY <3>2, <4>2, AroundLine DEF Line
      <4>4. (index + 1) - 1 = index /\ (index + 1) + 1 = index + 2
        OBVIOUS
      <4>5. RemoveAt(row, index + 1) = left \o right
        BY <4>4 DEF RemoveAt
      <4>6. row = (left \o << ch >>) \o right
        BY <4>3 DEF Around
      <4> HIDE DEF left, ch, right
      <4> QED BY <3>4, <4>1, <4>3, <4>5, <4>6
    <3> QED BY <2>0, <3>2, <3>3, <3>4, <3>5, <3>6 DEF Line
  <2> QED BY <2>1, <2>2
<1> QED BY <1>1, <1>2

-----------------------------------------------------------------------------
(***************************************************************************)
(* The theorems of the specification.                                      *)
(***************************************************************************)
LEMMA EmptyDocIsDoc == EmptyDoc \in Doc /\ Serialize(EmptyDoc) = << Enter >>
<1> DEFINE none == << >>
<1>1. none \in Seq(Char) /\ EmptyDoc = << none >> /\ Append(none, Enter) = << Enter >>
  BY DEF EmptyDoc
<1> HIDE DEF none
<1>2. Terminated(<< none >>, Enter) = Append(none, Enter)
  BY <1>1, TerminatedOne
<1>3. << none >> \in Doc
  BY <1>1 DEF Doc, Line
<1> QED BY <1>1, <1>2, <1>3 DEF Serialize

LEMMA TextInit == Init => TypeOK
<1> SUFFICES ASSUME Init PROVE TypeOK
  OBVIOUS
<1>1. data \in Seq(Seq(Char))
  BY EmptyDocIsDoc DEF Init, Doc, Line
<1>2. disk \in [File -> Seq(Char \cup {Enter, Newline})]
  BY DiskAssumption DEF Init
<1> QED BY <1>1, <1>2 DEF Init, TypeOK

LEMMA TextNext == TypeOK /\ [Next]_vars => TypeOK'
<1> SUFFICES ASSUME TypeOK, [Next]_vars PROVE TypeOK'
  OBVIOUS
<1> USE DEF TypeOK
<1>0. data \in Doc
  BY DEF Doc, Line
<1>00. \A line \in Lines, index \in Indices : line \in Nat /\ index \in Int /\ index >= Join
  BY DiskAssumption DEF Lines, Indices, Join
<1>1. ASSUME NEW line \in Lines, NEW index \in Indices, NEW input \in Char \cup {Enter},
             Insert(line, index, input)
      PROVE  TypeOK'
  <2>1. data' \in Doc
    BY <1>0, <1>00, <1>1, InsertCharType DEF Insert
  <2> QED BY <1>1, <2>1 DEF Insert, Doc, Line
<1>2. ASSUME NEW line \in Lines, NEW index \in Indices, Erase(line, index) PROVE TypeOK'
  <2>1. data' \in Doc
    BY <1>0, <1>00, <1>2, RemoveCharType DEF Erase
  <2> QED BY <1>2, <2>1 DEF Erase, Doc, Line
<1>3. ASSUME NEW line \in Lines, NEW index \in Indices, UndefinedErase(line, index) PROVE TypeOK'
  BY <1>3 DEF UndefinedErase
<1>4. ASSUME NEW f \in File, WriteToFile(f) PROVE TypeOK'
  <2>1. FileOf(data) \in Seq(Char \cup {Enter, Newline})
    BY <1>0, SavedIsLoaded
  <2> QED BY <1>4, <2>1 DEF WriteToFile
<1>5. ASSUME NEW f \in File, ReadFromFile(f) PROVE TypeOK'
  <2>1. LinesOf(disk[f]) \in Doc
    BY LinesOfType
  <2> QED BY <1>5, <2>1 DEF ReadFromFile, Doc, Line
<1>6. CASE UNCHANGED vars
  BY <1>6 DEF vars
<1> QED BY <1>1, <1>2, <1>3, <1>4, <1>5, <1>6 DEF Next, Edit

\* The text stays a sequence of lines without line breaks, and every file one
\* of characters, through every sequence of edits, saves and loads.
THEOREM TextIsLines == Spec => []TypeOK
<1>1. Init => TypeOK
  BY TextInit
<1>2. TypeOK /\ [Next]_vars => TypeOK'
  BY TextNext
<1> QED BY <1>1, <1>2, PTL DEF Spec

LEMMA TypedIsDoc == TypeOK => data \in Doc
BY DEF TypeOK, Doc, Line

\* In every state a full-content message is read back as the text it was made
\* of (blockingVector.cpp serialize, deserialize).
THEOREM WireIsExact == Spec => []WireRoundTrip
<1>1. TypeOK => WireRoundTrip
  BY TypedIsDoc, SerializedIsRead DEF WireRoundTrip
<1> QED BY <1>1, TextIsLines, PTL

\* Backspace takes back what is typed in every state of the container, whatever
\* edits, saves and loads have made its text (blockingVector.cpp:40 and :73).
THEOREM TypingStaysUndone == Spec => []InsertThenRemove
<1>1. TypeOK => InsertThenRemove
  BY TypedIsDoc, TypingIsUndone
<1> QED BY <1>1, TextIsLines, PTL

\* In every state two edits inside different lines lead to the same text in
\* either order, which is what replicas that exchange edits rest on.
THEOREM EditsStayCommuting == Spec => []LineEditsCommute
<1>1. TypeOK => LineEditsCommute
  BY TypedIsDoc, EditsCommute
<1> QED BY <1>1, TextIsLines, PTL

\* A text has no line exactly when its flat form is empty.
LEMMA NoLinesIsFlatEmpty ==
    ASSUME NEW doc \in Doc
    PROVE  doc = << >> <=> Serialize(doc) = << >>
<1>1. doc \in Seq(Seq(Char))
  BY DEF Doc, Line
<1>2. Serialize(<< >>) = << >>
  BY TerminatedEmpty DEF Serialize
<1>3. doc # << >> => Serialize(doc) # << >>
  BY <1>1, TerminatedEnds DEF Serialize
<1> QED BY <1>2, <1>3

LEMMA FlatOfDoc ==
    ASSUME NEW doc \in Doc
    PROVE  Serialize(doc) \in Flat /\ (Serialize(doc) = << >> \/ Last(Serialize(doc)) = Enter)
BY SerializedIsRead DEF Flat

LEMMA GrowsNonempty ==
    ASSUME NEW flat \in Flat, NEW input \in Char \cup {Enter}, NEW result, Grows(flat, result, input)
    PROVE  flat # << >> /\ result # << >>
<1>1. PICK p \in 1 .. Len(flat) : result = InsertAt(flat, p, input)
  BY DEF Grows
<1>2. p \in 1 .. Len(flat) + 1 /\ flat # << >> /\ Len(flat) \in Nat
  BY <1>1 DEF Flat
<1>3. InsertAt(flat, p, input) \in Seq(Char \cup {Enter}) /\ Len(InsertAt(flat, p, input)) = Len(flat) + 1
  BY <1>2, Inserted DEF Flat
<1> QED BY <1>1, <1>2, <1>3

LEMMA ShrinksNonempty ==
    ASSUME NEW flat \in Flat, NEW result, Shrinks(flat, result)
    PROVE  flat # << >> /\ result # << >>
<1>1. PICK p \in 1 .. Len(flat) - 1 : result = RemoveAt(flat, p)
  BY DEF Shrinks
<1>2. p \in 1 .. Len(flat) /\ flat # << >> /\ Len(flat) \in Nat /\ Len(flat) > 1
  BY <1>1 DEF Flat
<1>3. RemoveAt(flat, p) \in Seq(Char \cup {Enter}) /\ Len(RemoveAt(flat, p)) = Len(flat) - 1
  BY <1>2, Removed DEF Flat
<1> QED BY <1>1, <1>2, <1>3

\* What an edit of the container does to the flat text.
LEMMA EditIsFlat ==
    ASSUME TypeOK, Edit
    PROVE  \/ UNCHANGED vars
           \/ /\ \E input \in Char \cup {Enter} : Grows(Serialize(data), Serialize(data'), input)
              /\ alive /\ UNCHANGED << disk, alive >>
           \/ /\ Shrinks(Serialize(data), Serialize(data'))
              /\ alive /\ UNCHANGED << disk, alive >>
           \/ alive /\ alive' = FALSE /\ UNCHANGED << data, disk >>
<1>0. data \in Doc
  BY TypedIsDoc
<1>00. \A line \in Lines, index \in Indices : line \in Nat /\ index \in Int /\ index >= Join
  BY DiskAssumption DEF Lines, Indices, Join, TypeOK
<1>1. ASSUME NEW line \in Lines, NEW index \in Indices, NEW input \in Char \cup {Enter},
             Insert(line, index, input)
      PROVE  UNCHANGED vars \/ Grows(Serialize(data), Serialize(data'), input)
  <2>1. data' = InsertChar(data, line, index, input)
    BY <1>1 DEF Insert
  <2>2. data' = data \/ Grows(Serialize(data), Serialize(data'), input)
    BY <1>0, <1>00, <2>1, InsertIsFlat
  <2> QED BY <1>1, <2>2 DEF Insert, vars
<1>2. ASSUME NEW line \in Lines, NEW index \in Indices, Erase(line, index)
      PROVE  UNCHANGED vars \/ Shrinks(Serialize(data), Serialize(data'))
  <2>1. data' \in RemoveChar(data, line, index)
    BY <1>2 DEF Erase
  <2>2. data' = data \/ Shrinks(Serialize(data), Serialize(data'))
    BY <1>0, <1>00, <2>1, RemoveIsFlat
  <2> QED BY <1>2, <2>2 DEF Erase, vars
<1> QED BY <1>1, <1>2 DEF Edit, Insert, Erase, UndefinedErase

\* No edit takes the last line away or puts one into a text that has none.
THEOREM LinesOnlyFromFiles == Spec => NoLinesOnlyByLoading
<1>1. TypeOK /\ TypeOK' /\ [Next]_vars
        => [(data = << >>) # (data' = << >>) => \E f \in File : ReadFromFile(f)]_vars
  <2> SUFFICES ASSUME TypeOK, TypeOK', Next, ~ \E f \in File : ReadFromFile(f)
               PROVE  data = << >> <=> data' = << >>
    BY DEF vars
  <2>0. data \in Doc /\ data' \in Doc
    BY TypedIsDoc DEF TypeOK, Doc, Line
  <2>1. CASE Edit
    <3>1. CASE data' = data
      BY <3>1
    <3>2. CASE \E input \in Char \cup {Enter} : Grows(Serialize(data), Serialize(data'), input)
      BY <2>0, <3>2, GrowsNonempty, FlatOfDoc, NoLinesIsFlatEmpty
    <3>3. CASE Shrinks(Serialize(data), Serialize(data'))
      BY <2>0, <3>3, ShrinksNonempty, FlatOfDoc, NoLinesIsFlatEmpty
    <3> QED BY <2>1, <3>1, <3>2, <3>3, EditIsFlat DEF vars
  <2>2. CASE \E f \in File : WriteToFile(f)
    BY <2>2 DEF WriteToFile
  <2> QED BY <2>1, <2>2 DEF Next
<1> QED BY <1>1, TextIsLines, PTL DEF Spec, NoLinesOnlyByLoading

\* The lines implement the flat text: every step of the container is a step of
\* FlatText or changes nothing of it.
THEOREM TextIsFlat == Spec => ImplementsFlatText
<1>1. Init => Abstract!Init
  <2> SUFFICES ASSUME Init PROVE Abstract!Init
    OBVIOUS
  <2>1. Serialize(data) = << Enter >>
    BY EmptyDocIsDoc DEF Init
  <2>2. ASSUME NEW f \in File PROVE Serialize(LinesOf(disk[f])) \in Abstract!Text
    <3>1. LinesOf(disk[f]) \in Doc
      BY TextInit, LinesOfType DEF TypeOK
    <3> QED BY <3>1, FlatOfDoc DEF Abstract!Text, Flat, Abstract!Last, Last
  <2> QED BY <2>1, <2>2 DEF Abstract!Init, Init
<1>2. TypeOK /\ TypeOK' /\ [Next]_vars => [Abstract!Next]_(Abstract!vars)
  <2> SUFFICES ASSUME TypeOK, TypeOK', [Next]_vars PROVE [Abstract!Next]_(Abstract!vars)
    OBVIOUS
  <2>0. data \in Doc
    BY TypedIsDoc
  <2> USE DEF Abstract!vars
  <2>1. CASE UNCHANGED vars
    BY <2>1 DEF vars
  <2>2. CASE Edit
    <3>1. ASSUME NEW input \in Char \cup {Enter}, Grows(Serialize(data), Serialize(data'), input),
                 alive, UNCHANGED << disk, alive >>
          PROVE  Abstract!Insert
      BY <3>1 DEF Grows, Abstract!Insert, Abstract!InsertAt, InsertAt
    <3>2. ASSUME Shrinks(Serialize(data), Serialize(data')), alive, UNCHANGED << disk, alive >>
          PROVE  Abstract!Delete
      BY <3>2 DEF Shrinks, Abstract!Delete, Abstract!RemoveAt, RemoveAt
    <3>3. ASSUME alive, alive' = FALSE, UNCHANGED << data, disk >> PROVE Abstract!Crash
      BY <3>3 DEF Abstract!Crash
    <3> QED BY <2>1, <2>2, <3>1, <3>2, <3>3, EditIsFlat DEF Abstract!Next
  <2>3. ASSUME NEW f \in File, WriteToFile(f) PROVE Abstract!Next
    <3>1. LinesOf(FileOf(data)) = data
      BY <2>0, SavedIsLoaded
    <3>2. disk' = [disk EXCEPT ![f] = FileOf(data)] /\ UNCHANGED << data, alive >> /\ alive
      BY <2>3 DEF WriteToFile
    <3>3. \A g \in File : disk'[g] = IF g = f THEN FileOf(data) ELSE disk[g]
      BY <3>2 DEF TypeOK
    <3>4. [g \in File |-> Serialize(LinesOf(disk'[g]))]
            = [[g \in File |-> Serialize(LinesOf(disk[g]))] EXCEPT ![f] = Serialize(data)]
      BY <3>1, <3>3
    <3>5. Abstract!Save
      BY <3>2, <3>4 DEF Abstract!Save
    <3> QED BY <3>5 DEF Abstract!Next
  <2>4. ASSUME NEW f \in File, ReadFromFile(f) PROVE Abstract!Next
    <3>1. data' = LinesOf(disk[f]) /\ UNCHANGED << disk, alive >> /\ alive
      BY <2>4 DEF ReadFromFile
    <3>2. Serialize(data') = [g \in File |-> Serialize(LinesOf(disk[g]))][f]
      BY <3>1
    <3>3. Abstract!Load
      BY <3>1, <3>2 DEF Abstract!Load
    <3> QED BY <3>3 DEF Abstract!Next
  <2> QED BY <2>1, <2>2, <2>3, <2>4 DEF Next
<1> QED BY <1>1, <1>2, TextIsLines, PTL DEF Spec, ImplementsFlatText, Abstract!Spec

-----------------------------------------------------------------------------
(***************************************************************************)
(* The lock-free list.  What its slots hold: the characters of buffers put *)
(* together are those of the parts.                                        *)
(***************************************************************************)
Slot == Char \cup {UNUSEDINT}

LEMMA UsedType ==
    ASSUME NEW s \in Seq(Slot)
    PROVE  Used(s) \in Line
<1>1. Without(s, UNUSEDINT) \in Seq(Slot \ {UNUSEDINT})
  BY WithoutType
<1>2. Slot \ {UNUSEDINT} = Char
  BY BufferAssumption DEF Slot
<1> QED BY <1>1, <1>2 DEF Used, Line

LEMMA UsedNone == Used(<< >>) = << >>
<1> DEFINE V == Seq(Slot \ {UNUSEDINT})
           step == WithoutStep(Slot, UNUSEDINT)
           none == << >>
<1>1. none \in V /\ step \in [Slot -> [V -> V]]
  BY WithoutStepType
<1>2. none \in Seq(Slot)
  OBVIOUS
<1>3. Without(none, UNUSEDINT) = Fold(<< >>, step, none)
  BY <1>2, WithoutIsFold
<1>4. Fold(<< >>, step, << >>) = << >>
  <2> HIDE DEF V, step
  <2> QED BY <1>1, FoldEmpty
<1> QED BY <1>3, <1>4 DEF Used

LEMMA UsedAppend ==
    ASSUME NEW s \in Seq(Slot), NEW slot \in Slot
    PROVE  Used(Append(s, slot)) = IF slot = UNUSEDINT THEN Used(s) ELSE Append(Used(s), slot)
<1> DEFINE V == Seq(Slot \ {UNUSEDINT})
           step == WithoutStep(Slot, UNUSEDINT)
           base == << >>
           longer == Append(s, slot)
<1>1. base \in V /\ step \in [Slot -> [V -> V]]
  BY WithoutStepType
<1>2. \A kept \in V : step[slot][kept] = IF slot = UNUSEDINT THEN kept ELSE Append(kept, slot)
  BY DEF WithoutStep
<1>3. longer \in Seq(Slot)
  OBVIOUS
<1>4. Without(s, UNUSEDINT) = Fold(base, step, s)
  BY WithoutIsFold
<1>5. Without(longer, UNUSEDINT) = Fold(base, step, longer)
  BY <1>3, WithoutIsFold
<1>6. Fold(base, step, s) \in V /\ Fold(base, step, Append(s, slot)) = step[slot][Fold(base, step, s)]
  <2> HIDE DEF V, step, base
  <2> QED BY <1>1, FoldAppend
<1> HIDE DEF V, step, base
<1> QED BY <1>2, <1>4, <1>5, <1>6 DEF Used

LEMMA UsedOne ==
    ASSUME NEW slot \in Slot
    PROVE  Used(<< slot >>) = IF slot = UNUSEDINT THEN << >> ELSE << slot >>
<1> DEFINE none == << >>
<1>1. none \in Seq(Slot) /\ Append(none, slot) = << slot >>
  OBVIOUS
<1>2. Used(none) = none
  BY UsedNone
<1>3. Used(Append(none, slot)) = IF slot = UNUSEDINT THEN Used(none) ELSE Append(Used(none), slot)
  <2> HIDE DEF none
  <2> QED BY <1>1, UsedAppend
<1> QED BY <1>1, <1>2, <1>3

LEMMA ConcatAppend ==
    ASSUME NEW S, NEW s \in Seq(S), NEW t \in Seq(S), NEW e \in S
    PROVE  s \o Append(t, e) = Append(s \o t, e) /\ s \o t \in Seq(S)
OBVIOUS

LEMMA UsedConcat ==
    ASSUME NEW s \in Seq(Slot), NEW t \in Seq(Slot)
    PROVE  Used(s \o t) = Used(s) \o Used(t)
<1> DEFINE P == { u \in Seq(Slot) : Used(s \o u) = Used(s) \o Used(u) }
<1>1. << >> \in P
  <2> DEFINE none == << >>
  <2>1. s \o none = s /\ none \in Seq(Slot)
    OBVIOUS
  <2>2. Used(s) \o none = Used(s)
    BY UsedType DEF Line
  <2>3. Used(none) = none
    BY UsedNone
  <2> QED BY <2>1, <2>2, <2>3
<1>2. ASSUME NEW u \in Seq(Slot), NEW slot \in Slot, u \in P PROVE Append(u, slot) \in P
  <2> DEFINE both == s \o u
             x == Used(s)
             y == Used(u)
  <2>1. s \o Append(u, slot) = Append(both, slot) /\ both \in Seq(Slot)
    BY ConcatAppend
  <2>2. Used(both) = x \o y
    BY <1>2
  <2>3. x \in Seq(Char) /\ y \in Seq(Char)
    BY UsedType DEF Line
  <2> HIDE DEF both
  <2>4. /\ Used(Append(both, slot)) = IF slot = UNUSEDINT THEN Used(both) ELSE Append(Used(both), slot)
        /\ Used(Append(u, slot)) = IF slot = UNUSEDINT THEN y ELSE Append(y, slot)
    BY <2>1, UsedAppend
  <2> HIDE DEF x, y
  <2>5. slot # UNUSEDINT => x \o Append(y, slot) = Append(x \o y, slot)
    BY <2>3, ConcatAppend DEF Slot
  <2>6. Used(Append(both, slot)) = x \o Used(Append(u, slot))
    BY <2>2, <2>4, <2>5
  <2>7. Append(u, slot) \in Seq(Slot)
    OBVIOUS
  <2>8. Used(s \o Append(u, slot)) = Used(s) \o Used(Append(u, slot))
    BY <2>1, <2>6 DEF x
  <2> QED BY <2>7, <2>8
<1> HIDE DEF P
<1>3. t \in P
  BY <1>1, <1>2, SeqInduct
<1> QED BY <1>3 DEF P

\* Empty slots hold nothing.
LEMMA UsedEmpty ==
    ASSUME NEW s \in Seq(Slot), \A i \in 1 .. Len(s) : s[i] = UNUSEDINT
    PROVE  Used(s) = << >>
<1> DEFINE P == { u \in Seq(Slot) : (\A i \in 1 .. Len(u) : u[i] = UNUSEDINT) => Used(u) = << >> }
<1>1. << >> \in P
  BY UsedNone
<1>2. ASSUME NEW u \in Seq(Slot), NEW slot \in Slot, u \in P PROVE Append(u, slot) \in P
  <2> DEFINE longer == Append(u, slot)
  <2>1. /\ longer \in Seq(Slot) /\ Len(longer) = Len(u) + 1 /\ Len(u) \in Nat
        /\ longer[Len(u) + 1] = slot
        /\ \A i \in 1 .. Len(u) : longer[i] = u[i]
    OBVIOUS
  <2>2. Used(longer) = IF slot = UNUSEDINT THEN Used(u) ELSE Append(Used(u), slot)
    BY UsedAppend
  <2> HIDE DEF longer
  <2>3. ASSUME \A i \in 1 .. Len(longer) : longer[i] = UNUSEDINT PROVE Used(longer) = << >>
    <3>1. slot = UNUSEDINT /\ \A i \in 1 .. Len(u) : u[i] = UNUSEDINT
      BY <2>1, <2>3
    <3> QED BY <1>2, <2>2, <3>1
  <2> QED BY <2>1, <2>3 DEF longer
<1> HIDE DEF P
<1>3. s \in P
  BY <1>1, <1>2, SeqInduct
<1> QED BY <1>3 DEF P


LEMMA CharsNone == CharsOf(<< >>) = << >>
BY FlattenEmpty, UsedNone DEF CharsOf

LEMMA CharsAppend ==
    ASSUME NEW line \in Seq(Seq(Slot)), NEW buffer \in Seq(Slot)
    PROVE  /\ CharsOf(line) \in Line
           /\ CharsOf(Append(line, buffer)) = CharsOf(line) \o Used(buffer)
<1>1. /\ FlattenSeq(line) \in Seq(Slot)
      /\ FlattenSeq(Append(line, buffer)) = FlattenSeq(line) \o buffer
  BY FlattenAppend
<1>2. Used(FlattenSeq(line) \o buffer) = Used(FlattenSeq(line)) \o Used(buffer)
  BY <1>1, UsedConcat
<1> QED BY <1>1, <1>2, UsedType DEF CharsOf

LEMMA CharsConcat ==
    ASSUME NEW a \in Seq(Seq(Slot)), NEW z \in Seq(Seq(Slot))
    PROVE  CharsOf(a \o z) = CharsOf(a) \o CharsOf(z)
<1> DEFINE R == Seq(Slot)
           P == { u \in Seq(R) : CharsOf(a \o u) = CharsOf(a) \o CharsOf(u) }
<1>0. CharsOf(a) \in Seq(Char)
  <2>1. << >> \in Seq(Slot)
    OBVIOUS
  <2> QED BY <2>1, CharsAppend DEF Line
<1>1. << >> \in P
  <2> DEFINE none == << >>
  <2>1. a \o none = a /\ none \in Seq(R)
    OBVIOUS
  <2>2. CharsOf(a) \o none = CharsOf(a)
    BY <1>0
  <2>3. CharsOf(none) = none
    BY CharsNone
  <2> QED BY <2>1, <2>2, <2>3
<1>2. ASSUME NEW u \in Seq(R), NEW buffer \in R, u \in P PROVE Append(u, buffer) \in P
  <2> DEFINE both == a \o u
             longer == Append(u, buffer)
             x == CharsOf(a)
             y == CharsOf(u)
             w == Used(buffer)
  <2>1. a \o longer = Append(both, buffer) /\ both \in Seq(R) /\ longer \in Seq(R)
    BY ConcatAppend
  <2>2. CharsOf(both) = x \o y
    BY <1>2
  <2> HIDE DEF both
  <2>3. /\ CharsOf(Append(both, buffer)) = CharsOf(both) \o w
        /\ CharsOf(longer) = y \o w /\ y \in Seq(Char) /\ w \in Seq(Char)
    BY <2>1, CharsAppend, UsedType DEF Line
  <2> HIDE DEF x, y, w, longer
  <2>4. (x \o y) \o w = x \o (y \o w)
    BY <1>0, <2>3, ConcatAssociative, SMTT(30) DEF x
  <2>5. CharsOf(a \o longer) = CharsOf(a) \o CharsOf(longer)
    BY <2>1, <2>2, <2>3, <2>4 DEF x
  <2> QED BY <2>1, <2>5 DEF longer
<1> HIDE DEF P
<1>3. z \in Seq(R)
  OBVIOUS
<1> HIDE DEF R
<1>4. z \in P
  BY <1>1, <1>2, <1>3, SeqInduct
<1> QED BY <1>4 DEF P

\* What a buffer between others holds, and a slot between others.
LEMMA CharsAround ==
    ASSUME NEW top \in Seq(Seq(Slot)), NEW buffer \in Seq(Slot), NEW bottom \in Seq(Seq(Slot))
    PROVE  CharsOf(Around(top, buffer, bottom)) = (CharsOf(top) \o Used(buffer)) \o CharsOf(bottom)
<1> DEFINE upper == Append(top, buffer)
<1>1. top \o << buffer >> = upper /\ upper \in Seq(Seq(Slot))
  OBVIOUS
<1>2. CharsOf(upper) = CharsOf(top) \o Used(buffer)
  BY CharsAppend
<1> HIDE DEF upper
<1>3. CharsOf(upper \o bottom) = CharsOf(upper) \o CharsOf(bottom)
  BY <1>1, CharsConcat
<1> QED BY <1>1, <1>2, <1>3 DEF Around

LEMMA UsedAround ==
    ASSUME NEW left \in Seq(Slot), NEW slot \in Slot, NEW right \in Seq(Slot)
    PROVE  Used(Around(left, slot, right)) = (Used(left) \o Used(<< slot >>)) \o Used(right)
<1> DEFINE one == << slot >>
           front == left \o one
<1>1. one \in Seq(Slot) /\ front \in Seq(Slot)
  OBVIOUS
<1> HIDE DEF one
<1>2. Used(front) = Used(left) \o Used(one)
  BY <1>1, UsedConcat
<1> HIDE DEF front
<1>3. Used(front \o right) = Used(front) \o Used(right)
  BY <1>1, UsedConcat
<1> QED BY <1>2, <1>3 DEF Around, front, one

-----------------------------------------------------------------------------
(***************************************************************************)
(* Places.  A place cuts the characters of its line into those before it   *)
(* and those from it on.                                                   *)
(***************************************************************************)
LEMMA BufferIs ==
    ASSUME NEW buffer \in Buffer
    PROVE  buffer \in Seq(Slot) /\ Len(buffer) = BUFFERLEN /\ BUFFERLEN \in Nat
           /\ \A o \in 1 .. BUFFERLEN : buffer[o] \in Slot
BY BufferAssumption DEF Buffer, Slot

LEMMA BuffersAre == Buffer \subseteq Seq(Slot) /\ Seq(Buffer) \subseteq Seq(Seq(Slot))
<1>1. Buffer \subseteq Seq(Slot)
  BY BufferIs
<1> HIDE DEF Buffer
<1> QED BY <1>1

\* A slot of a buffer of a line, and what is around it.
LEMMA PlaceCuts ==
    ASSUME NEW line \in Seq(Buffer), NEW b \in 1 .. Len(line), NEW o \in 1 .. BUFFERLEN
    PROVE  LET top    == SubSeq(line, 1, b - 1)
               bottom == SubSeq(line, b + 1, Len(line))
               left   == SubSeq(line[b], 1, o - 1)
               right  == SubSeq(line[b], o + 1, BUFFERLEN)
           IN  /\ top \in Seq(Buffer) /\ bottom \in Seq(Buffer) /\ line[b] \in Buffer
               /\ left \in Seq(Slot) /\ right \in Seq(Slot) /\ line[b][o] \in Slot
               /\ Len(left) = o - 1
               /\ line = Around(top, line[b], bottom)
               /\ line[b] = Around(left, line[b][o], right)
<1> DEFINE buffer == line[b]
           l == b - 1
           p == o - 1
<1>1. buffer \in Buffer /\ Len(line) \in Nat /\ l \in 0 .. Len(line) - 1 /\ l + 1 = b /\ l + 2 = b + 1
  <2> HIDE DEF Buffer
  <2> QED OBVIOUS
<1>2. /\ buffer \in Seq(Slot) /\ Len(buffer) = BUFFERLEN
      /\ p \in 0 .. Len(buffer) - 1 /\ p + 1 = o /\ p + 2 = o + 1
  BY <1>1, BufferIs
<1> HIDE DEF l, p, buffer
<1>3. /\ SubSeq(line, 1, l) \in Seq(Buffer)
      /\ SubSeq(line, l + 2, Len(line)) \in Seq(Buffer)
      /\ line = Around(SubSeq(line, 1, l), line[l + 1], SubSeq(line, l + 2, Len(line)))
  BY <1>1, AroundLine
<1>4. /\ SubSeq(buffer, 1, p) \in Seq(Slot)
      /\ SubSeq(buffer, p + 2, Len(buffer)) \in Seq(Slot)
      /\ buffer[p + 1] \in Slot
      /\ buffer = Around(SubSeq(buffer, 1, p), buffer[p + 1], SubSeq(buffer, p + 2, Len(buffer)))
  BY <1>2, AroundLine
<1>5. Len(SubSeq(buffer, 1, p)) = p
  BY <1>2
<1> QED BY <1>1, <1>2, <1>3, <1>4, <1>5 DEF l, p, buffer

\* Associativity for lines, in a form that Zenon can use.
LEMMA Assoc == \A x, y, z \in Seq(Char) : (x \o y) \o z = x \o (y \o z)
BY ConcatAssociative

LEMMA AppendAssoc ==
    \A x, y \in Seq(Char) : \A c \in Char : Append(x \o y, c) = x \o Append(y, c)
OBVIOUS

LEMMA LenConcat == \A x, y \in Seq(Char) : x \o y \in Seq(Char) /\ Len(x \o y) = Len(x) + Len(y)
OBVIOUS

LEMMA CharsCut ==
    ASSUME NEW top \in Seq(Seq(Slot)), NEW left \in Seq(Slot), NEW right \in Seq(Slot),
           NEW bottom \in Seq(Seq(Slot))
    PROVE  /\ CharsOf(Around(top, left \o right, bottom))
                = (CharsOf(top) \o Used(left)) \o (Used(right) \o CharsOf(bottom))
           /\ CharsOf(top) \o Used(left) \in Seq(Char) /\ Used(right) \o CharsOf(bottom) \in Seq(Char)
<1> DEFINE buffer == left \o right
<1>1. buffer \in Seq(Slot)
  OBVIOUS
<1>2. Used(buffer) = Used(left) \o Used(right)
  BY UsedConcat
<1> HIDE DEF buffer
<1>3. CharsOf(Around(top, buffer, bottom)) = (CharsOf(top) \o Used(buffer)) \o CharsOf(bottom)
  BY <1>1, CharsAround
<1> DEFINE w == CharsOf(top)
           x == Used(left)
           y == Used(right)
           z == CharsOf(bottom)
           wx == w \o x
<1>4. w \in Seq(Char) /\ x \in Seq(Char) /\ y \in Seq(Char) /\ z \in Seq(Char)
  BY CharsAppend, UsedType DEF Line
<1> HIDE DEF w, x, y, z
<1>5. wx \in Seq(Char) /\ y \o z \in Seq(Char)
  BY <1>4
<1>6. w \o (x \o y) = wx \o y
  BY <1>4, Assoc, Zenon
<1> HIDE DEF wx
<1>7. (wx \o y) \o z = wx \o (y \o z)
  <2>1. wx \in Seq(Char)
    BY <1>5
  <2>2. y \in Seq(Char) /\ z \in Seq(Char)
    BY <1>4
  <2> QED BY ONLY <2>1, <2>2, Assoc, Zenon
<1> QED BY <1>2, <1>3, <1>5, <1>6, <1>7 DEF w, x, y, z, wx, buffer

LEMMA PlaceCutsChars ==
    ASSUME NEW line \in Seq(Buffer), NEW b \in 1 .. Len(line), NEW o \in 1 .. BUFFERLEN
    PROVE  /\ CharsBefore(line, b, o) \in Line /\ CharsFrom(line, b, o) \in Line
           /\ CharsOf(line) = CharsBefore(line, b, o) \o CharsFrom(line, b, o)
<1> DEFINE buffer == line[b]
           top    == SubSeq(line, 1, b - 1)
           bottom == SubSeq(line, b + 1, Len(line))
           left   == SubSeq(buffer, 1, o - 1)
           rest   == SubSeq(buffer, o, BUFFERLEN)
<1>1. /\ top \in Seq(Buffer) /\ bottom \in Seq(Buffer) /\ buffer \in Buffer
      /\ line = Around(top, buffer, bottom)
  BY PlaceCuts
<1>2. /\ top \in Seq(Seq(Slot)) /\ bottom \in Seq(Seq(Slot))
      /\ buffer \in Seq(Slot) /\ Len(buffer) = BUFFERLEN
  BY <1>1, BuffersAre, BufferIs
<1>3. left \in Seq(Slot) /\ rest \in Seq(Slot) /\ buffer = left \o rest
  <2> DEFINE p == o - 1
  <2>1. p \in 0 .. Len(buffer) /\ p + 1 = o
    BY <1>2
  <2> HIDE DEF p, buffer
  <2>2. /\ SubSeq(buffer, 1, p) \in Seq(Slot) /\ SubSeq(buffer, p + 1, Len(buffer)) \in Seq(Slot)
        /\ buffer = SubSeq(buffer, 1, p) \o SubSeq(buffer, p + 1, Len(buffer))
    BY <1>2, <2>1, CutSeq
  <2> QED BY <1>2, <2>1, <2>2 DEF p
<1>4. CharsBefore(line, b, o) = CharsOf(top) \o Used(left)
      /\ CharsFrom(line, b, o) = Used(rest) \o CharsOf(bottom)
  BY DEF CharsBefore, CharsFrom
<1> HIDE DEF top, bottom, left, rest, buffer
<1>5. /\ CharsOf(Around(top, left \o rest, bottom))
            = (CharsOf(top) \o Used(left)) \o (Used(rest) \o CharsOf(bottom))
      /\ CharsOf(top) \o Used(left) \in Seq(Char) /\ Used(rest) \o CharsOf(bottom) \in Seq(Char)
  BY <1>2, <1>3, CharsCut, ZenonT(30)
<1> QED BY <1>1, <1>3, <1>4, <1>5, Zenon DEF Line

\* What is around a place, with the slot and without.
LEMMA PlaceChars ==
    ASSUME NEW line \in Seq(Buffer), NEW b \in 1 .. Len(line), NEW o \in 1 .. BUFFERLEN
    PROVE  LET top    == SubSeq(line, 1, b - 1)
               bottom == SubSeq(line, b + 1, Len(line))
               left   == SubSeq(line[b], 1, o - 1)
               right  == SubSeq(line[b], o + 1, BUFFERLEN)
               rest   == SubSeq(line[b], o, BUFFERLEN)
           IN  /\ CharsBefore(line, b, o) = CharsOf(top) \o Used(left)
               /\ CharsFrom(line, b, o) = Used(rest) \o CharsOf(bottom)
               /\ rest \in Seq(Slot) /\ Len(rest) = BUFFERLEN - o + 1
               /\ line[b][o] = UNUSEDINT => Used(rest) = Used(right)
<1> DEFINE buffer == line[b]
           right == SubSeq(buffer, o + 1, BUFFERLEN)
           rest == SubSeq(buffer, o, BUFFERLEN)
           one == << buffer[o] >>
<1>1. /\ buffer \in Seq(Slot) /\ Len(buffer) = BUFFERLEN /\ buffer[o] \in Slot
      /\ BUFFERLEN \in Nat
  BY PlaceCuts, BufferIs
<1> HIDE DEF buffer
<1>2. right \in Seq(Slot)
  BY <1>1
<1>3. rest \in Seq(Slot) /\ Len(rest) = BUFFERLEN - o + 1
  BY <1>1
<1>4. one \in Seq(Slot)
  BY <1>1
<1>5. rest = one \o right
  <2>0. /\ SubSeq(buffer, o, o) \in Seq(Slot) /\ Len(SubSeq(buffer, o, o)) = 1
        /\ SubSeq(buffer, o, o)[1] = buffer[o]
    BY <1>1
  <2>1. SubSeq(buffer, o, o) = one
    <3> DEFINE cell == SubSeq(buffer, o, o)
    <3>1. \A i \in 1 .. Len(cell) : cell[i] = one[i]
      BY <2>0
    <3>2. Len(cell) = Len(one)
      BY <2>0
    <3>3. cell \in Seq(Slot)
      BY <2>0
    <3> HIDE DEF cell, one
    <3>4. cell = one
      BY <1>4, <3>1, <3>2, <3>3, SeqEqual
    <3> QED BY <3>4 DEF cell
  <2>2. /\ o \in 1 .. Len(buffer) + 1 /\ o \in o - 1 .. Len(buffer)
        /\ BUFFERLEN \in o .. Len(buffer)
    BY <1>1
  <2>3. SubSeq(buffer, o, o) \o SubSeq(buffer, o + 1, BUFFERLEN) = SubSeq(buffer, o, BUFFERLEN)
    BY <1>1, <2>2, ConcatAdjacentSubSeq
  <2> QED BY <2>1, <2>3
<1> HIDE DEF right, rest, one
<1>6. Used(rest) = Used(one) \o Used(right)
  BY <1>2, <1>4, <1>5, UsedConcat
<1>7. buffer[o] = UNUSEDINT => Used(one) = << >>
  BY <1>1, UsedOne DEF one
<1>8. << >> \o Used(right) = Used(right)
  BY <1>2, UsedType DEF Line
<1>9. buffer[o] = UNUSEDINT => Used(rest) = Used(right)
  BY <1>6, <1>7, <1>8
<1> QED BY <1>3, <1>9 DEF CharsBefore, CharsFrom, buffer, right, rest

\* A new buffer holds what is put into it.
LEMMA NewBufferIs ==
    ASSUME NEW chars \in Seq(Slot), Len(chars) <= BUFFERLEN
    PROVE  NewBuffer(chars) \in Buffer /\ Used(NewBuffer(chars)) = Used(chars)
<1> DEFINE buffer == NewBuffer(chars)
           pad == [i \in 1 .. BUFFERLEN - Len(chars) |-> UNUSEDINT]
           all == chars \o pad
<1>1. BUFFERLEN \in Nat /\ Len(chars) \in Nat /\ UNUSEDINT \in Slot
      /\ \A i \in 1 .. Len(chars) : chars[i] \in Slot
  BY BufferAssumption DEF Slot
<1>2. /\ buffer \in Seq(Slot) /\ Len(buffer) = BUFFERLEN /\ buffer \in [1 .. BUFFERLEN -> Slot]
      /\ \A i \in 1 .. BUFFERLEN : buffer[i] = IF i <= Len(chars) THEN chars[i] ELSE UNUSEDINT
  BY <1>1 DEF NewBuffer
<1>3. /\ pad \in Seq(Slot) /\ Len(pad) = BUFFERLEN - Len(chars)
      /\ \A i \in 1 .. Len(pad) : pad[i] = UNUSEDINT
  BY <1>1
<1> HIDE DEF buffer, pad
<1>4. /\ all \in Seq(Slot) /\ Len(all) = Len(chars) + Len(pad)
      /\ \A i \in 1 .. Len(chars) + Len(pad) : all[i] = IF i <= Len(chars) THEN chars[i] ELSE pad[i - Len(chars)]
  BY <1>3, ConcatProperties
<1> HIDE DEF all
<1>5. \A i \in 1 .. Len(all) : all[i] = buffer[i]
  <2> TAKE i \in 1 .. Len(all)
  <2>1. i \in 1 .. BUFFERLEN
    BY <1>1, <1>3, <1>4
  <2>2. CASE i <= Len(chars)
    BY <1>1, <1>2, <1>3, <1>4, <2>1, <2>2
  <2>3. CASE i > Len(chars)
    <3>1. i - Len(chars) \in 1 .. Len(pad)
      BY <1>1, <1>3, <2>1, <2>3
    <3> QED BY <1>1, <1>2, <1>3, <1>4, <2>1, <2>3, <3>1
  <2> QED BY <1>1, <2>1, <2>2, <2>3
<1>6. Len(all) = Len(buffer)
  BY <1>1, <1>2, <1>3, <1>4
<1>7. all = buffer
  BY <1>2, <1>4, <1>5, <1>6, SeqEqual
<1>8. Used(all) = Used(chars) \o Used(pad)
  BY <1>3, UsedConcat DEF all
<1>9. Used(pad) = << >>
  BY <1>3, UsedEmpty
<1>10. Used(chars) \o << >> = Used(chars)
  BY UsedType DEF Line
<1> QED BY <1>2, <1>7, <1>8, <1>9, <1>10 DEF buffer, Buffer, Slot

LEMMA NewLineIs == NewLine \in Seq(Buffer) \ {<< >>} /\ CharsOf(NewLine) = << >>
<1> DEFINE none == << >>
           buffer == NewBuffer(none)
<1>1. none \in Seq(Slot) /\ Len(none) = 0 /\ 0 <= BUFFERLEN
  BY BufferAssumption
<1>2. buffer \in Buffer /\ Used(buffer) = Used(none)
  <2> HIDE DEF none
  <2> QED BY <1>1, NewBufferIs
<1>3. Used(none) = none
  BY UsedNone
<1> HIDE DEF buffer
<1>4. << buffer >> \in Seq(Buffer) \ {<< >>}
  BY <1>2
<1>5. /\ << >> \in Seq(Seq(Slot)) /\ buffer \in Seq(Slot) /\ << buffer >> = Append(<< >>, buffer)
  BY <1>2, BuffersAre
<1>6. CharsOf(Append(none, buffer)) = CharsOf(none) \o Used(buffer)
  <2> HIDE DEF none
  <2> QED BY <1>5, CharsAppend DEF none
<1>7. CharsOf(none) = none /\ none \o none = none
  BY CharsNone
<1> QED BY <1>2, <1>3, <1>4, <1>5, <1>6, <1>7 DEF NewLine, buffer

-----------------------------------------------------------------------------
(***************************************************************************)
(* insertIntoLine(): a character goes between the characters before a      *)
(* place and those from it on, whether it uses an empty slot or splits the *)
(* buffer.                                                                 *)
(***************************************************************************)
With(line, b, o, c) == (CharsBefore(line, b, o) \o << c >>) \o CharsFrom(line, b, o)

LEMMA OneMore ==
    ASSUME NEW w \in Seq(Char), NEW x \in Seq(Char), NEW c \in Char
    PROVE  w \o (x \o << c >>) = (w \o x) \o << c >>
<1> DEFINE one == << c >>
<1>1. one \in Seq(Char)
  OBVIOUS
<1> HIDE DEF one
<1>2. w \in Seq(Char) /\ x \in Seq(Char)
  OBVIOUS
<1>3. w \o (x \o one) = (w \o x) \o one
  BY ONLY <1>1, <1>2, Assoc, Zenon
<1> QED BY <1>3 DEF one

\* The buffer with c in its slot o.
LEMMA PutIntoBuffer ==
    ASSUME NEW buffer \in Buffer, NEW o \in 1 .. BUFFERLEN, NEW c \in Char
    PROVE  LET new == [buffer EXCEPT ![o] = c]
           IN  /\ new \in Buffer
               /\ new = (SubSeq(buffer, 1, o - 1) \o << c >>) \o SubSeq(buffer, o + 1, BUFFERLEN)
<1> DEFINE new == [buffer EXCEPT ![o] = c]
           p == o - 1
<1>1. new \in Buffer
  BY DEF Buffer
<1>2. /\ buffer \in Seq(Slot) /\ Len(buffer) = BUFFERLEN /\ c \in Slot
      /\ p \in 0 .. Len(buffer) - 1 /\ p + 1 = o /\ p + 2 = o + 1
  BY BufferIs DEF Slot
<1>3. ReplaceAt(buffer, o, c) = new
  BY DEF ReplaceAt, Buffer
<1> HIDE DEF p, new
<1>4. ReplaceAt(buffer, p + 1, c)
        = Around(SubSeq(buffer, 1, p), c, SubSeq(buffer, p + 2, Len(buffer)))
  BY <1>2, ReplacedIsAround
<1>5. new = Around(SubSeq(buffer, 1, o - 1), c, SubSeq(buffer, o + 1, BUFFERLEN))
  BY <1>2, <1>3, <1>4 DEF p
<1> QED BY <1>1, <1>5 DEF Around, new

Put(line, b, o, c) == [line EXCEPT ![b][o] = c]

LEMMA PutIntoSlot ==
    ASSUME NEW line \in Seq(Buffer), NEW b \in 1 .. Len(line), NEW o \in 1 .. BUFFERLEN,
           line[b][o] = UNUSEDINT, NEW c \in Char
    PROVE  /\ Put(line, b, o, c) \in Seq(Buffer) /\ Len(Put(line, b, o, c)) = Len(line)
           /\ CharsOf(Put(line, b, o, c)) = With(line, b, o, c)
<1> DEFINE new == [line EXCEPT ![b][o] = c]
           buffer == line[b]
           put == [buffer EXCEPT ![o] = c]
           top    == SubSeq(line, 1, b - 1)
           bottom == SubSeq(line, b + 1, Len(line))
           left   == SubSeq(buffer, 1, o - 1)
           right  == SubSeq(buffer, o + 1, BUFFERLEN)
           rest   == SubSeq(buffer, o, BUFFERLEN)
           one    == << c >>
           l == b - 1
<1>1. /\ top \in Seq(Buffer) /\ bottom \in Seq(Buffer) /\ buffer \in Buffer
      /\ left \in Seq(Slot) /\ right \in Seq(Slot)
  BY PlaceCuts
<1>2. put \in Buffer /\ put = (left \o one) \o right
  BY <1>1, PutIntoBuffer
<1>3. /\ CharsBefore(line, b, o) = CharsOf(top) \o Used(left)
      /\ CharsFrom(line, b, o) = Used(rest) \o CharsOf(bottom)
      /\ Used(rest) = Used(right)
  BY PlaceChars
<1>4. new = ReplaceAt(line, b, put)
  <2> HIDE DEF put, Buffer
  <2>1. new = [line EXCEPT ![b] = put]
    BY DEF put
  <2>2. [line EXCEPT ![b] = put] = ReplaceAt(line, b, put)
    BY DEF ReplaceAt
  <2> QED BY <2>1, <2>2
<1>5. l \in 0 .. Len(line) - 1 /\ l + 1 = b /\ l + 2 = b + 1
  OBVIOUS
<1> HIDE DEF put, Buffer, l, left, right, rest, buffer
<1>6. new \in Seq(Buffer) /\ Len(new) = Len(line)
  <2> HIDE DEF new
  <2> QED BY <1>2, <1>4 DEF ReplaceAt
<1>7. ReplaceAt(line, l + 1, put)
        = Around(SubSeq(line, 1, l), put, SubSeq(line, l + 2, Len(line)))
  BY <1>2, <1>5, ReplacedIsAround
<1>8. new = Around(top, put, bottom)
  BY <1>4, <1>5, <1>7 DEF l
<1> HIDE DEF new, top, bottom
<1>9. top \in Seq(Seq(Slot)) /\ bottom \in Seq(Seq(Slot)) /\ one \in Seq(Slot) /\ c \in Slot /\ c # UNUSEDINT
  BY <1>1, BuffersAre, BufferAssumption, SMTT(30) DEF Slot
<1>10. Used(one) = one
  BY <1>9, UsedOne
<1> HIDE DEF one
<1> DEFINE with == left \o one
<1>11. with \in Seq(Slot)
  BY <1>1, <1>9
<1>12. Used(with) = Used(left) \o one
  BY <1>1, <1>9, <1>10, UsedConcat
<1> HIDE DEF with
<1>13. CharsOf(Around(top, with \o right, bottom))
         = (CharsOf(top) \o Used(with)) \o (Used(right) \o CharsOf(bottom))
  BY <1>1, <1>9, <1>11, CharsCut, ZenonT(30)
<1>14. CharsOf(top) \o (Used(left) \o one) = (CharsOf(top) \o Used(left)) \o one
  <2>1. CharsOf(top) \in Seq(Char) /\ Used(left) \in Seq(Char)
    BY <1>1, <1>9, CharsAppend, UsedType DEF Line
  <2> QED BY <2>1, OneMore DEF one
<1>15. CharsOf(new) = With(line, b, o, c)
  BY <1>2, <1>3, <1>8, <1>12, <1>13, <1>14 DEF With, with, one
<1> QED BY <1>6, <1>15 DEF new, Put

LEMMA SplitAtSlot ==
    ASSUME NEW line \in Seq(Buffer), NEW b \in 1 .. Len(line), NEW o \in 1 .. BUFFERLEN,
           NEW c \in Char
    PROVE  LET new == SubSeq(line, 1, b - 1) \o SplitBuffer(line[b], o, c)
                        \o SubSeq(line, b + 1, Len(line))
           IN  /\ new \in Seq(Buffer) \ {<< >>}
               /\ CharsOf(new) = With(line, b, o, c)
<1> DEFINE buffer == line[b]
           top    == SubSeq(line, 1, b - 1)
           bottom == SubSeq(line, b + 1, Len(line))
           left   == SubSeq(buffer, 1, o - 1)
           rest   == SubSeq(buffer, o, BUFFERLEN)
           with   == Append(left, c)
           first  == NewBuffer(with)
           second == NewBuffer(rest)
           upper  == Append(top, first)
           new    == top \o << first, second >> \o bottom
<1>1. /\ top \in Seq(Buffer) /\ bottom \in Seq(Buffer) /\ buffer \in Buffer
      /\ left \in Seq(Slot) /\ Len(left) = o - 1
  BY PlaceCuts
<1>2. /\ CharsBefore(line, b, o) = CharsOf(top) \o Used(left)
      /\ CharsFrom(line, b, o) = Used(rest) \o CharsOf(bottom)
      /\ rest \in Seq(Slot) /\ Len(rest) = BUFFERLEN - o + 1
  BY PlaceChars
<1>3. c \in Slot /\ c # UNUSEDINT /\ BUFFERLEN \in Nat
  BY BufferAssumption DEF Slot
<1>4. SplitBuffer(buffer, o, c) = << first, second >>
  BY DEF SplitBuffer
<1> HIDE DEF buffer, top, bottom, left, rest
<1>5. with \in Seq(Slot) /\ Len(with) = o
  BY <1>1, <1>3
<1>6. Used(with) = Append(Used(left), c)
  BY <1>1, <1>3, UsedAppend
<1> HIDE DEF with
<1>7. first \in Buffer /\ Used(first) = Used(with)
  <2>1. Len(with) <= BUFFERLEN
    BY <1>5
  <2> QED BY <1>5, <2>1, NewBufferIs
<1>8. second \in Buffer /\ Used(second) = Used(rest)
  <2>1. Len(rest) <= BUFFERLEN
    BY <1>2, <1>3
  <2> QED BY <1>2, <2>1, NewBufferIs
<1> HIDE DEF first, second, Buffer
<1>9. upper \in Seq(Buffer) /\ top \o << first, second >> = Append(upper, second)
  BY <1>1, <1>7, <1>8
<1>10. upper \o << second >> = Append(upper, second)
  BY <1>8, <1>9
<1>11. new = Around(upper, second, bottom)
  BY <1>9, <1>10 DEF Around
<1>12. new \in Seq(Buffer) /\ new # << >>
  <2>1. Append(upper, second) \in Seq(Buffer) /\ Append(upper, second) # << >>
    BY <1>8, <1>9
  <2>2. new = Append(upper, second) \o bottom
    BY <1>9
  <2> HIDE DEF new, upper
  <2> QED BY <1>1, <2>1, <2>2
<1>13. /\ upper \in Seq(Seq(Slot)) /\ bottom \in Seq(Seq(Slot)) /\ second \in Seq(Slot)
       /\ first \in Seq(Slot) /\ top \in Seq(Seq(Slot))
  BY <1>1, <1>7, <1>8, <1>9, BuffersAre
<1>14. CharsOf(upper) = CharsOf(top) \o Used(first)
  BY <1>13, CharsAppend
<1> HIDE DEF upper, new
<1>15. CharsOf(new) = (CharsOf(upper) \o Used(second)) \o CharsOf(bottom)
  BY <1>11, <1>13, CharsAround
<1> DEFINE w == CharsOf(top)
           x == Used(left)
           y == Used(rest)
           z == CharsOf(bottom)
           wxc == w \o Append(x, c)
<1>16. w \in Seq(Char) /\ x \in Seq(Char) /\ y \in Seq(Char) /\ z \in Seq(Char)
  BY <1>1, <1>2, <1>13, CharsAppend, UsedType DEF Line
<1>17. CharsOf(new) = (wxc \o y) \o z
  BY <1>6, <1>7, <1>8, <1>14, <1>15
<1>18. With(line, b, o, c) = ((w \o x) \o << c >>) \o (y \o z)
  BY <1>2 DEF With
<1> HIDE DEF w, x, y, z
<1>19. wxc = (w \o x) \o << c >>
  <2>1. w \in Seq(Char) /\ x \in Seq(Char) /\ c \in Char
    BY <1>16
  <2>2. w \o (x \o << c >>) = (w \o x) \o << c >>
    BY <2>1, OneMore
  <2>3. Append(x, c) = x \o << c >>
    BY <2>1
  <2> QED BY <2>2, <2>3
<1>20. wxc \in Seq(Char)
  <2>1. Append(x, c) \in Seq(Char)
    BY <1>16
  <2> QED BY <1>16, <2>1
<1> HIDE DEF wxc
<1>21. (wxc \o y) \o z = wxc \o (y \o z)
  <2>1. y \in Seq(Char) /\ z \in Seq(Char)
    BY <1>16
  <2> QED BY ONLY <1>20, <2>1, Assoc, Zenon
<1>22. CharsOf(new) = With(line, b, o, c)
  BY <1>17, <1>18, <1>19, <1>21
<1> QED BY <1>4, <1>12, <1>22 DEF new, top, bottom, buffer

-----------------------------------------------------------------------------
\* There is a first of any places,
LEMMA FirstOf ==
    ASSUME NEW line \in Seq(Buffer), NEW index \in Int, Places(line, index) # {}
    PROVE  /\ FirstPlace(line, index) \in Places(line, index)
           /\ FirstPlace(line, index)[1] \in 1 .. Len(line)
           /\ FirstPlace(line, index)[2] \in 1 .. BUFFERLEN
           /\ Len(CharsBefore(line, FirstPlace(line, index)[1], FirstPlace(line, index)[2])) = index
<1> DEFINE places == Places(line, index)
           columns == { p[1] : p \in places }
<1>1. places \subseteq (1 .. Len(line)) \X (1 .. BUFFERLEN)
  BY DEF Places
<1>2. \A p \in places : p[1] \in 1 .. Len(line) /\ p[2] \in 1 .. BUFFERLEN
  BY <1>1
<1>3. \A p \in places : Len(CharsBefore(line, p[1], p[2])) = index
  BY DEF Places
<1>4. places # {}
  OBVIOUS
<1> HIDE DEF places
<1>5. columns \subseteq Nat /\ columns # {}
  BY <1>2, <1>4
<1>6. PICK b \in columns : \A m \in columns : b <= m
  BY <1>5, LeastElement
<1> DEFINE slots == { p[2] : p \in { q \in places : q[1] = b } }
<1>7. slots \subseteq Nat /\ slots # {}
  BY <1>2, <1>6
<1>8. PICK o \in slots : \A m \in slots : o <= m
  BY <1>7, LeastElement
<1>9. PICK p \in places : p[1] = b /\ p[2] = o
  BY <1>8
<1>10. \A q \in places : p[1] < q[1] \/ (p[1] = q[1] /\ p[2] <= q[2])
  <2> TAKE q \in places
  <2>1. b <= q[1] /\ b \in Nat /\ q[1] \in Nat
    BY <1>2, <1>5, <1>6
  <2>2. CASE q[1] = b
    <3>1. o <= q[2]
      BY <1>8, <2>2
    <3> QED BY <1>9, <2>2, <3>1
  <2>3. CASE q[1] # b
    BY <1>9, <2>1, <2>3
  <2> QED BY <2>2, <2>3
<1>11. FirstPlace(line, index) \in places
  BY <1>9, <1>10 DEF FirstPlace, places
<1> QED BY <1>2, <1>3, <1>11 DEF places

\* and one before every character.
LEMMA SlotBefore ==
    ASSUME NEW slots \in Seq(Slot)
    PROVE  \A k \in 0 .. Len(Used(slots)) - 1 :
              \E o \in 1 .. Len(slots) : Len(Used(SubSeq(slots, 1, o - 1))) = k
<1> DEFINE P == { q \in Seq(Slot) : \A k \in 0 .. Len(Used(q)) - 1 :
                     \E o \in 1 .. Len(q) : Len(Used(SubSeq(q, 1, o - 1))) = k }
<1>1. << >> \in P
  BY UsedNone
<1>2. ASSUME NEW q \in Seq(Slot), NEW slot \in Slot, q \in P PROVE Append(q, slot) \in P
  <2> DEFINE longer == Append(q, slot)
  <2>1. longer \in Seq(Slot) /\ Len(longer) = Len(q) + 1 /\ Len(q) \in Nat
    OBVIOUS
  <2>2. \A o \in 1 .. Len(q) + 1 : SubSeq(longer, 1, o - 1) = SubSeq(q, 1, o - 1)
    OBVIOUS
  <2>3. Used(longer) = IF slot = UNUSEDINT THEN Used(q) ELSE Append(Used(q), slot)
    BY UsedAppend
  <2>4. Used(q) \in Seq(Char) /\ SubSeq(q, 1, Len(q)) = q
    BY UsedType DEF Line
  <2> HIDE DEF longer
  <2>5. ASSUME NEW k \in 0 .. Len(Used(longer)) - 1
        PROVE  \E o \in 1 .. Len(longer) : Len(Used(SubSeq(longer, 1, o - 1))) = k
    <3>1. CASE k < Len(Used(q))
      <4>1. PICK o \in 1 .. Len(q) : Len(Used(SubSeq(q, 1, o - 1))) = k
        BY <1>2, <2>4, <3>1
      <4>2. o \in 1 .. Len(longer) /\ o \in 1 .. Len(q) + 1
        BY <2>1
      <4> QED BY <2>2, <4>1, <4>2
    <3>2. CASE k >= Len(Used(q))
      <4> DEFINE o == Len(q) + 1
      <4>1. slot # UNUSEDINT
        BY <2>3, <2>4, <3>2
      <4>2. Len(Append(Used(q), slot)) = Len(Used(q)) + 1 /\ Len(Used(q)) \in Nat
        BY <2>4
      <4>3. k = Len(Used(q))
        BY <2>3, <3>2, <4>1, <4>2
      <4>4. o \in 1 .. Len(longer) /\ o \in 1 .. Len(q) + 1 /\ o - 1 = Len(q)
        BY <2>1
      <4> HIDE DEF o
      <4>5. SubSeq(longer, 1, o - 1) = q
        BY <2>2, <2>4, <4>4
      <4> QED BY <4>3, <4>4, <4>5
    <3>3. k \in Nat /\ Len(Used(q)) \in Nat
      BY <2>4
    <3> QED BY <3>1, <3>2, <3>3
  <2> QED BY <2>1, <2>5 DEF longer
<1> HIDE DEF P
<1>3. slots \in P
  BY <1>1, <1>2, SeqInduct
<1> QED BY <1>3 DEF P

\* The places of a line that has one more buffer.
LEMMA BeforeInLonger ==
    ASSUME NEW line \in Seq(Buffer), NEW buffer \in Buffer, NEW o \in 1 .. BUFFERLEN
    PROVE  LET longer == Append(line, buffer)
           IN  /\ longer \in Seq(Buffer) /\ Len(longer) = Len(line) + 1 /\ Len(line) \in Nat
               /\ \A b \in 1 .. Len(line) : /\ longer[b] = line[b]
                                            /\ CharsBefore(longer, b, o) = CharsBefore(line, b, o)
               /\ longer[Len(line) + 1] = buffer
               /\ CharsBefore(longer, Len(line) + 1, o)
                    = CharsOf(line) \o Used(SubSeq(buffer, 1, o - 1))
<1> DEFINE longer == Append(line, buffer)
<1>1. /\ longer \in Seq(Buffer) /\ Len(longer) = Len(line) + 1 /\ Len(line) \in Nat
      /\ longer[Len(line) + 1] = buffer
      /\ \A b \in 1 .. Len(line) : longer[b] = line[b]
  <2> HIDE DEF Buffer
  <2> QED OBVIOUS
<1>2. \A b \in 1 .. Len(line) + 1 : SubSeq(longer, 1, b - 1) = SubSeq(line, 1, b - 1)
  <2> HIDE DEF Buffer
  <2> QED OBVIOUS
<1>3. SubSeq(longer, 1, (Len(line) + 1) - 1) = line
  <2> HIDE DEF Buffer
  <2> QED OBVIOUS
<1> HIDE DEF longer
<1>4. \A b \in 1 .. Len(line) : CharsBefore(longer, b, o) = CharsBefore(line, b, o)
  <2> TAKE b \in 1 .. Len(line)
  <2>1. b \in 1 .. Len(line) + 1
    BY <1>1
  <2>2. SubSeq(longer, 1, b - 1) = SubSeq(line, 1, b - 1) /\ longer[b] = line[b]
    BY <1>1, <1>2, <2>1
  <2> QED BY <2>2 DEF CharsBefore
<1>5. CharsBefore(longer, Len(line) + 1, o) = CharsOf(line) \o Used(SubSeq(buffer, 1, o - 1))
  BY <1>1, <1>3 DEF CharsBefore
<1> QED BY <1>1, <1>4, <1>5 DEF longer

LEMMA PlaceExists ==
    ASSUME NEW line \in Seq(Buffer)
    PROVE  \A k \in 0 .. Len(CharsOf(line)) - 1 :
              \E b \in 1 .. Len(line), o \in 1 .. BUFFERLEN : Len(CharsBefore(line, b, o)) = k
<1> DEFINE P == { l \in Seq(Buffer) : \A k \in 0 .. Len(CharsOf(l)) - 1 :
                     \E b \in 1 .. Len(l), o \in 1 .. BUFFERLEN : Len(CharsBefore(l, b, o)) = k }
<1>1. << >> \in P
  BY CharsNone
<1>2. ASSUME NEW l \in Seq(Buffer), NEW buffer \in Buffer, l \in P PROVE Append(l, buffer) \in P
  <2> DEFINE longer == Append(l, buffer)
  <2>1. l \in Seq(Seq(Slot)) /\ buffer \in Seq(Slot) /\ Len(buffer) = BUFFERLEN
    BY BuffersAre, BufferIs
  <2>2. CharsOf(longer) = CharsOf(l) \o Used(buffer)
    BY <2>1, CharsAppend
  <2>3. CharsOf(l) \in Seq(Char) /\ Used(buffer) \in Seq(Char)
    BY <2>1, CharsAppend, UsedType DEF Line
  <2>4. longer \in Seq(Buffer)
    <3> HIDE DEF Buffer
    <3> QED OBVIOUS
  <2>5. Len(CharsOf(longer)) = Len(CharsOf(l)) + Len(Used(buffer))
        /\ Len(CharsOf(l)) \in Nat /\ Len(Used(buffer)) \in Nat
    BY <2>2, <2>3
  <2> HIDE DEF longer
  <2>6. ASSUME NEW k \in 0 .. Len(CharsOf(longer)) - 1
        PROVE  \E b \in 1 .. Len(longer), o \in 1 .. BUFFERLEN : Len(CharsBefore(longer, b, o)) = k
    <3>1. CASE k < Len(CharsOf(l))
      <4>1. k \in 0 .. Len(CharsOf(l)) - 1
        BY <2>5, <3>1
      <4>2. PICK b \in 1 .. Len(l), o \in 1 .. BUFFERLEN : Len(CharsBefore(l, b, o)) = k
        BY <1>2, <4>1
      <4>3. /\ Len(longer) = Len(l) + 1 /\ Len(l) \in Nat
            /\ CharsBefore(longer, b, o) = CharsBefore(l, b, o)
        BY BeforeInLonger DEF longer
      <4>4. b \in 1 .. Len(longer)
        BY <4>3
      <4> QED BY <4>2, <4>3, <4>4
    <3>2. CASE k >= Len(CharsOf(l))
      <4> DEFINE j == k - Len(CharsOf(l))
                 b == Len(l) + 1
      <4>1. j \in 0 .. Len(Used(buffer)) - 1 /\ k = Len(CharsOf(l)) + j
        BY <2>5, <3>2
      <4> HIDE DEF j
      <4>2. PICK o \in 1 .. Len(buffer) : Len(Used(SubSeq(buffer, 1, o - 1))) = j
        BY <2>1, <4>1, SlotBefore
      <4>3. o \in 1 .. BUFFERLEN
        BY <2>1
      <4>4. /\ Len(longer) = Len(l) + 1 /\ Len(l) \in Nat
            /\ CharsBefore(longer, b, o) = CharsOf(l) \o Used(SubSeq(buffer, 1, o - 1))
        BY <4>3, BeforeInLonger DEF longer
      <4>5. b \in 1 .. Len(longer)
        BY <4>4
      <4>6. Used(SubSeq(buffer, 1, o - 1)) \in Seq(Char)
        <5>1. SubSeq(buffer, 1, o - 1) \in Seq(Slot)
          BY <2>1
        <5> QED BY <5>1, UsedType DEF Line
      <4> HIDE DEF b
      <4>7. Len(CharsBefore(longer, b, o)) = Len(CharsOf(l)) + j
        <5> DEFINE x == CharsOf(l)
                   y == Used(SubSeq(buffer, 1, o - 1))
        <5>1. x \in Seq(Char) /\ y \in Seq(Char) /\ Len(y) = j
          BY <2>3, <4>2, <4>6
        <5>2. CharsBefore(longer, b, o) = x \o y
          BY <4>4
        <5> HIDE DEF x, y
        <5>3. Len(x \o y) = Len(x) + Len(y)
          <6>1. x \in Seq(Char)
            BY <5>1
          <6>2. y \in Seq(Char)
            BY <5>1
          <6> QED BY ONLY <6>1, <6>2, LenConcat, Zenon
        <5> QED BY <5>1, <5>2, <5>3 DEF x
      <4> QED BY <4>1, <4>3, <4>5, <4>7
    <3> QED BY <2>5, <3>1, <3>2
  <2> QED BY <2>4, <2>6 DEF longer
<1> HIDE DEF P
<1>3. line \in P
  BY <1>1, <1>2, SeqInduct
<1> QED BY <1>3 DEF P

\* insertIntoLine() inserts where it is told to, whatever the layout.
LEMMA InsertIntoLineType ==
    ASSUME NEW line \in Seq(Buffer) \ {<< >>}, NEW index \in Int, NEW c \in Char
    PROVE  insertIntoLine(line, index, c) \in Seq(Buffer) \ {<< >>}
<1>1. CASE Places(line, index) = {}
  <2> DEFINE one == << c >>
             buffer == NewBuffer(one)
  <2>1. one \in Seq(Slot) /\ Len(one) <= BUFFERLEN
    BY BufferAssumption DEF Slot
  <2>2. buffer \in Buffer
    <3> HIDE DEF one
    <3> QED BY <2>1, NewBufferIs
  <2> HIDE DEF buffer, Buffer
  <2>3. Append(line, buffer) \in Seq(Buffer) \ {<< >>}
    BY <2>2
  <2> QED BY <1>1, <2>3 DEF insertIntoLine, buffer
<1>2. CASE Places(line, index) # {}
  <2> DEFINE b == FirstPlace(line, index)[1]
             o == FirstPlace(line, index)[2]
  <2>1. b \in 1 .. Len(line) /\ o \in 1 .. BUFFERLEN
    BY <1>2, FirstOf
  <2>2. insertIntoLine(line, index, c) =
          IF line[b][o] = UNUSEDINT
          THEN Put(line, b, o, c)
          ELSE IF o > 1 /\ line[b][o - 1] = UNUSEDINT
          THEN Put(line, b, o - 1, c)
          ELSE SubSeq(line, 1, b - 1) \o SplitBuffer(line[b], o, c)
                 \o SubSeq(line, b + 1, Len(line))
    BY <1>2 DEF insertIntoLine, Put
  <2> HIDE DEF b, o
  <2>3. line \in Seq(Buffer) /\ Len(line) > 0
    <3> HIDE DEF Buffer
    <3> QED OBVIOUS
  <2>4. CASE line[b][o] = UNUSEDINT
    <3>1. Put(line, b, o, c) \in Seq(Buffer) /\ Len(Put(line, b, o, c)) = Len(line)
      <4>1. line \in Seq(Buffer)
        BY <2>3
      <4>2. b \in 1 .. Len(line)
        BY <2>1
      <4>3. o \in 1 .. BUFFERLEN
        BY <2>1
      <4>4. c \in Char
        OBVIOUS
      <4> QED BY ONLY <2>4, <4>1, <4>2, <4>3, <4>4, PutIntoSlot
    <3> QED BY <2>2, <2>3, <2>4, <3>1
  <2>5. CASE line[b][o] # UNUSEDINT /\ o > 1 /\ line[b][o - 1] = UNUSEDINT
    <3> DEFINE p == o - 1
    <3>1. p \in 1 .. BUFFERLEN /\ line[b][p] = UNUSEDINT
      BY <2>1, <2>5, BufferAssumption
    <3> HIDE DEF p
    <3>2. Put(line, b, p, c) \in Seq(Buffer) /\ Len(Put(line, b, p, c)) = Len(line)
      <4>1. line \in Seq(Buffer)
        BY <2>3
      <4>2. b \in 1 .. Len(line)
        BY <2>1
      <4>3. p \in 1 .. BUFFERLEN
        BY <3>1
      <4>4. c \in Char
        OBVIOUS
      <4>5. line[b][p] = UNUSEDINT
        BY <3>1
      <4> QED BY ONLY <4>1, <4>2, <4>3, <4>4, <4>5, PutIntoSlot
    <3> QED BY <2>2, <2>3, <2>5, <3>2 DEF p
  <2>6. CASE line[b][o] # UNUSEDINT /\ ~ (o > 1 /\ line[b][o - 1] = UNUSEDINT)
    BY <2>1, <2>2, <2>3, <2>6, SplitAtSlot
  <2> QED BY <2>4, <2>5, <2>6
<1> QED BY <1>1, <1>2

LEMMA WithIs ==
    ASSUME NEW line \in Seq(Buffer), NEW b \in 1 .. Len(line), NEW o \in 1 .. BUFFERLEN,
           NEW c \in Char
    PROVE  With(line, b, o, c) = InsertAt(CharsOf(line), Len(CharsBefore(line, b, o)) + 1, c)
<1> DEFINE x == CharsBefore(line, b, o)
           y == CharsFrom(line, b, o)
<1>1. x \in Seq(Char) /\ y \in Seq(Char) /\ CharsOf(line) = x \o y
  BY PlaceCutsChars DEF Line
<1> HIDE DEF x, y
<1>2. InsertAt(x \o y, Len(x) + 1, c) = (x \o << c >>) \o y
  BY <1>1, InsertBetween
<1>3. With(line, b, o, c) = (x \o << c >>) \o y
  BY DEF With, x, y
<1>4. InsertAt(CharsOf(line), Len(x) + 1, c) = With(line, b, o, c)
  BY <1>1, <1>2, <1>3
<1> QED BY <1>4 DEF x

\* An empty slot on the left makes no difference.
LEMMA SameBefore ==
    ASSUME NEW line \in Seq(Buffer), NEW b \in 1 .. Len(line), NEW o \in 2 .. BUFFERLEN,
           line[b][o - 1] = UNUSEDINT
    PROVE  CharsBefore(line, b, o - 1) = CharsBefore(line, b, o)
<1> DEFINE buffer == line[b]
           p == o - 1
           shorter == SubSeq(buffer, 1, p - 1)
           longer == SubSeq(buffer, 1, p)
<1>1. /\ buffer \in Seq(Slot) /\ Len(buffer) = BUFFERLEN /\ BUFFERLEN \in Nat
      /\ p \in 1 .. BUFFERLEN /\ buffer[p] \in Slot /\ buffer[p] = UNUSEDINT
  <2>1. line[b] \in Buffer
    OBVIOUS
  <2>2. BUFFERLEN \in Nat
    BY BufferAssumption
  <2>3. p \in 1 .. BUFFERLEN
    BY <2>2
  <2> QED BY <2>1, <2>2, <2>3, BufferIs
<1> HIDE DEF buffer, p
<1>2. shorter \in Seq(Slot) /\ longer = Append(shorter, buffer[p])
  BY <1>1
<1> HIDE DEF shorter, longer
<1>3. Used(longer) = Used(shorter)
  BY <1>1, <1>2, UsedAppend
<1>4. CharsBefore(line, b, p) = CharsOf(SubSeq(line, 1, b - 1)) \o Used(shorter)
  BY DEF CharsBefore, shorter, buffer
<1>5. CharsBefore(line, b, o) = CharsOf(SubSeq(line, 1, b - 1)) \o Used(longer)
  BY DEF CharsBefore, longer, buffer, p
<1> QED BY <1>3, <1>4, <1>5 DEF p

LEMMA InsertIntoLineIs ==
    ASSUME NEW line \in Seq(Buffer) \ {<< >>}, NEW index \in 0 .. Len(CharsOf(line)), NEW c \in Char
    PROVE  CharsOf(insertIntoLine(line, index, c)) = InsertAt(CharsOf(line), index + 1, c)
<1>0. line \in Seq(Buffer) /\ line \in Seq(Seq(Slot)) /\ index \in Int
  BY BuffersAre
<1>00. CharsOf(line) \in Seq(Char)
  <2>1. << >> \in Seq(Slot)
    OBVIOUS
  <2> QED BY <1>0, <2>1, CharsAppend DEF Line
<1>1. CASE Places(line, index) = {}
  <2> DEFINE one == << c >>
             buffer == NewBuffer(one)
             x == CharsOf(line)
             none == << >>
  <2>1. one \in Seq(Slot) /\ Len(one) <= BUFFERLEN /\ c \in Slot /\ c # UNUSEDINT
    BY BufferAssumption DEF Slot
  <2>2. Used(one) = one
    BY <2>1, UsedOne
  <2> HIDE DEF one
  <2>3. buffer \in Buffer /\ Used(buffer) = Used(one)
    BY <2>1, NewBufferIs
  <2>4. buffer \in Seq(Slot)
    BY <2>3, BuffersAre
  <2> HIDE DEF buffer
  <2>5. CharsOf(Append(line, buffer)) = x \o one
    BY <1>0, <2>2, <2>3, <2>4, CharsAppend
  <2>6. index = Len(x)
    <3>1. ASSUME index < Len(x) PROVE FALSE
      <4>1. index \in 0 .. Len(CharsOf(line)) - 1
        BY <1>00, <3>1
      <4>2. PICK b \in 1 .. Len(line), o \in 1 .. BUFFERLEN : Len(CharsBefore(line, b, o)) = index
        BY <1>0, <4>1, PlaceExists
      <4>3. << b, o >> \in Places(line, index)
        BY <1>0, <4>2 DEF Places
      <4> QED BY <1>1, <4>3
    <3> QED BY <1>00, <3>1
  <2>7. x \in Seq(Char) /\ none \in Seq(Char) /\ x \o none = x
    BY <1>00
  <2>8. x \o one \in Seq(Char) /\ (x \o one) \o none = x \o one
    BY <1>00 DEF one
  <2> HIDE DEF x, none
  <2>9. InsertAt(x \o none, Len(x) + 1, c) = (x \o << c >>) \o none
    BY <2>7, InsertBetween
  <2>10. insertIntoLine(line, index, c) = Append(line, buffer)
    BY <1>1 DEF insertIntoLine, buffer, one
  <2>11. InsertAt(x, index + 1, c) = x \o one
    BY <2>6, <2>7, <2>8, <2>9 DEF one
  <2> QED BY <2>5, <2>10, <2>11 DEF x
<1>2. CASE Places(line, index) # {}
  <2> DEFINE b == FirstPlace(line, index)[1]
             o == FirstPlace(line, index)[2]
  <2>1. b \in 1 .. Len(line) /\ o \in 1 .. BUFFERLEN /\ Len(CharsBefore(line, b, o)) = index
    BY <1>0, <1>2, FirstOf
  <2>2. insertIntoLine(line, index, c) =
          IF line[b][o] = UNUSEDINT
          THEN Put(line, b, o, c)
          ELSE IF o > 1 /\ line[b][o - 1] = UNUSEDINT
          THEN Put(line, b, o - 1, c)
          ELSE SubSeq(line, 1, b - 1) \o SplitBuffer(line[b], o, c)
                 \o SubSeq(line, b + 1, Len(line))
    BY <1>2 DEF insertIntoLine, Put
  <2> HIDE DEF b, o
  <2>3. With(line, b, o, c) = InsertAt(CharsOf(line), index + 1, c)
    BY <1>0, <2>1, WithIs
  <2>4. CASE line[b][o] = UNUSEDINT
    <3>1. CharsOf(Put(line, b, o, c)) = With(line, b, o, c)
      BY <1>0, <2>1, <2>4, PutIntoSlot
    <3> QED BY <2>2, <2>3, <2>4, <3>1
  <2>5. CASE line[b][o] # UNUSEDINT /\ o > 1 /\ line[b][o - 1] = UNUSEDINT
    <3> DEFINE p == o - 1
    <3>1. p \in 1 .. BUFFERLEN /\ line[b][p] = UNUSEDINT /\ o \in 2 .. BUFFERLEN
      BY <2>1, <2>5, BufferAssumption
    <3>2. CharsBefore(line, b, p) = CharsBefore(line, b, o)
      BY <1>0, <2>1, <2>5, <3>1, SameBefore
    <3> HIDE DEF p
    <3>3. CharsOf(Put(line, b, p, c)) = With(line, b, p, c)
      BY <1>0, <2>1, <3>1, PutIntoSlot
    <3>4. With(line, b, p, c) = InsertAt(CharsOf(line), index + 1, c)
      BY <1>0, <2>1, <3>1, <3>2, WithIs
    <3> QED BY <2>2, <2>5, <3>3, <3>4 DEF p
  <2>6. CASE line[b][o] # UNUSEDINT /\ ~ (o > 1 /\ line[b][o - 1] = UNUSEDINT)
    BY <1>0, <2>1, <2>2, <2>3, <2>6, SplitAtSlot
  <2> QED BY <2>4, <2>5, <2>6
<1> QED BY <1>1, <1>2

-----------------------------------------------------------------------------
(***************************************************************************)
(* Characters moved one by one to the end of a line.                       *)
(***************************************************************************)
\* The layouts of a line.
Layout == Seq(Buffer) \ {<< >>}

LEMMA LayoutChars ==
    ASSUME NEW line \in Layout
    PROVE  line \in Seq(Buffer) /\ line \in Seq(Seq(Slot)) /\ CharsOf(line) \in Line
<1>1. << >> \in Seq(Slot)
  OBVIOUS
<1> QED BY <1>1, BuffersAre, CharsAppend DEF Layout

FilledStep == [c \in Char |-> [l \in Layout |-> insertIntoLine(l, Len(CharsOf(l)), c)]]

LEMMA AtEnd ==
    ASSUME NEW line \in Layout, NEW c \in Char
    PROVE  LET longer == insertIntoLine(line, Len(CharsOf(line)), c)
           IN  longer \in Layout /\ CharsOf(longer) = Append(CharsOf(line), c)
<1> DEFINE x == CharsOf(line)
           n == Len(x)
           none == << >>
<1>1. x \in Seq(Char) /\ n \in Nat /\ n \in 0 .. Len(CharsOf(line)) /\ n \in Int
      /\ none \in Seq(Char) /\ x \o none = x /\ line \in Seq(Buffer) \ {<< >>}
  BY LayoutChars DEF Line, Layout
<1>2. (x \o << c >>) \o none = Append(x, c)
  BY <1>1
<1> HIDE DEF x, none
<1>3. InsertAt(x \o none, Len(x) + 1, c) = (x \o << c >>) \o none
  BY <1>1, InsertBetween
<1> HIDE DEF n
<1>4. CharsOf(insertIntoLine(line, n, c)) = InsertAt(x, n + 1, c)
  BY <1>1, InsertIntoLineIs DEF x
<1>5. insertIntoLine(line, n, c) \in Seq(Buffer) \ {<< >>}
  BY <1>1, InsertIntoLineType
<1>6. insertIntoLine(line, n, c) \in Layout
  BY <1>5 DEF Layout
<1>7. CharsOf(insertIntoLine(line, n, c)) = Append(x, c)
  BY <1>1, <1>2, <1>3, <1>4 DEF n
<1> QED BY <1>6, <1>7 DEF n, x

LEMMA FilledStepType ==
    /\ FilledStep \in [Char -> [Layout -> Layout]]
    /\ \A c \in Char : \A l \in Layout : FilledStep[c][l] = insertIntoLine(l, Len(CharsOf(l)), c)
BY AtEnd DEF FilledStep

LEMMA FilledIsFold ==
    ASSUME NEW line \in Layout, NEW s \in Seq(Char)
    PROVE  Filled(line, s) = Fold(line, FilledStep, s)
<1> DEFINE V == Layout
           step == FilledStep
           base == line
           n == Len(s)
           Equation(f) == f = [i \in 0 .. n |->
              IF i = 0 THEN line
              ELSE LET l == f[i - 1] IN insertIntoLine(l, Len(CharsOf(l)), s[i])]
           filled == CHOOSE f : Equation(f)
<1>1. base \in V
  OBVIOUS
<1>2. step \in [Char -> [V -> V]]
  BY FilledStepType
<1>3. \A c \in Char : \A l \in V : step[c][l] = insertIntoLine(l, Len(CharsOf(l)), c)
  BY FilledStepType
<1>4. n \in Nat /\ n = Len(s) /\ \A i \in 1 .. n : s[i] \in Char
  OBVIOUS
<1>5. Filled(line, s) = filled[n] /\ base = line
  BY DEF Filled
<1> HIDE DEF V, step, n, base
<1>6. PICK g \in [0 .. Len(s) -> V] : Folds(g, base, step, s)
  BY <1>1, <1>2, FoldsExist
<1>7. Equation(g)
  <2>1. \A i \in 0 .. n : g[i] = IF i = 0 THEN line
              ELSE insertIntoLine(g[i - 1], Len(CharsOf(g[i - 1])), s[i])
    <3> TAKE i \in 0 .. n
    <3>1. CASE i = 0
      BY <1>5, <1>6, <3>1 DEF Folds
    <3>2. CASE i # 0
      <4>1. i \in 1 .. Len(s) /\ i - 1 \in 0 .. Len(s)
        BY <1>4, <3>2
      <4>2. g[i] = step[s[i]][g[i - 1]]
        BY <1>6, <4>1 DEF Folds
      <4>3. s[i] \in Char /\ g[i - 1] \in V
        BY <1>4, <1>6, <4>1
      <4> QED BY <1>3, <3>2, <4>2, <4>3
    <3> QED BY <3>1, <3>2
  <2>2. g = [i \in 0 .. n |-> g[i]]
    BY <1>4, <1>6
  <2> QED BY <2>1, <2>2
<1>8. Equation(filled)
  BY <1>7
<1> HIDE DEF filled
<1>9. \A i \in 0 .. n : filled[i] = IF i = 0 THEN line
              ELSE insertIntoLine(filled[i - 1], Len(CharsOf(filled[i - 1])), s[i])
  BY <1>8, Zenon
<1>10. filled[0] = base
  BY <1>4, <1>5, <1>9
<1>11. \A i \in 1 .. Len(s) : filled[i - 1] \in V => filled[i] = step[s[i]][filled[i - 1]]
  <2> TAKE i \in 1 .. Len(s)
  <2>1. i \in 0 .. n /\ i # 0 /\ s[i] \in Char
    BY <1>4
  <2>2. filled[i] = insertIntoLine(filled[i - 1], Len(CharsOf(filled[i - 1])), s[i])
    BY <1>9, <2>1
  <2> QED BY <1>3, <2>1, <2>2
<1>12. s \in Seq(Char)
  OBVIOUS
<1>13. FollowsFold(Char, V, base, step, s, filled)
  BY <1>1, <1>2, <1>10, <1>11, <1>12 DEF FollowsFold
<1>14. filled[Len(s)] = Fold(base, step, s)
  BY ONLY <1>13, FollowedFold
<1>15. filled[n] = Fold(base, step, s)
  BY <1>4, <1>14
<1> QED BY <1>5, <1>15 DEF step, base

LEMMA FilledIs ==
    ASSUME NEW line \in Layout, NEW s \in Seq(Char)
    PROVE  Filled(line, s) \in Layout /\ CharsOf(Filled(line, s)) = CharsOf(line) \o s
<1> DEFINE F(q) == Fold(line, FilledStep, q)
           P == { q \in Seq(Char) : F(q) \in Layout /\ CharsOf(F(q)) = CharsOf(line) \o q }
<1>0. CharsOf(line) \in Seq(Char)
  BY LayoutChars DEF Line
<1>1. << >> \in P
  <2> DEFINE none == << >>
  <2>1. F(<< >>) = line
    BY FilledStepType, FoldEmpty
  <2>2. CharsOf(line) \o << >> = CharsOf(line)
    BY <1>0
  <2>3. << >> \in Seq(Char)
    OBVIOUS
  <2> QED BY <2>1, <2>2, <2>3
<1>2. ASSUME NEW q \in Seq(Char), NEW c \in Char, q \in P PROVE Append(q, c) \in P
  <2>1. F(Append(q, c)) = FilledStep[c][F(q)]
    <3>1. line \in Layout
      OBVIOUS
    <3>2. FilledStep \in [Char -> [Layout -> Layout]]
      BY FilledStepType
    <3>3. q \in Seq(Char)
      OBVIOUS
    <3>4. c \in Char
      OBVIOUS
    <3>5. Fold(line, FilledStep, Append(q, c)) = FilledStep[c][Fold(line, FilledStep, q)]
      BY ONLY <3>1, <3>2, <3>3, <3>4, FoldAppend
    <3> QED BY <3>5
  <2>2. F(q) \in Layout /\ CharsOf(F(q)) = CharsOf(line) \o q
    BY <1>2
  <2> HIDE DEF F
  <2>3. F(Append(q, c)) = insertIntoLine(F(q), Len(CharsOf(F(q))), c)
    BY <2>1, <2>2, FilledStepType
  <2>4. F(Append(q, c)) \in Layout /\ CharsOf(F(Append(q, c))) = Append(CharsOf(F(q)), c)
    BY <2>2, <2>3, AtEnd
  <2> DEFINE x == CharsOf(line)
  <2>5. x \in Seq(Char)
    BY <1>0
  <2> HIDE DEF x
  <2>6. Append(x \o q, c) = x \o Append(q, c) /\ Append(q, c) \in Seq(Char)
    <3>1. q \in Seq(Char)
      OBVIOUS
    <3>2. c \in Char
      OBVIOUS
    <3>3. Append(x \o q, c) = x \o Append(q, c)
      BY ONLY <2>5, <3>1, <3>2, AppendAssoc, Zenon
    <3>4. Append(q, c) \in Seq(Char)
      OBVIOUS
    <3> QED BY <3>3, <3>4
  <2>7. CharsOf(F(Append(q, c))) = CharsOf(line) \o Append(q, c)
    BY <2>2, <2>4, <2>6 DEF x
  <2> QED BY <2>4, <2>6, <2>7
<1> HIDE DEF P
<1>3. s \in P
  BY <1>1, <1>2, SeqInduct
<1> QED BY <1>3, FilledIsFold DEF P

-----------------------------------------------------------------------------
(***************************************************************************)
(* insert() of an Enter: the line keeps what is before the place, the new  *)
(* one gets the rest.                                                      *)
(***************************************************************************)
LEMMA BlankedType ==
    ASSUME NEW line \in Seq(Buffer), NEW b, NEW o
    PROVE  Blanked(line, b, o) \in Seq(Buffer) /\ Len(Blanked(line, b, o)) = Len(line)
<1> DEFINE new == Blanked(line, b, o)
           n == Len(line)
<1>1. n \in Nat /\ DOMAIN line = 1 .. n /\ \A k \in 1 .. n : line[k] \in Buffer
  <2> HIDE DEF Buffer
  <2> QED OBVIOUS
<1>2. \A k \in 1 .. n : new[k] \in Buffer
  BY <1>1 DEF Buffer, Blanked
<1>3. new \in [1 .. n -> Buffer]
  <2>1. new = [k \in 1 .. n |-> new[k]]
    BY <1>1 DEF Blanked
  <2> HIDE DEF new, Buffer
  <2> QED BY <1>2, <2>1
<1> HIDE DEF new, n, Buffer
<1>4. new \in Seq(Buffer) /\ Len(new) = n
  BY <1>1, <1>3
<1> QED BY <1>4 DEF new, n

\* Of a line with one more buffer.
LEMMA BlankedLonger ==
    ASSUME NEW line \in Seq(Buffer), NEW buffer \in Buffer, NEW o \in 1 .. BUFFERLEN
    PROVE  LET longer == Append(line, buffer)
           IN  /\ \A b \in 1 .. Len(line) :
                     Blanked(longer, b, o) = Append(Blanked(line, b, o), NewBuffer(<< >>))
               /\ Blanked(longer, Len(line) + 1, o)
                    = Append(line, NewBuffer(SubSeq(buffer, 1, o - 1)))
<1> DEFINE longer == Append(line, buffer)
           none == << >>
           left == SubSeq(buffer, 1, o - 1)
           n == Len(line)
<1>1. /\ n \in Nat /\ longer \in Seq(Buffer) /\ Len(longer) = n + 1 /\ longer[n + 1] = buffer
      /\ \A k \in 1 .. n : longer[k] = line[k] /\ line[k] \in Buffer
  <2> HIDE DEF Buffer
  <2> QED OBVIOUS
<1>2. /\ NewBuffer(none) \in Buffer /\ NewBuffer(none) = [slot \in 1 .. BUFFERLEN |-> UNUSEDINT]
  <2>1. none \in Seq(Slot) /\ Len(none) = 0 /\ BUFFERLEN \in Nat
    BY BufferAssumption
  <2>2. NewBuffer(none) = [slot \in 1 .. BUFFERLEN |-> UNUSEDINT]
    BY <2>1 DEF NewBuffer
  <2> HIDE DEF none, Buffer
  <2>3. NewBuffer(none) \in Buffer
    <3>1. none \in Seq(Slot) /\ Len(none) <= BUFFERLEN
      BY <2>1
    <3> QED BY <3>1, NewBufferIs
  <2> QED BY <2>2, <2>3
<1>3. /\ NewBuffer(left) \in Buffer
      /\ NewBuffer(left) = [slot \in 1 .. BUFFERLEN |-> IF slot >= o THEN UNUSEDINT ELSE buffer[slot]]
  <2>1. /\ left \in Seq(Slot) /\ Len(left) = o - 1 /\ BUFFERLEN \in Nat
        /\ \A slot \in 1 .. o - 1 : left[slot] = buffer[slot]
    BY BufferIs
  <2> HIDE DEF left, Buffer
  <2>2. NewBuffer(left) \in Buffer
    BY <2>1, NewBufferIs
  <2>3. NewBuffer(left) = [slot \in 1 .. BUFFERLEN |-> IF slot <= o - 1 THEN left[slot] ELSE UNUSEDINT]
    BY <2>1 DEF NewBuffer
  <2>4. \A slot \in 1 .. BUFFERLEN : (IF slot <= o - 1 THEN left[slot] ELSE UNUSEDINT)
                                   = IF slot >= o THEN UNUSEDINT ELSE buffer[slot]
    BY <2>1
  <2> QED BY <2>2, <2>3, <2>4
<1> HIDE DEF longer, none, left, n
<1>4. ASSUME NEW b \in 1 .. n
      PROVE  Blanked(longer, b, o) = Append(Blanked(line, b, o), NewBuffer(none))
  <2> DEFINE old == Blanked(line, b, o)
             new == Blanked(longer, b, o)
             last == NewBuffer(none)
             made == Append(old, last)
  <2>1. old \in Seq(Buffer) /\ Len(old) = n /\ new \in Seq(Buffer) /\ Len(new) = n + 1
    BY <1>1, BlankedType DEF n
  <2>2. \A k \in 1 .. n : new[k] = old[k]
    <3> TAKE k \in 1 .. n
    <3>1. k \in DOMAIN longer /\ k \in DOMAIN line /\ longer[k] = line[k]
      BY <1>1 DEF n
    <3>2. new[k] = [slot \in 1 .. BUFFERLEN |->
                      IF k > b \/ (k = b /\ slot >= o) THEN UNUSEDINT ELSE longer[k][slot]]
      BY <3>1 DEF Blanked
    <3>3. old[k] = [slot \in 1 .. BUFFERLEN |->
                      IF k > b \/ (k = b /\ slot >= o) THEN UNUSEDINT ELSE line[k][slot]]
      BY <3>1 DEF Blanked
    <3> QED BY <3>1, <3>2, <3>3
  <2>3. new[n + 1] = last
    <3>1. \A slot \in 1 .. BUFFERLEN : n + 1 > b
      BY <1>1
    <3>2. n + 1 \in DOMAIN longer
      BY <1>1
    <3> QED BY <1>2, <3>1, <3>2 DEF Blanked
  <2>4. last \in Buffer
    BY <1>2
  <2> HIDE DEF old, new, last, Buffer
  <2>5. made \in Seq(Buffer) /\ Len(made) = n + 1 /\ made[n + 1] = last
        /\ \A k \in 1 .. n : made[k] = old[k]
    BY <1>1, <2>1, <2>4, SMTT(30)
  <2> HIDE DEF made
  <2>6. \A k \in 1 .. Len(new) : new[k] = made[k]
    <3> TAKE k \in 1 .. Len(new)
    <3>1. k \in 1 .. n \/ k = n + 1
      BY <1>1, <2>1
    <3> QED BY <2>2, <2>3, <2>5, <3>1
  <2>7. new = made
    BY <2>1, <2>5, <2>6, SeqEqual
  <2> QED BY <2>7 DEF new, made, old, last
<1>5. Blanked(longer, n + 1, o) = Append(line, NewBuffer(left))
  <2> DEFINE new == Blanked(longer, n + 1, o)
             last == NewBuffer(left)
             made == Append(line, last)
  <2>1. new \in Seq(Buffer) /\ Len(new) = n + 1
    BY <1>1, BlankedType
  <2>2. \A k \in 1 .. n : new[k] = line[k]
    <3> TAKE k \in 1 .. n
    <3>1. line[k] \in [1 .. BUFFERLEN -> Char \cup {UNUSEDINT}] /\ k \in DOMAIN longer
          /\ ~ (k > n + 1) /\ k # n + 1
      BY <1>1 DEF Buffer
    <3>2. new[k] = [slot \in 1 .. BUFFERLEN |-> longer[k][slot]]
      BY <3>1 DEF Blanked
    <3> QED BY <1>1, <3>1, <3>2
  <2>3. new[n + 1] = last
    <3>1. n + 1 \in DOMAIN longer /\ ~ (n + 1 > n + 1)
      BY <1>1
    <3>2. new[n + 1] = [slot \in 1 .. BUFFERLEN |-> IF slot >= o THEN UNUSEDINT ELSE buffer[slot]]
      BY <1>1, <3>1 DEF Blanked
    <3> QED BY <1>3, <3>2
  <2>4. last \in Buffer
    BY <1>3
  <2> HIDE DEF new, last, Buffer
  <2>5. made \in Seq(Buffer) /\ Len(made) = n + 1 /\ made[n + 1] = last
        /\ \A k \in 1 .. n : made[k] = line[k]
    BY <1>1, <2>4 DEF n
  <2> HIDE DEF made
  <2>6. \A k \in 1 .. Len(new) : new[k] = made[k]
    BY <1>1, <2>1, <2>2, <2>3, <2>5
  <2>7. new = made
    BY <2>1, <2>5, <2>6, SeqEqual
  <2> QED BY <2>7 DEF new, made, last
<1> QED BY <1>4, <1>5 DEF longer, none, left, n

LEMMA BlankedIs ==
    ASSUME NEW line \in Seq(Buffer), NEW o \in 1 .. BUFFERLEN
    PROVE  \A b \in 1 .. Len(line) : CharsOf(Blanked(line, b, o)) = CharsBefore(line, b, o)
<1> DEFINE P == { l \in Seq(Buffer) :
                     \A b \in 1 .. Len(l) : CharsOf(Blanked(l, b, o)) = CharsBefore(l, b, o) }
<1>1. << >> \in P
  OBVIOUS
<1>2. ASSUME NEW l \in Seq(Buffer), NEW buffer \in Buffer, l \in P PROVE Append(l, buffer) \in P
  <2> DEFINE longer == Append(l, buffer)
             none == << >>
             left == SubSeq(buffer, 1, o - 1)
             n == Len(l)
  <2>1. /\ longer \in Seq(Buffer) /\ Len(longer) = n + 1 /\ n \in Nat
        /\ \A b \in 1 .. n : CharsBefore(longer, b, o) = CharsBefore(l, b, o)
        /\ CharsBefore(longer, n + 1, o) = CharsOf(l) \o Used(left)
    BY BeforeInLonger
  <2>2. /\ \A b \in 1 .. n : Blanked(longer, b, o) = Append(Blanked(l, b, o), NewBuffer(none))
        /\ Blanked(longer, n + 1, o) = Append(l, NewBuffer(left))
    BY BlankedLonger
  <2>3. NewBuffer(none) \in Buffer /\ Used(NewBuffer(none)) = << >>
    <3>1. none \in Seq(Slot) /\ Len(none) <= BUFFERLEN
      BY BufferAssumption
    <3>2. Used(none) = << >>
      BY UsedNone
    <3> HIDE DEF none
    <3> QED BY <3>1, <3>2, NewBufferIs
  <2>4. NewBuffer(left) \in Buffer /\ Used(NewBuffer(left)) = Used(left)
    <3>1. left \in Seq(Slot) /\ Len(left) = o - 1 /\ o - 1 <= BUFFERLEN
      BY BufferIs
    <3> HIDE DEF left
    <3> QED BY <3>1, NewBufferIs
  <2> HIDE DEF longer, none, left, n
  <2>5. CharsOf(longer) \in Line /\ l \in Seq(Seq(Slot))
    <3>1. << >> \in Seq(Slot)
      OBVIOUS
    <3> QED BY <2>1, <3>1, BuffersAre, CharsAppend
  <2>6. ASSUME NEW b \in 1 .. n
        PROVE  CharsOf(Blanked(longer, b, o)) = CharsBefore(longer, b, o)
    <3> DEFINE old == Blanked(l, b, o)
               last == NewBuffer(none)
               x == CharsOf(old)
    <3>1. old \in Seq(Seq(Slot)) /\ last \in Seq(Slot)
      BY <2>3, BlankedType, BuffersAre
    <3>2. x \in Seq(Char) /\ CharsOf(Append(old, last)) = x \o Used(last)
      BY <3>1, CharsAppend DEF Line
    <3>3. x \o << >> = x
      BY <3>2
    <3>4. x = CharsBefore(l, b, o)
      BY <1>2 DEF n
    <3> QED BY <2>1, <2>2, <2>3, <3>2, <3>3, <3>4
  <2>7. CharsOf(Blanked(longer, n + 1, o)) = CharsBefore(longer, n + 1, o)
    <3> DEFINE last == NewBuffer(left)
    <3>1. last \in Seq(Slot) /\ l \in Seq(Seq(Slot))
      BY <2>4, BuffersAre
    <3>2. CharsOf(Append(l, last)) = CharsOf(l) \o Used(last)
      BY <3>1, CharsAppend
    <3> QED BY <2>1, <2>2, <2>4, <3>2
  <2>8. \A b \in 1 .. Len(longer) : CharsOf(Blanked(longer, b, o)) = CharsBefore(longer, b, o)
    <3> TAKE b \in 1 .. Len(longer)
    <3>1. b \in 1 .. n \/ b = n + 1
      BY <2>1
    <3> QED BY <2>6, <2>7, <3>1
  <2> QED BY <2>1, <2>8 DEF longer
<1> HIDE DEF P
<1>3. line \in P
  BY <1>1, <1>2, SeqInduct
<1> QED BY <1>3 DEF P

\* Both lines stay lines, whatever the index.
LEMMA BrokenType ==
    ASSUME NEW line \in Layout, NEW index \in Int
    PROVE  LET new == Broken(line, index)
           IN  new = << new[1], new[2] >> /\ new[1] \in Layout /\ new[2] \in Layout
<1>0. line \in Seq(Buffer) /\ line # << >>
  BY DEF Layout
<1>1. CASE Places(line, index) = {}
  BY <1>1, NewLineIs DEF Broken, Layout
<1>2. CASE Places(line, index) # {}
  <2> DEFINE b == FirstPlace(line, index)[1]
             o == FirstPlace(line, index)[2]
             old == Blanked(line, b, o)
             rest == CharsFrom(line, b, o)
  <2>1. b \in 1 .. Len(line) /\ o \in 1 .. BUFFERLEN
    BY <1>0, <1>2, FirstOf
  <2>2. Broken(line, index) = << old, Filled(NewLine, rest) >>
    BY <1>2 DEF Broken
  <2> HIDE DEF b, o
  <2>3. old \in Layout
    <3>1. old \in Seq(Buffer) /\ Len(old) = Len(line)
      BY <1>0, BlankedType
    <3>2. Len(line) # 0
      <4> HIDE DEF Buffer
      <4> QED BY <1>0
    <3> QED BY <3>1, <3>2 DEF Layout
  <2>4. rest \in Seq(Char)
    BY <1>0, <2>1, PlaceCutsChars DEF Line
  <2>5. NewLine \in Layout
    BY NewLineIs DEF Layout
  <2>6. Filled(NewLine, rest) \in Layout
    BY <2>4, <2>5, FilledIs
  <2> QED BY <2>2, <2>3, <2>6
<1> QED BY <1>1, <1>2

LEMMA BrokenIs ==
    ASSUME NEW line \in Layout, NEW index \in 0 .. Len(CharsOf(line))
    PROVE  LET new == Broken(line, index)
               whole == CharsOf(line)
           IN  /\ CharsOf(new[1]) = SubSeq(whole, 1, index)
               /\ CharsOf(new[2]) = SubSeq(whole, index + 1, Len(whole))
<1> DEFINE whole == CharsOf(line)
<1>0. line \in Seq(Buffer) /\ whole \in Seq(Char) /\ index \in Int
  BY LayoutChars DEF Line
<1>1. CASE Places(line, index) = {}
  <2>1. index = Len(whole)
    <3>1. ASSUME index < Len(whole) PROVE FALSE
      <4>1. index \in 0 .. Len(CharsOf(line)) - 1
        BY <1>0, <3>1
      <4>2. PICK b \in 1 .. Len(line), o \in 1 .. BUFFERLEN : Len(CharsBefore(line, b, o)) = index
        BY <1>0, <4>1, PlaceExists
      <4>3. << b, o >> \in Places(line, index)
        BY <1>0, <4>2 DEF Places
      <4> QED BY <1>1, <4>3
    <3> QED BY <1>0, <3>1
  <2>2. Broken(line, index) = << line, NewLine >>
    BY <1>1 DEF Broken
  <2> HIDE DEF whole
  <2>3. SubSeq(whole, 1, index) = whole /\ SubSeq(whole, index + 1, Len(whole)) = << >>
    BY <1>0, <2>1
  <2> QED BY <2>2, <2>3, NewLineIs DEF whole
<1>2. CASE Places(line, index) # {}
  <2> DEFINE b == FirstPlace(line, index)[1]
             o == FirstPlace(line, index)[2]
             old == Blanked(line, b, o)
             before == CharsBefore(line, b, o)
             rest == CharsFrom(line, b, o)
  <2>1. b \in 1 .. Len(line) /\ o \in 1 .. BUFFERLEN /\ Len(before) = index
    BY <1>0, <1>2, FirstOf
  <2>2. Broken(line, index) = << old, Filled(NewLine, rest) >>
    BY <1>2 DEF Broken
  <2> HIDE DEF b, o
  <2>3. CharsOf(old) = before
    BY <1>0, <2>1, BlankedIs
  <2>4. rest \in Seq(Char) /\ before \in Seq(Char) /\ whole = before \o rest
    BY <1>0, <2>1, PlaceCutsChars DEF Line
  <2>5. NewLine \in Layout /\ CharsOf(NewLine) = << >>
    BY NewLineIs DEF Layout
  <2> HIDE DEF old, before, rest, whole
  <2>6. CharsOf(Filled(NewLine, rest)) = << >> \o rest
    BY <2>4, <2>5, FilledIs
  <2>7. << >> \o rest = rest
    BY <2>4
  <2>8. /\ SubSeq(before \o rest, 1, Len(before)) = before
        /\ SubSeq(before \o rest, Len(before) + 1, Len(before \o rest)) = rest
    BY <2>4, PartsOfConcat
  <2> QED BY <2>1, <2>2, <2>3, <2>4, <2>6, <2>7, <2>8 DEF whole
<1> QED BY <1>1, <1>2

-----------------------------------------------------------------------------
(***************************************************************************)
(* remove() of a character empties every slot with index characters before *)
(* it: the slot of the character, and empty ones before it.                *)
(***************************************************************************)
LEMMA CutAt ==
    ASSUME NEW x \in Seq(Char), NEW i \in 1 .. Len(x)
    PROVE  \E p \in Seq(Char), e \in Char, q \in Seq(Char) :
              Len(p) + 1 = i /\ x = (p \o << e >>) \o q
<1> DEFINE l == i - 1
           p == SubSeq(x, 1, l)
           q == SubSeq(x, l + 2, Len(x))
<1>1. l \in 0 .. Len(x) - 1 /\ l + 1 = i
  OBVIOUS
<1>2. Len(p) = l
  OBVIOUS
<1> HIDE DEF l
<1>3. p \in Seq(Char) /\ q \in Seq(Char) /\ x[l + 1] \in Char /\ x = Around(p, x[l + 1], q)
  BY <1>1, AroundLine
<1> HIDE DEF p, q
<1> QED BY <1>1, <1>2, <1>3 DEF Around

LEMMA RemoveInConcat ==
    ASSUME NEW x \in Seq(Char), NEW y \in Seq(Char)
    PROVE  /\ \A i \in 1 .. Len(x) : RemoveAt(x \o y, i) = RemoveAt(x, i) \o y
           /\ \A i \in 1 .. Len(y) : RemoveAt(x \o y, Len(x) + i) = x \o RemoveAt(y, i)
<1>1. ASSUME NEW i \in 1 .. Len(x) PROVE RemoveAt(x \o y, i) = RemoveAt(x, i) \o y
  <2>1. PICK p \in Seq(Char), e \in Char, q \in Seq(Char) :
            Len(p) + 1 = i /\ x = (p \o << e >>) \o q
    BY CutAt
  <2> DEFINE pe == p \o << e >>
             qy == q \o y
             pq == p \o q
  <2>2. pe \in Seq(Char) /\ qy \in Seq(Char)
    OBVIOUS
  <2>3. (pe \o q) \o y = pe \o qy
    <3>1. pe \in Seq(Char) /\ q \in Seq(Char) /\ y \in Seq(Char)
      BY <2>2
    <3> QED BY ONLY <3>1, Assoc, ZenonT(30) DEF qy
  <2>4. RemoveAt(pe \o qy, i) = p \o qy
    BY <2>1, <2>2, RemoveBetween
  <2>5. RemoveAt(pe \o q, i) = pq
    BY <2>1, RemoveBetween
  <2>6. pq \o y = p \o qy
    <3>1. p \in Seq(Char) /\ q \in Seq(Char) /\ y \in Seq(Char)
      OBVIOUS
    <3> QED BY ONLY <3>1, Assoc, Zenon DEF pq, qy
  <2> HIDE DEF pe, qy, pq
  <2>7. x = pe \o q
    BY <2>1 DEF pe
  <2> QED BY <2>3, <2>4, <2>5, <2>6, <2>7
<1>2. ASSUME NEW i \in 1 .. Len(y) PROVE RemoveAt(x \o y, Len(x) + i) = x \o RemoveAt(y, i)
  <2>1. PICK p \in Seq(Char), e \in Char, q \in Seq(Char) :
            Len(p) + 1 = i /\ y = (p \o << e >>) \o q
    BY CutAt
  <2> DEFINE one == << e >>
             pe == p \o one
             xp == x \o p
             pq == p \o q
  <2>2. pe \in Seq(Char) /\ xp \in Seq(Char) /\ one \in Seq(Char) /\ Len(xp) = Len(x) + Len(p)
        /\ Len(p) \in Nat /\ Len(x) \in Nat /\ i \in Nat
    OBVIOUS
  <2>3. x \o (pe \o q) = (x \o pe) \o q
    <3>1. pe \in Seq(Char) /\ q \in Seq(Char) /\ x \in Seq(Char)
      BY <2>2
    <3> HIDE DEF pe
    <3> QED BY ONLY <3>1, Assoc, ZenonT(30)
  <2>4. x \o pe = xp \o one
    <3>1. p \in Seq(Char) /\ one \in Seq(Char) /\ x \in Seq(Char)
      BY <2>2
    <3> HIDE DEF one
    <3> QED BY ONLY <3>1, Assoc, ZenonT(30) DEF pe, xp
  <2>5. RemoveAt((xp \o << e >>) \o q, Len(xp) + 1) = xp \o q
    <3> HIDE DEF xp
    <3> QED BY <2>2, RemoveBetween
  <2>6. RemoveAt(pe \o q, i) = pq
    BY <2>1, RemoveBetween
  <2>7. xp \o q = x \o pq
    <3>1. p \in Seq(Char) /\ q \in Seq(Char) /\ x \in Seq(Char)
      OBVIOUS
    <3> QED BY ONLY <3>1, Assoc, Zenon DEF xp, pq
  <2>8. Len(xp) + 1 = Len(x) + i
    <3> HIDE DEF xp
    <3> QED BY <2>1, <2>2
  <2>9. y = pe \o q
    BY <2>1
  <2> HIDE DEF pe, xp, pq
  <2> QED BY <2>3, <2>4, <2>5, <2>6, <2>7, <2>8, <2>9
<1> QED BY <1>1, <1>2

\* The slots without those that have k characters before them.
Hollow(slots, k) ==
    [o \in DOMAIN slots |->
        IF Len(Used(SubSeq(slots, 1, o - 1))) = k THEN UNUSEDINT ELSE slots[o]]

LEMMA HollowAppend ==
    ASSUME NEW s \in Seq(Slot), NEW slot \in Slot, NEW k \in Int
    PROVE  /\ Hollow(s, k) \in Seq(Slot)
           /\ Hollow(Append(s, slot), k)
                = Append(Hollow(s, k), IF Len(Used(s)) = k THEN UNUSEDINT ELSE slot)
<1> DEFINE longer == Append(s, slot)
           last == IF Len(Used(s)) = k THEN UNUSEDINT ELSE slot
           old == Hollow(s, k)
           new == Hollow(longer, k)
           made == Append(old, last)
           n == Len(s)
<1>0. last \in Slot /\ UNUSEDINT \in Slot
  BY DEF Slot
<1>1. /\ longer \in Seq(Slot) /\ Len(longer) = n + 1 /\ n \in Nat /\ longer[n + 1] = slot
      /\ \A o \in 1 .. n : longer[o] = s[o]
      /\ DOMAIN longer = 1 .. n + 1 /\ DOMAIN s = 1 .. n
  OBVIOUS
<1>2. /\ \A o \in 1 .. n : SubSeq(longer, 1, o - 1) = SubSeq(s, 1, o - 1)
      /\ SubSeq(longer, 1, (n + 1) - 1) = s
  OBVIOUS
<1>3. /\ old \in Seq(Slot) /\ Len(old) = n
  <2>1. old \in [1 .. n -> Slot]
    BY <1>0, <1>1 DEF Hollow
  <2> HIDE DEF old, n
  <2> QED BY <1>1, <2>1
<1> HIDE DEF longer, n
<1>4. /\ new \in Seq(Slot) /\ Len(new) = n + 1
  <2>1. new \in [1 .. n + 1 -> Slot]
    <3>1. \A o \in 1 .. n + 1 : longer[o] \in Slot
      BY <1>1
    <3> QED BY <1>0, <1>1, <3>1 DEF Hollow
  <2> HIDE DEF new
  <2> QED BY <1>1, <2>1
<1>5. \A o \in 1 .. n : new[o] = old[o]
  <2> TAKE o \in 1 .. n
  <2>1. o \in DOMAIN longer /\ o \in DOMAIN s
    BY <1>1
  <2> QED BY <1>1, <1>2, <2>1 DEF Hollow
<1>6. new[n + 1] = last
  <2>1. n + 1 \in DOMAIN longer
    BY <1>1
  <2> QED BY <1>1, <1>2, <2>1 DEF Hollow
<1> HIDE DEF old, new, last
<1>7. /\ made \in Seq(Slot) /\ Len(made) = n + 1 /\ made[n + 1] = last
      /\ \A o \in 1 .. n : made[o] = old[o]
  BY <1>0, <1>1, <1>3
<1> HIDE DEF made
<1>8. \A o \in 1 .. Len(new) : new[o] = made[o]
  <2> TAKE o \in 1 .. Len(new)
  <2>1. o \in 1 .. n \/ o = n + 1
    BY <1>1, <1>4
  <2> QED BY <1>5, <1>6, <1>7, <2>1
<1>9. new = made
  BY <1>4, <1>7, <1>8, SeqEqual
<1> QED BY <1>3, <1>9 DEF new, made, old, last, longer

\* What is left is the characters without one, or all of them.
Less(chars, k) == IF k \in 0 .. Len(chars) - 1 THEN RemoveAt(chars, k + 1) ELSE chars

LEMMA LessConcat ==
    ASSUME NEW x \in Seq(Char), NEW y \in Seq(Char), NEW k \in Int
    PROVE  /\ Less(x \o y, k) = Less(x, k) \o Less(y, k - Len(x))
           /\ Less(x, k) \in Seq(Char)
<1> DEFINE n == Len(x)
           m == Len(y)
           j == (k - n) + 1
<1>1. n \in Nat /\ m \in Nat /\ Len(x \o y) = n + m
  OBVIOUS
<1>2. /\ \A i \in 1 .. n : RemoveAt(x \o y, i) = RemoveAt(x, i) \o y
      /\ \A i \in 1 .. m : RemoveAt(x \o y, n + i) = x \o RemoveAt(y, i)
  BY RemoveInConcat
<1>3. Less(x, k) \in Seq(Char)
  <2>1. CASE k \in 0 .. n - 1
    <3>1. k + 1 \in 1 .. Len(x)
      BY <2>1
    <3>2. RemoveAt(x, k + 1) \in Seq(Char)
      BY <3>1, Removed
    <3> QED BY <2>1, <3>2 DEF Less
  <2>2. CASE ~ (k \in 0 .. n - 1)
    BY <2>2 DEF Less
  <2> QED BY <2>1, <2>2
<1> HIDE DEF n, m
<1>4. CASE k \in 0 .. n - 1
  <2>1. k + 1 \in 1 .. n /\ k \in 0 .. (n + m) - 1 /\ ~ (k - n \in 0 .. m - 1)
    BY <1>1, <1>4
  <2>2. Less(x \o y, k) = RemoveAt(x \o y, k + 1) /\ Less(x, k) = RemoveAt(x, k + 1)
        /\ Less(y, k - n) = y
    BY <1>1, <1>4, <2>1 DEF Less, n, m
  <2>3. RemoveAt(x \o y, k + 1) = RemoveAt(x, k + 1) \o y
    <3> DEFINE i == k + 1
    <3>1. i \in 1 .. n
      BY <2>1
    <3> HIDE DEF i
    <3>2. RemoveAt(x \o y, i) = RemoveAt(x, i) \o y
      BY <1>2, <3>1
    <3> QED BY <3>2 DEF i
  <2> QED BY <1>3, <2>2, <2>3 DEF n
<1>5. CASE k \in n .. (n + m) - 1
  <2>1. /\ j \in 1 .. m /\ n + j = k + 1 /\ k \in 0 .. (n + m) - 1 /\ ~ (k \in 0 .. n - 1)
        /\ k - n \in 0 .. m - 1
    BY <1>1, <1>5
  <2>2. Less(x \o y, k) = RemoveAt(x \o y, n + j) /\ Less(x, k) = x
        /\ Less(y, k - n) = RemoveAt(y, j)
    BY <1>1, <2>1 DEF Less, n, m
  <2> HIDE DEF j
  <2> QED BY <1>2, <2>1, <2>2 DEF n
<1>6. CASE ~ (k \in 0 .. (n + m) - 1)
  <2>1. ~ (k \in 0 .. n - 1) /\ ~ (k - n \in 0 .. m - 1)
    BY <1>1, <1>6
  <2>2. Less(x \o y, k) = x \o y /\ Less(x, k) = x /\ Less(y, k - n) = y
    BY <1>1, <1>6, <2>1 DEF Less, n, m
  <2> QED BY <2>2 DEF n
<1>7. k \in 0 .. n - 1 \/ k \in n .. (n + m) - 1 \/ ~ (k \in 0 .. (n + m) - 1)
  BY <1>1
<1> QED BY <1>3, <1>4, <1>5, <1>6, <1>7

LEMMA HollowUsed ==
    ASSUME NEW s \in Seq(Slot), NEW k \in Int
    PROVE  Used(Hollow(s, k)) = Less(Used(s), k)
<1> DEFINE P == { q \in Seq(Slot) : Used(Hollow(q, k)) = Less(Used(q), k) }
<1>1. << >> \in P
  <2> DEFINE none == << >>
  <2>1. none \in Seq(Slot) /\ Used(none) = none
    BY UsedNone
  <2>2. Hollow(none, k) = none
    BY DEF Hollow
  <2>3. Less(none, k) = none
    BY DEF Less
  <2> QED BY <2>1, <2>2, <2>3
<1>2. ASSUME NEW q \in Seq(Slot), NEW slot \in Slot, q \in P PROVE Append(q, slot) \in P
  <2> DEFINE longer == Append(q, slot)
             x == Used(q)
             last == IF Len(x) = k THEN UNUSEDINT ELSE slot
             one == << slot >>
             old == Hollow(q, k)
  <2>1. /\ longer \in Seq(Slot) /\ last \in Slot /\ old \in Seq(Slot)
        /\ Hollow(longer, k) = Append(old, last)
    <3>1. /\ old \in Seq(Slot)
          /\ Hollow(longer, k) = Append(old, IF Len(x) = k THEN UNUSEDINT ELSE slot)
      BY HollowAppend
    <3>2. last \in Slot
      BY DEF Slot
    <3> QED BY <3>1, <3>2
  <2>2. Used(Append(old, last)) = IF last = UNUSEDINT THEN Used(old) ELSE Append(Used(old), last)
    BY <2>1, UsedAppend
  <2>3. Used(longer) = IF slot = UNUSEDINT THEN x ELSE Append(x, slot)
    BY UsedAppend
  <2>4. Used(old) = Less(x, k)
    BY <1>2
  <2>5. x \in Seq(Char) /\ Len(x) \in Nat
    BY UsedType DEF Line
  <2>5a. last = IF Len(x) = k THEN UNUSEDINT ELSE slot
    OBVIOUS
  <2> HIDE DEF longer, x, old, last
  <2>6. ASSUME slot = UNUSEDINT PROVE Used(Hollow(longer, k)) = Less(Used(longer), k)
    BY <2>1, <2>2, <2>3, <2>4, <2>5a, <2>6
  <2>7. ASSUME slot # UNUSEDINT PROVE Used(Hollow(longer, k)) = Less(Used(longer), k)
    <3>1. slot \in Char
      BY <2>7 DEF Slot
    <3>2. one \in Seq(Char) /\ Len(one) = 1 /\ Append(x, slot) = x \o one
      BY <2>5, <3>1
    <3>3. Less(one, k - Len(x)) = IF k = Len(x) THEN << >> ELSE one
      <4>1. CASE k = Len(x)
        <5>1. k - Len(x) = 0 /\ RemoveAt(one, 1) = << >>
          BY <2>5, <3>1, <4>1 DEF RemoveAt
        <5> QED BY <3>2, <4>1, <5>1 DEF Less
      <4>2. CASE k # Len(x)
        <5>1. ~ (k - Len(x) \in 0 .. Len(one) - 1)
          BY <2>5, <3>2, <4>2
        <5> QED BY <4>2, <5>1 DEF Less
      <4> QED BY <4>1, <4>2
    <3> HIDE DEF one
    <3>4. Less(x \o one, k) = Less(x, k) \o Less(one, k - Len(x)) /\ Less(x, k) \in Seq(Char)
      BY <2>5, <3>2, LessConcat
    <3>5. Less(x, k) \o << >> = Less(x, k)
      BY <3>4
    <3>6. Append(Less(x, k), slot) = Less(x, k) \o one
      BY <3>1, <3>4 DEF one
    <3>7. Used(Hollow(longer, k)) = IF Len(x) = k THEN Less(x, k) ELSE Less(x, k) \o one
      BY <2>1, <2>2, <2>4, <2>5a, <2>7, <3>6
    <3>8. Less(Used(longer), k) = Less(x, k) \o Less(one, k - Len(x))
      BY <2>3, <2>7, <3>2, <3>4
    <3> QED BY <3>3, <3>5, <3>7, <3>8
  <2>8. Used(Hollow(longer, k)) = Less(Used(longer), k)
    BY <2>6, <2>7
  <2> QED BY <2>1, <2>8 DEF longer
<1> HIDE DEF P
<1>3. s \in P
  BY <1>1, <1>2, SeqInduct
<1> QED BY <1>3 DEF P

LEMMA EmptiedType ==
    ASSUME NEW line \in Seq(Buffer), NEW index
    PROVE  Emptied(line, index) \in Seq(Buffer) /\ Len(Emptied(line, index)) = Len(line)
<1> DEFINE new == Emptied(line, index)
           n == Len(line)
<1>1. n \in Nat /\ DOMAIN line = 1 .. n /\ \A k \in 1 .. n : line[k] \in Buffer
  <2> HIDE DEF Buffer
  <2> QED OBVIOUS
<1>2. \A k \in 1 .. n : new[k] \in Buffer
  BY <1>1 DEF Buffer, Emptied
<1>3. new \in [1 .. n -> Buffer]
  <2>1. new = [k \in 1 .. n |-> new[k]]
    BY <1>1 DEF Emptied
  <2> HIDE DEF new, Buffer
  <2> QED BY <1>2, <2>1
<1> HIDE DEF new, n, Buffer
<1>4. new \in Seq(Buffer) /\ Len(new) = n
  BY <1>1, <1>3
<1> QED BY <1>4 DEF new, n

LEMMA EmptiedLonger ==
    ASSUME NEW line \in Seq(Buffer), NEW buffer \in Buffer, NEW index \in Int
    PROVE  LET hollow == Hollow(buffer, index - Len(CharsOf(line)))
           IN  /\ hollow \in Buffer
               /\ Emptied(Append(line, buffer), index) = Append(Emptied(line, index), hollow)
<1> DEFINE longer == Append(line, buffer)
           n == Len(line)
           k == index - Len(CharsOf(line))
           hollow == Hollow(buffer, k)
           old == Emptied(line, index)
           new == Emptied(longer, index)
           made == Append(old, hollow)
<1>1. /\ n \in Nat /\ longer \in Seq(Buffer) /\ Len(longer) = n + 1 /\ longer[n + 1] = buffer
      /\ DOMAIN longer = 1 .. n + 1 /\ DOMAIN line = 1 .. n
      /\ \A b \in 1 .. n : longer[b] = line[b] /\ line[b] \in Buffer
  <2> HIDE DEF Buffer
  <2> QED OBVIOUS
<1>2. /\ \A o \in 1 .. BUFFERLEN : \A b \in 1 .. n :
            CharsBefore(longer, b, o) = CharsBefore(line, b, o)
      /\ \A o \in 1 .. BUFFERLEN :
            CharsBefore(longer, n + 1, o) = CharsOf(line) \o Used(SubSeq(buffer, 1, o - 1))
  BY BeforeInLonger
<1>3. CharsOf(line) \in Seq(Char) /\ Len(CharsOf(line)) \in Nat
  <2>1. << >> \in Seq(Slot)
    OBVIOUS
  <2>2. CharsOf(line) \in Seq(Char)
    BY <2>1, BuffersAre, CharsAppend DEF Line
  <2> QED BY <2>2
<1>4. /\ buffer \in Seq(Slot) /\ DOMAIN buffer = 1 .. BUFFERLEN
      /\ \A o \in 1 .. BUFFERLEN : buffer[o] \in Slot
  BY BufferIs DEF Buffer
<1>5. hollow \in Buffer
  BY <1>4 DEF Hollow, Buffer, Slot
<1> HIDE DEF longer, n, k
<1>6. old \in Seq(Buffer) /\ Len(old) = n
  BY EmptiedType DEF n
<1>7. new \in Seq(Buffer) /\ Len(new) = n + 1
  BY <1>1, EmptiedType
<1>8. \A b \in 1 .. n : new[b] = old[b]
  <2> TAKE b \in 1 .. n
  <2>1. b \in DOMAIN longer /\ b \in DOMAIN line /\ longer[b] = line[b]
    BY <1>1
  <2>2. \A o \in 1 .. BUFFERLEN : << b, o >> \in Places(longer, index) <=> << b, o >> \in Places(line, index)
    BY <1>2, <2>1 DEF Places
  <2>3. new[b] = [o \in 1 .. BUFFERLEN |->
                    IF << b, o >> \in Places(longer, index) THEN UNUSEDINT ELSE longer[b][o]]
    BY <2>1 DEF Emptied
  <2>4. old[b] = [o \in 1 .. BUFFERLEN |->
                    IF << b, o >> \in Places(line, index) THEN UNUSEDINT ELSE line[b][o]]
    BY <2>1 DEF Emptied
  <2> QED BY <2>1, <2>2, <2>3, <2>4
<1>9. new[n + 1] = hollow
  <2>1. n + 1 \in DOMAIN longer
    BY <1>1
  <2>2. \A o \in 1 .. BUFFERLEN :
            << n + 1, o >> \in Places(longer, index) <=> Len(Used(SubSeq(buffer, 1, o - 1))) = k
    <3> TAKE o \in 1 .. BUFFERLEN
    <3> DEFINE x == CharsOf(line)
               y == Used(SubSeq(buffer, 1, o - 1))
    <3>1. << n + 1, o >> \in Places(longer, index) <=> Len(CharsBefore(longer, n + 1, o)) = index
      BY <2>1 DEF Places
    <3>2. CharsBefore(longer, n + 1, o) = x \o y
      BY <1>2
    <3>3. SubSeq(buffer, 1, o - 1) \in Seq(Slot)
      <4>1. Len(buffer) = BUFFERLEN /\ BUFFERLEN \in Nat
        BY BufferIs
      <4> QED BY <1>4, <4>1
    <3>4. x \in Seq(Char) /\ y \in Seq(Char)
      BY <1>3, <3>3, UsedType DEF Line
    <3> HIDE DEF x, y
    <3>5. Len(x \o y) = Len(x) + Len(y) /\ Len(x) \in Nat /\ Len(y) \in Nat
      BY <3>4
    <3>6. k = index - Len(x)
      BY DEF k, x
    <3>7. Len(x \o y) = index <=> Len(y) = k
      BY <3>5, <3>6
    <3> QED BY <3>1, <3>2, <3>7 DEF y
  <2>3. new[n + 1] = [o \in 1 .. BUFFERLEN |->
                    IF << n + 1, o >> \in Places(longer, index) THEN UNUSEDINT ELSE longer[n + 1][o]]
    BY <2>1 DEF Emptied
  <2> QED BY <1>1, <1>4, <2>2, <2>3 DEF Hollow
<1> HIDE DEF old, new, hollow, Buffer
<1>10. /\ made \in Seq(Buffer) /\ Len(made) = n + 1 /\ made[n + 1] = hollow
       /\ \A b \in 1 .. n : made[b] = old[b]
  BY <1>1, <1>5, <1>6
<1> HIDE DEF made
<1>11. \A b \in 1 .. Len(new) : new[b] = made[b]
  <2> TAKE b \in 1 .. Len(new)
  <2>1. b \in 1 .. n \/ b = n + 1
    BY <1>1, <1>7
  <2> QED BY <1>8, <1>9, <1>10, <2>1
<1>12. new = made
  BY <1>7, <1>10, <1>11, SeqEqual
<1> QED BY <1>5, <1>12 DEF new, made, old, hollow, longer, k

LEMMA EmptiedIs ==
    ASSUME NEW line \in Seq(Buffer), NEW index \in Int
    PROVE  CharsOf(Emptied(line, index)) = Less(CharsOf(line), index)
<1> DEFINE P == { l \in Seq(Buffer) : CharsOf(Emptied(l, index)) = Less(CharsOf(l), index) }
<1>1. << >> \in P
  <2> DEFINE none == << >>
  <2>1. none \in Seq(Buffer) /\ CharsOf(none) = none
    BY CharsNone
  <2>2. Emptied(none, index) = none
    BY DEF Emptied
  <2>3. Less(none, index) = none
    BY DEF Less
  <2> QED BY <2>1, <2>2, <2>3
<1>2. ASSUME NEW l \in Seq(Buffer), NEW buffer \in Buffer, l \in P PROVE Append(l, buffer) \in P
  <2> DEFINE x == CharsOf(l)
             y == Used(buffer)
             k == index - Len(x)
             hollow == Hollow(buffer, k)
             old == Emptied(l, index)
  <2>1. hollow \in Buffer /\ Emptied(Append(l, buffer), index) = Append(old, hollow)
    BY EmptiedLonger
  <2>2. /\ l \in Seq(Seq(Slot)) /\ buffer \in Seq(Slot) /\ old \in Seq(Seq(Slot))
    BY BuffersAre, EmptiedType
  <2>3. hollow \in Seq(Slot)
    BY <2>1, BuffersAre
  <2>4. x \in Seq(Char) /\ CharsOf(Append(l, buffer)) = x \o y /\ y \in Seq(Char)
    BY <2>2, CharsAppend, UsedType DEF Line
  <2>5. k \in Int
    BY <2>4
  <2> HIDE DEF k
  <2>6. Used(hollow) = Less(y, k)
    BY <2>2, <2>5, HollowUsed
  <2> HIDE DEF hollow, old
  <2>7. CharsOf(Append(old, hollow)) = CharsOf(old) \o Used(hollow)
    BY <2>2, <2>3, CharsAppend
  <2>8. CharsOf(old) = Less(x, index)
    BY <1>2 DEF old
  <2> HIDE DEF x, y
  <2>9. Less(x \o y, index) = Less(x, index) \o Less(y, k)
    BY <2>4, LessConcat DEF k
  <2>10. Append(l, buffer) \in Seq(Buffer)
    <3> HIDE DEF Buffer
    <3> QED OBVIOUS
  <2> QED BY <2>1, <2>4, <2>6, <2>7, <2>8, <2>9, <2>10
<1> HIDE DEF P
<1>3. line \in P
  BY <1>1, <1>2, SeqInduct
<1> QED BY <1>3 DEF P

-----------------------------------------------------------------------------
(***************************************************************************)
(* Lists of lines: each edit changes their contents as it does those of a  *)
(* BlockingVector.                                                         *)
(***************************************************************************)
LEMMA ContentsIs ==
    ASSUME NEW l \in Seq(Layout)
    PROVE  /\ Contents(l) \in Doc /\ Len(Contents(l)) = Len(l) /\ Len(l) \in Nat
           /\ \A i \in 1 .. Len(l) : l[i] \in Layout /\ Contents(l)[i] = CharsOf(l[i])
<1> DEFINE n == Len(l)
           lines == Contents(l)
<1>1. n \in Nat /\ DOMAIN l = 1 .. n /\ \A i \in 1 .. n : l[i] \in Layout
  OBVIOUS
<1>2. \A i \in 1 .. n : CharsOf(l[i]) \in Line
  BY <1>1, LayoutChars
<1>3. lines \in [1 .. n -> Line] /\ \A i \in 1 .. n : lines[i] = CharsOf(l[i])
  BY <1>1, <1>2 DEF Contents
<1> HIDE DEF lines, n
<1>4. lines \in Doc /\ Len(lines) = n
  BY <1>1, <1>3 DEF Doc
<1> QED BY <1>1, <1>3, <1>4 DEF lines, n

LEMMA ContentsConcat ==
    ASSUME NEW a \in Seq(Layout), NEW z \in Seq(Layout)
    PROVE  a \o z \in Seq(Layout) /\ Contents(a \o z) = Contents(a) \o Contents(z)
<1> DEFINE both == a \o z
           x == Contents(a)
           y == Contents(z)
           u == Contents(both)
           w == x \o y
<1>1. /\ both \in Seq(Layout) /\ Len(both) = Len(a) + Len(z) /\ Len(a) \in Nat /\ Len(z) \in Nat
      /\ \A i \in 1 .. Len(a) + Len(z) : both[i] = IF i <= Len(a) THEN a[i] ELSE z[i - Len(a)]
  BY ConcatProperties
<1>2. x \in Seq(Line) /\ Len(x) = Len(a) /\ \A i \in 1 .. Len(a) : x[i] = CharsOf(a[i])
  BY ContentsIs DEF Doc
<1>3. y \in Seq(Line) /\ Len(y) = Len(z) /\ \A i \in 1 .. Len(z) : y[i] = CharsOf(z[i])
  BY ContentsIs DEF Doc
<1> HIDE DEF both, x, y
<1>4. u \in Seq(Line) /\ Len(u) = Len(both) /\ \A i \in 1 .. Len(both) : u[i] = CharsOf(both[i])
  BY <1>1, ContentsIs DEF Doc
<1>5. /\ w \in Seq(Line) /\ Len(w) = Len(a) + Len(z)
      /\ \A i \in 1 .. Len(a) + Len(z) : w[i] = IF i <= Len(a) THEN x[i] ELSE y[i - Len(a)]
  <2>1. x \in Seq(Line)
    BY <1>2
  <2>2. y \in Seq(Line)
    BY <1>3
  <2>3. /\ x \o y \in Seq(Line) /\ Len(x \o y) = Len(x) + Len(y)
        /\ \A i \in 1 .. Len(x) + Len(y) : (x \o y)[i] = IF i <= Len(x) THEN x[i] ELSE y[i - Len(x)]
    BY ONLY <2>1, <2>2, ConcatProperties
  <2> QED BY <1>2, <1>3, <2>3
<1> HIDE DEF u, w
<1>6. \A i \in 1 .. Len(u) : u[i] = w[i]
  <2> TAKE i \in 1 .. Len(u)
  <2>1. i \in 1 .. Len(a) + Len(z)
    BY <1>1, <1>4
  <2>2. CASE i <= Len(a)
    <3>1. i \in 1 .. Len(a)
      BY <1>1, <2>1, <2>2
    <3> QED BY <1>1, <1>2, <1>4, <1>5, <2>1, <2>2, <3>1
  <2>3. CASE ~ (i <= Len(a))
    <3>1. i - Len(a) \in 1 .. Len(z)
      BY <1>1, <2>1, <2>3
    <3> QED BY <1>1, <1>3, <1>4, <1>5, <2>1, <2>3, <3>1
  <2> QED BY <2>2, <2>3
<1>7. u = w
  BY <1>1, <1>4, <1>5, <1>6, SeqEqual
<1> QED BY <1>1, <1>7 DEF both, x, y, u, w

LEMMA ContentsReplaced ==
    ASSUME NEW l \in Seq(Layout), NEW i \in 1 .. Len(l), NEW new \in Layout
    PROVE  LET longer == [l EXCEPT ![i] = new]
           IN  /\ longer \in Seq(Layout) /\ Len(longer) = Len(l)
               /\ \A j \in 1 .. Len(l) : longer[j] = IF j = i THEN new ELSE l[j]
               /\ Contents(longer) = ReplaceAt(Contents(l), i, CharsOf(new))
<1> DEFINE longer == [l EXCEPT ![i] = new]
<1>1. /\ longer \in Seq(Layout) /\ Len(longer) = Len(l)
      /\ \A j \in 1 .. Len(l) : longer[j] = IF j = i THEN new ELSE l[j]
  OBVIOUS
<1> HIDE DEF longer
<1>2. /\ Contents(longer) \in Seq(Line) /\ Len(Contents(longer)) = Len(l)
      /\ \A j \in 1 .. Len(l) : Contents(longer)[j] = CharsOf(longer[j])
  BY <1>1, ContentsIs DEF Doc
<1>3. /\ Contents(l) \in Seq(Line) /\ Len(Contents(l)) = Len(l) /\ Len(l) \in Nat
      /\ \A j \in 1 .. Len(l) : Contents(l)[j] = CharsOf(l[j])
  BY ContentsIs DEF Doc
<1>4. CharsOf(new) \in Line
  BY LayoutChars
<1> DEFINE x == Contents(l)
           c == CharsOf(new)
           u == Contents(longer)
           w == ReplaceAt(x, i, c)
<1> HIDE DEF x, c
<1>5. /\ w \in Seq(Line) /\ Len(w) = Len(x)
      /\ \A j \in 1 .. Len(x) : w[j] = IF j = i THEN c ELSE x[j]
  BY <1>3, <1>4, Replaced DEF x, c
<1> HIDE DEF u, w
<1>6. \A j \in 1 .. Len(u) : u[j] = w[j]
  BY <1>1, <1>2, <1>3, <1>5 DEF u, x, c
<1>7. u = w
  BY <1>2, <1>3, <1>5, <1>6, SeqEqual DEF u, x
<1> QED BY <1>1, <1>7 DEF u, w, x, c, longer

LEMMA ContentsRemoved ==
    ASSUME NEW l \in Seq(Layout), NEW i \in 1 .. Len(l)
    PROVE  /\ RemoveAt(l, i) \in Seq(Layout) /\ Len(RemoveAt(l, i)) = Len(l) - 1
           /\ Contents(RemoveAt(l, i)) = RemoveAt(Contents(l), i)
<1> DEFINE less == RemoveAt(l, i)
           x == Contents(l)
           u == Contents(less)
           w == RemoveAt(x, i)
<1>1. /\ less \in Seq(Layout) /\ Len(less) = Len(l) - 1
      /\ \A j \in 1 .. i - 1 : less[j] = l[j]
      /\ \A j \in i .. Len(l) - 1 : less[j] = l[j + 1]
  BY Removed
<1>2. /\ x \in Seq(Line) /\ Len(x) = Len(l) /\ Len(l) \in Nat
      /\ \A j \in 1 .. Len(l) : x[j] = CharsOf(l[j])
  BY ContentsIs DEF Doc
<1> HIDE DEF less, x
<1>3. /\ u \in Seq(Line) /\ Len(u) = Len(less)
      /\ \A j \in 1 .. Len(less) : u[j] = CharsOf(less[j])
  BY <1>1, ContentsIs DEF Doc
<1>4. /\ w \in Seq(Line) /\ Len(w) = Len(x) - 1
      /\ \A j \in 1 .. i - 1 : w[j] = x[j]
      /\ \A j \in i .. Len(x) - 1 : w[j] = x[j + 1]
  BY <1>2, Removed
<1> HIDE DEF u, w
<1>5. \A j \in 1 .. Len(u) : u[j] = w[j]
  <2> TAKE j \in 1 .. Len(u)
  <2>0. j \in 1 .. Len(l) - 1
    BY <1>1, <1>3
  <2>1. CASE j < i
    <3>1. j \in 1 .. i - 1 /\ j \in 1 .. Len(l)
      BY <1>2, <2>0, <2>1
    <3> QED BY <1>1, <1>2, <1>3, <1>4, <2>0, <3>1
  <2>2. CASE j >= i
    <3>1. j \in i .. Len(l) - 1 /\ j + 1 \in 1 .. Len(l)
      BY <1>2, <2>0, <2>2
    <3> QED BY <1>1, <1>2, <1>3, <1>4, <2>0, <3>1, SMTT(30)
  <2> QED BY <1>2, <2>0, <2>1, <2>2
<1>6. u = w
  BY <1>1, <1>2, <1>3, <1>4, <1>5, SeqEqual
<1> QED BY <1>1, <1>6 DEF u, w, less, x

LEMMA ContentsAround ==
    ASSUME NEW l \in Seq(Layout), NEW line \in 0 .. Len(l) - 1
    PROVE  /\ SubSeq(l, 1, line) \in Seq(Layout)
           /\ SubSeq(l, line + 2, Len(l)) \in Seq(Layout)
           /\ Contents(SubSeq(l, 1, line)) = SubSeq(Contents(l), 1, line)
           /\ Contents(SubSeq(l, line + 2, Len(l))) = SubSeq(Contents(l), line + 2, Len(Contents(l)))
<1> DEFINE x == Contents(l)
           n == Len(l)
           top == SubSeq(l, 1, line)
           bottom == SubSeq(l, line + 2, n)
           above == SubSeq(x, 1, line)
           below == SubSeq(x, line + 2, Len(x))
           u == Contents(top)
           w == Contents(bottom)
<1>1. /\ x \in Seq(Line) /\ Len(x) = n /\ n \in Nat
      /\ \A j \in 1 .. n : x[j] = CharsOf(l[j])
  BY ContentsIs DEF Doc
<1>2. /\ top \in Seq(Layout) /\ Len(top) = line /\ \A j \in 1 .. line : top[j] = l[j]
      /\ bottom \in Seq(Layout) /\ Len(bottom) = n - line - 1
      /\ \A j \in 1 .. n - line - 1 : bottom[j] = l[line + 1 + j]
  OBVIOUS
<1> HIDE DEF x, n
<1>3. /\ above \in Seq(Line) /\ Len(above) = line /\ \A j \in 1 .. line : above[j] = x[j]
      /\ below \in Seq(Line) /\ Len(below) = n - line - 1
      /\ \A j \in 1 .. n - line - 1 : below[j] = x[line + 1 + j]
  BY <1>1 DEF n
<1> HIDE DEF top, bottom, above, below
<1>4. /\ u \in Seq(Line) /\ Len(u) = Len(top) /\ \A j \in 1 .. Len(top) : u[j] = CharsOf(top[j])
      /\ w \in Seq(Line) /\ Len(w) = Len(bottom)
      /\ \A j \in 1 .. Len(bottom) : w[j] = CharsOf(bottom[j])
  BY <1>2, ContentsIs DEF Doc
<1> HIDE DEF u, w
<1>5. u = above
  <2>1. \A j \in 1 .. Len(u) : u[j] = above[j]
    <3> TAKE j \in 1 .. Len(u)
    <3>1. j \in 1 .. line /\ j \in 1 .. n
      BY <1>1, <1>2, <1>4 DEF n
    <3> QED BY <1>1, <1>2, <1>3, <1>4, <3>1
  <2> QED BY <1>2, <1>3, <1>4, <2>1, SeqEqual
<1>6. w = below
  <2>1. \A j \in 1 .. Len(w) : w[j] = below[j]
    <3> TAKE j \in 1 .. Len(w)
    <3>1. j \in 1 .. n - line - 1 /\ line + 1 + j \in 1 .. n
      BY <1>1, <1>2, <1>4 DEF n
    <3> QED BY <1>1, <1>2, <1>3, <1>4, <3>1
  <2> QED BY <1>2, <1>3, <1>4, <2>1, SeqEqual
<1> QED BY <1>1, <1>2, <1>5, <1>6 DEF u, w, top, bottom, above, below, x, n

LEMMA EmptyListIs == EmptyList \in Seq(Layout) \ {<< >>} /\ Contents(EmptyList) = EmptyDoc
<1> DEFINE lines == << NewLine >>
<1>1. NewLine \in Layout /\ CharsOf(NewLine) = << >>
  BY NewLineIs DEF Layout
<1>2. lines \in Seq(Layout) /\ Len(lines) = 1 /\ lines[1] = NewLine /\ lines # << >> /\ DOMAIN lines = 1 .. 1
  BY <1>1
<1> HIDE DEF lines
<1>3. Contents(lines) = << << >> >>
  BY <1>1, <1>2 DEF Contents
<1> QED BY <1>2, <1>3 DEF EmptyList, EmptyDoc, lines

-----------------------------------------------------------------------------
\* insert(), at any place and at one inside the text.
LEMMA ListInsertType ==
    ASSUME NEW l \in Seq(Layout) \ {<< >>}, NEW line \in Nat, NEW index \in Int,
           NEW input \in Char \cup {Enter}
    PROVE  insert(l, line, index, input) \in Seq(Layout) \ {<< >>}
<1> DEFINE old == l[line + 1]
<1>0. l \in Seq(Layout) /\ Len(l) \in Nat /\ Len(l) # 0
  OBVIOUS
<1>1. CASE ~ HasLine(l, line)
  BY <1>1 DEF insert
<1>2. CASE HasLine(l, line) /\ input # Enter
  <2>1. line + 1 \in 1 .. Len(l) /\ old \in Layout /\ input \in Char
    BY <1>0, <1>2 DEF HasLine
  <2> DEFINE new == insertIntoLine(old, index, input)
  <2>2. insert(l, line, index, input) = [l EXCEPT ![line + 1] = new]
    BY <1>2 DEF insert
  <2> HIDE DEF old
  <2>3. new \in Layout
    BY <2>1, InsertIntoLineType DEF Layout
  <2> HIDE DEF new
  <2> QED BY <1>0, <2>1, <2>2, <2>3
<1>3. CASE HasLine(l, line) /\ input = Enter
  <2>1. line \in 0 .. Len(l) - 1 /\ line + 1 \in 1 .. Len(l)
    BY <1>0, <1>3 DEF HasLine
  <2>2. old \in Layout
    BY <1>0, <2>1
  <2> DEFINE new == Broken(old, index)
             top == SubSeq(l, 1, line)
             bottom == SubSeq(l, line + 2, Len(l))
  <2>3. insert(l, line, index, input) = top \o new \o bottom
    BY <1>3 DEF insert
  <2>4. top \in Seq(Layout) /\ bottom \in Seq(Layout)
    BY <1>0, <2>1, ContentsAround
  <2> HIDE DEF old
  <2>5. new = << new[1], new[2] >> /\ new[1] \in Layout /\ new[2] \in Layout
    BY <2>2, BrokenType
  <2> HIDE DEF new, top, bottom
  <2>6. new \in Seq(Layout) /\ Len(new) = 2
    <3> DEFINE p == new[1]
               q == new[2]
    <3>1. p \in Layout /\ q \in Layout /\ new = << p, q >>
      BY <2>5
    <3> HIDE DEF p, q
    <3> QED BY <3>1
  <2>7. top \o new \in Seq(Layout) /\ Len(top \o new) = Len(top) + 2 /\ Len(top) \in Nat
    <3>1. top \in Seq(Layout)
      BY <2>4
    <3>2. new \in Seq(Layout)
      BY <2>6
    <3>3. top \o new \in Seq(Layout) /\ Len(top \o new) = Len(top) + Len(new) /\ Len(top) \in Nat
      BY ONLY <3>1, <3>2
    <3> QED BY <2>6, <3>3
  <2> DEFINE upper == top \o new
  <2> HIDE DEF upper
  <2>8. upper \o bottom \in Seq(Layout) /\ Len(upper \o bottom) = Len(upper) + Len(bottom)
        /\ Len(bottom) \in Nat
    BY <2>4, <2>7 DEF upper
  <2>9. upper \o bottom # << >>
    BY <2>7, <2>8 DEF upper
  <2> QED BY <2>3, <2>8, <2>9 DEF upper
<1> QED BY <1>1, <1>2, <1>3

LEMMA ListInsertIs ==
    ASSUME NEW l \in Seq(Layout), NEW line \in 0 .. Len(l) - 1,
           NEW index \in 0 .. Len(Contents(l)[line + 1]), NEW input \in Char \cup {Enter}
    PROVE  Contents(insert(l, line, index, input)) = InsertChar(Contents(l), line, index, input)
<1> DEFINE old == l[line + 1]
           x == Contents(l)
<1>1. /\ x \in Doc /\ Len(x) = Len(l) /\ Len(l) \in Nat /\ line + 1 \in 1 .. Len(l)
      /\ old \in Layout /\ x[line + 1] = CharsOf(old)
  BY ContentsIs
<1>2. HasLine(l, line) /\ HasLine(x, line) /\ index \in 0 .. Len(x[line + 1])
      /\ index \in 0 .. Len(CharsOf(old))
  BY <1>1 DEF HasLine
<1>3. CASE input # Enter
  <2> DEFINE new == insertIntoLine(old, index, input)
  <2>1. insert(l, line, index, input) = [l EXCEPT ![line + 1] = new]
    BY <1>2, <1>3 DEF insert
  <2> HIDE DEF old, x
  <2>2. input \in Char /\ index \in Int /\ old \in Seq(Buffer) \ {<< >>}
    BY <1>1, <1>2, <1>3 DEF Layout
  <2>3. new \in Layout /\ CharsOf(new) = InsertAt(CharsOf(old), index + 1, input)
    BY <1>2, <2>2, InsertIntoLineType, InsertIntoLineIs DEF Layout
  <2> HIDE DEF new
  <2>4. Contents([l EXCEPT ![line + 1] = new]) = ReplaceAt(Contents(l), line + 1, CharsOf(new))
    BY <1>1, <2>3, ContentsReplaced
  <2>5. InsertChar(x, line, index, input) = ReplaceAt(x, line + 1, InsertAt(x[line + 1], index + 1, input))
    BY <1>2, <1>3 DEF InsertChar
  <2> QED BY <1>1, <2>1, <2>3, <2>4, <2>5 DEF x
<1>4. CASE input = Enter
  <2> DEFINE new == Broken(old, index)
             top == SubSeq(l, 1, line)
             bottom == SubSeq(l, line + 2, Len(l))
             whole == CharsOf(old)
             p == SubSeq(whole, 1, index)
             q == SubSeq(whole, index + 1, Len(whole))
  <2>1. insert(l, line, index, input) = top \o new \o bottom
    BY <1>2, <1>4 DEF insert
  <2>2. InsertChar(x, line, index, input)
          = SubSeq(x, 1, line) \o << p, q >> \o SubSeq(x, line + 2, Len(x))
    BY <1>1, <1>2, <1>4 DEF InsertChar, BreakLine
  <2>3. /\ top \in Seq(Layout) /\ bottom \in Seq(Layout)
        /\ Contents(top) = SubSeq(x, 1, line) /\ Contents(bottom) = SubSeq(x, line + 2, Len(x))
    BY ContentsAround
  <2> HIDE DEF old, x, top, bottom
  <2>4. /\ new = << new[1], new[2] >> /\ new[1] \in Layout /\ new[2] \in Layout
        /\ CharsOf(new[1]) = p /\ CharsOf(new[2]) = q
    <3>1. index \in Int
      BY <1>2
    <3> QED BY <1>1, <1>2, <3>1, BrokenType, BrokenIs
  <2> HIDE DEF new, p, q
  <2>5. new \in Seq(Layout) /\ Contents(new) = << p, q >>
    <3> DEFINE u == new[1]
               v == new[2]
               two == << u, v >>
    <3>1. u \in Layout /\ v \in Layout /\ new = two /\ CharsOf(u) = p /\ CharsOf(v) = q
      BY <2>4
    <3> HIDE DEF u, v
    <3>2. two \in Seq(Layout) /\ DOMAIN two = 1 .. 2 /\ two[1] = u /\ two[2] = v
      BY <3>1
    <3> HIDE DEF two
    <3>3. Contents(two) = << p, q >>
      BY <3>1, <3>2 DEF Contents
    <3> QED BY <3>1, <3>2, <3>3
  <2> DEFINE upper == top \o new
  <2>6. upper \in Seq(Layout) /\ Contents(upper) = Contents(top) \o Contents(new)
    BY <2>3, <2>5, ContentsConcat
  <2> HIDE DEF upper
  <2>7. Contents(upper \o bottom) = Contents(upper) \o Contents(bottom)
    BY <2>3, <2>6, ContentsConcat
  <2> QED BY <2>1, <2>2, <2>3, <2>5, <2>6, <2>7 DEF upper, x
<1> QED BY <1>3, <1>4

\* remove() of a line break,
LEMMA ListJoinIs ==
    ASSUME NEW l \in Seq(Layout) \ {<< >>}, NEW line \in Nat
    PROVE  /\ remove(l, line, Join) \in Seq(Layout) \ {<< >>}
           /\ Contents(remove(l, line, Join)) = JoinLine(Contents(l), line)
<1> DEFINE x == Contents(l)
<1>1. /\ l \in Seq(Layout) /\ x \in Doc /\ Len(x) = Len(l) /\ Len(l) \in Nat
      /\ \A i \in 1 .. Len(l) : l[i] \in Layout /\ x[i] = CharsOf(l[i])
  BY ContentsIs
<1>2. remove(l, line, Join) = Joined(l, line)
  BY DEF remove
<1>3. CASE line = 0 \/ ~ HasLine(l, line)
  <2>1. Joined(l, line) = l
    BY <1>3 DEF Joined
  <2>2. JoinLine(x, line) = x
    BY <1>1, <1>3 DEF JoinLine, HasLine
  <2> QED BY <1>2, <2>1, <2>2
<1>4. CASE ~ (line = 0 \/ ~ HasLine(l, line))
  <2>1. line \in 1 .. Len(l) /\ line + 1 \in 1 .. Len(l) /\ Len(l) >= 2
    BY <1>1, <1>4 DEF HasLine
  <2> DEFINE above == l[line]
             moved == CharsOf(l[line + 1])
             new == Filled(above, moved)
             longer == [l EXCEPT ![line] = new]
  <2>2. Joined(l, line) = RemoveAt(longer, line + 1)
    BY <1>4 DEF Joined
  <2>3. above \in Layout /\ moved \in Seq(Char)
    BY <1>1, <2>1, LayoutChars DEF Line
  <2>4. x[line] = CharsOf(above) /\ x[line + 1] = moved
    BY <1>1, <2>1
  <2> HIDE DEF x, above, moved
  <2>5. new \in Layout /\ CharsOf(new) = CharsOf(above) \o moved
    BY <2>3, FilledIs
  <2> HIDE DEF new
  <2>6. /\ longer \in Seq(Layout) /\ Len(longer) = Len(l)
        /\ Contents(longer) = ReplaceAt(x, line, CharsOf(new))
    BY <1>1, <2>1, <2>5, ContentsReplaced DEF x
  <2> HIDE DEF longer
  <2>7. /\ RemoveAt(longer, line + 1) \in Seq(Layout)
        /\ Len(RemoveAt(longer, line + 1)) = Len(longer) - 1
        /\ Contents(RemoveAt(longer, line + 1)) = RemoveAt(Contents(longer), line + 1)
    BY <2>1, <2>6, ContentsRemoved
  <2> DEFINE less == RemoveAt(longer, line + 1)
  <2>8. less # << >>
    <3>1. Len(less) >= 1
      BY <1>1, <2>1, <2>6, <2>7
    <3> HIDE DEF less
    <3> QED BY <3>1
  <2>9. JoinLine(x, line) = RemoveAt(ReplaceAt(x, line, x[line] \o x[line + 1]), line + 1)
    BY <1>1, <1>4 DEF JoinLine, HasLine
  <2> QED BY <1>2, <2>2, <2>4, <2>5, <2>6, <2>7, <2>8, <2>9 DEF x
<1> QED BY <1>3, <1>4

\* of a character, at any place and at one inside the text.
LEMMA ListRemoveType ==
    ASSUME NEW l \in Seq(Layout) \ {<< >>}, NEW line \in Nat, NEW index \in Int
    PROVE  remove(l, line, index) \in Seq(Layout) \ {<< >>}
<1> DEFINE old == l[line + 1]
           new == Emptied(old, index)
<1>0. l \in Seq(Layout) /\ Len(l) \in Nat /\ Len(l) # 0
  OBVIOUS
<1>1. CASE index = Join
  BY <1>1, ListJoinIs
<1>2. CASE index # Join /\ ~ HasLine(l, line)
  BY <1>2 DEF remove
<1>3. CASE index # Join /\ HasLine(l, line)
  <2>1. line + 1 \in 1 .. Len(l) /\ old \in Layout
    BY <1>0, <1>3 DEF HasLine
  <2>2. remove(l, line, index) = [l EXCEPT ![line + 1] = new]
    BY <1>3 DEF remove
  <2> HIDE DEF old
  <2>3. new \in Layout
    <3>1. old \in Seq(Buffer) /\ Len(old) # 0
      <4> HIDE DEF Buffer
      <4> QED BY <2>1 DEF Layout
    <3>2. new \in Seq(Buffer) /\ Len(new) = Len(old)
      BY <3>1, EmptiedType
    <3> HIDE DEF new
    <3> QED BY <3>1, <3>2 DEF Layout
  <2> HIDE DEF new
  <2> QED BY <1>0, <2>1, <2>2, <2>3
<1> QED BY <1>1, <1>2, <1>3

LEMMA ListRemoveIs ==
    ASSUME NEW l \in Seq(Layout), NEW line \in 0 .. Len(l) - 1,
           NEW index \in 0 .. Len(Contents(l)[line + 1]) - 1
    PROVE  { Contents(remove(l, line, index)) } = RemoveChar(Contents(l), line, index)
<1> DEFINE old == l[line + 1]
           x == Contents(l)
           new == Emptied(old, index)
<1>1. /\ x \in Doc /\ Len(x) = Len(l) /\ Len(l) \in Nat /\ line + 1 \in 1 .. Len(l)
      /\ old \in Layout /\ x[line + 1] = CharsOf(old)
  BY ContentsIs
<1>2. /\ HasLine(l, line) /\ HasLine(x, line) /\ index \in 0 .. Len(x[line + 1]) - 1
      /\ index # Join /\ index \in Int
  BY <1>1 DEF HasLine, Join
<1>3. x[line + 1] \in Seq(Char) /\ Len(x[line + 1]) \in Nat
  BY <1>1, LayoutChars DEF Line
<1>4. remove(l, line, index) = [l EXCEPT ![line + 1] = new]
  BY <1>2 DEF remove
<1>5. RemoveChar(x, line, index) = { ReplaceAt(x, line + 1, RemoveAt(x[line + 1], index + 1)) }
  <2>1. ~ (index > Len(x[line + 1])) /\ index # Len(x[line + 1])
    BY <1>2, <1>3
  <2> QED BY <1>2, <2>1 DEF RemoveChar, ErasesEnd
<1> HIDE DEF old, x
<1>6. new \in Layout /\ CharsOf(new) = RemoveAt(x[line + 1], index + 1)
  <2>1. old \in Seq(Buffer) /\ Len(old) # 0
    <3> HIDE DEF Buffer
    <3> QED BY <1>1 DEF Layout
  <2>2. new \in Seq(Buffer) /\ Len(new) = Len(old) /\ CharsOf(new) = Less(CharsOf(old), index)
    BY <1>2, <2>1, EmptiedType, EmptiedIs
  <2> HIDE DEF new
  <2> QED BY <1>1, <1>2, <2>1, <2>2 DEF Layout, Less
<1> HIDE DEF new
<1>7. Contents([l EXCEPT ![line + 1] = new]) = ReplaceAt(x, line + 1, CharsOf(new))
  BY <1>1, <1>6, ContentsReplaced DEF x
<1> QED BY <1>4, <1>5, <1>6, <1>7 DEF x

-----------------------------------------------------------------------------
(***************************************************************************)
(* deserialize(): what is inserted at the end of the last line.            *)
(***************************************************************************)
LEMMA AtEndOfText ==
    ASSUME NEW above \in Doc, NEW row \in Line, NEW c \in Char \cup {Enter}
    PROVE  LET x == Append(above, row)
               n == Len(above)
           IN  InsertChar(x, n, Len(row), c)
                 = IF c = Enter THEN Append(x, << >>) ELSE Append(above, Append(row, c))
<1> DEFINE x == Append(above, row)
           n == Len(above)
           k == Len(row)
           none == << >>
<1>1. /\ above \in Seq(Line) /\ row \in Seq(Char) /\ row \in Line /\ none \in Line
      /\ none \in Seq(Char) /\ k \in Nat /\ n \in Nat
  BY DEF Doc, Line
<1>2. /\ x \in Seq(Line) /\ Len(x) = n + 1 /\ x[n + 1] = row
      /\ \A i \in 1 .. n : x[i] = above[i]
      /\ n \in 0 .. Len(x) - 1
  BY <1>1
<1>3. HasLine(x, n) /\ k \in 0 .. Len(x[n + 1])
  BY <1>1, <1>2 DEF HasLine
<1>4. CASE c # Enter
  <2>0. c \in Char
    BY <1>4
  <2>1. InsertChar(x, n, k, c) = ReplaceAt(x, n + 1, InsertAt(row, k + 1, c))
    BY <1>3, <1>2, <1>4 DEF InsertChar
  <2>2. InsertAt(row, k + 1, c) = Append(row, c)
    <3>1. row \o none = row /\ (row \o << c >>) \o none = Append(row, c)
      BY <1>1, <2>0
    <3> HIDE DEF none
    <3>2. InsertAt(row \o none, Len(row) + 1, c) = (row \o << c >>) \o none
      BY <1>1, <2>0, InsertBetween
    <3> QED BY <3>1, <3>2
  <2>3. ReplaceAt(x, n + 1, Append(row, c)) = Append(above, Append(row, c))
    <3> DEFINE new == Append(row, c)
               u == ReplaceAt(x, n + 1, new)
               w == Append(above, new)
    <3>1. new \in Line
      BY <1>1, <2>0 DEF Line
    <3> HIDE DEF new, x, n
    <3>2. n + 1 \in 1 .. Len(x)
      BY <1>1, <1>2
    <3>3. /\ u \in Seq(Line) /\ Len(u) = Len(x)
          /\ \A j \in 1 .. Len(x) : u[j] = IF j = n + 1 THEN new ELSE x[j]
      <4>1. x \in Seq(Line)
        BY <1>2
      <4> QED BY <3>1, <3>2, <4>1 DEF ReplaceAt
    <3>4. /\ w \in Seq(Line) /\ Len(w) = n + 1 /\ w[n + 1] = new
          /\ \A j \in 1 .. n : w[j] = above[j]
      BY <1>1, <3>1 DEF n
    <3> HIDE DEF u, w
    <3>5. \A j \in 1 .. Len(u) : u[j] = w[j]
      <4> TAKE j \in 1 .. Len(u)
      <4>1. j \in 1 .. n \/ j = n + 1
        BY <1>1, <1>2, <3>3
      <4> QED BY <1>1, <1>2, <3>3, <3>4, <4>1
    <3>6. u = w
      BY <1>2, <3>3, <3>4, <3>5, SeqEqual
    <3> QED BY <3>6 DEF u, w, new
  <2> QED BY <1>4, <2>1, <2>2, <2>3
<1>5. CASE c = Enter
  <2>1. InsertChar(x, n, k, c)
          = SubSeq(x, 1, n) \o << SubSeq(row, 1, k), SubSeq(row, k + 1, Len(row)) >>
              \o SubSeq(x, n + 2, Len(x))
    BY <1>2, <1>3, <1>5 DEF InsertChar, BreakLine
  <2>2. SubSeq(row, 1, k) = row /\ SubSeq(row, k + 1, Len(row)) = none
    BY <1>1
  <2>3. SubSeq(x, 1, n) = above /\ SubSeq(x, n + 2, Len(x)) = << >>
    BY <1>1, <1>2
  <2> HIDE DEF k
  <2>4. InsertChar(x, n, k, c) = (above \o << row, none >>) \o << >>
    BY <2>1, <2>2, <2>3
  <2>5. (above \o << row, none >>) \o << >> = Append(Append(above, row), none)
    <3> HIDE DEF none
    <3> QED BY <1>1
  <2> QED BY <1>5, <2>4, <2>5 DEF k
<1> QED BY <1>4, <1>5

\* The list, with the end of its last line.
RebuiltState ==
    { s \in [list : Seq(Layout) \ {<< >>}, line : Nat, i : Nat] :
         Len(s.list) = s.line + 1 /\ s.i = Len(CharsOf(s.list[s.line + 1])) }

RebuiltStep ==
    [c \in Char \cup {Enter} |-> [s \in RebuiltState |->
        [list |-> insert(s.list, s.line, s.i, c),
         line |-> IF c = Enter THEN s.line + 1 ELSE s.line,
         i    |-> IF c = Enter THEN 0 ELSE s.i + 1]]]

LEMMA RebuiltNext ==
    ASSUME NEW s \in RebuiltState, NEW c \in Char \cup {Enter}
    PROVE  LET new == [list |-> insert(s.list, s.line, s.i, c),
                       line |-> IF c = Enter THEN s.line + 1 ELSE s.line,
                       i    |-> IF c = Enter THEN 0 ELSE s.i + 1]
               x == Contents(s.list)
           IN  /\ new \in RebuiltState
               /\ x \in SomeRows(Char)
               /\ Contents(new.list) = IF c = Enter THEN Append(x, << >>) ELSE Extended(x, c)
<1> DEFINE l == s.list
           n == s.line
           k == s.i
           longer == insert(l, n, k, c)
           x == Contents(l)
           y == Contents(longer)
           above == Front(x)
           row == Last(x)
           none == << >>
<1>1. /\ l \in Seq(Layout) \ {<< >>} /\ l \in Seq(Layout) /\ n \in Nat /\ k \in Nat /\ k \in Int
      /\ Len(l) = n + 1 /\ k = Len(CharsOf(l[n + 1]))
  BY DEF RebuiltState
<1> HIDE DEF l, n, k
<1>2. /\ x \in Doc /\ Len(x) = n + 1 /\ x[n + 1] = CharsOf(l[n + 1])
  <2>1. /\ Contents(l) \in Doc /\ Len(Contents(l)) = Len(l)
        /\ \A i \in 1 .. Len(l) : Contents(l)[i] = CharsOf(l[i])
    BY <1>1, ContentsIs
  <2>2. n + 1 \in 1 .. Len(l)
    BY <1>1
  <2> QED BY <1>1, <2>1, <2>2
<1>3. /\ longer \in Seq(Layout) \ {<< >>} /\ longer \in Seq(Layout)
      /\ y = InsertChar(x, n, k, c)
  <2>1. longer \in Seq(Layout) \ {<< >>}
    BY <1>1, ListInsertType
  <2>2. n \in 0 .. Len(l) - 1 /\ k \in 0 .. Len(Contents(l)[n + 1])
    BY <1>1, <1>2
  <2>3. y = InsertChar(x, n, k, c)
    BY <1>1, <2>2, ListInsertIs
  <2> QED BY <2>1, <2>3
<1>4. y \in Doc /\ Len(y) = Len(longer) /\ \A i \in 1 .. Len(longer) : y[i] = CharsOf(longer[i])
  BY <1>3, ContentsIs
<1> HIDE DEF x, y, longer
<1>5. x \in SomeRows(Char) /\ x \in Seq(Line) /\ x # << >>
  <2>1. x \in Seq(Seq(Char)) /\ x # << >>
    BY <1>1, <1>2 DEF Doc, Line
  <2> QED BY <2>1 DEF SomeRows, Line
<1>6. above \in Doc /\ row \in Line /\ x = Append(above, row)
  BY <1>5, FrontLast DEF Doc
<1> HIDE DEF above, row
<1>7. Len(above) = n /\ k = Len(row)
  <2>1. Len(Append(above, row)) = Len(above) + 1 /\ Append(above, row)[Len(above) + 1] = row
        /\ Len(above) \in Nat
    BY <1>6 DEF Doc
  <2> QED BY <1>1, <1>2, <1>6, <2>1
<1> DEFINE new == [list |-> longer, line |-> IF c = Enter THEN n + 1 ELSE n,
                   i |-> IF c = Enter THEN 0 ELSE k + 1]
<1>8. y = IF c = Enter THEN Append(x, << >>) ELSE Append(above, Append(row, c))
  <2>1. InsertChar(Append(above, row), Len(above), Len(row), c)
          = IF c = Enter THEN Append(Append(above, row), << >>) ELSE Append(above, Append(row, c))
    BY <1>6, AtEndOfText
  <2> QED BY <1>3, <1>6, <1>7, <2>1
<1>9. new \in RebuiltState
  <2>1. CASE c = Enter
    <3>1. Len(y) = (n + 1) + 1 /\ y[(n + 1) + 1] = none
      <4>1. y = Append(x, none)
        BY <1>8, <2>1
      <4> HIDE DEF none
      <4> QED BY <1>2, <1>5, <4>1
    <3>2. Len(longer) = (n + 1) + 1 /\ Len(CharsOf(longer[(n + 1) + 1])) = 0
      BY <1>1, <1>4, <3>1
    <3> QED BY <1>1, <1>3, <2>1, <3>2 DEF RebuiltState
  <2>2. CASE c # Enter
    <3> DEFINE more == Append(row, c)
    <3>0. more \in Line /\ Len(more) = k + 1
      BY <1>6, <1>7, <2>2 DEF Line
    <3> HIDE DEF more
    <3>1. Len(y) = n + 1 /\ y[n + 1] = more
      <4>1. y = Append(above, more)
        BY <1>8, <2>2 DEF more
      <4>2. above \in Seq(Line)
        BY <1>6 DEF Doc
      <4> QED BY <1>7, <3>0, <4>1, <4>2
    <3>2. Len(longer) = n + 1 /\ Len(CharsOf(longer[n + 1])) = k + 1
      BY <1>1, <1>4, <3>0, <3>1
    <3> QED BY <1>1, <1>3, <2>2, <3>2 DEF RebuiltState
  <2> QED BY <2>1, <2>2
<1>10. y = IF c = Enter THEN Append(x, << >>) ELSE Extended(x, c)
  BY <1>8 DEF Extended, above, row
<1> QED BY <1>5, <1>9, <1>10 DEF new, x, y, longer, l, n, k

LEMMA RebuiltStepType ==
    /\ RebuiltStep \in [Char \cup {Enter} -> [RebuiltState -> RebuiltState]]
    /\ \A c \in Char \cup {Enter} : \A s \in RebuiltState :
          RebuiltStep[c][s] = [list |-> insert(s.list, s.line, s.i, c),
                               line |-> IF c = Enter THEN s.line + 1 ELSE s.line,
                               i    |-> IF c = Enter THEN 0 ELSE s.i + 1]
BY RebuiltNext DEF RebuiltStep

RebuiltBase == [list |-> EmptyList, line |-> 0, i |-> 0]

LEMMA RebuiltBaseType == RebuiltBase \in RebuiltState
<1> DEFINE lines == EmptyList
<1>1. lines \in Seq(Layout) \ {<< >>} /\ Len(lines) = 1 /\ lines[1] = NewLine
  BY EmptyListIs DEF EmptyList
<1>2. Len(CharsOf(NewLine)) = 0
  BY NewLineIs
<1> HIDE DEF lines
<1>3. [list |-> lines, line |-> 0, i |-> 0] \in RebuiltState
  <2> DEFINE s == [list |-> lines, line |-> 0, i |-> 0]
  <2>1. s.list = lines /\ s.line = 0 /\ s.i = 0 /\ s.line + 1 = 1
    OBVIOUS
  <2>2. s \in [list : Seq(Layout) \ {<< >>}, line : Nat, i : Nat]
    BY <1>1
  <2> HIDE DEF s
  <2>3. s \in RebuiltState
    BY <1>1, <1>2, <2>1, <2>2 DEF RebuiltState
  <2> QED BY <2>3 DEF s
<1> QED BY <1>3 DEF RebuiltBase, lines

LEMMA RebuiltIsFold ==
    ASSUME NEW s \in Seq(Char \cup {Enter})
    PROVE  Rebuilt(s) = Fold(RebuiltBase, RebuiltStep, s).list
<1> DEFINE V == RebuiltState
           S == Char \cup {Enter}
           step == RebuiltStep
           base == RebuiltBase
           n == Len(s)
           Equation(f) == f = [j \in 0 .. n |->
              IF j = 0 THEN [list |-> EmptyList, line |-> 0, i |-> 0]
              ELSE LET r == f[j - 1]
                       c == s[j]
                   IN  [list |-> insert(r.list, r.line, r.i, c),
                        line |-> IF c = Enter THEN r.line + 1 ELSE r.line,
                        i    |-> IF c = Enter THEN 0 ELSE r.i + 1]]
           state == CHOOSE f : Equation(f)
<1>1. base \in V
  BY RebuiltBaseType
<1>2. step \in [S -> [V -> V]]
  BY RebuiltStepType
<1>3. \A c \in S : \A r \in V :
          step[c][r] = [list |-> insert(r.list, r.line, r.i, c),
                        line |-> IF c = Enter THEN r.line + 1 ELSE r.line,
                        i    |-> IF c = Enter THEN 0 ELSE r.i + 1]
  BY RebuiltStepType
<1>4. n \in Nat /\ n = Len(s) /\ \A j \in 1 .. n : s[j] \in S
  OBVIOUS
<1>5. Rebuilt(s) = state[n].list /\ base = [list |-> EmptyList, line |-> 0, i |-> 0]
  BY DEF Rebuilt, RebuiltBase
<1>12. s \in Seq(S)
  OBVIOUS
<1> HIDE DEF V, S, step, n, base
<1>6. PICK g \in [0 .. Len(s) -> V] : Folds(g, base, step, s)
  BY ONLY <1>1, <1>2, <1>12, FoldsExist
<1>7. Equation(g)
  <2>1. ASSUME NEW j \in 0 .. n, j # 0
        PROVE  g[j] = LET r == g[j - 1]
                          c == s[j]
                      IN  [list |-> insert(r.list, r.line, r.i, c),
                           line |-> IF c = Enter THEN r.line + 1 ELSE r.line,
                           i    |-> IF c = Enter THEN 0 ELSE r.i + 1]
    <3>1. j \in 1 .. Len(s) /\ j - 1 \in 0 .. Len(s)
      BY <1>4, <2>1
    <3>2. g[j] = step[s[j]][g[j - 1]]
      BY <1>6, <3>1 DEF Folds
    <3>3. s[j] \in S /\ g[j - 1] \in V
      BY <1>4, <1>6, <3>1
    <3> QED BY <1>3, <3>2, <3>3
  <2>2. g[0] = base
    BY <1>6 DEF Folds
  <2>3. g = [j \in 0 .. n |-> g[j]]
    BY <1>4, <1>6
  <2> QED BY <1>5, <2>1, <2>2, <2>3
<1>8. Equation(state)
  BY <1>7
<1> HIDE DEF state
<1>9. \A j \in 0 .. n : state[j] =
              IF j = 0 THEN [list |-> EmptyList, line |-> 0, i |-> 0]
              ELSE LET r == state[j - 1]
                       c == s[j]
                   IN  [list |-> insert(r.list, r.line, r.i, c),
                        line |-> IF c = Enter THEN r.line + 1 ELSE r.line,
                        i    |-> IF c = Enter THEN 0 ELSE r.i + 1]
  BY <1>8, Zenon
<1>10. state[0] = base
  <2>1. 0 \in 0 .. n
    BY <1>4
  <2>2. state[0] = [list |-> EmptyList, line |-> 0, i |-> 0]
    BY ONLY <1>9, <2>1, Zenon
  <2> QED BY <1>5, <2>2
<1>11. \A j \in 1 .. Len(s) : state[j - 1] \in V => state[j] = step[s[j]][state[j - 1]]
  <2> TAKE j \in 1 .. Len(s)
  <2>1. j \in 0 .. n /\ j # 0 /\ s[j] \in S
    BY <1>4
  <2>2. state[j] = LET r == state[j - 1]
                       c == s[j]
                   IN  [list |-> insert(r.list, r.line, r.i, c),
                        line |-> IF c = Enter THEN r.line + 1 ELSE r.line,
                        i    |-> IF c = Enter THEN 0 ELSE r.i + 1]
    BY <1>9, <2>1
  <2> QED BY <1>3, <2>1, <2>2
<1>13. FollowsFold(S, V, base, step, s, state)
  BY <1>1, <1>2, <1>10, <1>11, <1>12 DEF FollowsFold
<1>14. state[Len(s)] = Fold(base, step, s)
  BY ONLY <1>13, FollowedFold
<1>15. state[n] = Fold(base, step, s)
  BY <1>4, <1>14
<1> QED BY <1>5, <1>15 DEF step, base

\* What is rebuilt has the lines that an Enter separates.
LEMMA RebuiltIs ==
    ASSUME NEW s \in Seq(Char \cup {Enter})
    PROVE  Rebuilt(s) \in Seq(Layout) \ {<< >>} /\ Contents(Rebuilt(s)) = SplitAt(s, Enter)
<1> DEFINE S == Char \cup {Enter}
           V == RebuiltState
           step == RebuiltStep
           base == RebuiltBase
           F(q) == Fold(base, step, q)
           P == { q \in Seq(S) : F(q) \in V /\ Contents(F(q).list) = SplitAt(q, Enter) }
<1>0. base \in V /\ step \in [S -> [V -> V]] /\ base.list = EmptyList
  BY RebuiltBaseType, RebuiltStepType DEF RebuiltBase
<1>1. << >> \in P
  <2>1. F(<< >>) = base
    <3> HIDE DEF V, S, step, base
    <3> QED BY <1>0, FoldEmpty
  <2>2. SplitAt(<< >>, Enter) = EmptyDoc
    BY SplitEmpty DEF EmptyDoc
  <2>3. << >> \in Seq(S)
    OBVIOUS
  <2> HIDE DEF V, S, step, base
  <2> QED BY <1>0, <2>1, <2>2, <2>3, EmptyListIs
<1>2. ASSUME NEW q \in Seq(S), NEW c \in S, q \in P PROVE Append(q, c) \in P
  <2> DEFINE s1 == F(q)
             longer == Append(q, c)
  <2>1. F(longer) = step[c][s1]
    <3> HIDE DEF V, S, step, base
    <3>1. base \in V
      BY <1>0
    <3>2. step \in [S -> [V -> V]]
      BY <1>0
    <3>3. q \in Seq(S) /\ c \in S
      OBVIOUS
    <3>4. Fold(base, step, Append(q, c)) = step[c][Fold(base, step, q)]
      BY ONLY <3>1, <3>2, <3>3, FoldAppend
    <3> QED BY <3>4
  <2>2. s1 \in V /\ Contents(s1.list) = SplitAt(q, Enter)
    BY <1>2
  <2>3. SplitAt(longer, Enter) = SplitStep(Char, Enter)[c][SplitAt(q, Enter)]
    BY SplitNext
  <2>3a. longer \in Seq(S)
    OBVIOUS
  <2> HIDE DEF s1, longer, F
  <2>4. F(longer) = [list |-> insert(s1.list, s1.line, s1.i, c),
                     line |-> IF c = Enter THEN s1.line + 1 ELSE s1.line,
                     i    |-> IF c = Enter THEN 0 ELSE s1.i + 1]
    BY <2>1, <2>2, RebuiltStepType
  <2>5. /\ F(longer) \in V
        /\ Contents(s1.list) \in SomeRows(Char)
        /\ Contents(F(longer).list) = IF c = Enter THEN Append(Contents(s1.list), << >>)
                                      ELSE Extended(Contents(s1.list), c)
    BY <2>2, <2>4, RebuiltNext
  <2>6. Contents(F(longer).list) = SplitAt(longer, Enter)
    BY <2>2, <2>3, <2>5, SplitStepIs DEF Extended
  <2> QED BY <2>3a, <2>5, <2>6 DEF longer
<1>3. s \in Seq(S)
  OBVIOUS
<1>4. P = { q \in Seq(S) : F(q) \in V /\ Contents(F(q).list) = SplitAt(q, Enter) }
  OBVIOUS
<1> HIDE DEF P, F, S
<1>5. s \in P
  BY <1>1, <1>2, <1>3, SeqInduct
<1>6. F(s) \in V /\ Contents(F(s).list) = SplitAt(s, Enter)
  BY <1>4, <1>5
<1>7. Rebuilt(s) = F(s).list
  BY RebuiltIsFold DEF F
<1>8. F(s).list \in Seq(Layout) \ {<< >>}
  BY <1>6 DEF RebuiltState
<1> QED BY <1>6, <1>7, <1>8

\* The client gets the lines of the server, and an empty one behind them.
LEMMA DeserializedIs ==
    ASSUME NEW doc \in Doc
    PROVE  LET new == deserialize(Serialize(doc), SerializedSize(doc) + 1)
           IN  new \in Seq(Layout) \ {<< >>} /\ Contents(new) = Append(doc, << >>)
<1> DEFINE sent == Serialize(doc)
           size == SerializedSize(doc) + 1
<1>1. sent \in Seq(Char \cup {Enter}) /\ IntsIn(size) = Len(sent)
  BY SerializedIsRead
<1>2. SplitAt(sent, Enter) = Append(doc, << >>)
  BY EnterAssumption, SplitTerminated DEF Serialize, Doc, Line
<1> HIDE DEF sent, size
<1>3. SubSeq(sent, 1, Len(sent)) = sent
  BY <1>1
<1>4. deserialize(sent, size) = Rebuilt(sent)
  BY <1>1, <1>3 DEF deserialize
<1> QED BY <1>1, <1>2, <1>4, RebuiltIs DEF sent, size

-----------------------------------------------------------------------------
(***************************************************************************)
(* A local save: the lines of the file are the buffers of the list.        *)
(***************************************************************************)
RowsOf(line) == [b \in DOMAIN line |-> Used(line[b])]
SavedRows(l) == FlattenSeq([i \in DOMAIN l |-> RowsOf(l[i])])

LEMMA RowsOfType ==
    ASSUME NEW line \in Layout
    PROVE  /\ RowsOf(line) \in Doc /\ Len(RowsOf(line)) = Len(line) /\ Len(line) \in Nat /\ Len(line) > 0
           /\ Len(line) = 1 => RowsOf(line) = << CharsOf(line) >>
<1> DEFINE n == Len(line)
           rows == RowsOf(line)
<1>1. /\ n \in Nat /\ n > 0 /\ DOMAIN line = 1 .. n
      /\ \A b \in 1 .. n : line[b] \in Buffer
  <2> HIDE DEF Buffer
  <2> QED BY DEF Layout
<1>2. \A b \in 1 .. n : Used(line[b]) \in Line
  BY <1>1, BuffersAre, UsedType
<1>3. rows \in [1 .. n -> Line] /\ \A b \in 1 .. n : rows[b] = Used(line[b])
  BY <1>1, <1>2 DEF RowsOf
<1>4. ASSUME n = 1 PROVE CharsOf(line) = Used(line[1])
  <2> DEFINE none == << >>
             buffer == line[1]
  <2>1. buffer \in Buffer
    BY <1>1, <1>4
  <2>2. line = Append(none, buffer)
    <3> HIDE DEF Buffer
    <3> QED BY <1>1, <1>4 DEF Layout
  <2> HIDE DEF buffer
  <2>3. none \in Seq(Seq(Slot)) /\ buffer \in Seq(Slot)
    BY <2>1, BuffersAre
  <2>4. CharsOf(none) = none
    BY CharsNone
  <2>5. CharsOf(Append(none, buffer)) = none \o Used(buffer)
    <3> HIDE DEF none
    <3> QED BY <2>3, <2>4, CharsAppend
  <2>6. none \o Used(buffer) = Used(buffer)
    BY <2>3, UsedType DEF Line
  <2> QED BY <2>2, <2>5, <2>6 DEF buffer
<1> HIDE DEF rows
<1>5. rows \in Doc /\ Len(rows) = n
  <2> HIDE DEF n
  <2> QED BY <1>1, <1>3 DEF Doc
<1>6. ASSUME n = 1 PROVE rows = << CharsOf(line) >>
  <2> DEFINE one == << CharsOf(line) >>
  <2>1. rows[1] = CharsOf(line) /\ rows \in Seq(Line) /\ Len(rows) = 1 /\ CharsOf(line) \in Line
    BY <1>1, <1>2, <1>3, <1>4, <1>5, <1>6 DEF Doc
  <2>2. one \in Seq(Line) /\ Len(one) = 1 /\ one[1] = CharsOf(line)
    BY <2>1
  <2> HIDE DEF one
  <2>3. \A i \in 1 .. Len(rows) : rows[i] = one[i]
    BY <2>1, <2>2
  <2>4. rows = one
    BY <2>1, <2>2, <2>3, SeqEqual
  <2> QED BY <2>4 DEF one
<1> QED BY <1>1, <1>5, <1>6 DEF rows

LEMMA SavedRowsAppend ==
    ASSUME NEW l \in Seq(Layout), NEW line \in Layout
    PROVE  /\ SavedRows(l) \in Doc
           /\ SavedRows(Append(l, line)) = SavedRows(l) \o RowsOf(line)
<1> DEFINE all(m) == [i \in DOMAIN m |-> RowsOf(m[i])]
           longer == Append(l, line)
           n == Len(l)
           u == all(longer)
           w == Append(all(l), RowsOf(line))
<1>1. /\ n \in Nat /\ DOMAIN l = 1 .. n /\ DOMAIN longer = 1 .. n + 1 /\ longer[n + 1] = line
      /\ \A i \in 1 .. n : longer[i] = l[i] /\ l[i] \in Layout
  OBVIOUS
<1> HIDE DEF longer
<1>2. RowsOf(line) \in Doc /\ \A i \in 1 .. n : RowsOf(l[i]) \in Doc
  BY <1>1, RowsOfType
<1>3. all(l) \in Seq(Doc) /\ Len(all(l)) = n /\ \A i \in 1 .. n : all(l)[i] = RowsOf(l[i])
  <2>1. all(l) \in [1 .. n -> Doc]
    BY <1>1, <1>2
  <2> QED BY <1>1, <2>1
<1>4. /\ w \in Seq(Doc) /\ Len(w) = n + 1 /\ w[n + 1] = RowsOf(line)
      /\ \A i \in 1 .. n : w[i] = RowsOf(l[i])
  <2> DEFINE a == all(l)
             r == RowsOf(line)
  <2>1. a \in Seq(Doc) /\ r \in Doc /\ Len(a) = n /\ \A i \in 1 .. n : a[i] = RowsOf(l[i])
    BY <1>2, <1>3
  <2> HIDE DEF a, r
  <2>2. Append(a, r) \in Seq(Doc) /\ Len(Append(a, r)) = n + 1 /\ Append(a, r)[n + 1] = r
        /\ \A i \in 1 .. n : Append(a, r)[i] = a[i]
    BY <1>1, <2>1
  <2> QED BY <2>1, <2>2 DEF a, r
<1>5. /\ u \in Seq(Doc) /\ Len(u) = n + 1 /\ \A i \in 1 .. n + 1 : u[i] = RowsOf(longer[i])
  <2>1. u \in [1 .. n + 1 -> Doc]
    <3>1. \A i \in 1 .. n + 1 : RowsOf(longer[i]) \in Doc
      <4> TAKE i \in 1 .. n + 1
      <4>1. i \in 1 .. n \/ i = n + 1
        BY <1>1
      <4> QED BY <1>1, <1>2, <4>1
    <3> QED BY <1>1, <3>1
  <2> QED BY <1>1, <2>1
<1> HIDE DEF u, w
<1>6. \A i \in 1 .. Len(u) : u[i] = w[i]
  <2> TAKE i \in 1 .. Len(u)
  <2>1. i \in 1 .. n \/ i = n + 1
    BY <1>1, <1>5
  <2> QED BY <1>1, <1>4, <1>5, <2>1
<1>7. u = w
  BY <1>4, <1>5, <1>6, SeqEqual
<1> DEFINE a == all(l)
           r == RowsOf(line)
<1>8. a \in Seq(Seq(Line)) /\ r \in Seq(Line)
  BY <1>2, <1>3 DEF Doc
<1>9. SavedRows(l) = FlattenSeq(a) /\ SavedRows(longer) = FlattenSeq(u) /\ w = Append(a, r)
  BY DEF SavedRows, u, w
<1> HIDE DEF a, r
<1>10. FlattenSeq(a) \in Seq(Line) /\ FlattenSeq(Append(a, r)) = FlattenSeq(a) \o r
  BY <1>8, FlattenAppend
<1> QED BY <1>7, <1>9, <1>10 DEF Doc, longer, r

LEMMA BufferLinesAppend ==
    ASSUME NEW l \in Seq(Layout), NEW line \in Layout
    PROVE  BufferLines(Append(l, line), Newline)
             = BufferLines(l, Newline) \o Terminated(RowsOf(line), Newline)
<1> DEFINE S == Char \cup {Newline}
           T(m) == Terminated(RowsOf(m), Newline)
           all(m) == [i \in DOMAIN m |-> T(m[i])]
           longer == Append(l, line)
           n == Len(l)
           u == all(longer)
           w == Append(all(l), T(line))
<1>1. /\ n \in Nat /\ DOMAIN l = 1 .. n /\ DOMAIN longer = 1 .. n + 1 /\ longer[n + 1] = line
      /\ \A i \in 1 .. n : longer[i] = l[i] /\ l[i] \in Layout
  OBVIOUS
<1> HIDE DEF longer
<1>2. \A m \in Layout : T(m) \in Seq(S)
  <2> TAKE m \in Layout
  <2> DEFINE rows == RowsOf(m)
             none == << >>
  <2>1. rows \in Seq(Seq(Char)) /\ none \in Seq(Char)
    BY RowsOfType DEF Doc, Line
  <2> HIDE DEF rows, none
  <2>2. Terminated(rows, Newline) \in Seq(Char \cup {Newline})
    BY <2>1, TerminatedAppend
  <2> QED BY <2>2 DEF rows
<1>3. \A m \in Seq(Layout) : BufferLines(m, Newline) = FlattenSeq(all(m))
  BY DEF BufferLines, RowsOf
<1> HIDE DEF T, S
<1>4. all(l) \in Seq(Seq(S)) /\ Len(all(l)) = n /\ \A i \in 1 .. n : all(l)[i] = T(l[i])
  <2>1. all(l) \in [1 .. n -> Seq(S)]
    BY <1>1, <1>2
  <2> QED BY <1>1, <2>1
<1>5. /\ w \in Seq(Seq(S)) /\ Len(w) = n + 1 /\ w[n + 1] = T(line)
      /\ \A i \in 1 .. n : w[i] = T(l[i])
  <2> DEFINE a == all(l)
             r == T(line)
  <2>1. a \in Seq(Seq(S)) /\ r \in Seq(S) /\ Len(a) = n /\ \A i \in 1 .. n : a[i] = T(l[i])
    BY <1>2, <1>4
  <2> HIDE DEF a, r
  <2>2. Append(a, r) \in Seq(Seq(S)) /\ Len(Append(a, r)) = n + 1 /\ Append(a, r)[n + 1] = r
        /\ \A i \in 1 .. n : Append(a, r)[i] = a[i]
    BY <1>1, <2>1
  <2> QED BY <2>1, <2>2 DEF a, r
<1>6. /\ u \in Seq(Seq(S)) /\ Len(u) = n + 1 /\ \A i \in 1 .. n + 1 : u[i] = T(longer[i])
  <2>1. u \in [1 .. n + 1 -> Seq(S)]
    <3>1. \A i \in 1 .. n + 1 : T(longer[i]) \in Seq(S)
      <4> TAKE i \in 1 .. n + 1
      <4>1. i \in 1 .. n \/ i = n + 1
        BY <1>1
      <4> QED BY <1>1, <1>2, <4>1
    <3> QED BY <1>1, <3>1
  <2> QED BY <1>1, <2>1
<1> HIDE DEF u, w
<1>7. \A i \in 1 .. Len(u) : u[i] = w[i]
  <2> TAKE i \in 1 .. Len(u)
  <2>1. i \in 1 .. n \/ i = n + 1
    BY <1>1, <1>6
  <2> QED BY <1>1, <1>5, <1>6, <2>1
<1>8. u = w
  BY <1>5, <1>6, <1>7, SeqEqual
<1> DEFINE a == all(l)
           r == T(line)
<1>9. a \in Seq(Seq(S)) /\ r \in Seq(S)
  BY <1>2, <1>4
<1>10. longer \in Seq(Layout)
  BY DEF longer
<1>11. BufferLines(l, Newline) = FlattenSeq(a) /\ BufferLines(longer, Newline) = FlattenSeq(u)
       /\ w = Append(a, r)
  BY <1>3, <1>10 DEF u, w
<1> HIDE DEF a, r
<1>12. FlattenSeq(Append(a, r)) = FlattenSeq(a) \o r
  BY <1>9, FlattenAppend
<1> QED BY <1>8, <1>11, <1>12 DEF longer, r, T

\* The saved file is that of the buffers as lines.
LEMMA SavedIs ==
    ASSUME NEW l \in Seq(Layout)
    PROVE  /\ BufferLines(l, Newline) = FileOf(SavedRows(l)) /\ SavedRows(l) \in Doc
           /\ Len(SavedRows(l)) >= Len(l)
           /\ (\A i \in DOMAIN l : Len(l[i]) = 1) => SavedRows(l) = Contents(l)
           /\ (\E i \in DOMAIN l : Len(l[i]) # 1) => Len(SavedRows(l)) > Len(l)
<1> DEFINE Good(m) ==
             /\ BufferLines(m, Newline) = FileOf(SavedRows(m)) /\ SavedRows(m) \in Doc
             /\ Len(SavedRows(m)) >= Len(m)
             /\ (\A i \in DOMAIN m : Len(m[i]) = 1) => SavedRows(m) = Contents(m)
             /\ (\E i \in DOMAIN m : Len(m[i]) # 1) => Len(SavedRows(m)) > Len(m)
           P == { m \in Seq(Layout) : Good(m) }
<1>1. << >> \in P
  <2> DEFINE none == << >>
  <2>1. none \in Seq(Layout) /\ DOMAIN none = {} /\ Len(none) = 0 /\ none \in Doc
    BY DEF Doc
  <2>2. SavedRows(none) = none
    BY <2>1, FlattenEmpty DEF SavedRows
  <2>3. BufferLines(none, Newline) = none
    BY <2>1, FlattenEmpty DEF BufferLines
  <2>4. FileOf(none) = none
    BY TerminatedEmpty DEF FileOf
  <2>5. Contents(none) = none
    BY <2>1 DEF Contents
  <2>6. Good(none)
    BY <2>1, <2>2, <2>3, <2>4, <2>5
  <2> QED BY <2>1, <2>6
<1>2. ASSUME NEW m \in Seq(Layout), NEW line \in Layout, m \in P PROVE Append(m, line) \in P
  <2> DEFINE longer == Append(m, line)
             x == SavedRows(m)
             r == RowsOf(line)
             n == Len(m)
  <2>1. /\ longer \in Seq(Layout) /\ n \in Nat /\ Len(longer) = n + 1 /\ longer[n + 1] = line
        /\ \A i \in 1 .. n : longer[i] = m[i]
        /\ DOMAIN m = 1 .. n /\ DOMAIN longer = 1 .. n + 1
    OBVIOUS
  <2>2. Good(m)
    BY <1>2
  <2>3. x \in Doc /\ SavedRows(longer) = x \o r
    BY SavedRowsAppend
  <2>4. /\ r \in Doc /\ Len(r) = Len(line) /\ Len(line) \in Nat /\ Len(line) > 0
        /\ Len(line) = 1 => r = << CharsOf(line) >>
    BY RowsOfType
  <2>5. BufferLines(longer, Newline) = BufferLines(m, Newline) \o Terminated(r, Newline)
    BY BufferLinesAppend
  <2>6. BufferLines(m, Newline) = FileOf(x) /\ Len(x) >= n
    BY <2>2
  <2>7. Contents(longer) = Append(Contents(m), CharsOf(line))
    <3> DEFINE one == << line >>
               y == Contents(m)
               c == CharsOf(line)
    <3>1. one \in Seq(Layout) /\ DOMAIN one = 1 .. 1 /\ one[1] = line /\ longer = m \o one
      OBVIOUS
    <3> HIDE DEF one, longer
    <3>2. Contents(one) = << c >>
      BY <3>1 DEF Contents
    <3>3. Contents(m \o one) = y \o Contents(one)
      BY <3>1, ContentsConcat
    <3>4. y \in Seq(Line) /\ c \in Line
      BY ContentsIs, LayoutChars DEF Doc
    <3> HIDE DEF y, c
    <3>5. y \o << c >> = Append(y, c)
      BY <3>4
    <3> QED BY <3>1, <3>2, <3>3, <3>5 DEF y, c
  <2> HIDE DEF longer, x, r, n
  <2>8. x \o r \in Doc /\ Len(x \o r) = Len(x) + Len(r) /\ Len(x) \in Nat
    <3>1. x \in Doc /\ r \in Doc
      BY <2>3, <2>4
    <3> QED BY ONLY <3>1 DEF Doc
  <2>9. FileOf(x \o r) = FileOf(x) \o Terminated(r, Newline)
    <3>1. x \in Seq(Seq(Char)) /\ r \in Seq(Seq(Char))
      BY <2>3, <2>4 DEF Doc, Line
    <3> QED BY <3>1, TerminatedConcat DEF FileOf
  <2>10. BufferLines(longer, Newline) = FileOf(SavedRows(longer)) /\ SavedRows(longer) \in Doc
         /\ Len(SavedRows(longer)) >= Len(longer)
    BY <2>1, <2>3, <2>4, <2>5, <2>6, <2>8, <2>9
  <2>11. ASSUME \A i \in DOMAIN longer : Len(longer[i]) = 1
         PROVE  SavedRows(longer) = Contents(longer)
    <3>1. Len(line) = 1 /\ \A i \in DOMAIN m : Len(m[i]) = 1
      <4>1. n + 1 \in DOMAIN longer
        BY <2>1
      <4>2. \A i \in DOMAIN m : i \in DOMAIN longer /\ longer[i] = m[i]
        BY <2>1
      <4> QED BY <2>1, <2>11, <4>1, <4>2
    <3> DEFINE c == CharsOf(line)
    <3>2. x = Contents(m) /\ r = << c >> /\ x \in Seq(Line) /\ c \in Line
      BY <2>2, <2>3, <2>4, <3>1, LayoutChars DEF x, Doc
    <3> HIDE DEF c
    <3>3. x \o << c >> = Append(x, c)
      BY <3>2
    <3> QED BY <2>3, <2>7, <3>2, <3>3 DEF c
  <2>12. ASSUME \E i \in DOMAIN longer : Len(longer[i]) # 1
         PROVE  Len(SavedRows(longer)) > Len(longer)
    <3>1. CASE Len(line) # 1
      BY <2>1, <2>3, <2>4, <2>6, <2>8, <3>1
    <3>2. CASE Len(line) = 1
      <4>1. \E i \in DOMAIN m : Len(m[i]) # 1
        <5>1. PICK i \in DOMAIN longer : Len(longer[i]) # 1
          BY <2>12
        <5>2. i \in 1 .. n
          BY <2>1, <3>2, <5>1
        <5> QED BY <2>1, <5>1, <5>2
      <4>2. Len(x) > n
        BY <2>2, <4>1 DEF x, n
      <4> QED BY <2>1, <2>3, <2>4, <2>8, <4>2
    <3> QED BY <3>1, <3>2
  <2>13. Good(longer)
    BY <2>10, <2>11, <2>12
  <2> QED BY <2>1, <2>13 DEF longer
<1>3. P = { m \in Seq(Layout) : Good(m) }
  OBVIOUS
<1> HIDE DEF P
<1>4. l \in P
  BY <1>1, <1>2, SeqInduct
<1> QED BY <1>3, <1>4

\* A saved list is read back exactly if no line has a second buffer.
LEMMA LocalSaveIs ==
    ASSUME NEW l \in Seq(Layout)
    PROVE  LinesOf(BufferLines(l, Newline)) = Contents(l) <=> \A i \in DOMAIN l : Len(l[i]) = 1
<1>1. /\ BufferLines(l, Newline) = FileOf(SavedRows(l)) /\ SavedRows(l) \in Doc
      /\ (\A i \in DOMAIN l : Len(l[i]) = 1) => SavedRows(l) = Contents(l)
      /\ (\E i \in DOMAIN l : Len(l[i]) # 1) => Len(SavedRows(l)) > Len(l)
  BY SavedIs
<1>2. LinesOf(BufferLines(l, Newline)) = SavedRows(l)
  BY <1>1, SavedIsLoaded
<1>3. Len(Contents(l)) = Len(l) /\ Len(l) \in Nat
  BY ContentsIs
<1>4. Len(SavedRows(l)) > Len(l) => SavedRows(l) # Contents(l)
  BY <1>3
<1> QED BY <1>1, <1>2, <1>4

-----------------------------------------------------------------------------
(***************************************************************************)
(* Edits of the upper lines of a text do not touch the lines below them.   *)
(***************************************************************************)
LEMMA DocAssoc == \A x, y, z \in Doc : (x \o y) \o z = x \o (y \o z)
BY ConcatAssociative DEF Doc

LEMMA DocConcat == \A x, y \in Doc : x \o y \in Doc /\ Len(x \o y) = Len(x) + Len(y)
BY DEF Doc

LEMMA CutConcat ==
    ASSUME NEW x \in Doc, NEW e \in Doc, NEW i \in 0 .. Len(x)
    PROVE  /\ SubSeq(x \o e, 1, i) = SubSeq(x, 1, i)
           /\ SubSeq(x \o e, i + 1, Len(x \o e)) = SubSeq(x, i + 1, Len(x)) \o e
<1> DEFINE l == SubSeq(x, 1, i)
           r == SubSeq(x, i + 1, Len(x))
           re == r \o e
<1>0. x \in Seq(Line) /\ e \in Seq(Line)
  BY DEF Doc
<1>1. /\ l \in Doc /\ Len(l) = i /\ r \in Doc /\ x = l \o r
  BY <1>0, CutSeq DEF Doc
<1> HIDE DEF l, r
<1>2. (l \o r) \o e = l \o re
  <2>1. l \in Doc /\ r \in Doc /\ e \in Doc
    BY <1>1
  <2> QED BY ONLY <2>1, DocAssoc, Zenon DEF re
<1>3. l \in Seq(Line) /\ re \in Seq(Line)
  BY <1>0, <1>1 DEF Doc
<1> HIDE DEF re
<1>4. /\ SubSeq(l \o re, 1, Len(l)) = l
      /\ SubSeq(l \o re, Len(l) + 1, Len(l \o re)) = re
  BY <1>3, PartsOfConcat
<1>5. x \o e = l \o re
  BY <1>1, <1>2
<1> QED BY <1>1, <1>4, <1>5 DEF l, r, re

LEMMA LineOfConcat ==
    ASSUME NEW x \in Doc, NEW e \in Doc, NEW i \in 1 .. Len(x)
    PROVE  (x \o e)[i] = x[i] /\ x[i] \in Line /\ x \o e \in Doc /\ Len(x \o e) >= Len(x)
BY ConcatProperties DEF Doc

LEMMA ReplaceConcat ==
    ASSUME NEW x \in Doc, NEW e \in Doc, NEW i \in 1 .. Len(x), NEW row \in Line
    PROVE  ReplaceAt(x \o e, i, row) = ReplaceAt(x, i, row) \o e /\ ReplaceAt(x, i, row) \in Doc
           /\ Len(ReplaceAt(x, i, row)) = Len(x)
<1> DEFINE line == i - 1
           both == x \o e
           top == SubSeq(x, 1, line)
           bottom == SubSeq(x, line + 2, Len(x))
           one == << row >>
           upper == top \o one
<1>0. x \in Seq(Line) /\ e \in Seq(Line) /\ line \in 0 .. Len(x) - 1 /\ line + 1 = i /\ i \in 0 .. Len(x)
      /\ line \in 0 .. Len(x) /\ line + 2 = i + 1 /\ Len(x) \in Nat
  BY DEF Doc
<1>1. both \in Seq(Line) /\ line \in 0 .. Len(both) - 1
  BY <1>0, LineOfConcat DEF Doc
<1>2. SubSeq(both, 1, line) = top
  BY <1>0, CutConcat
<1>3. SubSeq(both, i + 1, Len(both)) = bottom \o e
  <2>1. i \in 0 .. Len(x) /\ x \in Doc /\ e \in Doc /\ i + 1 = line + 2
    BY <1>0
  <2>2. SubSeq(x \o e, i + 1, Len(x \o e)) = SubSeq(x, i + 1, Len(x)) \o e
    BY ONLY <2>1, CutConcat, ZenonT(30)
  <2> QED BY <2>1, <2>2
<1>4. top \in Doc /\ bottom \in Doc /\ one \in Doc
  BY <1>0, AroundLine DEF Doc
<1> HIDE DEF line, both, top, bottom, one
<1>5. ReplaceAt(both, i, row) = Around(SubSeq(both, 1, line), row, SubSeq(both, line + 2, Len(both)))
  BY <1>0, <1>1, ReplacedIsAround
<1>6. ReplaceAt(x, i, row) = Around(SubSeq(x, 1, line), row, SubSeq(x, line + 2, Len(x)))
  BY <1>0, ReplacedIsAround
<1>7. ReplaceAt(x, i, row) = upper \o bottom
  BY <1>6 DEF Around, top, bottom, one
<1>8. ReplaceAt(both, i, row) = upper \o (bottom \o e)
  BY <1>0, <1>2, <1>3, <1>5 DEF Around, one
<1>9. upper \in Doc
  BY <1>4, DocConcat
<1> HIDE DEF upper
<1>10. (upper \o bottom) \o e = upper \o (bottom \o e)
  <2>1. upper \in Doc /\ bottom \in Doc /\ e \in Doc
    BY <1>4, <1>9
  <2> QED BY ONLY <2>1, DocAssoc, Zenon
<1>11. ReplaceAt(x, i, row) \in Doc
  BY <1>4, <1>7, <1>9, DocConcat
<1>12. Len(ReplaceAt(x, i, row)) = Len(x)
  BY <1>0 DEF ReplaceAt
<1> QED BY <1>7, <1>8, <1>10, <1>11, <1>12 DEF both

LEMMA RemoveConcat ==
    ASSUME NEW x \in Doc, NEW e \in Doc, NEW i \in 1 .. Len(x)
    PROVE  RemoveAt(x \o e, i) = RemoveAt(x, i) \o e
<1> DEFINE k == i - 1
           both == x \o e
           top == SubSeq(x, 1, k)
           bottom == SubSeq(x, i + 1, Len(x))
<1>0. x \in Seq(Line) /\ e \in Seq(Line) /\ k \in 0 .. Len(x) /\ i \in 0 .. Len(x)
  BY DEF Doc
<1>1. SubSeq(both, 1, k) = top
  BY <1>0, CutConcat
<1>2. SubSeq(both, i + 1, Len(both)) = bottom \o e
  BY <1>0, CutConcat
<1>3. top \in Doc /\ bottom \in Doc
  BY <1>0, CutSeq DEF Doc
<1>4. RemoveAt(both, i) = SubSeq(both, 1, k) \o SubSeq(both, i + 1, Len(both))
  BY DEF RemoveAt
<1>5. RemoveAt(x, i) = top \o bottom
  BY DEF RemoveAt
<1> HIDE DEF k, both, top, bottom
<1>6. (top \o bottom) \o e = top \o (bottom \o e)
  <2>1. top \in Doc /\ bottom \in Doc /\ e \in Doc
    BY <1>3
  <2> QED BY ONLY <2>1, DocAssoc, Zenon
<1> QED BY <1>1, <1>2, <1>4, <1>5, <1>6 DEF both

LEMMA InsertAbove ==
    ASSUME NEW x \in Doc, NEW e \in Doc, NEW line \in Nat, HasLine(x, line),
           NEW index \in 0 .. Len(x[line + 1]), NEW input \in Char \cup {Enter}
    PROVE  InsertChar(x \o e, line, index, input) = InsertChar(x, line, index, input) \o e
<1> DEFINE both == x \o e
           whole == x[line + 1]
<1>0. x \in Seq(Line) /\ line + 1 \in 1 .. Len(x) /\ line \in 0 .. Len(x) /\ line + 1 \in 0 .. Len(x)
  BY DEF Doc, HasLine
<1>1. both[line + 1] = whole /\ whole \in Line /\ both \in Doc /\ Len(both) >= Len(x)
  BY <1>0, LineOfConcat
<1>2. Len(both) \in Nat /\ HasLine(both, line)
  BY <1>0, <1>1 DEF HasLine, Doc
<1> HIDE DEF both
<1>3. CASE input = Enter
  <2> DEFINE l == SubSeq(whole, 1, index)
             r == SubSeq(whole, index + 1, Len(whole))
             two == << l, r >>
             top == SubSeq(x, 1, line)
             bottom == SubSeq(x, line + 2, Len(x))
             upper == top \o two
  <2>1. InsertChar(both, line, index, input) = BreakLine(both, line, index)
    BY <1>1, <1>2, <1>3 DEF InsertChar
  <2>2. InsertChar(x, line, index, input) = BreakLine(x, line, index)
    BY <1>3 DEF InsertChar
  <2>3. SubSeq(both, 1, line) = top
    BY <1>0, CutConcat DEF both
  <2>4. SubSeq(both, line + 2, Len(both)) = bottom \o e
    <3> DEFINE n == line + 1
    <3>1. n \in 0 .. Len(x) /\ n + 1 = line + 2
      BY <1>0
    <3> HIDE DEF n
    <3>2. SubSeq(both, n + 1, Len(both)) = SubSeq(x, n + 1, Len(x)) \o e
      BY <3>1, CutConcat DEF both
    <3> QED BY <3>1, <3>2
  <2>5. BreakLine(both, line, index) = upper \o (bottom \o e)
    BY <1>1, <2>3, <2>4 DEF BreakLine
  <2>6. BreakLine(x, line, index) = upper \o bottom
    BY DEF BreakLine
  <2>7. top \in Doc /\ bottom \in Doc
    BY <1>0, PrefixSuffix DEF Doc
  <2>8. l \in Line /\ r \in Line
    BY <1>1, CutRow
  <2> HIDE DEF l, r, top, bottom
  <2>9. two \in Doc
    BY <2>8 DEF Doc
  <2> HIDE DEF two
  <2>10. upper \in Doc
    BY <2>7, <2>9, DocConcat
  <2> HIDE DEF upper
  <2>11. (upper \o bottom) \o e = upper \o (bottom \o e)
    <3>1. upper \in Doc /\ bottom \in Doc /\ e \in Doc
      BY <2>7, <2>10
    <3> QED BY ONLY <3>1, DocAssoc, Zenon
  <2> QED BY <2>1, <2>2, <2>5, <2>6, <2>11 DEF both
<1>4. CASE input # Enter
  <2> DEFINE row == InsertAt(whole, index + 1, input)
  <2>1. InsertChar(both, line, index, input) = ReplaceAt(both, line + 1, row)
    BY <1>1, <1>2, <1>4 DEF InsertChar
  <2>2. InsertChar(x, line, index, input) = ReplaceAt(x, line + 1, row)
    BY <1>4 DEF InsertChar
  <2>3. row \in Line
    BY <1>1, <1>4 DEF InsertAt, Line
  <2> HIDE DEF row
  <2> QED BY <1>0, <2>1, <2>2, <2>3, ReplaceConcat, ZenonT(30) DEF both
<1> QED BY <1>3, <1>4

LEMMA JoinAbove ==
    ASSUME NEW x \in Doc, NEW e \in Doc, NEW line \in Nat, HasLine(x, line)
    PROVE  JoinLine(x \o e, line) = JoinLine(x, line) \o e
<1> DEFINE both == x \o e
<1>0. x \in Seq(Line) /\ line + 1 \in 1 .. Len(x) /\ Len(x) \in Nat
  BY DEF Doc, HasLine
<1>1. both[line + 1] = x[line + 1] /\ x[line + 1] \in Line /\ both \in Doc /\ Len(both) >= Len(x)
  BY <1>0, LineOfConcat
<1>2. Len(both) \in Nat /\ HasLine(both, line)
  BY <1>0, <1>1 DEF HasLine, Doc
<1>3. CASE line = 0
  BY <1>3 DEF JoinLine
<1>4. CASE line # 0
  <2> DEFINE row == x[line] \o x[line + 1]
             longer == ReplaceAt(x, line, row)
  <2>1. line \in 1 .. Len(x)
    BY <1>0, <1>4
  <2>2. both[line] = x[line] /\ x[line] \in Line
    BY <2>1, LineOfConcat
  <2>3. row \in Line
    BY <1>1, <2>2 DEF Line
  <2>4. JoinLine(both, line) = RemoveAt(ReplaceAt(both, line, row), line + 1)
    BY <1>1, <1>2, <1>4, <2>2 DEF JoinLine
  <2>5. JoinLine(x, line) = RemoveAt(longer, line + 1)
    BY <1>4 DEF JoinLine
  <2> HIDE DEF row, both
  <2>6. ReplaceAt(both, line, row) = longer \o e /\ longer \in Doc /\ Len(longer) = Len(x)
    BY <2>1, <2>3, ReplaceConcat DEF both
  <2> HIDE DEF longer
  <2>7. line + 1 \in 1 .. Len(longer)
    BY <1>0, <2>6
  <2>8. RemoveAt(longer \o e, line + 1) = RemoveAt(longer, line + 1) \o e
    BY <2>6, <2>7, RemoveConcat
  <2> QED BY <2>4, <2>5, <2>6, <2>8 DEF both
<1> QED BY <1>3, <1>4

CutOut(doc, line, index) == ReplaceAt(doc, line + 1, RemoveAt(doc[line + 1], index + 1))

LEMMA RemoveAbove ==
    ASSUME NEW x \in Doc, NEW e \in Doc, NEW line \in Nat, HasLine(x, line),
           NEW index \in 0 .. Len(x[line + 1]) - 1
    PROVE  /\ RemoveChar(x, line, index) = { CutOut(x, line, index) }
           /\ RemoveChar(x \o e, line, index) = { CutOut(x, line, index) \o e }
<1> DEFINE both == x \o e
           whole == x[line + 1]
           row == RemoveAt(whole, index + 1)
<1>0. x \in Seq(Line) /\ line + 1 \in 1 .. Len(x) /\ Len(x) \in Nat
  BY DEF Doc, HasLine
<1>1. both[line + 1] = whole /\ whole \in Line /\ both \in Doc /\ Len(both) >= Len(x)
  BY <1>0, LineOfConcat
<1>2. Len(both) \in Nat /\ HasLine(both, line)
  BY <1>0, <1>1 DEF HasLine, Doc
<1>3. Len(whole) \in Nat /\ index \in 0 .. Len(whole) - 1 /\ index # Join
      /\ ~ (index > Len(whole)) /\ index # Len(whole)
  BY <1>1 DEF Line, Join
<1>4. row \in Line
  BY <1>1, <1>3 DEF RemoveAt, Line
<1> HIDE DEF both, row
<1>5. RemoveChar(both, line, index) = { ReplaceAt(both, line + 1, row) }
  BY <1>1, <1>2, <1>3 DEF RemoveChar, ErasesEnd, row
<1>6. RemoveChar(x, line, index) = { ReplaceAt(x, line + 1, row) }
  BY <1>3 DEF RemoveChar, ErasesEnd, row
<1>7. ReplaceAt(both, line + 1, row) = ReplaceAt(x, line + 1, row) \o e
  BY <1>0, <1>4, ReplaceConcat DEF both
<1> QED BY <1>5, <1>6, <1>7 DEF both, row, CutOut

-----------------------------------------------------------------------------
(***************************************************************************)
(* The client.  A text he has received carries the line that deserialize() *)
(* leaves behind the server's.                                             *)
(***************************************************************************)
Behind == IF extra THEN << << >> >> ELSE << >>

ClientInv == TypeOK /\ ListTypeOK /\ SameText

LEMMA BehindIsDoc == Behind \in Doc
<1>1. << >> \in Line /\ << >> \in Doc
  BY DEF Doc, Line
<1>2. << << >> >> \in Doc
  BY <1>1 DEF Doc
<1> QED BY <1>1, <1>2 DEF Behind

LEMMA ClientFacts ==
    ASSUME ClientInv
    PROVE  /\ data \in Doc /\ list \in Seq(Layout) \ {<< >>} /\ Len(list) \in Nat
           /\ apart \in BOOLEAN /\ extra \in BOOLEAN
           /\ ~ apart => Contents(list) = data \o Behind
<1>1. data \in Doc
  BY TypedIsDoc DEF ClientInv
<1>2. list \in Seq(Layout) \ {<< >>} /\ apart \in BOOLEAN /\ extra \in BOOLEAN
  BY DEF ClientInv, ListTypeOK, Layout
<1>3. Len(list) \in Nat
  BY <1>2
<1>4. ~ apart => Contents(list) = data \o Behind
  BY DEF ClientInv, SameText, Behind
<1> QED BY <1>1, <1>2, <1>3, <1>4

LEMMA ClientStarts == ClientInit => ClientInv
<1> SUFFICES ASSUME ClientInit PROVE ClientInv
  OBVIOUS
<1>1. TypeOK
  BY TextInit DEF ClientInit
<1>2. list = EmptyList /\ apart = FALSE /\ extra = FALSE /\ data = EmptyDoc
  BY DEF ClientInit, Init
<1>3. list \in Seq(Layout) \ {<< >>} /\ Contents(list) = EmptyDoc
  BY <1>2, EmptyListIs
<1>4. ListTypeOK
  BY <1>2, <1>3 DEF ListTypeOK, Layout
<1>5. EmptyDoc \o << >> = EmptyDoc
  BY DEF EmptyDoc
<1>6. SameText
  BY <1>2, <1>3, <1>5 DEF SameText
<1> QED BY <1>1, <1>4, <1>6 DEF ClientInv

\* The user's edits are edits of the server's text, or nothing to it.
LEMMA BeyondTheText ==
    ASSUME data \in Doc, NEW line \in Nat, line \notin Lines, NEW index \in Int
    PROVE  /\ \A input \in Char \cup {Enter} : Insert(line, index, input) => UNCHANGED vars
           /\ Erase(line, index) => UNCHANGED vars
           /\ ~ UndefinedErase(line, index)
<1>1. Len(data) \in Nat
  BY DEF Doc
<1>2. ~ HasLine(data, line)
  BY <1>1 DEF HasLine, Lines
<1>3. ASSUME NEW input \in Char \cup {Enter}, Insert(line, index, input) PROVE UNCHANGED vars
  <2>1. InsertChar(data, line, index, input) = data
    BY <1>2 DEF InsertChar
  <2> QED BY <1>3, <2>1 DEF Insert, vars
<1>4. ASSUME Erase(line, index) PROVE UNCHANGED vars
  <2>1. RemoveChar(data, line, index) = { data }
    BY <1>2 DEF RemoveChar, JoinLine
  <2> QED BY <1>4, <2>1 DEF Erase, vars
<1>5. ~ UndefinedErase(line, index)
  BY <1>2 DEF UndefinedErase, ErasesEnd
<1> QED BY <1>3, <1>4, <1>5

LEMMA ClientPlaces ==
    ASSUME ClientInv, NEW line \in ClientLines, NEW index \in Indices
    PROVE  line \in Nat /\ index \in Int /\ index >= Join
BY ClientFacts, DiskAssumption DEF ClientLines, Indices, Join

LEMMA ClientIsUser ==
    ASSUME ClientInv, [ClientNext]_clientVars
    PROVE  [Next]_vars
<1>0. data \in Doc
  BY ClientFacts
<1>1. ASSUME NEW line \in ClientLines, NEW index \in Indices, NEW input \in Char \cup {Enter},
             ClientInsert(line, index, input)
      PROVE  [Next]_vars
  <2>1. Insert(line, index, input)
    BY <1>1 DEF ClientInsert
  <2>2. CASE line \in Lines
    BY <2>1, <2>2 DEF Next, Edit
  <2>3. CASE line \notin Lines
    <3>1. line \in Nat /\ index \in Int
      BY ClientPlaces
    <3> QED BY <1>0, <2>1, <2>3, <3>1, BeyondTheText
  <2> QED BY <2>2, <2>3
<1>2. ASSUME NEW line \in ClientLines, NEW index \in Indices, ClientRemove(line, index)
      PROVE  [Next]_vars
  <2>1. Erase(line, index) \/ UndefinedErase(line, index)
    BY <1>2 DEF ClientRemove
  <2>2. CASE line \in Lines
    BY <2>1, <2>2 DEF Next, Edit
  <2>3. CASE line \notin Lines
    <3>1. line \in Nat /\ index \in Int
      BY ClientPlaces
    <3> QED BY <1>0, <2>1, <2>3, <3>1, BeyondTheText
  <2> QED BY <2>2, <2>3
<1>3. CASE FullContent
  BY <1>3 DEF FullContent
<1>4. ASSUME NEW f \in File, ServerFile(f) PROVE [Next]_vars
  BY <1>4 DEF ServerFile, Next
<1>5. CASE UNCHANGED clientVars
  BY <1>5 DEF clientVars, vars
<1> QED BY <1>1, <1>2, <1>3, <1>4, <1>5 DEF ClientNext, ClientEdit

-----------------------------------------------------------------------------
\* The steps of the list: an insert,
LEMMA InsertKept ==
    ASSUME ClientInv, NEW line \in ClientLines, NEW index \in Indices,
           NEW input \in Char \cup {Enter}, ClientInsert(line, index, input)
    PROVE  ListTypeOK' /\ SameText'
<1>1. /\ data \in Doc /\ list \in Seq(Layout) \ {<< >>} /\ apart \in BOOLEAN /\ extra \in BOOLEAN
      /\ ~ apart => Contents(list) = data \o Behind
  BY ClientFacts
<1>2. line \in Nat /\ index \in Int
  BY ClientPlaces
<1>3. /\ ~ apart /\ data' = InsertChar(data, line, index, input)
      /\ list' = insert(list, line, index, input)
      /\ apart' = (apart \/ ~ HasLine(data, line) \/ index \notin 0 .. Len(data[line + 1]))
      /\ extra' = extra
  BY DEF ClientInsert, Insert, Room
<1>4. list' \in Seq(Layout) \ {<< >>}
  BY <1>1, <1>2, <1>3, ListInsertType
<1>5. ListTypeOK'
  BY <1>1, <1>3, <1>4 DEF ListTypeOK, Layout
<1>6. ASSUME ~ apart' PROVE Contents(list') = data' \o Behind
  <2>1. HasLine(data, line) /\ index \in 0 .. Len(data[line + 1])
    BY <1>3, <1>6
  <2>2. Contents(list) = data \o Behind /\ Behind \in Doc
    BY <1>1, <1>3, BehindIsDoc
  <2>3. line + 1 \in 1 .. Len(data)
    BY <1>1, <1>2, <2>1 DEF HasLine, Doc
  <2>4. (data \o Behind)[line + 1] = data[line + 1] /\ Len(data \o Behind) >= Len(data)
        /\ data \o Behind \in Doc
    BY <1>1, <2>2, <2>3, LineOfConcat
  <2>5. list \in Seq(Layout) /\ Len(Contents(list)) = Len(list) /\ Len(list) \in Nat
    BY <1>1, ContentsIs
  <2>6. line \in 0 .. Len(list) - 1 /\ index \in 0 .. Len(Contents(list)[line + 1])
    <3>1. Len(data) \in Nat
      BY <1>1 DEF Doc
    <3> QED BY <1>2, <2>1, <2>2, <2>3, <2>4, <2>5, <3>1
  <2>7. Contents(list') = InsertChar(data \o Behind, line, index, input)
    BY <1>3, <2>2, <2>5, <2>6, ListInsertIs
  <2> QED BY <1>1, <1>2, <1>3, <2>1, <2>2, <2>7, InsertAbove
<1>7. SameText'
  BY <1>3, <1>6 DEF SameText, Behind
<1> QED BY <1>5, <1>7

\* and a removal.
LEMMA RemoveKept ==
    ASSUME ClientInv, NEW line \in ClientLines, NEW index \in Indices, ClientRemove(line, index)
    PROVE  ListTypeOK' /\ SameText'
<1>1. /\ data \in Doc /\ list \in Seq(Layout) \ {<< >>} /\ apart \in BOOLEAN /\ extra \in BOOLEAN
      /\ ~ apart => Contents(list) = data \o Behind
  BY ClientFacts
<1>2. line \in Nat /\ index \in Int
  BY ClientPlaces
<1>3. /\ ~ apart /\ list' = remove(list, line, index)
      /\ apart' = (apart \/ ~ HasLine(data, line) \/ index \notin Join .. Len(data[line + 1]) - 1)
      /\ extra' = extra
      /\ Erase(line, index) \/ UndefinedErase(line, index)
  BY DEF ClientRemove
<1>4. list' \in Seq(Layout) \ {<< >>}
  BY <1>1, <1>2, <1>3, ListRemoveType
<1>5. ListTypeOK'
  BY <1>1, <1>3, <1>4 DEF ListTypeOK, Layout
<1>6. ASSUME ~ apart' PROVE Contents(list') = data' \o Behind
  <2>1. HasLine(data, line) /\ index \in Join .. Len(data[line + 1]) - 1
    BY <1>3, <1>6
  <2>2. Contents(list) = data \o Behind /\ Behind \in Doc
    BY <1>1, <1>3, BehindIsDoc
  <2>3. line + 1 \in 1 .. Len(data)
    BY <1>1, <1>2, <2>1 DEF HasLine, Doc
  <2>4. (data \o Behind)[line + 1] = data[line + 1] /\ Len(data \o Behind) >= Len(data)
        /\ data[line + 1] \in Line
    BY <1>1, <2>2, <2>3, LineOfConcat
  <2>5. ~ UndefinedErase(line, index)
    <3>1. Len(data[line + 1]) \in Nat
      BY <2>4 DEF Line
    <3> QED BY <2>1, <3>1 DEF UndefinedErase, ErasesEnd
  <2>6. data' \in RemoveChar(data, line, index)
    BY <1>3, <2>5 DEF Erase
  <2>7. CASE index = Join
    <3>1. data' = JoinLine(data, line)
      BY <2>6, <2>7 DEF RemoveChar
    <3>2. Contents(list') = JoinLine(data \o Behind, line)
      BY <1>1, <1>2, <1>3, <2>2, <2>7, ListJoinIs
    <3> QED BY <1>1, <1>2, <2>1, <2>2, <3>1, <3>2, JoinAbove
  <2>8. CASE index # Join
    <3>1. index \in 0 .. Len(data[line + 1]) - 1
      BY <1>2, <2>1, <2>8 DEF Join
    <3>2. list \in Seq(Layout) /\ Len(Contents(list)) = Len(list) /\ Len(list) \in Nat
      BY <1>1, ContentsIs
    <3>3. line \in 0 .. Len(list) - 1 /\ index \in 0 .. Len(Contents(list)[line + 1]) - 1
      <4>1. Len(data) \in Nat
        BY <1>1 DEF Doc
      <4> QED BY <1>2, <2>2, <2>3, <2>4, <3>1, <3>2, <4>1
    <3>4. { Contents(list') } = RemoveChar(data \o Behind, line, index)
      BY <1>3, <2>2, <3>2, <3>3, ListRemoveIs
    <3> DEFINE new == CutOut(data, line, index)
    <3>5. /\ RemoveChar(data, line, index) = { new }
          /\ RemoveChar(data \o Behind, line, index) = { new \o Behind }
      <4>1. data \in Doc /\ Behind \in Doc /\ line \in Nat /\ HasLine(data, line)
        BY <1>1, <1>2, <2>1, <2>2
      <4>2. \A e \in Doc : \A i \in 0 .. Len(data[line + 1]) - 1 :
              /\ RemoveChar(data, line, i) = { CutOut(data, line, i) }
              /\ RemoveChar(data \o e, line, i) = { CutOut(data, line, i) \o e }
        BY ONLY <4>1, RemoveAbove, Zenon
      <4> QED BY ONLY <3>1, <4>1, <4>2, Zenon
    <3>6. data' = new
      BY <2>6, <3>5
    <3> QED BY <3>4, <3>5, <3>6
  <2> QED BY <2>7, <2>8
<1>7. SameText'
  BY <1>3, <1>6 DEF SameText, Behind
<1> QED BY <1>5, <1>7

LEMMA FullContentKept == ASSUME ClientInv, FullContent PROVE ListTypeOK' /\ SameText'
<1>1. data \in Doc
  BY ClientFacts
<1>2. /\ list' = deserialize(Serialize(data), SerializedSize(data) + 1)
      /\ apart' = FALSE /\ extra' = TRUE /\ data' = data
  BY DEF FullContent, vars
<1>3. list' \in Seq(Layout) \ {<< >>} /\ Contents(list') = Append(data, << >>)
  BY <1>1, <1>2, DeserializedIs
<1>4. Append(data, << >>) = data \o << << >> >>
  BY <1>1 DEF Doc
<1>5. ListTypeOK'
  BY <1>2, <1>3 DEF ListTypeOK, Layout
<1>6. SameText'
  BY <1>2, <1>3, <1>4 DEF SameText
<1> QED BY <1>5, <1>6

LEMMA ClientKept == ClientInv /\ [ClientNext]_clientVars => ClientInv'
<1> SUFFICES ASSUME ClientInv, [ClientNext]_clientVars PROVE ClientInv'
  OBVIOUS
<1>1. TypeOK'
  BY ClientIsUser, TextNext DEF ClientInv
<1>2. ASSUME NEW line \in ClientLines, NEW index \in Indices, NEW input \in Char \cup {Enter},
             ClientInsert(line, index, input)
      PROVE  ListTypeOK' /\ SameText'
  BY <1>2, InsertKept
<1>3. ASSUME NEW line \in ClientLines, NEW index \in Indices, ClientRemove(line, index)
      PROVE  ListTypeOK' /\ SameText'
  BY <1>3, RemoveKept
<1>4. ASSUME FullContent PROVE ListTypeOK' /\ SameText'
  BY <1>4, FullContentKept
<1>5. ASSUME NEW f \in File, ServerFile(f) PROVE ListTypeOK' /\ SameText'
  <2>1. UNCHANGED << list, extra >>
    BY <1>5 DEF ServerFile
  <2>2. CASE WriteToFile(f) /\ UNCHANGED apart
    BY <2>1, <2>2 DEF ClientInv, ListTypeOK, SameText, WriteToFile
  <2>3. CASE ReadFromFile(f) /\ apart' = TRUE
    BY <2>1, <2>3 DEF ClientInv, ListTypeOK, SameText
  <2> QED BY <1>5, <2>2, <2>3 DEF ServerFile
<1>6. ASSUME UNCHANGED clientVars PROVE ListTypeOK' /\ SameText'
  BY <1>6 DEF ClientInv, ListTypeOK, SameText, clientVars
<1>7. ListTypeOK' /\ SameText'
  BY <1>2, <1>3, <1>4, <1>5, <1>6 DEF ClientNext, ClientEdit
<1> QED BY <1>1, <1>7 DEF ClientInv

LEMMA ClientAlways == ClientSpec => []ClientInv
<1>1. ClientInit => ClientInv
  BY ClientStarts
<1>2. ClientInv /\ [ClientNext]_clientVars => ClientInv'
  BY ClientKept
<1> QED BY <1>1, <1>2, PTL DEF ClientSpec

\* The server behind a LOCKFREE client is the text container of TextBuffer:
\* whatever is proved of that one holds here (editor.cpp:666).
THEOREM ClientIsServed == ClientSpec => Spec
<1>1. ClientInit => Init
  BY DEF ClientInit
<1>2. ClientInv /\ [ClientNext]_clientVars => [Next]_vars
  BY ClientIsUser
<1> QED BY <1>1, <1>2, ClientAlways, PTL DEF ClientSpec, Spec

\* No line is ever without a buffer and no list without a line, which every
\* loop of lockfreelist.cpp takes for granted.
THEOREM LinesHaveBuffers == ClientSpec => []ListTypeOK
<1>1. ClientInv => ListTypeOK
  BY DEF ClientInv
<1> QED BY <1>1, ClientAlways, PTL

\* However the buffers are laid out, the client shows the server's text as long
\* as his edits are inside it (lockfreelist.cpp and blockingVector.cpp).
THEOREM ClientShowsText == ClientSpec => []SameText
<1>1. ClientInv => SameText
  BY DEF ClientInv
<1> QED BY <1>1, ClientAlways, PTL

\* In every layout an edit inside the text does to the list what it does to
\* the vector of the default build (lockfreelist.cpp insert, remove).
THEOREM EditsAreTheSame == ClientSpec => []SameEdits
<1>1. ClientInv => SameEdits
  <2> SUFFICES ASSUME ClientInv PROVE SameEdits
    OBVIOUS
  <2> DEFINE x == Contents(list)
  <2>1. list \in Seq(Layout) \ {<< >>} /\ list \in Seq(Layout)
    BY ClientFacts
  <2>2. x \in Doc /\ Len(x) = Len(list) /\ Len(list) \in Nat
    BY <2>1, ContentsIs
  <2> HIDE DEF x
  <2>3. ASSUME NEW line \in 0 .. Len(x) - 1, NEW index \in 0 .. Len(x[line + 1])
        PROVE  /\ \A ch \in Char \cup {Enter} :
                    Contents(insert(list, line, index, ch)) = InsertChar(x, line, index, ch)
               /\ Contents(remove(list, line, Join)) = JoinLine(x, line)
               /\ ~ ErasesEnd(x, line, index) =>
                    { Contents(remove(list, line, index)) } = RemoveChar(x, line, index)
    <3>1. line \in 0 .. Len(list) - 1 /\ line \in Nat
      BY <2>2, <2>3
    <3>2. \A ch \in Char \cup {Enter} :
             Contents(insert(list, line, index, ch)) = InsertChar(x, line, index, ch)
      BY <2>1, <2>3, <3>1, ListInsertIs DEF x
    <3>3. Contents(remove(list, line, Join)) = JoinLine(x, line)
      BY <2>1, <3>1, ListJoinIs DEF x
    <3>4. ASSUME ~ ErasesEnd(x, line, index)
          PROVE  { Contents(remove(list, line, index)) } = RemoveChar(x, line, index)
      <4>1. HasLine(x, line)
        BY <2>2, <2>3 DEF HasLine
      <4>2. Len(x[line + 1]) \in Nat /\ index # Len(x[line + 1])
        <5>1. x[line + 1] \in Line
          BY <2>2, <2>3 DEF Doc
        <5> QED BY <3>4, <4>1, <5>1 DEF ErasesEnd, Line
      <4>3. index \in 0 .. Len(x[line + 1]) - 1
        BY <2>3, <4>2
      <4> QED BY <2>1, <3>1, <4>3, ListRemoveIs DEF x
    <3> QED BY <3>2, <3>3, <3>4
  <2> QED BY <2>3 DEF SameEdits, x
<1> QED BY <1>1, ClientAlways, PTL

\* When writeToFile() (lockfreelist.cpp) is wrong: what it writes is read back
\* as the lines shown exactly as long as none of them has ever outgrown its
\* first buffer, however short it is now.
THEOREM SavedPerBuffer ==
    ClientSpec => [](LinesOf(BufferLines(list, Newline)) = Contents(list)
                        <=> \A l \in DOMAIN list : Len(list[l]) = 1)
<1>1. ClientInv => (LinesOf(BufferLines(list, Newline)) = Contents(list)
                       <=> \A l \in DOMAIN list : Len(list[l]) = 1)
  BY ClientFacts, LocalSaveIs
<1> QED BY <1>1, ClientAlways, PTL
=============================================================================
