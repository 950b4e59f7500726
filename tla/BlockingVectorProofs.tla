------------------------ MODULE BlockingVectorProofs ------------------------
(***************************************************************************)
(* Facts about the text operations, for every document: edits yield        *)
(* documents, whose lines never contain Enter, and splitting a text at its *)
(* line ends gives back the lines that were put together.                  *)
(***************************************************************************)
EXTENDS BlockingVector, Induction, SequenceTheorems

\* SubSeq over the ranges that the text operations use.
LEMMA PrefixSuffix ==
    ASSUME NEW S, NEW s \in Seq(S), NEW i \in Nat
    PROVE  /\ i <= Len(s) => SubSeq(s, 1, i) \in Seq(S)
           /\ i <= Len(s) => Len(SubSeq(s, 1, i)) = i
           /\ SubSeq(s, i + 1, Len(s)) \in Seq(S)
           /\ i <= Len(s) => Len(SubSeq(s, i + 1, Len(s))) = Len(s) - i
  OBVIOUS

\* The elements of a sequence after insertion and after removal.
LEMMA Inserted ==
    ASSUME NEW S, NEW s \in Seq(S), NEW i \in 1 .. Len(s) + 1, NEW e \in S
    PROVE  /\ InsertAt(s, i, e) \in Seq(S)
           /\ Len(InsertAt(s, i, e)) = Len(s) + 1
           /\ \A j \in 1 .. i - 1 : InsertAt(s, i, e)[j] = s[j]
           /\ InsertAt(s, i, e)[i] = e
           /\ \A j \in i + 1 .. Len(s) + 1 : InsertAt(s, i, e)[j] = s[j - 1]
<1> DEFINE front == SubSeq(s, 1, i - 1)
           back  == SubSeq(s, i, Len(s))
<1>1. /\ front \in Seq(S) /\ Len(front) = i - 1
      /\ \A j \in 1 .. i - 1 : front[j] = s[j]
  OBVIOUS
<1>2. /\ back \in Seq(S) /\ Len(back) = Len(s) - i + 1
      /\ \A j \in 1 .. Len(s) - i + 1 : back[j] = s[i + j - 1]
  OBVIOUS
<1>3. InsertAt(s, i, e) = front \o << e >> \o back
  BY DEF InsertAt
<1> HIDE DEF front, back
<1> DEFINE head == front \o << e >>
           t    == head \o back
<1>4. /\ head \in Seq(S) /\ Len(head) = i
      /\ \A j \in 1 .. i - 1 : head[j] = front[j]
      /\ head[i] = e
  BY <1>1
<1> HIDE DEF head
<1>5. /\ t \in Seq(S) /\ Len(t) = Len(s) + 1
      /\ \A j \in 1 .. Len(s) + 1 : t[j] = IF j <= i THEN head[j] ELSE back[j - i]
  BY <1>2, <1>4, ConcatProperties
<1>6. ASSUME NEW j \in i + 1 .. Len(s) + 1 PROVE t[j] = s[j - 1]
  <2>1. j - i \in 1 .. Len(s) - i + 1 /\ t[j] = back[j - i]
    BY <1>5
  <2> QED
    BY <1>2, <2>1
<1>7. InsertAt(s, i, e) = t
  BY <1>3 DEF head
<1> QED
  BY <1>1, <1>4, <1>5, <1>6, <1>7

LEMMA Removed ==
    ASSUME NEW S, NEW s \in Seq(S), NEW i \in 1 .. Len(s)
    PROVE  /\ RemoveAt(s, i) \in Seq(S)
           /\ Len(RemoveAt(s, i)) = Len(s) - 1
           /\ \A j \in 1 .. i - 1 : RemoveAt(s, i)[j] = s[j]
           /\ \A j \in i .. Len(s) - 1 : RemoveAt(s, i)[j] = s[j + 1]
<1> DEFINE front == SubSeq(s, 1, i - 1)
           back  == SubSeq(s, i + 1, Len(s))
<1>1. /\ front \in Seq(S) /\ Len(front) = i - 1
      /\ \A j \in 1 .. i - 1 : front[j] = s[j]
  OBVIOUS
<1>2. /\ back \in Seq(S) /\ Len(back) = Len(s) - i
      /\ \A j \in 1 .. Len(s) - i : back[j] = s[i + j]
  OBVIOUS
<1>3. RemoveAt(s, i) = front \o back
  BY DEF RemoveAt
<1> HIDE DEF front, back
<1> DEFINE t == front \o back
<1>4. /\ t \in Seq(S) /\ Len(t) = Len(s) - 1
      /\ \A j \in 1 .. Len(s) - 1 :
            t[j] = IF j <= i - 1 THEN front[j] ELSE back[j - (i - 1)]
  BY <1>1, <1>2, ConcatProperties
<1>5. ASSUME NEW j \in i .. Len(s) - 1 PROVE t[j] = s[j + 1]
  <2>1. j - (i - 1) \in 1 .. Len(s) - i /\ t[j] = back[j - (i - 1)]
    BY <1>4
  <2> QED
    BY <1>2, <2>1
<1> QED
  BY <1>1, <1>3, <1>4, <1>5

LEMMA Replaced ==
    ASSUME NEW S, NEW s \in Seq(S), NEW i \in 1 .. Len(s), NEW e \in S
    PROVE  /\ ReplaceAt(s, i, e) \in Seq(S)
           /\ Len(ReplaceAt(s, i, e)) = Len(s)
           /\ \A j \in 1 .. Len(s) : ReplaceAt(s, i, e)[j] = IF j = i THEN e ELSE s[j]
BY DEF ReplaceAt

\* insert(): a document stays one, whatever the position.
LEMMA InsertCharType ==
    ASSUME NEW doc \in Doc, NEW line \in Nat, NEW index \in Int,
           NEW input \in Char \cup {Enter}
    PROVE  InsertChar(doc, line, index, input) \in Doc
<1>1. CASE ~ HasLine(doc, line) \/ index \notin 0 .. Len(doc[line + 1])
  BY <1>1 DEF InsertChar
<1>2. CASE HasLine(doc, line) /\ index \in 0 .. Len(doc[line + 1])
  <2>1. doc[line + 1] \in Line /\ line + 1 \in 1 .. Len(doc)
    BY <1>2 DEF HasLine, Doc
  <2>2. CASE input = Enter
    <3> DEFINE whole == doc[line + 1]
               rows  == << SubSeq(whole, 1, index),
                           SubSeq(whole, index + 1, Len(whole)) >>
    <3>1. SubSeq(whole, 1, index) \in Line
      BY <1>2, <2>1, PrefixSuffix DEF Line
    <3>2. SubSeq(whole, index + 1, Len(whole)) \in Line
      BY <1>2, <2>1, PrefixSuffix DEF Line
    <3>3. rows \in Doc
      BY <3>1, <3>2 DEF Doc
    <3>4. SubSeq(doc, 1, line) \in Doc /\ SubSeq(doc, line + 2, Len(doc)) \in Doc
      BY <1>2, PrefixSuffix DEF Doc, HasLine
    <3>5. BreakLine(doc, line, index)
            = SubSeq(doc, 1, line) \o rows \o SubSeq(doc, line + 2, Len(doc))
      BY DEF BreakLine
    <3>6. BreakLine(doc, line, index) \in Doc
      <4> HIDE DEF rows
      <4> QED
      BY <3>3, <3>4, <3>5 DEF Doc
    <3> QED
      BY <1>2, <2>2, <3>6 DEF InsertChar
  <2>3. CASE input # Enter
    <3>1. InsertAt(doc[line + 1], index + 1, input) \in Line
      <4>1. input \in Char
        BY <2>3
      <4>2. SubSeq(doc[line + 1], 1, index) \in Line
        BY <1>2, <2>1, PrefixSuffix DEF Line
      <4>3. SubSeq(doc[line + 1], index + 1, Len(doc[line + 1])) \in Line
        BY <1>2, <2>1, PrefixSuffix DEF Line
      <4> QED
        BY <4>1, <4>2, <4>3 DEF InsertAt, Line
    <3> QED
      BY <1>2, <2>1, <2>3, <3>1 DEF InsertChar, ReplaceAt, Doc
  <2> QED
    BY <2>2, <2>3
<1> QED
  BY <1>1, <1>2

\* remove(), when it returns: a document stays one, whatever the position.
LEMMA RemoveCharType ==
    ASSUME NEW doc \in Doc, NEW line \in Nat, NEW index \in Int,
           NEW result \in RemoveChar(doc, line, index),
           index >= Join
    PROVE  result \in Doc
<1>1. CASE index = Join
  <2>1. result = JoinLine(doc, line)
    BY <1>1 DEF RemoveChar
  <2>2. CASE line = 0 \/ ~ HasLine(doc, line)
    BY <2>1, <2>2 DEF JoinLine
  <2>3. CASE line # 0 /\ HasLine(doc, line)
    <3> DEFINE joined == ReplaceAt(doc, line, doc[line] \o doc[line + 1])
    <3>1. doc[line] \in Line /\ doc[line + 1] \in Line /\ line \in 1 .. Len(doc)
      BY <2>3 DEF HasLine, Doc
    <3>2. doc[line] \o doc[line + 1] \in Line
      BY <3>1 DEF Line
    <3>3. joined \in Doc /\ Len(joined) = Len(doc)
      BY <3>1, <3>2 DEF ReplaceAt, Doc
    <3>4. RemoveAt(joined, line + 1) \in Doc
      <4> HIDE DEF joined
      <4>1. SubSeq(joined, 1, line) \in Doc /\ SubSeq(joined, line + 2, Len(joined)) \in Doc
        BY <2>3, <3>3, PrefixSuffix DEF Doc, HasLine
      <4> QED
        BY <4>1 DEF RemoveAt, Doc
    <3> QED
      BY <2>1, <2>3, <3>4 DEF JoinLine
  <2> QED
    BY <2>2, <2>3
<1>2. CASE index # Join /\ ErasesEnd(doc, line, index)
  <2>1. doc[line + 1] \in Line /\ line + 1 \in 1 .. Len(doc)
    BY <1>2 DEF ErasesEnd, HasLine, Doc
  <2>2. index \in Nat /\ result = ReplaceAt(doc, line + 1, Front(doc[line + 1]))
        /\ index >= 1
    BY <1>2, <2>1 DEF RemoveChar, ErasesEnd, Line
  <2>3. Front(doc[line + 1]) \in Line
    BY <1>2, <2>1, <2>2 DEF Front, Line, ErasesEnd
  <2> QED
    BY <2>1, <2>2, <2>3 DEF ReplaceAt, Doc
<1>3. CASE index # Join /\ ~ ErasesEnd(doc, line, index)
  <2>1. CASE HasLine(doc, line) /\ index < Len(doc[line + 1])
    <3>1. doc[line + 1] \in Line /\ line + 1 \in 1 .. Len(doc) /\ index \in Nat
      BY <1>3, <2>1 DEF HasLine, Doc, Join
    <3>2. result = ReplaceAt(doc, line + 1, RemoveAt(doc[line + 1], index + 1))
      BY <1>3, <2>1 DEF RemoveChar
    <3>3. RemoveAt(doc[line + 1], index + 1) \in Line
      BY <2>1, <3>1 DEF RemoveAt, Line
    <3> QED
      BY <3>1, <3>2, <3>3 DEF ReplaceAt, Doc
  <2>2. CASE ~ (HasLine(doc, line) /\ index < Len(doc[line + 1]))
    <3>1. ~ HasLine(doc, line) \/ index > Len(doc[line + 1])
      <4> SUFFICES ASSUME HasLine(doc, line) PROVE index > Len(doc[line + 1])
        OBVIOUS
      <4>1. Len(doc[line + 1]) \in Nat
        BY DEF HasLine, Doc, Line
      <4> QED
        BY <1>3, <2>2, <4>1 DEF ErasesEnd
    <3> QED
      BY <1>3, <3>1 DEF RemoveChar
  <2> QED
    BY <2>1, <2>2
<1> QED
  BY <1>1, <1>2, <1>3
-----------------------------------------------------------------------------
(***************************************************************************)
(* FlattenSeq and Terminated are folds, and so follow the structure of their *)
(* argument: an element appended, two documents put behind each other.     *)
(***************************************************************************)
ConcatStep(S) == [row \in Seq(S) |-> [flat \in Seq(S) |-> flat \o row]]

LEMMA ConcatStepType ==
    ASSUME NEW S
    PROVE  /\ ConcatStep(S) \in [Seq(S) -> [Seq(S) -> Seq(S)]]
           /\ \A row, flat \in Seq(S) : ConcatStep(S)[row][flat] = flat \o row
           /\ << >> \in Seq(S)
BY DEF ConcatStep

LEMMA FlattenIsFold ==
    ASSUME NEW S, NEW seqs \in Seq(Seq(S))
    PROVE  FlattenSeq(seqs) = Fold(<< >>, ConcatStep(S), seqs)
<1> DEFINE V == Seq(S)
           step == ConcatStep(S)
           n == Len(seqs)
           Equation(f) == f = [i \in 1 .. n |-> IF i = 1 THEN seqs[i] ELSE f[i - 1] \o seqs[i]]
           flatten == CHOOSE f : Equation(f)
<1>0. /\ step \in [V -> [V -> V]]
      /\ \A row, flat \in V : step[row][flat] = flat \o row
      /\ << >> \in V
  BY ConcatStepType
<1>00. n \in Nat /\ n = Len(seqs) /\ seqs \in Seq(V) /\ \A i \in 1 .. n : seqs[i] \in V
  OBVIOUS
<1> HIDE DEF step, n
<1>1. CASE n = 0
  <2>1. seqs = << >>
    BY <1>1, <1>00
  <2>2. Fold(<< >>, step, << >>) = << >>
    BY <1>0, FoldEmpty
  <2>3. FlattenSeq(seqs) = seqs
    BY <1>1, <1>00 DEF FlattenSeq
  <2> QED BY <2>1, <2>2, <2>3 DEF step
<1>2. CASE n # 0
  <2>1. FlattenSeq(seqs) = flatten[n]
    BY <1>2 DEF FlattenSeq, n
  <2>2. PICK g \in [0 .. n -> V] : Folds(g, << >>, step, seqs)
    BY <1>0, <1>00, FoldsExist
  <2>3. \A i \in 1 .. n : g[i] = g[i - 1] \o seqs[i]
    <3> TAKE i \in 1 .. n
    <3>1. g[i] = step[seqs[i]][g[i - 1]]
      BY <1>00, <2>2 DEF Folds
    <3>2. i - 1 \in 0 .. n
      BY <1>00
    <3> HIDE DEF V
    <3>3. g[i - 1] \in V /\ seqs[i] \in V
      BY <1>00, <2>2, <3>2
    <3> QED BY <1>0, <3>1, <3>3
  <2>4. g[0] = << >> /\ g[1] = seqs[1]
    <3>1. g[0] = << >>
      BY <2>2 DEF Folds
    <3>2. 1 \in 1 .. n /\ seqs[1] \in V
      BY <1>00, <1>2
    <3>3. g[1] = g[1 - 1] \o seqs[1]
      BY <2>3, <3>2
    <3>4. g[1] = g[0] \o seqs[1]
      BY <3>3
    <3> QED BY <3>1, <3>2, <3>4
  <2> DEFINE h == [i \in 1 .. n |-> g[i]]
  <2>5. Equation(h)
    <3>1. \A i \in 1 .. n : h[i] = IF i = 1 THEN seqs[i] ELSE h[i - 1] \o seqs[i]
      <4> TAKE i \in 1 .. n
      <4>1. CASE i = 1
        BY <2>4, <4>1
      <4>2. CASE i # 1
        <5>1. h[i] = g[i] /\ h[i - 1] = g[i - 1]
          BY <1>00, <4>2
        <5> QED BY <2>3, <4>2, <5>1
      <4> QED BY <4>1, <4>2
    <3> QED BY <3>1
  <2>6. Equation(flatten)
    <3> HIDE DEF h
    <3> QED BY <2>5
  <2> HIDE DEF flatten
  <2>7. \A i \in 1 .. n : flatten[i] = IF i = 1 THEN seqs[i] ELSE flatten[i - 1] \o seqs[i]
    BY <2>6, Zenon
  <2> DEFINE P == { i \in Nat : i + 1 <= n => flatten[i + 1] = g[i + 1] }
  <2>8. 0 \in P
    <3>1. flatten[1] = seqs[1]
      BY <1>00, <1>2, <2>7
    <3> QED BY <2>4, <3>1
  <2>9. \A i \in Nat : i \in P => i + 1 \in P
    <3> SUFFICES ASSUME NEW i \in Nat, i \in P, i + 1 + 1 <= n
                 PROVE  flatten[i + 1 + 1] = g[i + 1 + 1]
      OBVIOUS
    <3> DEFINE k == i + 1 + 1
    <3>1. k \in 1 .. n /\ k # 1 /\ k - 1 = i + 1 /\ flatten[k - 1] = g[k - 1]
      BY <1>00
    <3> HIDE DEF k
    <3>2. flatten[k] = flatten[k - 1] \o seqs[k] /\ g[k] = g[k - 1] \o seqs[k]
      BY <2>3, <2>7, <3>1
    <3> QED BY <3>1, <3>2 DEF k
  <2> HIDE DEF P
  <2>10. n - 1 \in P
    <3>1. \A i \in Nat : i \in P
      BY <2>8, <2>9, Induct
    <3> QED BY <1>00, <1>2, <3>1
  <2>11. flatten[n] = g[n]
    BY <1>00, <1>2, <2>10 DEF P
  <2>12. Fold(<< >>, step, seqs) = g[n]
    <3>1. n = Len(seqs)
      BY <1>00
    <3> HIDE DEF V
    <3>2. << >> \in V
      BY <1>0
    <3>3. step \in [V -> [V -> V]]
      BY <1>0
    <3>4. seqs \in Seq(V)
      BY <1>00
    <3>5. Folds(g, << >>, step, seqs)
      BY <2>2
    <3> QED BY ONLY <3>1, <3>2, <3>3, <3>4, <3>5, FoldOf, SMTT(30)
  <2> QED BY <2>1, <2>11, <2>12 DEF step
<1> QED BY <1>1, <1>2

LEMMA FlattenEmpty == FlattenSeq(<< >>) = << >>
BY DEF FlattenSeq

LEMMA FlattenAppend ==
    ASSUME NEW S, NEW seqs \in Seq(Seq(S)), NEW row \in Seq(S)
    PROVE  /\ FlattenSeq(seqs) \in Seq(S)
           /\ FlattenSeq(Append(seqs, row)) = FlattenSeq(seqs) \o row
<1>1. /\ ConcatStep(S) \in [Seq(S) -> [Seq(S) -> Seq(S)]]
      /\ \A r, flat \in Seq(S) : ConcatStep(S)[r][flat] = flat \o r
      /\ << >> \in Seq(S)
  BY ConcatStepType
<1>2. /\ Fold(<< >>, ConcatStep(S), seqs) \in Seq(S)
      /\ Fold(<< >>, ConcatStep(S), Append(seqs, row))
           = ConcatStep(S)[row][Fold(<< >>, ConcatStep(S), seqs)]
  <2> DEFINE V == Seq(S)
             step == ConcatStep(S)
  <2>1. /\ step \in [V -> [V -> V]] /\ << >> \in V /\ seqs \in Seq(V) /\ row \in V
    BY <1>1
  <2> HIDE DEF V, step
  <2>2. /\ Fold(<< >>, step, seqs) \in V
        /\ Fold(<< >>, step, Append(seqs, row)) = step[row][Fold(<< >>, step, seqs)]
    BY <2>1, FoldAppend
  <2> QED BY <2>2 DEF V, step
<1>3. Append(seqs, row) \in Seq(Seq(S))
  OBVIOUS
<1>4. FlattenSeq(seqs) = Fold(<< >>, ConcatStep(S), seqs)
      /\ FlattenSeq(Append(seqs, row)) = Fold(<< >>, ConcatStep(S), Append(seqs, row))
  BY <1>3, FlattenIsFold
<1> QED BY <1>1, <1>2, <1>4

LEMMA TerminatedEmpty == ASSUME NEW end PROVE Terminated(<< >>, end) = << >>
<1> DEFINE rows == [i \in DOMAIN << >> |-> Append(<< >>[i], end)]
<1>1. rows = << >>
  OBVIOUS
<1> QED BY <1>1, FlattenEmpty DEF Terminated

LEMMA TerminatedAppend ==
    ASSUME NEW S, NEW end, NEW doc \in Seq(Seq(S)), NEW row \in Seq(S)
    PROVE  /\ Terminated(doc, end) \in Seq(S \cup {end})
           /\ Terminated(Append(doc, row), end) = Terminated(doc, end) \o Append(row, end)
<1> DEFINE D(d) == [i \in DOMAIN d |-> Append(d[i], end)]
           last == Append(row, end)
           longer == Append(doc, row)
           T == S \cup {end}
<1>1. \A r \in Seq(S) : Append(r, end) \in Seq(T)
  OBVIOUS
<1>2. last \in Seq(T) /\ longer \in Seq(Seq(S)) /\ Len(longer) = Len(doc) + 1 /\ longer[Len(doc) + 1] = row
      /\ Len(doc) \in Nat /\ DOMAIN doc = 1 .. Len(doc) /\ DOMAIN longer = 1 .. Len(doc) + 1
      /\ \A i \in 1 .. Len(doc) : longer[i] = doc[i] /\ doc[i] \in Seq(S)
  BY <1>1
<1> HIDE DEF longer
<1>3. D(doc) \in Seq(Seq(T)) /\ Len(D(doc)) = Len(doc)
  BY <1>1, <1>2
<1>4. D(longer) \in Seq(Seq(T)) /\ Len(D(longer)) = Len(doc) + 1
  BY <1>1, <1>2
<1>5. D(longer) = Append(D(doc), last)
  <2> DEFINE a == D(longer)
             b == Append(D(doc), last)
  <2>1. b \in Seq(Seq(T)) /\ Len(b) = Len(doc) + 1
    BY <1>2, <1>3
  <2>2. \A i \in 1 .. Len(doc) : b[i] = Append(doc[i], end)
    BY <1>2, <1>3
  <2>3. b[Len(doc) + 1] = last
    BY <1>2, <1>3
  <2>4. \A i \in 1 .. Len(doc) + 1 : a[i] = Append(longer[i], end)
    BY <1>2
  <2> HIDE DEF a, b
  <2>5. a \in Seq(Seq(T)) /\ Len(a) = Len(b)
    BY <1>4, <2>1 DEF a
  <2>6. \A i \in 1 .. Len(a) : a[i] = b[i]
    <3> TAKE i \in 1 .. Len(a)
    <3>1. i \in 1 .. Len(doc) + 1 /\ (i \in 1 .. Len(doc) \/ i = Len(doc) + 1)
      BY <1>2, <2>1, <2>5
    <3>2. CASE i \in 1 .. Len(doc)
      BY <1>2, <2>2, <2>4, <3>1, <3>2
    <3>3. CASE i = Len(doc) + 1
      <4>1. a[i] = Append(longer[i], end) /\ b[i] = last
        BY <2>3, <2>4, <3>1, <3>3
      <4> QED BY <1>2, <3>3, <4>1
    <3> QED BY <3>1, <3>2, <3>3
  <2>7. a = b
    BY <2>1, <2>5, <2>6, SeqEqual
  <2> QED BY <2>7 DEF a, b
<1> HIDE DEF last
<1>6. FlattenSeq(D(doc)) \in Seq(T) /\ FlattenSeq(Append(D(doc), last)) = FlattenSeq(D(doc)) \o last
  BY <1>2, <1>3, FlattenAppend
<1> QED BY <1>5, <1>6 DEF Terminated, longer, last

LEMMA TerminatedConcat ==
    ASSUME NEW S, NEW end, NEW a \in Seq(Seq(S)), NEW b \in Seq(Seq(S))
    PROVE  Terminated(a \o b, end) = Terminated(a, end) \o Terminated(b, end)
<1> DEFINE R == Seq(S)
           C == Seq(S \cup {end})
           P == { d \in Seq(R) : Terminated(a \o d, end) = Terminated(a, end) \o Terminated(d, end) }
<1>1. << >> \in P
  <2>1. a \o << >> = a
    OBVIOUS
  <2>2. Terminated(a, end) \in C
    BY TerminatedAppend, EmptySeq
  <2>3. Terminated(a, end) \o << >> = Terminated(a, end)
    BY <2>2
  <2>4. Terminated(<< >>, end) = << >>
    BY TerminatedEmpty
  <2>5. << >> \in Seq(R)
    OBVIOUS
  <2> QED BY <2>1, <2>3, <2>4, <2>5
<1>2. \A d \in Seq(R) : \A row \in R : d \in P => Append(d, row) \in P
  <2> SUFFICES ASSUME NEW d \in Seq(R), NEW row \in R, d \in P PROVE Append(d, row) \in P
    OBVIOUS
  <2>0. Terminated(a \o d, end) = Terminated(a, end) \o Terminated(d, end)
    OBVIOUS
  <2> HIDE DEF P
  <2>1. a \o Append(d, row) = Append(a \o d, row) /\ a \o d \in Seq(R) /\ Append(d, row) \in Seq(R)
    BY SMTT(30)
  <2>2. Append(row, end) \in C
    OBVIOUS
  <2>3. /\ Terminated(a, end) \in C /\ Terminated(d, end) \in C
        /\ Terminated(Append(d, row), end) = Terminated(d, end) \o Append(row, end)
    BY TerminatedAppend
  <2>4. Terminated(Append(a \o d, row), end) = Terminated(a \o d, end) \o Append(row, end)
    <3> DEFINE both == a \o d
    <3>1. both \in Seq(Seq(S)) /\ row \in Seq(S)
      BY <2>1
    <3> HIDE DEF both
    <3>2. Terminated(Append(both, row), end) = Terminated(both, end) \o Append(row, end)
      BY <3>1, TerminatedAppend
    <3> QED BY <3>2 DEF both
  <2>5. (Terminated(a, end) \o Terminated(d, end)) \o Append(row, end)
          = Terminated(a, end) \o (Terminated(d, end) \o Append(row, end))
    <3> HIDE DEF C
    <3> DEFINE x == Terminated(a, end)
               y == Terminated(d, end)
               z == Append(row, end)
    <3>1. x \in C /\ y \in C /\ z \in C
      BY <2>2, <2>3
    <3> HIDE DEF x, y, z
    <3>2. (x \o y) \o z = x \o (y \o z)
      BY <3>1, SMTT(30) DEF C
    <3> QED BY <3>2 DEF x, y, z
  <2>6. Terminated(a \o Append(d, row), end) = Terminated(a, end) \o Terminated(Append(d, row), end)
    BY <2>0, <2>1, <2>3, <2>4, <2>5
  <2> QED BY <2>1, <2>6 DEF P
<1> HIDE DEF P
<1>3. b \in P
  BY <1>1, <1>2, SeqInduct
<1> QED BY <1>3 DEF P

LEMMA TerminatedOne ==
    ASSUME NEW S, NEW end, NEW row \in Seq(S)
    PROVE  Terminated(<< row >>, end) = Append(row, end)
<1>1. << >> \in Seq(Seq(S)) /\ Append(<< >>, row) = << row >>
  OBVIOUS
<1>2. Terminated(Append(<< >>, row), end) = Terminated(<< >>, end) \o Append(row, end)
  <2> DEFINE none == << >>
  <2>1. none \in Seq(Seq(S))
    BY <1>1
  <2> HIDE DEF none
  <2>2. Terminated(Append(none, row), end) = Terminated(none, end) \o Append(row, end)
    BY <2>1, TerminatedAppend
  <2> QED BY <2>2 DEF none
<1>3. << >> \o Append(row, end) = Append(row, end)
  OBVIOUS
<1> QED BY <1>1, <1>2, <1>3, TerminatedEmpty

LEMMA TerminatedEnds ==
    ASSUME NEW S, NEW end, NEW doc \in Seq(Seq(S)), doc # << >>
    PROVE  /\ Terminated(doc, end) # << >>
           /\ Last(Terminated(doc, end)) = end
<1> DEFINE front == SubSeq(doc, 1, Len(doc) - 1)
           row == doc[Len(doc)]
           t == Terminated(front, end)
<1>1. front \in Seq(Seq(S)) /\ row \in Seq(S) /\ doc = Append(front, row)
  OBVIOUS
<1> HIDE DEF front, row
<1>2. t \in Seq(S \cup {end}) /\ Terminated(doc, end) = t \o Append(row, end)
  BY <1>1, TerminatedAppend
<1> HIDE DEF t
<1>3. t \o Append(row, end) = Append(t \o row, end)
  BY <1>1, <1>2
<1>4. t \o row \in Seq(S \cup {end})
  BY <1>1, <1>2
<1> QED BY <1>2, <1>3, <1>4 DEF Last

-----------------------------------------------------------------------------
(***************************************************************************)
(* SplitAt is a fold as well.  It undoes Terminated, and a separator at the *)
(* end leaves an empty line behind it.                                     *)
(***************************************************************************)
\* What SplitAt yields: at least one line.
SomeRows(S) == Seq(Seq(S)) \ { << >> }

SplitStep(S, sep) ==
    [c \in S \cup {sep} |-> [rows \in SomeRows(S) |->
        IF c = sep THEN Append(rows, << >>)
        ELSE Append(Front(rows), Append(Last(rows), c))]]

LEMMA AppendBasics ==
    ASSUME NEW S, NEW s \in Seq(S), NEW e \in S
    PROVE  /\ Append(s, e) \in Seq(S) /\ Append(s, e) # << >>
           /\ Last(Append(s, e)) = e /\ Front(Append(s, e)) = s
<1> DEFINE t == Append(s, e)
<1>1. t \in Seq(S) /\ Len(t) = Len(s) + 1 /\ t[Len(s) + 1] = e /\ Len(s) \in Nat
      /\ \A i \in 1 .. Len(s) : t[i] = s[i]
  OBVIOUS
<1> HIDE DEF t
<1>2. Last(t) = e /\ t # << >>
  BY <1>1 DEF Last
<1>3. SubSeq(t, 1, Len(s)) = s
  BY <1>1
<1>4. Front(t) = s
  BY <1>1, <1>3 DEF Front
<1> QED BY <1>1, <1>2, <1>4 DEF t

LEMMA FrontLast ==
    ASSUME NEW S, NEW s \in Seq(S), s # << >>
    PROVE  Front(s) \in Seq(S) /\ Last(s) \in S /\ s = Append(Front(s), Last(s))
BY DEF Front, Last

LEMMA SplitStepType ==
    ASSUME NEW S, NEW sep
    PROVE  /\ SplitStep(S, sep) \in [S \cup {sep} -> [SomeRows(S) -> SomeRows(S)]]
           /\ << << >> >> \in SomeRows(S)
<1> DEFINE Next(c, rows) == IF c = sep THEN Append(rows, << >>)
                            ELSE Append(Front(rows), Append(Last(rows), c))
<1>1. ASSUME NEW c \in S \cup {sep}, NEW rows \in SomeRows(S) PROVE Next(c, rows) \in SomeRows(S)
  <2>1. rows \in Seq(Seq(S)) /\ rows # << >> /\ << >> \in Seq(S)
    BY DEF SomeRows
  <2>2. CASE c = sep
    BY <2>1, <2>2, AppendBasics DEF SomeRows
  <2>3. CASE c # sep
    <3>1. c \in S /\ Front(rows) \in Seq(Seq(S)) /\ Last(rows) \in Seq(S)
      BY <2>1, <2>3, FrontLast
    <3>2. Append(Last(rows), c) \in Seq(S)
      BY <3>1
    <3> DEFINE f == Front(rows)
               l == Append(Last(rows), c)
               R == Seq(S)
    <3>3. f \in Seq(R) /\ l \in R
      BY <3>1, <3>2
    <3> HIDE DEF f, l, R
    <3>4. Append(f, l) \in Seq(R) /\ Append(f, l) # << >>
      BY <3>3, AppendBasics
    <3> QED BY <2>3, <3>4 DEF f, l, R, SomeRows
  <2> QED BY <2>2, <2>3
<1>2. << << >> >> \in SomeRows(S)
  <2>1. << >> \in Seq(S)
    OBVIOUS
  <2> QED BY <2>1 DEF SomeRows
<1>3. SplitStep(S, sep) = [c \in S \cup {sep} |-> [rows \in SomeRows(S) |-> Next(c, rows)]]
  BY DEF SplitStep
<1> HIDE DEF Next
<1>4. SplitStep(S, sep) \in [S \cup {sep} -> [SomeRows(S) -> SomeRows(S)]]
  BY <1>1, <1>3
<1> QED BY <1>2, <1>4

LEMMA SplitStepIs ==
    ASSUME NEW S, NEW sep, NEW c \in S \cup {sep}, NEW rows \in SomeRows(S)
    PROVE  SplitStep(S, sep)[c][rows] = IF c = sep THEN Append(rows, << >>)
                                        ELSE Append(Front(rows), Append(Last(rows), c))
BY DEF SplitStep

LEMMA SplitIsFold ==
    ASSUME NEW S, NEW sep, NEW s \in Seq(S \cup {sep})
    PROVE  SplitAt(s, sep) = Fold(<< << >> >>, SplitStep(S, sep), s)
<1> DEFINE T == S \cup {sep}
           V == SomeRows(S)
           base == << << >> >>
           step == SplitStep(S, sep)
           n == Len(s)
           Equation(f) == f = [i \in 0 .. n |->
              IF i = 0 THEN base
              ELSE IF s[i] = sep THEN Append(f[i - 1], << >>)
              ELSE Append(Front(f[i - 1]), Append(Last(f[i - 1]), s[i]))]
           rows == CHOOSE f : Equation(f)
<1>0. base \in V /\ step \in [T -> [V -> V]]
  BY SplitStepType
<1>1. \A c \in T : \A r \in V : step[c][r] = IF c = sep THEN Append(r, << >>)
                                             ELSE Append(Front(r), Append(Last(r), c))
  BY SplitStepIs
<1>2. n \in Nat /\ n = Len(s) /\ s \in Seq(T) /\ \A i \in 1 .. n : s[i] \in T
  OBVIOUS
<1>3. SplitAt(s, sep) = rows[n]
  BY DEF SplitAt
<1> HIDE DEF T, V, base, step, n
<1>4. PICK g \in [0 .. Len(s) -> V] : Folds(g, base, step, s)
  BY <1>0, <1>2, FoldsExist
<1>5. Equation(g)
  <2>1. \A i \in 0 .. n : g[i] = IF i = 0 THEN base
              ELSE IF s[i] = sep THEN Append(g[i - 1], << >>)
              ELSE Append(Front(g[i - 1]), Append(Last(g[i - 1]), s[i]))
    <3> TAKE i \in 0 .. n
    <3>1. CASE i = 0
      BY <1>4, <3>1 DEF Folds
    <3>2. CASE i # 0
      <4>1. i \in 1 .. Len(s) /\ i - 1 \in 0 .. Len(s)
        BY <1>2, <3>2
      <4>2. g[i] = step[s[i]][g[i - 1]]
        BY <1>4, <4>1 DEF Folds
      <4>3. s[i] \in T /\ g[i - 1] \in V
        BY <1>2, <1>4, <4>1
      <4> QED BY <1>1, <3>2, <4>2, <4>3
    <3> QED BY <3>1, <3>2
  <2>2. g = [i \in 0 .. n |-> g[i]]
    BY <1>2, <1>4
  <2> QED BY <2>1, <2>2
<1>6. Equation(rows)
  BY <1>5
<1> HIDE DEF rows
<1>7. \A i \in 0 .. n : rows[i] = IF i = 0 THEN base
              ELSE IF s[i] = sep THEN Append(rows[i - 1], << >>)
              ELSE Append(Front(rows[i - 1]), Append(Last(rows[i - 1]), s[i]))
  BY <1>6, Zenon
<1>8. rows[0] = base
  BY <1>2, <1>7
<1>9. \A i \in 1 .. Len(s) : rows[i - 1] \in V => rows[i] = step[s[i]][rows[i - 1]]
  <2> TAKE i \in 1 .. Len(s)
  <2>1. i \in 0 .. n /\ i # 0 /\ s[i] \in T
    BY <1>2
  <2>2. rows[i] = IF s[i] = sep THEN Append(rows[i - 1], << >>)
                  ELSE Append(Front(rows[i - 1]), Append(Last(rows[i - 1]), s[i]))
    BY <1>7, <2>1
  <2> QED BY <1>1, <2>1, <2>2
<1>10. s \in Seq(T)
  BY <1>2
<1>101. base \in V
  BY <1>0
<1>102. step \in [T -> [V -> V]]
  BY <1>0
<1>11. \A i \in 0 .. Len(s) : rows[i] \in V /\ rows[i] = Fold(base, step, SubSeq(s, 1, i))
  BY ONLY <1>8, <1>9, <1>10, <1>101, <1>102, FoldFrom
<1>12. SubSeq(s, 1, n) = s
  BY <1>2
<1>13. rows[n] = Fold(base, step, s)
  <2>1. n \in 0 .. Len(s)
    BY <1>2
  <2> QED BY <1>11, <1>12, <2>1
<1> QED BY <1>3, <1>13 DEF base, step

LEMMA SplitEmpty == ASSUME NEW sep PROVE SplitAt(<< >>, sep) = << << >> >>
<1> DEFINE base == << << >> >>
           step == SplitStep({}, sep)
           none == << >>
<1>1. base \in SomeRows({}) /\ step \in [{} \cup {sep} -> [SomeRows({}) -> SomeRows({})]]
  BY SplitStepType
<1>2. none \in Seq({} \cup {sep})
  OBVIOUS
<1> HIDE DEF base, step
<1>3. Fold(base, step, << >>) = base
  BY <1>1, FoldEmpty
<1> HIDE DEF none
<1>4. SplitAt(none, sep) = Fold(<< << >> >>, SplitStep({}, sep), none)
  BY <1>2, SplitIsFold
<1> QED BY <1>3, <1>4 DEF base, step, none

LEMMA SplitNext ==
    ASSUME NEW S, NEW sep, NEW s \in Seq(S \cup {sep}), NEW c \in S \cup {sep}
    PROVE  /\ SplitAt(s, sep) \in SomeRows(S)
           /\ SplitAt(Append(s, c), sep) = SplitStep(S, sep)[c][SplitAt(s, sep)]
<1> DEFINE T == S \cup {sep}
           V == SomeRows(S)
           base == << << >> >>
           step == SplitStep(S, sep)
           t == Append(s, c)
<1>1. base \in V
  BY SplitStepType
<1>2. step \in [T -> [V -> V]]
  BY SplitStepType
<1>4. s \in Seq(T) /\ c \in T /\ t \in Seq(T) /\ t = Append(s, c)
  OBVIOUS
<1>5. SplitAt(s, sep) = Fold(base, step, s)
  BY SplitIsFold
<1>6. SplitAt(t, sep) = Fold(base, step, t)
  <2> HIDE DEF t
  <2>1. t \in Seq(S \cup {sep})
    BY <1>4
  <2> QED BY <2>1, SplitIsFold
<1> HIDE DEF T, V, base, step, t
<1>7. Fold(base, step, s) \in V /\ Fold(base, step, Append(s, c)) = step[c][Fold(base, step, s)]
  BY <1>1, <1>2, <1>4, FoldAppend
<1>8. SplitAt(s, sep) \in V /\ SplitAt(t, sep) = step[c][SplitAt(s, sep)]
  BY <1>4, <1>5, <1>6, <1>7
<1> QED BY <1>8 DEF V, t, step

LEMMA SplitType ==
    ASSUME NEW S, NEW sep, NEW s \in Seq(S \cup {sep})
    PROVE  SplitAt(s, sep) \in SomeRows(S)
<1> DEFINE c == sep
<1>1. c \in S \cup {sep}
  OBVIOUS
<1> HIDE DEF c
<1> QED BY <1>1, SplitNext

LEMMA SplitSeparator ==
    ASSUME NEW S, NEW sep, NEW s \in Seq(S \cup {sep})
    PROVE  SplitAt(Append(s, sep), sep) = Append(SplitAt(s, sep), << >>)
<1> DEFINE c == sep
           r == SplitAt(s, sep)
<1>1. c \in S \cup {sep} /\ c = sep
  OBVIOUS
<1>2. r \in SomeRows(S)
  BY SplitType
<1> HIDE DEF c
<1>3. SplitAt(Append(s, c), sep) = SplitStep(S, sep)[c][r]
  BY <1>1, SplitNext
<1> HIDE DEF r
<1>4. SplitStep(S, sep)[c][r] = Append(r, << >>)
  BY <1>1, <1>2 DEF SplitStep
<1> QED BY <1>1, <1>3, <1>4 DEF r

\* The last line grows by a character.
Extended(rows, c) == Append(Front(rows), Append(Last(rows), c))

LEMMA SplitOther ==
    ASSUME NEW S, NEW sep, NEW s \in Seq(S \cup {sep}), NEW c \in S, c # sep
    PROVE  SplitAt(Append(s, c), sep) = Extended(SplitAt(s, sep), c)
<1> DEFINE r == SplitAt(s, sep)
<1>1. c \in S \cup {sep}
  OBVIOUS
<1>2. r \in SomeRows(S)
  BY SplitType
<1>3. SplitAt(Append(s, c), sep) = SplitStep(S, sep)[c][r]
  BY <1>1, SplitNext
<1> HIDE DEF r
<1>4. SplitStep(S, sep)[c][r] = Extended(r, c)
  BY <1>1, <1>2 DEF SplitStep, Extended
<1> QED BY <1>3, <1>4 DEF r

LEMMA SplitRow ==
    ASSUME NEW S, NEW sep, sep \notin S, NEW s \in Seq(S \cup {sep}), NEW row \in Seq(S)
    PROVE  SplitAt(s \o row, sep) = Append(Front(SplitAt(s, sep)), Last(SplitAt(s, sep)) \o row)
<1> DEFINE sp == SplitAt(s, sep)
           f == Front(sp)
           l == Last(sp)
           P == { r \in Seq(S) : SplitAt(s \o r, sep) = Append(f, l \o r) }
<1>1. f \in Seq(Seq(S)) /\ l \in Seq(S) /\ sp = Append(f, l)
  <2>1. sp \in SomeRows(S)
    BY SplitType
  <2>2. sp \in Seq(Seq(S)) /\ sp # << >>
    BY <2>1 DEF SomeRows
  <2> HIDE DEF sp
  <2> QED BY <2>2, FrontLast
<1>2. sp = SplitAt(s, sep)
  OBVIOUS
<1> HIDE DEF sp, f, l
<1>3. << >> \in P
  <2>1. s \o << >> = s /\ l \o << >> = l /\ << >> \in Seq(S)
    BY <1>1
  <2>2. SplitAt(s \o << >>, sep) = Append(f, l \o << >>)
    BY <1>1, <1>2, <2>1
  <2> QED BY <2>1, <2>2
<1>4. ASSUME NEW r \in Seq(S), NEW e \in S, r \in P PROVE Append(r, e) \in P
  <2>0. SplitAt(s \o r, sep) = Append(f, l \o r)
    BY <1>4
  <2> HIDE DEF P
  <2> DEFINE sr == s \o r
             lr == l \o r
             sq == Append(f, lr)
  <2>1. s \o Append(r, e) = Append(sr, e) /\ l \o Append(r, e) = Append(lr, e) /\ Append(r, e) \in Seq(S)
    BY <1>1, SMTT(30)
  <2>2. sr \in Seq(S \cup {sep}) /\ e \in S \cup {sep} /\ e # sep /\ lr \in Seq(S)
    BY <1>1
  <2>3. SplitAt(sr, sep) = sq
    BY <2>0
  <2> HIDE DEF sr, lr
  <2>4. Front(sq) = f /\ Last(sq) = lr
    BY <1>1, <2>2, AppendBasics
  <2> HIDE DEF sq
  <2>5. SplitAt(Append(sr, e), sep) = Append(Front(sq), Append(Last(sq), e))
    <3>1. SplitAt(Append(sr, e), sep) = Extended(SplitAt(sr, sep), e)
      BY <2>2, SplitOther
    <3> QED BY <2>3, <3>1 DEF Extended
  <2>6. SplitAt(s \o Append(r, e), sep) = Append(f, l \o Append(r, e))
    BY <2>1, <2>4, <2>5
  <2> QED BY <2>1, <2>6 DEF P
<1> HIDE DEF P
<1>5. row \in P
  BY <1>3, <1>4, SeqInduct
<1>6. SplitAt(s \o row, sep) = Append(f, l \o row)
  BY <1>5 DEF P
<1> QED BY <1>6 DEF f, l, sp

LEMMA SplitTerminated ==
    ASSUME NEW S, NEW sep, sep \notin S, NEW doc \in Seq(Seq(S))
    PROVE  SplitAt(Terminated(doc, sep), sep) = Append(doc, << >>)
<1> DEFINE R == Seq(S)
           P == { d \in Seq(R) : SplitAt(Terminated(d, sep), sep) = Append(d, << >>) }
<1>1. << >> \in P
  <2>1. SplitAt(<< >>, sep) = << << >> >> /\ Terminated(<< >>, sep) = << >>
    BY SplitEmpty, TerminatedEmpty
  <2>2. Append(<< >>, << >>) = << << >> >> /\ << >> \in Seq(R)
    OBVIOUS
  <2> QED BY <2>1, <2>2
<1>2. ASSUME NEW d \in Seq(R), NEW row \in R, d \in P PROVE Append(d, row) \in P
  <2>0. SplitAt(Terminated(d, sep), sep) = Append(d, << >>)
    BY <1>2
  <2> HIDE DEF P
  <2> DEFINE t == Terminated(d, sep)
             tr == t \o row
             ad == Append(d, << >>)
             ar == Append(d, row)
  <2>1. t \in Seq(S \cup {sep}) /\ Terminated(Append(d, row), sep) = t \o Append(row, sep)
    BY TerminatedAppend
  <2>2. t = Terminated(d, sep)
    OBVIOUS
  <2> HIDE DEF t
  <2>3. t \o Append(row, sep) = Append(tr, sep) /\ tr \in Seq(S \cup {sep}) /\ sep \in S \cup {sep}
    BY <2>1
  <2>4. Front(ad) = d /\ Last(ad) = << >>
    <3>1. << >> \in R
      OBVIOUS
    <3> DEFINE none == << >>
    <3>2. none \in R /\ none = << >>
      BY <3>1
    <3> HIDE DEF none
    <3>3. Front(Append(d, none)) = d /\ Last(Append(d, none)) = none
      BY <3>2, AppendBasics
    <3> QED BY <3>2, <3>3
  <2>5. SplitAt(t, sep) = ad
    BY <2>0, <2>2
  <2> HIDE DEF ad
  <2>6. SplitAt(t \o row, sep) = Append(Front(SplitAt(t, sep)), Last(SplitAt(t, sep)) \o row)
    BY <2>1, SplitRow
  <2>7. << >> \o row = row
    OBVIOUS
  <2>8. SplitAt(tr, sep) = ar
    BY <2>4, <2>5, <2>6, <2>7
  <2> HIDE DEF tr
  <2>9. SplitAt(Append(tr, sep), sep) = Append(SplitAt(tr, sep), << >>)
    BY <2>3, SplitSeparator
  <2>10. ar \in Seq(R)
    OBVIOUS
  <2>11. SplitAt(Terminated(ar, sep), sep) = Append(ar, << >>)
    BY <2>1, <2>3, <2>8, <2>9
  <2> QED BY <2>10, <2>11 DEF P
<1> HIDE DEF P
<1>3. doc \in P
  BY <1>1, <1>2, SeqInduct
<1> QED BY <1>3 DEF P
-----------------------------------------------------------------------------
(***************************************************************************)
(* What is left of a sequence without an element.                          *)
(***************************************************************************)
\* One step of Without.
WithoutStep(S, x) ==
    [c \in S |-> [kept \in Seq(S \ {x}) |-> IF c = x THEN kept ELSE Append(kept, c)]]

LEMMA WithoutStepType ==
    ASSUME NEW S, NEW x
    PROVE  /\ WithoutStep(S, x) \in [S -> [Seq(S \ {x}) -> Seq(S \ {x})]]
           /\ << >> \in Seq(S \ {x})
<1>1. ASSUME NEW c \in S, NEW kept \in Seq(S \ {x})
      PROVE  (IF c = x THEN kept ELSE Append(kept, c)) \in Seq(S \ {x})
  OBVIOUS
<1> QED BY <1>1 DEF WithoutStep

LEMMA WithoutIsFold ==
    ASSUME NEW S, NEW x, NEW s \in Seq(S)
    PROVE  Without(s, x) = Fold(<< >>, WithoutStep(S, x), s)
<1> DEFINE V == Seq(S \ {x})
           base == << >>
           step == WithoutStep(S, x)
           n == Len(s)
           Equation(f) == f = [i \in 0 .. n |->
              IF i = 0 THEN << >>
              ELSE IF s[i] = x THEN f[i - 1] ELSE Append(f[i - 1], s[i])]
           kept == CHOOSE f : Equation(f)
<1>1. base \in V
  BY WithoutStepType
<1>2. step \in [S -> [V -> V]]
  BY WithoutStepType
<1>3. \A c \in S : \A k \in V : step[c][k] = IF c = x THEN k ELSE Append(k, c)
  BY DEF WithoutStep
<1>4. n \in Nat /\ n = Len(s) /\ \A i \in 1 .. n : s[i] \in S
  OBVIOUS
<1>5. Without(s, x) = kept[n] /\ base = << >>
  BY DEF Without
<1> HIDE DEF V, step, n, base
<1>6. PICK g \in [0 .. Len(s) -> V] : Folds(g, base, step, s)
  BY <1>1, <1>2, FoldsExist
<1>7. Equation(g)
  <2>1. \A i \in 0 .. n : g[i] = IF i = 0 THEN base
              ELSE IF s[i] = x THEN g[i - 1] ELSE Append(g[i - 1], s[i])
    <3> TAKE i \in 0 .. n
    <3>1. CASE i = 0
      BY <1>6, <3>1 DEF Folds
    <3>2. CASE i # 0
      <4>1. i \in 1 .. Len(s) /\ i - 1 \in 0 .. Len(s)
        BY <1>4, <3>2
      <4>2. g[i] = step[s[i]][g[i - 1]]
        BY <1>6, <4>1 DEF Folds
      <4>3. s[i] \in S /\ g[i - 1] \in V
        BY <1>4, <1>6, <4>1
      <4> QED BY <1>3, <3>2, <4>2, <4>3
    <3> QED BY <3>1, <3>2
  <2>2. g = [i \in 0 .. n |-> g[i]]
    BY <1>4, <1>6
  <2> QED BY <1>5, <2>1, <2>2
<1>8. Equation(kept)
  BY <1>7
<1> HIDE DEF kept
<1>9. \A i \in 0 .. n : kept[i] = IF i = 0 THEN << >>
              ELSE IF s[i] = x THEN kept[i - 1] ELSE Append(kept[i - 1], s[i])
  BY <1>8, Zenon
<1>10. kept[0] = base
  BY <1>4, <1>5, <1>9
<1>11. \A i \in 1 .. Len(s) : kept[i - 1] \in V => kept[i] = step[s[i]][kept[i - 1]]
  <2> TAKE i \in 1 .. Len(s)
  <2>1. i \in 0 .. n /\ i # 0 /\ s[i] \in S
    BY <1>4
  <2>2. kept[i] = IF s[i] = x THEN kept[i - 1] ELSE Append(kept[i - 1], s[i])
    BY <1>9, <2>1
  <2> QED BY <1>3, <2>1, <2>2
<1>12. s \in Seq(S)
  OBVIOUS
<1>13. \A i \in 0 .. Len(s) : kept[i] \in V /\ kept[i] = Fold(base, step, SubSeq(s, 1, i))
  BY ONLY <1>1, <1>2, <1>10, <1>11, <1>12, FoldFrom
<1>14. SubSeq(s, 1, n) = s /\ n \in 0 .. Len(s)
  BY <1>4
<1>15. kept[n] = Fold(base, step, s)
  BY <1>13, <1>14
<1> QED BY <1>5, <1>15 DEF step

LEMMA WithoutType ==
    ASSUME NEW S, NEW x, NEW s \in Seq(S)
    PROVE  Without(s, x) \in Seq(S \ {x})
<1> DEFINE V == Seq(S \ {x})
           base == << >>
           step == WithoutStep(S, x)
<1>1. base \in V
  BY WithoutStepType
<1>2. step \in [S -> [V -> V]]
  BY WithoutStepType
<1>3. Without(s, x) = Fold(base, step, s)
  BY WithoutIsFold
<1> HIDE DEF V, base, step
<1>4. PICK g \in [0 .. Len(s) -> V] : Folds(g, base, step, s)
  BY <1>1, <1>2, FoldsExist
<1>5. Fold(base, step, s) \in V
  BY <1>1, <1>2, <1>4, FoldOf
<1> QED BY <1>3, <1>5 DEF V

\* Nothing is lost of a sequence in which the element does not occur.
LEMMA WithoutNone ==
    ASSUME NEW S, NEW x, x \notin S, NEW s \in Seq(S)
    PROVE  Without(s, x) = s
<1> DEFINE V == Seq(S \ {x})
           base == << >>
           step == WithoutStep(S, x)
           P == { r \in Seq(S) : Fold(base, step, r) = r }
<1>0. V = Seq(S)
  <2>1. S \ {x} = S
    OBVIOUS
  <2> QED BY <2>1
<1>1. base \in V /\ base = << >>
  BY WithoutStepType
<1>2. step \in [S -> [V -> V]]
  BY WithoutStepType
<1>3. \A c \in S : \A k \in V : step[c][k] = Append(k, c)
  BY DEF WithoutStep
<1>4. Without(s, x) = Fold(base, step, s)
  BY WithoutIsFold
<1> HIDE DEF V, base, step
<1>5. base \in P
  <2>1. Fold(base, step, << >>) = base
    BY <1>1, <1>2, FoldEmpty
  <2> QED BY <1>0, <1>1, <2>1
<1>6. ASSUME NEW r \in Seq(S), NEW e \in S, r \in P PROVE Append(r, e) \in P
  <2>1. Fold(base, step, Append(r, e)) = step[e][Fold(base, step, r)]
    BY <1>1, <1>2, FoldAppend
  <2>2. Fold(base, step, r) = r /\ r \in V
    BY <1>0, <1>6
  <2> QED BY <1>3, <2>1, <2>2
<1> HIDE DEF P
<1>7. s \in P
  BY <1>1, <1>5, <1>6, SeqInduct
<1> QED BY <1>4, <1>7 DEF P
=============================================================================
