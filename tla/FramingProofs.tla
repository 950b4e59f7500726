--------------------------- MODULE FramingProofs ---------------------------
(***************************************************************************)
(* What get_message() makes of the byte stream, for every length of header *)
(* and footer, every MTU, every set of payloads without a footer of their  *)
(* own, and however the bytes are divided by send(), by the network and by *)
(* the peeks.                                                              *)
(*                                                                         *)
(* The inductive invariant has three parts.  Sent speaks of the sender: the*)
(* footers in the stream end where messages end, and nowhere else.  Waits  *)
(* speaks of the receiver: what it holds begins at such a place, and the   *)
(* bytes it does not look at again hold no footer but one that a peek at a *)
(* lone header has hidden.  Types is needed for both.  Before them come    *)
(* two facts about footer_exists(): that it finds the first footer of any  *)
(* buffer, and which bytes the window of get_message() lets it see.        *)
(***************************************************************************)
EXTENDS Framing, Induction, SequenceTheorems, FiniteSetTheorems

\* s holds t right behind its first from elements.
At(s, from, t) == \A j \in 1 .. Len(t) : s[from + j] = t[j]

\* A footer ends with the e-th byte of s.
FooterAt(s, e) == e \in HEADER_LENGTH .. Len(s) /\ At(s, e - HEADER_LENGTH, MESSAGE_FOOTER)

LEMMA Marks ==
    ASSUME NEW byte \in Byte
    PROVE  /\ Marked(byte) \in Seq(Byte) /\ Len(Marked(byte)) = HEADER_LENGTH
           /\ Marked(byte)[1] = 0 /\ Marked(byte)[HEADER_LENGTH] = 0
           /\ \A i \in 2 .. HEADER_LENGTH - 1 : Marked(byte)[i] = byte
BY HeaderAssumption DEF Marked, Byte

LEMMA HeaderBytes ==
    /\ MESSAGE_HEADER \in Seq(Byte) /\ Len(MESSAGE_HEADER) = HEADER_LENGTH
    /\ MESSAGE_HEADER[1] = 0 /\ MESSAGE_HEADER[HEADER_LENGTH] = 0
    /\ \A i \in 2 .. HEADER_LENGTH - 1 : MESSAGE_HEADER[i] = 1
<1>1. 1 \in Byte
  BY DEF Byte
<1> QED BY <1>1, Marks DEF MESSAGE_HEADER

\* A part of a sequence.
LEMMA Part ==
    ASSUME NEW s \in Seq(Byte), NEW a \in Nat, NEW n \in Nat, a + n <= Len(s)
    PROVE  /\ SubSeq(s, a + 1, a + n) \in Seq(Byte) /\ Len(SubSeq(s, a + 1, a + n)) = n
           /\ \A j \in 1 .. n : SubSeq(s, a + 1, a + n)[j] = s[a + j]
OBVIOUS

LEMMA FooterBytes ==
    /\ MESSAGE_FOOTER \in Seq(Byte) /\ Len(MESSAGE_FOOTER) = HEADER_LENGTH
    /\ MESSAGE_FOOTER[1] = 0 /\ MESSAGE_FOOTER[HEADER_LENGTH] = 0
    /\ \A i \in 2 .. HEADER_LENGTH - 1 : MESSAGE_FOOTER[i] = 4
<1>1. 4 \in Byte
  BY DEF Byte
<1> QED BY <1>1, Marks DEF MESSAGE_FOOTER

\* The same footer in a part of a sequence and in the whole.
LEMMA FooterMoved ==
    ASSUME NEW s \in Seq(Byte), NEW b \in Seq(Byte), NEW from \in Nat,
           from + Len(b) <= Len(s), At(s, from, b), NEW d \in Int
    PROVE  FooterAt(b, d) <=> d \in HEADER_LENGTH .. Len(b) /\ FooterAt(s, from + d)
<1> DEFINE H == HEADER_LENGTH
<1>1. H \in Nat /\ H >= 3 /\ Len(s) \in Nat /\ Len(b) \in Nat /\ Len(MESSAGE_FOOTER) = H
  BY HeaderAssumption, FooterBytes
<1>2. ASSUME d \in H .. Len(b)
      PROVE  \A j \in 1 .. H : s[(from + d - H) + j] = b[(d - H) + j]
  <2> TAKE j \in 1 .. H
  <2> DEFINE i == (d - H) + j
  <2>1. i \in 1 .. Len(b) /\ from + i = (from + d - H) + j
    BY <1>1, <1>2
  <2> HIDE DEF i
  <2>2. s[from + i] = b[i]
    BY <2>1 DEF At
  <2> QED BY <2>1, <2>2 DEF i
<1>3. ASSUME d \in H .. Len(b)
      PROVE  At(b, d - H, MESSAGE_FOOTER) <=> At(s, from + d - H, MESSAGE_FOOTER)
  BY <1>1, <1>2, <1>3 DEF At
<1>4. d \in H .. Len(b) => from + d \in H .. Len(s)
  BY <1>1
<1> QED BY <1>1, <1>3, <1>4 DEF FooterAt

-----------------------------------------------------------------------------
LEMMA ChainType == Chain \in [0 .. HEADER_LENGTH -> [Byte -> 0 .. HEADER_LENGTH]]
<1>1. ASSUME NEW same \in 0 .. HEADER_LENGTH, NEW byte \in Byte
      PROVE  (IF same = HEADER_LENGTH THEN same
              ELSE IF byte = MESSAGE_FOOTER[same + 1] THEN same + 1
              ELSE IF byte = MESSAGE_FOOTER[1] THEN 1 ELSE 0) \in 0 .. HEADER_LENGTH
  BY HeaderAssumption
<1> QED BY <1>1 DEF Chain

LEMMA ChainStep ==
    ASSUME NEW same \in 0 .. HEADER_LENGTH, NEW byte \in Byte
    PROVE  /\ same = HEADER_LENGTH => Chain[same][byte] = same
           /\ same # HEADER_LENGTH /\ byte = MESSAGE_FOOTER[same + 1] => Chain[same][byte] = same + 1
           /\ same # HEADER_LENGTH /\ byte # MESSAGE_FOOTER[same + 1] =>
                 Chain[same][byte] = IF byte = 0 THEN 1 ELSE 0
BY FooterBytes DEF Chain

\* The recursion of footer_exists(), as equations.
LEMMA Scanned ==
    ASSUME NEW buf \in Seq(Byte)
    PROVE  /\ FooterScan(buf)[0] = 0
           /\ \A i \in 0 .. Len(buf) : FooterScan(buf)[i] \in 0 .. HEADER_LENGTH
           /\ \A i \in 1 .. Len(buf) : FooterScan(buf)[i] = Chain[FooterScan(buf)[i - 1]][buf[i]]
<1> DEFINE V == 0 .. HEADER_LENGTH
           base == 0
           step == [c \in Byte |-> [same \in V |-> Chain[same][c]]]
           n == Len(buf)
           Equation(f) == f = [i \in 0 .. n |-> IF i = 0 THEN 0 ELSE Chain[f[i - 1]][buf[i]]]
           scan == CHOOSE f : Equation(f)
<1>1. base \in V
  BY HeaderAssumption
<1>2. step \in [Byte -> [V -> V]]
  BY ChainType
<1>3. \A c \in Byte : \A same \in V : step[c][same] = Chain[same][c]
  OBVIOUS
<1>4. n \in Nat /\ n = Len(buf) /\ \A i \in 1 .. n : buf[i] \in Byte
  OBVIOUS
<1>5. FooterScan(buf) = scan
  BY DEF FooterScan
<1> HIDE DEF V, step, n
<1>6. PICK g \in [0 .. Len(buf) -> V] : Folds(g, base, step, buf)
  BY <1>1, <1>2, FoldsExist
<1>7. Equation(g)
  <2>1. \A i \in 0 .. n : g[i] = IF i = 0 THEN 0 ELSE Chain[g[i - 1]][buf[i]]
    <3> TAKE i \in 0 .. n
    <3>1. CASE i = 0
      BY <1>6, <3>1 DEF Folds
    <3>2. CASE i # 0
      <4>1. i \in 1 .. Len(buf) /\ i - 1 \in 0 .. Len(buf)
        BY <1>4, <3>2
      <4>2. g[i] = step[buf[i]][g[i - 1]]
        BY <1>6, <4>1 DEF Folds
      <4>3. buf[i] \in Byte /\ g[i - 1] \in V
        BY <1>4, <1>6, <4>1
      <4> QED BY <1>3, <3>2, <4>2, <4>3
    <3> QED BY <3>1, <3>2
  <2>2. g = [i \in 0 .. n |-> g[i]]
    BY <1>4, <1>6
  <2> QED BY <2>1, <2>2
<1>8. Equation(scan)
  BY <1>7
<1> HIDE DEF scan
<1>9. \A i \in 0 .. n : scan[i] = IF i = 0 THEN 0 ELSE Chain[scan[i - 1]][buf[i]]
  BY <1>8, Zenon
<1>10. scan[0] = base
  BY <1>4, <1>9
<1>11. \A i \in 1 .. Len(buf) : scan[i] = Chain[scan[i - 1]][buf[i]]
  BY <1>4, <1>9
<1>12. \A i \in 1 .. Len(buf) : scan[i - 1] \in V => scan[i] = step[buf[i]][scan[i - 1]]
  BY <1>3, <1>4, <1>11
<1>13. buf \in Seq(Byte)
  OBVIOUS
<1>14. \A i \in 0 .. Len(buf) : scan[i] \in V /\ scan[i] = Fold(base, step, SubSeq(buf, 1, i))
  BY ONLY <1>1, <1>2, <1>10, <1>12, <1>13, FoldFrom, SMTT(30)
<1> QED BY <1>5, <1>10, <1>11, <1>14 DEF V

\* The last t bytes before position i are the first of a footer.
Begun(s, i, t) == t \in 0 .. i /\ \A j \in 1 .. t : s[(i - t) + j] = MESSAGE_FOOTER[j]

\* footer_exists() knows the longest beginning of a footer that it may be in:
\* a footer has no proper end that is a beginning of it but its last byte.
Knows(s, i, same) == /\ Begun(s, i, same)
                     /\ \A t \in 0 .. HEADER_LENGTH : Begun(s, i, t) => t <= same

LEMMA BegunBefore ==
    ASSUME NEW s, NEW i \in Nat, NEW t \in Nat \ {0}
    PROVE  Begun(s, i + 1, t) <=> Begun(s, i, t - 1) /\ s[i + 1] = MESSAGE_FOOTER[t]
<1>1. ASSUME Begun(s, i + 1, t) PROVE Begun(s, i, t - 1) /\ s[i + 1] = MESSAGE_FOOTER[t]
  <2>1. t \in 0 .. i + 1 /\ \A j \in 1 .. t : s[((i + 1) - t) + j] = MESSAGE_FOOTER[j]
    BY <1>1 DEF Begun
  <2>2. ((i + 1) - t) + t = i + 1 /\ t \in 1 .. t
    OBVIOUS
  <2>3. s[i + 1] = MESSAGE_FOOTER[t]
    BY <2>1, <2>2
  <2>4. \A j \in 1 .. t - 1 : j \in 1 .. t /\ ((i + 1) - t) + j = (i - (t - 1)) + j
    OBVIOUS
  <2>5. \A j \in 1 .. t - 1 : s[(i - (t - 1)) + j] = MESSAGE_FOOTER[j]
    BY <2>1, <2>4
  <2> QED BY <2>1, <2>3, <2>5 DEF Begun
<1>2. ASSUME Begun(s, i, t - 1), s[i + 1] = MESSAGE_FOOTER[t] PROVE Begun(s, i + 1, t)
  <2>1. t - 1 \in 0 .. i /\ \A j \in 1 .. t - 1 : s[(i - (t - 1)) + j] = MESSAGE_FOOTER[j]
    BY <1>2 DEF Begun
  <2>2. ASSUME NEW j \in 1 .. t PROVE s[((i + 1) - t) + j] = MESSAGE_FOOTER[j]
    <3>1. CASE j = t
      <4>1. ((i + 1) - t) + j = i + 1
        BY <3>1
      <4> QED BY <1>2, <3>1, <4>1
    <3>2. CASE j # t
      <4>1. j \in 1 .. t - 1 /\ ((i + 1) - t) + j = (i - (t - 1)) + j
        BY <3>2
      <4>2. s[(i - (t - 1)) + j] = MESSAGE_FOOTER[j]
        BY <2>1, <4>1
      <4> QED BY <4>1, <4>2
    <3> QED BY <3>1, <3>2
  <2>3. t \in 0 .. i + 1
    BY <2>1
  <2> QED BY <2>2, <2>3 DEF Begun
<1> QED BY <1>1, <1>2

LEMMA KnowsNext ==
    ASSUME NEW s, NEW i \in Nat, NEW same \in 0 .. HEADER_LENGTH - 1, NEW byte \in Byte,
           s[i + 1] = byte, Knows(s, i, same)
    PROVE  Knows(s, i + 1, Chain[same][byte])
<1> DEFINE H == HEADER_LENGTH
           F == MESSAGE_FOOTER
<1>1. H \in Nat /\ H >= 3 /\ F[1] = 0 /\ F[H] = 0 /\ \A j \in 2 .. H - 1 : F[j] = 4
  BY HeaderAssumption, FooterBytes
<1>2. same \in 0 .. H /\ same # H /\ same + 1 \in Nat \ {0}
  BY <1>1
<1>3. Begun(s, i, same) /\ \A t \in 0 .. H : Begun(s, i, t) => t <= same
  BY DEF Knows
<1>4. CASE byte = F[same + 1]
  <2>1. Chain[same][byte] = same + 1
    BY <1>2, <1>4, ChainStep
  <2>2. (same + 1) - 1 = same
    BY <1>2
  <2>3. Begun(s, i + 1, same + 1)
    BY <1>2, <1>3, <1>4, <2>2, BegunBefore
  <2>4. ASSUME NEW t \in 0 .. H, Begun(s, i + 1, t) PROVE t <= same + 1
    <3>1. CASE t = 0
      BY <1>2, <3>1
    <3>2. CASE t # 0
      <4>1. t \in Nat \ {0} /\ t - 1 \in 0 .. H
        BY <1>1, <3>2
      <4>2. Begun(s, i, t - 1)
        BY <2>4, <4>1, BegunBefore
      <4> QED BY <1>2, <1>3, <4>1, <4>2
    <3> QED BY <3>1, <3>2
  <2> QED BY <2>1, <2>3, <2>4 DEF Knows
<1>5. CASE byte # F[same + 1]
  <2> DEFINE next == IF byte = 0 THEN 1 ELSE 0
  <2>1. Chain[same][byte] = next
    BY <1>2, <1>5, ChainStep
  <2>2. Begun(s, i + 1, next)
    <3>1. \A x : Begun(x, i, 0) /\ Begun(x, i + 1, 0)
      BY DEF Begun
    <3>2. CASE byte = 0
      <4>1. 1 - 1 = 0 /\ 1 \in Nat \ {0} /\ s[i + 1] = F[1]
        BY <1>1, <3>2
      <4>2. Begun(s, i + 1, 1)
        BY <3>1, <4>1, BegunBefore
      <4> QED BY <3>2, <4>2
    <3>3. CASE byte # 0
      BY <3>1, <3>3
    <3> QED BY <3>2, <3>3
  <2>3. ASSUME NEW t \in 0 .. H, Begun(s, i + 1, t) PROVE t <= next
    <3>1. CASE t = 0
      BY <3>1
    <3>2. CASE t # 0
      <4>1. t \in Nat \ {0} /\ t - 1 \in 0 .. H
        BY <1>1, <3>2
      <4>2. Begun(s, i, t - 1) /\ s[i + 1] = F[t]
        BY <2>3, <4>1, BegunBefore
      <4>3. t - 1 <= same /\ t - 1 # same
        BY <1>2, <1>3, <1>5, <4>1, <4>2
      <4>4. CASE t = 1
        BY <1>1, <4>2, <4>4
      <4>5. CASE t # 1
        <5> DEFINE j == same - (t - 1) + 1
        <5>1. j \in 2 .. H - 1 /\ j \in 1 .. same /\ (i - same) + j = (i - (t - 1)) + 1 /\ 1 \in 1 .. t - 1
          BY <1>1, <1>2, <4>1, <4>3, <4>5
        <5> HIDE DEF j
        <5>2. s[(i - same) + j] = F[j]
          BY <1>3, <5>1 DEF Begun
        <5>3. s[(i - (t - 1)) + 1] = F[1]
          BY <4>2, <5>1 DEF Begun
        <5>4. F[j] = 4
          BY <1>1, <5>1
        <5>5. F[j] = F[1]
          BY <5>1, <5>2, <5>3
        <5> QED BY <1>1, <5>4, <5>5
      <4> QED BY <4>4, <4>5
    <3> QED BY <3>1, <3>2
  <2> QED BY <2>1, <2>2, <2>3 DEF Knows
<1> QED BY <1>4, <1>5

LEMMA FooterIsBegun ==
    ASSUME NEW s \in Seq(Byte), NEW e \in 0 .. Len(s)
    PROVE  FooterAt(s, e) <=> Begun(s, e, HEADER_LENGTH)
<1>1. HEADER_LENGTH \in Nat /\ Len(MESSAGE_FOOTER) = HEADER_LENGTH
  BY HeaderAssumption, FooterBytes
<1>2. e \in HEADER_LENGTH .. Len(s) <=> HEADER_LENGTH \in 0 .. e
  BY <1>1
<1> QED BY <1>1, <1>2 DEF FooterAt, At, Begun

\* The pass knows, as long as it has not found a footer.
LEMMA ScanKnows ==
    ASSUME NEW buf \in Seq(Byte)
    PROVE  \A i \in 0 .. Len(buf) :
              FooterScan(buf)[i] # HEADER_LENGTH => Knows(buf, i, FooterScan(buf)[i])
<1> DEFINE scan == FooterScan(buf)
           H    == HEADER_LENGTH
           n    == Len(buf)
           P    == { i \in Nat : i <= n /\ scan[i] # H => Knows(buf, i, scan[i]) }
<1>0. H \in Nat /\ H >= 3 /\ n \in Nat
  BY HeaderAssumption
<1>1. /\ scan[0] = 0
      /\ \A i \in 0 .. n : scan[i] \in 0 .. H
      /\ \A i \in 1 .. n : scan[i] = Chain[scan[i - 1]][buf[i]]
  BY Scanned
<1> HIDE DEF scan
<1>2. Knows(buf, 0, 0)
  BY <1>0 DEF Knows, Begun
<1>3. 0 \in P
  BY <1>1, <1>2
<1>4. ASSUME NEW i \in Nat, i \in P PROVE i + 1 \in P
  <2> SUFFICES ASSUME i + 1 <= n, scan[i + 1] # H PROVE Knows(buf, i + 1, scan[i + 1])
    OBVIOUS
  <2>1. i \in 0 .. n /\ i + 1 \in 1 .. n /\ (i + 1) - 1 = i
    BY <1>0
  <2>2. scan[i] \in 0 .. H /\ buf[i + 1] \in Byte /\ scan[i + 1] = Chain[scan[i]][buf[i + 1]]
    BY <1>1, <2>1
  <2>3. scan[i] # H
    BY <2>2, ChainStep
  <2>4. scan[i] \in 0 .. H - 1 /\ Knows(buf, i, scan[i])
    BY <1>0, <1>4, <2>1, <2>2, <2>3
  <2>5. Knows(buf, i + 1, Chain[scan[i]][buf[i + 1]])
    BY <2>2, <2>4, KnowsNext
  <2> QED BY <2>2, <2>5
<1> HIDE DEF P
<1>5. \A i \in Nat : i \in P
  BY ONLY <1>3, <1>4, Induct
<1> SUFFICES ASSUME NEW i \in 0 .. n, scan[i] # H PROVE Knows(buf, i, scan[i])
  BY DEF scan
<1>6. i \in P /\ i <= n
  BY <1>0, <1>5
<1> QED BY <1>6 DEF P

\* Once found, the footer stays found.
LEMMA ScanStays ==
    ASSUME NEW buf \in Seq(Byte), NEW e \in 0 .. Len(buf), FooterScan(buf)[e] = HEADER_LENGTH
    PROVE  \A i \in e .. Len(buf) : FooterScan(buf)[i] = HEADER_LENGTH
<1> DEFINE scan == FooterScan(buf)
           H    == HEADER_LENGTH
           n    == Len(buf)
           P    == { i \in Nat : e <= i /\ i <= n => scan[i] = H }
<1>0. H \in Nat /\ n \in Nat /\ e \in Nat
  BY HeaderAssumption
<1>1. /\ scan[e] = H
      /\ \A i \in 1 .. n : scan[i] = Chain[scan[i - 1]][buf[i]]
  BY Scanned
<1> HIDE DEF scan
<1>3. 0 \in P
  BY <1>0, <1>1
<1>4. ASSUME NEW i \in Nat, i \in P PROVE i + 1 \in P
  <2> SUFFICES ASSUME e <= i + 1, i + 1 <= n PROVE scan[i + 1] = H
    OBVIOUS
  <2>1. CASE e = i + 1
    BY <1>1, <2>1
  <2>2. CASE e <= i
    <3>1. scan[i] = H
      BY <1>4, <2>2
    <3>2. i + 1 \in 1 .. n /\ (i + 1) - 1 = i /\ buf[i + 1] \in Byte
      BY <1>0
    <3>3. scan[i + 1] = Chain[scan[i]][buf[i + 1]]
      BY <1>1, <3>2
    <3>4. H \in 0 .. H
      BY <1>0
    <3> QED BY <3>1, <3>2, <3>3, <3>4, ChainStep
  <2> QED BY <1>0, <2>1, <2>2
<1> HIDE DEF P
<1>5. \A i \in Nat : i \in P
  BY ONLY <1>3, <1>4, Induct
<1> SUFFICES ASSUME NEW i \in e .. n PROVE scan[i] = H
  BY DEF scan
<1>6. i \in P /\ e <= i /\ i <= n
  BY <1>0, <1>5
<1> QED BY <1>6 DEF P

\* What footer_exists() tells: whether a footer is in the buffer, and behind
\* which byte the first one ends.
LEMMA FooterMissing ==
    ASSUME NEW buf \in Seq(Byte), ~ FooterExists(buf)
    PROVE  \A e \in Int : ~ FooterAt(buf, e)
<1> SUFFICES ASSUME NEW e \in Int, FooterAt(buf, e) PROVE FALSE
  OBVIOUS
<1> DEFINE H == HEADER_LENGTH
<1>1. H \in Nat /\ Len(buf) \in Nat
  BY HeaderAssumption
<1>2. e \in 0 .. Len(buf) /\ H \in 0 .. H /\ Len(buf) \in e .. Len(buf)
  BY <1>1 DEF FooterAt
<1>3. FooterScan(buf)[e] # H
  BY <1>2, ScanStays DEF FooterExists
<1>4. Knows(buf, e, FooterScan(buf)[e]) /\ FooterScan(buf)[e] \in 0 .. H
  BY <1>2, <1>3, ScanKnows, Scanned
<1>5. H <= FooterScan(buf)[e]
  BY <1>2, <1>4, FooterIsBegun DEF Knows
<1> QED BY <1>1, <1>3, <1>4, <1>5

LEMMA FooterFound ==
    ASSUME NEW buf \in Seq(Byte), FooterExists(buf)
    PROVE  /\ FooterAt(buf, FooterEnd(buf)) /\ FooterEnd(buf) \in HEADER_LENGTH .. Len(buf)
           /\ \A d \in Int : FooterAt(buf, d) => FooterEnd(buf) <= d
<1> DEFINE H    == HEADER_LENGTH
           n    == Len(buf)
           scan == FooterScan(buf)
           T    == { i \in 0 .. n : scan[i] = H }
<1>1. H \in Nat /\ H >= 3 /\ n \in Nat
  BY HeaderAssumption
<1>2. n \in T
  BY <1>1 DEF FooterExists
<1>3. T \subseteq Nat /\ T # {}
  BY <1>1, <1>2
<1>4. PICK e \in T : \A i \in T : e <= i
  BY <1>3, LeastElement
<1>5. e \in 0 .. n /\ scan[e] = H
  OBVIOUS
<1>6. /\ scan[0] = 0
      /\ \A i \in 0 .. n : scan[i] \in 0 .. H
      /\ \A i \in 1 .. n : scan[i] = Chain[scan[i - 1]][buf[i]]
  BY Scanned
<1>7. e \in 1 .. n
  BY <1>1, <1>5, <1>6
<1>8. e - 1 \in 0 .. n /\ (e - 1) + 1 = e /\ e \in Nat
  BY <1>1, <1>7
<1>9. scan[e - 1] \in 0 .. H /\ scan[e - 1] # H
  BY <1>4, <1>6, <1>8
<1>10. Knows(buf, e - 1, scan[e - 1])
  <2>1. FooterScan(buf)[e - 1] # HEADER_LENGTH
    BY <1>9
  <2> QED BY <1>8, <2>1, ScanKnows
<1>11. FooterAt(buf, e)
  <2>1. scan[e - 1] \in 0 .. H - 1 /\ buf[e] \in Byte /\ e - 1 \in Nat
    BY <1>1, <1>7, <1>9
  <2>2. buf[(e - 1) + 1] = buf[e]
    BY <1>8
  <2> DEFINE same == scan[e - 1]
             byte == buf[e]
             i    == e - 1
  <2>3. same \in 0 .. HEADER_LENGTH - 1 /\ byte \in Byte /\ i \in Nat
    BY <2>1
  <2>4. buf[i + 1] = byte /\ Knows(buf, i, same)
    BY <1>10, <2>2
  <2> HIDE DEF same, byte, i
  <2>5. Knows(buf, i + 1, Chain[same][byte])
    BY ONLY <2>3, <2>4, KnowsNext
  <2>6. Chain[same][byte] = H
    BY <1>5, <1>6, <1>7 DEF same, byte
  <2>7. Begun(buf, e, H)
    BY <1>8, <2>5, <2>6 DEF Knows, i
  <2> QED BY <1>5, <2>7, FooterIsBegun
<1>12. \A i \in 0 .. n : scan[i] # H <=> i < e
  <2> TAKE i \in 0 .. n
  <2>1. i < e => scan[i] # H
    BY <1>4, <1>8
  <2>2. e <= i => scan[i] = H
    BY <1>5, <1>8, ScanStays
  <2> QED BY <1>8, <2>1, <2>2
<1>13. FooterEnd(buf) = e
  <2>1. { i \in 0 .. n : scan[i] # H } = 0 .. e - 1
    BY <1>1, <1>7, <1>12
  <2>2. FooterEnd(buf) = Cardinality(0 .. e - 1)
    BY <2>1 DEF FooterEnd
  <2>3. Cardinality(0 .. e - 1) = e
    BY <1>8, FS_Interval
  <2> QED BY <2>2, <2>3
<1>14. ASSUME NEW d \in Int, FooterAt(buf, d), d < e PROVE FALSE
  <2>1. d \in 0 .. n /\ d \in H .. n
    BY <1>1, <1>14 DEF FooterAt
  <2>2. scan[d] # H /\ scan[d] \in 0 .. H
    BY <1>6, <1>12, <1>14, <2>1
  <2>3. Knows(buf, d, scan[d])
    BY <2>1, <2>2, ScanKnows
  <2>4. H \in 0 .. H /\ Begun(buf, d, H)
    BY <1>1, <1>14, <2>1, FooterIsBegun
  <2> QED BY <1>1, <2>2, <2>3, <2>4 DEF Knows
<1>15. e \in H .. n
  BY <1>11 DEF FooterAt
<1> HIDE DEF scan, T
<1>16. \A d \in Int : FooterAt(buf, d) => e <= d
  BY <1>8, <1>14
<1> QED BY <1>11, <1>13, <1>15, <1>16

-----------------------------------------------------------------------------
LEMMA SearchedFromIs ==
    ASSUME NEW total \in Nat
    PROVE  SearchedFrom(total) = IF total > HEADER_LENGTH THEN total - HEADER_LENGTH ELSE 0
<1> DEFINE S == { total - HEADER_LENGTH, 0 }
           m == IF total > HEADER_LENGTH THEN total - HEADER_LENGTH ELSE 0
<1>1. m \in S /\ \A y \in S : m >= y
  BY HeaderAssumption
<1>2. \A x \in S : (\A y \in S : x >= y) => x = m
  BY HeaderAssumption
<1>3. Max(S) = CHOOSE x \in S : \A y \in S : x >= y
  BY DEF Max
<1> HIDE DEF S, m
<1>4. Max(S) = m
  BY <1>1, <1>2, <1>3
<1> QED BY <1>4 DEF SearchedFrom, S, m

\* The bytes that get_message() looks at: all of the first peek, then the new
\* ones behind the last HEADER_LENGTH of the old ones; but behind a first peek
\* of a lone header the buffer without its end.
LEMMA Window ==
    ASSUME NEW buf \in Seq(Byte), NEW total \in 0 .. Len(buf),
           total = 0 \/ total >= HEADER_LENGTH,
           total = HEADER_LENGTH => 2 * HEADER_LENGTH <= Len(buf),
           NEW d \in Int
    PROVE  LET w   == Searched(buf, total)
               off == SearchedFrom(total)
               len == Len(buf) - off - (IF total = HEADER_LENGTH THEN HEADER_LENGTH ELSE 0)
           IN  /\ w \in Seq(Byte) /\ Len(w) = len
               /\ FooterAt(w, d) <=> d \in HEADER_LENGTH .. len /\ FooterAt(buf, off + d)
<1> DEFINE H   == HEADER_LENGTH
           w   == Searched(buf, total)
           off == SearchedFrom(total)
           len == Len(buf) - off - (IF total = H THEN H ELSE 0)
<1>1. H \in Nat /\ H >= 3 /\ Len(buf) \in Nat /\ total \in Nat
  BY HeaderAssumption
<1>2. off = IF total > H THEN total - H ELSE 0
  BY <1>1, SearchedFromIs
<1>0. w = SubSeq(buf, off + 1, off + SearchedLength(total, Len(buf) - total))
  BY DEF Searched
<1> HIDE DEF w, off
<1>3. SearchedLength(total, Len(buf) - total) = len /\ len \in Nat /\ off \in Nat /\ off + len <= Len(buf)
  <2>1. CASE total = 0
    <3>1. SearchedLength(total, Len(buf) - total) = Len(buf)
      BY <1>1, <2>1 DEF SearchedLength
    <3>0. ~ (total > H) /\ total # H
      BY <1>1, <2>1
    <3>2. off = 0 /\ len = Len(buf)
      BY <1>1, <1>2, <3>0
    <3> QED BY <1>1, <3>1, <3>2
  <2>2. CASE total = H
    BY <1>1, <1>2, <2>2 DEF SearchedLength
  <2>3. CASE total > H
    BY <1>1, <1>2, <2>3 DEF SearchedLength
  <2> QED BY <1>1, <2>1, <2>2, <2>3
<1>4. w = SubSeq(buf, off + 1, off + len)
  BY <1>0, <1>3
<1> HIDE DEF len
<1>5. w \in Seq(Byte) /\ Len(w) = len /\ \A j \in 1 .. len : w[j] = buf[off + j]
  <2>1. buf \in Seq(Byte)
    OBVIOUS
  <2> QED BY ONLY <1>3, <1>4, <2>1, Part
<1>6. At(buf, off, w)
  BY <1>5 DEF At
<1>7. off + Len(w) <= Len(buf)
  BY <1>3, <1>5
<1>8. FooterAt(w, d) <=> d \in HEADER_LENGTH .. Len(w) /\ FooterAt(buf, off + d)
  BY ONLY buf \in Seq(Byte), <1>3, <1>5, <1>6, <1>7, d \in Int, FooterMoved
<1> QED BY <1>5, <1>8 DEF w, off, len

LEMMA WindowWithout ==
    ASSUME NEW buf \in Seq(Byte), NEW total \in 0 .. Len(buf),
           total = 0 \/ total >= HEADER_LENGTH,
           total = HEADER_LENGTH => 2 * HEADER_LENGTH <= Len(buf),
           ~ FooterExists(Searched(buf, total)),
           NEW d \in Int, FooterAt(buf, d)
    PROVE  \/ total > HEADER_LENGTH /\ d < total
           \/ total = HEADER_LENGTH /\ d > Len(buf) - HEADER_LENGTH
<1> DEFINE H   == HEADER_LENGTH
           w   == Searched(buf, total)
           off == SearchedFrom(total)
           len == Len(buf) - off - (IF total = H THEN H ELSE 0)
           e   == d - off
<1>1. H \in Nat /\ H >= 3 /\ Len(buf) \in Nat /\ total \in Nat /\ d \in H .. Len(buf)
  BY HeaderAssumption DEF FooterAt
<1>2. off = IF total > H THEN total - H ELSE 0
  BY <1>1, SearchedFromIs
<1>3. e \in Int /\ off + e = d
  BY <1>1, <1>2
<1>4. w \in Seq(Byte) /\ (FooterAt(w, e) <=> e \in H .. len /\ FooterAt(buf, off + e))
  BY <1>3, Window
<1>5. ~ FooterAt(w, e)
  BY <1>3, <1>4, FooterMissing
<1>6. ~ (e \in H .. len)
  BY <1>3, <1>4, <1>5
<1> QED BY <1>1, <1>2, <1>6

LEMMA WindowWith ==
    ASSUME NEW buf \in Seq(Byte), NEW total \in 0 .. Len(buf),
           total = 0 \/ total >= HEADER_LENGTH,
           total = HEADER_LENGTH => 2 * HEADER_LENGTH <= Len(buf),
           FooterExists(Searched(buf, total))
    PROVE  LET n == ActuallyRead(FooterEnd(Searched(buf, total)), total)
           IN  /\ n \in 0 .. Len(buf) - total /\ FooterAt(buf, total + n)
               /\ \A d \in Int : FooterAt(buf, d) => d < total \/ total + n <= d
<1> DEFINE H   == HEADER_LENGTH
           w   == Searched(buf, total)
           off == SearchedFrom(total)
           len == Len(buf) - off - (IF total = H THEN H ELSE 0)
           e   == FooterEnd(w)
           n   == ActuallyRead(e, total)
<1>1. H \in Nat /\ H >= 3 /\ Len(buf) \in Nat /\ total \in Nat
  BY HeaderAssumption
<1>2. off = IF total > H THEN total - H ELSE 0
  BY <1>1, SearchedFromIs
<1>3. \A d \in Int : /\ w \in Seq(Byte) /\ Len(w) = len
                     /\ FooterAt(w, d) <=> d \in H .. len /\ FooterAt(buf, off + d)
  BY Window
<1>4. w \in Seq(Byte) /\ Len(w) = len
  BY <1>3
<1>5. n = e - (IF off < total THEN H ELSE 0)
  BY DEF ActuallyRead
<1> HIDE DEF w, off, e, n
<1>6. FooterAt(w, e) /\ e \in H .. len /\ \A d \in Int : FooterAt(w, d) => e <= d
  BY <1>4, FooterFound DEF e, w
<1>7. total + n = off + e /\ n \in 0 .. Len(buf) - total
  BY <1>1, <1>2, <1>5, <1>6
<1>8. FooterAt(buf, off + e)
  BY <1>3, <1>6
<1>9. ASSUME NEW d \in Int, FooterAt(buf, d), ~ (d < total), d < total + n PROVE FALSE
  <2> DEFINE c == d - off
  <2>1. off + c = d /\ c \in H .. len /\ c \in Int /\ c < e
    BY <1>1, <1>2, <1>6, <1>7, <1>9 DEF FooterAt
  <2> HIDE DEF c
  <2>2. FooterAt(w, c)
    BY <1>3, <1>9, <2>1
  <2> QED BY <1>1, <1>6, <2>1, <2>2
<1>10. \A d \in Int : FooterAt(buf, d) => d < total \/ total + n <= d
  BY <1>1, <1>7, <1>9
<1> QED BY <1>7, <1>8, <1>10 DEF n, e, w

-----------------------------------------------------------------------------
\* The inductive invariant.  TypeOK, and the rest of the types.
Types == /\ TypeOK
         /\ stream \in Seq(Byte) /\ left \in Seq(Byte) /\ retbuf \in Seq(Byte)
         /\ starts \in Seq(Nat) /\ arrived \in Nat /\ taken \in Nat /\ lone \in BOOLEAN
         /\ results \in Seq(Seq(Byte))

\* Where messages begin, whether under way or not.
Starts == { starts[k] : k \in DOMAIN starts }

\* Messages begin one behind the other.
InOrder == /\ starts = << >> => stream = << >> /\ part = "header"
           /\ \A k \in DOMAIN starts : /\ starts[k] <= Len(stream)
                                       /\ part = "header" => starts[k] < Len(stream)
           /\ \A j, k \in DOMAIN starts : j < k => starts[j] < starts[k]

\* Of the message under way, n bytes of the header have been sent and m of the
\* payload; what is left of it is still to come.
Sending(n, m) ==
    /\ Last(starts) + n + m = Len(stream)
    /\ At(stream, Last(starts), SubSeq(MESSAGE_HEADER, 1, n))
    /\ At(stream, Last(starts) + n, SubSeq(Head(outbox), 1, m))
    /\ left = SubSeq(Head(outbox), m + 1, Len(Head(outbox)))
    /\ part = "footer" <=> m = Len(Head(outbox))
    /\ n # HEADER_LENGTH => cut # {}

UnderWay ==
    part # "header" =>
        /\ outbox # << >>
        /\ \E n \in 0 .. HEADER_LENGTH : \E m \in 0 .. Len(Head(outbox)) : Sending(n, m)

\* A footer in the stream ends where a message does; only one that has lost its
\* last byte is completed by the header behind it.
FootersEndMessages ==
    \A e \in 1 .. Len(stream) :
        FooterAt(stream, e) => e \in Boundaries \/ (e - 1 \in Starts /\ cut # {})

\* Where the next message begins, or will.
EndOf(k) == IF k < Len(starts) THEN starts[k + 1] ELSE Len(stream)

\* As long as header and footer of every message are sent, each is there whole.
WholeMessages ==
    cut = {} => \A k \in DOMAIN starts : k < Len(starts) \/ part = "header" =>
        \E p \in Payload : /\ EndOf(k) = starts[k] + Len(Frame(p))
                           /\ At(stream, starts[k], Frame(p))

Sent == InOrder /\ UnderWay /\ FootersEndMessages /\ WholeMessages

\* What get_message() has collected are the bytes behind those returned,
Collected == /\ Len(retbuf) <= taken /\ (retbuf # << >> => Len(retbuf) >= HEADER_LENGTH)
             /\ At(stream, Returned, retbuf)

\* which began where a message begins;
AtBoundary == Returned \in Boundaries \/ (Returned - 1 \in Starts /\ cut # {})

\* the window passes over no footer, but one behind the first peek when that
\* saw as many bytes as a header has.
Searches ==
   /\ Len(retbuf) = HEADER_LENGTH => lone /\ ~ FooterAt(retbuf, HEADER_LENGTH)
   /\ ~ lone => \A e \in 1 .. Len(retbuf) : ~ FooterAt(retbuf, e)
   /\ \A d, e \in 1 .. Len(retbuf) :
         FooterAt(retbuf, d) /\ FooterAt(retbuf, e) => e - d < HEADER_LENGTH

Waits == Collected /\ AtBoundary /\ Searches

LEMMA PayloadIs ==
    ASSUME NEW p \in Payload
    PROVE  p \in Seq(Byte) /\ Len(p) \in Nat /\ Len(p) > 1 /\ p[1] = 0
BY PayloadAssumption

\* An interrupted call sends a beginning.
LEMMA Ignored ==
    ASSUME NEW s \in Seq(Byte), NEW b \in Ignoring(s)
    PROVE  /\ b \in Seq(Byte)
           /\ \E n \in 0 .. Len(s) : b = SubSeq(s, 1, n) /\ Len(b) = n /\ (b # s => n # Len(s))
                                     /\ (n # Len(s) => b # s)
<1>1. PICK n \in 0 .. Len(s) : b = SubSeq(s, 1, n)
  BY DEF Ignoring
<1>2. b \in Seq(Byte) /\ Len(b) = n
  BY <1>1
<1>3. SubSeq(s, 1, Len(s)) = s
  OBVIOUS
<1> QED BY <1>1, <1>2, <1>3

\* Bytes behind other bytes.
LEMMA MoreSent ==
    ASSUME NEW s \in Seq(Byte), NEW b \in Seq(Byte)
    PROVE  /\ s \o b \in Seq(Byte) /\ Len(s \o b) = Len(s) + Len(b)
           /\ \A j \in 1 .. Len(s) : (s \o b)[j] = s[j]
           /\ \A j \in 1 .. Len(b) : (s \o b)[Len(s) + j] = b[j]
OBVIOUS

LEMMA LeastOf ==
    ASSUME NEW a \in Nat, NEW b \in Nat, NEW n \in 1 .. Min({a, b})
    PROVE  n \in Nat /\ 1 <= n /\ n <= b
<1> DEFINE S == {a, b}
<1>1. \E x \in S : \A y \in S : x =< y
  OBVIOUS
<1>2. Min(S) \in S /\ \A y \in S : Min(S) =< y
  BY <1>1 DEF Min
<1> QED BY <1>2

LEMMA TypesInit == Init => Types
<1> SUFFICES ASSUME Init PROVE Types
  OBVIOUS
<1>1. outbox \in Seq(Payload)
  BY MessagesAssumption, IsASeq DEF Init
<1>2. /\ stream = << >> /\ left = << >> /\ retbuf = << >> /\ starts = << >> /\ results = << >>
      /\ arrived = 0 /\ taken = 0 /\ cut = {} /\ lone = FALSE
      /\ part = "header" /\ line = "open" /\ status = "reading"
  BY DEF Init
<1>3. Len(stream) = 0
  BY <1>2
<1>4. TypeOK
  BY <1>1, <1>2, <1>3 DEF TypeOK
<1>5. \A S : << >> \in Seq(S)
  OBVIOUS
<1>6. stream \in Seq(Byte) /\ left \in Seq(Byte) /\ retbuf \in Seq(Byte)
  BY <1>2, <1>5
<1>7. starts \in Seq(Nat) /\ results \in Seq(Seq(Byte))
  BY <1>2, <1>5
<1> QED BY <1>2, <1>4, <1>6, <1>7 DEF Types

-----------------------------------------------------------------------------
\* get_message() peeks at bytes that have arrived and not been removed.
LEMMA PeekedIs ==
    ASSUME Types
    PROVE  /\ Peeked \in Seq(Byte) /\ Len(Peeked) \in Nat /\ taken + Len(Peeked) <= arrived
           /\ At(stream, taken, Peeked)
<1>1. MTU \in Nat /\ MTU >= HEADER_LENGTH /\ HEADER_LENGTH \in Nat
  BY MTUAssumption, HeaderAssumption
<1>2. /\ stream \in Seq(Byte) /\ taken \in Nat /\ arrived \in Nat
      /\ taken <= arrived /\ arrived <= Len(stream) /\ Len(stream) \in Nat
  BY DEF Types, TypeOK
<1> DEFINE to == IF arrived - taken < MTU THEN arrived ELSE taken + MTU
<1>3. to \in Nat /\ taken <= to /\ to <= arrived
  BY <1>1, <1>2
<1>4. Peeked = SubSeq(stream, taken + 1, to)
  BY DEF Peeked
<1> HIDE DEF to
<1>5. /\ Peeked \in Seq(Byte) /\ Len(Peeked) = to - taken
      /\ \A j \in 1 .. to - taken : Peeked[j] = stream[taken + j]
  BY <1>2, <1>3, <1>4
<1> QED BY <1>2, <1>3, <1>5 DEF At

\* What it has in memory once it has peeked.
Buffer == retbuf \o Peeked

\* The payload of a message that ends with the n-th peeked byte.
PayloadUpTo(n) == SubSeq(Buffer, HEADER_LENGTH + 1, Len(retbuf) + n - HEADER_LENGTH)

\* get_message() returns the message that ends with the n-th peeked byte,
Returns(n) ==
    /\ n \in 0 .. Len(Peeked) /\ FooterAt(Buffer, Len(retbuf) + n)
    /\ \A d \in Int : FooterAt(Buffer, d) => d < Len(retbuf) \/ Len(retbuf) + n <= d
    /\ results' = Append(results, PayloadUpTo(n))
    /\ taken' = taken + n /\ retbuf' = << >> /\ lone' = FALSE

\* or collects what it has peeked at.
Collects ==
    /\ \A d \in Int : FooterAt(Buffer, d) =>
          \/ Len(retbuf) > HEADER_LENGTH /\ d < Len(retbuf)
          \/ Len(retbuf) = HEADER_LENGTH /\ d > Len(Buffer) - HEADER_LENGTH
    /\ taken' = taken + Len(Peeked) /\ retbuf' = Buffer
    /\ lone' = (lone \/ Len(Buffer) = HEADER_LENGTH) /\ results' = results

LEMMA BufferIs ==
    ASSUME Types, Collected
    PROVE  /\ Buffer \in Seq(Byte) /\ Len(Buffer) = Len(retbuf) + Len(Peeked)
           /\ At(stream, Returned, Buffer) /\ Returned \in Nat
           /\ Returned + Len(Buffer) = taken + Len(Peeked) /\ Returned + Len(Buffer) <= Len(stream)
           /\ \A d \in Int : FooterAt(retbuf, d) <=> d <= Len(retbuf) /\ FooterAt(Buffer, d)
           /\ \A d \in Int : FooterAt(Buffer, d) =>
                 /\ d \in HEADER_LENGTH .. Len(Buffer) /\ FooterAt(stream, Returned + d)
<1> DEFINE H == HEADER_LENGTH
           q == Peeked
           r == retbuf
<1>1. q \in Seq(Byte) /\ Len(q) \in Nat /\ taken + Len(q) <= arrived /\ At(stream, taken, q)
  BY PeekedIs
<1>2. r \in Seq(Byte) /\ Len(r) \in Nat /\ taken \in Nat /\ arrived <= Len(stream)
      /\ arrived \in Nat /\ Len(stream) \in Nat /\ stream \in Seq(Byte) /\ H \in Nat
  BY HeaderAssumption DEF Types, TypeOK
<1>3. Len(r) <= taken /\ At(stream, Returned, r)
  BY DEF Collected
<1> HIDE DEF q, r
<1>4. Buffer = r \o q
  BY DEF Buffer, q, r
<1>5. /\ Buffer \in Seq(Byte) /\ Len(Buffer) = Len(r) + Len(q)
      /\ \A j \in 1 .. Len(r) : Buffer[j] = r[j]
      /\ \A j \in 1 .. Len(q) : Buffer[Len(r) + j] = q[j]
  BY <1>1, <1>2, <1>4, MoreSent
<1>6. Returned = taken - Len(r) /\ Returned \in Nat
  BY <1>2, <1>3 DEF Returned, r
<1>7. Returned + Len(Buffer) = taken + Len(q) /\ Returned + Len(Buffer) <= Len(stream)
  BY <1>1, <1>2, <1>5, <1>6
<1>8. ASSUME NEW j \in 1 .. Len(Buffer) PROVE stream[Returned + j] = Buffer[j]
  <2>1. CASE j \in 1 .. Len(r)
    BY <1>3, <1>5, <2>1 DEF At
  <2>2. CASE j \notin 1 .. Len(r)
    <3> DEFINE i == j - Len(r)
    <3>1. i \in 1 .. Len(q) /\ Len(r) + i = j /\ taken + i = Returned + j
      BY <1>1, <1>2, <1>5, <1>6, <2>2
    <3> HIDE DEF i
    <3> QED BY <1>1, <1>5, <3>1 DEF At
  <2> QED BY <2>1, <2>2
<1>9. At(stream, Returned, Buffer)
  BY <1>8 DEF At
<1>10. ASSUME NEW d \in Int PROVE FooterAt(r, d) <=> d <= Len(r) /\ FooterAt(Buffer, d)
  <2>1. At(Buffer, 0, r)
    BY <1>2, <1>5 DEF At
  <2>2. 0 + Len(r) <= Len(Buffer) /\ 0 \in Nat
    BY <1>1, <1>2, <1>5
  <2>3. FooterAt(r, d) <=> d \in H .. Len(r) /\ FooterAt(Buffer, 0 + d)
    BY ONLY <1>2, <1>5, <2>1, <2>2, d \in Int, FooterMoved
  <2>4. 0 + d = d
    OBVIOUS
  <2>5. FooterAt(Buffer, d) => d \in H .. Len(Buffer)
    BY DEF FooterAt
  <2> QED BY <1>2, <1>5, <2>3, <2>4, <2>5
<1>11. ASSUME NEW d \in Int, FooterAt(Buffer, d)
       PROVE  d \in H .. Len(Buffer) /\ FooterAt(stream, Returned + d)
  <2>1. FooterAt(Buffer, d) <=> d \in H .. Len(Buffer) /\ FooterAt(stream, Returned + d)
    BY ONLY <1>2, <1>5, <1>6, <1>7, <1>9, d \in Int, FooterMoved
  <2> QED BY <1>11, <2>1
<1> QED BY <1>5, <1>6, <1>7, <1>9, <1>10, <1>11 DEF q, r

\* The two outcomes of a step of get_message().
LEMMA Received ==
    ASSUME Types, Collected, Receive
    PROVE  /\ UNCHANGED << sender, line, arrived, status >> /\ Len(Peeked) >= HEADER_LENGTH
           /\ Collects \/ \E n \in Nat : Returns(n)
<1> DEFINE H == HEADER_LENGTH
           total == Len(retbuf)
           w == Searched(Buffer, total)
           n == ActuallyRead(FooterEnd(w), total)
<1>1. UNCHANGED << sender, line, arrived, status >> /\ Len(Peeked) >= H
  BY DEF Receive
<1>2. Buffer \in Seq(Byte) /\ Len(Buffer) = total + Len(Peeked)
  BY BufferIs
<1>3. Len(Peeked) \in Nat /\ total \in Nat /\ H \in Nat /\ taken \in Nat /\ retbuf \in Seq(Byte)
  BY PeekedIs, HeaderAssumption DEF Types
<1>4. /\ total \in 0 .. Len(Buffer) /\ (total = 0 \/ total >= H)
      /\ total = H => 2 * H <= Len(Buffer)
  <2>1. total = 0 \/ total >= H
    BY <1>3 DEF Collected
  <2> QED BY <1>1, <1>2, <1>3, <2>1
<1>5. CASE FooterExists(w)
  <2>1. /\ results' = Append(results, SubSeq(Buffer, H + 1, total + n - H))
        /\ Consume(n) /\ retbuf' = << >> /\ lone' = FALSE
    BY <1>5 DEF Receive, Buffer
  <2>2. /\ n \in 0 .. Len(Buffer) - total /\ FooterAt(Buffer, total + n)
        /\ \A d \in Int : FooterAt(Buffer, d) => d < total \/ total + n <= d
    BY <1>2, <1>4, <1>5, WindowWith
  <2> HIDE DEF n, w
  <2>3. n \in 0 .. Len(Peeked)
    BY <1>2, <1>3, <2>2
  <2>4. Returns(n)
    BY <2>1, <2>2, <2>3 DEF Returns, Consume, PayloadUpTo
  <2> QED BY <1>1, <2>3, <2>4
<1>6. CASE ~ FooterExists(w)
  <2>1. /\ retbuf' = Buffer /\ Consume(Len(Peeked))
        /\ lone' = (lone \/ Len(Buffer) = H) /\ results' = results
    BY <1>6 DEF Receive, Buffer
  <2>2. \A d \in Int : FooterAt(Buffer, d) =>
           (total > H /\ d < total) \/ (total = H /\ d > Len(Buffer) - H)
    <3> HIDE DEF w, total
    <3>1. ~ FooterExists(Searched(Buffer, total))
      BY <1>6 DEF w
    <3> SUFFICES ASSUME NEW d \in Int, FooterAt(Buffer, d)
                 PROVE  (total > H /\ d < total) \/ (total = H /\ d > Len(Buffer) - H)
      OBVIOUS
    <3> QED BY ONLY <1>2, <1>4, <3>1, d \in Int, FooterAt(Buffer, d), WindowWithout
  <2>3. Collects
    BY <2>1, <2>2 DEF Collects, Consume
  <2> QED BY <1>1, <2>3
<1> QED BY <1>5, <1>6

-----------------------------------------------------------------------------
LEMMA TypesStep ==
    ASSUME Types, InOrder, Collected, [Next]_vars
    PROVE  Types'
<1> USE DEF Types, TypeOK
<1>0. \A x : x \in Payload => x \in Seq(Byte)
  BY PayloadIs
<1>00. HEADER_LENGTH \in Nat /\ HEADER_LENGTH >= 3 /\ MTU \in Nat /\ MTU >= HEADER_LENGTH
  BY HeaderAssumption, MTUAssumption
<1>1. CASE SendHeader
  <2>1. PICK b \in Ignoring(MESSAGE_HEADER) :
           /\ stream' = stream \o b
           /\ cut' = IF b = MESSAGE_HEADER THEN cut ELSE cut \cup { MessageNumber + 1 }
    BY <1>1 DEF SendHeader
  <2>2. b \in Seq(Byte)
    BY HeaderBytes, Ignored
  <2>3. stream' \in Seq(Byte) /\ Len(stream') >= Len(stream)
    BY <2>1, <2>2
  <2>4. Head(outbox) \in Payload
    BY <1>1 DEF SendHeader
  <2>5. left' \in Seq(Byte)
    BY <1>0, <1>1, <2>4 DEF SendHeader
  <2>6. starts' \in Seq(Nat) /\ Len(starts') = Len(starts) + 1
    BY <1>1 DEF SendHeader
  <2>7. cut' \subseteq 1 .. Len(starts')
    <3>1. cut \subseteq 1 .. Len(starts) /\ Len(starts) \in Nat
      OBVIOUS
    <3>2. 1 .. Len(starts) \subseteq 1 .. Len(starts')
      BY <2>6, <3>1
    <3>3. Len(starts) + 1 \in 1 .. Len(starts')
      BY <2>6, <3>1
    <3>4. cut' \subseteq cut \cup { Len(starts) + 1 }
      BY <2>1 DEF MessageNumber
    <3> QED BY <3>1, <3>2, <3>3, <3>4
  <2> QED BY <1>1, <2>3, <2>5, <2>6, <2>7 DEF SendHeader, receiver
<1>2. CASE SendBody
  <2>1. PICK n \in 1 .. Min({MTU, Len(left)}) :
           stream' = stream \o SubSeq(left, 1, n) /\ left' = SubSeq(left, n + 1, Len(left))
    BY <1>2 DEF SendBody
  <2>2. MTU \in Nat /\ Len(left) \in Nat
    BY <1>00
  <2>3. n \in Nat /\ 1 <= n /\ n <= Len(left)
    BY ONLY <2>2, n \in 1 .. Min({MTU, Len(left)}), LeastOf
  <2>4. SubSeq(left, 1, n) \in Seq(Byte) /\ left' \in Seq(Byte)
    BY <2>1, <2>3, SMTT(30)
  <2>5. stream' \in Seq(Byte) /\ Len(stream') >= Len(stream)
    BY <2>1, <2>4
  <2>6. part' \in { "footer", "body" }
    BY <1>2 DEF SendBody
  <2>7. UNCHANGED << outbox, starts, cut, line, arrived, taken, retbuf, status, results, lone >>
    BY <1>2 DEF SendBody, receiver
  <2> QED BY <2>4, <2>5, <2>6, <2>7
<1>3. CASE SendFooter
  <2>1. PICK b \in Ignoring(MESSAGE_FOOTER) :
           /\ stream' = stream \o b
           /\ cut' = IF b = MESSAGE_FOOTER THEN cut ELSE cut \cup { MessageNumber }
    BY <1>3 DEF SendFooter
  <2>2. b \in Seq(Byte)
    BY FooterBytes, Ignored
  <2>3. stream' \in Seq(Byte) /\ Len(stream') >= Len(stream)
    BY <2>1, <2>2
  <2>4. Len(starts) \in Nat /\ Len(starts) # 0
    BY <1>3 DEF InOrder, SendFooter
  <2>5. cut' \subseteq 1 .. Len(starts')
    <3>1. cut \subseteq 1 .. Len(starts) /\ Len(starts) \in 1 .. Len(starts)
      BY <2>4
    <3>2. cut' \subseteq cut \cup { Len(starts) }
      BY <2>1 DEF MessageNumber
    <3>3. starts' = starts
      BY <1>3 DEF SendFooter
    <3> QED BY <3>1, <3>2, <3>3
  <2>6. outbox' \in Seq(Payload)
    <3>1. CASE outbox = << >>
      BY <1>3, <3>1 DEF SendFooter
    <3>2. CASE outbox # << >>
      BY <1>3, <3>2 DEF SendFooter
    <3> QED BY <3>1, <3>2
  <2> QED BY <1>3, <2>3, <2>5, <2>6 DEF SendFooter, receiver
<1>4. CASE Arrive
  BY <1>4 DEF Arrive, sender, receiver
<1>5. CASE Close
  BY <1>5 DEF Close, sender, receiver
<1>6. CASE Receive
  <2>1. UNCHANGED << sender, line, arrived, status >>
    BY <1>6, Received
  <2>2. Peeked \in Seq(Byte) /\ Len(Peeked) \in Nat /\ taken + Len(Peeked) <= arrived
    BY PeekedIs
  <2>3. Buffer \in Seq(Byte) /\ Len(Buffer) = Len(retbuf) + Len(Peeked)
    BY BufferIs
  <2>4. CASE Collects
    BY <2>1, <2>2, <2>3, <2>4 DEF Collects, sender
  <2>5. ASSUME NEW n \in Nat, Returns(n) PROVE Types'
    <3>1. n <= Len(Peeked) /\ taken' = taken + n /\ retbuf' = << >> /\ lone' = FALSE
      BY <2>2, <2>5 DEF Returns
    <3>2. SubSeq(Buffer, HEADER_LENGTH + 1, Len(retbuf) + n - HEADER_LENGTH) \in Seq(Byte)
      BY <1>00, <2>2, <2>3, <3>1
    <3>3. results' \in Seq(Seq(Byte))
      BY <2>5, <3>2 DEF Returns, PayloadUpTo
    <3>4. taken' \in Nat /\ taken' <= arrived
      BY <2>2, <3>1
    <3>5. retbuf' \in Seq(Byte)
      BY <3>1
    <3>6. UNCHANGED << outbox, part, left, stream, starts, cut, line, arrived, status >>
      BY <2>1 DEF sender
    <3>7. TypeOK'
      BY <3>4, <3>6
    <3> QED BY <3>1, <3>3, <3>4, <3>5, <3>6, <3>7
  <2> QED BY <1>6, <2>4, <2>5, Received
<1>7. CASE RejectHeader
  BY <1>7 DEF RejectHeader, sender
<1>8. CASE EndOfStream
  BY <1>8 DEF EndOfStream, sender
<1>9. CASE Shutdown
  BY <1>9 DEF Shutdown, sender
<1>10. CASE UNCHANGED vars
  BY <1>10 DEF vars, sender, receiver
<1> QED BY <1>1, <1>2, <1>3, <1>4, <1>5, <1>6, <1>7, <1>8, <1>9, <1>10 DEF Next, Send, GetMessage

\* z begins with s.
Continues(z, s) == Len(s) <= Len(z) /\ \A j \in 1 .. Len(s) : z[j] = s[j]

LEMMA AtLonger ==
    ASSUME NEW s \in Seq(Byte), NEW z \in Seq(Byte), Continues(z, s),
           NEW t \in Seq(Byte), NEW from \in Nat, from + Len(t) <= Len(s)
    PROVE  At(z, from, t) <=> At(s, from, t)
<1>1. \A j \in 1 .. Len(t) : from + j \in 1 .. Len(s)
  OBVIOUS
<1> QED BY <1>1 DEF At, Continues

LEMMA FooterLonger ==
    ASSUME NEW s \in Seq(Byte), NEW z \in Seq(Byte), Continues(z, s),
           NEW e \in Int, e <= Len(s)
    PROVE  FooterAt(z, e) <=> FooterAt(s, e)
<1>1. HEADER_LENGTH \in Nat /\ Len(s) \in Nat /\ Len(z) \in Nat /\ Len(s) <= Len(z)
  BY HeaderAssumption DEF Continues
<1>2. e \in HEADER_LENGTH .. Len(s) <=> e \in HEADER_LENGTH .. Len(z)
  BY <1>1
<1>3. ASSUME e \in HEADER_LENGTH .. Len(s)
      PROVE  At(z, e - HEADER_LENGTH, MESSAGE_FOOTER) <=> At(s, e - HEADER_LENGTH, MESSAGE_FOOTER)
  <2> DEFINE from == e - HEADER_LENGTH
  <2>1. from \in Nat /\ from + Len(MESSAGE_FOOTER) <= Len(s) /\ MESSAGE_FOOTER \in Seq(Byte)
    BY <1>1, <1>3, FooterBytes
  <2> HIDE DEF from
  <2>2. At(z, from, MESSAGE_FOOTER) <=> At(s, from, MESSAGE_FOOTER)
    BY <2>1, AtLonger
  <2> QED BY <2>2 DEF from
<1> QED BY <1>2, <1>3 DEF FooterAt

\* The footers behind the start of a message under way: the one that completes
\* it, and one that its first byte completes.
LEMMA MessageFooters ==
    ASSUME NEW s \in Seq(Byte), NEW p \in Payload, NEW st \in Nat,
           NEW n \in 0 .. HEADER_LENGTH, NEW g \in 0 .. Len(p) + HEADER_LENGTH,
           st + n + g = Len(s),
           At(s, st, SubSeq(MESSAGE_HEADER, 1, n)),
           At(s, st + n, SubSeq(p \o MESSAGE_FOOTER, 1, g)),
           NEW e \in Int, st < e, FooterAt(s, e)
    PROVE  \/ e = st + 1 /\ st >= 2 /\ s[st] = 4
           \/ e = Len(s) /\ g = Len(p) + HEADER_LENGTH
<1> DEFINE H == HEADER_LENGTH
           F == MESSAGE_FOOTER
           w == p \o MESSAGE_FOOTER
           b == e - H
<1>1. H \in Nat /\ H >= 3 /\ Len(s) \in Nat
  BY HeaderAssumption
<1>2. p \in Seq(Byte) /\ Len(p) \in Nat /\ Len(p) > 1 /\ p[1] = 0
  BY PayloadIs
<1>3. F[1] = 0 /\ F[H] = 0 /\ (\A i \in 2 .. H - 1 : F[i] = 4) /\ F \in Seq(Byte) /\ Len(F) = H
  BY FooterBytes
<1>4. w \in Seq(Byte) /\ Len(w) = Len(p) + H /\ w[1] = 0
  BY <1>2, <1>3, SMTT(30)
<1>5. e \in H .. Len(s) /\ b \in Nat /\ e = b + H /\ \A j \in 1 .. H : s[b + j] = F[j]
  BY <1>1, <1>3 DEF FooterAt, At
<1>6. \A i \in 1 .. n : s[st + i] = MESSAGE_HEADER[i]
  <2>1. Len(SubSeq(MESSAGE_HEADER, 1, n)) = n
        /\ \A i \in 1 .. n : SubSeq(MESSAGE_HEADER, 1, n)[i] = MESSAGE_HEADER[i]
    BY <1>1, HeaderBytes
  <2> QED BY <2>1 DEF At
<1> HIDE DEF w, b
<1>7. \A i \in 1 .. g : s[st + n + i] = w[i]
  <2>1. Len(SubSeq(w, 1, g)) = g /\ \A i \in 1 .. g : SubSeq(w, 1, g)[i] = w[i]
    BY <1>1, <1>2, <1>4
  <2>2. At(s, st + n, SubSeq(w, 1, g))
    BY DEF w
  <2> QED BY <2>1, <2>2 DEF At
<1>8. CASE b < st
  <2> DEFINE j == st + 1 - b
  <2>1. j \in 2 .. H /\ b + j = st + 1
    BY <1>1, <1>5, <1>8
  <2>2. s[st + 1] = 0
    <3>1. CASE n # 0
      <4>1. 1 \in 1 .. n
        BY <1>1, <3>1
      <4> QED BY <1>6, <4>1, HeaderBytes
    <3>2. CASE n = 0
      <4>1. 1 \in 1 .. g /\ st + n + 1 = st + 1
        BY <1>1, <1>2, <1>5, <3>2
      <4>2. s[st + n + 1] = w[1]
        BY <1>7, <4>1
      <4> QED BY <1>4, <4>1, <4>2
    <3> QED BY <3>1, <3>2
  <2> HIDE DEF j
  <2>3. s[b + j] = F[j]
    BY <1>1, <1>5, <2>1
  <2>4. F[j] = 0
    BY <2>1, <2>2, <2>3
  <2>5. j = H
    <3>1. ASSUME j # H PROVE FALSE
      <4>1. j \in 2 .. H - 1
        BY <1>1, <2>1, <3>1
      <4>2. F[j] = 4
        BY <1>3, <4>1
      <4> QED BY <2>4, <4>2
    <3> QED BY <3>1
  <2>6. H - 1 \in 1 .. H /\ H - 1 \in 2 .. H - 1 /\ b + (H - 1) = st
    BY <1>1, <1>5, <2>1, <2>5
  <2>7. s[st] = F[H - 1]
    BY <1>5, <2>6
  <2>8. s[st] = 4
    BY <1>3, <2>6, <2>7
  <2>9. e = st + 1 /\ st >= 2
    BY <1>1, <1>5, <2>6
  <2> QED BY <2>8, <2>9
<1>9. CASE st <= b /\ b < st + n
  <2> DEFINE i == b - st + 1
  <2>1. i \in 1 .. n /\ st + i = b + 1 /\ 1 \in 1 .. H /\ 2 \in 1 .. H /\ 2 \in 2 .. H - 1
        /\ i \in 1 .. H /\ n \in Nat
    BY <1>1, <1>5, <1>9
  <2>2. s[b + 1] = 0 /\ s[b + 2] = 4
    BY <1>3, <1>5, <2>1
  <2>3. MESSAGE_HEADER[i] = 0
    BY <1>6, <2>1, <2>2
  <2>4. i = 1 \/ i = H
    BY <1>1, <2>1, <2>3, HeaderBytes
  <2> HIDE DEF i
  <2>5. CASE i # n
    <3>1. i = 1 /\ 2 \in 1 .. n /\ st + 2 = b + 2
      BY <1>1, <1>5, <2>1, <2>4, <2>5
    <3>2. s[st + 2] = MESSAGE_HEADER[2]
      BY <1>6, <3>1
    <3>3. MESSAGE_HEADER[2] = 1
      BY <2>1, HeaderBytes
    <3> QED BY <2>2, <3>1, <3>2, <3>3
  <2>6. CASE i = n
    <3>1. 1 \in 1 .. g /\ st + n + 1 = b + 2
      BY <1>1, <1>2, <1>5, <2>1, <2>6
    <3>2. s[st + n + 1] = w[1]
      BY <1>7, <3>1
    <3> QED BY <1>4, <2>2, <3>1, <3>2
  <2> QED BY <2>5, <2>6
<1>10. CASE st + n <= b
  <2> DEFINE i == b - (st + n) + 1
  <2>1. i \in Nat /\ i >= 1 /\ i + H - 1 <= g /\ g \in Nat /\ n \in Nat /\ b = st + n + i - 1
    BY <1>1, <1>2, <1>5, <1>10
  <2> HIDE DEF i
  <2>2. CASE i <= Len(p)
    <3> DEFINE z == SubSeq(w, i, i + H - 1)
    <3>1. z \in Seq(Byte) /\ Len(z) = H /\ \A j \in 1 .. H : z[j] = w[i + j - 1]
      BY <1>1, <1>2, <1>4, <2>1, <2>2
    <3>2. ASSUME NEW j \in 1 .. H PROVE z[j] = F[j]
      <4> DEFINE k == i + j - 1
      <4>1. k \in 1 .. g /\ st + n + k = b + j
        BY <1>1, <2>1
      <4>2. s[st + n + k] = w[k]
        BY <1>7, <4>1
      <4>3. s[b + j] = F[j]
        BY <1>5
      <4> QED BY <3>1, <4>1, <4>2, <4>3
    <3> HIDE DEF z
    <3>3. z = F
      BY <1>3, <3>1, <3>2
    <3>4. i \in 1 .. Len(p)
      BY <2>1, <2>2
    <3>5. SubSeq(p \o MESSAGE_FOOTER, i, i + HEADER_LENGTH - 1) # MESSAGE_FOOTER
      BY <3>4, PayloadAssumption
    <3> QED BY <3>3, <3>5 DEF z, w
  <2>3. CASE i > Len(p)
    <3>1. g = Len(p) + H /\ i = Len(p) + 1
      BY <1>1, <1>2, <2>1, <2>3
    <3>2. e = st + n + g
      BY <1>1, <1>2, <1>5, <2>1, <3>1
    <3> QED BY <3>1, <3>2
  <2> QED BY <1>2, <2>1, <2>2, <2>3
<1> QED BY <1>1, <1>5, <1>8, <1>9, <1>10

LEMMA FrameOf ==
    ASSUME NEW p \in Seq(Byte)
    PROVE  /\ Frame(p) \in Seq(Byte) /\ Len(Frame(p)) = 2 * HEADER_LENGTH + Len(p)
           /\ \A i \in 1 .. HEADER_LENGTH : Frame(p)[i] = MESSAGE_HEADER[i]
           /\ \A i \in 1 .. Len(p) : Frame(p)[HEADER_LENGTH + i] = p[i]
           /\ \A i \in 1 .. HEADER_LENGTH : Frame(p)[HEADER_LENGTH + Len(p) + i] = MESSAGE_FOOTER[i]
<1> DEFINE H == MESSAGE_HEADER
           F == MESSAGE_FOOTER
           b == H \o p
<1>1. H \in Seq(Byte) /\ F \in Seq(Byte) /\ Len(H) = HEADER_LENGTH /\ Len(F) = HEADER_LENGTH
      /\ p \in Seq(Byte) /\ Len(p) \in Nat /\ HEADER_LENGTH \in Nat
  BY HeaderBytes, FooterBytes, HeaderAssumption
<1>2. Frame(p) = b \o F
  BY DEF Frame
<1> HIDE DEF H, F
<1>3. /\ b \in Seq(Byte) /\ Len(b) = HEADER_LENGTH + Len(p)
      /\ \A j \in 1 .. HEADER_LENGTH : b[j] = H[j]
      /\ \A j \in 1 .. Len(p) : b[HEADER_LENGTH + j] = p[j]
  <2>1. /\ H \o p \in Seq(Byte) /\ Len(H \o p) = Len(H) + Len(p)
        /\ \A j \in 1 .. Len(H) : (H \o p)[j] = H[j]
        /\ \A j \in 1 .. Len(p) : (H \o p)[Len(H) + j] = p[j]
    BY ONLY <1>1, MoreSent
  <2> QED BY <1>1, <2>1
<1> HIDE DEF b
<1>7. /\ b \o F \in Seq(Byte) /\ Len(b \o F) = Len(b) + Len(F)
      /\ \A j \in 1 .. Len(b) : (b \o F)[j] = b[j]
      /\ \A j \in 1 .. Len(F) : (b \o F)[Len(b) + j] = F[j]
  <2>1. b \in Seq(Byte) /\ F \in Seq(Byte)
    BY <1>1, <1>3
  <2> QED BY ONLY <2>1, MoreSent
<1>4. /\ b \o F \in Seq(Byte) /\ Len(b \o F) = Len(b) + HEADER_LENGTH
      /\ \A j \in 1 .. Len(b) : (b \o F)[j] = b[j]
      /\ \A j \in 1 .. HEADER_LENGTH : (b \o F)[Len(b) + j] = F[j]
  BY <1>1, <1>7
<1>5. \A j \in 1 .. HEADER_LENGTH : j \in 1 .. Len(b)
  BY <1>1, <1>3
<1>6. \A j \in 1 .. Len(p) : HEADER_LENGTH + j \in 1 .. Len(b)
  BY <1>1, <1>3
<1> QED BY <1>1, <1>2, <1>3, <1>4, <1>5, <1>6 DEF H, F

LEMMA FrameIs ==
    ASSUME NEW p \in Payload
    PROVE  /\ Frame(p) \in Seq(Byte) /\ Len(Frame(p)) = 2 * HEADER_LENGTH + Len(p)
           /\ \A i \in 1 .. HEADER_LENGTH : Frame(p)[i] = MESSAGE_HEADER[i]
           /\ \A i \in 1 .. Len(p) : Frame(p)[HEADER_LENGTH + i] = p[i]
           /\ \A i \in 1 .. HEADER_LENGTH : Frame(p)[HEADER_LENGTH + Len(p) + i] = MESSAGE_FOOTER[i]
BY PayloadIs, FrameOf

\* Unless a header or footer is incomplete, the bytes sent end with 0 between
\* two messages.
LEMMA LastByte ==
    ASSUME Types, InOrder, WholeMessages, cut = {}, part = "header", starts # << >>
    PROVE  stream[Len(stream)] = 0
<1> DEFINE K == Len(starts)
<1>1. K \in DOMAIN starts /\ K \in Nat /\ starts[K] \in Nat /\ Len(stream) \in Nat
      /\ ~ (K < Len(starts))
  BY DEF Types
<1>2. PICK p \in Payload : EndOf(K) = starts[K] + Len(Frame(p)) /\ At(stream, starts[K], Frame(p))
  BY <1>1 DEF WholeMessages
<1>3. EndOf(K) = Len(stream)
  BY <1>1 DEF EndOf
<1> DEFINE n == HEADER_LENGTH + Len(p) + HEADER_LENGTH
<1>4. Len(p) \in Nat /\ HEADER_LENGTH \in Nat /\ HEADER_LENGTH >= 3
  BY PayloadIs, HeaderAssumption
<1>5. Frame(p)[n] = MESSAGE_FOOTER[HEADER_LENGTH] /\ Len(Frame(p)) = n
  BY <1>4, FrameIs
<1>6. Frame(p)[n] = 0
  BY <1>5, FooterBytes
<1>7. n \in 1 .. Len(Frame(p))
  BY <1>4, <1>5
<1>8. stream[starts[K] + n] = Frame(p)[n]
  BY <1>2, <1>7 DEF At
<1> QED BY <1>2, <1>3, <1>5, <1>6, <1>8

LEMMA SentInit == Init => Sent
<1> SUFFICES ASSUME Init PROVE Sent
  OBVIOUS
<1>1. stream = << >> /\ starts = << >> /\ part = "header" /\ Len(stream) = 0 /\ DOMAIN starts = {}
  BY DEF Init
<1> QED BY <1>1 DEF Sent, InOrder, UnderWay, FootersEndMessages, WholeMessages

\* What a step leaves alone: all that was sent, and where it can be divided.
Grows == /\ stream' \in Seq(Byte) /\ Continues(stream', stream)
         /\ Boundaries \subseteq Boundaries' /\ Starts \subseteq Starts'
         /\ cut # {} => cut' # {}

\* The footers that were there before.
LEMMA OldFooters ==
    ASSUME Types, FootersEndMessages, Grows,
           \A e \in Len(stream) + 1 .. Len(stream') :
               FooterAt(stream', e) => e \in Boundaries' \/ (e - 1 \in Starts' /\ cut' # {})
    PROVE  FootersEndMessages'
<1> SUFFICES ASSUME NEW e \in 1 .. Len(stream'), FooterAt(stream', e)
             PROVE  e \in Boundaries' \/ (e - 1 \in Starts' /\ cut' # {})
  BY DEF FootersEndMessages
<1> USE DEF Grows
<1>1. stream \in Seq(Byte) /\ Len(stream) \in Nat
  BY DEF Types
<1>2. CASE e <= Len(stream)
  <2>1. FooterAt(stream, e)
    BY <1>1, <1>2, FooterLonger
  <2>2. e \in 1 .. Len(stream)
    BY <1>1, <1>2
  <2> QED BY <2>1, <2>2 DEF FootersEndMessages
<1>3. CASE ~ (e <= Len(stream))
  <2>1. e \in Len(stream) + 1 .. Len(stream')
    BY <1>1, <1>3
  <2> QED BY <2>1
<1> QED BY <1>2, <1>3

\* The messages that were whole before.
LEMMA OldMessages ==
    ASSUME Types, InOrder, stream' \in Seq(Byte), Continues(stream', stream),
           NEW k \in DOMAIN starts, NEW p \in Payload,
           EndOf(k) = starts[k] + Len(Frame(p)), At(stream, starts[k], Frame(p))
    PROVE  At(stream', starts[k], Frame(p))
<1>1. stream \in Seq(Byte) /\ starts[k] \in Nat /\ Frame(p) \in Seq(Byte)
  BY FrameIs DEF Types
<1>2. EndOf(k) <= Len(stream)
  BY DEF EndOf, InOrder, Types
<1>3. starts[k] + Len(Frame(p)) <= Len(stream)
  BY <1>2
<1> QED BY <1>1, <1>3, AtLonger

LEMMA SendsHeader ==
    ASSUME Types, Types', Sent, SendHeader
    PROVE  Sent' /\ Grows
<1> DEFINE H  == HEADER_LENGTH
           st == Len(stream)
           K  == Len(starts)
           p  == Head(outbox)
<1>1. /\ part = "header" /\ part' = "body" /\ outbox # << >> /\ outbox' = outbox
      /\ starts' = Append(starts, st) /\ left' = p
  BY DEF SendHeader
<1>2. PICK b \in Ignoring(MESSAGE_HEADER) :
           /\ stream' = stream \o b
           /\ cut' = IF b = MESSAGE_HEADER THEN cut ELSE cut \cup { MessageNumber + 1 }
  BY DEF SendHeader
<1>3. b \in Seq(Byte) /\ \E n \in 0 .. Len(MESSAGE_HEADER) :
         b = SubSeq(MESSAGE_HEADER, 1, n) /\ Len(b) = n /\ (n # Len(MESSAGE_HEADER) => b # MESSAGE_HEADER)
  BY HeaderBytes, Ignored
<1>4. PICK n \in 0 .. H : b = SubSeq(MESSAGE_HEADER, 1, n) /\ Len(b) = n /\ (n # H => b # MESSAGE_HEADER)
  BY <1>3, HeaderBytes
<1>5. /\ stream \in Seq(Byte) /\ st \in Nat /\ starts \in Seq(Nat) /\ K \in Nat /\ H \in Nat /\ H >= 3
      /\ p \in Payload /\ outbox \in Seq(Payload)
  BY <1>1, HeaderAssumption DEF Types, TypeOK
<1>6. p \in Seq(Byte) /\ Len(p) \in Nat /\ Len(p) > 1
  BY <1>5, PayloadIs
<1> HIDE DEF st, K, p
<1>7. /\ stream' \in Seq(Byte) /\ Len(stream') = st + n /\ Continues(stream', stream)
      /\ \A j \in 1 .. n : stream'[st + j] = b[j]
  <2>1. /\ stream \o b \in Seq(Byte) /\ Len(stream \o b) = Len(stream) + Len(b)
        /\ \A j \in 1 .. Len(stream) : (stream \o b)[j] = stream[j]
        /\ \A j \in 1 .. Len(b) : (stream \o b)[Len(stream) + j] = b[j]
    BY <1>3, <1>5, MoreSent
  <2> QED BY <1>2, <1>4, <1>5, <2>1 DEF Continues, st
<1>8. /\ Len(starts') = K + 1 /\ starts'[K + 1] = st /\ \A k \in 1 .. K : starts'[k] = starts[k]
      /\ DOMAIN starts = 1 .. K /\ DOMAIN starts' = 1 .. K + 1
  BY <1>1, <1>5 DEF K
<1>9. Starts' = Starts \cup { st } /\ Boundaries' = Boundaries
  <2>1. Starts' = Starts \cup { st }
    <3>1. \A k \in DOMAIN starts' : starts'[k] \in Starts \cup { st }
      <4> TAKE k \in DOMAIN starts'
      <4>1. k \in DOMAIN starts \/ k = K + 1
        BY <1>5, <1>8
      <4> QED BY <1>8, <4>1 DEF Starts
    <3>2. Starts \subseteq Starts'
      <4>1. \A k \in DOMAIN starts : k \in DOMAIN starts' /\ starts'[k] = starts[k]
        BY <1>5, <1>8
      <4> QED BY <4>1 DEF Starts
    <3>3. K + 1 \in DOMAIN starts'
      BY <1>5, <1>8
    <3>4. st \in Starts'
      BY <1>8, <3>3 DEF Starts
    <3> QED BY <3>1, <3>2, <3>4 DEF Starts
  <2>2. Boundaries = Starts \cup { st } /\ Boundaries' = Starts'
    BY <1>1 DEF Boundaries, Starts, st
  <2> QED BY <2>1, <2>2
<1>10. InOrder'
  <2>1. starts' # << >>
    BY <1>5, <1>8
  <2>2. ASSUME NEW k \in DOMAIN starts' PROVE starts'[k] <= Len(stream')
    <3>1. CASE k = K + 1
      BY <1>5, <1>7, <1>8, <3>1
    <3>2. CASE k # K + 1
      <4>1. k \in DOMAIN starts /\ starts'[k] = starts[k] /\ starts[k] \in Nat
        BY <1>5, <1>8, <3>2
      <4>2. starts[k] <= st
        BY <4>1 DEF Sent, InOrder, st
      <4> QED BY <1>5, <1>7, <4>1, <4>2
    <3> QED BY <3>1, <3>2
  <2>3. ASSUME NEW j \in DOMAIN starts', NEW k \in DOMAIN starts', j < k PROVE starts'[j] < starts'[k]
    <3>1. j \in DOMAIN starts /\ starts'[j] = starts[j]
      BY <1>5, <1>8, <2>3
    <3>2. CASE k = K + 1
      <4>1. starts[j] < st
        BY <1>1, <3>1 DEF Sent, InOrder, st
      <4> QED BY <1>8, <3>1, <3>2, <4>1
    <3>3. CASE k # K + 1
      <4>1. k \in DOMAIN starts /\ starts'[k] = starts[k]
        BY <1>5, <1>8, <3>3
      <4> QED BY <2>3, <3>1, <4>1 DEF Sent, InOrder
    <3> QED BY <3>2, <3>3
  <2> QED BY <1>1, <2>1, <2>2, <2>3 DEF InOrder
<1>11. n # H => cut' # {}
  BY <1>2, <1>4
<1>12. At(stream', st, SubSeq(MESSAGE_HEADER, 1, n))
  BY <1>4, <1>7 DEF At
<1>13. UnderWay'
  <2>1. Last(starts') = st
    BY <1>8 DEF Last
  <2>2. SubSeq(p, 1, 0) = << >> /\ SubSeq(p, 0 + 1, Len(p)) = p /\ 0 \in 0 .. Len(p)
    BY <1>6
  <2>3. At(stream', st + n, SubSeq(p, 1, 0))
    BY <2>2 DEF At
  <2>4. Sending(n, 0)'
    <3>1. p' = p
      BY <1>1 DEF p
    <3>2. Head(outbox') = p
      BY <1>1 DEF p
    <3>3. Last(starts') + n + 0 = Len(stream')
      BY <1>5, <1>7, <2>1
    <3>4. At(stream', Last(starts'), SubSeq(MESSAGE_HEADER, 1, n))
      BY <1>12, <2>1
    <3>5. At(stream', Last(starts') + n, SubSeq(Head(outbox'), 1, 0))
      BY <2>1, <2>3, <3>2
    <3>6. left' = SubSeq(Head(outbox'), 0 + 1, Len(Head(outbox')))
      BY <1>1, <2>2, <3>2
    <3>7. part' = "footer" <=> 0 = Len(Head(outbox'))
      <4>1. part' # "footer" /\ 0 # Len(p)
        BY <1>1, <1>6
      <4> QED BY <3>2, <4>1
    <3> QED BY <1>11, <3>3, <3>4, <3>5, <3>6, <3>7 DEF Sending
  <2> QED BY <1>1, <2>2, <2>4 DEF UnderWay, p
<1>16. Grows
  BY <1>2, <1>7, <1>9 DEF Grows
<1>14. FootersEndMessages'
  <2>2. ASSUME NEW e \in Len(stream) + 1 .. Len(stream'), FooterAt(stream', e)
        PROVE  e \in Boundaries' \/ (e - 1 \in Starts' /\ cut' # {})
    <3> DEFINE z == stream'
    <3>1. At(z, st + n, SubSeq(p \o MESSAGE_FOOTER, 1, 0))
      <4>1. Len(SubSeq(p \o MESSAGE_FOOTER, 1, 0)) = 0
        OBVIOUS
      <4> QED BY <4>1 DEF At
    <3>2. z \in Seq(Byte) /\ 0 \in 0 .. Len(p) + HEADER_LENGTH /\ st + n + 0 = Len(z) /\ e \in Int /\ st < e
      BY <1>5, <1>6, <1>7 DEF st
    <3>3. At(z, st, SubSeq(MESSAGE_HEADER, 1, n)) /\ FooterAt(z, e)
      BY <1>12, <2>2
    <3> HIDE DEF z
    <3>4. \/ e = st + 1 /\ st >= 2 /\ z[st] = 4
          \/ e = Len(z) /\ 0 = Len(p) + HEADER_LENGTH
      BY ONLY <1>5, n \in 0 .. H, <3>1, <3>2, <3>3, MessageFooters
    <3>5. e = st + 1 /\ st >= 2 /\ z[st] = 4
      BY <1>5, <1>6, <3>4
    <3>6. e - 1 \in Starts'
      BY <1>5, <1>9, <3>5
    <3>7. ASSUME cut' = {} PROVE FALSE
      <4>1. cut = {}
        BY <1>2, <3>7
      <4>2. starts # << >>
        <5>1. stream # << >>
          BY <3>5 DEF st
        <5> QED BY <5>1 DEF Sent, InOrder
      <4>3. stream[st] = 0
        BY <1>1, <4>1, <4>2, LastByte DEF Sent, st
      <4>4. z[st] = stream[st]
        BY <1>5, <1>7, <3>5 DEF Continues, st, z
      <4> QED BY <3>5, <4>3, <4>4
    <3> QED BY <3>6, <3>7
  <2> QED BY <1>16, <2>2, OldFooters DEF Sent
<1>15. WholeMessages'
  <2> SUFFICES ASSUME cut' = {}, NEW k \in DOMAIN starts', k < Len(starts')
               PROVE  \E q \in Payload : /\ EndOf(k)' = starts'[k] + Len(Frame(q))
                                         /\ At(stream', starts'[k], Frame(q))
    BY <1>1 DEF WholeMessages
  <2>1. cut = {}
    BY <1>2
  <2>2. k \in DOMAIN starts /\ starts'[k] = starts[k]
    BY <1>5, <1>8
  <2>3. PICK q \in Payload : EndOf(k) = starts[k] + Len(Frame(q)) /\ At(stream, starts[k], Frame(q))
    BY <1>1, <2>1, <2>2 DEF Sent, WholeMessages
  <2>4. At(stream', starts[k], Frame(q))
    BY <1>7, <2>2, <2>3, OldMessages DEF Sent
  <2>5. EndOf(k)' = EndOf(k)
    <3>1. EndOf(k)' = starts'[k + 1]
      BY DEF EndOf
    <3>2. CASE k = K
      <4>1. EndOf(k) = st
        BY <1>5, <3>2 DEF EndOf, K, st
      <4> QED BY <1>8, <3>1, <3>2, <4>1
    <3>3. CASE k # K
      <4>1. k + 1 \in 1 .. K /\ k < K
        BY <1>5, <1>8, <2>2, <3>3
      <4>2. EndOf(k) = starts[k + 1]
        BY <4>1 DEF EndOf, K
      <4> QED BY <1>8, <3>1, <4>1, <4>2
    <3> QED BY <3>2, <3>3
  <2> QED BY <2>2, <2>3, <2>4, <2>5
<1> QED BY <1>10, <1>13, <1>14, <1>15, <1>16 DEF Sent

\* What UnderWay tells of the message that is being sent.
LEMMA CurrentMessage ==
    ASSUME Types, Sent, part # "header"
    PROVE  /\ outbox # << >> /\ Head(outbox) \in Payload
           /\ starts # << >> /\ Last(starts) = starts[Len(starts)] /\ Last(starts) \in Nat
           /\ Len(starts) \in DOMAIN starts /\ Len(starts) \in Nat /\ Last(starts) \in Starts
           /\ Boundaries = Starts /\ Last(starts) <= Len(stream)
           /\ \E n \in 0 .. HEADER_LENGTH : \E m \in 0 .. Len(Head(outbox)) : Sending(n, m)
<1>1. starts # << >>
  BY DEF Sent, InOrder
<1>2. outbox # << >> /\ \E n \in 0 .. HEADER_LENGTH : \E m \in 0 .. Len(Head(outbox)) : Sending(n, m)
  BY DEF Sent, UnderWay
<1>3. Head(outbox) \in Payload
  BY <1>2 DEF Types, TypeOK
<1>4. Len(starts) \in DOMAIN starts /\ Len(starts) \in Nat /\ starts[Len(starts)] \in Nat
  BY <1>1 DEF Types
<1>5. Last(starts) = starts[Len(starts)]
  BY DEF Last
<1>6. Last(starts) \in Starts /\ Last(starts) <= Len(stream)
  BY <1>4, <1>5 DEF Starts, Sent, InOrder
<1>7. Boundaries = Starts
  BY DEF Boundaries, Starts
<1> QED BY <1>1, <1>2, <1>3, <1>4, <1>5, <1>6, <1>7

LEMMA SendsBody ==
    ASSUME Types, Types', Sent, SendBody
    PROVE  Sent' /\ Grows
<1> DEFINE H  == HEADER_LENGTH
           st == Last(starts)
           p  == Head(outbox)
<1>1. /\ part = "body" /\ outbox' = outbox /\ starts' = starts /\ cut' = cut
      /\ part' = IF left' = << >> THEN "footer" ELSE "body"
  BY DEF SendBody
<1>2. /\ outbox # << >> /\ p \in Payload /\ starts # << >> /\ st \in Nat /\ st \in Starts
      /\ Boundaries = Starts /\ \E n \in 0 .. H : \E m \in 0 .. Len(p) : Sending(n, m)
  BY <1>1, CurrentMessage
<1>3. PICK n \in 0 .. H, m \in 0 .. Len(p) : Sending(n, m)
  BY <1>2
<1>4. p \in Seq(Byte) /\ Len(p) \in Nat /\ Len(p) > 1 /\ H \in Nat /\ H >= 3 /\ MTU \in Nat
      /\ stream \in Seq(Byte) /\ left \in Seq(Byte) /\ Len(stream) \in Nat /\ Len(left) \in Nat
  <2>1. p \in Seq(Byte) /\ Len(p) \in Nat /\ Len(p) > 1
    <3> HIDE DEF p
    <3> QED BY <1>2, PayloadIs
  <2>2. stream \in Seq(Byte) /\ left \in Seq(Byte) /\ Len(stream) \in Nat /\ Len(left) \in Nat
    BY DEF Types
  <2> QED BY <2>1, <2>2, HeaderAssumption, MTUAssumption
<1>5. PICK c \in 1 .. Min({MTU, Len(left)}) :
           stream' = stream \o SubSeq(left, 1, c) /\ left' = SubSeq(left, c + 1, Len(left))
  BY DEF SendBody
<1>6. c \in Nat /\ 1 <= c /\ c <= Len(left)
  BY ONLY <1>4, c \in 1 .. Min({MTU, Len(left)}), LeastOf
<1>7. /\ st + n + m = Len(stream)
      /\ At(stream, st, SubSeq(MESSAGE_HEADER, 1, n))
      /\ At(stream, st + n, SubSeq(p, 1, m))
      /\ left = SubSeq(p, m + 1, Len(p))
      /\ n # H => cut # {}
  BY <1>3 DEF Sending
<1> HIDE DEF st, p
<1> DEFINE b == SubSeq(left, 1, c)
<1>8. Len(left) = Len(p) - m /\ \A j \in 1 .. Len(left) : left[j] = p[m + j]
  BY <1>4, <1>7
<1>9. b \in Seq(Byte) /\ Len(b) = c /\ \A j \in 1 .. c : b[j] = p[m + j]
  BY <1>4, <1>6, <1>8
<1>10. m + c \in 0 .. Len(p)
  BY <1>4, <1>6, <1>8
<1>20. /\ st \in Nat /\ n \in Nat /\ m \in Nat /\ c \in Nat /\ Len(stream) \in Nat
       /\ st + n + m = Len(stream) /\ m + c <= Len(p) /\ Len(p) \in Nat
  <2>1. st + n + m = Len(stream)
    BY <1>7
  <2>2. n \in Nat /\ m \in Nat /\ m + c <= Len(p)
    BY <1>4, <1>10
  <2> QED BY <1>2, <1>4, <1>6, <2>1, <2>2
<1>11. left' = SubSeq(p, (m + c) + 1, Len(p))
  <2> DEFINE u == SubSeq(left, c + 1, Len(left))
             v == SubSeq(p, (m + c) + 1, Len(p))
  <2>1. u \in Seq(Byte) /\ Len(u) = Len(left) - c /\ \A j \in 1 .. Len(left) - c : u[j] = left[c + j]
    BY <1>4, <1>6
  <2>2. v \in Seq(Byte) /\ Len(v) = Len(p) - (m + c) /\ \A j \in 1 .. Len(p) - (m + c) : v[j] = p[(m + c) + j]
    BY <1>4, <1>10
  <2> HIDE DEF u, v
  <2>3. Len(u) = Len(v)
    BY <1>4, <1>6, <1>8, <2>1, <2>2
  <2>4. ASSUME NEW j \in 1 .. Len(u) PROVE u[j] = v[j]
    <3>1. c + j \in 1 .. Len(left) /\ m + (c + j) = (m + c) + j
      BY <1>4, <1>6, <2>1
    <3>2. u[j] = left[c + j] /\ left[c + j] = p[m + (c + j)] /\ v[j] = p[(m + c) + j]
      BY <1>8, <2>1, <2>2, <2>3, <3>1
    <3> QED BY <3>1, <3>2
  <2>5. u = v
    BY ONLY <2>1, <2>2, <2>3, <2>4, SeqEqual
  <2> QED BY <1>5, <2>5 DEF u, v
<1>12. left' = << >> <=> m + c = Len(p)
  <2>1. Len(left') = Len(p) - (m + c) /\ left' \in Seq(Byte)
    BY <1>4, <1>10, <1>11
  <2> QED BY <1>4, <1>10, <2>1
<1>13. /\ stream' \in Seq(Byte) /\ Len(stream') = Len(stream) + c /\ Continues(stream', stream)
       /\ \A j \in 1 .. c : stream'[Len(stream) + j] = b[j]
  <2>1. /\ stream \o b \in Seq(Byte) /\ Len(stream \o b) = Len(stream) + Len(b)
        /\ \A j \in 1 .. Len(stream) : (stream \o b)[j] = stream[j]
        /\ \A j \in 1 .. Len(b) : (stream \o b)[Len(stream) + j] = b[j]
    <3>1. b \in Seq(Byte) /\ stream \in Seq(Byte)
      BY <1>4, <1>9
    <3> HIDE DEF b
    <3> QED BY ONLY <3>1, MoreSent
  <2>2. stream' = stream \o b
    BY <1>5
  <2> HIDE DEF b
  <2> QED BY <1>4, <1>6, <1>9, <2>1, <2>2 DEF Continues
<1> HIDE DEF b
<1>14. At(stream', st, SubSeq(MESSAGE_HEADER, 1, n))
  <2> DEFINE t == SubSeq(MESSAGE_HEADER, 1, n)
  <2>1. t \in Seq(Byte) /\ Len(t) = n
    BY <1>4, HeaderBytes
  <2>2. st + Len(t) <= Len(stream) /\ At(stream, st, t)
    BY <1>2, <1>4, <1>7, <2>1
  <2> HIDE DEF t
  <2>3. At(stream', st, t)
    BY <1>2, <1>4, <1>13, <2>1, <2>2, AtLonger
  <2> QED BY <2>3 DEF t
<1>15. \A j \in 1 .. m + c : stream'[st + n + j] = p[j]
  <2> TAKE j \in 1 .. m + c
  <2>1. CASE j <= m
    <3>1. j \in 1 .. m /\ st + n + j \in 1 .. Len(stream)
      BY <1>2, <1>4, <1>7, <1>10, <2>1
    <3>2. Len(SubSeq(p, 1, m)) = m /\ SubSeq(p, 1, m)[j] = p[j]
      BY <1>4, <3>1
    <3>3. stream[st + n + j] = p[j]
      BY <1>7, <3>1, <3>2 DEF At
    <3> QED BY <1>13, <3>1, <3>3 DEF Continues
  <2>2. CASE j > m
    <3> DEFINE i == j - m
    <3>1. i \in 1 .. c /\ m + i = j /\ st + n + j = Len(stream) + i
      BY <1>20, <2>2
    <3> HIDE DEF i
    <3> QED BY <1>9, <1>13, <3>1
  <2> QED BY <1>10, <2>1, <2>2
<1>16. InOrder'
  <2>1. Len(stream) <= Len(stream') /\ part' # "header"
    BY <1>1, <1>4, <1>6, <1>13
  <2>2. \A k \in DOMAIN starts : starts[k] <= Len(stream')
    <3>1. \A k \in DOMAIN starts : starts[k] <= Len(stream)
      BY DEF Sent, InOrder
    <3>2. \A k \in DOMAIN starts : starts[k] \in Nat
      <4>1. starts \in Seq(Nat)
        BY DEF Types
      <4> QED BY ONLY <4>1
    <3> QED BY <3>2, <1>4, <1>6, <1>13, <3>1
  <2> QED BY <1>1, <1>2, <2>1, <2>2 DEF Sent, InOrder
<1>17. UnderWay'
  <2>1. Head(outbox') = p /\ Last(starts') = st
    BY <1>1 DEF p, st
  <2>2. st + n + (m + c) = Len(stream')
    BY <1>13, <1>20
  <2>3. At(stream', st + n, SubSeq(p, 1, m + c))
    <3>1. Len(SubSeq(p, 1, m + c)) = m + c /\ \A j \in 1 .. m + c : SubSeq(p, 1, m + c)[j] = p[j]
      BY <1>4, <1>10
    <3> QED BY <1>15, <3>1 DEF At
  <2>4. part' = "footer" <=> m + c = Len(p)
    BY <1>1, <1>12
  <2>5. n # H => cut' # {}
    BY <1>1, <1>7
  <2> DEFINE mc == m + c
  <2>6. mc \in 0 .. Len(p)
    BY <1>10
  <2>7. Sending(n, mc)'
    BY <1>11, <1>14, <2>1, <2>2, <2>3, <2>4, <2>5 DEF Sending
  <2> QED BY <1>1, <1>2, <2>1, <2>6, <2>7 DEF UnderWay
<1>21. Starts' = Starts /\ Boundaries' = Boundaries
  BY <1>1, <1>2 DEF Boundaries, Starts
<1>22. Grows
  BY <1>1, <1>13, <1>21 DEF Grows
<1>18. FootersEndMessages'
  <2>2. ASSUME NEW e \in Len(stream) + 1 .. Len(stream'), FooterAt(stream', e)
        PROVE  e \in Boundaries' \/ (e - 1 \in Starts' /\ cut' # {})
    <3> DEFINE z == stream'
               g == m + c
               w == p \o MESSAGE_FOOTER
    <3>0. w \in Seq(Byte) /\ Len(w) = Len(p) + H /\ \A j \in 1 .. Len(p) : w[j] = p[j]
      <4>1. p \in Seq(Byte) /\ MESSAGE_FOOTER \in Seq(Byte) /\ Len(MESSAGE_FOOTER) = H
        BY <1>4, FooterBytes
      <4> QED BY <4>1, MoreSent
    <3> HIDE DEF w
    <3>10. g \in Nat /\ g <= Len(p)
      BY <1>4, <1>10
    <3>1. At(z, st + n, SubSeq(w, 1, g))
      <4>1. Len(SubSeq(w, 1, g)) = g /\ \A j \in 1 .. g : SubSeq(w, 1, g)[j] = w[j]
        BY <1>4, <3>0, <3>10
      <4>2. \A j \in 1 .. g : w[j] = p[j]
        <5>1. \A j \in 1 .. g : j \in 1 .. Len(p)
          BY <1>4, <3>10
        <5> QED BY <3>0, <5>1
      <4> QED BY <1>15, <4>1, <4>2 DEF At
    <3>2. z \in Seq(Byte) /\ g \in 0 .. Len(p) + HEADER_LENGTH /\ st + n + g = Len(z) /\ e \in Int /\ st < e
      <4>1. z \in Seq(Byte) /\ g \in 0 .. Len(p) + HEADER_LENGTH
        BY <1>4, <1>13, <3>10
      <4>0. Len(stream') = Len(stream) + c
        BY <1>13
      <4>4. Len(stream) = st + n + m /\ Len(stream) + c = st + n + m + c
        BY <1>20
      <4>5. e > Len(stream)
        BY <1>20, <4>0
      <4>2. Len(z) = st + n + m + c /\ e > st + n + m
        BY <4>0, <4>4, <4>5
      <4>3. st \in Nat /\ n \in Nat /\ m \in Nat /\ c \in Nat /\ e \in Int
        BY <1>2, <1>4, <1>6
      <4> QED BY <4>1, <4>2, <4>3
    <3>3. At(z, st, SubSeq(MESSAGE_HEADER, 1, n)) /\ FooterAt(z, e)
      BY <1>14, <2>2
    <3>4. At(z, st + n, SubSeq(p \o MESSAGE_FOOTER, 1, g)) /\ st \in Nat /\ p \in Payload
      BY <1>2, <3>1 DEF w
    <3>5. g < Len(p) + HEADER_LENGTH
      BY <1>4, <1>10
    <3> HIDE DEF z, g
    <3>6. \/ e = st + 1 /\ st >= 2 /\ z[st] = 4
          \/ e = Len(z) /\ g = Len(p) + HEADER_LENGTH
      BY ONLY <3>4, n \in 0 .. H, <3>2, <3>3, MessageFooters
    <3>7. e = st + 1
      BY <1>4, <3>5, <3>6
    <3>8. e - 1 = st /\ n # H
      BY <1>2, <1>4, <1>7, <3>7
    <3> QED BY <1>1, <1>2, <1>7, <1>21, <3>8
  <2> QED BY <1>22, <2>2, OldFooters DEF Sent
<1>19. WholeMessages'
  <2> SUFFICES ASSUME cut' = {}, NEW k \in DOMAIN starts, k < Len(starts)
               PROVE  \E q \in Payload : /\ EndOf(k)' = starts[k] + Len(Frame(q))
                                         /\ At(stream', starts[k], Frame(q))
    BY <1>1 DEF WholeMessages
  <2>1. PICK q \in Payload : EndOf(k) = starts[k] + Len(Frame(q)) /\ At(stream, starts[k], Frame(q))
    BY <1>1 DEF Sent, WholeMessages
  <2>2. At(stream', starts[k], Frame(q))
    BY <1>13, <2>1, OldMessages DEF Sent
  <2>3. EndOf(k)' = EndOf(k)
    BY <1>1 DEF EndOf
  <2> QED BY <2>1, <2>2, <2>3
<1> QED BY <1>16, <1>17, <1>18, <1>19, <1>22 DEF Sent

LEMMA SendsFooter ==
    ASSUME Types, Types', Sent, SendFooter
    PROVE  Sent' /\ Grows
<1> DEFINE H  == HEADER_LENGTH
           st == Last(starts)
           p  == Head(outbox)
           K  == Len(starts)
           w  == p \o MESSAGE_FOOTER
<1>1. part = "footer" /\ part' = "header" /\ starts' = starts
  BY DEF SendFooter
<1>2. /\ p \in Payload /\ starts # << >> /\ st = starts[K] /\ st \in Nat /\ K \in DOMAIN starts
      /\ K \in Nat /\ st \in Starts
      /\ Boundaries = Starts /\ \E n \in 0 .. H : \E m \in 0 .. Len(p) : Sending(n, m)
  BY <1>1, CurrentMessage
<1>3. PICK n \in 0 .. H, m \in 0 .. Len(p) : Sending(n, m)
  BY <1>2
<1>4. /\ stream \in Seq(Byte) /\ Len(stream) \in Nat /\ H \in Nat /\ H >= 3
      /\ MESSAGE_FOOTER \in Seq(Byte) /\ Len(MESSAGE_FOOTER) = H
  BY HeaderAssumption, FooterBytes DEF Types
<1>5. /\ st + n + m = Len(stream)
      /\ At(stream, st, SubSeq(MESSAGE_HEADER, 1, n))
      /\ At(stream, st + n, SubSeq(p, 1, m))
      /\ n # H => cut # {}
  BY <1>3 DEF Sending
<1>6. m = Len(p)
  BY <1>1, <1>3 DEF Sending
<1> HIDE DEF st, p, w
<1>7. p \in Seq(Byte) /\ Len(p) \in Nat /\ Len(p) > 1
  BY <1>2, PayloadIs
<1>8. PICK b \in Ignoring(MESSAGE_FOOTER) :
           /\ stream' = stream \o b
           /\ cut' = IF b = MESSAGE_FOOTER THEN cut ELSE cut \cup { MessageNumber }
  BY DEF SendFooter
<1>9. b \in Seq(Byte) /\ \E f \in 0 .. Len(MESSAGE_FOOTER) :
         b = SubSeq(MESSAGE_FOOTER, 1, f) /\ Len(b) = f /\ (f # Len(MESSAGE_FOOTER) => b # MESSAGE_FOOTER)
  BY <1>4, Ignored
<1>10. PICK f \in 0 .. H : b = SubSeq(MESSAGE_FOOTER, 1, f) /\ Len(b) = f /\ (f # H => b # MESSAGE_FOOTER)
  BY <1>4, <1>9
<1>11. \A j \in 1 .. f : b[j] = MESSAGE_FOOTER[j]
  BY <1>4, <1>10
<1>12. /\ H \in Nat /\ H >= 3 /\ st \in Nat /\ Len(stream) \in Nat /\ n \in Nat /\ f \in Nat /\ f <= H /\ n <= H /\ Len(p) \in Nat
       /\ st + n + Len(p) = Len(stream)
  BY <1>2, <1>4, <1>5, <1>6, <1>7
<1>13. /\ stream' \in Seq(Byte) /\ Len(stream') = Len(stream) + f /\ Continues(stream', stream)
       /\ \A j \in 1 .. f : stream'[Len(stream) + j] = b[j]
  <2>1. /\ stream \o b \in Seq(Byte) /\ Len(stream \o b) = Len(stream) + Len(b)
        /\ \A j \in 1 .. Len(stream) : (stream \o b)[j] = stream[j]
        /\ \A j \in 1 .. Len(b) : (stream \o b)[Len(stream) + j] = b[j]
    BY ONLY <1>4, <1>9, MoreSent
  <2> QED BY <1>4, <1>8, <1>10, <1>12, <2>1 DEF Continues
<1>14. /\ At(stream', st, SubSeq(MESSAGE_HEADER, 1, n))
       /\ At(stream', st + n, p)
  <2> DEFINE t == SubSeq(MESSAGE_HEADER, 1, n)
  <2>1. t \in Seq(Byte) /\ Len(t) = n
    BY <1>4, HeaderBytes
  <2>2. st + Len(t) <= Len(stream) /\ At(stream, st, t)
    BY <1>5, <1>12, <2>1
  <2> HIDE DEF t
  <2>3. At(stream', st, t)
    BY <1>4, <1>12, <1>13, <2>1, <2>2, AtLonger
  <2>4. SubSeq(p, 1, m) = p
    BY <1>6, <1>7
  <2>5. At(stream, st + n, p)
    BY <1>5, <2>4
  <2>6. st + n \in Nat /\ (st + n) + Len(p) <= Len(stream)
    BY <1>12
  <2>7. At(stream', st + n, p)
    BY <1>4, <1>7, <1>13, <2>5, <2>6, AtLonger
  <2> QED BY <2>3, <2>7 DEF t
<1>15. \A j \in 1 .. f : stream'[st + n + Len(p) + j] = MESSAGE_FOOTER[j]
  BY <1>11, <1>12, <1>13
<1>16. \A k \in DOMAIN starts : starts[k] <= st /\ starts[k] \in Nat
  <2> TAKE k \in DOMAIN starts
  <2>1. CASE k = K
    BY <1>2, <2>1
  <2>2. CASE k # K
    <3>1. k \in DOMAIN starts /\ K \in DOMAIN starts /\ k < K /\ starts[k] \in Nat
      <4>1. DOMAIN starts = 1 .. K /\ starts[k] \in Nat
        <5>1. starts \in Seq(Nat)
          BY DEF Types
        <5>2. DOMAIN starts = 1 .. K
          BY <5>1
        <5>3. starts[k] \in Nat
          BY <5>1, <5>2
        <5> QED BY <5>2, <5>3
      <4> QED BY <1>2, <2>2, <4>1
    <3>2. starts[k] < starts[K]
      BY <3>1 DEF Sent, InOrder
    <3> QED BY <1>2, <3>1, <3>2
  <2> QED BY <2>1, <2>2
<1>17. InOrder'
  <2>1. Len(stream') > st
    BY <1>7, <1>12, <1>13
  <2>2. \A k \in DOMAIN starts : starts[k] < Len(stream') /\ starts[k] <= Len(stream')
    BY <1>12, <1>13, <1>16, <2>1
  <2> QED BY <1>1, <1>2, <2>2 DEF Sent, InOrder
<1>18. UnderWay'
  BY <1>1 DEF UnderWay
<1>19. Starts' = Starts /\ Boundaries' = Starts \cup { Len(stream') }
  BY <1>1 DEF Boundaries, Starts
<1>20. cut # {} => cut' # {}
  BY <1>8
<1>23. Grows
  BY <1>2, <1>13, <1>19, <1>20 DEF Grows
<1>21. FootersEndMessages'
  <2>2. ASSUME NEW e \in Len(stream) + 1 .. Len(stream'), FooterAt(stream', e)
        PROVE  e \in Boundaries' \/ (e - 1 \in Starts' /\ cut' # {})
    <3> DEFINE z == stream'
               g == Len(p) + f
    <3>1. /\ w \in Seq(Byte) /\ Len(w) = Len(p) + H /\ \A j \in 1 .. Len(p) : w[j] = p[j]
          /\ \A j \in 1 .. H : w[Len(p) + j] = MESSAGE_FOOTER[j]
      BY <1>4, <1>7, MoreSent DEF w
    <3>2. g \in 0 .. Len(p) + HEADER_LENGTH /\ g \in Nat
      BY <1>12
    <3>3. ASSUME NEW j \in 1 .. g PROVE z[st + n + j] = w[j]
      <4>1. CASE j <= Len(p)
        <5>1. j \in 1 .. Len(p)
          BY <1>12, <4>1
        <5> QED BY <1>14, <3>1, <5>1 DEF At
      <4>2. CASE j > Len(p)
        <5> DEFINE i == j - Len(p)
        <5>1. i \in 1 .. f /\ i \in 1 .. H /\ j = Len(p) + i /\ st + n + j = st + n + Len(p) + i
          BY <1>12, <4>2
        <5> HIDE DEF i
        <5> QED BY <1>15, <3>1, <5>1
      <4> QED BY <1>12, <4>1, <4>2
    <3>4. At(z, st + n, SubSeq(w, 1, g))
      <4>1. Len(SubSeq(w, 1, g)) = g /\ \A j \in 1 .. g : SubSeq(w, 1, g)[j] = w[j]
        BY <1>12, <3>1, <3>2
      <4> QED BY <3>3, <4>1 DEF At
    <3>5. z \in Seq(Byte) /\ st + n + g = Len(z) /\ e \in Int /\ st < e
      <4>1. Len(stream') = Len(stream) + f
        BY <1>13
      <4>2. e > Len(stream) /\ e \in Int
        BY <1>12, <4>1
      <4>3. Len(stream') = st + n + Len(p) + f
        BY <1>12, <4>1
      <4>4. st + n + g = Len(stream')
        BY <1>12, <4>3
      <4> QED BY <1>12, <1>13, <4>2, <4>4, SMTT(30)
    <3>6. At(z, st, SubSeq(MESSAGE_HEADER, 1, n)) /\ FooterAt(z, e)
      BY <1>14, <2>2
    <3>7. At(z, st + n, SubSeq(p \o MESSAGE_FOOTER, 1, g)) /\ st \in Nat /\ p \in Payload
      BY <1>2, <3>4 DEF w
    <3> HIDE DEF z, g
    <3>8. \/ e = st + 1 /\ st >= 2 /\ z[st] = 4
          \/ e = Len(z) /\ g = Len(p) + HEADER_LENGTH
      BY ONLY n \in 0 .. H, <3>2, <3>5, <3>6, <3>7, MessageFooters
    <3>9. CASE e = Len(z)
      BY <1>19, <3>9 DEF z
    <3>10. CASE e = st + 1
      <4>1. e - 1 = st
        BY <1>12, <3>10
      <4>2. e > Len(stream)
        BY <1>12, <1>13
      <4>3. n # H
        BY <1>4, <1>12, <3>10, <4>2
      <4> QED BY <1>2, <1>5, <1>19, <1>20, <4>1, <4>3
    <3> QED BY <3>8, <3>9, <3>10
  <2> QED BY <1>23, <2>2, OldFooters DEF Sent
<1>22. WholeMessages'
  <2> SUFFICES ASSUME cut' = {}, NEW k \in DOMAIN starts
               PROVE  \E q \in Payload : /\ EndOf(k)' = starts[k] + Len(Frame(q))
                                         /\ At(stream', starts[k], Frame(q))
    BY <1>1 DEF WholeMessages
  <2>1. cut = {} /\ b = MESSAGE_FOOTER
    BY <1>8
  <2>2. CASE k < Len(starts)
    <3>1. PICK q \in Payload : EndOf(k) = starts[k] + Len(Frame(q)) /\ At(stream, starts[k], Frame(q))
      BY <2>1, <2>2 DEF Sent, WholeMessages
    <3>2. At(stream', starts[k], Frame(q))
      BY <1>13, <3>1, OldMessages DEF Sent
    <3>3. EndOf(k)' = EndOf(k)
      BY <1>1, <2>2 DEF EndOf
    <3> QED BY <3>1, <3>2, <3>3
  <2>3. CASE ~ (k < Len(starts))
    <3>1. k = K /\ starts[k] = st
      BY <1>2, <2>3
    <3>2. n = H /\ f = H
      BY <1>5, <1>10, <2>1
    <3>3. EndOf(k)' = Len(stream')
      BY <1>1, <2>3 DEF EndOf
    <3>4. Len(stream') = st + (2 * H + Len(p)) /\ Len(Frame(p)) = 2 * H + Len(p)
      <4>1. Len(stream') = Len(stream) + f
        BY <1>13
      <4>2. Len(stream') = st + (2 * H + Len(p))
        BY <1>12, <3>2, <4>1
      <4> QED BY <1>2, <4>2, FrameIs
    <3>5. ASSUME NEW j \in 1 .. 2 * H + Len(p) PROVE stream'[st + j] = Frame(p)[j]
      <4>1. CASE j <= H
        <5>1. j \in 1 .. H
          BY <4>1
        <5>2. Len(SubSeq(MESSAGE_HEADER, 1, H)) = H /\ SubSeq(MESSAGE_HEADER, 1, H)[j] = MESSAGE_HEADER[j]
          BY <5>1, HeaderBytes
        <5>3. stream'[st + j] = MESSAGE_HEADER[j]
          BY <1>14, <3>2, <5>1, <5>2 DEF At
        <5> QED BY <1>2, <5>1, <5>3, FrameIs
      <4>2. CASE H < j /\ j <= H + Len(p)
        <5> DEFINE i == j - H
        <5>1. i \in 1 .. Len(p) /\ j = H + i /\ st + j = st + n + i
          BY <1>12, <3>2, <4>2
        <5> HIDE DEF i
        <5>2. stream'[st + n + i] = p[i]
          BY <1>14, <5>1 DEF At
        <5> QED BY <1>2, <5>1, <5>2, FrameIs
      <4>3. CASE H + Len(p) < j
        <5> DEFINE i == j - (H + Len(p))
        <5>1. i \in 1 .. H /\ j = H + Len(p) + i /\ st + j = st + n + Len(p) + i
          BY <1>12, <3>2, <4>3
        <5> HIDE DEF i
        <5>2. stream'[st + n + Len(p) + i] = MESSAGE_FOOTER[i]
          BY <1>15, <3>2, <5>1
        <5> QED BY <1>2, <5>1, <5>2, FrameIs
      <4> QED BY <1>4, <1>12, <4>1, <4>2, <4>3, SMTT(30)
    <3>6. At(stream', st, Frame(p))
      BY <3>4, <3>5 DEF At
    <3> QED BY <1>2, <3>1, <3>3, <3>4, <3>6
  <2> QED BY <2>2, <2>3
<1> QED BY <1>17, <1>18, <1>21, <1>22, <1>23 DEF Sent

LEMMA SentStep ==
    ASSUME Types, Types', Sent, [Next]_vars
    PROVE  Sent' /\ Grows
<1>1. CASE SendHeader
  BY <1>1, SendsHeader
<1>2. CASE SendBody
  BY <1>2, SendsBody
<1>3. CASE SendFooter
  BY <1>3, SendsFooter
<1>4. ASSUME UNCHANGED sender PROVE Sent' /\ Grows
  <2>1. UNCHANGED << outbox, part, left, stream, starts, cut >>
    BY <1>4 DEF sender
  <2>2. InOrder' /\ UnderWay'
    BY <2>1 DEF Sent, InOrder, UnderWay, Sending
  <2>3. FootersEndMessages'
    BY <2>1 DEF Sent, FootersEndMessages, Boundaries, Starts
  <2>4. WholeMessages'
    BY <2>1 DEF Sent, WholeMessages, EndOf
  <2>5. stream' \in Seq(Byte) /\ Len(stream) \in Nat
    BY DEF Types
  <2>6. Continues(stream', stream)
    BY <2>1, <2>5 DEF Continues
  <2>7. Boundaries' = Boundaries /\ Starts' = Starts
    BY <2>1 DEF Boundaries, Starts
  <2> QED BY <2>1, <2>2, <2>3, <2>4, <2>5, <2>6, <2>7 DEF Sent, Grows
<1>5. CASE ~ (SendHeader \/ SendBody \/ SendFooter)
  <2>1. UNCHANGED sender
    BY <1>5 DEF Next, Send, Arrive, Close, GetMessage, Receive, RejectHeader, EndOfStream,
               Shutdown, vars
  <2> QED BY <1>4, <2>1
<1> QED BY <1>1, <1>2, <1>3, <1>5

LEMMA WaitsInit == Init => Waits
<1> SUFFICES ASSUME Init PROVE Waits
  OBVIOUS
<1>1. /\ stream = << >> /\ starts = << >> /\ part = "header" /\ Len(stream) = 0
      /\ taken = 0 /\ retbuf = << >> /\ Len(retbuf) = 0
  BY DEF Init
<1>6. Len(retbuf) = 0 /\ taken = 0
  BY <1>1
<1>2. Returned = 0
  BY <1>6 DEF Returned
<1>3. Collected
  BY <1>1 DEF Collected, At
<1>4. AtBoundary
  BY <1>1, <1>2 DEF AtBoundary, Boundaries
<1>5. Searches
  BY <1>1, HeaderAssumption DEF Searches
<1> QED BY <1>3, <1>4, <1>5 DEF Waits

\* Steps in which get_message() removes nothing from the socket.
LEMMA NothingTaken ==
    ASSUME Types, Types', Waits, Grows, taken' = taken, retbuf' = retbuf, lone' = lone
    PROVE  Waits'
<1>1. Returned' = Returned
  BY DEF Returned
<1>2. /\ stream \in Seq(Byte) /\ stream' \in Seq(Byte) /\ retbuf \in Seq(Byte) /\ Len(retbuf) \in Nat
      /\ taken \in Nat /\ taken <= Len(stream) /\ Len(stream) \in Nat
  BY DEF Types, TypeOK
<1>3. Len(retbuf) <= taken /\ At(stream, Returned, retbuf)
  BY DEF Waits, Collected
<1>4. Returned \in Nat /\ Returned + Len(retbuf) <= Len(stream)
  BY <1>2, <1>3 DEF Returned
<1>5. At(stream', Returned, retbuf)
  BY <1>2, <1>3, <1>4, AtLonger DEF Grows
<1>6. Collected'
  BY <1>1, <1>5 DEF Waits, Collected
<1>7. AtBoundary'
  BY <1>1 DEF Waits, AtBoundary, Grows
<1>8. Searches'
  BY DEF Waits, Searches
<1> QED BY <1>6, <1>7, <1>8 DEF Waits

LEMMA MessageReturned ==
    ASSUME Types, Types', Sent, Waits, Receive, NEW n \in Nat, Returns(n)
    PROVE  Waits'
<1>1. UNCHANGED << sender, line, arrived, status >>
  BY Received DEF Waits
<1>2. UNCHANGED << outbox, part, left, stream, starts, cut >>
  BY <1>1 DEF sender
<1>3. taken' = taken + n /\ retbuf' = << >> /\ lone' = FALSE /\ FooterAt(Buffer, Len(retbuf) + n)
  BY DEF Returns
<1>4. taken \in Nat /\ Len(retbuf) \in Nat /\ HEADER_LENGTH \in Nat /\ HEADER_LENGTH >= 3
      /\ Len(stream) \in Nat
  BY HeaderAssumption DEF Types
<1>5. Len(retbuf') = 0 /\ Returned' = taken + n /\ Returned = taken - Len(retbuf)
  BY <1>3, <1>4 DEF Returned
<1>6. Collected'
  BY <1>3, <1>4, <1>5 DEF Collected, At
<1>7. AtBoundary'
  <2> DEFINE d == Len(retbuf) + n
             e == taken + n
  <2>1. d \in Int /\ Returned + d = e
    BY <1>4, <1>5
  <2>2. FooterAt(stream, Returned + d)
    <3> HIDE DEF d
    <3> QED BY <1>3, <2>1, BufferIs DEF Waits, d
  <2>3. FooterAt(stream, e)
    BY <2>1, <2>2
  <2>4. e \in 1 .. Len(stream)
    BY <1>4, <2>3 DEF FooterAt
  <2>5. e \in Boundaries \/ (e - 1 \in Starts /\ cut # {})
    BY <2>3, <2>4 DEF Sent, FootersEndMessages
  <2>6. Boundaries' = Boundaries /\ Starts' = Starts
    BY <1>2 DEF Boundaries, Starts
  <2> QED BY <1>2, <1>5, <2>5, <2>6 DEF AtBoundary
<1>8. Searches'
  BY <1>3, <1>4, <1>5 DEF Searches
<1> QED BY <1>6, <1>7, <1>8 DEF Waits

LEMMA MoreCollected ==
    ASSUME Types, Types', Waits, Receive, Collects
    PROVE  Waits'
<1> DEFINE H == HEADER_LENGTH
           total == Len(retbuf)
<1>1. UNCHANGED << sender, line, arrived, status >> /\ Len(Peeked) >= H
  BY Received DEF Waits
<1>2. UNCHANGED << outbox, part, left, stream, starts, cut >>
  BY <1>1 DEF sender
<1>3. taken' = taken + Len(Peeked) /\ retbuf' = Buffer /\ lone' = (lone \/ Len(Buffer) = H)
  BY DEF Collects
<1>4. \A d \in Int : FooterAt(Buffer, d) =>
          \/ total > H /\ d < total
          \/ total = H /\ d > Len(Buffer) - H
  BY DEF Collects
<1>5. /\ taken \in Nat /\ total \in Nat /\ H \in Nat /\ H >= 3 /\ Len(Peeked) \in Nat
      /\ retbuf \in Seq(Byte) /\ lone \in BOOLEAN
  BY HeaderAssumption, PeekedIs DEF Types
<1>6. /\ Buffer \in Seq(Byte) /\ Len(Buffer) = total + Len(Peeked)
      /\ At(stream, Returned, Buffer) /\ Returned \in Nat
      /\ Returned + Len(Buffer) = taken + Len(Peeked)
      /\ \A d \in Int : FooterAt(retbuf, d) <=> d <= Len(retbuf) /\ FooterAt(Buffer, d)
      /\ \A d \in Int : FooterAt(Buffer, d) => d \in H .. Len(Buffer)
  BY BufferIs DEF Waits
<1>7. total <= taken /\ (total # 0 => total >= H)
  BY <1>5 DEF Waits, Collected
<1>8. Returned' = Returned
  <2>1. Returned = taken - total /\ Returned' = taken' - Len(Buffer)
    BY <1>3 DEF Returned
  <2> QED BY <1>3, <1>5, <1>6, <2>1
<1>9. Collected'
  <2>1. Len(retbuf') <= taken' /\ Len(retbuf') >= H
    BY <1>1, <1>3, <1>5, <1>6, <1>7
  <2>2. At(stream', Returned', retbuf')
    BY <1>2, <1>3, <1>6, <1>8
  <2> QED BY <2>1, <2>2 DEF Collected
<1>10. AtBoundary'
  <2>1. Boundaries' = Boundaries /\ Starts' = Starts
    BY <1>2 DEF Boundaries, Starts
  <2> QED BY <1>2, <1>8, <2>1 DEF Waits, AtBoundary
<1>11. Searches'
  <2>1. ASSUME Len(Buffer) = H PROVE lone' /\ ~ FooterAt(Buffer, H)
    <3>1. total = 0
      BY <1>1, <1>5, <1>6, <1>7, <2>1
    <3>2. lone'
      BY <1>3, <2>1
    <3>3. H \in Int /\ ~ (total > H) /\ total # H
      BY <1>5, <3>1
    <3> QED BY <1>4, <3>2, <3>3
  <2>2. ASSUME ~ lone', NEW e \in 1 .. Len(Buffer), FooterAt(Buffer, e) PROVE FALSE
    <3>1. ~ lone
      BY <1>3, <2>2
    <3>2. total # H
      BY <3>1 DEF Waits, Searches
    <3>3. e \in Int /\ total > H /\ e < total
      BY <1>4, <2>2, <3>2
    <3>4. FooterAt(retbuf, e)
      BY <1>5, <1>6, <2>2, <3>3
    <3>5. e \in 1 .. Len(retbuf)
      BY <1>5, <3>3
    <3> QED BY <3>1, <3>4, <3>5 DEF Waits, Searches
  <2>3. ASSUME NEW d \in 1 .. Len(Buffer), NEW e \in 1 .. Len(Buffer),
               FooterAt(Buffer, d), FooterAt(Buffer, e)
        PROVE  e - d < H
    <3>1. d \in Int /\ e \in Int
      OBVIOUS
    <3>2. CASE total = H
      <4>1. d > Len(Buffer) - H
        BY <1>4, <2>3, <3>1, <3>2
      <4> QED BY <1>5, <1>6, <3>1, <4>1
    <3>3. CASE total # H
      <4>1. total > H /\ d < total /\ e < total
        BY <1>4, <2>3, <3>1, <3>3
      <4>2. FooterAt(retbuf, d) /\ FooterAt(retbuf, e)
        BY <1>5, <1>6, <2>3, <3>1, <4>1
      <4>3. d \in 1 .. Len(retbuf) /\ e \in 1 .. Len(retbuf)
        BY <1>5, <3>1, <4>1
      <4> QED BY <4>2, <4>3 DEF Waits, Searches
    <3> QED BY <3>2, <3>3
  <2> QED BY <1>3, <2>1, <2>2, <2>3 DEF Searches
<1> QED BY <1>9, <1>10, <1>11 DEF Waits

LEMMA WaitsStep ==
    ASSUME Types, Types', Sent, Waits, Grows, [Next]_vars
    PROVE  Waits'
<1>1. CASE Receive
  <2>1. Collects \/ \E n \in Nat : Returns(n)
    BY <1>1, Received DEF Waits
  <2> QED BY <1>1, <2>1, MessageReturned, MoreCollected
<1>2. CASE ~ Receive
  <2>1. taken' = taken /\ retbuf' = retbuf /\ lone' = lone
    BY <1>2 DEF Next, Send, SendHeader, SendBody, SendFooter, Arrive, Close, GetMessage, RejectHeader,
               EndOfStream, Shutdown, vars, receiver
  <2> QED BY <2>1, NothingTaken
<1> QED BY <1>1, <1>2

-----------------------------------------------------------------------------
\* The invariant holds.
LEMMA Invariant == Spec => [](Types /\ Sent /\ Waits)
<1>1. Init => Types /\ Sent /\ Waits
  BY TypesInit, SentInit, WaitsInit
<1>2. ASSUME Types, Sent, Waits, [Next]_vars PROVE (Types /\ Sent /\ Waits)'
  <2>1. Types'
    BY <1>2, TypesStep DEF Sent, Waits
  <2>2. Sent' /\ Grows
    BY <1>2, <2>1, SentStep
  <2>3. Waits'
    BY <1>2, <2>1, <2>2, WaitsStep
  <2> QED BY <2>1, <2>2, <2>3
<1> QED BY <1>1, <1>2, PTL DEF Spec

-----------------------------------------------------------------------------
LEMMA FrameFooter ==
    ASSUME NEW s \in Seq(Byte), NEW p \in Payload, NEW a \in Nat, a + Len(Frame(p)) <= Len(s),
           At(s, a, Frame(p))
    PROVE  FooterAt(s, a + Len(Frame(p)))
<1> DEFINE H == HEADER_LENGTH
           e == a + Len(Frame(p))
<1>1. H \in Nat /\ Len(p) \in Nat /\ Len(MESSAGE_FOOTER) = H /\ Len(s) \in Nat
  BY HeaderAssumption, PayloadIs, FooterBytes
<1>2. Len(Frame(p)) = 2 * H + Len(p)
      /\ \A i \in 1 .. H : Frame(p)[H + Len(p) + i] = MESSAGE_FOOTER[i]
  BY FrameIs
<1>3. e \in H .. Len(s)
  BY <1>1, <1>2
<1>4. ASSUME NEW j \in 1 .. H PROVE s[(e - H) + j] = MESSAGE_FOOTER[j]
  <2> DEFINE i == H + Len(p) + j
  <2>1. i \in 1 .. Len(Frame(p)) /\ a + i = (e - H) + j
    BY <1>1, <1>2
  <2>2. s[a + i] = Frame(p)[i]
    BY <2>1 DEF At
  <2> QED BY <1>2, <2>1, <2>2
<1> QED BY <1>1, <1>3, <1>4 DEF FooterAt, At

LEMMA BoundariesAre ==
    ASSUME Types, Sent, NEW a \in Boundaries
    PROVE  /\ a \in Nat /\ a <= Len(stream)
           /\ \/ \E k \in DOMAIN starts : a = starts[k]
              \/ part = "header" /\ a = Len(stream)
<1>1. Len(stream) \in Nat
  BY DEF Types
<1>2. \A k \in DOMAIN starts : starts[k] \in Nat /\ starts[k] <= Len(stream)
  BY DEF Types, Sent, InOrder
<1>3. \/ \E k \in DOMAIN starts : a = starts[k]
      \/ part = "header" /\ a = Len(stream)
  BY DEF Boundaries
<1> QED BY <1>1, <1>2, <1>3

\* Between two boundaries lies at least the message that begins at the first.
LEMMA NextMessage ==
    ASSUME Types, Sent, cut = {}, NEW a \in Boundaries, NEW e \in Boundaries, a < e
    PROVE  \E k \in DOMAIN starts : \E p \in Payload :
              /\ a = starts[k] /\ EndOf(k) <= e /\ EndOf(k) \in Nat
              /\ EndOf(k) = a + Len(Frame(p)) /\ At(stream, a, Frame(p))
              /\ FooterAt(stream, EndOf(k)) /\ Len(Frame(p)) = 2 * HEADER_LENGTH + Len(p)
<1>1. /\ a \in Nat /\ e \in Nat /\ e <= Len(stream) /\ a <= Len(stream) /\ Len(stream) \in Nat
      /\ (\E k \in DOMAIN starts : a = starts[k]) \/ (part = "header" /\ a = Len(stream))
      /\ (\E k \in DOMAIN starts : e = starts[k]) \/ (part = "header" /\ e = Len(stream))
  BY BoundariesAre DEF Types
<1>2. starts \in Seq(Nat) /\ stream \in Seq(Byte)
  BY DEF Types
<1>3. DOMAIN starts = 1 .. Len(starts) /\ Len(starts) \in Nat
  BY <1>2
<1>4. \A k \in DOMAIN starts : starts[k] \in Nat /\ starts[k] <= Len(stream)
  BY <1>2 DEF Sent, InOrder
<1>5. a # Len(stream)
  BY <1>1
<1>6. PICK k \in DOMAIN starts : a = starts[k]
  BY <1>1, <1>5
<1>7. EndOf(k) <= e /\ EndOf(k) \in Nat /\ (k < Len(starts) \/ part = "header")
  <2>1. CASE part = "header" /\ e = Len(stream)
    <3>1. CASE k < Len(starts)
      <4>1. k + 1 \in DOMAIN starts
        BY <1>3, <3>1
      <4> QED BY <1>4, <2>1, <3>1, <4>1 DEF EndOf
    <3>2. CASE ~ (k < Len(starts))
      BY <1>1, <2>1, <3>2 DEF EndOf
    <3> QED BY <3>1, <3>2
  <2>2. ASSUME NEW j \in DOMAIN starts, e = starts[j]
        PROVE  EndOf(k) <= e /\ EndOf(k) \in Nat /\ k < Len(starts)
    <3>1. k < j
      <4>1. j < k => starts[j] < starts[k]
        BY DEF Sent, InOrder
      <4>2. starts[k] < starts[j] /\ starts[k] \in Nat /\ starts[j] \in Nat
        BY <1>4, <1>6, <2>2
      <4> QED BY <1>3, <4>1, <4>2
    <3>2. k + 1 \in DOMAIN starts /\ k < Len(starts)
      BY <1>3, <3>1
    <3>3. starts[k + 1] <= starts[j]
      <4>1. CASE k + 1 = j
        BY <1>4, <4>1
      <4>2. CASE k + 1 # j
        <5>1. k + 1 < j
          BY <1>3, <3>1, <4>2
        <5>2. starts[k + 1] < starts[j]
          BY <3>2, <5>1 DEF Sent, InOrder
        <5> QED BY <1>4, <3>2, <5>2
      <4> QED BY <4>1, <4>2
    <3> QED BY <1>4, <2>2, <3>2, <3>3 DEF EndOf
  <2> QED BY <1>1, <2>1, <2>2
<1>8. PICK p \in Payload : EndOf(k) = starts[k] + Len(Frame(p)) /\ At(stream, starts[k], Frame(p))
  BY <1>7 DEF Sent, WholeMessages
<1>9. a + Len(Frame(p)) <= Len(stream) /\ At(stream, a, Frame(p))
  BY <1>1, <1>6, <1>7, <1>8
<1>10. FooterAt(stream, a + Len(Frame(p)))
  BY <1>1, <1>2, <1>9, FrameFooter
<1> QED BY <1>6, <1>7, <1>8, <1>10, FrameIs

\* A footer between what has been returned and what has been taken is in the
\* bytes collected.
LEMMA FooterHeld ==
    ASSUME Types, Waits, NEW e \in Nat, FooterAt(stream, e),
           Returned + HEADER_LENGTH <= e, e <= taken
    PROVE  FooterAt(retbuf, e - Returned) /\ e - Returned \in 1 .. Len(retbuf)
<1> DEFINE d == e - Returned
<1>1. /\ stream \in Seq(Byte) /\ retbuf \in Seq(Byte) /\ Len(retbuf) \in Nat
      /\ taken \in Nat /\ taken <= Len(stream) /\ Len(stream) \in Nat
      /\ HEADER_LENGTH \in Nat /\ HEADER_LENGTH >= 3
  BY HeaderAssumption DEF Types, TypeOK
<1>2. Len(retbuf) <= taken /\ At(stream, Returned, retbuf)
  BY DEF Waits, Collected
<1>3. Returned \in Nat /\ Returned + Len(retbuf) = taken
  BY <1>1, <1>2 DEF Returned
<1>4. d \in Int /\ Returned + d = e /\ d \in HEADER_LENGTH .. Len(retbuf) /\ d \in 1 .. Len(retbuf)
  BY <1>1, <1>3
<1> HIDE DEF d
<1>5. Returned + Len(retbuf) <= Len(stream)
  BY <1>1, <1>3
<1>6. FooterAt(retbuf, d) <=> d \in HEADER_LENGTH .. Len(retbuf) /\ FooterAt(stream, Returned + d)
  BY ONLY <1>1, <1>2, <1>3, <1>4, <1>5, FooterMoved
<1> QED BY <1>4, <1>6 DEF d

LEMMA ReturnedWhere ==
    ASSUME Types, Waits
    PROVE  Returned \in Nat /\ (cut = {} => Returned \in Boundaries)
<1>1. Len(retbuf) <= taken /\ Len(retbuf) \in Nat /\ taken \in Nat
  BY DEF Waits, Collected, Types
<1> QED BY <1>1 DEF Waits, AtBoundary, Returned

-----------------------------------------------------------------------------
\* The state keeps its types: in particular the receiver never removes bytes
\* that have not arrived.
THEOREM TypesKept == Spec => []TypeOK
<1>1. Types => TypeOK
  BY DEF Types
<1> QED BY <1>1, Invariant, PTL

\* Whenever get_message() has returned, the next header lies right there to be
\* read, or a boundary that the next footer leads back to (networking.cpp:209).
THEOREM HeaderIsNext == Spec => []NextHeaderLeft
<1>1. Types /\ Sent /\ Waits => NextHeaderLeft
  <2> SUFFICES ASSUME Types, Sent, Waits, retbuf = << >>
               PROVE  taken \in Boundaries \/ (taken - 1 \in Boundaries /\ cut # {})
    BY DEF NextHeaderLeft
  <2>1. Len(retbuf) = 0 /\ taken \in Nat
    BY DEF Types
  <2>2. Returned = taken
    BY <2>1 DEF Returned
  <2>3. Starts \subseteq Boundaries
    BY DEF Starts, Boundaries
  <2> QED BY <2>2, <2>3 DEF Waits, AtBoundary
<1> QED BY <1>1, Invariant, PTL

\* A message behind the first one held ends more than a header's length before
\* the end, so its footer would have been seen.
LEMMA HeldBack == Types /\ Sent /\ Waits => HoldsBackTheLast
<1> SUFFICES ASSUME Types, Sent, Waits, Waiting, cut = {}, Returned # Len(stream)
             PROVE  /\ lone \/ arrived # taken
                    /\ \/ Returned = Last(starts)
                       \/ lone /\ arrived # taken /\ Returned = starts[Len(starts) - 1]
  BY DEF HoldsBackTheLast
<1> DEFINE H == HEADER_LENGTH
           n == Len(stream)
           K == Len(starts)
<1>1. /\ part = "header" /\ arrived = n /\ arrived - taken < H /\ n \in Nat /\ taken \in Nat
      /\ taken <= arrived /\ H \in Nat /\ H >= 3
  BY HeaderAssumption DEF Waiting, Types, TypeOK
<1>2. \A p \in Payload : Len(p) \in Nat /\ Len(p) > 1
  BY PayloadIs
<1>3. starts \in Seq(Nat) /\ K \in Nat /\ DOMAIN starts = 1 .. K
  BY DEF Types
<1>4. n \in Boundaries
  BY <1>1 DEF Boundaries
<1>5. Returned \in Boundaries /\ Returned \in Nat /\ Returned < n
  <2>1. Returned \in Boundaries
    BY ReturnedWhere
  <2>2. Returned \in Nat /\ Returned <= n
    BY <2>1, BoundariesAre
  <2> QED BY <1>1, <2>1, <2>2
<1>6. PICK k \in DOMAIN starts, p \in Payload :
              /\ Returned = starts[k] /\ EndOf(k) <= n /\ EndOf(k) \in Nat
              /\ EndOf(k) = Returned + Len(Frame(p))
              /\ FooterAt(stream, EndOf(k)) /\ Len(Frame(p)) = 2 * H + Len(p)
  BY <1>4, <1>5, NextMessage
<1>7. ASSUME NEW j \in DOMAIN starts, j # K
      PROVE  /\ EndOf(j) \in Boundaries /\ EndOf(j) \in Nat /\ EndOf(j) < n /\ j + 1 \in DOMAIN starts
             /\ EndOf(j) = starts[j + 1] /\ EndOf(j) + H <= taken
  <2>1. j + 1 \in DOMAIN starts /\ j < K
    BY <1>3, <1>7
  <2>2. EndOf(j) = starts[j + 1]
    BY <2>1 DEF EndOf
  <2>3. EndOf(j) \in Boundaries /\ EndOf(j) \in Nat /\ EndOf(j) < n
    BY <1>1, <1>3, <2>1, <2>2 DEF Boundaries, Sent, InOrder
  <2>4. PICK i \in DOMAIN starts, q \in Payload :
              /\ EndOf(j) = starts[i] /\ EndOf(i) <= n
              /\ EndOf(i) = EndOf(j) + Len(Frame(q))
              /\ Len(Frame(q)) = 2 * H + Len(q)
    BY <1>4, <2>3, NextMessage
  <2>5. EndOf(j) + H <= taken
    BY <1>1, <1>2, <2>3, <2>4
  <2> QED BY <2>1, <2>2, <2>3, <2>5
<1>8. k = K => Returned = Last(starts)
  BY <1>6 DEF Last
<1>9. CASE k = K
  <2>1. EndOf(k) = n
    BY <1>3, <1>9 DEF EndOf
  <2>2. ASSUME arrived = taken PROVE lone
    <3>1. n \in Nat /\ FooterAt(stream, n) /\ Returned + H <= n /\ n <= taken
      BY <1>1, <1>2, <1>5, <1>6, <2>1, <2>2
    <3>2. FooterAt(retbuf, n - Returned) /\ n - Returned \in 1 .. Len(retbuf)
      BY <3>1, FooterHeld
    <3> QED BY <3>2 DEF Waits, Searches
  <2> QED BY <1>8, <1>9, <2>2
<1>10. CASE k # K
  <2> DEFINE e == EndOf(k)
             d == e - Returned
  <2>1. e \in Boundaries /\ e \in Nat /\ e < n /\ e = starts[k + 1] /\ e + H <= taken /\ k + 1 \in DOMAIN starts
    BY <1>7, <1>10
  <2>2. FooterAt(stream, e) /\ Returned + H <= e /\ e <= taken
    BY <1>1, <1>2, <1>5, <1>6, <2>1
  <2>3. FooterAt(retbuf, d) /\ d \in 1 .. Len(retbuf)
    BY <2>1, <2>2, FooterHeld
  <2>4. lone
    BY <2>3 DEF Waits, Searches
  <2>5. PICK i \in DOMAIN starts, q \in Payload :
              /\ e = starts[i] /\ EndOf(i) <= n /\ EndOf(i) \in Nat
              /\ EndOf(i) = e + Len(Frame(q))
              /\ FooterAt(stream, EndOf(i)) /\ Len(Frame(q)) = 2 * H + Len(q)
    BY <1>4, <2>1, NextMessage
  <2>6. ~ (EndOf(i) <= taken)
    <3> SUFFICES ASSUME EndOf(i) <= taken PROVE FALSE
      OBVIOUS
    <3>1. Returned + H <= EndOf(i) /\ EndOf(i) - e >= H
      BY <1>1, <1>2, <1>5, <2>1, <2>2, <2>5
    <3>2. FooterAt(retbuf, EndOf(i) - Returned) /\ EndOf(i) - Returned \in 1 .. Len(retbuf)
      BY <2>5, <3>1, FooterHeld
    <3>3. (EndOf(i) - Returned) - d < H
      BY <2>3, <3>2 DEF Waits, Searches
    <3> QED BY <1>1, <1>5, <2>1, <2>5, <3>1, <3>3
  <2>7. arrived # taken
    BY <1>1, <2>5, <2>6
  <2>8. i = k + 1
    <3>1. i < k + 1 => starts[i] < starts[k + 1]
      BY <2>1 DEF Sent, InOrder
    <3>2. k + 1 < i => starts[k + 1] < starts[i]
      BY <2>1 DEF Sent, InOrder
    <3> QED BY <1>3, <2>1, <2>5, <3>1, <3>2, SMTT(30)
  <2>9. i = K
    <3> SUFFICES ASSUME i # K PROVE FALSE
      OBVIOUS
    <3>1. EndOf(i) + H <= taken
      BY <1>7
    <3> QED BY <1>1, <2>5, <2>6, <3>1
  <2>10. Returned = starts[K - 1]
    <3>1. k = K - 1
      BY <1>3, <2>8, <2>9
    <3> QED BY <1>6, <3>1
  <2> QED BY <2>4, <2>7, <2>10
<1> QED BY <1>9, <1>10

\* When nothing more comes, at most the last message is held back, or the last
\* two when a lone header and too few bytes come together.
THEOREM OnlyTheLastHeldBack == Spec => []HoldsBackTheLast
BY HeldBack, Invariant, PTL

\* The bytes of a message that is returned.
LEMMA ReturnedBytes ==
    ASSUME Types, Sent, Waits, Receive, NEW n \in Nat, Returns(n), cut = {}
    PROVE  /\ Frame(PayloadUpTo(n)) = SubSeq(stream, Returned + 1, taken + n)
           /\ ~ lone => PayloadUpTo(n) \in Payload
<1> DEFINE H == HEADER_LENGTH
           total == Len(retbuf)
           len == total + n
           x == PayloadUpTo(n)
           a == Returned
           e == Returned + len
<1>1. /\ taken \in Nat /\ total \in Nat /\ H \in Nat /\ H >= 3 /\ Len(stream) \in Nat
      /\ stream \in Seq(Byte) /\ retbuf \in Seq(Byte)
  BY HeaderAssumption DEF Types
<1>2. /\ FooterAt(Buffer, len)
      /\ \A d \in Int : FooterAt(Buffer, d) => d < total \/ len <= d
  BY DEF Returns
<1>3. /\ Buffer \in Seq(Byte) /\ At(stream, a, Buffer) /\ a \in Nat
      /\ a + Len(Buffer) <= Len(stream)
      /\ \A d \in Int : FooterAt(retbuf, d) <=> d <= Len(retbuf) /\ FooterAt(Buffer, d)
      /\ \A d \in Int : FooterAt(Buffer, d) =>
            /\ d \in H .. Len(Buffer) /\ FooterAt(stream, a + d)
  BY BufferIs DEF Waits
<1>4. len \in Nat /\ len \in H .. Len(Buffer) /\ FooterAt(stream, e) /\ e \in 1 .. Len(stream)
      /\ a < e /\ e \in Nat
  <2>1. len \in Int
    BY <1>1
  <2> HIDE DEF len
  <2>2. len \in H .. Len(Buffer) /\ FooterAt(stream, a + len)
    BY <1>2, <1>3, <2>1
  <2> QED BY <1>1, <1>3, <2>1, <2>2
<1>5. e = taken + n
  <2>1. a = taken - total
    BY DEF Returned
  <2> QED BY <1>1, <2>1
<1>20. e = a + len /\ a + len <= Len(stream)
  BY <1>1, <1>3, <1>4
<1>6. a \in Boundaries
  BY ReturnedWhere
<1>7. e \in Boundaries
  BY <1>4 DEF Sent, FootersEndMessages
<1>22. x = SubSeq(Buffer, H + 1, len - H)
  <2>1. Len(retbuf) + n - HEADER_LENGTH = len - H
    BY <1>1
  <2> QED BY <2>1 DEF PayloadUpTo
<1> HIDE DEF x, len, e, a
<1>8. PICK k \in DOMAIN starts, p \in Payload :
              /\ EndOf(k) <= e /\ EndOf(k) \in Nat
              /\ EndOf(k) = a + Len(Frame(p)) /\ At(stream, a, Frame(p))
              /\ FooterAt(stream, EndOf(k)) /\ Len(Frame(p)) = 2 * H + Len(p)
  BY <1>4, <1>6, <1>7, NextMessage
<1> DEFINE size == Len(Frame(p))
<1>9. /\ Len(p) \in Nat /\ Len(p) > 1 /\ size = 2 * H + Len(p) /\ Frame(p) \in Seq(Byte)
      /\ p \in Seq(Byte)
  BY <1>8, PayloadIs, FrameIs
<1>10. size <= len /\ EndOf(k) = a + size /\ a + size <= e
  <2>1. EndOf(k) = a + size /\ EndOf(k) <= e
    BY <1>8
  <2>2. size \in Nat /\ a \in Nat /\ len \in Nat /\ e \in Nat
    BY <1>1, <1>3, <1>4, <1>9
  <2> HIDE DEF size
  <2> QED BY <1>20, <2>1, <2>2
<1>11. \A j \in 1 .. len : Buffer[j] = stream[a + j]
  BY <1>3, <1>4 DEF At
<1>12. x \in Seq(Byte) /\ Len(x) = len - 2 * H /\ \A j \in 1 .. len - 2 * H : x[j] = Buffer[H + j]
  <2>2. len \in Nat /\ 2 * H <= len /\ len <= Len(Buffer)
    BY <1>1, <1>4, <1>9, <1>10
  <2> QED BY <1>1, <1>3, <1>22, <2>2
<1>13. /\ Frame(x) \in Seq(Byte) /\ Len(Frame(x)) = 2 * H + Len(x)
       /\ \A i \in 1 .. H : Frame(x)[i] = MESSAGE_HEADER[i]
       /\ \A i \in 1 .. Len(x) : Frame(x)[H + i] = x[i]
       /\ \A i \in 1 .. H : Frame(x)[H + Len(x) + i] = MESSAGE_FOOTER[i]
  BY <1>12, FrameOf
<1> DEFINE b == SubSeq(stream, a + 1, e)
<1>14. b \in Seq(Byte) /\ Len(b) = len /\ \A j \in 1 .. len : b[j] = stream[a + j]
  <2>1. b = SubSeq(stream, a + 1, a + len) /\ len \in Nat
    BY <1>4, <1>20
  <2> HIDE DEF b
  <2>2. stream \in Seq(Byte) /\ a \in Nat /\ len \in Nat /\ a + len <= Len(stream)
    BY <1>1, <1>3, <1>20, <2>1
  <2>3. /\ SubSeq(stream, a + 1, a + len) \in Seq(Byte)
        /\ Len(SubSeq(stream, a + 1, a + len)) = len
        /\ \A j \in 1 .. len : SubSeq(stream, a + 1, a + len)[j] = stream[a + j]
    BY ONLY <2>2, Part, ZenonT(30)
  <2> QED BY <2>1, <2>3
<1> HIDE DEF b
<1>15. Len(Frame(x)) = len
  BY <1>1, <1>4, <1>10, <1>12, <1>13
<1>16. ASSUME NEW j \in 1 .. len PROVE Frame(x)[j] = b[j]
  <2>1. CASE j <= H
    <3>1. j \in 1 .. H /\ j \in 1 .. Len(Frame(p))
      BY <1>1, <1>9, <2>1
    <3>2. stream[a + j] = Frame(p)[j]
      BY <1>8, <3>1 DEF At
    <3>3. Frame(p)[j] = MESSAGE_HEADER[j]
      BY <3>1, FrameIs
    <3> QED BY <1>13, <1>14, <3>1, <3>2, <3>3
  <2>2. CASE H < j /\ j <= len - H
    <3> DEFINE i == j - H
    <3>1. i \in 1 .. len - 2 * H /\ H + i = j
      BY <1>1, <1>4, <2>2
    <3> HIDE DEF i
    <3>2. Frame(x)[H + i] = x[i] /\ x[i] = Buffer[H + i]
      BY <1>12, <1>13, <3>1
    <3> QED BY <1>11, <1>14, <3>1, <3>2
  <2>3. CASE len - H < j
    <3> DEFINE i == j - (len - H)
    <3>1. i \in 1 .. H /\ H + Len(x) + i = j /\ (len - H) + i = j
      BY <1>1, <1>4, <1>12, <2>3
    <3> HIDE DEF i
    <3>2. Frame(x)[H + Len(x) + i] = MESSAGE_FOOTER[i]
      BY <1>13, <3>1
    <3>3. Len(MESSAGE_FOOTER) = H
      BY FooterBytes
    <3>4. Buffer[(len - H) + i] = MESSAGE_FOOTER[i]
      BY <1>2, <3>1, <3>3 DEF FooterAt, At
    <3> QED BY <1>11, <1>14, <3>1, <3>2, <3>4
  <2> QED BY <1>1, <1>4, <2>1, <2>2, <2>3
<1>17. Frame(x) = b
  BY ONLY <1>13, <1>14, <1>15, <1>16, SeqEqual
<1>18. ASSUME ~ lone PROVE x \in Payload
  <2>1. EndOf(k) = e
    <3> SUFFICES ASSUME EndOf(k) # e PROVE FALSE
      OBVIOUS
    <3>1. size < len
      <4>1. a + size # a + len
        BY <1>10, <1>20
      <4>2. size # len
        BY <4>1
      <4>3. size \in Nat
        BY <1>9
      <4> QED BY <1>4, <1>10, <4>2, <4>3
    <3>2. a + size <= Len(stream) /\ FooterAt(stream, a + size) /\ size \in H .. Len(Buffer)
      <4>1. FooterAt(stream, a + size)
        BY <1>8, <1>10
      <4>2. size \in Nat /\ H <= size
        BY <1>1, <1>9
      <4>3. Len(Buffer) \in Nat /\ len <= Len(Buffer) /\ a + len <= Len(stream)
        BY <1>3, <1>4, <1>20
      <4> HIDE DEF size
      <4> QED BY <1>1, <1>3, <1>4, <3>1, <4>1, <4>2, <4>3
    <3>3. FooterAt(Buffer, size)
      <4>1. size \in Int /\ a + Len(Buffer) <= Len(stream)
        BY <1>1, <1>3, <1>9
      <4> HIDE DEF size
      <4>2. FooterAt(Buffer, size) <=> size \in HEADER_LENGTH .. Len(Buffer) /\ FooterAt(stream, a + size)
        BY ONLY <1>1, <1>3, <4>1, FooterMoved
      <4> QED BY <3>2, <4>2
    <3>4. size \in Int /\ size < total
      BY <1>1, <1>2, <1>4, <1>9, <3>1, <3>3
    <3>5. FooterAt(retbuf, size)
      BY <1>1, <1>3, <3>3, <3>4
    <3>6. size \in 1 .. Len(retbuf)
      BY <1>1, <1>9, <3>4
    <3> QED BY <1>18, <3>5, <3>6 DEF Waits, Searches
  <2>2. len = 2 * H + Len(p) /\ Len(x) = Len(p)
    <3>1. a + size = a + len
      BY <1>10, <1>20, <2>1
    <3>2. size = len
      <4>1. size \in Nat
        BY <1>9
      <4> HIDE DEF size
      <4> QED BY <1>3, <1>4, <3>1, <4>1
    <3>3. len = 2 * H + Len(p)
      BY <1>9, <3>2
    <3>4. Len(x) = len - 2 * H
      BY <1>12
    <3> QED BY <1>1, <1>4, <1>9, <3>3, <3>4
  <2>3. ASSUME NEW j \in 1 .. Len(p) PROVE x[j] = p[j]
    <3>1. j \in 1 .. len - 2 * H /\ H + j \in 1 .. len /\ H + j \in 1 .. Len(Frame(p))
      BY <1>1, <1>9, <2>2
    <3>2. x[j] = stream[a + (H + j)]
      BY <1>11, <1>12, <3>1
    <3>3. stream[a + (H + j)] = Frame(p)[H + j]
      BY <1>8, <3>1 DEF At
    <3>4. Frame(p)[H + j] = p[j]
      BY FrameIs
    <3> QED BY <3>2, <3>3, <3>4
  <2>4. x = p
    BY ONLY <1>9, <1>12, <2>2, <2>3, SeqEqual
  <2> QED BY <2>4
<1>19. b = SubSeq(stream, Returned + 1, taken + n)
  BY <1>5 DEF b, a, e
<1>21. Frame(x) = SubSeq(stream, Returned + 1, taken + n) /\ (~ lone => x \in Payload)
  BY <1>17, <1>18, <1>19
<1> QED BY <1>21 DEF x

LEMMA ResultsAre ==
    ASSUME Types, Sent, Waits, [Next]_vars, results' # results, cut = {}
    PROVE  /\ Frame(Last(results')) = SubSeq(stream, Returned + 1, taken')
           /\ ~ lone => Last(results') \in Payload
<1>1. Receive
  BY DEF Next, Send, SendHeader, SendBody, SendFooter, Arrive, Close, GetMessage, RejectHeader,
         EndOfStream, Shutdown, vars, receiver
<1>2. Collects \/ \E n \in Nat : Returns(n)
  BY <1>1, Received DEF Waits
<1>3. PICK n \in Nat : Returns(n)
  BY <1>2 DEF Collects
<1> DEFINE x == PayloadUpTo(n)
<1>4. Frame(x) = SubSeq(stream, Returned + 1, taken + n) /\ (~ lone => x \in Payload)
  BY <1>1, <1>3, ReturnedBytes
<1>5. results' = Append(results, x) /\ taken' = taken + n
  BY <1>3 DEF Returns
<1> HIDE DEF x
<1>6. results \in Seq(Seq(Byte))
  BY DEF Types
<1>7. Len(results') = Len(results) + 1 /\ results'[Len(results) + 1] = x
  BY <1>5, <1>6
<1>8. Last(results') = x
  BY <1>7 DEF Last
<1> QED BY <1>4, <1>5, <1>8

LEMMA CollectedBytes ==
    ASSUME Types, Types', Waits', Grows, [Next]_vars
    PROVE  retbuf' = SubSeq(stream, Returned' + 1, taken')
<1>1. /\ stream \in Seq(Byte) /\ Len(stream) \in Nat /\ stream' \in Seq(Byte)
      /\ retbuf' \in Seq(Byte) /\ taken' \in Nat /\ Len(retbuf') \in Nat
  BY DEF Types
<1>2. taken' <= Len(stream)
  <2>1. CASE Receive
    <3>1. stream' = stream
      BY <2>1 DEF Receive, sender
    <3> QED BY <3>1 DEF Types, TypeOK
  <2>2. CASE ~ Receive
    <3>1. taken' = taken
      BY <2>2 DEF Next, Send, SendHeader, SendBody, SendFooter, Arrive, Close, GetMessage, RejectHeader,
                 EndOfStream, Shutdown, vars, receiver
    <3> QED BY <3>1 DEF Types, TypeOK
  <2> QED BY <2>1, <2>2
<1>3. Len(retbuf') <= taken' /\ At(stream', Returned', retbuf')
  BY DEF Waits, Collected
<1>4. Returned' = taken' - Len(retbuf')
  BY DEF Returned
<1> DEFINE r == retbuf'
<1> DEFINE from == Returned'
<1>5. from \in Nat /\ from + Len(r) = taken'
  BY <1>1, <1>3, <1>4
<1> HIDE DEF from
<1> DEFINE b == SubSeq(stream, from + 1, taken')
<1>6. b \in Seq(Byte) /\ Len(b) = Len(r) /\ \A j \in 1 .. Len(r) : b[j] = stream[from + j]
  <2>1. Len(r) \in Nat /\ from + Len(r) <= Len(stream) /\ from + Len(r) = taken'
    BY <1>1, <1>2, <1>5
  <2> DEFINE n == Len(r)
  <2>2. b = SubSeq(stream, from + 1, from + n)
    BY <2>1
  <2> HIDE DEF n
  <2>3. n \in Nat /\ from \in Nat /\ from + n <= Len(stream)
    BY <1>5, <2>1 DEF n
  <2> HIDE DEF b
  <2>4. b \in Seq(Byte) /\ Len(b) = n /\ \A j \in 1 .. n : b[j] = stream[from + j]
    BY ONLY <1>1, <2>2, <2>3, Part
  <2> QED BY <2>4 DEF n
<1>7. ASSUME NEW j \in 1 .. Len(r) PROVE r[j] = b[j]
  <2>1. from + j \in 1 .. Len(stream)
    BY <1>1, <1>2, <1>5
  <2>2. stream'[from + j] = stream[from + j]
    BY <2>1 DEF Grows, Continues
  <2>3. stream'[from + j] = r[j]
    BY <1>3 DEF At, from
  <2> QED BY <1>6, <2>2, <2>3
<1>8. r \in Seq(Byte)
  BY <1>1
<1> HIDE DEF r, b
<1>9. r = b
  BY ONLY <1>6, <1>7, <1>8, SeqEqual
<1> QED BY <1>9 DEF r, b, from

\* What is returned and collected is exactly what was sent, each byte once and
\* in order.
THEOREM BytesReturned == Spec => NothingLostOrDoubled
<1>1. ASSUME Types, Sent, Waits, [Next]_vars, Types', Sent', Waits'
      PROVE  [cut = {} => /\ retbuf' = SubSeq(stream, Returned' + 1, taken')
                          /\ results' # results =>
                               Frame(Last(results')) = SubSeq(stream, Returned + 1, taken')]_vars
  <2>1. Grows
    BY <1>1, SentStep
  <2>2. retbuf' = SubSeq(stream, Returned' + 1, taken')
    BY <1>1, <2>1, CollectedBytes
  <2>3. ASSUME cut = {}, results' # results
        PROVE  Frame(Last(results')) = SubSeq(stream, Returned + 1, taken')
    BY <1>1, <2>3, ResultsAre
  <2> QED BY <2>2, <2>3
<1> QED BY <1>1, Invariant, PTL DEF Spec, NothingLostOrDoubled

\* Every result is one payload, unless a peek saw nothing but a header.
THEOREM MessagesReturned == Spec => OneMessageEach
<1>1. ASSUME Types, Sent, Waits, [Next]_vars
      PROVE  [results' # results /\ cut = {} /\ ~ lone => Last(results') \in Payload]_vars
  BY <1>1, ResultsAre
<1> QED BY <1>1, Invariant, PTL DEF Spec, OneMessageEach
=============================================================================
