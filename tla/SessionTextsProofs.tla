------------------------- MODULE SessionTextsProofs -------------------------
(***************************************************************************)
(* Why the texts agree, for any number of clients, keys and texts.  First  *)
(* chains of edits; then, for any part of the text that the edits of one   *)
(* user make alone, the chains from the server's text to the user's and    *)
(* from everybody else's to the server's, which every step preserves; last *)
(* the two kinds of sessions in which there is such a part: one user       *)
(* edits, or everyone edits a line of its own.                             *)
(***************************************************************************)
EXTENDS SessionProofs

-----------------------------------------------------------------------------
\* Chains of edits: what Leads does with an empty sequence, one packet, a
\* concatenation, and packets that change nothing.

LEMMA LeadsEmpty ==
    ASSUME NEW V, NEW R, NEW x \in V, NEW y
    PROVE  Leads(V, R, << >>, x, y) <=> y = x
<1>1. Len(<< >>) = 0 /\ 1 .. 0 = {}
  OBVIOUS
<1>2. Leads(V, R, << >>, x, y) => y = x
  BY <1>1 DEF Leads
<1>3. ASSUME y = x PROVE Leads(V, R, << >>, x, y)
  <2> DEFINE d == [i \in 0 .. 0 |-> x]
  <2>1. d \in [0 .. 0 -> V] /\ d[0] = x
    OBVIOUS
  <2> QED
    BY <1>1, <1>3, <2>1 DEF Leads
<1> QED
  BY <1>2, <1>3

LEMMA LeadsOne ==
    ASSUME NEW V, NEW R, NEW x \in V, NEW y \in V, NEW p
    PROVE  Leads(V, R, << p >>, x, y) <=> << p, x, y >> \in R
<1>1. Len(<< p >>) = 1 /\ << p >>[1] = p /\ 1 .. 1 = {1}
  OBVIOUS
<1>2. ASSUME Leads(V, R, << p >>, x, y) PROVE << p, x, y >> \in R
  <2>1. PICK d \in [0 .. 1 -> V] : d[0] = x /\ d[1] = y /\ << << p >>[1], d[1 - 1], d[1] >> \in R
    BY <1>1, <1>2 DEF Leads
  <2> QED
    BY <1>1, <2>1
<1>3. ASSUME << p, x, y >> \in R PROVE Leads(V, R, << p >>, x, y)
  <2> DEFINE d == [i \in 0 .. 1 |-> IF i = 0 THEN x ELSE y]
  <2>1. d \in [0 .. 1 -> V] /\ d[0] = x /\ d[1] = y /\ d[1 - 1] = x
    OBVIOUS
  <2> HIDE DEF d
  <2>2. \A i \in 1 .. 1 : << << p >>[i], d[i - 1], d[i] >> \in R
    BY <1>1, <1>3, <2>1
  <2> QED
    BY <1>1, <2>1, <2>2 DEF Leads
<1> QED
  BY <1>2, <1>3

LEMMA LeadsValues ==
    ASSUME NEW V, NEW R, NEW S, NEW s \in Seq(S), NEW x, NEW y, Leads(V, R, s, x, y)
    PROVE  x \in V /\ y \in V
<1>1. Len(s) \in Nat
  OBVIOUS
<1>2. PICK d \in [0 .. Len(s) -> V] : d[0] = x /\ d[Len(s)] = y
  BY DEF Leads
<1> QED
  BY <1>1, <1>2

LEMMA LeadsConcat ==
    ASSUME NEW V, NEW R, NEW S, NEW s \in Seq(S), NEW t \in Seq(S), NEW x, NEW y
    PROVE  Leads(V, R, s \o t, x, y) <=>
              \E m \in V : Leads(V, R, s, x, m) /\ Leads(V, R, t, m, y)
<1> DEFINE u == s \o t
           n == Len(s)
<1>1. /\ n \in Nat /\ Len(t) \in Nat /\ Len(u) = n + Len(t)
      /\ \A i \in 1 .. n : u[i] = s[i]
      /\ \A i \in 1 .. Len(t) : u[n + i] = t[i]
  OBVIOUS
<1> HIDE DEF u, n
<1>2. ASSUME Leads(V, R, u, x, y)
      PROVE  \E m \in V : Leads(V, R, s, x, m) /\ Leads(V, R, t, m, y)
  <2>1. PICK d \in [0 .. Len(u) -> V] :
           /\ d[0] = x /\ d[Len(u)] = y
           /\ \A i \in 1 .. Len(u) : << u[i], d[i - 1], d[i] >> \in R
    BY <1>2 DEF Leads
  <2> DEFINE e == [i \in 0 .. n |-> d[i]]
             f == [i \in 0 .. Len(t) |-> d[n + i]]
  <2>2. e \in [0 .. n -> V] /\ f \in [0 .. Len(t) -> V] /\ d[n] \in V
    BY <1>1, <2>1
  <2>3. e[0] = x /\ e[n] = d[n] /\ f[0] = d[n] /\ f[Len(t)] = y
    BY <1>1, <2>1
  <2>4. ASSUME NEW i \in 1 .. n PROVE << s[i], e[i - 1], e[i] >> \in R
    <3>1. i \in 1 .. Len(u) /\ u[i] = s[i] /\ e[i - 1] = d[i - 1] /\ e[i] = d[i]
      BY <1>1
    <3> QED
      BY <2>1, <3>1
  <2>5. ASSUME NEW i \in 1 .. Len(t) PROVE << t[i], f[i - 1], f[i] >> \in R
    <3>1. /\ n + i \in 1 .. Len(u) /\ u[n + i] = t[i]
          /\ f[i - 1] = d[n + (i - 1)] /\ n + (i - 1) = (n + i) - 1 /\ f[i] = d[n + i]
      BY <1>1
    <3>2. << u[n + i], d[(n + i) - 1], d[n + i] >> \in R
      BY <2>1, <3>1
    <3> QED
      BY <3>1, <3>2
  <2> HIDE DEF e, f
  <2>6. Leads(V, R, s, x, d[n])
    BY <2>2, <2>3, <2>4 DEF Leads, n
  <2>7. Leads(V, R, t, d[n], y)
    BY <2>2, <2>3, <2>5 DEF Leads
  <2> QED
    BY <2>2, <2>6, <2>7
<1>3. ASSUME NEW m \in V, Leads(V, R, s, x, m), Leads(V, R, t, m, y)
      PROVE  Leads(V, R, u, x, y)
  <2>1. PICK e \in [0 .. n -> V] :
           /\ e[0] = x /\ e[n] = m
           /\ \A i \in 1 .. n : << s[i], e[i - 1], e[i] >> \in R
    BY <1>3 DEF Leads, n
  <2>2. PICK f \in [0 .. Len(t) -> V] :
           /\ f[0] = m /\ f[Len(t)] = y
           /\ \A i \in 1 .. Len(t) : << t[i], f[i - 1], f[i] >> \in R
    BY <1>3 DEF Leads
  <2> DEFINE d == [i \in 0 .. Len(u) |-> IF i <= n THEN e[i] ELSE f[i - n]]
  <2>3. d \in [0 .. Len(u) -> V]
    BY <1>1, <2>1, <2>2
  <2>4. d[0] = x /\ d[Len(u)] = y
    <3>1. CASE Len(t) = 0
      BY <1>1, <2>1, <2>2, <3>1
    <3>2. CASE Len(t) # 0
      BY <1>1, <2>1, <2>2, <3>2
    <3> QED
      BY <3>1, <3>2
  <2>5. ASSUME NEW i \in 1 .. Len(u) PROVE << u[i], d[i - 1], d[i] >> \in R
    <3>1. CASE i <= n
      <4>1. i \in 1 .. n /\ d[i] = e[i] /\ d[i - 1] = e[i - 1] /\ u[i] = s[i]
        BY <1>1, <3>1
      <4> QED
        BY <2>1, <4>1
    <3>2. CASE i > n
      <4>1. /\ i - n \in 1 .. Len(t) /\ u[n + (i - n)] = t[i - n] /\ n + (i - n) = i
        BY <1>1, <3>2, SMTT(30)
      <4>2. d[i] = f[i - n]
        BY <1>1, <3>2
      <4>3. d[i - 1] = f[(i - n) - 1]
        <5>1. CASE i - 1 = n
          BY <1>1, <2>1, <2>2, <3>2, <5>1
        <5>2. CASE i - 1 > n
          BY <1>1, <3>2, <5>2
        <5> QED
          BY <1>1, <3>2, <5>1, <5>2
      <4>4. << t[i - n], f[(i - n) - 1], f[i - n] >> \in R
        BY <2>2, <4>1
      <4> QED
        BY <4>1, <4>2, <4>3, <4>4
    <3> QED
      BY <1>1, <3>1, <3>2
  <2> HIDE DEF d
  <2> QED
    BY <2>3, <2>4, <2>5 DEF Leads
<1>4. Leads(V, R, u, x, y) <=> \E m \in V : Leads(V, R, s, x, m) /\ Leads(V, R, t, m, y)
  BY <1>2, <1>3
<1> QED
  BY <1>4 DEF u

\* The first packet and the rest; the last one; a beginning.
LEMMA LeadsHead ==
    ASSUME NEW V, NEW R, NEW S, NEW s \in Seq(S), s # << >>, NEW x \in V, NEW y
    PROVE  Leads(V, R, s, x, y) <=>
              \E m \in V : << Head(s), x, m >> \in R /\ Leads(V, R, Tail(s), m, y)
<1>1. /\ s = << Head(s) >> \o Tail(s) /\ << Head(s) >> \in Seq(S) /\ Tail(s) \in Seq(S)
  OBVIOUS
<1>2. Leads(V, R, << Head(s) >> \o Tail(s), x, y) <=>
         \E m \in V : Leads(V, R, << Head(s) >>, x, m) /\ Leads(V, R, Tail(s), m, y)
  BY ONLY <1>1, LeadsConcat
<1>3. \A m \in V : Leads(V, R, << Head(s) >>, x, m) <=> << Head(s), x, m >> \in R
  BY LeadsOne
<1>4. Leads(V, R, s, x, y) <=> Leads(V, R, << Head(s) >> \o Tail(s), x, y)
  BY <1>1
<1> QED
  BY ONLY <1>2, <1>3, <1>4

LEMMA LeadsAppend ==
    ASSUME NEW V, NEW R, NEW S, NEW s \in Seq(S), NEW p \in S, NEW x, NEW y \in V
    PROVE  Leads(V, R, Append(s, p), x, y) <=>
              \E m \in V : Leads(V, R, s, x, m) /\ << p, m, y >> \in R
<1>1. /\ Append(s, p) = s \o << p >> /\ << p >> \in Seq(S)
  OBVIOUS
<1>2. Leads(V, R, s \o << p >>, x, y) <=>
         \E m \in V : Leads(V, R, s, x, m) /\ Leads(V, R, << p >>, m, y)
  BY ONLY <1>1, s \in Seq(S), LeadsConcat
<1>3. \A m \in V : Leads(V, R, << p >>, m, y) <=> << p, m, y >> \in R
  BY LeadsOne
<1>4. Leads(V, R, Append(s, p), x, y) <=> Leads(V, R, s \o << p >>, x, y)
  BY <1>1
<1> QED
  BY ONLY <1>2, <1>3, <1>4

LEMMA LeadsPrefix ==
    ASSUME NEW V, NEW R, NEW S, NEW s \in Seq(S), NEW n \in 0 .. Len(s),
           NEW x, NEW y, Leads(V, R, s, x, y)
    PROVE  \E z \in V : Leads(V, R, SubSeq(s, 1, n), x, z)
<1> DEFINE h == SubSeq(s, 1, n)
<1>1. /\ n \in Nat /\ Len(s) \in Nat /\ n <= Len(s) /\ Len(h) = n
      /\ \A i \in 1 .. n : h[i] = s[i] /\ i \in 1 .. Len(s)
  OBVIOUS
<1> HIDE DEF h
<1>2. PICK d \in [0 .. Len(s) -> V] :
         d[0] = x /\ \A i \in 1 .. Len(s) : << s[i], d[i - 1], d[i] >> \in R
  BY DEF Leads
<1> DEFINE e == [i \in 0 .. n |-> d[i]]
<1>3. /\ e \in [0 .. n -> V] /\ e[0] = x /\ e[n] \in V
      /\ \A i \in 1 .. n : e[i] = d[i] /\ e[i - 1] = d[i - 1]
  BY <1>1, <1>2
<1> HIDE DEF e
<1>4. \A i \in 1 .. n : << h[i], e[i - 1], e[i] >> \in R
  BY <1>1, <1>2, <1>3
<1>5. Leads(V, R, h, x, e[n])
  BY <1>1, <1>3, <1>4 DEF Leads
<1> QED
  BY <1>3, <1>5 DEF h

\* Packets that change nothing.
LEMMA LeadsTailNeutral ==
    ASSUME NEW V, NEW R, NEW S, NEW s \in Seq(S), s # << >>, NEW x \in V, NEW y,
           Neutral(V, R, Head(s))
    PROVE  Leads(V, R, Tail(s), x, y) <=> Leads(V, R, s, x, y)
<1>1. Leads(V, R, s, x, y) <=>
         \E m \in V : << Head(s), x, m >> \in R /\ Leads(V, R, Tail(s), m, y)
  BY LeadsHead
<1>2. \A m \in V : << Head(s), x, m >> \in R <=> x = m
  BY DEF Neutral
<1> QED
  BY ONLY <1>1, <1>2, x \in V

LEMMA LeadsAppendNeutral ==
    ASSUME NEW V, NEW R, NEW S, NEW s \in Seq(S), NEW p \in S, NEW x, NEW y \in V,
           Neutral(V, R, p)
    PROVE  Leads(V, R, Append(s, p), x, y) <=> Leads(V, R, s, x, y)
<1>1. Leads(V, R, Append(s, p), x, y) <=>
         \E m \in V : Leads(V, R, s, x, m) /\ << p, m, y >> \in R
  BY LeadsAppend
<1>2. \A m \in V : << p, m, y >> \in R <=> m = y
  BY DEF Neutral
<1> QED
  BY ONLY <1>1, <1>2, y \in V

\* A packet that changes nothing in front of one more.
LEMMA LeadsBetween ==
    ASSUME NEW V, NEW R, NEW S, NEW s \in Seq(S), NEW t \in Seq(S), NEW p \in S,
           NEW x, NEW y, Neutral(V, R, p), Leads(V, R, s \o t, x, y)
    PROVE  Leads(V, R, Append(s, p) \o t, x, y)
<1>1. Append(s, p) \in Seq(S)
  OBVIOUS
<1>2. PICK m \in V : Leads(V, R, s, x, m) /\ Leads(V, R, t, m, y)
  BY LeadsConcat
<1>3. Leads(V, R, Append(s, p), x, m)
  BY <1>2, LeadsAppendNeutral
<1>4. Leads(V, R, Append(s, p) \o t, x, y) <=>
         \E k \in V : Leads(V, R, Append(s, p), x, k) /\ Leads(V, R, t, k, y)
  BY ONLY <1>1, t \in Seq(S), LeadsConcat
<1> QED
  BY ONLY <1>2, <1>3, <1>4

-----------------------------------------------------------------------------
\* The packets under way stay permitted ones.

LEMMA Queued ==
    ASSUME NEW S, NEW s \in Seq(S)
    PROVE  /\ \A p \in S : Append(s, p) \in Seq(S)
           /\ s # << >> => Head(s) \in S /\ Tail(s) \in Seq(S)
           /\ \A n \in 0 .. Len(s) : SubSeq(s, 1, n) \in Seq(S)
           /\ \A p \in S : << p >> \in Seq(S)
           /\ << >> \in Seq(S)
OBVIOUS

LEMMA Permitted ==
    ASSUME Inv, NEW P, NEW D, Permits(P, D), NEW c \in Client
    PROVE  /\ \A p \in P[c] : /\ p \in Packet /\ p.type \notin {"ReadFromDisk", "ReadConfirmed"}
                              /\ p.type = "FullContent" => ~ p.force /\ p.text \in D
           /\ NoticeOf("WriteConfirmed") \in P[c] /\ NoticeOf("Disconnect") \in P[c]
           /\ [type |-> "ClientCount", count |-> SocketCount] \in P[c]
           /\ GetFull \in P[c] /\ text \in D => ContentOf(FALSE) \in P[c]
           /\ \A p \in P[c] : IsEdit(p) => /\ \A n \in Nat : Renumbered(p, n) \in P[c]
                                          /\ \A d \in Client : p \in P[d]
<1>1. /\ \A p \in P[c] : /\ p \in Packet /\ p.type \notin {"ReadFromDisk", "ReadConfirmed"}
                         /\ p.type = "FullContent" => p \in AnswerIn(D)
      /\ \A p \in Notice \cup Count : p.type # "ReadConfirmed" => p \in P[c]
      /\ \A p \in P[c] : IsEdit(p) => /\ \A n \in Nat : Renumbered(p, n) \in P[c]
                                     /\ \A d \in Client : p \in P[d]
      /\ GetFull \in P[c] => AnswerIn(D) \subseteq P[c]
  BY DEF Permits
<1>2. NoticeOf("WriteConfirmed") \in P[c] /\ NoticeOf("Disconnect") \in P[c]
  BY <1>1 DEF NoticeOf, Notice
<1>3. [type |-> "ClientCount", count |-> SocketCount] \in P[c]
  <2>1. SocketCount \in Nat
    BY SocketListType DEF Inv, TypeInv
  <2> QED
    BY <1>1, <2>1 DEF Count
<1>4. ContentOf(FALSE) \in Content
  BY Types, MoreTypes DEF ContentOf, Content
<1>5. text \in D => ContentOf(FALSE) \in AnswerIn(D)
  BY <1>4 DEF ContentOf, AnswerIn
<1>6. \A p \in P[c] : p.type = "FullContent" => ~ p.force /\ p.text \in D
  BY <1>1 DEF AnswerIn
<1>7. GetFull \in P[c] /\ text \in D => ContentOf(FALSE) \in P[c]
  BY <1>1, <1>5
<1> QED
  BY <1>1, <1>2, <1>3, <1>6, <1>7

LEMMA NextReceived ==
    ASSUME Inv, NEW P, NEW d \in Client, Travels(P, d), NEW types, Receives(d, types)
    PROVE  /\ Head(up[d]) \in P[d] /\ Head(up[d]).type \in types
           /\ up'[d] = Tail(up[d]) /\ up'[d] \in Seq(P[d])
<1>1. up[d] \in Seq(P[d]) /\ up[d] # << >> /\ up'[d] = Tail(up[d]) /\ Head(up[d]).type \in types
  BY Types DEF Receives, Travels
<1> QED
  BY ONLY <1>1, Queued

LEMMA TravelsThread ==
    ASSUME Inv, NEW P, NEW D, Permits(P, D), text \in D, NEW d \in Client, Travels(P, d),
           ServerStep(d)
    PROVE  Travels(P, d)'
<1> USE Types
<1>0. /\ pending[d] \in Seq(P[d]) /\ up[d] \in Seq(P[d]) /\ down[d] \in Seq(P[d])
      /\ loop[d] # "sleep" => GetFull \in P[d]
  BY DEF Travels
<1>1. CASE ApplyEdit(d)
  <2>1. Receives(d, {"Insert", "Remove"}) /\ msg'[d] = Head(up[d])
        /\ pc'[d] = "clock" /\ UNCHANGED << pending, down, loop >>
    BY <1>1 DEF ApplyEdit, Goto, clientVars
  <2>2. Head(up[d]) \in P[d] /\ IsEdit(Head(up[d])) /\ up'[d] \in Seq(P[d])
    BY <2>1, NextReceived DEF IsEdit
  <2>3. \A e \in Client : Head(up[d]) \in P[e]
    BY <2>2, Permitted
  <2>4. msg'[d].type # "FullContent"
    BY <2>1, <2>2 DEF IsEdit
  <2> QED
    BY <1>0, <2>1, <2>2, <2>3, <2>4 DEF Travels
<1>2. CASE CrashOnErase(d)
  <2>1. Receives(d, {"Remove"}) /\ UNCHANGED << pending, down, loop, pc, msg >>
    BY <1>2 DEF CrashOnErase, threadVars, clientVars
  <2>2. up'[d] \in Seq(P[d])
    BY <2>1, NextReceived
  <2> QED
    BY <2>1, <2>2 DEF Travels
<1>3. CASE WriteToDisk(d)
  <2>1. Receives(d, {"WriteToDisk"}) /\ UNCHANGED << pending, down, loop >>
        /\ msg'[d] = NoticeOf("WriteConfirmed") /\ pc'[d] = "list"
    BY <1>3 DEF WriteToDisk, Goto, clientVars
  <2>2. up'[d] \in Seq(P[d]) /\ \A e \in Client : NoticeOf("WriteConfirmed") \in P[e]
    BY <2>1, NextReceived, Permitted
  <2>3. NoticeOf("WriteConfirmed").type # "FullContent"
    BY DEF NoticeOf
  <2> QED
    BY <1>0, <2>1, <2>2, <2>3 DEF Travels
<1>4. ~ ReadFromDisk(d)
  <2> SUFFICES ASSUME ReadFromDisk(d) PROVE FALSE
    OBVIOUS
  <2>1. Receives(d, {"ReadFromDisk"})
    BY DEF ReadFromDisk
  <2>2. Head(up[d]) \in P[d] /\ Head(up[d]).type \in {"ReadFromDisk"}
    BY ONLY <2>1, Inv, d \in Client, Travels(P, d), NextReceived
  <2> QED
    BY <2>2, Permitted
<1>5. CASE Answer(d)
  <2>1. UNCHANGED << pending, down, loop >> /\ pc'[d] = "reply"
    BY <1>5 DEF Answer, Goto, clientVars
  <2>2. \/ Receives(d, {"GetFull"}) /\ msg'[d] = ContentOf(FALSE)
        \/ /\ Receives(d, {"GetClientCount"})
           /\ msg'[d] = [type |-> "ClientCount", count |-> SocketCount]
    BY <1>5 DEF Answer
  <2>3. ASSUME Receives(d, {"GetFull"}) PROVE GetFull \in P[d]
    <3>0. up[d] \in Seq(ToServer) /\ up[d] # << >>
      BY <2>3 DEF Receives
    <3>1. Head(up[d]) \in P[d] /\ Head(up[d]).type = "GetFull" /\ Head(up[d]) \in ToServer
      <4>1. Head(up[d]) \in ToServer
        BY ONLY <3>0, Queued
      <4>2. Head(up[d]) \in P[d] /\ Head(up[d]).type \in {"GetFull"}
        BY ONLY <2>3, Inv, d \in Client, Travels(P, d), NextReceived
      <4> QED
        BY <4>1, <4>2
    <3>2. Head(up[d]) \in Request
      BY <3>1 DEF ToServer, EditPacket, FileRequest
    <3>3. Head(up[d]) = GetFull
      BY <3>1, <3>2 DEF Request, GetFull
    <3> QED
      BY <3>1, <3>3
  <2>4. up'[d] \in Seq(P[d])
    BY <2>2, NextReceived
  <2>5. msg'[d] \in P[d]
    <3>1. /\ GetFull \in P[d] => ContentOf(FALSE) \in P[d]
          /\ [type |-> "ClientCount", count |-> SocketCount] \in P[d]
      BY Permitted
    <3> QED
      BY ONLY <2>2, <2>3, <3>1
  <2> QED
    BY <1>0, <2>1, <2>4, <2>5 DEF Travels
<1>6. CASE Reply(d)
  <2>1. UNCHANGED << pending, up, loop >> /\ pc'[d] = "recv" /\ pc[d] = "reply"
        /\ (down'[d] = down[d] \/ down'[d] = Append(down[d], msg[d]))
    BY <1>6 DEF Reply, Goto, SendTo, clientVars
  <2>2. msg[d] \in P[d]
    BY <2>1 DEF Travels
  <2>3. down'[d] \in Seq(P[d])
    BY ONLY <1>0, <2>1, <2>2, Queued
  <2> QED
    BY <1>0, <2>1, <2>3 DEF Travels
<1>7. CASE TakeClock(d) \/ ReleaseClock(d) \/ Close(d) \/ SaveOnExit(d)
  <2>1. UNCHANGED << pending, up, down, loop, msg >>
    BY <1>7 DEF TakeClock, ReleaseClock, Close, SaveOnExit, netVars, clientVars
  <2>2. \/ pc[d] = "clock" /\ pc'[d] = "forward"
        \/ pc'[d] \in {"recv", "autosave", "dead"}
    BY <1>7 DEF TakeClock, ReleaseClock, Close, SaveOnExit, Goto
  <2> QED
    BY <2>1, <2>2 DEF Travels
<1>8. CASE Forward(d) \/ Broadcast(d)
  <2>1. UNCHANGED << pending, up, loop, pc, msg >> /\ pc[d] \in {"forward", "broadcast"}
    BY <1>8 DEF Forward, Broadcast, clientVars
  <2>2. UNCHANGED down \/ SendTo(Head(todo[d]), msg[d])
    BY <1>8 DEF Forward, Broadcast
  <2>3. down'[d] = down[d] \/ down'[d] = Append(down[d], msg[d])
    BY ONLY <2>2, SentTo, Inv, d \in Client
  <2>4. msg[d] \in P[d]
    BY <2>1 DEF Travels
  <2>5. down'[d] \in Seq(P[d])
    BY ONLY <1>0, <2>3, <2>4, Queued
  <2> QED
    BY <2>1, <2>5 DEF Travels
<1>9. CASE ListSockets(d) \/ EndBroadcast(d)
  <2>1. UNCHANGED << pending, up, down, loop, msg >>
    BY <1>9 DEF ListSockets, EndBroadcast, netVars, clientVars
  <2>2. pc[d] # "listForText"
    BY DEF Travels
  <2>0. \A p \in P[d] : p.type # "ReadConfirmed"
    BY Permitted
  <2>3. pc[d] = "broadcast" => msg[d].type # "ReadConfirmed"
    BY <2>0 DEF Travels
  <2>4. \/ pc[d] = "list" /\ pc'[d] = "broadcast"
        \/ pc'[d] \in {"recv", "close"}
    BY <1>9, <2>2, <2>3 DEF ListSockets, EndBroadcast, Goto
  <2> QED
    BY <2>1, <2>4 DEF Travels
<1>10. ~ SerializeText(d)
  BY DEF SerializeText, Travels
<1>11. CASE Disconnected(d)
  <2>1. UNCHANGED << pending, up, down, loop >> /\ pc'[d] = "list"
        /\ msg'[d] = NoticeOf("Disconnect")
    BY <1>11 DEF Disconnected, Goto, netVars, clientVars
  <2>2. \A e \in Client : NoticeOf("Disconnect") \in P[e]
    BY Permitted
  <2>3. NoticeOf("Disconnect").type # "FullContent"
    BY DEF NoticeOf
  <2> QED
    BY <1>0, <2>1, <2>2, <2>3 DEF Travels
<1> QED
  BY <1>1, <1>2, <1>3, <1>4, <1>5, <1>6, <1>7, <1>8, <1>9, <1>10, <1>11 DEF ServerStep

LEMMA TravelsClient ==
    ASSUME Inv, NEW P, NEW D, Permits(P, D), AsksIn(P), NEW d \in Client, Travels(P, d),
           ClientStep(d) \/ UserStep(d), pending'[d] \in Seq(P[d])
    PROVE  Travels(P, d)'
<1> USE Types, MoreTypes
<1>0. /\ pending[d] \in Seq(P[d]) /\ up[d] \in Seq(P[d]) /\ down[d] \in Seq(P[d])
      /\ loop[d] # "sleep" => GetFull \in P[d]
  BY DEF Travels
<1>1. UNCHANGED threadVars
  BY DEF ClientStep, KeyboardStep, HandlerStep, LoopStep, SendEdit, SendRequest,
     ForcedText, Overwrite, IgnoreText, RemoteEdit, ShowNotice, Handles, ClearFlag,
     AskForText, ClientCrash, Ends, NoticeLoss, UserStep, PressChar, PressTab,
     PressEnter, PressBackspace, PressDelete, PressCommand, PressSync, Press, MoveCursor,
     Connect, Quit, Ends, ContinueLocally
<1>2. CASE ClearFlag(d)
  <2>1. UNCHANGED << up, down, pending >> /\ GetFull \in P[d]
    BY <1>2 DEF ClearFlag, netVars, AsksIn, Asks
  <2> QED
    BY <1>0, <1>1, <2>1 DEF Travels, threadVars
<1>10. CASE AskForText(d)
  <2>1. /\ loop[d] = "cleared" /\ loop'[d] = "sleep" /\ UNCHANGED << down, pending >>
        /\ up'[d] = up[d] \/ up'[d] = Append(up[d], GetFull)
    BY <1>10 DEF AskForText, SendUp
  <2>2. GetFull \in P[d]
    BY <1>0, <2>1
  <2>3. up'[d] \in Seq(P[d])
    BY ONLY <1>0, <2>1, <2>2, Queued
  <2> QED
    BY <1>0, <1>1, <2>1, <2>3 DEF Travels, threadVars
<1>3. CASE SendEdit(d)
  <2> DEFINE q == Head(pending[d])
             p == Renumbered(q, issued[d] + 1)
  <2>1. pending[d] # << >> /\ IsEdit([Head(pending[d]) EXCEPT !.n = issued[d] + 1])
        /\ SendUp(d, [Head(pending[d]) EXCEPT !.n = issued[d] + 1])
        /\ UNCHANGED << down, loop >>
    BY <1>3 DEF SendEdit
  <2>2. SendUp(d, p) /\ IsEdit(p)
    BY <2>1 DEF Renumbered
  <2>3. q \in P[d] /\ q \in ToServer
    <3>1. pending[d] \in Seq(ToServer)
      OBVIOUS
    <3> QED
      BY ONLY <1>0, <2>1, <3>1, Queued
  <2>4. IsEdit(q)
    BY <2>2, <2>3 DEF Renumbered, IsEdit, ToServer, EditPacket, Request, FileRequest
  <2> HIDE DEF q
  <2>5. issued[d] + 1 \in Nat
    <3>1. issued[d] \in Nat
      OBVIOUS
    <3> QED
      BY ONLY <3>1
  <2>6. p \in P[d]
    BY <2>3, <2>4, <2>5, Permitted
  <2> HIDE DEF p
  <2>7. up'[d] = up[d] \/ up'[d] = Append(up[d], p)
    BY <2>2 DEF SendUp
  <2>8. up'[d] \in Seq(P[d])
    BY ONLY <1>0, <2>6, <2>7, Queued
  <2> QED
    BY <1>0, <1>1, <2>1, <2>8 DEF Travels, threadVars
<1>4. CASE SendRequest(d)
  <2>1. pending[d] # << >> /\ SendUp(d, Head(pending[d])) /\ UNCHANGED << down, loop >>
    BY <1>4 DEF SendRequest
  <2>2. up'[d] = up[d] \/ up'[d] = Append(up[d], Head(pending[d]))
    BY <2>1 DEF SendUp
  <2>3. up'[d] \in Seq(P[d])
    BY ONLY <1>0, <2>1, <2>2, Queued
  <2> QED
    BY <1>0, <1>1, <2>1, <2>3 DEF Travels, threadVars
<1>5. CASE HandlerStep(d)
  <2>1. UNCHANGED << up, loop >> /\ down[d] # << >> /\ down' = [down EXCEPT ![d] = Tail(@)]
    BY <1>5 DEF HandlerStep, ForcedText, Overwrite, IgnoreText, RemoteEdit, ShowNotice, Handles
  <2>2. down'[d] \in Seq(P[d])
    BY <1>0, <2>1
  <2> QED
    BY <1>0, <1>1, <2>1, <2>2 DEF Travels, threadVars
<1>6. CASE Ends(d)
  <2>1. PICK n \in 0 .. Len(up[d]) : up' = [up EXCEPT ![d] = SubSeq(@, 1, n)]
    BY <1>6 DEF Ends
  <2>2. SubSeq(up[d], 1, n) \in Seq(P[d])
    BY ONLY <1>0, Queued
  <2>3. up'[d] \in Seq(P[d])
    BY <2>1, <2>2
  <2>4. down'[d] = << >> /\ loop'[d] = "sleep"
    BY <1>6 DEF Ends
  <2> QED
    BY <1>1, <2>3, <2>4 DEF Travels, threadVars
<1>7. CASE NoticeLoss(d)
  <2>1. down'[d] = << >> /\ UNCHANGED << up, loop >>
    BY <1>7 DEF NoticeLoss
  <2> QED
    BY <1>0, <1>1, <2>1 DEF Travels, threadVars
<1>8. CASE Connect(d)
  <2>1. up'[d] = << GetFull >> /\ UNCHANGED << down, loop >>
    BY <1>8 DEF Connect
  <2>2. GetFull \in P[d]
    BY <1>8 DEF AsksIn, Asks
  <2>3. up'[d] \in Seq(P[d])
    BY ONLY <2>1, <2>2, <1>0, Queued
  <2> QED
    BY <1>0, <1>1, <2>1, <2>3 DEF Travels, threadVars
<1>9. CASE \/ PressChar(d) \/ PressTab(d) \/ PressEnter(d) \/ PressBackspace(d)
           \/ PressDelete(d) \/ PressCommand(d) \/ PressSync(d) \/ MoveCursor(d)
           \/ ContinueLocally(d)
  <2>1. UNCHANGED << up, down, loop >>
    BY <1>9 DEF PressChar, PressTab, PressEnter, PressBackspace, PressDelete, PressCommand,
       PressSync, Press, MoveCursor, ContinueLocally, netVars
  <2> QED
    BY <1>0, <1>1, <2>1 DEF Travels, threadVars
<1> QED
  BY <1>2, <1>3, <1>4, <1>5, <1>6, <1>7, <1>8, <1>9, <1>10
  DEF ClientStep, KeyboardStep, LoopStep, ClientCrash, UserStep, Quit

LEMMA TrafficStep ==
    ASSUME Inv, NEW P, NEW D, Permits(P, D), text \in D, AsksIn(P), Traffic(P), [Next]_vars,
           \A c \in Client : pending'[c] \in Seq(P[c])
    PROVE  Traffic(P)'
<1> SUFFICES ASSUME NEW d \in Client PROVE Travels(P, d)'
  BY DEF Traffic
<1>0. Travels(P, d) /\ pending'[d] \in Seq(P[d])
  BY DEF Traffic
<1>1. CASE AcceptorStep
  <2>1. /\ UNCHANGED << up[d], pending[d], loop[d], msg[d] >>
        /\ pc'[d] = pc[d] \/ (pc[d] = "none" /\ pc'[d] = "recv")
        /\ \/ down'[d] = down[d]
           \/ down'[d] = Append(down[d], NoticeOf("Disconnect"))
    BY <1>1, Accepting
  <2>2. NoticeOf("Disconnect") \in P[d]
    BY Permitted
  <2>4. down[d] \in Seq(P[d])
    BY <1>0 DEF Travels
  <2>3. down'[d] \in Seq(P[d])
    BY ONLY <2>1, <2>2, <2>4, Queued
  <2> QED
    BY <1>0, <2>1, <2>3 DEF Travels
<1>2. ASSUME NEW c \in Client, c # d, ServerStep(c) \/ ClientStep(c) \/ UserStep(c)
      PROVE  Travels(P, d)'
  <2>1. /\ UNCHANGED << up[d], pending[d], loop[d], pc[d], msg[d] >>
        /\ \/ down'[d] = down[d]
           \/ /\ pc[c] \in {"forward", "broadcast"}
              /\ down'[d] = Append(down[d], msg[c])
    BY <1>2, Elsewhere DEF Own
  <2>2. pc[c] \in {"forward", "broadcast"} => msg[c] \in P[d]
    BY DEF Traffic, Travels
  <2>4. down[d] \in Seq(P[d])
    BY <1>0 DEF Travels
  <2>3. down'[d] \in Seq(P[d])
    BY ONLY <2>1, <2>2, <2>4, Queued
  <2> QED
    BY <1>0, <2>1, <2>3 DEF Travels
<1>3. CASE ServerStep(d)
  BY <1>0, <1>3, TravelsThread
<1>4. CASE ClientStep(d) \/ UserStep(d)
  BY <1>0, <1>4, TravelsClient
<1>5. CASE UNCHANGED vars
  BY <1>0, <1>5 DEF vars, serverVars, threadVars, netVars, clientVars, historyVars, Travels
<1> QED
  BY <1>1, <1>2, <1>3, <1>4, <1>5 DEF Next

-----------------------------------------------------------------------------
\* Who changes the text of the server and of a client, and that they stay
\* among the texts that may occur.

LEMMA TextStep ==
    ASSUME [Next]_vars
    PROVE  text' = text \/ \E c \in Client : ApplyEdit(c) \/ ReadFromDisk(c)
<1>1. CASE AcceptorStep
  BY <1>1 DEF AcceptorStep, Accept, NotifyOne, StartThread
<1>2. ASSUME NEW c \in Client, ServerStep(c), ~ ApplyEdit(c), ~ ReadFromDisk(c)
      PROVE  text' = text
  BY <1>2 DEF ServerStep, CrashOnErase, WriteToDisk, Answer, Reply,
     TakeClock, Forward, ReleaseClock, ListSockets, SerializeText, Broadcast, EndBroadcast,
     Disconnected, Close, SaveOnExit, serverVars
<1>3. ASSUME NEW c \in Client, ClientStep(c) \/ UserStep(c) PROVE text' = text
  BY <1>3 DEF ClientStep, KeyboardStep, HandlerStep, LoopStep, SendEdit, SendRequest,
     ForcedText, Overwrite, IgnoreText, RemoteEdit, ShowNotice, Handles, ClearFlag,
     AskForText, ClientCrash, Ends, NoticeLoss, UserStep, PressChar, PressTab,
     PressEnter, PressBackspace, PressDelete, PressCommand, PressSync, Press, MoveCursor,
     Connect, Quit, Ends, ContinueLocally, serverVars
<1>4. CASE UNCHANGED vars
  BY <1>4 DEF vars, serverVars
<1> QED
  BY <1>1, <1>2, <1>3, <1>4 DEF Next

LEMMA LocalOwnStep ==
    ASSUME Inv, NEW c \in Client, ServerStep(c) \/ ClientStep(c) \/ UserStep(c)
    PROVE  /\ client'[c] = "up" => client[c] = "up" \/ Connect(c)
           /\ \/ local'[c] = local[c]
              \/ SendEdit(c) \/ RemoteEdit(c) \/ ForcedText(c) \/ Overwrite(c)
<1> USE Types, MoreTypes
<1>1. CASE ServerStep(c)
  <2>1. UNCHANGED clientVars
    BY <1>1 DEF ServerStep, ApplyEdit, CrashOnErase, WriteToDisk, ReadFromDisk, Answer, Reply,
     TakeClock, Forward, ReleaseClock, ListSockets, SerializeText, Broadcast, EndBroadcast,
     Disconnected, Close, SaveOnExit
  <2> QED
    BY <2>1 DEF clientVars
<1>2. CASE HandlerStep(c)
  <2>1. client[c] = "up" /\ UNCHANGED client
    BY <1>2 DEF HandlerStep, ForcedText, Overwrite, IgnoreText, RemoteEdit, ShowNotice, Handles
  <2>2. IgnoreText(c) \/ ShowNotice(c) => UNCHANGED local
    BY DEF IgnoreText, ShowNotice
  <2> QED
    BY <1>2, <2>1, <2>2 DEF HandlerStep
<1>3. CASE SendEdit(c) \/ SendRequest(c) \/ LoopStep(c)
  <2>1. UNCHANGED client
    BY <1>3 DEF SendEdit, SendRequest, LoopStep, ClearFlag, AskForText
  <2>2. SendRequest(c) \/ LoopStep(c) => UNCHANGED local
    BY DEF SendRequest, LoopStep, ClearFlag, AskForText
  <2> QED
    BY <1>3, <2>1, <2>2
<1>4. CASE Ends(c) \/ NoticeLoss(c) \/ ContinueLocally(c) \/ Connect(c)
  <2>1. UNCHANGED local
    BY <1>4 DEF Ends, NoticeLoss, ContinueLocally, Connect
  <2>2. ~ Connect(c) => client'[c] # "up"
    BY <1>4 DEF Ends, NoticeLoss, ContinueLocally
  <2> QED
    BY <2>1, <2>2
<1>5. CASE \/ PressChar(c) \/ PressTab(c) \/ PressEnter(c) \/ PressBackspace(c)
           \/ PressDelete(c) \/ PressCommand(c) \/ PressSync(c) \/ MoveCursor(c)
  <2>1. UNCHANGED << client, local >>
    BY <1>5 DEF PressChar, PressTab, PressEnter, PressBackspace, PressDelete, PressCommand,
       PressSync, Press, MoveCursor
  <2> QED
    BY <2>1
<1> QED
  BY <1>1, <1>2, <1>3, <1>4, <1>5
  DEF ClientStep, KeyboardStep, UserStep, ClientCrash, Quit

\* Who changes the text of a client.
LEMMA LocalStep ==
    ASSUME Inv, NEW c \in Client, [Next]_vars
    PROVE  /\ client'[c] = "up" => client[c] = "up" \/ Connect(c)
           /\ \/ local'[c] = local[c]
              \/ SendEdit(c) \/ RemoteEdit(c) \/ ForcedText(c) \/ Overwrite(c)
<1>1. CASE AcceptorStep \/ UNCHANGED vars
  BY <1>1, Accepting DEF vars, clientVars
<1>2. ASSUME NEW d \in Client, d # c, ServerStep(d) \/ ClientStep(d) \/ UserStep(d)
      PROVE  client'[c] = client[c] /\ local'[c] = local[c]
  BY <1>2, Elsewhere DEF Own
<1>3. CASE ServerStep(c) \/ ClientStep(c) \/ UserStep(c)
  BY <1>3, LocalOwnStep
<1> QED
  BY <1>1, <1>2, <1>3 DEF Next

LEMMA AppliedEdit ==
    ASSUME Inv, NEW c \in Client, ApplyEdit(c)
    PROVE  /\ Head(up[c]) \in EditPacket /\ IsEdit(Head(up[c])) /\ Head(up[c]).from = c
           /\ text' \in After(text, Head(up[c]))
<1>1. Receives(c, {"Insert", "Remove"})
  BY DEF ApplyEdit
<1>2. Head(up[c]) \in EditPacket /\ Head(up[c]).from = c
  BY <1>1, NextEdit
<1>3. IsEdit(Head(up[c]))
  BY <1>1 DEF Receives, IsEdit
<1> QED
  BY <1>2, <1>3 DEF ApplyEdit, After

LEMMA HandledEdit ==
    ASSUME Inv, NEW c \in Client, RemoteEdit(c)
    PROVE  /\ Head(down[c]) \in EditPacket /\ IsEdit(Head(down[c])) /\ Head(down[c]).from # c
           /\ local'[c] \in After(local[c], Head(down[c]))
<1>1. Handles(c, {"Insert", "Remove"})
  BY DEF RemoteEdit
<1>2. Head(down[c]) \in EditPacket /\ Head(down[c]).from # c
  BY <1>1, NextForwarded
<1>3. IsEdit(Head(down[c]))
  BY <1>1 DEF Handles, IsEdit
<1>4. local'[c] \in After(local[c], Head(down[c]))
  BY MoreTypes DEF RemoteEdit, After
<1> QED
  BY <1>2, <1>3, <1>4

LEMMA SentEdit ==
    ASSUME Inv, NEW c \in Client, SendEdit(c), NEW p,
           p = Renumbered(Head(pending[c]), issued[c] + 1)
    PROVE  /\ pending[c] # << >> /\ IsEdit(Head(pending[c])) /\ p \in EditPacket /\ IsEdit(p)
           /\ p.from = c /\ SendUp(c, p) /\ local'[c] \in After(local[c], p)
           /\ Head(pending[c]) \in EditPacket /\ p.type = Head(pending[c]).type
           /\ p.line = Head(pending[c]).line /\ p.index = Head(pending[c]).index
           /\ p.char = Head(pending[c]).char
<1> DEFINE q == Head(pending[c])
<1>1. /\ pending[c] # << >> /\ IsEdit(p) /\ SendUp(c, p)
      /\ \/ /\ p.type = "Insert"
            /\ local' = [local EXCEPT ![c] = InsertChar(@, p.line, p.index, p.char)]
         \/ /\ p.type = "Remove"
            /\ \E doc \in RemoveChar(local[c], p.line, p.index) :
                  local' = [local EXCEPT ![c] = doc]
  BY DEF SendEdit, Renumbered
<1>2. pending[c] \in Seq(ToServer) /\ issued[c] + 1 \in Nat
  <2>1. issued[c] \in Nat /\ pending[c] \in Seq(ToServer)
    BY Types
  <2> QED
    BY ONLY <2>1
<1>3. q \in ToServer /\ 1 \in DOMAIN pending[c] /\ pending[c][1] = q
  BY <1>1, <1>2
<1>4. IsEdit(q) /\ q \in EditPacket
  BY <1>1, <1>3 DEF Renumbered, IsEdit, ToServer, EditPacket, Request, FileRequest
<1>5. q.from = c
  BY <1>3, <1>4 DEF Inv, OrderInv, OwnEdits
<1> HIDE DEF q
<1>6. p = [q EXCEPT !.n = issued[c] + 1]
  BY DEF Renumbered, q
<1>7. /\ p \in EditPacket /\ p.from = q.from /\ p.type = q.type /\ p.line = q.line
      /\ p.index = q.index /\ p.char = q.char
  BY <1>2, <1>4, <1>6 DEF EditPacket
<1>8. local'[c] \in After(local[c], p)
  BY <1>1, MoreTypes DEF After
<1> QED
  BY <1>1, <1>4, <1>5, <1>7, <1>8 DEF q

\* The packets at the head of the queues are permitted ones.
LEMMA Heads ==
    ASSUME Inv, NEW P, NEW D, Permits(P, D), Traffic(P), NEW c \in Client
    PROVE  /\ up[c] # << >> => Head(up[c]) \in P[c]
           /\ down[c] # << >> => Head(down[c]) \in P[c]
           /\ pending[c] # << >> => Head(pending[c]) \in P[c]
           /\ ~ ReadFromDisk(c) /\ ~ SerializeText(c)
<1>1. Travels(P, c)
  BY DEF Traffic
<1>2. up[c] \in Seq(P[c]) /\ down[c] \in Seq(P[c]) /\ pending[c] \in Seq(P[c])
  BY <1>1 DEF Travels
<1>3. /\ up[c] # << >> => Head(up[c]) \in P[c]
      /\ down[c] # << >> => Head(down[c]) \in P[c]
      /\ pending[c] # << >> => Head(pending[c]) \in P[c]
  BY ONLY <1>2, Queued
<1>4. ~ ReadFromDisk(c)
  <2>1. \A p \in P[c] : p.type \notin {"ReadFromDisk", "ReadConfirmed"}
    BY Permitted
  <2> QED
    BY <1>3, <2>1 DEF ReadFromDisk, Receives
<1> QED
  BY <1>1, <1>3, <1>4 DEF SerializeText, Travels

\* The texts that a client may get, and who gets none.
LEMMA TextsIn ==
    ASSUME Inv, NEW P, NEW D, Permits(P, D), Traffic(P), NEW c \in Client
    PROVE  /\ ~ ForcedText(c)
           /\ Overwrite(c) => /\ Head(down[c]) \in P[c] /\ Head(down[c]).type = "FullContent"
                              /\ Head(down[c]).text \in D /\ local'[c] = Head(down[c]).text
<1>1. Handles(c, {"FullContent"}) =>
         /\ Head(down[c]) \in P[c] /\ Head(down[c]).type = "FullContent"
         /\ ~ Head(down[c]).force /\ Head(down[c]).text \in D
  BY Heads, Permitted DEF Handles
<1>2. Overwrite(c) => local'[c] = Head(down[c]).text
  BY MoreTypes DEF Overwrite
<1> QED
  BY <1>1, <1>2 DEF ForcedText, Overwrite

LEMMA NoTexts ==
    ASSUME Inv, NEW P, NEW D, Permits(P, D), Traffic(P), NEW c \in Client, Untouched(P, c)
    PROVE  /\ ~ ForcedText(c) /\ ~ Overwrite(c) /\ ~ AskForText(c)
           /\ AsksIn(P) => ~ PressSync(c) /\ ~ ClearFlag(c) /\ ~ Connect(c)
<1>1. \A p \in P[c] : p.type \notin {"GetFull", "FullContent"}
  BY DEF Untouched
<1>2. GetFull \notin P[c]
  BY <1>1 DEF GetFull
<1>3. ~ AskForText(c)
  BY <1>2 DEF Traffic, Travels, AskForText
<1>4. AsksIn(P) => ~ PressSync(c) /\ ~ ClearFlag(c) /\ ~ Connect(c)
  BY <1>2 DEF AsksIn, Asks
<1> QED
  BY <1>1, <1>3, <1>4, TextsIn

LEMMA InsideStep ==
    ASSUME Inv, NEW P, NEW D, Permits(P, D), Traffic(P), NEW E \in SUBSET Client, Inside(D, E),
           \A c \in Client : \A p \in P[c] : IsEdit(p) =>
              \A doc \in D : \A e \in After(doc, p) : e \in D,
           \A c \in E : ~ Connect(c), [Next]_vars
    PROVE  Inside(D, E)'
<1>1. \A c \in Client : \A p \in P[c] : IsEdit(p) =>
         \A doc \in D : \A e \in After(doc, p) : e \in D
  OBVIOUS
<1>2. text' \in D
  <2>1. text \in D
    BY DEF Inside
  <2>2. ASSUME NEW c \in Client, ApplyEdit(c) PROVE text' \in D
    <3>1. Head(up[c]) \in P[c]
      BY <2>2, Heads DEF ApplyEdit, Receives
    <3> QED
      BY <1>1, <2>1, <2>2, <3>1, AppliedEdit
  <2> QED
    BY <2>1, <2>2, TextStep, Heads
<1>3. ASSUME NEW c \in E, client'[c] = "up" PROVE local'[c] \in D
  <2>0. c \in Client
    OBVIOUS
  <2>1. ~ ForcedText(c) /\ ~ Connect(c)
    BY <2>0, TextsIn
  <2>2. client[c] = "up" /\ local[c] \in D
    BY <1>3, <2>0, <2>1, LocalStep DEF Inside
  <2>3. ASSUME SendEdit(c) PROVE local'[c] \in D
    <3> DEFINE p == Renumbered(Head(pending[c]), issued[c] + 1)
    <3>1. /\ pending[c] # << >> /\ IsEdit(Head(pending[c])) /\ IsEdit(p)
          /\ local'[c] \in After(local[c], p)
      BY <2>0, <2>3, SentEdit
    <3>2. Head(pending[c]) \in P[c]
      BY <2>0, <3>1, Heads
    <3>3. issued[c] + 1 \in Nat
      <4>1. issued[c] \in Nat
        BY <2>0, Types
      <4> QED
        BY ONLY <4>1
    <3>4. p \in P[c]
      BY <2>0, <3>1, <3>2, <3>3, Permitted
    <3> QED
      BY <1>1, <2>0, <2>2, <3>1, <3>4
  <2>4. ASSUME RemoteEdit(c) PROVE local'[c] \in D
    <3>1. Head(down[c]) \in P[c]
      BY <2>0, <2>4, Heads DEF RemoteEdit, Handles
    <3> QED
      BY <1>1, <2>0, <2>2, <2>4, <3>1, HandledEdit
  <2>5. ASSUME Overwrite(c) PROVE local'[c] \in D
    BY <2>0, <2>5, TextsIn
  <2> QED
    BY <2>0, <2>1, <2>2, <2>3, <2>4, <2>5, LocalStep
<1> QED
  BY <1>2, <1>3 DEF Inside

\* What the edits of a, and those of others, do to the part of a text that is seen.
LEMMA SeesEdit ==
    ASSUME NEW P, NEW D, NEW V, NEW view, NEW R, NEW a, Sees(P, D, V, view, R, a),
           NEW c \in Client, NEW p \in P[c], IsEdit(p), NEW doc \in D, NEW e \in After(doc, p)
    PROVE  /\ view[doc] \in V /\ view[e] \in V
           /\ p.from # a => view[e] = view[doc]
           /\ p.from = a => \A y \in V : << p, view[doc], y >> \in R => y = view[e]
  BY DEF Sees

LEMMA SeesOther ==
    ASSUME NEW P, NEW D, NEW V, NEW view, NEW R, NEW a, Sees(P, D, V, view, R, a),
           NEW c \in Client, NEW p \in P[c], ~ EditOf(p, a)
    PROVE  Neutral(V, R, p)
  BY DEF Sees

LEMMA UserQuiet ==
    ASSUME NEW c \in Client, ClientStep(c) \/ UserStep(c)
    PROVE  UNCHANGED << server, text, clients, accepted, threadVars >>
BY DEF ClientStep, KeyboardStep, HandlerStep, LoopStep, SendEdit, SendRequest,
     ForcedText, Overwrite, IgnoreText, RemoteEdit, ShowNotice, Handles, ClearFlag,
     AskForText, ClientCrash, Ends, NoticeLoss, UserStep, PressChar, PressTab,
     PressEnter, PressBackspace, PressDelete, PressCommand, PressSync, Press, MoveCursor,
     Connect, Quit, Ends, ContinueLocally, serverVars

LEMMA TextElsewhere ==
    ASSUME Inv, NEW P, NEW D, Permits(P, D), Traffic(P), NEW E, NEW V, NEW view, NEW R,
           NEW a \in Client, Sees(P, D, V, view, R, a), Inside(D, E),
           NEW c \in Client \ {a}, ServerStep(c) \/ ClientStep(c) \/ UserStep(c)
    PROVE  view[text'] = view[text]
<1>1. CASE ApplyEdit(c)
  <2>1. Head(up[c]) \in P[c]
    BY <1>1, Heads DEF ApplyEdit, Receives
  <2>2. text \in D /\ IsEdit(Head(up[c])) /\ text' \in After(text, Head(up[c]))
        /\ Head(up[c]).from # a
    BY <1>1, AppliedEdit DEF Inside
  <2> QED
    BY ONLY <2>1, <2>2, Sees(P, D, V, view, R, a), c \in Client, SeesEdit
<1>2. CASE ServerStep(c) /\ ~ ApplyEdit(c)
  <2>1. ~ ReadFromDisk(c)
    BY Heads
  <2>2. text' = text
    BY <1>2, <2>1 DEF ServerStep, CrashOnErase, WriteToDisk, Answer, Reply,
     TakeClock, Forward, ReleaseClock, ListSockets, SerializeText, Broadcast, EndBroadcast,
     Disconnected, Close, SaveOnExit, serverVars
  <2> QED
    BY <2>2
<1>3. CASE ClientStep(c) \/ UserStep(c)
  BY <1>3, UserQuiet
<1> QED
  BY <1>1, <1>2, <1>3

LEMMA AheadFrame ==
    ASSUME NEW V, NEW view, NEW R, NEW a, Ahead(V, view, R, a),
           server' = "up" => server = "up",
           up'[a] = up[a], local'[a] = local[a], view[text'] = view[text],
           client'[a] = "up" => client[a] = "up"
    PROVE  Ahead(V, view, R, a)'
BY DEF Ahead

\* Nobody else disturbs it.
LEMMA AheadElsewhere ==
    ASSUME Inv, NEW P, NEW D, Permits(P, D), Traffic(P), NEW E, NEW V, NEW view, NEW R,
           NEW a \in Client, Sees(P, D, V, view, R, a), Inside(D, E), Ahead(V, view, R, a),
           [Next]_vars, NEW c \in Client \ {a}, ServerStep(c) \/ ClientStep(c) \/ UserStep(c)
    PROVE  Ahead(V, view, R, a)'
<1>1. up'[a] = up[a] /\ local'[a] = local[a] /\ client'[a] = client[a]
  BY Elsewhere DEF Own
<1>2. view[text'] = view[text]
  BY TextElsewhere
<1> QED
  BY <1>1, <1>2, ServerStays, AheadFrame

\* The thread of a takes a packet that is not an edit.
LEMMA AheadTail ==
    ASSUME Inv, NEW P, NEW D, Permits(P, D), Traffic(P), NEW E, NEW V, NEW view, NEW R,
           NEW a \in Client, Sees(P, D, V, view, R, a), Inside(D, E), Ahead(V, view, R, a),
           NEW types, Receives(a, types), "Insert" \notin types, "Remove" \notin types,
           UNCHANGED << text, local, client >>
    PROVE  Ahead(V, view, R, a)'
<1>1. up[a] \in Seq(ToServer) /\ up[a] # << >> /\ up'[a] = Tail(up[a]) /\ server = "up"
      /\ Head(up[a]).type \in types
  BY Types DEF Receives
<1>2. Neutral(V, R, Head(up[a]))
  BY <1>1, Heads, SeesOther DEF EditOf, IsEdit
<1>3. view[text] \in V
  BY DEF Inside, Sees
<1>4. PICK y \in V : Leads(V, R, up[a], view[text], y) /\ (client[a] = "up" => y = view[local[a]])
  BY <1>1 DEF Ahead
<1>5. Leads(V, R, up'[a], view[text], y)
  <2>1. Leads(V, R, Tail(up[a]), view[text], y) <=> Leads(V, R, up[a], view[text], y)
    BY ONLY <1>1, <1>2, <1>3, LeadsTailNeutral
  <2> QED
    BY <1>1, <1>4, <2>1
<1> QED
  BY <1>4, <1>5 DEF Ahead

LEMMA AheadApplyEdit ==
    ASSUME Inv, NEW P, NEW D, Permits(P, D), Traffic(P), NEW E, NEW V, NEW view, NEW R,
           NEW a \in Client, Sees(P, D, V, view, R, a), Inside(D, E), Ahead(V, view, R, a),
           ApplyEdit(a)
    PROVE  /\ Ahead(V, view, R, a)'
           /\ << Head(up[a]), view[text], view[text'] >> \in R
<1> DEFINE p == Head(up[a])
<1>1. /\ up[a] \in Seq(ToServer) /\ up[a] # << >> /\ up'[a] = Tail(up[a]) /\ server = "up"
      /\ UNCHANGED << local, client >>
  BY Types DEF ApplyEdit, Receives, clientVars
<1>2. p \in P[a] /\ IsEdit(p) /\ p.from = a /\ text' \in After(text, p)
  BY <1>1, Heads, AppliedEdit
<1>3. text \in D
  BY DEF Inside
<1>4. view[text] \in V /\ view[text'] \in V
      /\ \A y \in V : << p, view[text], y >> \in R => y = view[text']
  BY ONLY <1>2, <1>3, Sees(P, D, V, view, R, a), a \in Client, SeesEdit
<1>5. PICK y \in V : Leads(V, R, up[a], view[text], y) /\ (client[a] = "up" => y = view[local[a]])
  BY <1>1 DEF Ahead
<1>6. PICK m \in V : << p, view[text], m >> \in R /\ Leads(V, R, Tail(up[a]), m, y)
  <2> DEFINE s == up[a]
             x == view[text]
  <2>1. s \in Seq(ToServer) /\ s # << >> /\ x \in V
    BY <1>1, <1>4
  <2> HIDE DEF s, x
  <2>2. Leads(V, R, s, x, y) <=>
           \E m \in V : << Head(s), x, m >> \in R /\ Leads(V, R, Tail(s), m, y)
    BY ONLY <2>1, LeadsHead
  <2> QED
    BY <1>5, <2>2 DEF s, x
<1>7. m = view[text']
  BY <1>4, <1>6
<1>8. Leads(V, R, up'[a], view[text'], y)
  BY <1>1, <1>6, <1>7
<1> QED
  BY <1>1, <1>5, <1>6, <1>7, <1>8 DEF Ahead

-----------------------------------------------------------------------------
\* The chain from the server's text to the author's, step by step.

LEMMA AheadSend ==
    ASSUME Inv, NEW V, NEW view, NEW R, NEW a \in Client, Ahead(V, view, R, a),
           NEW p \in ToServer, SendUp(a, p), server = "up", client[a] = "up",
           client'[a] = client[a], text' = text,
           view[local'[a]] \in V, << p, view[local[a]], view[local'[a]] >> \in R
    PROVE  Ahead(V, view, R, a)'
<1>1. up[a] \in Seq(ToServer) /\ up'[a] = Append(up[a], p)
  BY Types DEF SendUp, Connection
<1>2. PICK y \in V : Leads(V, R, up[a], view[text], y) /\ y = view[local[a]]
  BY DEF Ahead
<1>3. Leads(V, R, up'[a], view[text], view[local'[a]])
  <2>1. Leads(V, R, Append(up[a], p), view[text], view[local'[a]]) <=>
           \E m \in V : Leads(V, R, up[a], view[text], m) /\ << p, m, view[local'[a]] >> \in R
    BY <1>1, LeadsAppend
  <2> QED
    BY <1>1, <1>2, <2>1
<1> QED
  BY <1>3 DEF Ahead

LEMMA AheadUser ==
    ASSUME Inv, NEW P, NEW D, Permits(P, D), Traffic(P), NEW E, NEW V, NEW view, NEW R,
           NEW a \in Client, a \in E, ~ Connect(a),
           Overwrite(a) => view[local'[a]] = view[local[a]],
           Sees(P, D, V, view, R, a), Inside(D, E), Inside(D, E)', Ahead(V, view, R, a),
           ClientStep(a) \/ UserStep(a),
           SendEdit(a) /\ Connection(a) =>
              << Renumbered(Head(pending[a]), issued[a] + 1), view[local[a]], view[local'[a]] >>
                 \in R
    PROVE  Ahead(V, view, R, a)'
<1>0. UNCHANGED << server, text >>
  BY DEF ClientStep, KeyboardStep, HandlerStep, LoopStep, SendEdit, SendRequest,
     ForcedText, Overwrite, IgnoreText, RemoteEdit, ShowNotice, Handles, ClearFlag,
     AskForText, ClientCrash, Ends, NoticeLoss, UserStep, PressChar, PressTab,
     PressEnter, PressBackspace, PressDelete, PressCommand, PressSync, Press, MoveCursor,
     Connect, Quit, Ends, ContinueLocally, serverVars
<1>1. CASE SendEdit(a)
  <2> DEFINE p == Renumbered(Head(pending[a]), issued[a] + 1)
  <2>1. p \in ToServer /\ SendUp(a, p) /\ UNCHANGED client
    <3>1. p \in EditPacket /\ SendUp(a, p)
      BY <1>1, SentEdit
    <3> QED
      BY <1>1, <3>1 DEF SendEdit, ToServer
  <2>2. CASE Connection(a)
    <3>1. view[local'[a]] \in V
      BY <2>1, <2>2 DEF Connection, Inside, Sees
    <3>2. << p, view[local[a]], view[local'[a]] >> \in R
      BY <1>1, <2>2
    <3> HIDE DEF p
    <3> QED
      BY <1>0, <2>1, <2>2, <3>1, <3>2, AheadSend DEF Connection
  <2>3. CASE ~ Connection(a)
    <3>1. up'[a] = up[a]
      BY <2>1, <2>3 DEF SendUp
    <3> QED
      BY <1>0, <2>1, <2>3, <3>1 DEF Ahead, Connection
  <2> QED
    BY <2>2, <2>3
<1>2. CASE SendRequest(a)
  <2> DEFINE p == Head(pending[a])
  <2>1. /\ pending[a] # << >> /\ ~ IsEdit(p) /\ SendUp(a, p) /\ UNCHANGED << client, local >>
    BY <1>2 DEF SendRequest
  <2>2. p \in ToServer /\ p \in P[a]
    <3>1. pending[a] \in Seq(ToServer)
      BY Types
    <3>2. p \in ToServer
      BY ONLY <2>1, <3>1, Queued
    <3> QED
      BY <2>1, <3>2, Heads
  <2>3. Neutral(V, R, p)
    BY <2>1, <2>2, SeesOther DEF EditOf
  <2> HIDE DEF p
  <2>4. CASE Connection(a)
    <3>1. view[local'[a]] \in V
      BY <2>1, <2>4 DEF Connection, Inside, Sees
    <3>2. << p, view[local[a]], view[local'[a]] >> \in R
      BY <2>1, <2>3, <3>1 DEF Neutral
    <3> QED
      BY <1>0, <2>1, <2>2, <2>4, <3>1, <3>2, AheadSend DEF Connection
  <2>5. CASE ~ Connection(a)
    <3>1. up'[a] = up[a]
      BY <2>1, <2>5 DEF SendUp
    <3> QED
      BY <1>0, <2>1, <3>1 DEF Ahead
  <2> QED
    BY <2>4, <2>5
<1>3. CASE HandlerStep(a)
  <2>1. ~ ForcedText(a)
    BY TextsIn
  <2>2. UNCHANGED << up, client >>
    BY <1>3 DEF HandlerStep, ForcedText, Overwrite, IgnoreText, RemoteEdit, ShowNotice, Handles
  <2>3. CASE RemoteEdit(a)
    <3>1. down[a] # << >> /\ client[a] = "up"
      BY <2>3 DEF RemoteEdit, Handles
    <3>2. /\ Head(down[a]) \in P[a] /\ IsEdit(Head(down[a])) /\ Head(down[a]).from # a
          /\ local'[a] \in After(local[a], Head(down[a])) /\ local[a] \in D
      BY <2>3, <3>1, Heads, HandledEdit DEF Inside
    <3>3. view[local'[a]] = view[local[a]]
      BY ONLY <3>2, Sees(P, D, V, view, R, a), a \in Client, SeesEdit
    <3> QED
      BY <1>0, <2>2, <3>3 DEF Ahead
  <2>4. CASE IgnoreText(a) \/ ShowNotice(a)
    <3>1. UNCHANGED local
      BY <2>4 DEF IgnoreText, ShowNotice
    <3> QED
      BY <1>0, <2>2, <3>1 DEF Ahead
  <2>5. CASE Overwrite(a)
    BY <1>0, <2>2, <2>5 DEF Ahead
  <2> QED
    BY <1>3, <2>1, <2>3, <2>4, <2>5 DEF HandlerStep
<1>4. CASE Ends(a)
  <2>1. PICK n \in 0 .. Len(up[a]) : up' = [up EXCEPT ![a] = SubSeq(@, 1, n)]
    BY <1>4 DEF Ends
  <2>2. up'[a] = SubSeq(up[a], 1, n) /\ client'[a] = "gone" /\ up[a] \in Seq(ToServer)
    BY <1>4, <2>1, Types DEF Ends
  <2> SUFFICES ASSUME server = "up"
               PROVE  \E y \in V : Leads(V, R, up'[a], view[text], y)
    BY <1>0, <2>2 DEF Ahead
  <2>3. PICK y \in V : Leads(V, R, up[a], view[text], y)
    BY DEF Ahead
  <2>4. \E z \in V : Leads(V, R, SubSeq(up[a], 1, n), view[text], z)
    BY ONLY <2>2, <2>3, n \in 0 .. Len(up[a]), LeadsPrefix
  <2> QED
    BY <2>2, <2>4
<1>5. CASE NoticeLoss(a)
  <2>1. server = "crashed"
    BY <1>5 DEF NoticeLoss
  <2> QED
    BY <1>0, <2>1 DEF Ahead
<1>6. CASE ClearFlag(a)
  <2>1. UNCHANGED << up, client, local >>
    BY <1>6 DEF ClearFlag, netVars
  <2> QED
    BY <1>0, <2>1 DEF Ahead
<1>9. CASE AskForText(a)
  <2>1. SendUp(a, GetFull) /\ UNCHANGED << client, local >> /\ loop[a] # "sleep"
    BY <1>9 DEF AskForText
  <2>2. GetFull \in P[a] /\ GetFull \in ToServer
    BY <2>1 DEF Traffic, Travels, GetFull, ToServer, Request
  <2>3. Neutral(V, R, GetFull)
    BY <2>2, SeesOther DEF EditOf, GetFull, IsEdit
  <2>4. CASE Connection(a)
    <3>1. view[local'[a]] \in V
      BY <2>1, <2>4 DEF Connection, Inside, Sees
    <3>2. << GetFull, view[local[a]], view[local'[a]] >> \in R
      BY <2>1, <2>3, <3>1 DEF Neutral
    <3> QED
      BY <1>0, <2>1, <2>2, <2>4, <3>1, <3>2, AheadSend DEF Connection
  <2>5. CASE ~ Connection(a)
    <3>1. up'[a] = up[a]
      BY <2>1, <2>5 DEF SendUp
    <3> QED
      BY <1>0, <2>1, <3>1 DEF Ahead
  <2> QED
    BY <2>4, <2>5
<1>7. CASE \/ PressChar(a) \/ PressTab(a) \/ PressEnter(a) \/ PressBackspace(a)
           \/ PressDelete(a) \/ PressCommand(a) \/ PressSync(a) \/ MoveCursor(a)
  <2>1. UNCHANGED << up, client, local >>
    BY <1>7 DEF PressChar, PressTab, PressEnter, PressBackspace, PressDelete, PressCommand,
       PressSync, Press, MoveCursor, netVars
  <2> QED
    BY <1>0, <2>1 DEF Ahead
<1>8. CASE ContinueLocally(a)
  <2>1. UNCHANGED << up, local >> /\ client'[a] # "up"
    BY <1>8, Types DEF ContinueLocally, netVars
  <2> QED
    BY <1>0, <2>1 DEF Ahead
<1> QED
  BY <1>1, <1>2, <1>3, <1>4, <1>5, <1>6, <1>7, <1>8, <1>9
  DEF ClientStep, KeyboardStep, LoopStep, ClientCrash, UserStep, Quit

LEMMA AheadStep ==
    ASSUME Inv, NEW P, NEW D, Permits(P, D), Traffic(P), NEW E, NEW V, NEW view, NEW R,
           NEW a \in Client, a \in E, ~ Connect(a),
           Overwrite(a) => view[local'[a]] = view[local[a]],
           Sees(P, D, V, view, R, a), Inside(D, E), Inside(D, E)', Ahead(V, view, R, a),
           [Next]_vars,
           SendEdit(a) /\ Connection(a) =>
              << Renumbered(Head(pending[a]), issued[a] + 1), view[local[a]], view[local'[a]] >>
                 \in R
    PROVE  Ahead(V, view, R, a)'
<1>1. CASE AcceptorStep
  BY <1>1, Accepting DEF Ahead
<1>2. ASSUME NEW c \in Client, c # a, ServerStep(c) \/ ClientStep(c) \/ UserStep(c)
      PROVE  Ahead(V, view, R, a)'
  BY <1>2, AheadElsewhere
<1>3. CASE ClientStep(a) \/ UserStep(a)
  BY <1>3, AheadUser
<1>4. CASE ServerStep(a)
  <2>1. CASE ApplyEdit(a)
    BY <2>1, AheadApplyEdit
  <2>2. CASE CrashOnErase(a)
    BY <2>2 DEF CrashOnErase, Ahead
  <2>3. CASE WriteToDisk(a)
    <3>1. Receives(a, {"WriteToDisk"}) /\ UNCHANGED << text, local, client >>
      BY <2>3 DEF WriteToDisk, clientVars
    <3> QED
      BY <3>1, AheadTail
  <2>4. CASE Answer(a)
    <3>1. /\ Receives(a, {"GetFull"}) \/ Receives(a, {"GetClientCount"})
          /\ UNCHANGED << text, local, client >>
      BY <2>4 DEF Answer, serverVars, clientVars
    <3> QED
      BY <3>1, AheadTail
  <2>5. CASE ~ (ApplyEdit(a) \/ CrashOnErase(a) \/ WriteToDisk(a) \/ Answer(a))
    <3>1. ~ ReadFromDisk(a)
      BY Heads
    <3>2. UNCHANGED << text, up, local, client >>
      BY <1>4, <2>5, <3>1 DEF ServerStep, Reply,
     TakeClock, Forward, ReleaseClock, ListSockets, SerializeText, Broadcast, EndBroadcast,
     Disconnected, Close, SaveOnExit, serverVars, netVars, clientVars
    <3> QED
      BY <3>2, ServerStays DEF Ahead
  <2> QED
    BY <2>1, <2>2, <2>3, <2>4, <2>5
<1>5. CASE UNCHANGED vars
  BY <1>5 DEF vars, serverVars, threadVars, netVars, clientVars, historyVars, Ahead
<1> QED
  BY <1>1, <1>2, <1>3, <1>4, <1>5 DEF Next

-----------------------------------------------------------------------------
\* The chains from the texts of the others to the server's, step by step.

LEMMA SettledStep ==
    ASSUME Inv, Settled, \A c \in Client : ~ Connect(c), [Next]_vars
    PROVE  Settled' /\ UNCHANGED << clients, backlog, accepted >>
<1>1. UNCHANGED << clients, backlog, accepted >>
  <2>1. CASE AcceptorStep
    BY <2>1 DEF AcceptorStep, Accept, NotifyOne, StartThread, Settled
  <2>2. ASSUME NEW c \in Client, ServerStep(c) PROVE UNCHANGED << clients, backlog, accepted >>
    BY <2>2 DEF ServerStep, ApplyEdit, CrashOnErase, WriteToDisk, ReadFromDisk, Answer, Reply,
     TakeClock, Forward, ReleaseClock, ListSockets, SerializeText, Broadcast, EndBroadcast,
     Disconnected, Close, SaveOnExit, serverVars, netVars, Receives
  <2>3. ASSUME NEW c \in Client, ClientStep(c) \/ UserStep(c)
        PROVE  UNCHANGED << clients, backlog, accepted >>
    <3>1. UNCHANGED << clients, accepted >>
      BY <2>3, UserQuiet
    <3>2. UNCHANGED backlog
      BY <2>3 DEF ClientStep, KeyboardStep, HandlerStep, LoopStep, SendEdit, SendRequest,
     ForcedText, Overwrite, IgnoreText, RemoteEdit, ShowNotice, Handles, ClearFlag,
     AskForText, ClientCrash, Ends, NoticeLoss, UserStep, PressChar, PressTab,
     PressEnter, PressBackspace, PressDelete, PressCommand, PressSync, Press, MoveCursor,
     Quit, Ends, ContinueLocally, netVars
    <3> QED
      BY <3>1, <3>2
  <2>4. CASE UNCHANGED vars
    BY <2>4 DEF vars, serverVars, netVars
  <2> QED
    BY <2>1, <2>2, <2>3, <2>4 DEF Next
<1>2. \A c \in Client : client'[c] = "up" => client[c] = "up"
  BY LocalStep
<1> QED
  BY <1>1, <1>2 DEF Settled, Member

LEMMA OwedType ==
    ASSUME Inv, NEW a \in Client, NEW b
    PROVE  Owed(a, b) \in Seq(ToClient)
<1>1. msg[a] \in ToClient
  BY Types
<1>2. << msg[a] >> \in Seq(ToClient) /\ << >> \in Seq(ToClient)
  BY ONLY <1>1, Queued
<1> QED
  BY <1>2 DEF Owed

LEMMA OwedSame ==
    ASSUME NEW a, NEW b, UNCHANGED << pc[a], msg[a], todo[a] >>
    PROVE  Owed(a, b)' = Owed(a, b)
BY DEF Owed, Owes

LEMMA LagsFrame ==
    ASSUME Inv, NEW V, NEW view, NEW R, NEW a \in Client, NEW b \in Client,
           Lags(V, view, R, a, b), server' = "up" => server = "up",
           client'[b] = "up" => client[b] = "up",
           client[b] = "up" => view[local'[b]] = view[local[b]],
           view[text'] = view[text], Owed(a, b)' = Owed(a, b),
           NEW p \in ToClient,
           down'[b] = down[b] \/ (down'[b] = Append(down[b], p) /\ Neutral(V, R, p))
    PROVE  Lags(V, view, R, a, b)'
<1> SUFFICES ASSUME server' = "up", client'[b] = "up"
             PROVE  Leads(V, R, down'[b] \o Owed(a, b), view[local[b]], view[text])
  BY DEF Lags
<1>1. Leads(V, R, down[b] \o Owed(a, b), view[local[b]], view[text])
  BY DEF Lags
<1>2. down[b] \in Seq(ToClient) /\ Owed(a, b) \in Seq(ToClient)
  BY Types, OwedType
<1>3. CASE down'[b] = Append(down[b], p) /\ Neutral(V, R, p)
  <2>1. Leads(V, R, Append(down[b], p) \o Owed(a, b), view[local[b]], view[text])
    BY ONLY <1>1, <1>2, <1>3, p \in ToClient, LeadsBetween
  <2> QED
    BY <1>3, <2>1
<1> QED
  BY <1>1, <1>3

\* What a thread sends is an edit of its client or none at all.
LEMMA SentNeutral ==
    ASSUME Inv, NEW P, NEW D, Permits(P, D), Traffic(P), NEW V, NEW view, NEW R,
           NEW a \in Client, Sees(P, D, V, view, R, a), NEW c \in Client,
           (pc[c] = "forward" /\ c # a) \/ pc[c] \in {"reply", "broadcast"}
    PROVE  msg[c] \in ToClient /\ Neutral(V, R, msg[c])
<1>1. msg[c] \in P[c] /\ msg[c] \in ToClient
  BY Types DEF Traffic, Travels
<1>2. ~ EditOf(msg[c], a)
  BY DEF Inv, OrderInv, Forwarding, Answering, EditOf
<1> QED
  BY <1>1, <1>2, SeesOther

LEMMA LagsElsewhere ==
    ASSUME Inv, NEW P, NEW D, Permits(P, D), Traffic(P), NEW V, NEW view, NEW R,
           NEW a \in Client, Sees(P, D, V, view, R, a), Inside(D, Client),
           NEW b \in Client \ {a}, Lags(V, view, R, a, b), [Next]_vars,
           NEW c \in Client \ {a, b}, ServerStep(c) \/ ClientStep(c) \/ UserStep(c)
    PROVE  Lags(V, view, R, a, b)'
<1>1. /\ client'[b] = client[b] /\ local'[b] = local[b]
      /\ \/ down'[b] = down[b]
         \/ pc[c] \in {"forward", "broadcast"} /\ down'[b] = Append(down[b], msg[c])
  BY Elsewhere DEF Own
<1>2. UNCHANGED << pc[a], msg[a], todo[a] >>
  BY Elsewhere DEF Own
<1>3. Owed(a, b)' = Owed(a, b)
  BY ONLY <1>2, OwedSame
<1>4. view[text'] = view[text]
  BY TextElsewhere
<1>5. server' = "up" => server = "up"
  BY ServerStays
<1>6. msg[c] \in ToClient
  BY Types
<1>7. pc[c] \in {"forward", "broadcast"} => Neutral(V, R, msg[c])
  BY SentNeutral
<1> QED
  BY ONLY <1>1, <1>3, <1>4, <1>5, <1>6, <1>7, LagsFrame, Inv, Lags(V, view, R, a, b),
     a \in Client, b \in Client \ {a}

LEMMA LagsThread ==
    ASSUME Inv, NEW P, NEW D, Permits(P, D), Traffic(P), NEW V, NEW view, NEW R,
           NEW a \in Client, Sees(P, D, V, view, R, a), Inside(D, Client),
           NEW b \in Client \ {a}, Lags(V, view, R, a, b), [Next]_vars, ServerStep(b)
    PROVE  Lags(V, view, R, a, b)'
<1>1. UNCHANGED clientVars
  BY DEF ServerStep, ApplyEdit, CrashOnErase, WriteToDisk, ReadFromDisk, Answer, Reply,
     TakeClock, Forward, ReleaseClock, ListSockets, SerializeText, Broadcast, EndBroadcast,
     Disconnected, Close, SaveOnExit
<1>2. UNCHANGED << pc[a], msg[a], todo[a] >>
  BY Elsewhere DEF Own
<1>3. Owed(a, b)' = Owed(a, b)
  BY ONLY <1>2, OwedSame
<1>4. view[text'] = view[text]
  BY TextElsewhere
<1>5. server' = "up" => server = "up"
  BY ServerStays
<1>6. msg[b] \in ToClient
  BY Types
<1>7. \/ down'[b] = down[b]
      \/ pc[b] \in {"reply", "forward", "broadcast"} /\ down'[b] = Append(down[b], msg[b])
  <2>1. CASE Reply(b)
    BY <2>1, SentTo DEF Reply
  <2>2. CASE Forward(b) \/ Broadcast(b)
    <3>1. UNCHANGED down \/ SendTo(Head(todo[b]), msg[b])
      BY <2>2 DEF Forward, Broadcast
    <3>2. pc[b] \in {"forward", "broadcast"}
      BY <2>2 DEF Forward, Broadcast
    <3>3. down'[b] = down[b] \/ down'[b] = Append(down[b], msg[b])
      BY ONLY <3>1, SentTo, Inv, b \in Client \ {a}
    <3> QED
      BY <3>2, <3>3
  <2>3. CASE ~ (Reply(b) \/ Forward(b) \/ Broadcast(b))
    <3>1. UNCHANGED down
      BY <2>3 DEF ServerStep, ApplyEdit, CrashOnErase, WriteToDisk, ReadFromDisk, Answer,
     TakeClock, ReleaseClock, ListSockets, SerializeText, EndBroadcast,
     Disconnected, Close, SaveOnExit, netVars
    <3> QED
      BY <3>1
  <2> QED
    BY <2>1, <2>2, <2>3
<1>8. pc[b] \in {"reply", "forward", "broadcast"} => Neutral(V, R, msg[b])
  BY SentNeutral
<1>9. client'[b] = client[b] /\ local'[b] = local[b]
  BY <1>1 DEF clientVars
<1> QED
  BY ONLY <1>3, <1>4, <1>5, <1>6, <1>7, <1>8, <1>9, LagsFrame, Inv, Lags(V, view, R, a, b),
     a \in Client, b \in Client \ {a}

LEMMA ConcatHead ==
    ASSUME NEW S, NEW s \in Seq(S), NEW t \in Seq(S), s # << >>
    PROVE  /\ s \o t \in Seq(S) /\ s \o t # << >>
           /\ Head(s \o t) = Head(s) /\ Tail(s \o t) = Tail(s) \o t
OBVIOUS

LEMMA LagsHandle ==
    ASSUME Inv, NEW P, NEW D, Permits(P, D), Traffic(P), NEW V, NEW view, NEW R,
           NEW a \in Client, Sees(P, D, V, view, R, a), Inside(D, Client), Inside(D, Client)',
           NEW b \in Client \ {a}, Untouched(P, b), Lags(V, view, R, a, b), HandlerStep(b)
    PROVE  Lags(V, view, R, a, b)'
<1> DEFINE p == Head(down[b])
           o == Owed(a, b)
           x == view[local[b]]
<1>1. /\ client[b] = "up" /\ down[b] # << >> /\ down'[b] = Tail(down[b])
      /\ UNCHANGED << server, text, client, pc, msg, todo >>
  <2>1. client[b] = "up" /\ down[b] # << >> /\ down' = [down EXCEPT ![b] = Tail(@)]
        /\ UNCHANGED << server, text, client, pc, msg, todo >>
    BY DEF HandlerStep, ForcedText, Overwrite, IgnoreText, RemoteEdit, ShowNotice, Handles,
           serverVars, threadVars
  <2> QED
    BY <2>1, Types
<1>2. down[b] \in Seq(ToClient) /\ o \in Seq(ToClient) /\ Owed(a, b)' = o
  BY <1>1, Types, OwedType, OwedSame
<1>3. /\ p \in P[b] /\ local[b] \in D /\ local'[b] \in D /\ x \in V
  BY <1>1, Heads DEF Inside, Sees
<1> SUFFICES ASSUME server = "up"
             PROVE  Leads(V, R, Tail(down[b]) \o o, view[local'[b]], view[text])
  BY <1>1, <1>2 DEF Lags
<1>4. Leads(V, R, down[b] \o o, x, view[text])
  BY <1>1 DEF Lags
<1> HIDE DEF o, x, p
<1>5. PICK m \in V : << p, x, m >> \in R /\ Leads(V, R, Tail(down[b]) \o o, m, view[text])
  <2> DEFINE s == down[b] \o o
  <2>1. /\ s \in Seq(ToClient) /\ s # << >> /\ Head(s) = p /\ Tail(s) = Tail(down[b]) \o o
    <3>1. down[b] \in Seq(ToClient) /\ down[b] # << >> /\ o \in Seq(ToClient)
      BY <1>1, <1>2
    <3>2. /\ s \in Seq(ToClient) /\ s # << >>
          /\ Head(s) = Head(down[b]) /\ Tail(s) = Tail(down[b]) \o o
      BY ONLY <3>1, ConcatHead
    <3> QED
      BY ONLY <3>2 DEF p
  <2> HIDE DEF s
  <2>2. Leads(V, R, s, x, view[text])
    BY <1>4 DEF s
  <2>3. Leads(V, R, s, x, view[text]) <=>
           \E m \in V : << Head(s), x, m >> \in R /\ Leads(V, R, Tail(s), m, view[text])
    BY ONLY <1>3, <2>1, LeadsHead
  <2> QED
    BY <2>1, <2>2, <2>3
<1>6. view[local'[b]] = m
  <2>1. CASE RemoteEdit(b)
    <3>1. IsEdit(p) /\ local'[b] \in After(local[b], p)
      BY <2>1, HandledEdit DEF p
    <3>2. /\ p.from # a => view[local'[b]] = x
          /\ p.from = a => \A y \in V : << p, x, y >> \in R => y = view[local'[b]]
      BY ONLY <1>3, <3>1, Sees(P, D, V, view, R, a), b \in Client \ {a}, SeesEdit DEF x
    <3>3. p.from # a => Neutral(V, R, p)
      BY <1>3, SeesOther DEF EditOf
    <3> QED
      BY <1>3, <1>5, <3>2, <3>3 DEF Neutral
  <2>2. CASE ~ RemoteEdit(b)
    <3>1. ~ ForcedText(b) /\ ~ Overwrite(b)
      BY NoTexts
    <3>2. IgnoreText(b) \/ ShowNotice(b)
      BY <2>2, <3>1 DEF HandlerStep
    <3>3. UNCHANGED local /\ ~ EditOf(p, a)
      BY <3>2 DEF IgnoreText, ShowNotice, Handles, EditOf, IsEdit, p
    <3>4. Neutral(V, R, p)
      BY <1>3, <3>3, SeesOther
    <3> QED
      BY <1>3, <1>5, <3>3, <3>4 DEF Neutral, x
  <2> QED
    BY <2>1, <2>2
<1> QED
  BY <1>5, <1>6

LEMMA LagsUser ==
    ASSUME Inv, NEW P, NEW D, Permits(P, D), Traffic(P), NEW V, NEW view, NEW R,
           NEW a \in Client, Sees(P, D, V, view, R, a), Inside(D, Client), Inside(D, Client)',
           NEW b \in Client \ {a}, Untouched(P, b), AsksIn(P), Lags(V, view, R, a, b),
           ClientStep(b) \/ UserStep(b)
    PROVE  Lags(V, view, R, a, b)'
<1>0. UNCHANGED << server, text, pc, msg, todo >>
  BY UserQuiet DEF threadVars
<1>1. CASE HandlerStep(b)
  BY <1>1, LagsHandle
<1>2. ASSUME client'[b] = client[b], down'[b] = down[b],
             client[b] = "up" => view[local'[b]] = view[local[b]]
      PROVE  Lags(V, view, R, a, b)'
  <2>1. Owed(a, b)' = Owed(a, b)
    BY <1>0, OwedSame
  <2>2. msg[b] \in ToClient
    BY Types
  <2> QED
    BY ONLY <1>0, <1>2, <2>1, <2>2, LagsFrame, Inv, Lags(V, view, R, a, b),
       a \in Client, b \in Client \ {a}
<1>3. CASE SendEdit(b)
  <2> DEFINE p == Renumbered(Head(pending[b]), issued[b] + 1)
  <2>1. /\ pending[b] # << >> /\ IsEdit(Head(pending[b])) /\ IsEdit(p) /\ p.from # a
        /\ local'[b] \in After(local[b], p)
    BY <1>3, SentEdit
  <2>2. issued[b] + 1 \in Nat
    <3>1. issued[b] \in Nat
      BY Types
    <3> QED
      BY ONLY <3>1
  <2>3. Head(pending[b]) \in P[b]
    BY <2>1, Heads
  <2>4. p \in P[b]
    BY <2>1, <2>2, <2>3, Permitted
  <2>5. UNCHANGED << client, down >>
    BY <1>3 DEF SendEdit
  <2>6. client[b] = "up" => local[b] \in D
    BY DEF Inside
  <2> HIDE DEF p
  <2>7. client[b] = "up" => view[local'[b]] = view[local[b]]
    BY ONLY <2>1, <2>4, <2>6, Sees(P, D, V, view, R, a), b \in Client \ {a}, SeesEdit
  <2> QED
    BY <1>2, <2>5, <2>7
<1>4. CASE \/ PressChar(b) \/ PressTab(b) \/ PressEnter(b) \/ PressBackspace(b)
           \/ PressDelete(b) \/ PressCommand(b) \/ PressSync(b) \/ MoveCursor(b)
           \/ SendRequest(b)
  <2>1. UNCHANGED << client, local, down >>
    BY <1>4 DEF PressChar, PressTab, PressEnter, PressBackspace, PressDelete, PressCommand,
       PressSync, Press, MoveCursor, SendRequest, netVars
  <2> QED
    BY <1>2, <2>1
<1>5. CASE Ends(b) \/ NoticeLoss(b) \/ ContinueLocally(b)
  <2>1. client'[b] # "up"
    BY <1>5, Types DEF Ends, NoticeLoss, ContinueLocally
  <2> QED
    BY <2>1 DEF Lags
<1>6. ~ Connect(b) /\ ~ ClearFlag(b) /\ ~ AskForText(b)
  BY NoTexts
<1> QED
  BY <1>1, <1>3, <1>4, <1>5, <1>6
  DEF ClientStep, KeyboardStep, LoopStep, ClientCrash, UserStep, Quit

LEMMA UserElsewhere ==
    ASSUME Inv, NEW d \in Client, NEW c \in Client \ {d}, ClientStep(c) \/ UserStep(c)
    PROVE  down'[d] = down[d]
<1>1. pc' = pc /\ msg' = msg
  BY UserQuiet DEF threadVars
<1> USE Types, MoreTypes
<1>2. CASE HandlerStep(c)
  BY <1>2 DEF HandlerStep, ForcedText, Overwrite, IgnoreText, RemoteEdit, ShowNotice, Handles
<1>3. CASE Ends(c) \/ NoticeLoss(c)
  BY <1>3 DEF Ends, NoticeLoss
<1>4. CASE ~ (HandlerStep(c) \/ Ends(c) \/ NoticeLoss(c))
  BY <1>4 DEF ClientStep, KeyboardStep, LoopStep, SendEdit, SendRequest, ClearFlag, AskForText,
     ClientCrash, UserStep, PressChar, PressTab, PressEnter, PressBackspace, PressDelete,
     PressCommand, PressSync, Press, MoveCursor, Connect, Quit, ContinueLocally, netVars
<1> QED
  BY <1>2, <1>3, <1>4

\* The thread of a passes on what it has applied.
LEMMA LagsForward ==
    ASSUME Inv, Settled, NEW V, NEW view, NEW R,
           NEW a \in Client, NEW b \in Client \ {a}, Lags(V, view, R, a, b),
           TakeClock(a) \/ Forward(a) \/ ReleaseClock(a),
           client'[b] = client[b], local'[b] = local[b], UNCHANGED << server, text, msg >>
    PROVE  Lags(V, view, R, a, b)'
<1> SUFFICES ASSUME server = "up", client[b] = "up"
             PROVE  Leads(V, R, down'[b] \o Owed(a, b)', view[local[b]], view[text])
  BY DEF Lags
<1>1. Leads(V, R, down[b] \o Owed(a, b), view[local[b]], view[text])
  BY DEF Lags
<1>2. /\ b \in Member /\ alive[b] /\ down[b] \in Seq(ToClient) /\ msg[a] \in ToClient
      /\ Member = { clients[i] : i \in DOMAIN clients }
  BY Types, Members DEF Settled, Inv, OrderInv, Departures
<1>3. CASE TakeClock(a)
  <2>1. pc[a] = "clock" /\ pc'[a] = "forward" /\ todo'[a] = clients /\ UNCHANGED down
    BY <1>3, Types DEF TakeClock, Goto, netVars
  <2>2. Owes(a, b) /\ Owes(a, b)'
    BY <1>2, <2>1 DEF Owes, Member
  <2> QED
    BY <1>1, <2>1, <2>2 DEF Owed
<1>4. CASE ReleaseClock(a)
  <2>1. pc[a] = "forward" /\ pc'[a] = "recv" /\ todo[a] = << >> /\ UNCHANGED down
    BY <1>4, Types DEF ReleaseClock, Goto, netVars
  <2>2. ToSet(<< >>) = {}
    BY DEF ToSet
  <2>3. ~ Owes(a, b) /\ ~ Owes(a, b)'
    BY <2>1, <2>2 DEF Owes
  <2> QED
    BY <1>1, <2>1, <2>3 DEF Owed
<1>5. CASE Forward(a)
  <2> DEFINE s == todo[a]
             h == Head(s)
  <2>1. /\ pc[a] = "forward" /\ pc'[a] = "forward" /\ s # << >> /\ todo'[a] = Tail(s)
        /\ s \in Seq(Client \cup {NoClient}) /\ Distinct(s)
        /\ IF h # a /\ alive[h] THEN SendTo(h, msg[a]) ELSE UNCHANGED down
    BY <1>5, Types DEF Forward, Inv, OrderInv, Forwarding
  <2>2. /\ \A i \in DOMAIN Tail(s) : i + 1 \in DOMAIN s /\ Tail(s)[i] = s[i + 1] /\ i + 1 # 1
        /\ \A i \in DOMAIN s : i # 1 => i - 1 \in DOMAIN Tail(s) /\ Tail(s)[i - 1] = s[i]
        /\ 1 \in DOMAIN s /\ s[1] = h
    BY <2>1
  <2> HIDE DEF s, h
  <2>3. CASE h = b
    <3>1. down'[b] = Append(down[b], msg[a])
      BY <1>2, <2>1, <2>3, Types DEF SendTo
    <3>2. Owes(a, b)
      BY <2>1, <2>2, <2>3 DEF Owes, ToSet, s
    <3>3. ~ Owes(a, b)'
      <4>1. \A i \in DOMAIN Tail(s) : Tail(s)[i] # b
        BY <2>1, <2>2, <2>3 DEF Distinct
      <4> QED
        BY <2>1, <4>1 DEF Owes, ToSet
    <3>4. down[b] \o << msg[a] >> = Append(down[b], msg[a]) \o << >>
      BY <1>2
    <3> QED
      BY <1>1, <3>1, <3>2, <3>3, <3>4 DEF Owed
  <2>4. CASE h # b
    <3>1. down'[b] = down[b]
      <4>1. SendTo(h, msg[a]) \/ UNCHANGED down
        BY <2>1
      <4> QED
        BY ONLY <2>4, <4>1, SentTo, Inv, b \in Client \ {a}
    <3>2. b \in ToSet(Tail(s)) <=> b \in ToSet(s)
      <4>1. ASSUME NEW i \in DOMAIN Tail(s), Tail(s)[i] = b PROVE \E k \in DOMAIN s : s[k] = b
        BY <2>2, <4>1
      <4>2. ASSUME NEW i \in DOMAIN s, s[i] = b
            PROVE  \E k \in DOMAIN Tail(s) : Tail(s)[k] = b
        BY <2>2, <2>4, <4>2
      <4>3. ToSet(s) = { s[i] : i \in DOMAIN s }
            /\ ToSet(Tail(s)) = { Tail(s)[i] : i \in DOMAIN Tail(s) }
        BY DEF ToSet
      <4> QED
        BY <4>1, <4>2, <4>3
    <3>3. Owes(a, b)' <=> Owes(a, b)
      BY <2>1, <3>2 DEF Owes, s
    <3> QED
      BY <1>1, <3>1, <3>3 DEF Owed
  <2> QED
    BY <2>3, <2>4
<1> QED
  BY <1>3, <1>4, <1>5

LEMMA LagsApply ==
    ASSUME Inv, NEW V, NEW view, NEW R,
           NEW a \in Client, NEW b \in Client \ {a}, Lags(V, view, R, a, b),
           ApplyEdit(a), client'[b] = client[b], local'[b] = local[b],
           view[text'] \in V, << Head(up[a]), view[text], view[text'] >> \in R
    PROVE  Lags(V, view, R, a, b)'
<1>1. /\ pc[a] = "recv" /\ pc'[a] = "clock" /\ msg'[a] = Head(up[a])
      /\ UNCHANGED << server, down >>
  BY Types DEF ApplyEdit, Receives, Goto
<1> SUFFICES ASSUME server = "up", client[b] = "up"
             PROVE  Leads(V, R, down[b] \o Owed(a, b)', view[local[b]], view[text'])
  BY <1>1 DEF Lags
<1>2. Leads(V, R, down[b] \o Owed(a, b), view[local[b]], view[text])
  BY DEF Lags
<1>3. Owed(a, b) = << >> /\ Owed(a, b)' = << Head(up[a]) >>
  BY <1>1 DEF Owed, Owes
<1>4. down[b] \in Seq(ToClient) /\ Head(up[a]) \in ToClient
  BY Types, AppliedEdit, EditFields
<1>5. down[b] \o << >> = down[b] /\ down[b] \o << Head(up[a]) >> = Append(down[b], Head(up[a]))
  BY <1>4
<1>6. view[text] \in V
  BY <1>2, <1>3, <1>4, <1>5, LeadsValues
<1>7. Leads(V, R, Append(down[b], Head(up[a])), view[local[b]], view[text'])
  <2>1. Leads(V, R, Append(down[b], Head(up[a])), view[local[b]], view[text']) <=>
           \E m \in V : /\ Leads(V, R, down[b], view[local[b]], m)
                        /\ << Head(up[a]), m, view[text'] >> \in R
    BY <1>4, LeadsAppend
  <2> QED
    BY <1>2, <1>3, <1>5, <1>6, <2>1
<1> QED
  BY <1>3, <1>5, <1>7

LEMMA LagsAuthor ==
    ASSUME Inv, NEW P, NEW D, Permits(P, D), Traffic(P), NEW V, NEW view, NEW R,
           NEW a \in Client, Sees(P, D, V, view, R, a), Inside(D, Client), Inside(D, Client)', Settled,
           Ahead(V, view, R, a), [Next]_vars,
           NEW b \in Client \ {a}, Lags(V, view, R, a, b),
           ServerStep(a) \/ ClientStep(a) \/ UserStep(a)
    PROVE  Lags(V, view, R, a, b)'
<1>1. /\ client'[b] = client[b] /\ local'[b] = local[b]
      /\ \/ down'[b] = down[b]
         \/ pc[a] \in {"forward", "broadcast"} /\ down'[b] = Append(down[b], msg[a])
  BY Elsewhere DEF Own
<1>2. CASE ApplyEdit(a)
  <2>1. << Head(up[a]), view[text], view[text'] >> \in R
    BY <1>2, AheadApplyEdit
  <2>2. view[text'] \in V
    BY DEF Inside, Sees
  <2> QED
    BY <1>1, <1>2, <2>1, <2>2, LagsApply
<1>3. CASE TakeClock(a) \/ Forward(a) \/ ReleaseClock(a)
  <2>1. UNCHANGED << server, text, msg >>
    BY <1>3 DEF TakeClock, Forward, ReleaseClock, serverVars
  <2> QED
    BY <1>1, <1>3, <2>1, LagsForward
<1>4. ASSUME text' = text, UNCHANGED << pc[a], msg[a], todo[a] >> \/
                           {pc[a], pc'[a]} \cap {"clock", "forward"} = {},
             pc[a] # "forward" \/ down'[b] = down[b]
      PROVE  Lags(V, view, R, a, b)'
  <2>1. Owed(a, b)' = Owed(a, b)
    <3>1. CASE UNCHANGED << pc[a], msg[a], todo[a] >>
      BY <3>1, OwedSame
    <3>2. CASE {pc[a], pc'[a]} \cap {"clock", "forward"} = {}
      BY <3>2 DEF Owed, Owes
    <3> QED
      BY <1>4, <3>1, <3>2
  <2>2. msg[a] \in ToClient
    BY Types
  <2>3. pc[a] = "broadcast" => Neutral(V, R, msg[a])
    BY SentNeutral
  <2>4. server' = "up" => server = "up"
    BY ServerStays
  <2>5. down'[b] = down[b] \/ (down'[b] = Append(down[b], msg[a]) /\ Neutral(V, R, msg[a]))
    BY <1>1, <1>4, <2>3
  <2>6. view[text'] = view[text] /\ view[local'[b]] = view[local[b]]
    BY <1>1, <1>4
  <2> QED
    BY ONLY <1>1, <2>1, <2>2, <2>4, <2>5, <2>6, LagsFrame, Inv, Lags(V, view, R, a, b),
       a \in Client, b \in Client \ {a}
<1>5. CASE ClientStep(a) \/ UserStep(a)
  <2>1. UNCHANGED << text, pc, msg, todo >>
    BY <1>5, UserQuiet DEF threadVars
  <2>2. down'[b] = down[b]
    BY <1>5, UserElsewhere
  <2> QED
    BY <1>4, <2>1, <2>2
<1>6. CASE CrashOnErase(a)
  BY <1>6 DEF CrashOnErase, Lags
<1>7. CASE Broadcast(a)
  <2>1. UNCHANGED << text, pc, msg >> /\ pc[a] = "broadcast"
    BY <1>7 DEF Broadcast, serverVars
  <2> QED
    BY <1>4, <2>1
<1>8. ~ ReadFromDisk(a) /\ ~ SerializeText(a)
  BY Heads
<1>9. CASE WriteToDisk(a) \/ Answer(a) \/ Disconnected(a) \/ Close(a) \/ SaveOnExit(a)
           \/ Reply(a) \/ EndBroadcast(a) \/ ListSockets(a)
  <2>1. UNCHANGED text
    BY <1>9 DEF WriteToDisk, Answer, Disconnected, Close, SaveOnExit, Reply, EndBroadcast,
       ListSockets, serverVars
  <2>2. pc[a] \notin {"clock", "forward"} /\ pc'[a] \notin {"clock", "forward"}
    BY <1>9, Types DEF WriteToDisk, Answer, Disconnected, Close, SaveOnExit, Reply,
       EndBroadcast, ListSockets, Receives, Goto
  <2> QED
    BY <1>4, <2>1, <2>2
<1> QED
  BY <1>2, <1>3, <1>5, <1>6, <1>7, <1>8, <1>9 DEF ServerStep

LEMMA BehindStep ==
    ASSUME Inv, NEW P, NEW D, Permits(P, D), Traffic(P), NEW V, NEW view, NEW R,
           NEW a \in Client, Sees(P, D, V, view, R, a), Inside(D, Client), Inside(D, Client)', Settled,
           \A b \in Client : Untouched(P, b), AsksIn(P),
           Ahead(V, view, R, a), Behind(V, view, R, a), [Next]_vars
    PROVE  Behind(V, view, R, a)'
<1> SUFFICES ASSUME NEW b \in Client \ {a} PROVE Lags(V, view, R, a, b)'
  BY DEF Behind
<1>1. Lags(V, view, R, a, b) /\ Untouched(P, b)
  BY DEF Behind
<1>2. CASE AcceptorStep
  <2>1. /\ UNCHANGED << server, text >> /\ client'[b] = client[b] /\ local'[b] = local[b]
        /\ \/ down'[b] = down[b]
           \/ down'[b] = Append(down[b], NoticeOf("Disconnect"))
        /\ msg'[a] = msg[a] /\ todo'[a] = todo[a]
        /\ pc'[a] = pc[a] \/ (pc[a] = "none" /\ pc'[a] = "recv")
    BY <1>2, Accepting
  <2>2. Owed(a, b)' = Owed(a, b)
    BY <2>1 DEF Owed, Owes
  <2>3. NoticeOf("Disconnect") \in ToClient /\ Neutral(V, R, NoticeOf("Disconnect"))
    <3>1. NoticeOf("Disconnect") \in P[b] /\ ~ EditOf(NoticeOf("Disconnect"), a)
      BY Permitted DEF EditOf, IsEdit, NoticeOf
    <3>2. NoticeOf("Disconnect") \in ToClient
      BY MadePackets DEF Inv, TypeInv
    <3> QED
      BY <3>1, <3>2, SeesOther
  <2> QED
    BY ONLY <1>1, <2>1, <2>2, <2>3, LagsFrame, Inv, a \in Client, b \in Client \ {a}
<1>3. ASSUME NEW c \in Client \ {a, b}, ServerStep(c) \/ ClientStep(c) \/ UserStep(c)
      PROVE  Lags(V, view, R, a, b)'
  BY <1>1, <1>3, LagsElsewhere
<1>4. CASE ServerStep(b)
  BY <1>1, <1>4, LagsThread
<1>5. CASE ClientStep(b) \/ UserStep(b)
  BY <1>1, <1>5, LagsUser
<1>6. CASE ServerStep(a) \/ ClientStep(a) \/ UserStep(a)
  BY <1>1, <1>6, LagsAuthor
<1>7. CASE UNCHANGED vars
  BY <1>1, <1>7 DEF vars, serverVars, threadVars, netVars, clientVars, historyVars, Lags,
     Owed, Owes
<1> QED
  BY <1>2, <1>3, <1>4, <1>5, <1>6, <1>7 DEF Next

-----------------------------------------------------------------------------
\* The texts on their way to the author, and what one of them overwrites.

LEMMA ToSetOf ==
    ASSUME NEW S, NEW s \in Seq(S)
    PROVE  /\ \A p \in S : ToSet(Append(s, p)) = ToSet(s) \cup {p}
           /\ s # << >> => ToSet(Tail(s)) \subseteq ToSet(s) /\ Head(s) \in ToSet(s)
           /\ ToSet(<< >>) = {} /\ ToSet(s) \subseteq S
<1>1. ASSUME NEW p \in S PROVE ToSet(Append(s, p)) = ToSet(s) \cup {p}
  <2> DEFINE t == Append(s, p)
  <2>1. /\ DOMAIN s = 1 .. Len(s) /\ DOMAIN t = 1 .. Len(s) + 1 /\ Len(s) \in Nat
        /\ \A i \in DOMAIN s : t[i] = s[i]
        /\ t[Len(s) + 1] = p
    OBVIOUS
  <2> HIDE DEF t
  <2>2. \A x : x \in ToSet(t) <=> x \in ToSet(s) \cup {p}
    BY <2>1 DEF ToSet
  <2> QED
    BY <2>2 DEF t
<1>2. ASSUME s # << >> PROVE ToSet(Tail(s)) \subseteq ToSet(s) /\ Head(s) \in ToSet(s)
  <2>1. /\ \A i \in DOMAIN Tail(s) : i + 1 \in DOMAIN s /\ Tail(s)[i] = s[i + 1]
        /\ 1 \in DOMAIN s /\ Head(s) = s[1]
    BY <1>2
  <2> QED
    BY <2>1 DEF ToSet
<1>3. ToSet(<< >>) = {} /\ ToSet(s) \subseteq S
  BY DEF ToSet
<1> QED
  BY <1>1, <1>2, <1>3

LEMMA TextsForStep ==
    ASSUME Inv, NEW P, NEW D, Permits(P, D), Traffic(P), NEW a \in Client, [Next]_vars
    PROVE  /\ TextsFor(a) \subseteq Content
           /\ \A p \in TextsFor(a)' : p \in TextsFor(a) \/ p = TextNow
           /\ ApplyEdit(a) => TextsFor(a)' \subseteq TextsFor(a)
<1> USE Types
<1>1. down[a] \in Seq(ToClient) /\ msg[a] \in ToClient
  OBVIOUS
<1>2. TextsFor(a) \subseteq Content
  <2>1. ToSet(down[a]) \subseteq ToClient
    BY ONLY <1>1, ToSetOf
  <2> QED
    BY <1>1, <2>1 DEF TextsFor, ToClient, EditPacket, Notice, Count
<1>3. \A p \in ToClient : ToSet(Append(down[a], p)) = ToSet(down[a]) \cup {p}
  BY ONLY <1>1, ToSetOf
<1>4. (down[a] # << >> => ToSet(Tail(down[a])) \subseteq ToSet(down[a])) /\ ToSet(<< >>) = {}
  BY ONLY <1>1, ToSetOf
<1>5. ASSUME NEW q \in ToClient, q.type # "FullContent",
             down'[a] = down[a] \/ down'[a] = Append(down[a], q),
             pc'[a] # "reply" \/ UNCHANGED << pc[a], msg[a] >>
      PROVE  TextsFor(a)' \subseteq TextsFor(a)
  <2>1. \A p \in ToSet(down'[a]) : p \in ToSet(down[a]) \/ p = q
    BY ONLY <1>3, <1>5
  <2> QED
    BY ONLY <1>5, <2>1 DEF TextsFor
<1>6. ASSUME down'[a] = down[a] \/ down'[a] = << >>
                \/ (down[a] # << >> /\ down'[a] = Tail(down[a])),
             UNCHANGED << pc[a], msg[a] >>
      PROVE  TextsFor(a)' \subseteq TextsFor(a)
  BY <1>4, <1>6 DEF TextsFor
<1>7. CASE AcceptorStep
  <2>1. /\ pc'[a] = pc[a] \/ (pc[a] = "none" /\ pc'[a] = "recv")
        /\ msg'[a] = msg[a]
        /\ down'[a] = down[a] \/ down'[a] = Append(down[a], NoticeOf("Disconnect"))
    BY <1>7, Accepting
  <2>2. NoticeOf("Disconnect") \in ToClient /\ NoticeOf("Disconnect").type # "FullContent"
    BY DEF ToClient, Notice, NoticeOf
  <2>3. TextsFor(a)' \subseteq TextsFor(a)
    BY ONLY <1>5, <2>1, <2>2
  <2>4. ~ ApplyEdit(a)
    BY <2>1, <1>7 DEF ApplyEdit, Receives, Goto, AcceptorStep, Accept, NotifyOne, StartThread,
       netVars
  <2> QED
    BY <1>2, <2>3
<1>8. ASSUME NEW c \in Client \ {a}, ServerStep(c) \/ ClientStep(c) \/ UserStep(c)
      PROVE  TextsFor(a)' \subseteq TextsFor(a)
  <2>1. /\ UNCHANGED << pc[a], msg[a] >>
        /\ \/ down'[a] = down[a]
           \/ pc[c] \in {"forward", "broadcast"} /\ down'[a] = Append(down[a], msg[c])
    BY <1>8, Elsewhere DEF Own
  <2>2. msg[c] \in ToClient /\ (pc[c] \in {"forward", "broadcast"} => msg[c].type # "FullContent")
    BY DEF Traffic, Travels
  <2> QED
    BY <1>5, <1>6, <2>1, <2>2
<1>9. CASE Reply(a)
  <2>1. /\ pc[a] = "reply" /\ pc'[a] = "recv"
        /\ down'[a] = down[a] \/ down'[a] = Append(down[a], msg[a])
    BY <1>9, SentTo DEF Reply, Goto
  <2>2. ~ ApplyEdit(a)
    BY <2>1 DEF ApplyEdit, Receives
  <2>3. ToSet(down'[a]) \subseteq ToSet(down[a]) \cup {msg[a]}
    BY <1>1, <1>3, <2>1
  <2>4. TextsFor(a)' \subseteq TextsFor(a)
    BY <2>1, <2>3 DEF TextsFor
  <2> QED
    BY <1>2, <2>2, <2>4
<1>10. CASE Answer(a)
  <2>1. /\ pc[a] = "recv" /\ UNCHANGED down
        /\ msg'[a] = TextNow \/ msg'[a].type = "ClientCount"
    <3>1. msg \in [Client -> ToClient]
      OBVIOUS
    <3>2. /\ pc[a] = "recv" /\ UNCHANGED down
          /\ \/ msg' = [msg EXCEPT ![a] = TextNow]
             \/ msg' = [msg EXCEPT ![a] = [type |-> "ClientCount", count |-> SocketCount]]
      BY ONLY <1>10 DEF Answer, Receives, TextNow
    <3> QED
      BY ONLY <3>1, <3>2, a \in Client
  <2>2. ~ ApplyEdit(a)
    BY <1>10 DEF ApplyEdit, Answer, Receives
  <2> QED
    BY <1>2, <2>1, <2>2 DEF TextsFor
<1>11. CASE Forward(a) \/ Broadcast(a)
  <2>1. UNCHANGED << pc, msg >> /\ pc[a] \in {"forward", "broadcast"}
    BY <1>11 DEF Forward, Broadcast
  <2>2. UNCHANGED down \/ SendTo(Head(todo[a]), msg[a])
    BY <1>11 DEF Forward, Broadcast
  <2>3. down'[a] = down[a] \/ down'[a] = Append(down[a], msg[a])
    BY ONLY <2>2, SentTo, Inv, a \in Client
  <2>4. msg[a].type # "FullContent"
    BY <2>1 DEF Traffic, Travels
  <2>5. TextsFor(a)' \subseteq TextsFor(a)
    BY <1>1, <1>5, <2>1, <2>3, <2>4
  <2>6. ~ ApplyEdit(a)
    BY <2>1 DEF ApplyEdit, Receives
  <2> QED
    BY <1>2, <2>5, <2>6
<1>12. CASE ServerStep(a) /\ ~ (Reply(a) \/ Answer(a) \/ Forward(a) \/ Broadcast(a))
  <2>1. UNCHANGED down
    BY <1>12 DEF ServerStep, ApplyEdit, CrashOnErase, WriteToDisk, ReadFromDisk,
     TakeClock, ReleaseClock, ListSockets, SerializeText, EndBroadcast,
     Disconnected, Close, SaveOnExit, netVars
  <2>2. pc'[a] # "reply" \/ UNCHANGED << pc[a], msg[a] >>
    BY <1>12 DEF ServerStep, ApplyEdit, CrashOnErase, WriteToDisk, ReadFromDisk,
     TakeClock, ReleaseClock, ListSockets, SerializeText, EndBroadcast,
     Disconnected, Close, SaveOnExit, threadVars, Goto
  <2>3. NoticeOf("Disconnect") \in ToClient /\ NoticeOf("Disconnect").type # "FullContent"
    BY DEF ToClient, Notice, NoticeOf
  <2>4. TextsFor(a)' \subseteq TextsFor(a)
    BY <1>5, <2>1, <2>2, <2>3
  <2> QED
    BY <1>2, <2>4
<1>13. CASE ClientStep(a) \/ UserStep(a)
  <2>1. UNCHANGED << pc, msg >>
    BY <1>13, UserQuiet DEF threadVars
  <2>2. down'[a] = down[a] \/ down'[a] = << >>
                \/ (down[a] # << >> /\ down'[a] = Tail(down[a]))
    BY <1>13 DEF ClientStep, KeyboardStep, HandlerStep, LoopStep, SendEdit, SendRequest,
     ForcedText, Overwrite, IgnoreText, RemoteEdit, ShowNotice, Handles, ClearFlag,
     AskForText, ClientCrash, Ends, NoticeLoss, UserStep, PressChar, PressTab,
     PressEnter, PressBackspace, PressDelete, PressCommand, PressSync, Press, MoveCursor,
     Connect, Quit, ContinueLocally, netVars
  <2>3. TextsFor(a)' \subseteq TextsFor(a)
    BY <1>6, <2>1, <2>2
  <2> QED
    BY <1>2, <2>3
<1>14. CASE UNCHANGED vars
  <2>1. UNCHANGED << down, pc, msg >>
    BY <1>14 DEF vars, threadVars, netVars
  <2> QED
    BY <1>2, <1>6, <2>1
<1> QED
  BY <1>2, <1>7, <1>8, <1>9, <1>10, <1>11, <1>12, <1>13, <1>14 DEF Next

\* Who counts an edit of a.
LEMMA AppliedStep ==
    ASSUME Inv, NEW a \in Client, [Next]_vars
    PROVE  applied'[a] = applied[a] \/ ApplyEdit(a)
<1>1. CASE AcceptorStep \/ UNCHANGED vars
  BY <1>1, Accepting DEF vars, historyVars
<1>2. ASSUME NEW d \in Client \ {a}, ServerStep(d) \/ ClientStep(d) \/ UserStep(d)
      PROVE  applied'[a] = applied[a]
  BY <1>2, Elsewhere DEF Own
<1>3. ASSUME ServerStep(a) \/ ClientStep(a) \/ UserStep(a), ~ ApplyEdit(a)
      PROVE  applied' = applied
  <2>1. CASE ServerStep(a)
    BY <1>3, <2>1 DEF ServerStep, CrashOnErase, WriteToDisk, ReadFromDisk, Answer, Reply,
     TakeClock, Forward, ReleaseClock, ListSockets, SerializeText, Broadcast, EndBroadcast,
     Disconnected, Close, SaveOnExit, historyVars
  <2>2. CASE ClientStep(a) \/ UserStep(a)
    BY <2>2 DEF ClientStep, KeyboardStep, HandlerStep, LoopStep, SendEdit, SendRequest,
     ForcedText, Overwrite, IgnoreText, RemoteEdit, ShowNotice, Handles, ClearFlag,
     AskForText, ClientCrash, Ends, NoticeLoss, UserStep, PressChar, PressTab,
     PressEnter, PressBackspace, PressDelete, PressCommand, PressSync, Press, MoveCursor,
     Connect, Quit, ContinueLocally, historyVars
  <2> QED
    BY <1>3, <2>1, <2>2
<1> QED
  BY <1>1, <1>2, <1>3 DEF Next

LEMMA FreshStep ==
    ASSUME Inv, NEW P, NEW D, Permits(P, D), Traffic(P), NEW E, NEW V, NEW view, NEW R,
           NEW a \in Client, Sees(P, D, V, view, R, a), Inside(D, E), Fresh(view, a), [Next]_vars
    PROVE  Fresh(view, a)'
<1>1. /\ TextsFor(a) \subseteq Content
      /\ \A p \in TextsFor(a)' : p \in TextsFor(a) \/ p = TextNow
      /\ ApplyEdit(a) => TextsFor(a)' \subseteq TextsFor(a)
  BY TextsForStep
<1>2. applied[a] \in Nat
  BY Types
<1>3. \A p \in TextsFor(a) : p.has[a] \in Nat
  BY <1>1 DEF Content
<1>4. \A p \in TextsFor(a) : /\ p.has[a] <= applied[a]
                             /\ p.has[a] = applied[a] => view[p.text] = view[text]
  BY DEF Fresh
<1>5. CASE ApplyEdit(a)
  <2>1. applied'[a] = applied[a] + 1
    BY <1>5, NextEdit, Types DEF ApplyEdit
  <2> QED
    BY <1>1, <1>2, <1>3, <1>4, <1>5, <2>1 DEF Fresh
<1>6. CASE ~ ApplyEdit(a)
  <2>1. applied'[a] = applied[a]
    BY <1>6, AppliedStep
  <2>2. view[text'] = view[text]
    <3>1. text' = text \/ \E c \in Client \ {a} : ApplyEdit(c)
      BY <1>6, TextStep, Heads
    <3>2. ASSUME NEW c \in Client \ {a}, ApplyEdit(c) PROVE view[text'] = view[text]
      BY <3>2, TextElsewhere DEF ServerStep
    <3> QED
      BY <3>1, <3>2
  <2>3. TextNow.has[a] = applied[a] /\ TextNow.text = text
    BY DEF TextNow, ContentOf
  <2>4. ASSUME NEW p \in TextsFor(a)'
        PROVE  /\ p.has[a] <= applied'[a]
               /\ p.has[a] = applied'[a] => view[p.text] = view[text']
    <3>1. CASE p = TextNow
      BY ONLY <1>2, <2>1, <2>2, <2>3, <3>1
    <3>2. CASE p \in TextsFor(a)
      BY ONLY <1>4, <2>1, <2>2, <3>2
    <3> QED
      BY <1>1, <3>1, <3>2
  <2> QED
    BY <2>4 DEF Fresh
<1> QED
  BY <1>5, <1>6

LEMMA LeadsAllNeutral ==
    ASSUME NEW V, NEW R, NEW S, NEW s \in Seq(S), NEW x, NEW y, Leads(V, R, s, x, y),
           \A i \in 1 .. Len(s) : Neutral(V, R, s[i])
    PROVE  y = x
<1>1. Len(s) \in Nat
  OBVIOUS
<1>2. PICK d \in [0 .. Len(s) -> V] :
         /\ d[0] = x /\ d[Len(s)] = y
         /\ \A i \in 1 .. Len(s) : << s[i], d[i - 1], d[i] >> \in R
  BY DEF Leads
<1> DEFINE T == { k \in Nat : k <= Len(s) => d[k] = x }
<1>3. 0 \in T
  BY <1>2
<1>4. ASSUME NEW k \in Nat, k \in T PROVE k + 1 \in T
  <2> SUFFICES ASSUME k + 1 <= Len(s) PROVE d[k + 1] = x
    OBVIOUS
  <2>1. k + 1 \in 1 .. Len(s) /\ (k + 1) - 1 = k /\ k \in 0 .. Len(s) /\ k + 1 \in 0 .. Len(s)
    BY <1>1
  <2>2. d[k] = x /\ d[k] \in V /\ d[k + 1] \in V /\ << s[k + 1], d[k], d[k + 1] >> \in R
    BY <1>2, <1>4, <2>1
  <2>3. Neutral(V, R, s[k + 1])
    BY <2>1
  <2> QED
    BY <2>2, <2>3 DEF Neutral
<1> HIDE DEF T
<1>5. \A k \in Nat : k \in T
  BY ONLY <1>3, <1>4, Induct
<1>6. Len(s) \in T
  BY <1>1, <1>5
<1> QED
  BY <1>1, <1>2, <1>6 DEF T

\* A text that holds every edit of a changes nothing that a sees of its own.
LEMMA Current ==
    ASSUME Inv, NEW P, NEW D, Permits(P, D), Traffic(P), NEW E, NEW V, NEW view, NEW R,
           NEW a \in Client, Sees(P, D, V, view, R, a), Inside(D, E), Fresh(view, a),
           Ahead(V, view, R, a), server = "up",
           Overwrite(a), Head(down[a]).has[a] = issued[a]
    PROVE  view[local'[a]] = view[local[a]]
<1> DEFINE p == Head(down[a])
<1>1. /\ client[a] = "up" /\ down[a] # << >> /\ p.type = "FullContent" /\ local'[a] = p.text
  BY TextsIn DEF Overwrite, Handles
<1>2. p \in TextsFor(a)
  <2>1. down[a] \in Seq(ToClient)
    BY Types
  <2>2. p \in ToSet(down[a])
    BY ONLY <1>1, <2>1, ToSetOf
  <2> QED
    BY <1>1, <2>2 DEF TextsFor
<1>3. /\ p.has[a] <= applied[a] /\ (p.has[a] = applied[a] => view[p.text] = view[text])
      /\ p.has[a] = issued[a]
  BY <1>2 DEF Fresh
<1> HIDE DEF p
<1>4. /\ UpStream(a) /\ applied[a] <= issued[a] /\ applied[a] \in Nat /\ issued[a] \in Nat
      /\ up[a] \in Seq(ToServer)
  BY Types DEF Inv, OrderInv, UpStreams, UpStream
<1>5. applied[a] = issued[a]
  BY <1>3, <1>4
<1>6. ASSUME NEW i \in 1 .. Len(up[a]) PROVE Neutral(V, R, up[a][i])
  <2>1. i \in DOMAIN up[a] /\ up[a][i] \in ToServer
    BY <1>4
  <2>2. up[a][i] \in P[a]
    <3>1. up[a] \in Seq(P[a])
      BY DEF Traffic, Travels
    <3> QED
      BY <3>1
  <2>3. ~ EditOf(up[a][i], a)
    <3> SUFFICES ASSUME EditOf(up[a][i], a) PROVE FALSE
      OBVIOUS
    <3>1. up[a][i].n > applied[a] /\ up[a][i].n <= issued[a]
      BY <1>4, <2>1 DEF UpStream, Gapless, EditOf
    <3>2. up[a][i].n \in Nat
      BY <2>1 DEF EditOf, IsEdit, ToServer, EditPacket, Request, FileRequest
    <3> QED
      BY <1>4, <1>5, <3>1, <3>2
  <2> QED
    BY <2>2, <2>3, SeesOther
<1>7. PICK y \in V : Leads(V, R, up[a], view[text], y) /\ y = view[local[a]]
  BY <1>1 DEF Ahead
<1>8. y = view[text]
  BY ONLY <1>4, <1>6, <1>7, LeadsAllNeutral
<1> QED
  BY <1>1, <1>3, <1>5, <1>7, <1>8

-----------------------------------------------------------------------------
\* What the keys leave to be sent.

\* What the keys of a user may leave to be sent.
LEMMA PendingOwnStep ==
    ASSUME Inv, NEW c \in Client, ServerStep(c) \/ ClientStep(c) \/ UserStep(c)
    PROVE  \/ pending'[c] = pending[c] \/ pending'[c] = << >>
           \/ pending[c] # << >> /\ pending'[c] = Tail(pending[c])
           \/ Strikes(c)
<1> USE Types
<1>1. CASE ServerStep(c)
  <2>1. UNCHANGED clientVars
    BY <1>1 DEF ServerStep, ApplyEdit, CrashOnErase, WriteToDisk, ReadFromDisk, Answer, Reply,
     TakeClock, Forward, ReleaseClock, ListSockets, SerializeText, Broadcast, EndBroadcast,
     Disconnected, Close, SaveOnExit
  <2> QED
    BY <2>1 DEF clientVars
<1>2. CASE SendEdit(c) \/ SendRequest(c)
  BY <1>2 DEF SendEdit, SendRequest
<1>3. CASE Ends(c)
  BY <1>3 DEF Ends
<1>4. CASE HandlerStep(c) \/ LoopStep(c) \/ NoticeLoss(c) \/ MoveCursor(c) \/ Connect(c)
           \/ ContinueLocally(c)
  BY <1>4 DEF HandlerStep, LoopStep, ForcedText, Overwrite, IgnoreText, RemoteEdit, ShowNotice,
     Handles, ClearFlag, AskForText, NoticeLoss, MoveCursor, Connect, ContinueLocally
<1> QED
  BY <1>1, <1>2, <1>3, <1>4
  DEF ClientStep, KeyboardStep, UserStep, ClientCrash, Quit, Strikes

LEMMA PendingStep ==
    ASSUME Inv, NEW c \in Client, [Next]_vars
    PROVE  \/ pending'[c] = pending[c] \/ pending'[c] = << >>
           \/ pending[c] # << >> /\ pending'[c] = Tail(pending[c])
           \/ Strikes(c)
<1>1. CASE AcceptorStep \/ UNCHANGED vars
  BY <1>1, Accepting DEF vars, clientVars
<1>2. ASSUME NEW d \in Client, d # c, ServerStep(d) \/ ClientStep(d) \/ UserStep(d)
      PROVE  pending'[c] = pending[c]
  BY <1>2, Elsewhere DEF Own
<1>3. CASE ServerStep(c) \/ ClientStep(c) \/ UserStep(c)
  BY <1>3, PendingOwnStep
<1> QED
  BY <1>1, <1>2, <1>3 DEF Next

LEMMA EditStruck ==
    ASSUME NEW c, NEW type \in {"Insert", "Remove"}, NEW line, NEW index, NEW char,
           NEW key \in EditKeys, key \in Keys[c]
    PROVE  Struck(c, Edit(c, type, line, index, char))
BY DEF Struck, Edit, IsEdit

LEMMA StruckPackets ==
    ASSUME Inv, NEW c \in Client, Strikes(c), NEW i \in DOMAIN pending'[c]
    PROVE  Struck(c, pending'[c][i])
<1>0. /\ pending \in [Client -> Seq(ToServer)]
      /\ {"Char", "Enter", "Tab", "Backspace", "Delete"} = EditKeys
  BY Types DEF EditKeys
<1>1. ASSUME NEW p, Then(c, << p >>), Struck(c, p) PROVE Struck(c, pending'[c][i])
  <2>1. pending'[c] = << p >>
    BY <1>0, <1>1 DEF Then
  <2>2. DOMAIN << p >> = {1} /\ << p >>[1] = p
    OBVIOUS
  <2> QED
    BY <1>1, <2>1, <2>2
<1>2. ASSUME \E kind : Press(c, kind) PROVE pending[c] = << >>
  BY <1>2 DEF Press
<1>3. CASE PressChar(c)
  <2>1. PICK char \in Char :
           Then(c, << Edit(c, "Insert", cursor[c].line, cursor[c].index, char) >>)
    BY <1>3 DEF PressChar
  <2>2. "Char" \in Keys[c] /\ "Char" \in EditKeys
    BY <1>0, <1>3 DEF PressChar, Press
  <2> QED
    BY <1>1, <2>1, <2>2, EditStruck
<1>4. CASE PressEnter(c)
  <2>1. Then(c, << Edit(c, "Insert", cursor[c].line, cursor[c].index, Enter) >>)
    BY <1>4 DEF PressEnter
  <2>2. "Enter" \in Keys[c] /\ "Enter" \in EditKeys
    BY <1>0, <1>4 DEF PressEnter, Press
  <2> QED
    BY <1>1, <2>1, <2>2, EditStruck
<1>5. CASE PressTab(c)
  <2> DEFINE p == Edit(c, "Insert", cursor[c].line, cursor[c].index, Blank)
  <2>1. pending'[c] = [j \in 1 .. TabWidth |-> p]
    BY <1>0, <1>5 DEF PressTab, Then
  <2>2. "Tab" \in Keys[c] /\ "Tab" \in EditKeys
    BY <1>0, <1>5 DEF PressTab, Press
  <2>3. Struck(c, p)
    BY <2>2, EditStruck
  <2> HIDE DEF p
  <2> QED
    BY <2>1, <2>3
<1>6. CASE PressBackspace(c)
  <2>1. \/ \E line, index : Then(c, << Edit(c, "Remove", line, index, Enter) >>)
        \/ UNCHANGED pending
    BY <1>6 DEF PressBackspace
  <2>2. "Backspace" \in Keys[c] /\ "Backspace" \in EditKeys /\ Press(c, "Backspace")
    BY <1>0, <1>6 DEF PressBackspace, Press
  <2>3. CASE UNCHANGED pending
    <3>1. pending'[c] = << >>
      BY <1>2, <2>2, <2>3
    <3> QED
      BY <3>1
  <2> QED
    BY <1>1, <2>1, <2>2, <2>3, EditStruck
<1>7. CASE PressDelete(c)
  <2>1. \/ \E line, index : Then(c, << Edit(c, "Remove", line, index, Enter) >>)
        \/ UNCHANGED pending
    BY <1>7 DEF PressDelete
  <2>2. "Delete" \in Keys[c] /\ "Delete" \in EditKeys /\ Press(c, "Delete")
    BY <1>0, <1>7 DEF PressDelete, Press
  <2>3. CASE UNCHANGED pending
    <3>1. pending'[c] = << >>
      BY <1>2, <2>2, <2>3
    <3> QED
      BY <3>1
  <2> QED
    BY <1>1, <2>1, <2>2, <2>3, EditStruck
<1>8. CASE PressCommand(c)
  <2>1. PICK p : /\ Then(c, << p >>)
                 /\ \/ \E f \in File : p = [type |-> "WriteToDisk", file |-> f]
                    \/ /\ "Read" \in Keys[c]
                       /\ \E f \in File : p = [type |-> "ReadFromDisk", file |-> f]
                    \/ p = [type |-> "GetClientCount"]
    BY <1>8 DEF PressCommand, Press
  <2>2. p.type \in {"WriteToDisk", "ReadFromDisk", "GetClientCount"}
        /\ (p.type = "ReadFromDisk" => "Read" \in Keys[c])
    BY <2>1
  <2>3. Struck(c, p)
    BY <2>2 DEF Struck
  <2> QED
    BY <1>1, <2>1, <2>3
<1>9. CASE PressSync(c)
  <2>1. Then(c, << GetFull >>) /\ GetFull.type = "GetFull"
    BY <1>9 DEF PressSync, GetFull
  <2>2. Struck(c, GetFull)
    BY <1>9, <2>1 DEF Struck
  <2> QED
    BY <1>1, <2>1, <2>2
<1> QED
  BY <1>3, <1>4, <1>5, <1>6, <1>7, <1>8, <1>9 DEF Strikes

\* So the packets stay permitted as long as the keys make only permitted ones.
LEMMA PendingPermitted ==
    ASSUME Inv, Inv', NEW P, Traffic(P), [Next]_vars, NEW c \in Client,
           \A p \in ToServer : Struck(c, p) => p \in P[c]
    PROVE  pending'[c] \in Seq(P[c])
<1>1. pending[c] \in Seq(P[c])
  BY DEF Traffic, Travels
<1>2. CASE Strikes(c)
  <2>1. pending'[c] \in Seq(ToServer)
    BY DEF Inv, TypeInv, TypeOK, ClientTypes
  <2>2. ASSUME NEW i \in DOMAIN pending'[c] PROVE pending'[c][i] \in P[c]
    <3>1. pending'[c][i] \in ToServer
      BY <2>1
    <3> QED
      BY <1>2, <3>1, StruckPackets
  <2> QED
    BY <2>1, <2>2
<1> QED
  BY <1>1, <1>2, PendingStep, Queued

-----------------------------------------------------------------------------
\* One user edits: the texts agree.

LEMMA SingleAfter ==
    ASSUME NEW doc \in Doc, NEW p \in EditPacket, NEW x \in After(doc, p), NEW y \in After(doc, p)
    PROVE  x = y /\ x \in Doc
<1>1. /\ p.line \in Nat /\ p.index \in Int /\ p.index >= Join /\ p.char \in Char \cup {Enter}
  BY EditFields
<1>2. CASE p.type = "Insert"
  BY <1>1, <1>2, InsertCharType DEF After
<1>3. CASE p.type # "Insert"
  <2>1. x \in RemoveChar(doc, p.line, p.index) /\ y \in RemoveChar(doc, p.line, p.index)
    BY <1>3 DEF After
  <2>2. x \in Doc
    BY <1>1, <2>1, RemoveCharType
  <2>3. x = y
    BY <2>1 DEF RemoveChar
  <2> QED
    BY <2>2, <2>3
<1> QED
  BY <1>2, <1>3

LEMMA PacketEdits ==
    ASSUME NEW p \in Packet, IsEdit(p)
    PROVE  p \in EditPacket
  BY EditPackets DEF Packet

LEMMA AuthoredPermits ==
    ASSUME NEW a, NEW U
    PROVE  Permits(Authored(a, U), Doc)
<1> DEFINE P == Authored(a, U)
<1> SUFFICES ASSUME NEW c \in Client
             PROVE  /\ \A p \in P[c] : /\ p \in Packet /\ p.type \notin {"ReadFromDisk", "ReadConfirmed"}
                                       /\ p.type = "FullContent" => p \in AnswerIn(Doc)
                    /\ \A p \in Notice \cup Count : p.type # "ReadConfirmed" => p \in P[c]
                    /\ \A p \in P[c] : IsEdit(p) => /\ \A n \in Nat : Renumbered(p, n) \in P[c]
                                                   /\ \A d \in Client : p \in P[d]
                    /\ GetFull \in P[c] => AnswerIn(Doc) \subseteq P[c]
  BY DEF Permits
<1>1. \A d \in Client : \A p : p \in P[d] <=>
         /\ p \in Packet /\ p.type \notin {"ReadFromDisk", "ReadConfirmed"}
         /\ IsEdit(p) => p.from = a
         /\ p.type = "FullContent" => ~ p.force
         /\ d \in U => p.type \notin {"GetFull", "FullContent"}
  BY DEF Authored
<1> HIDE DEF P
<1>2. \A p \in Notice \cup Count : p.type # "ReadConfirmed" => p \in P[c]
  BY <1>1 DEF Notice, Count, Packet, ToClient, IsEdit
<1>3. ASSUME NEW p \in P[c], IsEdit(p)
      PROVE  /\ \A n \in Nat : Renumbered(p, n) \in P[c]
             /\ \A d \in Client : p \in P[d]
  <2>1. p \in EditPacket /\ p.from = a
    BY <1>1, <1>3, PacketEdits
  <2>2. ASSUME NEW n \in Nat PROVE Renumbered(p, n) \in P[c]
    <3>1. Renumbered(p, n) \in EditPacket /\ Renumbered(p, n).from = a
          /\ IsEdit(Renumbered(p, n))
      BY <2>1 DEF Renumbered, EditPacket, IsEdit
    <3> QED
      BY <1>1, <3>1 DEF IsEdit, Packet, ToServer
  <2>3. \A d \in Client : p \in P[d]
    BY <1>1, <1>3 DEF IsEdit
  <2> QED
    BY <2>2, <2>3
<1>4. ASSUME GetFull \in P[c], NEW p \in AnswerIn(Doc) PROVE p \in P[c]
  <2>1. p \in Content /\ ~ p.force /\ p.type = "FullContent"
    BY DEF AnswerIn, Content
  <2>2. p \in Packet
    BY <2>1 DEF Packet, ToClient
  <2>3. c \notin U
    BY <1>1, <1>4 DEF GetFull
  <2> QED
    BY <1>1, <2>1, <2>2, <2>3 DEF IsEdit
<1>5. ASSUME NEW p \in P[c], p.type = "FullContent" PROVE p \in AnswerIn(Doc)
  <2>1. p \in Content /\ ~ p.force
    BY <1>1, <1>5 DEF Packet, ToServer, ToClient, EditPacket, Request, FileRequest, Notice, Count
  <2> QED
    BY <2>1 DEF AnswerIn, Content
<1>6. \A p \in P[c] : p \in Packet /\ p.type \notin {"ReadFromDisk", "ReadConfirmed"}
  BY <1>1
<1> QED
  BY <1>2, <1>3, <1>4, <1>5, <1>6

LEMMA AuthoredSees ==
    ASSUME NEW a, NEW U
    PROVE  Sees(Authored(a, U), Doc, Doc, Whole, Makes(a), a)
<1>1. ASSUME NEW c \in Client, NEW p \in Authored(a, U)[c]
      PROVE  /\ p \in Packet /\ IsEdit(p) => p.from = a
             /\ IsEdit(p) => p \in EditPacket
  BY <1>1, PacketEdits DEF Authored
<1>2. \A p \in Packet, x, y \in Doc : << p, x, y >> \in Makes(a) <=>
         IF EditOf(p, a) THEN y \in After(x, p) ELSE y = x
  BY DEF Makes
<1>3. ASSUME NEW c \in Client, NEW p \in Authored(a, U)[c], ~ EditOf(p, a)
      PROVE  Neutral(Doc, Makes(a), p)
  BY <1>1, <1>2, <1>3 DEF Neutral, Authored
<1>4. ASSUME NEW c \in Client, NEW p \in Authored(a, U)[c], IsEdit(p),
             NEW doc \in Doc, NEW e \in After(doc, p)
      PROVE  /\ e \in Doc /\ p.from = a
             /\ \A y \in Doc : << p, Whole[doc], y >> \in Makes(a) => y = Whole[e]
  <2>1. p \in Packet /\ p.from = a /\ p \in EditPacket
    BY <1>1, <1>4, PacketEdits DEF Authored
  <2>2. e \in Doc
    BY <1>4, <2>1, SingleAfter
  <2>3. Whole[doc] = doc /\ Whole[e] = e
    BY <2>2 DEF Whole
  <2>4. ASSUME NEW y \in Doc, << p, doc, y >> \in Makes(a) PROVE y = e
    <3>1. y \in After(doc, p)
      BY <1>2, <1>4, <2>1, <2>4 DEF EditOf
    <3> QED
      BY <1>4, <2>1, <3>1, SingleAfter
  <2> QED
    BY <2>1, <2>2, <2>3, <2>4
<1>5. Whole \in [Doc -> Doc]
  BY DEF Whole
<1> QED
  BY <1>3, <1>4, <1>5 DEF Sees

LEMMA AuthoredStruck ==
    ASSUME NEW a, OneAuthor(a), NEW U, NEW c \in Client, AsksIn(Authored(a, U)),
           NEW p \in ToServer, Struck(c, p)
    PROVE  p \in Authored(a, U)[c]
<1>1. IsEdit(p) => p.from = a
  BY DEF Struck, OneAuthor, IsEdit
<1>2. p.type \notin {"ReadFromDisk", "ReadConfirmed", "FullContent"}
  BY DEF Struck, OneAuthor, IsEdit
<1>3. p.type = "GetFull" => c \notin U
  <2>1. p.type = "GetFull" => GetFull \in Authored(a, U)[c]
    BY DEF Struck, IsEdit, AsksIn, Asks
  <2> QED
    BY <2>1 DEF Authored, GetFull
<1> QED
  BY <1>1, <1>2, <1>3 DEF Authored, Packet

LEMMA AuthoredUntouched ==
    ASSUME NEW a, NEW U, NEW c \in Client, c \in U
    PROVE  Untouched(Authored(a, U), c)
BY DEF Untouched, Authored

LEMMA TrafficInitially ==
    ASSUME Init, NEW P
    PROVE  Traffic(P)
BY DEF Init, Traffic, Travels

\* Where nothing happens, nobody asks.
LEMMA StutterAsks ==
    ASSUME Inv, [NobodyAsks]_vars
    PROVE  NobodyAsks
<1> SUFFICES ASSUME UNCHANGED vars, NEW c \in Client PROVE ~ Asks(c)
  BY DEF NobodyAsks
<1> USE Types, MoreTypes
<1>1. UNCHANGED << presses, loop, client >>
  BY DEF vars, clientVars
<1>2. ~ PressSync(c)
  <2>1. presses[c] \in Nat
    BY DEF Inv, TypeInv, TypeOK, ClientTypes
  <2>2. presses[c] + 1 # presses[c]
    BY ONLY <2>1
  <2> QED
    BY <1>1, <2>2 DEF PressSync, Press, Inv, TypeInv, TypeOK, ClientTypes
<1>3. ~ ClearFlag(c) /\ ~ Connect(c)
  BY <1>1 DEF ClearFlag, Connect, Inv, TypeInv, TypeOK, ClientTypes
<1> QED
  BY <1>2, <1>3 DEF Asks

LEMMA AgreeStep ==
    ASSUME NEW a, OneAuthor(a), Inv, Inv', AgreeInv(a), [Next]_vars, NobodyAsks
    PROVE  AgreeInv(a)'
<1> DEFINE P == Authored(a, Client)
           R == Makes(a)
<1>1. /\ Permits(P, Doc) /\ Sees(P, Doc, Doc, Whole, R, a) /\ a \in Client
      /\ \A c \in Client : Untouched(P, c)
      /\ AsksIn(P) /\ \A c \in Client : ~ Connect(c)
  <2>1. a \in Client
    BY DEF OneAuthor
  <2>2. AsksIn(P) /\ \A c \in Client : ~ Connect(c)
    BY DEF NobodyAsks, AsksIn, Asks
  <2> QED
    BY <2>1, <2>2, AuthoredPermits, AuthoredSees, AuthoredUntouched
<1>2. Traffic(P) /\ Settled /\ Ahead(Doc, Whole, R, a) /\ Behind(Doc, Whole, R, a)
  BY DEF AgreeInv
<1>3. Inside(Doc, Client) /\ Inside(Doc, Client)' /\ text \in Doc
  BY MoreTypes DEF Inside, Inv, TypeInv, TypeOK, ServerTypes, ClientTypes
<1>4. \A c \in Client : \A p \in ToServer : Struck(c, p) => p \in P[c]
  BY <1>1, AuthoredStruck
<1>5. SendEdit(a) => << Renumbered(Head(pending[a]), issued[a] + 1), Whole[local[a]],
                        Whole[local'[a]] >> \in R
  <2> SUFFICES ASSUME SendEdit(a)
               PROVE  << Renumbered(Head(pending[a]), issued[a] + 1), Whole[local[a]],
                         Whole[local'[a]] >> \in R
    OBVIOUS
  <2> DEFINE p == Renumbered(Head(pending[a]), issued[a] + 1)
  <2>1. /\ p \in EditPacket /\ IsEdit(p) /\ p.from = a /\ local'[a] \in After(local[a], p)
    BY <1>1, SentEdit
  <2>2. local[a] \in Doc /\ local'[a] \in Doc
    BY <1>1 DEF Inv, TypeInv, TypeOK, ClientTypes
  <2> HIDE DEF p
  <2>3. << p, local[a], local'[a] >> \in Makes(a)
    BY <2>1, <2>2 DEF Makes, EditOf, Packet, ToServer
  <2> QED
    BY <2>2, <2>3 DEF Whole, p
<1> HIDE DEF P, R
<1>6. Traffic(P)'
  <2>1. \A c \in Client : pending'[c] \in Seq(P[c])
    BY <1>2, <1>4, PendingPermitted
  <2> QED
    BY ONLY <1>1, <1>2, <1>3, <2>1, Inv, [Next]_vars, TrafficStep
<1>7. Settled'
  BY <1>1, <1>2, SettledStep
<1>8. Ahead(Doc, Whole, R, a)'
  <2>1. ~ Overwrite(a)
    BY ONLY <1>1, <1>2, Inv, NoTexts
  <2> QED
    BY ONLY <2>1, <1>1, <1>2, <1>3, <1>5, Inv, [Next]_vars, AheadStep
<1>9. Behind(Doc, Whole, R, a)'
  BY ONLY <1>1, <1>2, <1>3, Inv, [Next]_vars, BehindStep
<1> QED
  BY <1>6, <1>7, <1>8, <1>9 DEF AgreeInv, P, R

LEMMA SettledInitially ==
    ASSUME Init
    PROVE  Settled
BY DEF Init, Settled, Member

LEMMA AgreeInitially ==
    ASSUME Init, NEW V, NEW view, NEW R, NEW a \in Client, view[InitialText] \in V
    PROVE  Ahead(V, view, R, a) /\ Behind(V, view, R, a)
<1>1. /\ text = InitialText /\ \A c \in Client : /\ client[c] = "up" => local[c] = InitialText
                                                /\ up[c] = << >> /\ down[c] = << >>
                                                /\ pc[c] \in {"recv", "none"}
  BY DEF Init
<1>2. Leads(V, R, << >>, view[InitialText], view[InitialText])
  BY LeadsEmpty
<1>3. \A b \in Client : Owed(a, b) = << >>
  BY <1>1 DEF Owed, Owes
<1>4. << >> \o << >> = << >>
  OBVIOUS
<1> QED
  BY <1>1, <1>2, <1>3, <1>4 DEF Ahead, Behind, Lags

\* In a session in which one user edits, in whatever way, and the others watch, save
\* and count: as long as nobody asks for the text (no client joins or presses Ctrl+S,
\* and no periodic thread has woken up, which it first does after five seconds), the
\* text of every client is the text of the server when everything sent has arrived.
\* Once a text is under way, an edit sent before it may be handled twice.
THEOREM OneAuthorAgrees ==
    ASSUME NEW a, OneAuthor(a)
    PROVE  Spec /\ [][NobodyAsks]_vars => []ReplicasAgree
<1>1. Init => AgreeInv(a)
  <2>1. a \in Client /\ Whole[InitialText] \in Doc
    BY SessionAssumption DEF OneAuthor, Whole
  <2> QED
    BY <2>1, TrafficInitially, SettledInitially, AgreeInitially DEF AgreeInv
<1>2. Inv /\ Inv' /\ AgreeInv(a) /\ [Next]_vars /\ [NobodyAsks]_vars => AgreeInv(a)'
  BY StutterAsks, AgreeStep
<1>3. Inv /\ AgreeInv(a) => ReplicasAgree
  <2> SUFFICES ASSUME Inv, AgreeInv(a), Quiet, NEW c \in Client, client[c] = "up"
               PROVE  local[c] = text
    BY DEF ReplicasAgree
  <2>1. /\ a \in Client /\ server = "up" /\ up[a] = << >> /\ down[c] = << >>
        /\ pc[a] \in {"none", "recv", "dead"}
    BY DEF Quiet, OneAuthor
  <2>2. text \in Doc /\ local[c] \in Doc
    BY MoreTypes
  <2>3. Whole[text] = text /\ Whole[local[c]] = local[c]
    BY <2>2 DEF Whole
  <2>4. CASE c = a
    <3>1. Leads(Doc, Makes(a), << >>, text, local[c])
      BY <2>1, <2>3, <2>4 DEF AgreeInv, Ahead
    <3> QED
      BY <2>2, <3>1, LeadsEmpty
  <2>5. CASE c # a
    <3>1. Lags(Doc, Whole, Makes(a), a, c)
      BY <2>5 DEF AgreeInv, Behind
    <3>2. Owed(a, c) = << >> /\ << >> \o << >> = << >>
      BY <2>1 DEF Owed, Owes
    <3>3. Leads(Doc, Makes(a), << >>, local[c], text)
      BY <2>1, <2>3, <3>1, <3>2 DEF Lags
    <3> QED
      BY <2>2, <3>3, LeadsEmpty
  <2> QED
    BY <2>4, <2>5
<1> QED
  BY <1>1, <1>2, <1>3, OrderCorrect, PTL DEF Spec

-----------------------------------------------------------------------------
\* One user edits: what it sends fits the text it meets.

LEMMA BothLengths ==
    ASSUME NEW S, NEW s \in Seq(S), NEW t \in Seq(S)
    PROVE  s \o t \in Seq(S) /\ Len(s \o t) = Len(s) + Len(t)
OBVIOUS

\* What one edit makes of the rows of a text.
LEMMA InsertRow ==
    ASSUME NEW doc \in Doc, NEW line \in Nat, HasLine(doc, line),
           NEW index \in 0 .. Len(doc[line + 1]), NEW char \in Char,
           NEW e, e = InsertChar(doc, line, index, char)
    PROVE  /\ e \in Doc /\ Len(e) = Len(doc) /\ Len(e[line + 1]) = Len(doc[line + 1]) + 1
           /\ \A l \in 1 .. Len(doc) : l # line + 1 => e[l] = doc[l]
<1>1. doc[line + 1] \in Seq(Char) /\ line + 1 \in 1 .. Len(doc) /\ doc \in Seq(Line)
  BY DEF HasLine, Doc, Line
<1>2. index \in Int /\ index \in Nat /\ index <= Len(doc[line + 1]) /\ char # Enter
  <2>1. Len(doc[line + 1]) \in Nat
    BY ONLY <1>1
  <2> QED
    BY <2>1, EnterAssumption
<1>3. e \in Doc
  BY <1>2, InsertCharType
<1> DEFINE row == InsertAt(doc[line + 1], index + 1, char)
<1>4. e = ReplaceAt(doc, line + 1, row)
  BY <1>2 DEF InsertChar
<1>5. Len(row) = Len(doc[line + 1]) + 1
  <2> DEFINE w == doc[line + 1]
             i == index + 1
  <2>1. w \in Seq(Char) /\ i \in 1 .. Len(w) + 1
    BY <1>1, <1>2
  <2> HIDE DEF w, i
  <2>2. Len(InsertAt(w, i, char)) = Len(w) + 1
    BY ONLY <2>1, char \in Char, Inserted
  <2> QED
    BY <2>2 DEF w, i
<1> HIDE DEF row
<1>6. Len(e) = Len(doc) /\ e[line + 1] = row /\ \A l \in 1 .. Len(doc) : l # line + 1 => e[l] = doc[l]
  BY <1>1, <1>4 DEF ReplaceAt
<1> QED
  BY <1>3, <1>5, <1>6

LEMMA BreakRow ==
    ASSUME NEW doc \in Doc, NEW line \in Nat, HasLine(doc, line),
           NEW index \in 0 .. Len(doc[line + 1]),
           NEW e, e = InsertChar(doc, line, index, Enter)
    PROVE  e \in Doc /\ Len(e) = Len(doc) + 1
<1>1. doc[line + 1] \in Seq(Char) /\ line + 1 \in 1 .. Len(doc) /\ doc \in Seq(Line)
  BY DEF HasLine, Doc, Line
<1>2. index \in Int
  OBVIOUS
<1>3. e \in Doc
  BY <1>2, InsertCharType
<1>4. e = BreakLine(doc, line, index)
  BY <1>2 DEF InsertChar
<1> DEFINE w == doc[line + 1]
           front == SubSeq(doc, 1, line)
           back == SubSeq(doc, line + 2, Len(doc))
           rows == << SubSeq(w, 1, index), SubSeq(w, index + 1, Len(w)) >>
<1>5. front \in Seq(Line) /\ back \in Seq(Line) /\ Len(front) = line /\ Len(back) = Len(doc) - (line + 1)
  BY <1>1, PrefixSuffix
<1>6. e = front \o rows \o back
  BY <1>4 DEF BreakLine
<1>7. rows \in Seq(Line) /\ Len(rows) = 2
  <2>1. SubSeq(w, 1, index) \in Line /\ SubSeq(w, index + 1, Len(w)) \in Line
    BY <1>1, PrefixSuffix DEF Line
  <2> QED
    BY <2>1
<1> HIDE DEF w, front, back, rows
<1>8. Len(e) = line + 2 + (Len(doc) - (line + 1))
  <2> DEFINE f == front \o rows
  <2>1. f \in Seq(Line) /\ Len(f) = line + 2
    BY ONLY <1>5, <1>7, BothLengths
  <2>2. e = f \o back
    BY <1>6
  <2> HIDE DEF f
  <2> QED
    BY ONLY <1>5, <2>1, <2>2, BothLengths
<1>9. Len(doc) \in Nat
  BY <1>1
<1> QED
  BY <1>3, <1>8, <1>9

LEMMA RemoveRow ==
    ASSUME NEW doc \in Doc, NEW line \in Nat, HasLine(doc, line),
           NEW index \in Nat, index < Len(doc[line + 1])
    PROVE  \E e \in Doc : /\ RemoveChar(doc, line, index) = {e}
                          /\ Len(e) = Len(doc) /\ Len(e[line + 1]) = Len(doc[line + 1]) - 1
                          /\ \A l \in 1 .. Len(doc) : l # line + 1 => e[l] = doc[l]
<1> DEFINE w == doc[line + 1]
           row == RemoveAt(w, index + 1)
           e == ReplaceAt(doc, line + 1, row)
<1>1. w \in Seq(Char) /\ line + 1 \in 1 .. Len(doc) /\ doc \in Seq(Line) /\ Len(w) \in Nat
  <2>1. w \in Seq(Char) /\ line + 1 \in 1 .. Len(doc) /\ doc \in Seq(Line)
    BY DEF HasLine, Doc, Line
  <2> QED
    BY <2>1
<1>2. RemoveChar(doc, line, index) = {e}
  BY <1>1 DEF RemoveChar, ErasesEnd, Join
<1>3. Len(row) = Len(w) - 1 /\ row \in Seq(Char)
  <2>1. index + 1 \in 1 .. Len(w)
    BY <1>1
  <2> QED
    BY <1>1, <2>1, Removed
<1>4. /\ e \in Doc /\ Len(e) = Len(doc) /\ e[line + 1] = row
      /\ \A l \in 1 .. Len(doc) : l # line + 1 => e[l] = doc[l]
  BY <1>1, <1>3 DEF ReplaceAt, Doc, Line
<1> QED
  BY <1>2, <1>3, <1>4

LEMMA JoinRow ==
    ASSUME NEW doc \in Doc, NEW line \in Nat, HasLine(doc, line), line > 0
    PROVE  \E e \in Doc : /\ RemoveChar(doc, line, Join) = {e}
                          /\ Len(e) = Len(doc) - 1
                          /\ Len(e[line]) = Len(doc[line]) + Len(doc[line + 1])
<1> DEFINE r == ReplaceAt(doc, line, doc[line] \o doc[line + 1])
           e == RemoveAt(r, line + 1)
<1>1. /\ line \in 1 .. Len(doc) /\ line + 1 \in 1 .. Len(doc) /\ doc \in Seq(Line)
      /\ doc[line] \in Seq(Char) /\ doc[line + 1] \in Seq(Char) /\ Len(doc) \in Nat
  <2>1. line \in 1 .. Len(doc) /\ line + 1 \in 1 .. Len(doc) /\ doc \in Seq(Line)
    BY DEF HasLine, Doc
  <2> QED
    BY <2>1 DEF Line
<1>2. RemoveChar(doc, line, Join) = {e}
  BY DEF RemoveChar, JoinLine
<1>3. e \in Doc
  BY <1>2, RemoveCharType DEF Join
<1>4. /\ r \in Seq(Line) /\ Len(r) = Len(doc) /\ r[line] = doc[line] \o doc[line + 1]
  <2> DEFINE j == doc[line] \o doc[line + 1]
  <2>1. j \in Line
    BY <1>1 DEF Line
  <2>2. r = ReplaceAt(doc, line, j)
    OBVIOUS
  <2> HIDE DEF j, r
  <2>3. /\ ReplaceAt(doc, line, j) \in Seq(Line) /\ Len(ReplaceAt(doc, line, j)) = Len(doc)
        /\ ReplaceAt(doc, line, j)[line] = j
    BY ONLY <1>1, <2>1 DEF ReplaceAt
  <2> QED
    BY <2>2, <2>3 DEF j
<1> HIDE DEF r
<1>5. line + 1 \in 1 .. Len(r) /\ line \in 1 .. (line + 1) - 1
  BY <1>1, <1>4
<1>7. Len(e) = Len(r) - 1 /\ e[line] = r[line]
  BY <1>4, <1>5, Removed
<1> HIDE DEF e
<1>8. Len(doc[line] \o doc[line + 1]) = Len(doc[line]) + Len(doc[line + 1])
  BY ONLY <1>1
<1>9. Len(e) = Len(doc) - 1
  BY ONLY <1>1, <1>4, <1>7, line \in Nat
<1> QED
  BY <1>2, <1>3, <1>4, <1>7, <1>8, <1>9

\* An edit that fits is one that a may make.
LEMMA LegalInsert ==
    ASSUME NEW a \in Client, NEW doc \in Doc, NEW line \in Nat, NEW index \in Nat,
           NEW char \in Char \cup {Enter}, NEW p, p = Edit(a, "Insert", line, index, char)
    PROVE  /\ p \in ToServer
           /\ << p, doc, InsertChar(doc, line, index, char) >> \in Legal(a)
<1> DEFINE e == InsertChar(doc, line, index, char)
<1>1. p \in EditPacket /\ p.type = "Insert" /\ p.line = line /\ p.index = index /\ p.char = char
  BY DEF Edit, EditPacket
<1>2. e \in Doc
  BY InsertCharType
<1>3. e \in After(doc, p)
  BY <1>1 DEF After
<1> HIDE DEF e
<1>4. << p, doc, e >> \in Makes(a) /\ EditOf(p, a)
  BY <1>1, <1>2, <1>3 DEF Makes, EditOf, IsEdit, Packet, ToServer, Edit
<1>5. ~ Erases(doc, p)
  BY <1>1 DEF Erases
<1> QED
  BY <1>1, <1>4, <1>5 DEF Legal, ToServer, e

LEMMA LegalRemove ==
    ASSUME NEW a \in Client, NEW doc \in Doc, NEW line \in Nat, NEW index \in Nat \cup {Join},
           NEW p, p = Edit(a, "Remove", line, index, Enter),
           NEW e \in Doc, e \in RemoveChar(doc, line, index),
           index = Join \/ ~ ErasesEnd(doc, line, index)
    PROVE  p \in ToServer /\ << p, doc, e >> \in Legal(a)
<1>1. p \in EditPacket /\ p.type = "Remove" /\ p.line = line /\ p.index = index
  BY DEF Edit, EditPacket
<1>2. e \in After(doc, p)
  BY <1>1 DEF After
<1>3. << p, doc, e >> \in Makes(a) /\ EditOf(p, a)
  BY <1>1, <1>2 DEF Makes, EditOf, IsEdit, Packet, ToServer, Edit
<1>4. ~ Erases(doc, p)
  BY <1>1 DEF Erases
<1> QED
  BY <1>1, <1>3, <1>4 DEF Legal, ToServer

LEMMA LegalOther ==
    ASSUME NEW a, NEW p \in Packet, ~ EditOf(p, a)
    PROVE  Neutral(Doc, Legal(a), p)
<1>1. \A x, y \in Doc : << p, x, y >> \in Makes(a) <=> y = x
  BY DEF Makes
<1> QED
  BY <1>1 DEF Neutral, Legal

\* A key that leaves one packet to be sent, or none.
LEMMA TypedOne ==
    ASSUME Inv, NEW a \in Client, UNCHANGED local, NEW p \in ToServer, Then(a, << p >>),
           NEW e \in Doc, << p, local[a], e >> \in Legal(a), OnText(e, cursor'[a])
    PROVE  Typing(a)'
<1>1. pending'[a] = << p >>
  BY Types DEF Then
<1>2. local[a] \in Doc
  BY MoreTypes
<1>3. Leads(Doc, Legal(a), << p >>, local[a], e)
  BY ONLY <1>2, e \in Doc, << p, local[a], e >> \in Legal(a), LeadsOne
<1> QED
  BY <1>1, <1>3 DEF Typing

LEMMA TypedNone ==
    ASSUME Inv, NEW a \in Client, UNCHANGED local, pending'[a] = << >>,
           OnText(local[a], cursor'[a])
    PROVE  Typing(a)'
<1>1. local[a] \in Doc
  BY MoreTypes
<1>2. Leads(Doc, Legal(a), << >>, local[a], local[a])
  BY <1>1, LeadsEmpty
<1> QED
  BY <1>1, <1>2 DEF Typing

\* Where the cursor is before a key, and the width of its line.
LEMMA CursorRow ==
    ASSUME Inv, NEW a \in Client, client[a] = "up", Typing(a), pending[a] = << >>
    PROVE  /\ OnText(local[a], cursor[a]) /\ local[a] \in Doc
           /\ cursor[a].line \in Nat /\ cursor[a].index \in Nat
           /\ HasLine(local[a], cursor[a].line)
           /\ cursor[a].index \in 0 .. Len(local[a][cursor[a].line + 1])
           /\ Len(local[a]) \in Nat /\ Len(local[a][cursor[a].line + 1]) \in Nat
           /\ Width(a, cursor[a].line) = {Len(local[a][cursor[a].line + 1])}
<1>1. local[a] \in Doc /\ cursor[a] \in Position
  BY MoreTypes
<1>2. PICK y \in Doc : Leads(Doc, Legal(a), << >>, local[a], y) /\ OnText(y, cursor[a])
  BY DEF Typing
<1>3. OnText(local[a], cursor[a])
  <2>1. y = local[a]
    BY ONLY <1>1, <1>2, LeadsEmpty
  <2> QED
    BY <1>2, <2>1
<1>4. cursor[a].line \in Nat /\ cursor[a].index \in Nat
  BY <1>1 DEF Position
<1>5. /\ HasLine(local[a], cursor[a].line)
      /\ cursor[a].index <= Len(local[a][cursor[a].line + 1])
  BY <1>3 DEF OnText
<1>6. Len(local[a]) \in Nat /\ Len(local[a][cursor[a].line + 1]) \in Nat
  BY <1>1, <1>4, <1>5 DEF Doc, Line, HasLine
<1> QED
  BY <1>1, <1>3, <1>4, <1>5, <1>6 DEF Width, LineWidth

LEMMA Placed ==
    ASSUME Inv, NEW a \in Client, NEW l, NEW i, CursorTo(a, l, i)
    PROVE  cursor'[a].line = l /\ cursor'[a].index = i
  BY MoreTypes DEF CursorTo

LEMMA InsertedWidths ==
    ASSUME NEW a, NEW char, NEW count, NEW l, NEW L, cursor[a].line = l, Width(a, l) = {L},
           NEW w \in InsertedWidth(a, char, count)
    PROVE  w = L \/ w = L + count
  BY DEF InsertedWidth

LEMMA CharTyped ==
    ASSUME Inv, NEW a \in Client, client[a] = "up", Typing(a), pending[a] = << >>, PressChar(a)
    PROVE  Typing(a)'
<1> DEFINE x == local[a]
           l == cursor[a].line
           i == cursor[a].index
           L == Len(x[l + 1])
<1>1. /\ OnText(x, cursor[a]) /\ x \in Doc /\ l \in Nat /\ i \in Nat /\ HasLine(x, l)
      /\ i \in 0 .. L /\ Len(x) \in Nat /\ L \in Nat /\ Width(a, l) = {L}
  BY CursorRow
<1>2. PICK char \in Char, w \in InsertedWidth(a, Blank, 1) :
         /\ Then(a, << Edit(a, "Insert", l, i, char) >>)
         /\ CursorTo(a, l, Least(i + 1, w))
  BY DEF PressChar
<1>3. w = L \/ w = L + 1
  <2>1. cursor[a].line = l /\ Width(a, l) = {L}
    BY <1>1
  <2> HIDE DEF l, L
  <2> QED
    BY ONLY <2>1, w \in InsertedWidth(a, Blank, 1), InsertedWidths
<1> DEFINE p == Edit(a, "Insert", l, i, char)
           e == InsertChar(x, l, i, char)
<1>4. e \in Doc /\ Len(e) = Len(x) /\ Len(e[l + 1]) = L + 1
  <2>1. e = InsertChar(x, l, i, char) /\ L = Len(x[l + 1])
    OBVIOUS
  <2> HIDE DEF x, l, i, e, L
  <2> QED
    BY ONLY <1>1, <2>1, char \in Char, InsertRow
<1>5. p \in ToServer /\ << p, x, e >> \in Legal(a)
  BY <1>1, LegalInsert
<1>6. cursor'[a].line = l /\ cursor'[a].index = Least(i + 1, w)
  BY <1>2, Placed
<1> HIDE DEF x, l, i, p, e, L
<1>7. OnText(e, cursor'[a])
  BY <1>1, <1>3, <1>4, <1>6 DEF OnText, HasLine, Least
<1>8. UNCHANGED local
  BY DEF PressChar, Press
<1> QED
  BY <1>2, <1>4, <1>5, <1>7, <1>8, TypedOne DEF x, p

LEMMA TabChain ==
    ASSUME NEW a \in Client, NEW x \in Doc, NEW l \in Nat, HasLine(x, l),
           NEW i \in 0 .. Len(x[l + 1]), NEW p, p = Edit(a, "Insert", l, i, Blank),
           NEW n \in Nat
    PROVE  \E y \in Doc : /\ Leads(Doc, Legal(a), [j \in 1 .. n |-> p], x, y)
                          /\ Len(y) = Len(x) /\ Len(y[l + 1]) = Len(x[l + 1]) + n
<1> DEFINE L == Len(x[l + 1])
           Q == { m \in Nat : \E y \in Doc : /\ Leads(Doc, Legal(a), [j \in 1 .. m |-> p], x, y)
                                             /\ Len(y) = Len(x) /\ Len(y[l + 1]) = L + m }
<1>0. L \in Nat /\ Len(x) \in Nat /\ i \in Nat /\ Blank \in Char
  <2>1. L \in Nat /\ Len(x) \in Nat
    BY DEF HasLine, Doc, Line
  <2> QED
    BY <2>1, SessionAssumption
<1>1. 0 \in Q
  <2>1. [j \in 1 .. 0 |-> p] = << >>
    OBVIOUS
  <2>2. Leads(Doc, Legal(a), << >>, x, x)
    BY LeadsEmpty
  <2> QED
    BY <1>0, <2>1, <2>2
<1>2. ASSUME NEW m \in Nat, m \in Q PROVE m + 1 \in Q
  <2> DEFINE s == [j \in 1 .. m |-> p]
             t == [j \in 1 .. m + 1 |-> p]
  <2>1. PICK y \in Doc : Leads(Doc, Legal(a), s, x, y) /\ Len(y) = Len(x) /\ Len(y[l + 1]) = L + m
    BY <1>2
  <2>2. p \in ToServer /\ << p, y, InsertChar(y, l, i, Blank) >> \in Legal(a)
    BY <1>0, LegalInsert
  <2> DEFINE e == InsertChar(y, l, i, Blank)
  <2>3. e \in Doc /\ Len(e) = Len(y) /\ Len(e[l + 1]) = Len(y[l + 1]) + 1
    <3>1. HasLine(y, l)
      BY <2>1 DEF HasLine
    <3>2. i \in 0 .. Len(y[l + 1])
      BY <1>0, <2>1
    <3> QED
      BY <1>0, <3>1, <3>2, InsertRow
  <2>4. s \in Seq(ToServer) /\ Append(s, p) = t
    <3>1. s \in Seq(ToServer) /\ t \in Seq(ToServer) /\ Len(s) = m /\ Len(t) = m + 1
      BY <2>2
    <3>2. Append(s, p) \in Seq(ToServer) /\ Len(Append(s, p)) = m + 1
          /\ \A j \in 1 .. m + 1 : Append(s, p)[j] = t[j]
      BY <2>2, <3>1
    <3> HIDE DEF s, t
    <3> QED
      BY <3>1, <3>2, SeqEqual
  <2> HIDE DEF s, t, e
  <2>5. Leads(Doc, Legal(a), Append(s, p), x, e) <=>
           \E k \in Doc : Leads(Doc, Legal(a), s, x, k) /\ << p, k, e >> \in Legal(a)
    BY ONLY <2>2, <2>3, <2>4, LeadsAppend
  <2>6. Leads(Doc, Legal(a), t, x, e)
    BY <2>1, <2>2, <2>4, <2>5 DEF e
  <2> HIDE DEF L
  <2>7. Len(e) = Len(x) /\ Len(e[l + 1]) = L + (m + 1)
    BY <1>0, <2>1, <2>3
  <2> QED
    BY <2>3, <2>6, <2>7 DEF t
<1> HIDE DEF Q
<1>3. n \in Q
  BY <1>1, <1>2, Induct
<1> QED
  BY <1>3 DEF Q

LEMMA TabTyped ==
    ASSUME Inv, NEW a \in Client, client[a] = "up", Typing(a), pending[a] = << >>, PressTab(a)
    PROVE  Typing(a)'
<1> DEFINE x == local[a]
           l == cursor[a].line
           i == cursor[a].index
           L == Len(x[l + 1])
           p == Edit(a, "Insert", l, i, Blank)
<1>1. /\ OnText(x, cursor[a]) /\ x \in Doc /\ l \in Nat /\ i \in Nat /\ HasLine(x, l)
      /\ i \in 0 .. L /\ Len(x) \in Nat /\ L \in Nat /\ Width(a, l) = {L} /\ TabWidth \in Nat
  BY CursorRow, SessionAssumption
<1>2. PICK w \in InsertedWidth(a, Blank, TabWidth) : CursorTo(a, l, Least(i + TabWidth, w))
  BY DEF PressTab
<1>3. pending'[a] = [j \in 1 .. TabWidth |-> p]
  BY Types DEF PressTab, Then
<1>4. w = L \/ w = L + TabWidth
  <2>1. cursor[a].line = l /\ Width(a, l) = {L}
    BY <1>1
  <2> HIDE DEF l, L
  <2> QED
    BY ONLY <2>1, w \in InsertedWidth(a, Blank, TabWidth), InsertedWidths
<1>5. PICK y \in Doc : /\ Leads(Doc, Legal(a), [j \in 1 .. TabWidth |-> p], x, y)
                       /\ Len(y) = Len(x) /\ Len(y[l + 1]) = L + TabWidth
  <2>1. p = Edit(a, "Insert", l, i, Blank) /\ L = Len(x[l + 1])
    OBVIOUS
  <2> HIDE DEF x, l, i, p, L
  <2> QED
    BY ONLY <1>1, <2>1, a \in Client, TabChain
<1>6. cursor'[a].line = l /\ cursor'[a].index = Least(i + TabWidth, w)
  BY <1>2, Placed
<1>7. UNCHANGED local
  BY DEF PressTab, Press
<1> HIDE DEF x, l, i, p, L
<1>8. OnText(y, cursor'[a])
  BY <1>1, <1>4, <1>5, <1>6 DEF OnText, HasLine, Least
<1> QED
  BY <1>3, <1>5, <1>7, <1>8 DEF Typing, x

LEMMA EnterTyped ==
    ASSUME Inv, NEW a \in Client, client[a] = "up", Typing(a), pending[a] = << >>, PressEnter(a)
    PROVE  Typing(a)'
<1> DEFINE x == local[a]
           l == cursor[a].line
           i == cursor[a].index
           p == Edit(a, "Insert", l, i, Enter)
           e == InsertChar(x, l, i, Enter)
<1>1. /\ x \in Doc /\ l \in Nat /\ i \in Nat /\ HasLine(x, l) /\ i \in 0 .. Len(x[l + 1])
      /\ Len(x) \in Nat
  BY CursorRow
<1>2. Then(a, << p >>) /\ CursorTo(a, l + 1, 0) /\ UNCHANGED local
  BY DEF PressEnter, Press
<1>3. e \in Doc /\ Len(e) = Len(x) + 1
  BY <1>1, BreakRow
<1>4. p \in ToServer /\ << p, x, e >> \in Legal(a)
  BY <1>1, LegalInsert
<1>5. cursor'[a].line = l + 1 /\ cursor'[a].index = 0
  BY <1>2, Placed
<1> HIDE DEF x, l, i, p, e
<1>6. HasLine(e, l + 1)
  BY <1>1, <1>3 DEF HasLine
<1>7. Len(e[(l + 1) + 1]) \in Nat
  BY <1>1, <1>3, <1>6 DEF Doc, Line, HasLine
<1>8. OnText(e, cursor'[a])
  BY <1>5, <1>6, <1>7 DEF OnText
<1> QED
  BY <1>2, <1>3, <1>4, <1>8, TypedOne DEF x

LEMMA BackspaceTyped ==
    ASSUME Inv, NEW a \in Client, client[a] = "up", Typing(a), pending[a] = << >>,
           PressBackspace(a)
    PROVE  Typing(a)'
<1> DEFINE x == local[a]
           l == cursor[a].line
           i == cursor[a].index
           L == Len(x[l + 1])
<1>1. /\ OnText(x, cursor[a]) /\ x \in Doc /\ l \in Nat /\ i \in Nat /\ HasLine(x, l)
      /\ i \in 0 .. L /\ Len(x) \in Nat /\ L \in Nat /\ Width(a, l) = {L}
  BY CursorRow
<1>2. UNCHANGED local
  BY DEF PressBackspace, Press
<1>3. \/ /\ i > 0
         /\ \E w \in Width(a, l) :
               /\ Then(a, << Edit(a, "Remove", l, Least(i - 1, w), Enter) >>)
               /\ CursorTo(a, l, Least(i - 1, w))
      \/ /\ i = 0 /\ l > 0
         /\ Then(a, << Edit(a, "Remove", l, Join, Enter) >>)
         /\ \E w \in Width(a, l - 1) : CursorTo(a, l - 1, w)
      \/ i = 0 /\ l = 0 /\ UNCHANGED << pending, cursor >>
  BY DEF PressBackspace
<1>4. Width(a, l - 1) = IF HasLine(x, l - 1) THEN {Len(x[(l - 1) + 1])} ELSE GarbageWidths
  BY DEF Width, LineWidth
<1>5. \A m, k : CursorTo(a, m, k) => cursor'[a].line = m /\ cursor'[a].index = k
  BY Placed
<1> HIDE DEF l, i, L
<1>6. CASE i > 0 /\ \E w \in Width(a, l) :
                        /\ Then(a, << Edit(a, "Remove", l, Least(i - 1, w), Enter) >>)
                        /\ CursorTo(a, l, Least(i - 1, w))
  <2> DEFINE k == i - 1
             p == Edit(a, "Remove", l, k, Enter)
  <2>1. k \in Nat /\ k < L /\ Least(k, L) = k
    BY <1>1, <1>6 DEF Least
  <2>2. Then(a, << p >>) /\ CursorTo(a, l, k)
    BY <1>1, <1>6, <2>1
  <2> HIDE DEF k
  <2>3. PICK e \in Doc : /\ RemoveChar(x, l, k) = {e} /\ Len(e) = Len(x)
                         /\ Len(e[l + 1]) = L - 1
    <3> HIDE DEF x
    <3> QED
      BY ONLY <1>1, <2>1, RemoveRow DEF L
  <2>4. ~ ErasesEnd(x, l, k)
    BY <1>1, <2>1 DEF ErasesEnd, L
  <2>5. p \in ToServer /\ << p, x, e >> \in Legal(a)
    BY <1>1, <2>1, <2>3, <2>4, LegalRemove
  <2> HIDE DEF p, x
  <2>6. OnText(e, cursor'[a])
    BY <1>1, <1>5, <2>1, <2>2, <2>3 DEF OnText, HasLine
  <2> QED
    BY <1>2, <2>2, <2>5, <2>6, TypedOne DEF x
<1>7. CASE /\ i = 0 /\ l > 0
           /\ Then(a, << Edit(a, "Remove", l, Join, Enter) >>)
           /\ \E w \in Width(a, l - 1) : CursorTo(a, l - 1, w)
  <2> DEFINE p == Edit(a, "Remove", l, Join, Enter)
  <2>1. Width(a, l - 1) = {Len(x[l])} /\ l - 1 \in Nat /\ (l - 1) + 1 = l
    BY <1>1, <1>4, <1>7 DEF HasLine
  <2>2. CursorTo(a, l - 1, Len(x[l])) /\ Then(a, << p >>)
    BY <1>7, <2>1
  <2>3. PICK e \in Doc : /\ RemoveChar(x, l, Join) = {e} /\ Len(e) = Len(x) - 1
                         /\ Len(e[l]) = Len(x[l]) + Len(x[l + 1])
    BY <1>1, <1>7, JoinRow
  <2>4. p \in ToServer /\ << p, x, e >> \in Legal(a)
    BY <1>1, <2>3, LegalRemove
  <2>5. Len(x[l]) \in Nat /\ Len(x[l + 1]) \in Nat
    BY <1>1, <1>7, SMTT(30) DEF Doc, Line, HasLine
  <2>6. cursor'[a].line = l - 1 /\ cursor'[a].index = Len(x[l])
    BY <1>5, <2>2
  <2> HIDE DEF p, x
  <2>7. OnText(e, cursor'[a])
    <3>1. HasLine(e, l - 1)
      BY <1>1, <2>3 DEF HasLine
    <3>2. e[cursor'[a].line + 1] = e[l]
      BY <2>1, <2>6
    <3>3. Len(x[l]) <= Len(e[l])
      <4>1. Len(e[l]) = Len(x[l]) + Len(x[l + 1])
        BY <2>3
      <4> DEFINE u == Len(e[l])
                 v == Len(x[l])
                 w == Len(x[l + 1])
      <4>2. v \in Nat /\ w \in Nat /\ u = v + w
        BY <2>5, <4>1
      <4> HIDE DEF u, v, w
      <4>3. v <= u
        BY ONLY <4>2
      <4> QED
        BY <4>3 DEF u, v
    <3>4. HasLine(e, cursor'[a].line) /\ cursor'[a].index <= Len(e[cursor'[a].line + 1])
      BY ONLY <2>6, <3>1, <3>2, <3>3
    <3> QED
      BY <3>4 DEF OnText
  <2> QED
    BY <1>2, <2>2, <2>4, <2>7, TypedOne DEF x
<1>8. CASE i = 0 /\ l = 0 /\ UNCHANGED << pending, cursor >>
  BY <1>1, <1>2, <1>8, TypedNone
<1> QED
  BY <1>3, <1>6, <1>7, <1>8

LEMMA DeleteTyped ==
    ASSUME Inv, NEW a \in Client, client[a] = "up", Typing(a), pending[a] = << >>,
           PressDelete(a)
    PROVE  Typing(a)'
<1> DEFINE x == local[a]
           l == cursor[a].line
           i == cursor[a].index
           L == Len(x[l + 1])
<1>1. /\ OnText(x, cursor[a]) /\ x \in Doc /\ l \in Nat /\ i \in Nat /\ HasLine(x, l)
      /\ i \in 0 .. L /\ Len(x) \in Nat /\ L \in Nat /\ Width(a, l) = {L}
  BY CursorRow
<1>2. UNCHANGED << local, cursor >>
  BY DEF PressDelete, Press
<1>3. \E w \in Width(a, l) :
         \/ i < w /\ Then(a, << Edit(a, "Remove", l, i, Enter) >>)
         \/ /\ i >= w /\ l < Len(x) - 1
            /\ Then(a, << Edit(a, "Remove", l + 1, Join, Enter) >>)
         \/ i >= w /\ l >= Len(x) - 1 /\ UNCHANGED pending
  BY DEF PressDelete
<1>4. cursor'[a].line = l /\ cursor'[a].index = i
  BY <1>2
<1> HIDE DEF l, i, L
<1>5. CASE i < L /\ Then(a, << Edit(a, "Remove", l, i, Enter) >>)
  <2> DEFINE p == Edit(a, "Remove", l, i, Enter)
  <2>1. PICK e \in Doc : /\ RemoveChar(x, l, i) = {e} /\ Len(e) = Len(x)
                         /\ Len(e[l + 1]) = L - 1
    <3> HIDE DEF x
    <3> QED
      BY ONLY <1>1, <1>5, RemoveRow DEF L
  <2>2. ~ ErasesEnd(x, l, i)
    BY <1>1, <1>5 DEF ErasesEnd, L
  <2>3. p \in ToServer /\ << p, x, e >> \in Legal(a)
    BY <1>1, <2>1, <2>2, LegalRemove
  <2> HIDE DEF x
  <2>4. OnText(e, cursor'[a])
    BY <1>1, <1>4, <1>5, <2>1 DEF OnText, HasLine
  <2> HIDE DEF p
  <2> QED
    BY <1>2, <1>5, <2>3, <2>4, TypedOne DEF x, p
<1>6. CASE /\ l < Len(x) - 1
           /\ Then(a, << Edit(a, "Remove", l + 1, Join, Enter) >>)
  <2> DEFINE m == l + 1
             p == Edit(a, "Remove", m, Join, Enter)
  <2>1. m \in Nat /\ m > 0 /\ HasLine(x, m)
    BY <1>1, <1>6 DEF HasLine
  <2>2. Then(a, << p >>)
    BY <1>6
  <2>3. Len(x[m]) = L
    BY DEF L
  <2> HIDE DEF m
  <2>4. PICK e \in Doc : /\ RemoveChar(x, m, Join) = {e} /\ Len(e) = Len(x) - 1
                         /\ Len(e[m]) = L + Len(x[m + 1])
    BY <1>1, <2>1, <2>3, JoinRow
  <2>5. p \in ToServer /\ << p, x, e >> \in Legal(a)
    BY <1>1, <2>1, <2>4, LegalRemove
  <2>6. Len(x[m + 1]) \in Nat
    BY <1>1, <2>1 DEF Doc, Line, HasLine
  <2> HIDE DEF p
  <2>7. OnText(e, cursor'[a])
    <3> HIDE DEF x
    <3> QED
      BY <1>1, <1>4, <1>6, <2>4, <2>6 DEF OnText, HasLine, m
  <2> QED
    BY <1>2, <2>2, <2>5, <2>7, TypedOne
<1>7. CASE UNCHANGED pending
  BY <1>1, <1>2, <1>7, TypedNone
<1> QED
  BY <1>1, <1>3, <1>5, <1>6, <1>7

LEMMA CommandTyped ==
    ASSUME Inv, NEW a \in Client, client[a] = "up", Typing(a), pending[a] = << >>,
           PressCommand(a) \/ PressSync(a)
    PROVE  Typing(a)'
<1>1. local[a] \in Doc /\ OnText(local[a], cursor[a]) /\ UNCHANGED << local, cursor >>
  BY CursorRow DEF PressCommand, PressSync, Press
<1>2. PICK p : /\ Then(a, << p >>)
               /\ \/ \E f \in File : p = [type |-> "WriteToDisk", file |-> f]
                  \/ \E f \in File : p = [type |-> "ReadFromDisk", file |-> f]
                  \/ p \in Request
  <2>1. GetFull \in Request /\ [type |-> "GetClientCount"] \in Request
    BY DEF GetFull, Request
  <2> QED
    BY <2>1 DEF PressCommand, PressSync
<1>3. p \in ToServer /\ ~ EditOf(p, a) /\ p \in Packet
  BY <1>2 DEF ToServer, FileRequest, Request, EditOf, IsEdit, Packet
<1>4. << p, local[a], local[a] >> \in Legal(a)
  BY <1>1, <1>3, LegalOther DEF Neutral
<1>5. OnText(local[a], cursor'[a])
  BY <1>1
<1> QED
  BY <1>1, <1>2, <1>3, <1>4, <1>5, TypedOne

\* What is sent of a key is what was left to send.
LEMMA SentLegal ==
    ASSUME Inv, NEW a \in Client, client[a] = "up", Typing(a), SendEdit(a)
    PROVE  /\ << Renumbered(Head(pending[a]), issued[a] + 1), local[a], local'[a] >> \in Legal(a)
           /\ Typing(a)'
<1> DEFINE q == Head(pending[a])
           p == Renumbered(q, issued[a] + 1)
<1>1. /\ pending[a] # << >> /\ q \in EditPacket /\ IsEdit(q) /\ p \in EditPacket /\ IsEdit(p)
      /\ p.from = a /\ local'[a] \in After(local[a], p)
      /\ p.type = q.type /\ p.line = q.line /\ p.index = q.index /\ p.char = q.char
  BY SentEdit
<1>2. local[a] \in Doc /\ pending[a] \in Seq(ToServer)
  BY Types, MoreTypes
<1>3. pending'[a] = Tail(pending[a]) /\ UNCHANGED cursor
  BY Types DEF SendEdit
<1>4. PICK y \in Doc : Leads(Doc, Legal(a), pending[a], local[a], y) /\ OnText(y, cursor[a])
  BY DEF Typing
<1>5. PICK m \in Doc : << q, local[a], m >> \in Legal(a)
                       /\ Leads(Doc, Legal(a), Tail(pending[a]), m, y)
  BY ONLY <1>1, <1>2, <1>4, LeadsHead
<1>6. EditOf(q, a)
  <2>1. q.from = a
    <3>1. p.from = q.from
      BY <1>1 DEF Renumbered, EditPacket
    <3> QED
      BY <1>1, <3>1
  <2> QED
    BY <1>1, <2>1 DEF EditOf
<1>7. m \in After(local[a], q) /\ ~ Erases(local[a], q)
  BY <1>5, <1>6 DEF Legal, Makes
<1> HIDE DEF p, q
<1>8. After(local[a], p) = After(local[a], q) /\ ~ Erases(local[a], p)
  BY <1>1, <1>7 DEF After, Erases
<1>9. m = local'[a]
  BY <1>1, <1>2, <1>7, <1>8, SingleAfter
<1>10. << p, local[a], local'[a] >> \in Legal(a)
  BY <1>1, <1>2, <1>8, <1>9 DEF Legal, Makes, EditOf, Packet, ToServer
<1>11. Typing(a)'
  BY <1>3, <1>4, <1>5, <1>9 DEF Typing
<1> QED
  BY <1>10, <1>11 DEF p, q

LEMMA TypingOwnStep ==
    ASSUME Inv, NEW P, NEW D, Permits(P, D), Traffic(P), NEW a \in Client,
           \A p \in P[a] : IsEdit(p) => p.from = a, ~ Connect(a),
           Overwrite(a) => local'[a] = local[a], Typing(a), ClientStep(a) \/ UserStep(a)
    PROVE  Typing(a)'
<1> SUFFICES ASSUME client'[a] = "up" PROVE Typing(a)'
  BY DEF Typing
<1>0. client[a] = "up"
  BY LocalOwnStep
<1>1. CASE SendEdit(a)
  BY <1>0, <1>1, SentLegal
<1>2. CASE SendRequest(a)
  <2> DEFINE p == Head(pending[a])
  <2>1. /\ pending[a] # << >> /\ ~ IsEdit(p) /\ UNCHANGED << local, cursor >>
        /\ pending'[a] = Tail(pending[a]) /\ pending[a] \in Seq(ToServer)
    BY <1>2, Types DEF SendRequest
  <2>2. p \in ToServer
    BY ONLY <2>1, Queued
  <2>3. Neutral(Doc, Legal(a), p)
    BY <2>1, <2>2, LegalOther DEF EditOf, Packet
  <2>4. local[a] \in Doc
    BY MoreTypes
  <2>5. PICK y \in Doc : Leads(Doc, Legal(a), pending[a], local[a], y) /\ OnText(y, cursor[a])
    BY <1>0 DEF Typing
  <2>6. Leads(Doc, Legal(a), Tail(pending[a]), local[a], y)
            <=> Leads(Doc, Legal(a), pending[a], local[a], y)
    BY ONLY <2>1, <2>3, <2>4, LeadsTailNeutral
  <2> QED
    BY <2>1, <2>5, <2>6 DEF Typing
<1>3. CASE HandlerStep(a)
  <2>1. ~ ForcedText(a)
    BY TextsIn
  <2>2. ~ RemoteEdit(a)
    <3> SUFFICES ASSUME RemoteEdit(a) PROVE FALSE
      OBVIOUS
    <3>1. Head(down[a]) \in P[a]
      BY Heads DEF RemoteEdit, Handles
    <3> QED
      BY <3>1, HandledEdit
  <2>3. UNCHANGED << client[a], pending[a], local[a], cursor[a] >>
    BY <1>3, <2>1, <2>2 DEF HandlerStep, Overwrite, IgnoreText, ShowNotice, Handles
  <2> QED
    BY <1>0, <2>3 DEF Typing
<1>4. CASE LoopStep(a)
  <2>1. UNCHANGED << pending, local, cursor >>
    BY <1>4 DEF LoopStep, ClearFlag, AskForText
  <2> QED
    BY <1>0, <2>1 DEF Typing
<1>5. ~ Ends(a) /\ ~ NoticeLoss(a) /\ ~ ContinueLocally(a) /\ ~ Connect(a)
  BY <1>0, Types DEF Ends, NoticeLoss, ContinueLocally
<1>6. CASE MoveCursor(a)
  <2>1. pending[a] = << >> /\ UNCHANGED << pending, local >>
    BY <1>6 DEF MoveCursor
  <2>2. PICK p \in Reach[a] : OnText(local[a], p) /\ cursor' = [cursor EXCEPT ![a] = p]
    BY <1>6 DEF MoveCursor
  <2>3. cursor'[a] = p
    BY <2>2, MoreTypes
  <2> QED
    BY <2>1, <2>2, <2>3, TypedNone
<1>7. ASSUME \/ PressChar(a) \/ PressTab(a) \/ PressEnter(a) \/ PressBackspace(a)
             \/ PressDelete(a) \/ PressCommand(a) \/ PressSync(a)
      PROVE  Typing(a)'
  <2>1. pending[a] = << >>
    BY <1>7 DEF PressChar, PressTab, PressEnter, PressBackspace, PressDelete, PressCommand,
       PressSync, Press
  <2> QED
    BY <1>0, <1>7, <2>1, CharTyped, TabTyped, EnterTyped, BackspaceTyped, DeleteTyped,
       CommandTyped
<1> QED
  BY <1>1, <1>2, <1>3, <1>4, <1>5, <1>6, <1>7
  DEF ClientStep, KeyboardStep, UserStep, ClientCrash, Quit

LEMMA TypingStep ==
    ASSUME Inv, NEW P, NEW D, Permits(P, D), Traffic(P), NEW a \in Client,
           \A p \in P[a] : IsEdit(p) => p.from = a, ~ Connect(a),
           Overwrite(a) => local'[a] = local[a], Typing(a), [Next]_vars
    PROVE  Typing(a)'
<1>1. ASSUME UNCHANGED << client[a], pending[a], local[a], cursor[a] >> PROVE Typing(a)'
  BY <1>1 DEF Typing
<1>2. CASE AcceptorStep \/ UNCHANGED vars
  BY <1>1, <1>2, Accepting DEF vars, clientVars
<1>3. ASSUME NEW c \in Client, c # a, ServerStep(c) \/ ClientStep(c) \/ UserStep(c)
      PROVE  Typing(a)'
  BY <1>1, <1>3, Elsewhere DEF Own
<1>4. CASE ServerStep(a)
  <2>1. UNCHANGED clientVars
    BY <1>4 DEF ServerStep, ApplyEdit, CrashOnErase, WriteToDisk, ReadFromDisk, Answer, Reply,
     TakeClock, Forward, ReleaseClock, ListSockets, SerializeText, Broadcast, EndBroadcast,
     Disconnected, Close, SaveOnExit
  <2> QED
    BY <1>1, <2>1 DEF clientVars
<1>5. CASE ClientStep(a) \/ UserStep(a)
  BY <1>5, TypingOwnStep
<1> QED
  BY <1>2, <1>3, <1>4, <1>5 DEF Next

\* The server dies only of an edit that does not fit.
LEMMA CrashStep ==
    ASSUME [Next]_vars, server = "up", server' # "up"
    PROVE  \E c \in Client : CrashOnErase(c)
<1>1. CASE AcceptorStep
  BY <1>1 DEF AcceptorStep, Accept, NotifyOne, StartThread
<1>2. ASSUME NEW c \in Client, ServerStep(c), ~ CrashOnErase(c) PROVE server' = server
  BY <1>2 DEF ServerStep, ApplyEdit, WriteToDisk, ReadFromDisk, Answer, Reply,
     TakeClock, Forward, ReleaseClock, ListSockets, SerializeText, Broadcast, EndBroadcast,
     Disconnected, Close, SaveOnExit, serverVars
<1>3. ASSUME NEW c \in Client, ClientStep(c) \/ UserStep(c) PROVE server' = server
  BY <1>3 DEF ClientStep, KeyboardStep, HandlerStep, LoopStep, SendEdit, SendRequest,
     ForcedText, Overwrite, IgnoreText, RemoteEdit, ShowNotice, Handles, ClearFlag,
     AskForText, ClientCrash, Ends, NoticeLoss, UserStep, PressChar, PressTab,
     PressEnter, PressBackspace, PressDelete, PressCommand, PressSync, Press, MoveCursor,
     Connect, Quit, Ends, ContinueLocally, serverVars
<1>4. CASE UNCHANGED vars
  BY <1>4 DEF vars, serverVars
<1> QED
  BY <1>1, <1>2, <1>3, <1>4 DEF Next

LEMMA NoCrash ==
    ASSUME Inv, NEW P, NEW D, Permits(P, D), Traffic(P), NEW a,
           \A c \in Client : \A p \in P[c] : IsEdit(p) => p.from = a,
           Ahead(Doc, Whole, Legal(a), a), NEW c \in Client
    PROVE  ~ CrashOnErase(c)
<1> SUFFICES ASSUME CrashOnErase(c) PROVE FALSE
  OBVIOUS
<1> DEFINE p == Head(up[c])
<1>1. /\ server = "up" /\ up[c] # << >> /\ p.type = "Remove"
      /\ p.index # Join /\ ErasesEnd(text, p.line, p.index) /\ up[c] \in Seq(ToServer)
  BY Types DEF CrashOnErase, Receives
<1>2. p.from = c /\ IsEdit(p)
  BY <1>1, NextEdit DEF CrashOnErase, Receives, IsEdit
<1>3. c = a
  BY <1>1, <1>2, Heads
<1>4. text \in Doc /\ Whole[text] = text
  BY MoreTypes DEF Whole
<1>5. PICK y \in Doc : Leads(Doc, Legal(a), up[a], text, y)
  BY <1>1, <1>4 DEF Ahead
<1>6. PICK m \in Doc : << p, text, m >> \in Legal(a)
  BY <1>1, <1>3, <1>4, <1>5, LeadsHead
<1>7. ~ Erases(text, p)
  BY <1>2, <1>3, <1>6 DEF Legal, EditOf
<1> QED
  BY <1>1, <1>7 DEF Erases

LEMMA LegalSees ==
    ASSUME NEW a, NEW U
    PROVE  Sees(Authored(a, U), Doc, Doc, Whole, Legal(a), a)
<1>1. Sees(Authored(a, U), Doc, Doc, Whole, Makes(a), a)
  BY AuthoredSees
<1>2. \A p : ~ EditOf(p, a) => (Neutral(Doc, Makes(a), p) => Neutral(Doc, Legal(a), p))
  BY DEF Neutral, Legal
<1>3. Legal(a) \subseteq Makes(a)
  BY DEF Legal
<1> QED
  BY <1>1, <1>2, <1>3 DEF Sees

LEMMA SafeStep ==
    ASSUME NEW a, OneAuthor(a), a \notin Joiners, Inv, Inv', SafeInv(a), [Next]_vars, LosesNothing
    PROVE  SafeInv(a)'
<1> DEFINE P == Authored(a, {})
           R == Legal(a)
           E == Client
<1>0. a \in Client /\ a \in E /\ ~ Connect(a)
  BY DEF OneAuthor, Connect
<1>1. /\ Permits(P, Doc) /\ Sees(P, Doc, Doc, Whole, R, a) /\ AsksIn(P)
      /\ \A c \in Client : \A p \in P[c] : IsEdit(p) => p.from = a
  <2>1. \A c \in Client : GetFull \in P[c]
    BY DEF Authored, GetFull, Packet, ToServer, Request, IsEdit
  <2>2. \A c \in Client : \A p \in P[c] : IsEdit(p) => p.from = a
    BY DEF Authored
  <2> QED
    BY <2>1, <2>2, AuthoredPermits, LegalSees DEF AsksIn
<1>2. Traffic(P) /\ Ahead(Doc, Whole, R, a) /\ Fresh(Whole, a) /\ Typing(a) /\ server = "up"
  BY DEF SafeInv
<1>3. Inside(Doc, E) /\ Inside(Doc, E)' /\ text \in Doc
  BY MoreTypes DEF Inside, Inv, TypeInv, TypeOK, ServerTypes, ClientTypes
<1>4. \A c \in Client : \A p \in ToServer : Struck(c, p) => p \in P[c]
  BY <1>1, AuthoredStruck
<1>5. SendEdit(a) /\ Connection(a) =>
         << Renumbered(Head(pending[a]), issued[a] + 1), Whole[local[a]], Whole[local'[a]] >> \in R
  <2>1. Whole[local[a]] = local[a] /\ Whole[local'[a]] = local'[a]
    BY <1>0 DEF Inv, TypeInv, TypeOK, ClientTypes, Whole
  <2> QED
    BY <1>0, <1>2, <2>1, SentLegal DEF Connection
<1> HIDE DEF P, R, E
<1>6. Traffic(P)'
  <2>1. \A c \in Client : pending'[c] \in Seq(P[c])
    BY <1>2, <1>4, PendingPermitted
  <2> QED
    BY ONLY <1>0, <1>1, <1>2, <1>3, <2>1, Inv, [Next]_vars, TrafficStep
<1>7. Overwrite(a) => Whole[local'[a]] = Whole[local[a]]
  <2>1. Overwrite(a) => Head(down[a]).has[a] = issued[a]
    BY <1>0 DEF LosesNothing
  <2> QED
    BY ONLY <1>0, <1>1, <1>2, <1>3, <2>1, Inv, Current
<1>8. Overwrite(a) => local'[a] = local[a]
  <2>1. Whole[local[a]] = local[a] /\ Whole[local'[a]] = local'[a]
    BY <1>0 DEF Inv, TypeInv, TypeOK, ClientTypes, Whole
  <2> QED
    BY <1>7, <2>1
<1>9. Ahead(Doc, Whole, R, a)'
  BY ONLY <1>0, <1>1, <1>2, <1>3, <1>5, <1>7, Inv, [Next]_vars, AheadStep
<1>10. Fresh(Whole, a)'
  BY ONLY <1>0, <1>1, <1>2, <1>3, Inv, [Next]_vars, FreshStep
<1>11. Typing(a)'
  BY <1>0, <1>1, <1>2, <1>8, TypingStep
<1>12. server' = "up"
  <2>1. \A c \in Client : ~ CrashOnErase(c)
    <3>1. Ahead(Doc, Whole, Legal(a), a)
      BY <1>2 DEF R
    <3> QED
      BY <1>1, <1>2, <3>1, NoCrash
  <2> QED
    BY <1>2, <2>1, CrashStep
<1> QED
  BY <1>6, <1>9, <1>10, <1>11, <1>12 DEF SafeInv, P, R

\* At the start no text is under way.
LEMMA FreshInitially ==
    ASSUME Init, NEW view, NEW a \in Client
    PROVE  Fresh(view, a)
<1>1. ToSet(down[a]) = {} /\ pc[a] # "reply"
  BY DEF Init, ToSet
<1> QED
  BY <1>1 DEF Fresh, TextsFor

LEMMA SafeInitially ==
    ASSUME Init, NEW a, OneAuthor(a), InitialText # << >>
    PROVE  SafeInv(a)
<1>1. a \in Client /\ InitialText \in Doc /\ Whole[InitialText] \in Doc
  BY SessionAssumption DEF OneAuthor, Whole
<1>2. Ahead(Doc, Whole, Legal(a), a)
  BY <1>1, AgreeInitially
<1>3. Typing(a)
  <2> SUFFICES ASSUME client[a] = "up" PROVE Typing(a)
    BY DEF Typing
  <2>1. local[a] = InitialText /\ pending[a] = << >> /\ cursor[a] \in Starts(a)
    BY <1>1 DEF Init
  <2>2. OnText(InitialText, Origin)
    <3>1. 0 < Len(InitialText) /\ Len(InitialText[0 + 1]) \in Nat
      BY <1>1 DEF Doc, Line
    <3> QED
      BY <3>1 DEF OnText, Origin, HasLine
  <2>3. OnText(InitialText, cursor[a])
    BY <2>1, <2>2 DEF Starts
  <2>4. Leads(Doc, Legal(a), << >>, InitialText, InitialText)
    BY <1>1, LeadsEmpty
  <2> QED
    BY <1>1, <2>1, <2>3, <2>4 DEF Typing
<1> QED
  BY <1>1, <1>2, <1>3, TrafficInitially, FreshInitially DEF SafeInv, Init

LEMMA TailShorter ==
    ASSUME NEW S, NEW s \in Seq(S), s # << >>
    PROVE  Tail(s) # s
<1>1. Len(s) \in Nat /\ Len(Tail(s)) = Len(s) - 1
  OBVIOUS
<1>2. Len(Tail(s)) # Len(s)
  BY ONLY <1>1
<1> QED
  BY <1>2

\* Where nothing happens, nothing is overwritten.
LEMMA StutterLoses ==
    ASSUME Inv, [LosesNothing]_vars
    PROVE  LosesNothing
<1> SUFFICES ASSUME UNCHANGED vars, NEW c \in Client PROVE ~ Overwrite(c)
  BY DEF LosesNothing
<1>1. down[c] \in Seq(ToClient) /\ down'[c] = down[c]
  BY Types DEF vars, netVars
<1>2. Overwrite(c) => down[c] # << >> /\ down'[c] = Tail(down[c])
  BY Types DEF Overwrite, Handles
<1>3. down[c] # << >> => Tail(down[c]) # down[c]
  BY ONLY <1>1, TailShorter
<1> QED
  BY <1>1, <1>2, <1>3

\* In a session in which one user, who was there from the start, edits, in whatever way,
\* and the others watch, join, synchronise, save and count, all with their periodic
\* threads: as long as no text takes an edit of the client back that it replaces the
\* text of, the server never removes a character that does not exist.  (That condition is
\* the one run periodic_sync refutes: a stale text lets the author delete the last
\* character of a line twice.)
THEOREM OneAuthorNeverErasesEnd ==
    ASSUME NEW a, OneAuthor(a), a \notin Joiners, InitialText # << >>
    PROVE  Spec /\ OverwriteKeepsEdits => []NeverErasesEnd
<1>1. Init => SafeInv(a)
  BY SafeInitially
<1>2. Inv /\ Inv' /\ SafeInv(a) /\ [Next]_vars /\ [LosesNothing]_vars => SafeInv(a)'
  BY StutterLoses, SafeStep
<1>3. SafeInv(a) => NeverErasesEnd
  BY DEF SafeInv, NeverErasesEnd
<1> QED
  BY <1>1, <1>2, <1>3, OrderCorrect, PTL DEF Spec, OverwriteKeepsEdits, LosesNothing

-----------------------------------------------------------------------------
\* Several users edit, each in a line of its own.

\* What one edit inside a line makes of it, and that it leaves the other lines alone.
LEMMA EditedLine ==
    ASSUME NEW doc \in Doc, NEW p \in EditPacket, HasLine(doc, p.line), p.index \in Nat,
           p.type = "Insert" => p.char \in Char, NEW e \in After(doc, p)
    PROVE  /\ e \in Doc /\ Len(e) = Len(doc)
           /\ \A l \in 1 .. Len(doc) : l # p.line + 1 => e[l] = doc[l]
           /\ p.type = "Insert" /\ p.index <= Len(doc[p.line + 1]) =>
                 e[p.line + 1] = InsertAt(doc[p.line + 1], p.index + 1, p.char)
           /\ p.type = "Remove" /\ p.index < Len(doc[p.line + 1]) =>
                 e[p.line + 1] = RemoveAt(doc[p.line + 1], p.index + 1)
<1> DEFINE l == p.line + 1
           w == doc[l]
           i == p.index
<1>1. /\ p.line \in Nat /\ l \in 1 .. Len(doc) /\ doc \in Seq(Line) /\ w \in Seq(Char)
      /\ Len(w) \in Nat
  <2>1. p.line \in Nat
    BY EditFields
  <2>2. l \in 1 .. Len(doc) /\ doc \in Seq(Line) /\ w \in Seq(Char)
    BY <2>1 DEF HasLine, Doc, Line
  <2> QED
    BY <2>1, <2>2
<1>2. e \in Doc
  BY SingleAfter
<1>3. ASSUME NEW r, e = ReplaceAt(doc, l, r)
      PROVE  Len(e) = Len(doc) /\ e[l] = r /\ \A k \in 1 .. Len(doc) : k # l => e[k] = doc[k]
  BY <1>1, <1>3 DEF ReplaceAt
<1>4. CASE p.type = "Insert"
  <2>1. e = InsertChar(doc, p.line, i, p.char) /\ p.char # Enter
    BY <1>4, EnterAssumption DEF After
  <2>2. CASE i > Len(w)
    BY <1>1, <1>2, <1>4, <2>1, <2>2 DEF InsertChar
  <2>3. CASE i <= Len(w)
    <3>1. e = ReplaceAt(doc, l, InsertAt(w, i + 1, p.char))
      BY <1>1, <2>1, <2>3 DEF InsertChar
    <3> HIDE DEF l, w, i
    <3>2. /\ Len(e) = Len(doc) /\ e[l] = InsertAt(w, i + 1, p.char)
          /\ \A k \in 1 .. Len(doc) : k # l => e[k] = doc[k]
      BY <1>3, <3>1
    <3> QED
      BY <1>2, <1>4, <3>2 DEF l, w, i
  <2> QED
    BY <1>1, <2>2, <2>3
<1>5. CASE p.type = "Remove"
  <2>1. e \in RemoveChar(doc, p.line, i) /\ i # Join
    BY <1>5 DEF After, Join
  <2>2. CASE i > Len(w)
    BY <1>1, <1>2, <1>5, <2>1, <2>2 DEF RemoveChar
  <2>3. CASE i = Len(w)
    <3>1. e = ReplaceAt(doc, l, Front(w))
      BY <1>1, <2>1, <2>3 DEF RemoveChar, ErasesEnd
    <3>2. Len(e) = Len(doc) /\ \A k \in 1 .. Len(doc) : k # l => e[k] = doc[k]
      BY <1>3, <3>1
    <3> QED
      BY <1>1, <1>2, <1>5, <2>3, <3>2
  <2>4. CASE i < Len(w)
    <3>1. e = ReplaceAt(doc, l, RemoveAt(w, i + 1))
      BY <1>1, <2>1, <2>4 DEF RemoveChar, ErasesEnd
    <3> HIDE DEF l, w, i
    <3>2. /\ Len(e) = Len(doc) /\ e[l] = RemoveAt(w, i + 1)
          /\ \A k \in 1 .. Len(doc) : k # l => e[k] = doc[k]
      BY <1>3, <3>1
    <3> QED
      BY <1>2, <1>5, <3>2 DEF l, w, i
  <2> QED
    BY <1>1, <2>2, <2>3, <2>4
<1>6. p.type \in {"Insert", "Remove"}
  BY EditFields DEF IsEdit
<1> QED
  BY <1>4, <1>5, <1>6

LEMMA LinePackets ==
    ASSUME NEW own, NEW U, NEW c \in Client, NEW p
    PROVE  p \in InLine(own, U)[c] <=>
             /\ p \in Packet
             /\ p.type \notin {"ReadFromDisk", "ReadConfirmed"}
             /\ IsEdit(p) => /\ p.from \in Editors /\ p.line = own[p.from]
                             /\ p.index \in Nat
                             /\ p.type = "Insert" => p.char \in Char
             /\ p.type = "FullContent" => ~ p.force /\ p.text \in SameLines(own)
             /\ c \in U => p.type \notin {"GetFull", "FullContent"}
BY DEF InLine

LEMMA LinePermits ==
    ASSUME NEW own, NEW U
    PROVE  /\ Permits(InLine(own, U), SameLines(own))
           /\ \A c \in Client : c \in U => Untouched(InLine(own, U), c)
<1> DEFINE P == InLine(own, U)
           D == SameLines(own)
<1>1. \A d \in Client : \A p : p \in P[d] <=>
         /\ p \in Packet
         /\ p.type \notin {"ReadFromDisk", "ReadConfirmed"}
         /\ IsEdit(p) => /\ p.from \in Editors /\ p.line = own[p.from]
                         /\ p.index \in Nat
                         /\ p.type = "Insert" => p.char \in Char
         /\ p.type = "FullContent" => ~ p.force /\ p.text \in D
         /\ d \in U => p.type \notin {"GetFull", "FullContent"}
  BY LinePackets
<1>2. D \subseteq Doc
  BY DEF SameLines
<1> HIDE DEF P, D
<1>3. ASSUME NEW c \in Client
      PROVE  /\ \A p \in P[c] : /\ p \in Packet /\ p.type \notin {"ReadFromDisk", "ReadConfirmed"}
                                /\ p.type = "FullContent" => p \in AnswerIn(D)
             /\ \A p \in Notice \cup Count : p.type # "ReadConfirmed" => p \in P[c]
             /\ \A p \in P[c] : IsEdit(p) => /\ \A n \in Nat : Renumbered(p, n) \in P[c]
                                            /\ \A d \in Client : p \in P[d]
             /\ GetFull \in P[c] => AnswerIn(D) \subseteq P[c]
  <2>1. \A p \in Notice \cup Count : p.type # "ReadConfirmed" => p \in P[c]
    BY <1>1 DEF Notice, Count, Packet, ToClient, IsEdit
  <2>2. ASSUME NEW p \in P[c], IsEdit(p)
        PROVE  /\ \A n \in Nat : Renumbered(p, n) \in P[c]
               /\ \A d \in Client : p \in P[d]
    <3>1. /\ p \in EditPacket /\ p.from \in Editors /\ p.line = own[p.from] /\ p.index \in Nat
          /\ p.type = "Insert" => p.char \in Char
      BY <1>1, <2>2, PacketEdits
    <3>2. ASSUME NEW n \in Nat PROVE Renumbered(p, n) \in P[c]
      <4> DEFINE q == Renumbered(p, n)
      <4>1. /\ q \in EditPacket /\ q.from = p.from /\ q.type = p.type /\ q.line = p.line
            /\ q.index = p.index /\ q.char = p.char
        BY <3>1 DEF Renumbered, EditPacket
      <4>2. IsEdit(q) /\ q.type \in {"Insert", "Remove"}
        BY <2>2, <4>1 DEF IsEdit
      <4>3. q \in Packet
        BY <4>1 DEF Packet, ToServer
      <4> HIDE DEF q
      <4>4. q \in P[c]
        BY <1>1, <3>1, <4>1, <4>2, <4>3
      <4> QED
        BY <4>4 DEF q
    <3>3. \A d \in Client : p \in P[d]
      BY <1>1, <2>2 DEF IsEdit
    <3> QED
      BY <3>2, <3>3
  <2>3. ASSUME GetFull \in P[c], NEW p \in AnswerIn(D) PROVE p \in P[c]
    <3>1. p \in Content /\ ~ p.force /\ p.type = "FullContent" /\ p.text \in D
      BY DEF AnswerIn, Content
    <3>2. p \in Packet
      BY <3>1 DEF Packet, ToClient
    <3>3. c \notin U
      BY <1>1, <2>3 DEF GetFull
    <3> QED
      BY <1>1, <3>1, <3>2, <3>3 DEF IsEdit
  <2>4. ASSUME NEW p \in P[c], p.type = "FullContent" PROVE p \in AnswerIn(D)
    <3>1. p \in Content /\ ~ p.force /\ p.text \in D
      BY <1>1, <2>4 DEF Packet, ToServer, ToClient, EditPacket, Request, FileRequest, Notice, Count
    <3> QED
      BY <3>1 DEF AnswerIn
  <2>5. \A p \in P[c] : p \in Packet /\ p.type \notin {"ReadFromDisk", "ReadConfirmed"}
    BY <1>1
  <2> QED
    BY <2>1, <2>2, <2>3, <2>4, <2>5
<1>4. Permits(P, D)
  BY <1>3 DEF Permits
<1>5. \A c \in Client : c \in U => Untouched(P, c)
  BY <1>1 DEF Untouched
<1> QED
  BY <1>4, <1>5 DEF P, D

\* The edits of a user keep the number of lines, and change only its own.
LEMMA LineEdits ==
    ASSUME NEW own, NEW U, OwnLine(own), NEW c \in Client, NEW p \in InLine(own, U)[c], IsEdit(p),
           NEW doc \in SameLines(own), NEW e \in After(doc, p)
    PROVE  /\ p \in EditPacket /\ p.from \in Editors /\ p.line = own[p.from]
           /\ HasLine(doc, p.line) /\ p.index \in Nat /\ (p.type = "Insert" => p.char \in Char)
           /\ doc \in Doc /\ e \in SameLines(own)
<1>1. /\ p \in EditPacket /\ p.from \in Editors /\ p.line = own[p.from]
      /\ p.index \in Nat /\ (p.type = "Insert" => p.char \in Char)
  BY LinePackets, PacketEdits
<1>2. /\ doc \in Doc /\ Len(doc) = Len(InitialText)
      /\ \A l \in 1 .. Len(doc) :
            (\A b \in Editors : l # own[b] + 1) => doc[l] = InitialText[l]
  BY DEF SameLines
<1>3. HasLine(doc, p.line)
  BY <1>1, <1>2 DEF OwnLine, HasLine
<1>4. /\ e \in Doc /\ Len(e) = Len(doc)
      /\ \A l \in 1 .. Len(doc) : l # p.line + 1 => e[l] = doc[l]
  BY <1>1, <1>2, <1>3, EditedLine
<1>5. ASSUME NEW l \in 1 .. Len(e), \A b \in Editors : l # own[b] + 1
      PROVE  e[l] = InitialText[l]
  BY <1>1, <1>2, <1>4, <1>5
<1>6. e \in SameLines(own)
  BY <1>2, <1>4, <1>5 DEF SameLines
<1> QED
  BY <1>1, <1>2, <1>3, <1>6

LEMMA LineSees ==
    ASSUME NEW own, NEW U, OwnLine(own), NEW a \in Editors
    PROVE  Sees(InLine(own, U), SameLines(own), Line, LineOf(own[a]), Fits(a), a)
<1> DEFINE view == LineOf(own[a])
<1>0. own[a] \in Nat /\ a \in Client
  BY DEF OwnLine, Editors
<1>1. view \in [Doc -> Line] /\ SameLines(own) \subseteq Doc
  <2>1. \A doc \in Doc : HasLine(doc, own[a]) => doc[own[a] + 1] \in Line
    BY <1>0 DEF Doc, HasLine
  <2>2. << >> \in Line
    BY DEF Line
  <2> QED
    BY <2>1, <2>2 DEF LineOf, SameLines
<1>2. ASSUME NEW c \in Client, NEW p \in InLine(own, U)[c], ~ EditOf(p, a)
      PROVE  Neutral(Line, Fits(a), p)
  <2>1. p \in Packet
    BY LinePackets
  <2>2. \A x, y \in Line : << p, x, y >> \in Fits(a) <=> y = x
    BY <1>2, <2>1 DEF Fits
  <2> QED
    BY <2>2 DEF Neutral
<1>3. ASSUME NEW c \in Client, NEW p \in InLine(own, U)[c], IsEdit(p),
             NEW doc \in SameLines(own), NEW e \in After(doc, p)
      PROVE  /\ e \in SameLines(own)
             /\ p.from # a => view[e] = view[doc]
             /\ p.from = a => \A y \in Line : << p, view[doc], y >> \in Fits(a) => y = view[e]
  <2>1. /\ p \in EditPacket /\ p.from \in Editors /\ p.line = own[p.from]
        /\ HasLine(doc, p.line) /\ p.index \in Nat /\ (p.type = "Insert" => p.char \in Char)
        /\ doc \in Doc /\ e \in SameLines(own)
    BY <1>3, LineEdits
  <2>2. /\ e \in Doc /\ Len(e) = Len(doc)
        /\ \A l \in 1 .. Len(doc) : l # p.line + 1 => e[l] = doc[l]
        /\ p.type = "Insert" /\ p.index <= Len(doc[p.line + 1]) =>
              e[p.line + 1] = InsertAt(doc[p.line + 1], p.index + 1, p.char)
        /\ p.type = "Remove" /\ p.index < Len(doc[p.line + 1]) =>
              e[p.line + 1] = RemoveAt(doc[p.line + 1], p.index + 1)
    BY <1>3, <2>1, EditedLine
  <2>3. HasLine(doc, own[a]) /\ HasLine(e, own[a])
    BY <2>1, <2>2 DEF OwnLine, SameLines, HasLine
  <2>4. view[doc] = doc[own[a] + 1] /\ view[e] = e[own[a] + 1]
    BY <2>1, <2>2, <2>3 DEF LineOf
  <2>5. ASSUME p.from # a PROVE view[e] = view[doc]
    <3>1. own[a] # p.line /\ p.line \in Nat
      BY <2>1, <2>5, EditFields DEF OwnLine
    <3>2. own[a] + 1 \in 1 .. Len(doc) /\ own[a] + 1 # p.line + 1
      BY <1>0, <2>1, <2>3, <3>1 DEF HasLine, Doc
    <3> QED
      BY <2>2, <2>4, <3>2
  <2>6. ASSUME p.from = a, NEW y \in Line, << p, view[doc], y >> \in Fits(a)
        PROVE  y = view[e]
    <3>1. EditOf(p, a) /\ p.line = own[a]
      BY <1>3, <2>1, <2>6 DEF EditOf
    <3>2. \/ /\ p.type = "Insert" /\ p.index <= Len(view[doc])
             /\ y = InsertAt(view[doc], p.index + 1, p.char)
          \/ /\ p.type = "Remove" /\ p.index < Len(view[doc])
             /\ y = RemoveAt(view[doc], p.index + 1)
      BY <2>6, <3>1 DEF Fits
    <3> HIDE DEF view
    <3> QED
      BY <2>2, <2>4, <3>1, <3>2
  <2> QED
    BY <2>1, <2>5, <2>6
<1> QED
  BY <1>1, <1>2, <1>3 DEF Sees

\* An edit that fits a line is one that its owner may make.
LEMMA FittingInsert ==
    ASSUME NEW a \in Client, NEW row \in Line, NEW line \in Nat, NEW index \in Nat,
           index <= Len(row), NEW char \in Char, NEW p, p = Edit(a, "Insert", line, index, char),
           NEW r, r = InsertAt(row, index + 1, char)
    PROVE  r \in Line /\ << p, row, r >> \in Fits(a) /\ Len(r) = Len(row) + 1
<1>1. /\ p \in EditPacket /\ p.type = "Insert" /\ p.index = index /\ p.char = char
      /\ EditOf(p, a) /\ row \in Seq(Char) /\ index + 1 \in 1 .. Len(row) + 1
      /\ index <= Len(row)
  <2>1. row \in Seq(Char)
    BY DEF Line
  <2>2. Len(row) \in Nat
    BY <2>1
  <2> QED
    BY <2>1, <2>2 DEF Edit, EditPacket, EditOf, IsEdit
<1>2. r \in Seq(Char) /\ Len(r) = Len(row) + 1
  <2> DEFINE i == index + 1
  <2>1. i \in 1 .. Len(row) + 1
    BY <1>1
  <2> HIDE DEF i
  <2>2. InsertAt(row, i, char) \in Seq(Char) /\ Len(InsertAt(row, i, char)) = Len(row) + 1
    BY ONLY <1>1, <2>1, char \in Char, Inserted
  <2> QED
    BY <2>2 DEF i
<1>3. << p, row, r >> \in Fits(a)
  BY <1>1, <1>2 DEF Fits, Line, Packet, ToServer
<1> QED
  BY <1>2, <1>3 DEF Line

LEMMA FittingRemove ==
    ASSUME NEW a \in Client, NEW row \in Line, NEW line \in Nat, NEW index \in Nat,
           index < Len(row), NEW p, p = Edit(a, "Remove", line, index, Enter)
    PROVE  \E r \in Line : << p, row, r >> \in Fits(a) /\ Len(r) = Len(row) - 1
<1>1. /\ p \in EditPacket /\ p.type = "Remove" /\ p.index = index
      /\ EditOf(p, a) /\ row \in Seq(Char) /\ index + 1 \in 1 .. Len(row)
  <2>1. row \in Seq(Char)
    BY DEF Line
  <2>2. Len(row) \in Nat
    BY <2>1
  <2> QED
    BY <2>1, <2>2 DEF Edit, EditPacket, EditOf, IsEdit
<1> DEFINE r == RemoveAt(row, index + 1)
<1>2. r \in Seq(Char) /\ Len(r) = Len(row) - 1
  BY ONLY <1>1, Removed
<1>3. << p, row, r >> \in Fits(a)
  BY <1>1, <1>2 DEF Fits, Line, Packet, ToServer
<1> QED
  BY <1>2, <1>3 DEF Line

LEMMA FittingOther ==
    ASSUME NEW a, NEW p \in Packet, ~ EditOf(p, a)
    PROVE  Neutral(Line, Fits(a), p)
<1>1. \A x, y \in Line : << p, x, y >> \in Fits(a) <=> y = x
  BY DEF Fits
<1> QED
  BY <1>1 DEF Neutral

LEMMA EditInLine ==
    ASSUME NEW own, NEW U, NEW a \in Editors, own[a] \in Nat, NEW type \in {"Insert", "Remove"},
           NEW index \in Nat, NEW char \in Char \cup {Enter}, type = "Insert" => char \in Char
    PROVE  /\ Edit(a, type, own[a], index, char) \in ToServer
           /\ Edit(a, type, own[a], index, char) \in InLine(own, U)[a]
<1> DEFINE p == Edit(a, type, own[a], index, char)
<1>1. a \in Client
  BY DEF Editors
<1>2. /\ p \in EditPacket /\ p.from = a /\ p.type = type /\ p.line = own[a] /\ p.index = index
      /\ p.char = char
  BY <1>1 DEF Edit, EditPacket
<1>3. p \in ToServer /\ p \in Packet
  BY <1>2 DEF ToServer, Packet
<1>4. p.type \notin {"ReadFromDisk", "ReadConfirmed", "GetFull", "FullContent"}
  BY <1>2
<1> HIDE DEF p
<1>5. p \in InLine(own, U)[a]
  BY <1>1, <1>2, <1>3, <1>4, LinePackets
<1> QED
  BY <1>3, <1>5 DEF p

\* The line of a user who edits, between two keys.
LEMMA LineWidthOwn ==
    ASSUME NEW own, OwnLine(own), NEW a \in Editors, local[a] \in SameLines(own)
    PROVE  /\ LineOf(own[a])[local[a]] \in Line
           /\ LineOf(own[a])[local[a]] = local[a][own[a] + 1]
           /\ Width(a, own[a]) = {Len(LineOf(own[a])[local[a]])}
           /\ own[a] \in Nat /\ a \in Client
<1>1. a \in Client /\ own[a] \in Nat
  BY DEF Editors, OwnLine
<1>2. local[a] \in Doc /\ HasLine(local[a], own[a])
  BY <1>1 DEF SameLines, OwnLine, HasLine
<1>3. LineOf(own[a])[local[a]] = local[a][own[a] + 1]
  BY <1>2 DEF LineOf
<1>4. local[a][own[a] + 1] \in Line
  BY <1>1, <1>2 DEF Doc, HasLine
<1> QED
  BY <1>1, <1>2, <1>3, <1>4 DEF Width, LineWidth

LEMMA LineCursor ==
    ASSUME Inv, NEW own, OwnLine(own), NEW a \in Editors, local[a] \in SameLines(own),
           client[a] = "up", Room(own, a), pending[a] = << >>, cursor[a].line = own[a],
           NEW row, row = LineOf(own[a])[local[a]], NEW L, L = Len(row)
    PROVE  /\ row \in Line /\ L \in Nat /\ a \in Client /\ own[a] \in Nat
           /\ cursor[a].index \in Nat /\ cursor[a].index <= L
<1>1. row \in Line /\ own[a] \in Nat /\ a \in Client
  BY LineWidthOwn
<1>2. PICK r \in Line : Leads(Line, Fits(a), << >>, row, r) /\ cursor[a].index <= Len(r)
  BY DEF Room
<1>3. r = row
  BY ONLY <1>1, <1>2, LeadsEmpty
<1>4. L \in Nat
  BY <1>1 DEF Line
<1>5. cursor[a] \in Position
  BY <1>1, MoreTypes
<1>6. cursor[a].index \in Nat
  BY <1>5 DEF Position
<1> QED
  BY <1>1, <1>2, <1>3, <1>4, <1>6

\* After a key that leaves packets to be sent and makes the line row of it.
LEMMA Kept ==
    ASSUME NEW own, NEW a, UNCHANGED local, NEW row \in Line,
           Leads(Line, Fits(a), pending'[a], LineOf(own[a])[local[a]], row),
           cursor'[a].line = own[a] => cursor'[a].index <= Len(row)
    PROVE  Room(own, a)'
BY DEF Room

\* One packet is left.
LEMMA KeptOne ==
    ASSUME Inv, NEW own, NEW U, NEW a \in Client, UNCHANGED local,
           NEW p, Then(a, << p >>), p \in ToServer, p \in InLine(own, U)[a],
           NEW x \in Line, x = LineOf(own[a])[local[a]],
           NEW r \in Line, << p, x, r >> \in Fits(a),
           cursor'[a].line = own[a] => cursor'[a].index <= Len(r)
    PROVE  Room(own, a)' /\ pending'[a] \in Seq(InLine(own, U)[a])
<1>1. pending'[a] = << p >>
  BY Types DEF Then
<1>2. Leads(Line, Fits(a), << p >>, x, r)
  BY ONLY x \in Line, r \in Line, << p, x, r >> \in Fits(a), LeadsOne
<1>3. Leads(Line, Fits(a), pending'[a], LineOf(own[a])[local[a]], r)
  BY <1>1, <1>2
<1>4. << p >> \in Seq(InLine(own, U)[a])
  <2> DEFINE S == InLine(own, U)[a]
  <2>1. p \in S
    OBVIOUS
  <2> HIDE DEF S
  <2>2. << p >> \in Seq(S)
    BY ONLY <2>1
  <2> QED
    BY <2>2 DEF S
<1> QED
  BY <1>1, <1>3, <1>4, Kept

LEMMA Pressed ==
    ASSUME NEW a, NEW kind, Press(a, kind)
    PROVE  UNCHANGED local /\ kind \in Keys[a] /\ client[a] \in {"up", "local"}
           /\ pending[a] = << >>
BY DEF Press

LEMMA LeastOf ==
    ASSUME NEW i \in Nat, NEW j \in Nat
    PROVE  Least(i, j) \in Nat /\ Least(i, j) <= i
BY DEF Least

\* The line before a key of its owner.
LEMMA BeforeKey ==
    ASSUME Inv, NEW own, OwnLine(own), NEW a \in Editors, local[a] \in SameLines(own),
           client[a] = "up", Room(own, a), pending[a] = << >>, cursor[a].line = own[a],
           NEW row, row = LineOf(own[a])[local[a]], NEW L, L = Len(row),
           NEW l, l = own[a], NEW i, i = cursor[a].index
    PROVE  /\ row \in Line /\ row = local[a][l + 1] /\ L \in Nat /\ a \in Client
           /\ l \in Nat /\ i \in Nat /\ i <= L
<1>1. row \in Line /\ L \in Nat /\ a \in Client /\ own[a] \in Nat
      /\ cursor[a].index \in Nat /\ cursor[a].index <= L
  BY LineCursor
<1>2. row = local[a][own[a] + 1]
  BY LineWidthOwn
<1> QED
  BY <1>1, <1>2

LEMMA CharKept ==
    ASSUME Inv, NEW own, NEW U, OwnLine(own), NEW a \in Editors, local[a] \in SameLines(own),
           client[a] = "up", Room(own, a), pending[a] = << >>, cursor[a].line = own[a],
           PressChar(a)
    PROVE  Room(own, a)' /\ pending'[a] \in Seq(InLine(own, U)[a])
<1> DEFINE row == LineOf(own[a])[local[a]]
           L == Len(row)
           l == own[a]
           i == cursor[a].index
<1>1. /\ row \in Line /\ L \in Nat /\ a \in Client /\ l \in Nat /\ i \in Nat /\ i <= L
      /\ Width(a, l) = {L}
  <2>1. row = LineOf(own[a])[local[a]] /\ L = Len(row) /\ l = own[a] /\ i = cursor[a].index
    OBVIOUS
  <2>2. Width(a, l) = {L}
    BY LineWidthOwn
  <2> HIDE DEF row, L, l, i
  <2>3. row \in Line /\ row = local[a][l + 1] /\ L \in Nat /\ a \in Client /\ l \in Nat
        /\ i \in Nat /\ i <= L
    BY <2>1, BeforeKey
  <2> QED
    BY <2>2, <2>3
<1>2. PICK char \in Char, w \in InsertedWidth(a, Blank, 1) :
         /\ Then(a, << Edit(a, "Insert", l, i, char) >>)
         /\ CursorTo(a, l, Least(i + 1, w))
  BY DEF PressChar
<1> DEFINE p == Edit(a, "Insert", l, i, char)
           r == InsertAt(row, i + 1, char)
<1>3. UNCHANGED local
  BY Pressed DEF PressChar
<1>4. w = L \/ w = L + 1
  <2>1. cursor[a].line = l /\ Width(a, l) = {L}
    BY <1>1
  <2> HIDE DEF L, l
  <2> QED
    BY ONLY <2>1, w \in InsertedWidth(a, Blank, 1), InsertedWidths
<1>5. p \in ToServer /\ p \in InLine(own, U)[a]
  BY <1>1, EditInLine
<1>6. cursor'[a].index = Least(i + 1, w)
  BY <1>1, <1>2, Placed
<1>7. p = Edit(a, "Insert", l, i, char) /\ r = InsertAt(row, i + 1, char) /\ L = Len(row)
      /\ row = LineOf(own[a])[local[a]]
  OBVIOUS
<1> HIDE DEF row, L, l, i, p, r
<1>8. r \in Line /\ << p, row, r >> \in Fits(a) /\ Len(r) = Len(row) + 1
  BY ONLY <1>1, <1>7, char \in Char, FittingInsert
<1>9. cursor'[a].index <= Len(r)
  <2>0. i + 1 \in Nat /\ w \in Nat
    BY ONLY <1>1, <1>4
  <2>1. Least(i + 1, w) <= i + 1 /\ Least(i + 1, w) \in Nat
    BY ONLY <2>0, LeastOf
  <2>2. Len(r) = L + 1
    BY <1>7, <1>8
  <2> QED
    BY ONLY <1>1, <1>6, <2>1, <2>2
<1>10. Then(a, << p >>)
  BY <1>2, <1>7
<1> QED
  BY <1>1, <1>3, <1>5, <1>7, <1>8, <1>9, <1>10, KeptOne

LEMMA BlankChain ==
    ASSUME NEW a \in Client, NEW row \in Line, NEW line \in Nat, NEW i \in Nat, i <= Len(row),
           NEW p, p = Edit(a, "Insert", line, i, Blank), NEW n \in Nat
    PROVE  \E r \in Line : /\ Leads(Line, Fits(a), [j \in 1 .. n |-> p], row, r)
                           /\ Len(r) = Len(row) + n
<1> DEFINE L == Len(row)
           Q == { m \in Nat : \E r \in Line : /\ Leads(Line, Fits(a), [j \in 1 .. m |-> p], row, r)
                                              /\ Len(r) = L + m }
<1>0. L \in Nat /\ i \in Nat /\ i <= L /\ Blank \in Char /\ p \in ToServer
  <2>1. L \in Nat
    BY DEF Line
  <2>2. i \in Nat /\ Blank \in Char
    BY <2>1, SessionAssumption
  <2>3. p \in EditPacket
    BY <2>2 DEF Edit, EditPacket
  <2> QED
    BY <2>1, <2>2, <2>3 DEF ToServer
<1>1. 0 \in Q
  <2>1. [j \in 1 .. 0 |-> p] = << >>
    OBVIOUS
  <2>2. Leads(Line, Fits(a), << >>, row, row)
    BY LeadsEmpty
  <2> QED
    BY <1>0, <2>1, <2>2
<1>2. ASSUME NEW m \in Nat, m \in Q PROVE m + 1 \in Q
  <2> DEFINE s == [j \in 1 .. m |-> p]
             t == [j \in 1 .. m + 1 |-> p]
  <2>1. PICK r \in Line : Leads(Line, Fits(a), s, row, r) /\ Len(r) = L + m
    BY <1>2
  <2>2. i \in Nat /\ i <= Len(r)
    BY <1>0, <2>1
  <2>3. PICK e \in Line : << p, r, e >> \in Fits(a) /\ Len(e) = Len(r) + 1
    <3> DEFINE e == InsertAt(r, i + 1, Blank)
    <3>1. Blank \in Char /\ e = InsertAt(r, i + 1, Blank)
      BY <1>0
    <3> HIDE DEF s, t, e
    <3>2. e \in Line /\ << p, r, e >> \in Fits(a) /\ Len(e) = Len(r) + 1
      BY ONLY <3>1, <2>2, r \in Line, line \in Nat, a \in Client,
              p = Edit(a, "Insert", line, i, Blank), FittingInsert
    <3> QED
      BY <3>2
  <2>4. s \in Seq(ToServer) /\ Append(s, p) = t
    <3>1. s \in Seq(ToServer) /\ t \in Seq(ToServer) /\ Len(s) = m /\ Len(t) = m + 1
      BY <1>0
    <3>2. Append(s, p) \in Seq(ToServer) /\ Len(Append(s, p)) = m + 1
          /\ \A j \in 1 .. m + 1 : Append(s, p)[j] = t[j]
      BY <1>0, <3>1
    <3> HIDE DEF s, t
    <3> QED
      BY <3>1, <3>2, SeqEqual
  <2> HIDE DEF s, t
  <2>5. Leads(Line, Fits(a), Append(s, p), row, e) <=>
           \E k \in Line : Leads(Line, Fits(a), s, row, k) /\ << p, k, e >> \in Fits(a)
    BY ONLY <1>0, <2>3, <2>4, LeadsAppend
  <2>6. Leads(Line, Fits(a), t, row, e)
    BY <2>1, <2>3, <2>4, <2>5
  <2> HIDE DEF L
  <2>7. Len(e) = L + (m + 1)
    BY <1>0, <2>1, <2>3
  <2> QED
    BY <2>3, <2>6, <2>7 DEF t
<1> HIDE DEF Q
<1>3. n \in Q
  BY <1>1, <1>2, Induct
<1> QED
  BY <1>3 DEF Q

LEMMA TabKept ==
    ASSUME Inv, NEW own, NEW U, OwnLine(own), NEW a \in Editors, local[a] \in SameLines(own),
           client[a] = "up", Room(own, a), pending[a] = << >>, cursor[a].line = own[a],
           PressTab(a)
    PROVE  Room(own, a)' /\ pending'[a] \in Seq(InLine(own, U)[a])
<1> DEFINE row == LineOf(own[a])[local[a]]
           L == Len(row)
           l == own[a]
           i == cursor[a].index
<1>1. /\ row \in Line /\ L \in Nat /\ a \in Client /\ l \in Nat /\ i \in Nat /\ i <= L
      /\ Width(a, l) = {L}
  <2>1. row = LineOf(own[a])[local[a]] /\ L = Len(row) /\ l = own[a] /\ i = cursor[a].index
    OBVIOUS
  <2>2. Width(a, l) = {L}
    BY LineWidthOwn
  <2> HIDE DEF row, L, l, i
  <2>3. row \in Line /\ row = local[a][l + 1] /\ L \in Nat /\ a \in Client /\ l \in Nat
        /\ i \in Nat /\ i <= L
    BY <2>1, BeforeKey
  <2> QED
    BY <2>2, <2>3
<1> DEFINE p == Edit(a, "Insert", l, i, Blank)
<1>2. PICK w \in InsertedWidth(a, Blank, TabWidth) : CursorTo(a, l, Least(i + TabWidth, w))
  BY DEF PressTab
<1>3. UNCHANGED local
  BY Pressed DEF PressTab
<1>4. pending'[a] = [j \in 1 .. TabWidth |-> p] /\ TabWidth \in Nat /\ Blank \in Char
  BY <1>1, Types, SessionAssumption DEF PressTab, Then
<1>5. cursor'[a].index = Least(i + TabWidth, w)
  BY <1>1, <1>2, Placed
<1>6. w = L \/ w = L + TabWidth
  <2>1. cursor[a].line = l /\ Width(a, l) = {L}
    BY <1>1
  <2> HIDE DEF L, l
  <2> QED
    BY ONLY <2>1, w \in InsertedWidth(a, Blank, TabWidth), InsertedWidths
<1>7. p \in InLine(own, U)[a]
  BY <1>1, <1>4, EditInLine
<1>8. p = Edit(a, "Insert", l, i, Blank) /\ L = Len(row) /\ row = LineOf(own[a])[local[a]]
  OBVIOUS
<1> HIDE DEF row, L, l, i, p
<1>9. PICK r \in Line : /\ Leads(Line, Fits(a), [j \in 1 .. TabWidth |-> p], row, r)
                        /\ Len(r) = Len(row) + TabWidth
  BY ONLY <1>1, <1>4, <1>8, BlankChain
<1>10. cursor'[a].index <= Len(r)
  <2>1. i + TabWidth \in Nat /\ w \in Nat
    BY ONLY <1>1, <1>4, <1>6
  <2>2. Least(i + TabWidth, w) <= i + TabWidth /\ Least(i + TabWidth, w) \in Nat
    BY ONLY <2>1, LeastOf
  <2>3. Len(r) = L + TabWidth
    BY <1>8, <1>9
  <2> QED
    BY ONLY <1>1, <1>4, <1>5, <2>2, <2>3
<1>11. pending'[a] \in Seq(InLine(own, U)[a])
  BY ONLY <1>4, <1>7
<1>12. Leads(Line, Fits(a), pending'[a], LineOf(own[a])[local[a]], r)
  BY <1>4, <1>8, <1>9
<1> QED
  BY <1>3, <1>10, <1>11, <1>12, Kept

\* A key that removes the character at index i, and leaves the cursor there.
LEMMA RemoveKept ==
    ASSUME Inv, NEW own, NEW U, OwnLine(own), NEW a \in Editors, UNCHANGED local,
           NEW row \in Line, row = LineOf(own[a])[local[a]],
           NEW i \in Nat, i < Len(row), Len(row) \in Nat,
           Then(a, << Edit(a, "Remove", own[a], i, Enter) >>), cursor'[a].index = i
    PROVE  Room(own, a)' /\ pending'[a] \in Seq(InLine(own, U)[a])
<1> DEFINE l == own[a]
           p == Edit(a, "Remove", l, i, Enter)
<1>1. a \in Client /\ l \in Nat
  BY DEF Editors, OwnLine
<1>2. p \in ToServer /\ p \in InLine(own, U)[a]
  BY <1>1, EditInLine
<1>3. p = Edit(a, "Remove", l, i, Enter) /\ Then(a, << p >>)
  OBVIOUS
<1> HIDE DEF l, p
<1>4. PICK r \in Line : << p, row, r >> \in Fits(a) /\ Len(r) = Len(row) - 1
  BY ONLY <1>1, <1>3, row \in Line, i \in Nat, i < Len(row), FittingRemove
<1>5. cursor'[a].index <= Len(r)
  BY ONLY <1>4, i \in Nat, i < Len(row), Len(row) \in Nat, cursor'[a].index = i
<1> QED
  BY <1>1, <1>2, <1>3, <1>4, <1>5, KeptOne

LEMMA DeleteKept ==
    ASSUME Inv, NEW own, NEW U, OwnLine(own), NEW a \in Editors, local[a] \in SameLines(own),
           client[a] = "up", Room(own, a), pending[a] = << >>, cursor[a].line = own[a],
           PressDelete(a), cursor[a].index < Len(local[a][own[a] + 1])
    PROVE  Room(own, a)' /\ pending'[a] \in Seq(InLine(own, U)[a])
<1> DEFINE row == LineOf(own[a])[local[a]]
           L == Len(row)
           l == own[a]
           i == cursor[a].index
<1>1. /\ row \in Line /\ L \in Nat /\ a \in Client /\ l \in Nat /\ i \in Nat /\ i <= L
      /\ Width(a, l) = {L} /\ row = local[a][l + 1]
  <2>1. row = LineOf(own[a])[local[a]] /\ L = Len(row) /\ l = own[a] /\ i = cursor[a].index
    OBVIOUS
  <2>2. Width(a, l) = {L}
    BY LineWidthOwn
  <2> HIDE DEF row, L, l, i
  <2>3. row \in Line /\ row = local[a][l + 1] /\ L \in Nat /\ a \in Client /\ l \in Nat
        /\ i \in Nat /\ i <= L
    BY <2>1, BeforeKey
  <2> QED
    BY <2>2, <2>3
<1>2. UNCHANGED << local, cursor >>
  BY Pressed DEF PressDelete
<1>3. i < L
  BY <1>1
<1>4. \E w \in Width(a, l) :
         \/ /\ i < w
            /\ Then(a, << Edit(a, "Remove", l, i, Enter) >>)
         \/ i >= w
  BY DEF PressDelete
<1> HIDE DEF row, L, l, i
<1>5. Then(a, << Edit(a, "Remove", l, i, Enter) >>)
  BY ONLY <1>1, <1>3, <1>4
<1> QED
  BY <1>1, <1>2, <1>3, <1>5, RemoveKept DEF row, L, l, i

LEMMA BackspaceKept ==
    ASSUME Inv, NEW own, NEW U, OwnLine(own), NEW a \in Editors, local[a] \in SameLines(own),
           client[a] = "up", Room(own, a), pending[a] = << >>, cursor[a].line = own[a],
           PressBackspace(a), cursor[a].index > 0
    PROVE  Room(own, a)' /\ pending'[a] \in Seq(InLine(own, U)[a])
<1> DEFINE row == LineOf(own[a])[local[a]]
           L == Len(row)
           l == own[a]
           i == cursor[a].index
<1>1. /\ row \in Line /\ L \in Nat /\ a \in Client /\ l \in Nat /\ i \in Nat /\ i <= L
      /\ Width(a, l) = {L}
  <2>1. row = LineOf(own[a])[local[a]] /\ L = Len(row) /\ l = own[a] /\ i = cursor[a].index
    OBVIOUS
  <2>2. Width(a, l) = {L}
    BY LineWidthOwn
  <2> HIDE DEF row, L, l, i
  <2>3. row \in Line /\ row = local[a][l + 1] /\ L \in Nat /\ a \in Client /\ l \in Nat
        /\ i \in Nat /\ i <= L
    BY <2>1, BeforeKey
  <2> QED
    BY <2>2, <2>3
<1>2. UNCHANGED local
  BY Pressed DEF PressBackspace
<1>3. \E w \in Width(a, l) : /\ Then(a, << Edit(a, "Remove", l, Least(i - 1, w), Enter) >>)
                             /\ CursorTo(a, l, Least(i - 1, w))
  BY <1>1 DEF PressBackspace
<1>4. i > 0
  OBVIOUS
<1> DEFINE k == i - 1
<1> HIDE DEF row, L, l, i
<1>5. k \in Nat /\ k < L /\ Least(k, L) = k
  BY ONLY <1>1, <1>4 DEF Least
<1>6. Then(a, << Edit(a, "Remove", l, k, Enter) >>) /\ CursorTo(a, l, k)
  BY <1>1, <1>3, <1>5
<1>7. cursor'[a].index = k
  BY <1>1, <1>6, Placed
<1> HIDE DEF k
<1> QED
  BY <1>1, <1>2, <1>5, <1>6, <1>7, RemoveKept DEF row, L, l

\* A key of anybody that does not edit.
LEMMA CommandSent ==
    ASSUME Inv, NEW own, NEW U, OwnLine(own), NEW c \in Client, AsksIn(InLine(own, U)),
           PressCommand(c) \/ PressSync(c)
    PROVE  \E p \in ToServer : /\ Then(c, << p >>) /\ ~ IsEdit(p)
                               /\ p \in InLine(own, U)[c] /\ pending'[c] \in Seq(InLine(own, U)[c])
<1>1. "Read" \notin Keys[c]
  BY DEF OwnLine
<1>2. PICK p : /\ Then(c, << p >>)
               /\ \/ \E f \in File : p = [type |-> "WriteToDisk", file |-> f]
                  \/ p = [type |-> "GetClientCount"]
                  \/ p = GetFull /\ PressSync(c)
  BY <1>1 DEF PressCommand, PressSync, Press
<1>3. p \in ToServer /\ ~ IsEdit(p) /\ p.type \in {"WriteToDisk", "GetClientCount", "GetFull"}
  BY <1>2 DEF ToServer, FileRequest, Request, IsEdit, GetFull
<1>4. p \in InLine(own, U)[c]
  <2>1. CASE p = GetFull /\ PressSync(c)
    BY <2>1 DEF AsksIn, Asks
  <2>2. CASE p.type \in {"WriteToDisk", "GetClientCount"}
    BY <1>3, <2>2, LinePackets DEF Packet
  <2> QED
    BY <1>2, <2>1, <2>2
<1>5. pending'[c] = << p >>
  BY <1>2, Types DEF Then
<1>6. pending'[c] \in Seq(InLine(own, U)[c])
  <2> DEFINE S == InLine(own, U)[c]
  <2>1. p \in S
    BY <1>4
  <2> HIDE DEF S
  <2>2. << p >> \in Seq(S)
    BY ONLY <2>1
  <2> QED
    BY <1>5, <2>2 DEF S
<1> QED
  BY <1>2, <1>3, <1>4, <1>6

LEMMA CommandKept ==
    ASSUME Inv, NEW own, NEW U, OwnLine(own), AsksIn(InLine(own, U)), NEW a \in Editors,
           local[a] \in SameLines(own), client[a] = "up", Room(own, a), pending[a] = << >>,
           PressCommand(a) \/ PressSync(a)
    PROVE  Room(own, a)'
<1> DEFINE x == LineOf(own[a])[local[a]]
<1>1. x \in Line /\ a \in Client
  BY LineWidthOwn
<1>2. UNCHANGED << local, cursor >>
  BY Pressed DEF PressCommand, PressSync
<1>3. PICK p \in ToServer : Then(a, << p >>) /\ ~ IsEdit(p) /\ p \in InLine(own, U)[a]
  BY <1>1, CommandSent
<1>4. PICK row \in Line : /\ Leads(Line, Fits(a), << >>, x, row)
                          /\ cursor[a].line = own[a] => cursor[a].index <= Len(row)
  BY DEF Room
<1>5. x = LineOf(own[a])[local[a]]
  OBVIOUS
<1> HIDE DEF x
<1>6. row = x
  BY ONLY <1>1, <1>4, LeadsEmpty
<1>7. << p, x, x >> \in Fits(a)
  BY <1>1, <1>3, FittingOther DEF Neutral, EditOf, Packet
<1>8. cursor'[a].line = own[a] => cursor'[a].index <= Len(x)
  BY <1>2, <1>4, <1>6
<1> QED
  BY <1>1, <1>2, <1>3, <1>5, <1>7, <1>8, KeptOne

\* What is sent of a key is what was left to send.
LEMMA SentFits ==
    ASSUME Inv, NEW own, NEW U, OwnLine(own), Traffic(InLine(own, U)),
           NEW a \in Editors, local[a] \in SameLines(own), client[a] = "up",
           Room(own, a), SendEdit(a)
    PROVE  /\ << Renumbered(Head(pending[a]), issued[a] + 1), LineOf(own[a])[local[a]],
                 LineOf(own[a])[local'[a]] >> \in Fits(a)
           /\ Room(own, a)'
<1> DEFINE P == InLine(own, U)
           D == SameLines(own)
           view == LineOf(own[a])
           R == Fits(a)
           q == Head(pending[a])
           p == Renumbered(q, issued[a] + 1)
<1>0. a \in Client /\ Permits(P, D)
  BY LinePermits DEF Editors
<1>1. /\ pending[a] # << >> /\ q \in EditPacket /\ IsEdit(q) /\ p \in EditPacket /\ IsEdit(p)
      /\ p.from = a /\ local'[a] \in After(local[a], p)
      /\ p.type = q.type /\ p.line = q.line /\ p.index = q.index /\ p.char = q.char
  BY <1>0, SentEdit
<1>2. local[a] \in D /\ pending[a] \in Seq(ToServer)
  BY <1>0, Types
<1>3. pending'[a] = Tail(pending[a]) /\ UNCHANGED cursor
  BY <1>0, Types DEF SendEdit
<1>4. PICK row \in Line :
         /\ Leads(Line, R, pending[a], view[local[a]], row)
         /\ cursor[a].line = own[a] => cursor[a].index <= Len(row)
  BY DEF Room
<1>5. Sees(P, D, Line, view, R, a)
  BY LineSees
<1>6. issued[a] + 1 \in Nat
  <2>1. issued[a] \in Nat
    BY <1>0, Types
  <2> QED
    BY ONLY <2>1
<1>7. p \in P[a]
  <2>1. q \in P[a]
    BY <1>0, <1>1, Heads
  <2> HIDE DEF P, D
  <2> QED
    BY <1>0, <1>1, <1>6, <2>1, Permitted DEF P
<1>8. EditOf(q, a) /\ EditOf(p, a) /\ q \in Packet /\ p \in Packet
  <2>1. q.from = p.from
    BY <1>1 DEF Renumbered, EditPacket
  <2> QED
    BY <1>1, <2>1 DEF EditOf, Packet, ToServer
<1> HIDE DEF P, D, view, R, p, q
<1>9. view[local[a]] \in Line
      /\ view[local'[a]] \in Line
      /\ \A y \in Line : << p, view[local[a]], y >> \in R => y = view[local'[a]]
  BY ONLY <1>0, <1>1, <1>2, <1>5, <1>7, SeesEdit
<1>10. PICK m \in Line : << q, view[local[a]], m >> \in R
                         /\ Leads(Line, R, Tail(pending[a]), m, row)
  BY <1>1, <1>2, <1>4, <1>9, LeadsHead DEF q
<1>11. << p, view[local[a]], m >> \in R
  BY <1>1, <1>8, <1>9, <1>10 DEF R, Fits
<1>12. m = view[local'[a]]
  BY <1>9, <1>11
<1>13. Room(own, a)'
  <2>1. Leads(Line, Fits(a), pending'[a], LineOf(own[a])[local'[a]], row)
    BY <1>3, <1>10, <1>12 DEF view, R
  <2> QED
    BY <1>3, <1>4, <2>1 DEF Room
<1> QED
  BY <1>11, <1>12, <1>13 DEF p, q, view, R

LEMMA RoomMove ==
    ASSUME Inv, NEW own, OwnLine(own), NEW a \in Editors, local[a] \in SameLines(own),
           MoveCursor(a)
    PROVE  Room(own, a)'
<1> DEFINE row == LineOf(own[a])[local[a]]
<1>1. a \in Client /\ pending'[a] = << >> /\ UNCHANGED local
  BY DEF MoveCursor, Editors
<1>2. row \in Line /\ row = local[a][own[a] + 1]
  BY LineWidthOwn
<1>3. PICK p \in Reach[a] : cursor'[a] = p /\ OnText(local[a], p)
  BY <1>1, MoreTypes DEF MoveCursor
<1>4. cursor'[a].line = own[a] => cursor'[a].index <= Len(row)
  BY <1>2, <1>3 DEF OnText
<1>5. Leads(Line, Fits(a), << >>, row, row)
  BY <1>2, LeadsEmpty
<1> QED
  BY <1>1, <1>2, <1>4, <1>5, Kept

\* A key of a user keeps to the line, and what it sends may be sent.
LEMMA KeyKept ==
    ASSUME Inv, NEW own, NEW U, OwnLine(own), AsksIn(InLine(own, U)), NEW a \in Editors,
           local[a] \in SameLines(own), client[a] = "up", Room(own, a), Strikes(a),
           KeepsLine(own, a)
    PROVE  Room(own, a)' /\ pending'[a] \in Seq(InLine(own, U)[a])
<1>1. pending[a] = << >> /\ a \in Client
  BY DEF Strikes, PressChar, PressTab, PressEnter, PressBackspace, PressDelete, PressCommand,
     PressSync, Press, Editors
<1>2. CASE PressChar(a)
  BY <1>1, <1>2, CharKept DEF KeepsLine
<1>3. CASE PressTab(a)
  BY <1>1, <1>3, TabKept DEF KeepsLine
<1>4. CASE PressDelete(a)
  BY <1>1, <1>4, DeleteKept DEF KeepsLine
<1>5. CASE PressBackspace(a)
  BY <1>1, <1>5, BackspaceKept DEF KeepsLine
<1>6. CASE PressCommand(a) \/ PressSync(a)
  BY <1>1, <1>6, CommandKept, CommandSent
<1> QED
  BY <1>2, <1>3, <1>4, <1>5, <1>6 DEF Strikes, KeepsLine

LEMMA RoomOwnStep ==
    ASSUME Inv, NEW own, NEW U, OwnLine(own), AsksIn(InLine(own, U)), Traffic(InLine(own, U)),
           NEW a \in Editors, client[a] = "up" => local[a] \in SameLines(own),
           server = "up", client[a] # "local", ~ Connect(a), KeepsLine(own, a),
           Overwrite(a) => LineOf(own[a])[local'[a]] = LineOf(own[a])[local[a]],
           Room(own, a), ClientStep(a) \/ UserStep(a)
    PROVE  Room(own, a)'
<1>a. a \in Client /\ Permits(InLine(own, U), SameLines(own))
  BY LinePermits DEF Editors
<1> SUFFICES ASSUME client'[a] = "up" PROVE Room(own, a)'
  BY DEF Room
<1>0. client[a] = "up" /\ local[a] \in SameLines(own)
  BY <1>a, LocalOwnStep
<1>b. ASSUME UNCHANGED << pending[a], cursor[a] >>,
             LineOf(own[a])[local'[a]] = LineOf(own[a])[local[a]]
      PROVE  Room(own, a)'
  BY <1>0, <1>b DEF Room
<1>1. CASE SendEdit(a)
  BY <1>0, <1>1, SentFits
<1>2. CASE SendRequest(a)
  <2> DEFINE p == Head(pending[a])
             x == LineOf(own[a])[local[a]]
  <2>1. /\ pending[a] # << >> /\ ~ IsEdit(p) /\ UNCHANGED << local, cursor >>
        /\ pending'[a] = Tail(pending[a]) /\ pending[a] \in Seq(ToServer)
    BY <1>a, <1>2, Types DEF SendRequest
  <2>2. p \in ToServer
    BY ONLY <2>1, Queued
  <2>3. Neutral(Line, Fits(a), p)
    BY <2>1, <2>2, FittingOther DEF EditOf, Packet
  <2>4. x \in Line
    BY <1>0, LineWidthOwn
  <2>5. PICK row \in Line : /\ Leads(Line, Fits(a), pending[a], x, row)
                            /\ cursor[a].line = own[a] => cursor[a].index <= Len(row)
    BY <1>0 DEF Room
  <2> HIDE DEF x
  <2>6. Leads(Line, Fits(a), Tail(pending[a]), x, row)
            <=> Leads(Line, Fits(a), pending[a], x, row)
    BY ONLY <2>1, <2>3, <2>4, LeadsTailNeutral
  <2>7. Leads(Line, Fits(a), pending'[a], LineOf(own[a])[local'[a]], row)
    BY <2>1, <2>5, <2>6 DEF x
  <2> QED
    BY <2>1, <2>5, <2>7 DEF Room
<1>3. CASE HandlerStep(a)
  <2>1. ~ ForcedText(a)
    BY <1>a, TextsIn
  <2>2. UNCHANGED << pending, cursor >>
    BY <1>3, <2>1 DEF HandlerStep, Overwrite, RemoteEdit, IgnoreText, ShowNotice, Handles
  <2>3. CASE RemoteEdit(a)
    <3>1. Head(down[a]) \in InLine(own, U)[a]
      BY <1>a, <2>3, Heads DEF RemoteEdit, Handles
    <3>2. IsEdit(Head(down[a])) /\ Head(down[a]).from # a
          /\ local'[a] \in After(local[a], Head(down[a])) /\ local[a] \in SameLines(own)
      BY <1>0, <1>a, <2>3, HandledEdit
    <3>3. Sees(InLine(own, U), SameLines(own), Line, LineOf(own[a]), Fits(a), a)
      BY LineSees
    <3>4. LineOf(own[a])[local'[a]] = LineOf(own[a])[local[a]]
      BY ONLY <1>a, <3>1, <3>2, <3>3, SeesEdit
    <3> QED
      BY <1>b, <2>2, <3>4
  <2>4. CASE Overwrite(a)
    BY <1>b, <2>2, <2>4
  <2>5. CASE IgnoreText(a) \/ ShowNotice(a)
    <3>1. UNCHANGED local
      BY <2>5 DEF IgnoreText, ShowNotice
    <3> QED
      BY <1>b, <2>2, <3>1
  <2> QED
    BY <1>3, <2>1, <2>3, <2>4, <2>5 DEF HandlerStep
<1>4. CASE LoopStep(a)
  <2>1. UNCHANGED << pending, local, cursor >>
    BY <1>4 DEF LoopStep, ClearFlag, AskForText
  <2> QED
    BY <1>b, <2>1
<1>5. ~ Ends(a) /\ ~ NoticeLoss(a) /\ ~ ContinueLocally(a)
  BY <1>0, <1>a, Types DEF Ends, NoticeLoss, ContinueLocally
<1>6. CASE MoveCursor(a)
  BY <1>0, <1>6, RoomMove
<1>7. CASE Strikes(a)
  BY <1>0, <1>7, KeyKept
<1> QED
  BY <1>1, <1>2, <1>3, <1>4, <1>5, <1>6, <1>7
  DEF ClientStep, KeyboardStep, UserStep, ClientCrash, Quit, Strikes

LEMMA RoomStep ==
    ASSUME Inv, NEW own, NEW U, OwnLine(own), AsksIn(InLine(own, U)), Traffic(InLine(own, U)),
           NEW a \in Editors, client[a] = "up" => local[a] \in SameLines(own),
           server = "up", client[a] # "local", ~ Connect(a), KeepsLine(own, a),
           Overwrite(a) => LineOf(own[a])[local'[a]] = LineOf(own[a])[local[a]],
           Room(own, a), [Next]_vars
    PROVE  Room(own, a)'
<1>0. a \in Client
  BY DEF Editors
<1>1. ASSUME UNCHANGED << client[a], pending[a], local[a], cursor[a] >>
      PROVE  Room(own, a)'
  BY <1>1 DEF Room
<1>2. CASE AcceptorStep \/ UNCHANGED vars
  BY <1>0, <1>1, <1>2, Accepting DEF vars, clientVars
<1>3. ASSUME NEW c \in Client, c # a, ServerStep(c) \/ ClientStep(c) \/ UserStep(c)
      PROVE  Room(own, a)'
  BY <1>0, <1>1, <1>3, Elsewhere DEF Own
<1>4. CASE ServerStep(a)
  <2>1. UNCHANGED clientVars
    BY <1>4 DEF ServerStep, ApplyEdit, CrashOnErase, WriteToDisk, ReadFromDisk, Answer, Reply,
     TakeClock, Forward, ReleaseClock, ListSockets, SerializeText, Broadcast, EndBroadcast,
     Disconnected, Close, SaveOnExit
  <2> QED
    BY <1>1, <2>1 DEF clientVars
<1>5. CASE ClientStep(a) \/ UserStep(a)
  BY <1>5, RoomOwnStep
<1> QED
  BY <1>2, <1>3, <1>4, <1>5 DEF Next

LEMMA LinePending ==
    ASSUME Inv, NEW own, NEW U, OwnLine(own), AsksIn(InLine(own, U)), Traffic(InLine(own, U)),
           NEW c \in Client, client[c] # "local", KeepsLine(own, c),
           c \in Editors => Room(own, c) /\ (client[c] = "up" => local[c] \in SameLines(own)),
           [Next]_vars
    PROVE  pending'[c] \in Seq(InLine(own, U)[c])
<1>1. pending[c] \in Seq(InLine(own, U)[c])
  BY DEF Traffic, Travels
<1>2. CASE Strikes(c)
  <2>1. client[c] = "up"
    BY <1>2 DEF Strikes, PressChar, PressTab, PressEnter, PressBackspace, PressDelete,
       PressCommand, PressSync, Press
  <2>2. CASE c \in Editors
    BY <1>2, <2>1, <2>2, KeyKept
  <2>3. CASE c \notin Editors
    <3>1. PressCommand(c) \/ PressSync(c)
      BY <1>2, <2>3 DEF Strikes, PressChar, PressTab, PressEnter, PressBackspace, PressDelete,
         Press, Editors, EditKeys
    <3> QED
      BY <3>1, CommandSent
  <2> QED
    BY <2>2, <2>3
<1> QED
  BY <1>1, <1>2, PendingStep, Queued

\* While the server lives, nobody notices a loss.
LEMMA CalmOwnStep ==
    ASSUME Inv, NEW c \in Client, ServerStep(c) \/ ClientStep(c) \/ UserStep(c),
           server = "up", client[c] \notin {"lost", "local"}
    PROVE  client'[c] \notin {"lost", "local"}
<1>1. CASE ServerStep(c)
  <2>1. UNCHANGED clientVars
    BY <1>1 DEF ServerStep, ApplyEdit, CrashOnErase, WriteToDisk, ReadFromDisk, Answer, Reply,
     TakeClock, Forward, ReleaseClock, ListSockets, SerializeText, Broadcast, EndBroadcast,
     Disconnected, Close, SaveOnExit
  <2> QED
    BY <2>1 DEF clientVars
<1>2. CASE HandlerStep(c) \/ SendEdit(c) \/ SendRequest(c) \/ LoopStep(c)
  <2>1. UNCHANGED client
    BY <1>2 DEF HandlerStep, ForcedText, Overwrite, IgnoreText, RemoteEdit, ShowNotice, Handles,
     SendEdit, SendRequest, LoopStep, ClearFlag, AskForText
  <2> QED
    BY <2>1
<1>3. CASE Ends(c) \/ Connect(c)
  BY <1>3, Types DEF Ends, Connect
<1>4. ~ NoticeLoss(c) /\ ~ ContinueLocally(c)
  BY DEF NoticeLoss, ContinueLocally
<1>5. CASE \/ PressChar(c) \/ PressTab(c) \/ PressEnter(c) \/ PressBackspace(c)
           \/ PressDelete(c) \/ PressCommand(c) \/ PressSync(c) \/ MoveCursor(c)
  <2>1. UNCHANGED client
    BY <1>5 DEF PressChar, PressTab, PressEnter, PressBackspace, PressDelete, PressCommand,
       PressSync, Press, MoveCursor
  <2> QED
    BY <2>1
<1> QED
  BY <1>1, <1>2, <1>3, <1>4, <1>5
  DEF ClientStep, KeyboardStep, UserStep, ClientCrash, Quit

LEMMA CalmStep ==
    ASSUME Inv, NEW c \in Client, [Next]_vars, server = "up", client[c] \notin {"lost", "local"}
    PROVE  client'[c] \notin {"lost", "local"}
<1>1. CASE AcceptorStep \/ UNCHANGED vars
  BY <1>1, Accepting DEF vars, clientVars
<1>2. ASSUME NEW d \in Client, d # c, ServerStep(d) \/ ClientStep(d) \/ UserStep(d)
      PROVE  client'[c] = client[c]
  BY <1>2, Elsewhere DEF Own
<1>3. CASE ServerStep(c) \/ ClientStep(c) \/ UserStep(c)
  BY <1>3, CalmOwnStep
<1> QED
  BY <1>1, <1>2, <1>3 DEF Next

LEMMA NoCrashInLine ==
    ASSUME Inv, NEW own, NEW U, OwnLine(own), Traffic(InLine(own, U)), text \in SameLines(own),
           \A a \in Editors : Ahead(Line, LineOf(own[a]), Fits(a), a), NEW c \in Client
    PROVE  ~ CrashOnErase(c)
<1> SUFFICES ASSUME CrashOnErase(c) PROVE FALSE
  OBVIOUS
<1> DEFINE p == Head(up[c])
           x == LineOf(own[c])[text]
<1>1. /\ server = "up" /\ up[c] # << >> /\ p.type = "Remove"
      /\ ErasesEnd(text, p.line, p.index) /\ up[c] \in Seq(ToServer)
  BY Types DEF CrashOnErase, Receives
<1>2. p.from = c /\ IsEdit(p) /\ p \in EditPacket
  BY <1>1, NextEdit DEF CrashOnErase, Receives, IsEdit
<1>3. p \in InLine(own, U)[c]
  BY <1>1, LinePermits, Heads
<1>4. c \in Editors /\ p.line = own[c] /\ p.index \in Nat
  BY <1>2, <1>3, LinePackets
<1>5. text \in SameLines(own) /\ own[c] \in Nat
  BY <1>4 DEF OwnLine
<1>6. x = text[own[c] + 1] /\ x \in Line
  <2>1. text \in Doc /\ HasLine(text, own[c])
    BY <1>4, <1>5 DEF SameLines, OwnLine, HasLine
  <2>2. text[own[c] + 1] \in Line
    BY <1>5, <2>1 DEF Doc, HasLine
  <2> QED
    BY <2>1, <2>2 DEF LineOf
<1>7. PICK y \in Line : Leads(Line, Fits(c), up[c], x, y)
  BY <1>1, <1>4 DEF Ahead
<1> HIDE DEF x
<1>8. PICK m \in Line : << p, x, m >> \in Fits(c)
  BY <1>1, <1>6, <1>7, LeadsHead
<1>9. p.index < Len(x)
  BY <1>1, <1>2, <1>8 DEF Fits, EditOf
<1>10. p.index = Len(x)
  BY <1>1, <1>4, <1>6 DEF ErasesEnd
<1>11. Len(x) \in Nat
  BY <1>6 DEF Line
<1> QED
  BY <1>4, <1>9, <1>10, <1>11

LEMMA LinesStep ==
    ASSUME NEW own, NEW U, NEW E \in SUBSET Client, OwnLine(own), Editors \subseteq E,
           Inv, Inv', LinesInv(own, U, E), [Next]_vars, EachKeepsLine(own),
           AsksIn(InLine(own, U)), \A c \in E : ~ Connect(c),
           \A a \in Editors : Overwrite(a) =>
              LineOf(own[a])[local'[a]] = LineOf(own[a])[local[a]]
    PROVE  LinesInv(own, U, E)'
<1> DEFINE P == InLine(own, U)
           D == SameLines(own)
           View(a) == LineOf(own[a])
           R(a) == Fits(a)
<1>1. Permits(P, D) /\ AsksIn(P)
  BY LinePermits
<1>2. /\ Traffic(P) /\ Inside(D, E) /\ server = "up" /\ text \in D
      /\ \A c \in Client : client[c] \notin {"lost", "local"}
  BY DEF LinesInv, Inside
<1>3. ASSUME NEW a \in Editors
      PROVE  /\ Ahead(Line, View(a), R(a), a) /\ Room(own, a) /\ a \in Client /\ a \in E
             /\ ~ Connect(a) /\ Sees(P, D, Line, View(a), R(a), a) /\ KeepsLine(own, a)
             /\ client[a] = "up" => local[a] \in D
             /\ Overwrite(a) => View(a)[local'[a]] = View(a)[local[a]]
  BY <1>2, LineSees DEF LinesInv, Inside, EachKeepsLine
<1>4. \A c \in Client : pending'[c] \in Seq(P[c])
  BY <1>1, <1>2, <1>3, LinePending DEF EachKeepsLine
<1>5. \A c \in Client : \A p \in P[c] : IsEdit(p) =>
         \A doc \in D : \A e \in After(doc, p) : e \in D
  BY LineEdits
<1>6. ASSUME NEW a \in Editors, SendEdit(a) /\ Connection(a)
      PROVE  << Renumbered(Head(pending[a]), issued[a] + 1), View(a)[local[a]],
                View(a)[local'[a]] >> \in R(a)
  <2>1. client[a] = "up"
    BY <1>6 DEF Connection
  <2> QED
    BY <1>2, <1>3, <1>6, <2>1, SentFits
<1>7. server' = "up"
  <2>1. \A c \in Client : ~ CrashOnErase(c)
    BY <1>2, <1>3, NoCrashInLine
  <2> QED
    BY <1>2, <2>1, CrashStep
<1>8. ASSUME NEW a \in Editors PROVE Room(own, a)'
  BY <1>1, <1>2, <1>3, RoomStep
<1> HIDE DEF P, D, View, R
<1>9. Traffic(P)'
  BY ONLY <1>1, <1>2, <1>4, Inv, [Next]_vars, TrafficStep
<1>10. Inside(D, E)'
  BY ONLY <1>1, <1>2, <1>5, E \in SUBSET Client, \A c \in E : ~ Connect(c), Inv, [Next]_vars,
          InsideStep
<1>11. \A c \in Client : client'[c] \notin {"lost", "local"}
  BY <1>2, CalmStep
<1>12. ASSUME NEW a \in Editors PROVE Ahead(Line, View(a), R(a), a)'
  <2> DEFINE v == View(a)
             r == R(a)
  <2>1. /\ Ahead(Line, v, r, a) /\ a \in Client /\ a \in E /\ ~ Connect(a)
        /\ Sees(P, D, Line, v, r, a) /\ (Overwrite(a) => v[local'[a]] = v[local[a]])
    BY <1>3
  <2>2. SendEdit(a) /\ Connection(a) =>
           << Renumbered(Head(pending[a]), issued[a] + 1), v[local[a]], v[local'[a]] >> \in r
    BY <1>6
  <2> HIDE DEF v, r
  <2>3. Ahead(Line, v, r, a)'
    BY ONLY <1>1, <1>2, <1>10, <2>1, <2>2, Inv, [Next]_vars, AheadStep
  <2> QED
    BY <2>3 DEF v, r
<1> QED
  BY <1>7, <1>8, <1>9, <1>10, <1>11, <1>12 DEF LinesInv, P, D, View, R

\* Where nothing happens, no key is pressed.
LEMMA StutterKeeps ==
    ASSUME Inv, NEW own, [EachKeepsLine(own)]_vars
    PROVE  EachKeepsLine(own)
<1> SUFFICES ASSUME UNCHANGED vars, NEW c \in Client PROVE KeepsLine(own, c)
  BY DEF EachKeepsLine
<1>1. ASSUME NEW kind PROVE ~ Press(c, kind)
  <2>1. presses'[c] = presses[c] /\ presses[c] \in Nat
    BY MoreTypes, SessionAssumption DEF vars, clientVars
  <2>2. Press(c, kind) => presses'[c] = presses[c] + 1
    BY MoreTypes DEF Press
  <2>3. presses[c] + 1 # presses[c]
    BY ONLY <2>1
  <2> QED
    BY <2>1, <2>2, <2>3
<1> QED
  BY <1>1 DEF KeepsLine, PressChar, PressTab, PressEnter, PressBackspace, PressDelete

LEMMA LinesAgreeStep ==
    ASSUME NEW own, OwnLine(own), Inv, Inv', LinesAgreeInv(own), [Next]_vars, NobodyAsks,
           EachKeepsLine(own)
    PROVE  LinesAgreeInv(own)'
<1> DEFINE P == InLine(own, Client)
           D == SameLines(own)
<1>1. /\ Permits(P, D) /\ AsksIn(P) /\ \A c \in Client : Untouched(P, c) /\ ~ Connect(c)
      /\ Editors \subseteq Client
  BY LinePermits DEF NobodyAsks, AsksIn, Asks, Editors
<1>2. /\ LinesInv(own, Client, Client) /\ Settled /\ Traffic(P) /\ Inside(D, Client)
  BY DEF LinesAgreeInv, LinesInv
<1>3. \A c \in Client : ~ Overwrite(c)
  <2> HIDE DEF P, D
  <2> QED
    BY ONLY <1>1, <1>2, Inv, NoTexts
<1>4. LinesInv(own, Client, Client)'
  BY <1>1, <1>2, <1>3, LinesStep DEF Editors
<1>5. Inside(D, Client)'
  BY <1>4 DEF LinesInv
<1>6. Settled'
  BY <1>1, <1>2, SettledStep
<1>7. ASSUME NEW a \in Editors PROVE Behind(Line, LineOf(own[a]), Fits(a), a)'
  <2> DEFINE v == LineOf(own[a])
             r == Fits(a)
  <2>1. /\ Ahead(Line, v, r, a) /\ Behind(Line, v, r, a) /\ a \in Client
        /\ Sees(P, D, Line, v, r, a)
    BY LineSees DEF LinesAgreeInv, LinesInv, Editors
  <2> HIDE DEF v, r, P, D
  <2>2. Behind(Line, v, r, a)'
    BY ONLY <1>1, <1>2, <1>5, <2>1, Inv, [Next]_vars, BehindStep
  <2> QED
    BY <2>2 DEF v, r
<1> QED
  BY <1>4, <1>6, <1>7 DEF LinesAgreeInv

LEMMA LinesFreshStep ==
    ASSUME NEW own, OwnLine(own), Editors \cap Joiners = {}, Inv, Inv', LinesFreshInv(own),
           [Next]_vars, LosesNothing, EachKeepsLine(own)
    PROVE  LinesFreshInv(own)'
<1> DEFINE P == InLine(own, {})
           D == SameLines(own)
           E == Editors
<1>1. /\ Permits(P, D) /\ AsksIn(P) /\ E \in SUBSET Client /\ \A c \in E : ~ Connect(c)
  <2>1. \A c \in Client : GetFull \in P[c]
    BY LinePackets DEF GetFull, Packet, ToServer, Request, IsEdit
  <2>2. E \in SUBSET Client /\ \A c \in E : ~ Connect(c)
    BY DEF Editors, Connect
  <2> QED
    BY <2>1, <2>2, LinePermits DEF AsksIn
<1>2. /\ LinesInv(own, {}, E) /\ Traffic(P) /\ Inside(D, E) /\ server = "up"
  BY DEF LinesFreshInv, LinesInv
<1>3. ASSUME NEW a \in Editors
      PROVE  /\ Overwrite(a) => LineOf(own[a])[local'[a]] = LineOf(own[a])[local[a]]
             /\ Fresh(LineOf(own[a]), a)'
  <2> DEFINE v == LineOf(own[a])
             r == Fits(a)
  <2>1. /\ Ahead(Line, v, r, a) /\ Fresh(v, a) /\ a \in Client
        /\ Sees(P, D, Line, v, r, a)
    BY LineSees DEF LinesFreshInv, LinesInv, Editors
  <2>2. Overwrite(a) => Head(down[a]).has[a] = issued[a]
    BY <2>1 DEF LosesNothing
  <2> HIDE DEF v, r, P, D, E
  <2>3. Overwrite(a) => v[local'[a]] = v[local[a]]
    BY ONLY <1>1, <1>2, <2>1, <2>2, Inv, Current
  <2>4. Fresh(v, a)'
    BY ONLY <1>1, <1>2, <2>1, Inv, [Next]_vars, FreshStep
  <2> QED
    BY <2>3, <2>4 DEF v
<1>4. LinesInv(own, {}, E)'
  BY <1>1, <1>2, <1>3, LinesStep
<1> QED
  BY <1>3, <1>4 DEF LinesFreshInv

LEMMA InitialLines ==
    ASSUME NEW own, OwnLine(own)
    PROVE  InitialText \in SameLines(own)
BY SessionAssumption DEF SameLines

LEMMA RoomInitially ==
    ASSUME Init, NEW own, OwnLine(own), NEW a \in Editors
    PROVE  Room(own, a)
<1> SUFFICES ASSUME client[a] = "up" PROVE Room(own, a)
  BY DEF Room
<1>0. a \in Client /\ own[a] \in Nat
  BY DEF Editors, OwnLine
<1>1. /\ local[a] = InitialText /\ pending[a] = << >> /\ cursor[a] \in Starts(a)
  BY <1>0 DEF Init
<1> DEFINE row == InitialText[own[a] + 1]
<1>2. InitialText \in Doc /\ HasLine(InitialText, own[a])
  BY SessionAssumption DEF OwnLine, HasLine
<1>3. row \in Line /\ LineOf(own[a])[local[a]] = row /\ Len(row) \in Nat
  <2>1. row \in Line
    BY <1>0, <1>2 DEF Doc, HasLine
  <2> QED
    BY <1>1, <1>2, <2>1 DEF LineOf, Line
<1>4. cursor[a].line = own[a] => cursor[a].index <= Len(row)
  <2>1. OnText(InitialText, cursor[a]) \/ cursor[a] = Origin
    BY <1>1 DEF Starts
  <2> QED
    BY <1>3, <2>1 DEF OnText, Origin
<1>5. Leads(Line, Fits(a), << >>, row, row)
  BY <1>3, LeadsEmpty
<1> QED
  BY <1>1, <1>3, <1>4, <1>5 DEF Room

LEMMA LinesInitially ==
    ASSUME Init, NEW own, OwnLine(own), NEW U, NEW E \in SUBSET Client
    PROVE  /\ LinesInv(own, U, E) /\ Settled
           /\ \A a \in Editors : /\ Behind(Line, LineOf(own[a]), Fits(a), a)
                                 /\ Fresh(LineOf(own[a]), a)
<1>1. Traffic(InLine(own, U)) /\ Settled
  BY TrafficInitially, SettledInitially
<1>2. Inside(SameLines(own), E) /\ server = "up"
      /\ \A c \in Client : client[c] \notin {"lost", "local"}
  BY InitialLines DEF Init, Inside
<1>3. ASSUME NEW a \in Editors
      PROVE  /\ Ahead(Line, LineOf(own[a]), Fits(a), a)
             /\ Behind(Line, LineOf(own[a]), Fits(a), a)
             /\ Fresh(LineOf(own[a]), a)
             /\ Room(own, a)
  <2>1. Sees(InLine(own, U), SameLines(own), Line, LineOf(own[a]), Fits(a), a)
    BY LineSees
  <2>2. LineOf(own[a])[InitialText] \in Line /\ a \in Client
    BY <2>1, InitialLines DEF Sees, Editors
  <2> QED
    BY <2>2, AgreeInitially, FreshInitially, RoomInitially
<1> QED
  BY <1>1, <1>2, <1>3 DEF LinesInv

\* When everything has arrived, every line is the same: its owner's chain is empty, and
\* a line without an owner is the initial one.
LEMMA LinesAgree ==
    ASSUME NEW own, OwnLine(own), Inv, LinesAgreeInv(own), Quiet, NEW c \in Client, client[c] = "up"
    PROVE  local[c] = text
<1>1. /\ text \in SameLines(own) /\ local[c] \in SameLines(own)
      /\ text \in Seq(Line) /\ local[c] \in Seq(Line) /\ Len(local[c]) = Len(text)
  BY DEF LinesAgreeInv, LinesInv, Inside, SameLines, Doc
<1>2. ASSUME NEW l \in 1 .. Len(text) PROVE local[c][l] = text[l]
  <2>1. CASE \A a \in Editors : l # own[a] + 1
    BY <1>1, <2>1 DEF SameLines
  <2>2. ASSUME NEW a \in Editors, l = own[a] + 1 PROVE local[c][l] = text[l]
    <3> DEFINE view == LineOf(own[a])
    <3>1. a \in Client /\ own[a] \in Nat
      BY DEF Editors, OwnLine
    <3>2. HasLine(text, own[a]) /\ HasLine(local[c], own[a])
      BY <1>1, <2>2, <3>1 DEF HasLine
    <3>3. view[text] = text[l] /\ view[local[c]] = local[c][l]
      BY <1>1, <2>2, <3>2 DEF LineOf, SameLines
    <3>4. view[text] \in Line /\ view[local[c]] \in Line
      BY <1>1, <3>3
    <3>5. /\ server = "up" /\ up[a] = << >> /\ down[c] = << >>
          /\ pc[a] \in {"none", "recv", "dead"}
      BY <3>1 DEF Quiet
    <3> HIDE DEF view
    <3>6. CASE c = a
      <4>1. Leads(Line, Fits(a), << >>, view[text], view[local[c]])
        BY <3>5, <3>6 DEF LinesAgreeInv, LinesInv, Ahead, view
      <4> QED
        BY <3>3, <3>4, <4>1, LeadsEmpty
    <3>7. CASE c # a
      <4>1. Lags(Line, LineOf(own[a]), Fits(a), a, c)
        BY <3>7 DEF LinesAgreeInv, Behind
      <4>2. Owed(a, c) = << >> /\ << >> \o << >> = << >>
        BY <3>5 DEF Owed, Owes
      <4>3. Leads(Line, Fits(a), << >>, view[local[c]], view[text])
        BY <3>5, <4>1, <4>2 DEF Lags, view
      <4> QED
        BY <3>3, <3>4, <4>3, LeadsEmpty
    <3> QED
      BY <3>6, <3>7
  <2> QED
    BY <2>1, <2>2
<1> QED
  BY <1>1, <1>2, SeqEqual

\* In a session in which every user edits inside a line of its own, and neither breaks it
\* nor joins it to another one: as long as nobody asks for the text (no client joins or
\* presses Ctrl+S, and no periodic thread has woken up, which it first does after five
\* seconds), the text of every client is the text of the server when everything sent has
\* arrived.  Once a text is under way, an edit sent before it may be handled twice.
THEOREM OwnLinesAgree ==
    ASSUME NEW own, OwnLine(own)
    PROVE  Spec /\ [][NobodyAsks /\ EachKeepsLine(own)]_vars => []ReplicasAgree
<1>1. Init => LinesAgreeInv(own)
  <2>1. Client \in SUBSET Client
    OBVIOUS
  <2> QED
    BY <2>1, LinesInitially DEF LinesAgreeInv
<1>2. Inv /\ Inv' /\ LinesAgreeInv(own) /\ [Next]_vars
         /\ [NobodyAsks /\ EachKeepsLine(own)]_vars => LinesAgreeInv(own)'
  BY StutterAsks, StutterKeeps, LinesAgreeStep
<1>3. Inv /\ LinesAgreeInv(own) => ReplicasAgree
  BY LinesAgree DEF ReplicasAgree
<1> QED
  BY <1>1, <1>2, <1>3, OrderCorrect, PTL DEF Spec

\* In the same session, where everybody may also ask for the text and join, but not with
\* edit keys: as long as no text takes an edit of the client back that it replaces the text
\* of, the server never removes a character that does not exist, although every user may
\* delete up to the end of the line and up to its last character.
THEOREM OwnLinesNeverEraseEnd ==
    ASSUME NEW own, OwnLine(own), Editors \cap Joiners = {}
    PROVE  Spec /\ OverwriteKeepsEdits /\ [][EachKeepsLine(own)]_vars => []NeverErasesEnd
<1>1. Init => LinesFreshInv(own)
  <2>1. Editors \in SUBSET Client
    BY DEF Editors
  <2> QED
    BY <2>1, LinesInitially DEF LinesFreshInv
<1>2. Inv /\ Inv' /\ LinesFreshInv(own) /\ [Next]_vars /\ [LosesNothing]_vars
         /\ [EachKeepsLine(own)]_vars => LinesFreshInv(own)'
  BY StutterLoses, StutterKeeps, LinesFreshStep
<1>3. LinesFreshInv(own) => NeverErasesEnd
  BY DEF LinesFreshInv, LinesInv, NeverErasesEnd
<1> QED
  BY <1>1, <1>2, <1>3, OrderCorrect, PTL DEF Spec, OverwriteKeepsEdits, LosesNothing
=============================================================================
