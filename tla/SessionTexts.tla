---------------------------- MODULE SessionTexts ----------------------------
(***************************************************************************)
(* Why the texts agree: inductive invariants of a session, on top of       *)
(* SessionOrder.  None of them is part of the system.  SessionProofs (the  *)
(* first) and SessionTextsProofs (the rest) prove that every step          *)
(* preserves them, under the hypotheses on who edits what that are stated  *)
(* here.                                                                   *)
(***************************************************************************)
EXTENDS SessionOrder

\* What only the steps of c itself change (and a forwarding or broadcasting
\* thread its queue down[c]).
Own(c) == << up[c], pending[c], local[c], modified[c], cursor[c], presses[c],
             loop[c], client[c], issued[c], applied[c], pc[c], msg[c], todo[c] >>

-----------------------------------------------------------------------------
(***************************************************************************)
(* The texts that c asks for, when getFullLoop() clears the flag only       *)
(* between two keys.  AskedText: a text on its way to c because c asked    *)
(* for it.                                                                 *)
(***************************************************************************)
AskedText(p) == p.type = "FullContent" /\ ~ p.force
TextReady(c) == pc[c] = "reply" /\ msg[c].type = "FullContent"

\* No edit follows the last request for the text.
AskedLast(c) ==
    \E i \in DOMAIN up[c] :
        /\ up[c][i].type = "GetFull"
        /\ \A j \in DOMAIN up[c] : j > i => ~ IsEdit(up[c][j])

\* Everything has been answered, and the last answer, wherever it is, holds
\* every edit of c.
AnsweredLast(c) ==
    /\ \A i \in DOMAIN up[c] : up[c][i].type # "GetFull" /\ ~ IsEdit(up[c][i])
    /\ TextReady(c) => msg[c].has[c] = issued[c]
    /\ ~ TextReady(c) =>
          \A i \in DOMAIN down[c] :
             AskedText(down[c][i]) =>
                \/ \E j \in DOMAIN down[c] : j > i /\ AskedText(down[c][j])
                \/ down[c][i].has[c] = issued[c]

\* A client whose flag is clear has nothing to send but the request that
\* cleared it, unless its periodic thread has still to send that.
Synchronised(c) ==
    server = "up" /\ client[c] \in {"new", "up"} /\ ~ modified[c] =>
        /\ pending[c] \in { << >>, << GetFull >> }
        /\ pending[c] = << >> /\ loop[c] = "sleep" => AskedLast(c) \/ AnsweredLast(c)

\* Texts are broadcast with the force flag and sent in reply without.
TextKinds(c) ==
    /\ TextReady(c) => AskedText(msg[c])
    /\ pc[c] \in {"list", "broadcast"} => ~ AskedText(msg[c])

SyncInv == \A c \in Client : Synchronised(c) /\ TextKinds(c)

\* No key is being handled when getFullLoop() clears the flag, as if it took mlock.
ClearsBetweenKeys == \A c \in Client : ClearFlag(c) => pending[c] = << >>
-----------------------------------------------------------------------------
(***************************************************************************)
(* Chains: the packets of s lead from the value x to the value y, one step *)
(* of R per packet.                                                        *)
(***************************************************************************)
Leads(V, R, s, x, y) ==
    \E d \in [0 .. Len(s) -> V] :
        /\ d[0] = x /\ d[Len(s)] = y
        /\ \A i \in 1 .. Len(s) : << s[i], d[i - 1], d[i] >> \in R

Neutral(V, R, p) == \A x, y \in V : << p, x, y >> \in R <=> x = y

\* The texts that an edit may make of a text.
After(doc, p) ==
    IF p.type = "Insert" THEN {InsertChar(doc, p.line, p.index, p.char)}
                         ELSE RemoveChar(doc, p.line, p.index)

(***************************************************************************)
(* P[c] are the packets that c may send and receive, in a session in which *)
(* nobody loads a file, and D the texts that may occur.                    *)
(***************************************************************************)
Packet == ToServer \cup ToClient

Renumbered(p, n) == [p EXCEPT !.n = n]

\* An answer to GetFull.
AnswerIn(D) == { p \in Content : ~ p.force /\ p.text \in D }

Permits(P, D) ==
    \A c \in Client :
        /\ \A p \in P[c] : /\ p \in Packet /\ p.type \notin {"ReadFromDisk", "ReadConfirmed"}
                           /\ p.type = "FullContent" => p \in AnswerIn(D)
        /\ \A p \in Notice \cup Count : p.type # "ReadConfirmed" => p \in P[c]
        /\ \A p \in P[c] : IsEdit(p) => /\ \A n \in Nat : Renumbered(p, n) \in P[c]
                                       /\ \A d \in Client : p \in P[d]
        /\ GetFull \in P[c] => AnswerIn(D) \subseteq P[c]

Travels(P, c) ==
    /\ pending[c] \in Seq(P[c]) /\ up[c] \in Seq(P[c]) /\ down[c] \in Seq(P[c])
    /\ pc[c] = "reply" => msg[c] \in P[c]
    /\ pc[c] \in {"clock", "forward", "list", "broadcast"} =>
          msg[c].type # "FullContent" /\ \A d \in Client : msg[c] \in P[d]
    /\ pc[c] \notin {"listForText", "serialize"}
    /\ loop[c] # "sleep" => GetFull \in P[c]

Traffic(P) == \A c \in Client : Travels(P, c)

\* A client asks for the text: with Ctrl+S, from its periodic thread, or when
\* it joins.  Only those whose packets it may be do.
Asks(c) == PressSync(c) \/ ClearFlag(c) \/ Connect(c)

AsksIn(P) == \A c \in Client : Asks(c) => GetFull \in P[c]
NobodyAsks == \A c \in Client : ~ Asks(c)

\* c never asks for the text, and gets none.
Untouched(P, c) == \A p \in P[c] : p.type \notin {"GetFull", "FullContent"}

(***************************************************************************)
(* view[text] is the part of a text that the edits of a change, and that   *)
(* nobody else's edits do.  D are the texts that may occur.  R is what an  *)
(* edit of a makes of that part.                                           *)
(***************************************************************************)
Sees(P, D, V, view, R, a) ==
    /\ view \in [Doc -> V] /\ D \subseteq Doc
    /\ \A c \in Client : \A p \in P[c] :
          /\ ~ EditOf(p, a) => Neutral(V, R, p)
          /\ IsEdit(p) => \A doc \in D : \A e \in After(doc, p) :
                /\ e \in D
                /\ p.from # a => view[e] = view[doc]
                /\ p.from = a => \A y \in V : << p, view[doc], y >> \in R => y = view[e]

\* The text of the server is one of them, and so are those of the clients in E.
Inside(D, E) == /\ text \in D
                /\ \A c \in E : client[c] = "up" => local[c] \in D

\* The edits of a that the server has not applied lead from its text to the
\* text of a.
Ahead(V, view, R, a) ==
    server = "up" =>
        \E y \in V : /\ Leads(V, R, up[a], view[text], y)
                     /\ client[a] = "up" => y = view[local[a]]

\* Those that b has not handled lead from the text of b to the server's.
Owed(a, b) == IF Owes(a, b) THEN << msg[a] >> ELSE << >>

Lags(V, view, R, a, b) ==
    server = "up" /\ client[b] = "up" =>
        Leads(V, R, down[b] \o Owed(a, b), view[local[b]], view[text])

Behind(V, view, R, a) == \A b \in Client \ {a} : Lags(V, view, R, a, b)

\* A text on its way to a that holds every edit of a which the server has
\* applied shows of them what the server's shows.
TextsFor(a) ==
    { p \in ToSet(down[a]) \cup (IF pc[a] = "reply" THEN {msg[a]} ELSE {}) :
        p.type = "FullContent" }

TextNow == ContentOf(FALSE)

Fresh(view, a) ==
    \A p \in TextsFor(a) : /\ p.has[a] <= applied[a]
                           /\ p.has[a] = applied[a] => view[p.text] = view[text]

\* Nobody arrives.
Settled == /\ backlog = << >> /\ accepted = NoClient
           /\ \A c \in Client : client[c] = "up" => c \in Member
-----------------------------------------------------------------------------
(***************************************************************************)
(* One user edits, in every way; the others watch, synchronise, save and   *)
(* count.  Nobody loads a file.                                            *)
(***************************************************************************)
EditKeys == {"Char", "Enter", "Tab", "Backspace", "Delete"}

Strikes(c) == \/ PressChar(c) \/ PressTab(c) \/ PressEnter(c) \/ PressBackspace(c)
              \/ PressDelete(c) \/ PressCommand(c) \/ PressSync(c)

\* A packet that a key of c leaves to be sent.
Struck(c, p) ==
    \/ IsEdit(p) /\ p.from = c /\ Keys[c] \cap EditKeys # {}
    \/ p.type = "GetFull" /\ PressSync(c)
    \/ p.type = "ReadFromDisk" /\ "Read" \in Keys[c]
    \/ p.type \in {"WriteToDisk", "GetClientCount"}

OneAuthor(a) ==
    /\ a \in Client
    /\ \A c \in Client : "Read" \notin Keys[c]
    /\ \A c \in Client \ {a} : Keys[c] \cap EditKeys = {}

\* The packets of such a session; those in U get no texts.
Authored(a, U) ==
    [c \in Client |->
        { p \in Packet : /\ p.type \notin {"ReadFromDisk", "ReadConfirmed"}
                         /\ IsEdit(p) => p.from = a
                         /\ p.type = "FullContent" => ~ p.force
                         /\ c \in U => p.type \notin {"GetFull", "FullContent"} }]

Whole == [doc \in Doc |-> doc]

Makes(a) == { t \in Packet \X Doc \X Doc :
                IF EditOf(t[1], a) THEN t[3] \in After(t[2], t[1]) ELSE t[3] = t[2] }

AgreeInv(a) == /\ Traffic(Authored(a, Client))
               /\ Settled
               /\ Ahead(Doc, Whole, Makes(a), a)
               /\ Behind(Doc, Whole, Makes(a), a)

-----------------------------------------------------------------------------
\* No text takes an edit back: the action of OverwriteKeepsEdits.
LosesNothing == \A c \in Client : Overwrite(c) => Head(down[c]).has[c] = issued[c]

(***************************************************************************)
(* The same session, where everybody may also ask for the text: as long as *)
(* no text takes an edit of the author back, what the author sends fits    *)
(* the text it meets.                                                      *)
(***************************************************************************)
Erases(doc, p) == /\ p.type = "Remove" /\ p.index # Join
                  /\ ErasesEnd(doc, p.line, p.index)

Legal(a) == { t \in Makes(a) : EditOf(t[1], a) => ~ Erases(t[2], t[1]) }

\* What a key of a has left to be sent fits as well, and leads to a text on
\* which the cursor is.
Typing(a) ==
    client[a] = "up" =>
        \E y \in Doc : /\ Leads(Doc, Legal(a), pending[a], local[a], y)
                       /\ OnText(y, cursor[a])

SafeInv(a) == /\ Traffic(Authored(a, {}))
              /\ Ahead(Doc, Whole, Legal(a), a)
              /\ Fresh(Whole, a)
              /\ Typing(a)
              /\ server = "up"
-----------------------------------------------------------------------------
(***************************************************************************)
(* Several users edit, each inside a line of its own.  own[c] is the line  *)
(* of c.                                                                   *)
(***************************************************************************)
Editors == { c \in Client : Keys[c] \cap EditKeys # {} }

OwnLine(own) ==
    /\ own \in [Client -> Nat]
    /\ \A c \in Client : "Read" \notin Keys[c]
    /\ \A c \in Editors : own[c] < Len(InitialText)
    /\ \A a, b \in Editors : a # b => own[a] # own[b]

\* Every key that edits is pressed in that line and neither breaks it nor
\* joins it to another one.
KeepsLine(own, c) ==
    /\ ~ PressEnter(c)
    /\ PressChar(c) \/ PressTab(c) \/ PressBackspace(c) \/ PressDelete(c) =>
          cursor[c].line = own[c]
    /\ PressBackspace(c) => cursor[c].index > 0
    /\ PressDelete(c) => cursor[c].index < Len(local[c][own[c] + 1])

EachKeepsLine(own) == \A c \in Client : KeepsLine(own, c)

\* The texts: lines without an owner keep what they held at the start.
SameLines(own) ==
    { doc \in Doc :
         /\ Len(doc) = Len(InitialText)
         /\ \A l \in 1 .. Len(doc) :
               (\A c \in Editors : l # own[c] + 1) => doc[l] = InitialText[l] }

\* The packets of such a session; those in U get no texts.
InLine(own, U) ==
    [c \in Client |->
        { p \in Packet :
             /\ p.type \notin {"ReadFromDisk", "ReadConfirmed"}
             /\ IsEdit(p) => /\ p.from \in Editors /\ p.line = own[p.from]
                             /\ p.index \in Nat
                             /\ p.type = "Insert" => p.char \in Char
             /\ p.type = "FullContent" => ~ p.force /\ p.text \in SameLines(own)
             /\ c \in U => p.type \notin {"GetFull", "FullContent"} }]

LineOf(line) == [doc \in Doc |-> IF HasLine(doc, line) THEN doc[line + 1] ELSE << >>]

\* An edit of a that fits the line, and what it makes of it.
Fits(a) ==
    { t \in Packet \X Line \X Line :
         IF EditOf(t[1], a)
         THEN \/ /\ t[1].type = "Insert" /\ t[1].index <= Len(t[2])
                 /\ t[3] = InsertAt(t[2], t[1].index + 1, t[1].char)
              \/ /\ t[1].type = "Remove" /\ t[1].index < Len(t[2])
                 /\ t[3] = RemoveAt(t[2], t[1].index + 1)
         ELSE t[3] = t[2] }

\* What is left to be sent fits, and the cursor, if it is in the line of a,
\* is then inside it.
Room(own, a) ==
    client[a] = "up" =>
        \E row \in Line :
           /\ Leads(Line, Fits(a), pending[a], LineOf(own[a])[local[a]], row)
           /\ cursor[a].line = own[a] => cursor[a].index <= Len(row)

\* The clients in E have one of the texts; those in U are sent none.
LinesInv(own, U, E) ==
    /\ Traffic(InLine(own, U)) /\ Inside(SameLines(own), E)
    /\ server = "up" /\ \A c \in Client : client[c] \notin {"lost", "local"}
    /\ \A a \in Editors : Ahead(Line, LineOf(own[a]), Fits(a), a) /\ Room(own, a)

\* Nobody asks for a text,
LinesAgreeInv(own) ==
    /\ LinesInv(own, Client, Client) /\ Settled
    /\ \A a \in Editors : Behind(Line, LineOf(own[a]), Fits(a), a)

\* or none takes an edit back.
LinesFreshInv(own) ==
    /\ LinesInv(own, {}, Editors)
    /\ \A a \in Editors : Fresh(LineOf(own[a]), a)
=============================================================================
