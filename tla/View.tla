-------------------------------- MODULE View --------------------------------
(***************************************************************************)
(* The main window of one client: a cursor, a scroll offset and two line   *)
(* counters that the key handlers and the message handler keep beside the  *)
(* text (editor.cpp).  Each handler runs under mlock and is one action; the*)
(* handler of SIGWINCH runs at any moment.                                 *)
(*                                                                         *)
(* Of the text only the widths of its lines matter here: line l of the code*)
(* is text[l + 1].  Other users are seen through their packets: their edits*)
(* carry any position, since a packet may be older than the text.          *)
(***************************************************************************)
EXTENDS Integers, SequencesExt

CONSTANTS Height,    \* heights the main window may have
          maxx,      \* its width
          Texts,     \* texts that a full content may bring
          Garbage,   \* what line_width() may read behind the last line
          MaxLines,  \* bound: lines of a text that still grows
          MaxChars,  \* bound: characters of a text that still grows
          MaxDrift   \* bound: refused line breaks and joins

ASSUME ViewAssumption ==
    /\ Height \subseteq Nat \ {0} /\ maxx \in Nat \ {0}
    /\ Texts \subseteq Seq(Nat) /\ Garbage \subseteq Nat
    /\ MaxLines \in Nat /\ MaxChars \in Nat /\ MaxDrift \in Nat

VARIABLES
    text,               \* the width of each line
    numlines,           \* what the client believes Len(text) to be
    numdisplaylines,    \* rows of the window it believes to be in use
    lineoffset,         \* the line shown in the first row
    y, x,               \* the cursor in the window
    maxy,               \* the height of the window
    seen,               \* the height that the main loop read before wgetch()
    drift,              \* history: refused line breaks minus refused joins
    resized,            \* history: the window has changed its size
    disturbed           \* history: see CursorInText

counters == << numlines, numdisplaylines >>
cursor   == << lineoffset, y, x >>
history  == << drift, resized, disturbed >>
vars     == << text, counters, cursor, maxy, seen, history >>

Init == /\ text = << 0 >>
        /\ numlines = 1 /\ numdisplaylines = 1 /\ lineoffset = 0
        /\ y = 0 /\ x = 0
        /\ maxy \in Height /\ seen = maxy
        /\ drift = 0 /\ resized = FALSE /\ disturbed = FALSE

Lesser(a, b)  == IF a < b THEN a ELSE b
Greater(a, b) == IF a > b THEN a ELSE b

(***************************************************************************)
(* The text: insert(), remove() and line_width() of BlockingVector, seen   *)
(* through the widths.  An edit outside the text is refused.               *)
(***************************************************************************)
Chars == FoldLeft(LAMBDA sum, width : sum + width, 0, text)

Inside(l, i) == l < Len(text) /\ i <= text[l + 1]

Widened(l, i, n) == IF Inside(l, i) THEN [text EXCEPT ![l + 1] = @ + n] ELSE text

\* Mutant: no line is added by a break at the end of a line.
Split_NotAtEnd(l, i) ==
    IF ~ Inside(l, i) \/ i = text[l + 1] THEN text
    ELSE [k \in 1 .. Len(text) + 1 |->
            IF k <= l THEN text[k]
            ELSE IF k = l + 1 THEN i
            ELSE IF k = l + 2 THEN text[l + 1] - i ELSE text[k - 1]]

Split(l, i) ==
    IF ~ Inside(l, i) THEN text
    ELSE [k \in 1 .. Len(text) + 1 |->
            IF k <= l THEN text[k]
            ELSE IF k = l + 1 THEN i
            ELSE IF k = l + 2 THEN text[l + 1] - i ELSE text[k - 1]]

CanJoin(l) == 0 < l /\ l < Len(text)

Joined(l) ==
    IF ~ CanJoin(l) THEN text
    ELSE [k \in 1 .. Len(text) - 1 |->
            IF k < l THEN text[k]
            ELSE IF k = l THEN text[l] + text[l + 1] ELSE text[k + 1]]

\* At the end of a line remove() is undefined (ErasesEnd of BlockingVector):
\* when it returns, the last character is gone; on an empty line it does not.
Narrowed(t, l, i) ==
    IF ~ (l < Len(t) /\ i <= t[l + 1]) THEN { t }
    ELSE IF t[l + 1] = 0 THEN {}
    ELSE { [t EXCEPT ![l + 1] = @ - 1] }

line_width(t, l) == IF l < Len(t) THEN { t[l + 1] } ELSE Garbage

(***************************************************************************)
(* move_win_rel() in the main window, given the text and the counters as   *)
(* they are by then.  wmove() refuses a place outside the window.          *)
(***************************************************************************)
\* Mutant: the offset may pass the last line.
Scrolled_TooFar(row, n, nd, offset) ==
    LET below == row > nd - 1
        off   == IF below THEN offset + row - nd + 1 ELSE offset
        r     == IF below THEN nd - 1 ELSE row
    IN  [offset |-> IF r < 0 /\ off > 0 /\ -r <= off THEN off + r ELSE off,
         row    |-> Greater(r, 0)]

Scrolled(row, n, nd, offset) ==
    LET below == row > nd - 1
        off   == IF below /\ offset + row < n THEN offset + row - nd + 1 ELSE offset
        r     == IF below THEN nd - 1 ELSE row
    IN  [offset |-> IF r < 0 /\ off > 0 /\ -r <= off THEN off + r ELSE off,
         row    |-> Greater(r, 0)]

\* Mutant: the cursor may leave the window.
InWindow_Always(row, col) == TRUE

InWindow(row, col) == row < maxy /\ col < maxx

move_win_rel(xoffs, yoffs, t, n, nd) ==
    LET s == Scrolled(y + yoffs, n, nd, lineoffset)
    IN  \E width \in line_width(t, s.row + s.offset) :
          LET capped_x == Greater(Lesser(x + xoffs, width), 0)
          IN  /\ lineoffset' = s.offset
              /\ IF InWindow(s.row, capped_x)
                 THEN y' = s.row /\ x' = capped_x
                 ELSE UNCHANGED << y, x >>

(***************************************************************************)
(* Keys typed into the main window.  The loop reads the window's size      *)
(* before it waits for the key.                                            *)
(***************************************************************************)
Key == seen' = maxy /\ UNCHANGED maxy

KEY_Arrow(xoffs, yoffs) ==
    /\ Key
    /\ move_win_rel(xoffs, yoffs, text, numlines, numdisplaylines)
    /\ UNCHANGED << text, counters, history >>

\* A line break makes room in the window if there is some.
\* Mutant: the displayed lines are not counted.
DisplayMore_Never(height) == UNCHANGED numdisplaylines

DisplayMore(height) ==
    numdisplaylines' = IF numdisplaylines < height
                       THEN numdisplaylines + 1 ELSE numdisplaylines

ENTER_KEY ==
    LET l == y + lineoffset
    IN  /\ Key
        /\ Len(text) < MaxLines /\ drift < MaxDrift
        /\ numlines' = numlines + 1
        /\ DisplayMore(seen)
        /\ text' = Split(l, x)
        /\ \E s \in { Scrolled(y + 1, numlines', numdisplaylines', lineoffset) } :
              \* reset_x() sends the cursor to the first column
              /\ lineoffset' = s.offset
              /\ x' = 0
              /\ y' = IF s.row < maxy THEN s.row ELSE y
        /\ drift' = IF Inside(l, x) THEN drift ELSE drift + 1
        /\ resized' = (resized \/ seen # maxy)
        /\ disturbed' = (disturbed \/ seen # maxy)

\* A join leaves a row empty if the text no longer fills the window.
\* Mutant: the displayed lines are always fewer.
CountJoin_Always == /\ numdisplaylines' = numdisplaylines - 1
                    /\ numlines' = numlines - 1

CountJoin == /\ numdisplaylines' = IF numlines = numdisplaylines
                                   THEN numdisplaylines - 1 ELSE numdisplaylines
             /\ numlines' = numlines - 1

BackspaceChar ==
    /\ Key
    /\ x > 0
    /\ move_win_rel(-1, 0, text, numlines, numdisplaylines)
    /\ text' \in Narrowed(text, y' + lineoffset', x')
    /\ UNCHANGED << counters, history >>

BackspaceJoin ==
    LET l == y + lineoffset
    IN  /\ Key
        /\ x = 0 /\ y > 0
        /\ drift > - MaxDrift
        /\ text' = Joined(l)
        /\ CountJoin
        /\ drift' = IF CanJoin(l) THEN drift ELSE drift - 1
        /\ \E above_width \in line_width(text, l - 1) :
              /\ move_win_rel(above_width, -1, text', numlines', numdisplaylines')
              /\ disturbed' = (disturbed \/ lineoffset > 0 \/ above_width >= maxx)
        /\ UNCHANGED resized

DeleteChar ==
    /\ Key
    /\ \E width \in line_width(text, y + lineoffset) : x < width
    /\ text' \in Narrowed(text, y + lineoffset, x)
    /\ UNCHANGED << counters, cursor, history >>

DeleteJoin ==
    LET l == y + lineoffset + 1
    IN  /\ Key
        /\ \E width \in line_width(text, y + lineoffset) : x >= width
        /\ drift > - MaxDrift
        /\ y < numlines - 1
        /\ text' = Joined(l)
        /\ CountJoin
        /\ drift' = IF CanJoin(l) THEN drift ELSE drift - 1
        /\ disturbed' = (disturbed \/ lineoffset > 0)
        /\ UNCHANGED << cursor, resized >>

\* A character, or the four blanks of a tab, all inserted at the same place.
Type(n) ==
    LET l == y + lineoffset
    IN  /\ Key
        /\ Chars + n <= MaxChars
        /\ text' = Widened(l, x, n)
        /\ move_win_rel(n, 0, text', numlines, numdisplaylines)
        /\ UNCHANGED << counters, history >>

\* wgetch() gives up every tenth of a second.
NoKey == /\ Key
         /\ seen # maxy
         /\ UNCHANGED << text, counters, cursor, history >>

(***************************************************************************)
(* handleMessage(): the packets that touch the text or the counters.       *)
(***************************************************************************)
FullContent(lines, force) ==
    LET offset == IF force THEN 0 ELSE lineoffset
        row    == IF force THEN 0 ELSE y
    IN  /\ text' = lines
        /\ lineoffset' = IF offset + row >= Len(lines) THEN 0 ELSE offset
        /\ y' = row
        /\ x' = IF force THEN 0 ELSE x
        /\ numlines' = Len(lines)
        /\ numdisplaylines' = Lesser(Len(lines), maxy)
        /\ drift' = 0 /\ resized' = FALSE
        /\ disturbed' = IF force THEN lines = << >> ELSE disturbed \/ lines # text
        /\ UNCHANGED << maxy, seen >>

RemoteChar(l, i) ==
    /\ Chars < MaxChars
    /\ text' = Widened(l, i, 1)
    /\ UNCHANGED << counters, cursor, maxy, seen, history >>

RemoteEnter(l, i) ==
    /\ Len(text) < MaxLines /\ drift < MaxDrift
    /\ text' = Split(l, i)
    /\ numlines' = numlines + 1
    /\ DisplayMore(maxy)
    /\ drift' = IF Inside(l, i) THEN drift ELSE drift + 1
    /\ disturbed' = TRUE
    /\ UNCHANGED << cursor, maxy, seen, resized >>

RemoteRemove(l, i) ==
    /\ text' \in Narrowed(text, l, i)
    /\ disturbed' = TRUE
    /\ UNCHANGED << counters, cursor, maxy, seen, drift, resized >>

RemoteJoin(l) ==
    /\ drift > - MaxDrift
    /\ text' = Joined(l)
    /\ CountJoin
    /\ lineoffset' = IF lineoffset + y >= numlines' THEN Greater(numlines' - y, 0)
                     ELSE lineoffset
    /\ drift' = IF CanJoin(l) THEN drift ELSE drift - 1
    /\ disturbed' = TRUE
    /\ UNCHANGED << y, x, maxy, seen, resized >>

(***************************************************************************)
(* resize_handler(): wresize() pulls the cursor into the window.           *)
(***************************************************************************)
Resize(h) ==
    /\ maxy' = h
    /\ numdisplaylines' = Lesser(h, numdisplaylines)
    /\ y' = Lesser(y, h - 1)
    /\ resized' = TRUE /\ disturbed' = TRUE
    /\ UNCHANGED << text, numlines, lineoffset, x, seen, drift >>

Local == \/ KEY_Arrow(0, -1) \/ KEY_Arrow(0, 1) \/ KEY_Arrow(-1, 0) \/ KEY_Arrow(1, 0)
         \/ ENTER_KEY \/ BackspaceChar \/ BackspaceJoin \/ DeleteChar \/ DeleteJoin
         \/ Type(1) \/ Type(4) \/ NoKey

Remote == \/ \E lines \in Texts, force \in BOOLEAN : FullContent(lines, force)
          \/ \E l \in 0 .. MaxLines, i \in 0 .. MaxChars :
                RemoteChar(l, i) \/ RemoteEnter(l, i) \/ RemoteRemove(l, i)
          \/ \E l \in 1 .. MaxLines : RemoteJoin(l)

Next == Local \/ Remote \/ \E h \in Height \ {maxy} : Resize(h)

Spec == Init /\ [][Next]_vars
-----------------------------------------------------------------------------
TypeOK == /\ text \in Seq(Nat)
          /\ numlines \in Int /\ numdisplaylines \in Int /\ lineoffset \in Nat
          /\ maxy \in Height /\ seen \in Height
          /\ y \in 0 .. maxy - 1 /\ x \in 0 .. maxx - 1
          /\ drift \in Int /\ resized \in BOOLEAN /\ disturbed \in BOOLEAN

\* The message handler and five keys count lines without asking the text.  The
\* count is off by exactly the line breaks and joins that the text has refused
\* since the last full content, whoever made them, and by nothing else.
CountersExact == numlines = Len(text) + drift

\* As long as the window keeps its size, the rows in use are the lines, up to
\* the height: a scrolled text that gets shorter fills the window as before.
DisplayExact == ~ resized => numdisplaylines = Lesser(numlines, maxy)

\* From the start, and again from every forced update, the cursor stands on a
\* character of the text or at the end of a line, and no edit of its user is
\* refused, whatever he types and wherever he scrolls - until he joins lines
\* while scrolled or onto one wider than the window, the window is resized, or
\* another user changes more than adding characters.
CursorInText ==
    ~ disturbed => /\ lineoffset + y < Len(text)
                   /\ x <= text[lineoffset + y + 1]
                   /\ drift = 0
=============================================================================
