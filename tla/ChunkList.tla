----------------------------- MODULE ChunkList -----------------------------
(***************************************************************************)
(* The text data structure of the LOCKFREE build: LockFreeList, a list of  *)
(* lines, each a list of buffers of BUFFERLEN slots (lockfreelist.cpp).    *)
(* Removing a character leaves its slot empty, and no buffer is ever given *)
(* back, so that a text has many layouts.  In spite of its name the list   *)
(* belongs to a single client, whose handlers exclude each other by mlock: *)
(* each member function is an operator from lists to lists.                *)
(***************************************************************************)
EXTENDS BlockingVector

CONSTANTS BUFFERLEN,    \* slots of a buffer (CHARBUFFER is the same number)
          UNUSEDINT     \* what an empty slot holds

ASSUME BufferAssumption == BUFFERLEN \in Nat \ {0} /\ UNUSEDINT \notin Char

Buffer == [1 .. BUFFERLEN -> Char \cup {UNUSEDINT}]

NewBuffer(chars) ==
    [o \in 1 .. BUFFERLEN |-> IF o <= Len(chars) THEN chars[o] ELSE UNUSEDINT]

\* Mutant: makeLine() forgets the first buffer.
NewLine_NoBuffer == << >>

NewLine == << NewBuffer(<< >>) >>

EmptyList == << NewLine >>       \* the constructor and clear()

Used(slots)    == Without(slots, UNUSEDINT)
CharsOf(line)  == Used(FlattenSeq(line))
Contents(list) == [l \in DOMAIN list |-> CharsOf(list[l])]

line_width(list, line) == IF HasLine(list, line) THEN Len(CharsOf(list[line + 1])) ELSE 0

(***************************************************************************)
(* A place is a slot o of the buffer b of a line.  insertIntoLine() takes  *)
(* the first place that has index characters before it.  If its slot is    *)
(* not empty, the rest of the buffer moves to a new one; if there is no    *)
(* such place, a new buffer is added to the end of the line.               *)
(***************************************************************************)
CharsBefore(line, b, o) == CharsOf(SubSeq(line, 1, b - 1)) \o Used(SubSeq(line[b], 1, o - 1))

CharsFrom(line, b, o) ==
    Used(SubSeq(line[b], o, BUFFERLEN)) \o CharsOf(SubSeq(line, b + 1, Len(line)))

Places(line, index) ==
    { place \in (DOMAIN line) \X (1 .. BUFFERLEN) :
          Len(CharsBefore(line, place[1], place[2])) = index }

FirstPlace(line, index) ==
    CHOOSE p \in Places(line, index) : \A q \in Places(line, index) :
        p[1] < q[1] \/ (p[1] = q[1] /\ p[2] <= q[2])

\* Mutant: the rest of the buffer is not moved.
SplitBuffer_DropsRest(buffer, o, c) ==
    << NewBuffer(Append(SubSeq(buffer, 1, o - 1), c)), NewBuffer(<< >>) >>

SplitBuffer(buffer, o, c) ==
    << NewBuffer(Append(SubSeq(buffer, 1, o - 1), c)),
       NewBuffer(SubSeq(buffer, o, BUFFERLEN)) >>

insertIntoLine(line, index, c) ==
    IF Places(line, index) = {}
    THEN Append(line, NewBuffer(<< c >>))
    ELSE LET b == FirstPlace(line, index)[1]
             o == FirstPlace(line, index)[2]
         IN  IF line[b][o] = UNUSEDINT
             THEN [line EXCEPT ![b][o] = c]
             ELSE IF o > 1 /\ line[b][o - 1] = UNUSEDINT
             THEN [line EXCEPT ![b][o - 1] = c]
             ELSE SubSeq(line, 1, b - 1) \o SplitBuffer(line[b], o, c)
                    \o SubSeq(line, b + 1, Len(line))

\* Characters moved one by one to the end of a line.
Filled(line, chars) ==
    LET filled[i \in 0 .. Len(chars)] ==
            IF i = 0 THEN line
            ELSE LET l == filled[i - 1] IN insertIntoLine(l, Len(CharsOf(l)), chars[i])
    IN  filled[Len(chars)]

(***************************************************************************)
(* insert() of an Enter adds a line in any case and moves what is behind   *)
(* the index there, slot by slot.                                          *)
(***************************************************************************)
Blanked(line, b, o) ==
    [k \in DOMAIN line |-> [slot \in 1 .. BUFFERLEN |->
        IF k > b \/ (k = b /\ slot >= o) THEN UNUSEDINT ELSE line[k][slot]]]

\* Mutant: what is moved stays in the old line, too.
Broken_KeepsRest(line, index) ==
    IF Places(line, index) = {}
    THEN << line, NewLine >>
    ELSE LET b == FirstPlace(line, index)[1]
             o == FirstPlace(line, index)[2]
         IN  << line, Filled(NewLine, CharsFrom(line, b, o)) >>

Broken(line, index) ==
    IF Places(line, index) = {}
    THEN << line, NewLine >>
    ELSE LET b == FirstPlace(line, index)[1]
             o == FirstPlace(line, index)[2]
         IN  << Blanked(line, b, o), Filled(NewLine, CharsFrom(line, b, o)) >>

insert(list, line, index, input) ==
    IF ~ HasLine(list, line) THEN list
    ELSE IF input = Enter
         THEN SubSeq(list, 1, line) \o Broken(list[line + 1], index)
                \o SubSeq(list, line + 2, Len(list))
         ELSE [list EXCEPT ![line + 1] = insertIntoLine(@, index, input)]

(***************************************************************************)
(* remove().  A join copies the line to the end of the one above; when the *)
(* line does not exist, getLine() finds the last one twice, which changes  *)
(* nothing.                                                                *)
(***************************************************************************)
Joined(list, line) ==
    IF line = 0 \/ ~ HasLine(list, line) THEN list
    ELSE RemoveAt([list EXCEPT ![line] = Filled(@, CharsOf(list[line + 1]))], line + 1)

Emptied(line, index) ==
    [b \in DOMAIN line |-> [o \in 1 .. BUFFERLEN |->
        IF << b, o >> \in Places(line, index) THEN UNUSEDINT ELSE line[b][o]]]

remove(list, line, index) ==
    IF index = Join THEN Joined(list, line)
    ELSE IF ~ HasLine(list, line) THEN list
    ELSE [list EXCEPT ![line + 1] = Emptied(@, index)]

(***************************************************************************)
(* deserialize() and readFromFile() insert into a cleared list what they   *)
(* read, each Enter at the end of the line that it ends.                   *)
(***************************************************************************)
Rebuilt(ints) ==
    LET state[n \in 0 .. Len(ints)] ==
            IF n = 0
            THEN [list |-> EmptyList, line |-> 0, i |-> 0]
            ELSE LET s == state[n - 1]
                     c == ints[n]
                 IN  [list |-> insert(s.list, s.line, s.i, c),
                      line |-> IF c = Enter THEN s.line + 1 ELSE s.line,
                      i    |-> IF c = Enter THEN 0 ELSE s.i + 1]
    IN  state[Len(ints)].list

deserialize(ints, bytes) == Rebuilt(SubSeq(ints, 1, IntsIn(bytes)))

(***************************************************************************)
(* writeToFile() ends a line after every buffer, and so does serialize().  *)
(***************************************************************************)
BufferLines(list, end) ==
    FlattenSeq([l \in DOMAIN list |->
        Terminated([b \in DOMAIN list[l] |-> Used(list[l][b])], end)])
=============================================================================
