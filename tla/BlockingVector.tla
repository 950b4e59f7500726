--------------------------- MODULE BlockingVector ---------------------------
(***************************************************************************)
(* The text data structure of the default build: BlockingVector, a vector  *)
(* of lines, each a vector of characters (blockingVector.cpp, reached      *)
(* through the delegating wrapper of textcontainer.cpp).                   *)
(*                                                                         *)
(* Every member function holds vectorLock for its whole body, so each one  *)
(* is a single atomic operation; this module gives what each computes, as  *)
(* an operator from documents to documents.  Lines and indices are counted *)
(* from 0, as in the code: line l of the code is doc[l + 1].               *)
(***************************************************************************)
EXTENDS Integers, SequencesExt

CONSTANTS Char,     \* the characters a line may hold
          Enter     \* ENTER_KEY (13): splits a line, never stored in one

ASSUME EnterAssumption == Enter \notin Char

Line == Seq(Char)
Doc  == Seq(Line)

EmptyDoc == << << >> >>      \* the constructor: a single empty line
Join     == -1               \* (size_t)-1: "delete the line break above"

HasLine(doc, line) == line < Len(doc)

(***************************************************************************)
(* insert().  The checks compare unsigned numbers, so that Join, the       *)
(* largest size_t, is beyond the end of every line.  insert() and remove() *)
(* form iterators into data[line] before they check line; beyond the last  *)
(* line that is undefined, and taken to be harmless, since a call that is  *)
(* refused does not use them.                                              *)
(***************************************************************************)
\* Mutant: the rest of the line is copied, not moved.
BreakLine_KeepsTail(doc, line, index) ==
    LET whole == doc[line + 1]
    IN  SubSeq(doc, 1, line)
          \o << whole, SubSeq(whole, index + 1, Len(whole)) >>
          \o SubSeq(doc, line + 2, Len(doc))

BreakLine(doc, line, index) ==
    LET whole == doc[line + 1]
    IN  SubSeq(doc, 1, line)
          \o << SubSeq(whole, 1, index), SubSeq(whole, index + 1, Len(whole)) >>
          \o SubSeq(doc, line + 2, Len(doc))

\* Mutant: Enter is taken for another key code, so that it is stored.
InsertChar_StoresEnter(doc, line, index, input) ==
    IF ~ HasLine(doc, line) \/ index \notin 0 .. Len(doc[line + 1])
    THEN doc
    ELSE ReplaceAt(doc, line + 1, InsertAt(doc[line + 1], index + 1, input))

InsertChar(doc, line, index, input) ==
    IF ~ HasLine(doc, line) \/ index \notin 0 .. Len(doc[line + 1])
    THEN doc
    ELSE IF input = Enter
         THEN BreakLine(doc, line, index)
         ELSE ReplaceAt(doc, line + 1, InsertAt(doc[line + 1], index + 1, input))

(***************************************************************************)
(* remove().  The bound check lets index = size through to                 *)
(* erase(end()), which is undefined.  What libstdc++ makes of it depends   *)
(* on the build: the process dies in memmove or in the allocator, or the   *)
(* last character of the line is dropped; on an empty line the size wraps  *)
(* around and the process dies.                                            *)
(*   RemoveChar  - the documents the call may leave, when it returns       *)
(*   ErasesEnd   - whether the call is undefined, and may not return       *)
(***************************************************************************)
\* Mutant: the line disappears together with its text.
JoinLine_DropsText(doc, line) ==
    IF line = 0 \/ ~ HasLine(doc, line) THEN doc ELSE RemoveAt(doc, line + 1)

JoinLine(doc, line) ==
    IF line = 0 \/ ~ HasLine(doc, line)
    THEN doc
    ELSE RemoveAt(ReplaceAt(doc, line, doc[line] \o doc[line + 1]), line + 1)

ErasesEnd(doc, line, index) ==
    HasLine(doc, line) /\ index = Len(doc[line + 1])

\* Mutant: a line that has become empty is removed.
RemoveChar_DropsEmpty(doc, line, index) ==
    IF index # Join /\ HasLine(doc, line) /\ Len(doc[line + 1]) = 1
    THEN { RemoveAt(doc, line + 1) }
    ELSE IF index = Join
         THEN { JoinLine(doc, line) }
         ELSE IF HasLine(doc, line) /\ index < Len(doc[line + 1])
         THEN { ReplaceAt(doc, line + 1, RemoveAt(doc[line + 1], index + 1)) }
         ELSE { doc }

RemoveChar(doc, line, index) ==
    IF index = Join
    THEN { JoinLine(doc, line) }
    ELSE IF ~ HasLine(doc, line) \/ index > Len(doc[line + 1])
    THEN { doc }
    ELSE IF ErasesEnd(doc, line, index)
    THEN { ReplaceAt(doc, line + 1, Front(doc[line + 1])) : x \in 1 .. index }
    ELSE { ReplaceAt(doc, line + 1, RemoveAt(doc[line + 1], index + 1)) }

(***************************************************************************)
(* line_width() has no bound check: beyond the last line it reads whatever *)
(* lies behind the vector.  garbage is the set of values that may be read. *)
(***************************************************************************)
\* Mutant: the line end is counted.
LineWidth_WithEnd(doc, line, garbage) ==
    IF HasLine(doc, line) THEN { Len(doc[line + 1]) + 1 } ELSE garbage

LineWidth(doc, line, garbage) ==
    IF HasLine(doc, line) THEN { Len(doc[line + 1]) } ELSE garbage

\* The sequence s without an element.
Without(s, element) ==
    LET kept[i \in 0 .. Len(s)] ==
            IF i = 0 THEN << >>
            ELSE IF s[i] = element THEN kept[i - 1] ELSE Append(kept[i - 1], s[i])
    IN  kept[Len(s)]

(***************************************************************************)
(* serialize(): every line followed by ENTER_KEY, behind three ints that   *)
(* stay uninitialised; the second component is the length in bytes.        *)
(* deserialize(ints, bytes): ints are the characters behind those three.   *)
(***************************************************************************)
Terminated(doc, end) == FlattenSeq([i \in DOMAIN doc |-> Append(doc[i], end)])

Serialize(doc)      == Terminated(doc, Enter)
SerializedSize(doc) == 4 * (3 + Len(Serialize(doc)))

\* The lines after each prefix of s.
SplitAt(s, separator) ==
    LET rows[i \in 0 .. Len(s)] ==
            IF i = 0 THEN << << >> >>
            ELSE IF s[i] = separator THEN Append(rows[i - 1], << >>)
            ELSE Append(Front(rows[i - 1]), Append(Last(rows[i - 1]), s[i]))
    IN  rows[Len(s)]

\* Mutant: one int of the prefix is forgotten.
IntsIn_ShortPrefix(bytes) == (bytes \div 4) - 2

IntsIn(bytes) == (bytes \div 4) - 3

Deserialize(ints, bytes) == Front(SplitAt(SubSeq(ints, 1, IntsIn(bytes)), Enter))
=============================================================================
