----------------------------- MODULE TextBuffer -----------------------------
(***************************************************************************)
(* One text container under any sequence of calls: the edits of            *)
(* BlockingVector, and saving to and loading from files.  This is the      *)
(* `text' object of the server; a client's has the same operations.        *)
(*                                                                         *)
(* A file is the sequence of its characters.  A file that does not exist   *)
(* is the empty sequence: opening it fails, getline() then reads nothing,  *)
(* which is what happens with an empty file.                               *)
(***************************************************************************)
EXTENDS BlockingVector

CONSTANTS Newline,      \* '\n'
          File,         \* file names
          InitialDisk,  \* the contents files may have at the start
          MaxSize       \* bound: the longest text that is still inserted into

ASSUME DiskAssumption ==
    /\ Newline \notin Char \cup {Enter}
    /\ InitialDisk \subseteq Seq(Char \cup {Enter, Newline})
    /\ MaxSize \in Nat

VARIABLES data,    \* BlockingVector::data
          disk,    \* the characters in each file
          alive    \* the process has not died

vars == << data, disk, alive >>

Init == /\ data = EmptyDoc
        /\ disk \in [File -> InitialDisk]
        /\ alive = TRUE

(***************************************************************************)
(* writeToFile() ends every line with std::endl.  readFromFile() calls     *)
(* getline() until it fails: an unterminated last line counts when it has  *)
(* characters, and carriage returns are dropped.                           *)
(***************************************************************************)
FileOf(doc) == Terminated(doc, Newline)

\* Mutant: carriage returns are kept.
LinesOf_KeepsReturn(chars) ==
    LET rows == SplitAt(chars, Newline)
    IN  IF Last(rows) = << >> THEN Front(rows) ELSE rows

LinesOf(chars) ==
    LET rows == SplitAt(chars, Newline)
        read == IF Last(rows) = << >> THEN Front(rows) ELSE rows
    IN  [i \in DOMAIN read |-> Without(read[i], Enter)]

(***************************************************************************)
(* Positions go one beyond what exists, in both directions: a client's     *)
(* cursor may be stale when its edit arrives.                              *)
(***************************************************************************)
Lines   == 0 .. Len(data)
Indices == Join .. MaxSize

Insert(line, index, input) ==
    /\ alive
    /\ Len(Serialize(data)) < MaxSize
    /\ data' = InsertChar(data, line, index, input)
    /\ UNCHANGED << disk, alive >>

Erase(line, index) ==
    /\ alive
    /\ data' \in RemoveChar(data, line, index)
    /\ UNCHANGED << disk, alive >>

UndefinedErase(line, index) ==
    /\ alive
    /\ index # Join
    /\ ErasesEnd(data, line, index)
    /\ alive' = FALSE
    /\ UNCHANGED << data, disk >>

WriteToFile(f) ==
    /\ alive
    /\ disk' = [disk EXCEPT ![f] = FileOf(data)]
    /\ UNCHANGED << data, alive >>

ReadFromFile(f) ==
    /\ alive
    /\ data' = LinesOf(disk[f])
    /\ UNCHANGED << disk, alive >>

Edit == \E line \in Lines, index \in Indices :
            \/ \E input \in Char \cup {Enter} : Insert(line, index, input)
            \/ Erase(line, index)
            \/ UndefinedErase(line, index)

Next == Edit \/ \E f \in File : WriteToFile(f) \/ ReadFromFile(f)

Spec == Init /\ [][Next]_vars
-----------------------------------------------------------------------------
\* Lines hold characters only: no line break is ever stored inside a line,
\* neither by an edit nor by loading a file written on another system.
TypeOK == /\ data \in Seq(Seq(Char))
          /\ disk \in [File -> Seq(Char \cup {Enter, Newline})]
          /\ alive \in BOOLEAN

\* The lines implement a flat string: each insert() and remove() changes
\* exactly one character of it, splitting and joining lines is inserting and
\* removing an Enter, the last Enter is never taken away, and what is loaded
\* from a file is what was saved there.
Abstract == INSTANCE FlatText
              WITH flat  <- Serialize(data),
                   files <- [f \in File |-> Serialize(LinesOf(disk[f]))]
ImplementsFlatText == Abstract!Spec

\* What a client rebuilds from a full-content message is the text that the
\* server serialized, although the client passes one byte too many as the
\* length (editor.cpp:718 subtracts the type but not the force byte); and the
\* buffer ends where a line does, so that deserialize() stops inside it.
WireRoundTrip ==
    LET sent == Serialize(data)
        size == SerializedSize(data) + 1
    IN  /\ IntsIn(size) = Len(sent)
        /\ sent # << >> => Last(sent) = Enter
        /\ Deserialize(sent, size) = data

\* Removing what has just been inserted restores the text: a character by its
\* own index, a line break by joining the next line.  Backspace relies on it.
InsertThenRemove ==
    \A line \in 0 .. Len(data) - 1 : \A index \in 0 .. Len(data[line + 1]) :
        /\ \A ch \in Char :
             RemoveChar(InsertChar(data, line, index, ch), line, index) = { data }
        /\ RemoveChar(InsertChar(data, line, index, Enter), line + 1, Join) = { data }

\* Two edits inside different lines give the same text in either order, so
\* that replicas which apply them in different orders still agree.
LineEdits(doc, line, index) ==
    { InsertChar(doc, line, index, ch) : ch \in Char } \cup
    (IF ErasesEnd(doc, line, index) THEN {} ELSE RemoveChar(doc, line, index))

LineEditsCommute ==
    \A k, l \in 0 .. Len(data) - 1 : k < l =>
        \A i \in 0 .. Len(data[k + 1]), j \in 0 .. Len(data[l + 1]) :
            UNION { LineEdits(doc, l, j) : doc \in LineEdits(data, k, i) }
          = UNION { LineEdits(doc, k, i) : doc \in LineEdits(data, l, j) }

\* A text without any line comes only from loading a file without one (a
\* missing file is one), and then no edit ever takes it out of that state.
NoLinesOnlyByLoading ==
    [][(data = << >>) # (data' = << >>) => \E f \in File : ReadFromFile(f)]_vars
=============================================================================
