--------------------------- MODULE LockfreeClient ---------------------------
(***************************************************************************)
(* A server and one client built with LOCKFREE=1: the server keeps its text*)
(* in a BlockingVector, whatever the build, the client in a LockFreeList.  *)
(* Each edit of the user is made in both; TextBuffer gives the server's    *)
(* side, and races with other users are left to Session.                   *)
(***************************************************************************)
EXTENDS TextBuffer, ChunkList

\* Bounds: no insert into a list of MaxBuffers buffers, and no edit between one
\* that was outside the server's text and the next full content.
CONSTANT MaxBuffers

VARIABLES list,     \* LockFreeList::head of the client
          apart,    \* history: an edit was outside the server's text, or it was
                    \* loaded, since the client received it last
          extra     \* history: the client has received a text

clientVars == << data, disk, alive, list, apart, extra >>

ClientInit == /\ Init
              /\ list = EmptyList
              /\ apart = FALSE /\ extra = FALSE

Buffers == Len(FlattenSeq(list))
Room    == ~ apart /\ Buffers < MaxBuffers

\* The user's cursor may be anywhere in his text, or beyond it.
ClientLines == 0 .. Len(list)

ClientInsert(line, index, input) ==
    /\ Room
    /\ Insert(line, index, input)
    /\ list' = insert(list, line, index, input)
    /\ apart' = (apart \/ ~ HasLine(data, line) \/ index \notin 0 .. Len(data[line + 1]))
    /\ UNCHANGED extra

ClientRemove(line, index) ==
    /\ ~ apart
    /\ Erase(line, index) \/ UndefinedErase(line, index)
    /\ list' = remove(list, line, index)
    /\ apart' = (apart \/ ~ HasLine(data, line) \/ index \notin Join .. Len(data[line + 1]) - 1)
    /\ UNCHANGED extra

FullContent ==
    /\ alive
    /\ list' = deserialize(Serialize(data), SerializedSize(data) + 1)
    /\ apart' = FALSE /\ extra' = TRUE
    /\ UNCHANGED vars

ServerFile(f) ==
    /\ \/ WriteToFile(f) /\ UNCHANGED apart
       \/ ReadFromFile(f) /\ apart' = TRUE
    /\ UNCHANGED << list, extra >>

ClientEdit == \E line \in ClientLines, index \in Indices :
                  \/ \E input \in Char \cup {Enter} : ClientInsert(line, index, input)
                  \/ ClientRemove(line, index)

ClientNext == ClientEdit \/ FullContent \/ \E f \in File : ServerFile(f)

ClientSpec == ClientInit /\ [][ClientNext]_clientVars
-----------------------------------------------------------------------------
\* Every line keeps a buffer, which all loops of the code take for granted, and
\* every buffer its slots.
ListTypeOK == /\ list \in Seq(Seq(Buffer) \ {<< >>}) \ {<< >>}
              /\ apart \in BOOLEAN /\ extra \in BOOLEAN

\* However an editing history has laid out the buffers, the client shows what
\* the server holds, up to the empty last line that deserialize() leaves behind
\* and no edit inside the server's text ever touches.
SameText ==
    ~ apart => Contents(list) = data \o (IF extra THEN << << >> >> ELSE << >>)

\* An edit at a place the server has too gives the same lines in both text
\* structures, at every place of every layout.
SameEdits ==
    LET lines == Contents(list)
    IN  \A line \in 0 .. Len(lines) - 1 : \A index \in 0 .. Len(lines[line + 1]) :
            /\ \A ch \in Char \cup {Enter} :
                 Contents(insert(list, line, index, ch)) = InsertChar(lines, line, index, ch)
            /\ Contents(remove(list, line, Join)) = JoinLine(lines, line)
            /\ ~ ErasesEnd(lines, line, index) =>
                 { Contents(remove(list, line, index)) } = RemoveChar(lines, line, index)

\* A local save (:wl) read back gives the lines that the client shows: "save the
\* file locally", README.md:9.  Not so: writeToFile() ends a line after every
\* buffer.
SavedAsShown == ~ apart => LinesOf(BufferLines(list, Newline)) = Contents(list)
=============================================================================
