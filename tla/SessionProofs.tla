---------------------------- MODULE SessionProofs ----------------------------
(***************************************************************************)
(* The theorems about a session.  First the types, one lemma per action;   *)
(* then every step preserves OrderInv: what an append, a removal of the    *)
(* head and a cut do to a gapless stream, and one lemma per action for the *)
(* parts of OrderInv that the action can disturb.  Then what rests on      *)
(* these two: the relay, the autosave file, and that the last text a       *)
(* client waits for holds every edit it has sent.                          *)
(***************************************************************************)
EXTENDS SessionTexts, BlockingVectorProofs, FiniteSetTheorems

-----------------------------------------------------------------------------
\* Packets: what the type field says about the rest.
LEMMA EditPackets ==
    ASSUME NEW p \in ToServer \cup ToClient
    PROVE  /\ IsEdit(p) => p \in EditPacket
           /\ p.type = "Insert" => IsEdit(p)
           /\ p.type = "Remove" => IsEdit(p)
  BY DEF ToServer, ToClient, IsEdit, EditPacket, Request, FileRequest, Content,
         Notice, Count

LEMMA ContentPackets ==
    ASSUME NEW p \in ToClient, p.type = "FullContent"
    PROVE  p \in Content
  BY DEF ToClient, EditPacket, Content, Notice, Count

LEMMA FilePackets ==
    ASSUME NEW p \in ToServer, p.type \in {"WriteToDisk", "ReadFromDisk"}
    PROVE  p \in FileRequest
  BY DEF ToServer, EditPacket, Request, FileRequest

LEMMA EditFields ==
    ASSUME NEW p \in EditPacket
    PROVE  /\ p.from \in Client /\ p.n \in Nat /\ p.line \in Nat
           /\ p.index \in Int /\ p.index >= Join
           /\ p.char \in Char \cup {Enter}
           /\ p \in ToServer /\ p \in ToClient
           /\ IsEdit(p)
  BY DEF EditPacket, Join, ToServer, ToClient, IsEdit

LEMMA MadePackets ==
    ASSUME TypeOK
    PROVE  /\ GetFull \in ToServer
           /\ \A t \in {"WriteConfirmed", "ReadConfirmed", "Disconnect"} :
                 NoticeOf(t) \in ToClient
           /\ \A force \in BOOLEAN : ContentOf(force) \in ToClient
           /\ \A n \in Nat : [type |-> "ClientCount", count |-> n] \in ToClient
           /\ \A f \in File : /\ [type |-> "WriteToDisk", file |-> f] \in ToServer
                              /\ [type |-> "ReadFromDisk", file |-> f] \in ToServer
           /\ [type |-> "GetClientCount"] \in ToServer
  BY DEF TypeOK, ServerTypes, HistoryTypes, GetFull, NoticeOf, ContentOf, ToServer, ToClient, Request,
         FileRequest, Content, Notice, Count

LEMMA MadeEdits ==
    ASSUME NEW c \in Client, NEW type \in {"Insert", "Remove"}, NEW line \in Nat,
           NEW index \in Nat \cup {Join}, NEW char \in Char \cup {Enter}
    PROVE  Edit(c, type, line, index, char) \in EditPacket
  BY DEF Edit, EditPacket

LEMMA SocketListType ==
    ASSUME TypeOK
    PROVE  SocketList \in Seq(Client \cup {NoClient}) /\ SocketCount \in Nat
<1>1. SocketList \in [1 .. Len(clients) -> Client \cup {NoClient}] /\ Len(clients) \in Nat
  <2>1. clients \in Seq(Client)
    BY DEF TypeOK, ServerTypes, ClientTypes
  <2>2. /\ DOMAIN clients = 1 .. Len(clients) /\ Len(clients) \in Nat
        /\ \A i \in 1 .. Len(clients) : clients[i] \in Client
    BY <2>1
  <2> QED
    BY <2>2, Zenon DEF SocketList
<1>2. SocketList \in Seq(Client \cup {NoClient})
  BY <1>1
<1>3. DOMAIN clients = 1 .. Len(clients) /\ IsFiniteSet(1 .. Len(clients))
  BY FS_Interval DEF TypeOK, ServerTypes
<1>4. SocketCount \in Nat
  <2> DEFINE living == { i \in DOMAIN clients : alive[clients[i]] }
  <2>1. living \in SUBSET (1 .. Len(clients))
    BY <1>3
  <2>2. IsFiniteSet(living)
    BY <1>3, <2>1, FS_Subset
  <2> QED
    BY <2>2, FS_CardinalityType DEF SocketCount
<1> QED
  BY <1>2, <1>4

LEMMA WidthType ==
    ASSUME TypeOK, NEW c \in Client, NEW line \in Nat
    PROVE  Width(c, line) \subseteq Nat
<1>1. CASE HasLine(local[c], line)
  <2>1. local[c] \in Doc
    BY DEF TypeOK, ServerTypes, ClientTypes
  <2>2. line + 1 \in 1 .. Len(local[c]) 
    BY <1>1, <2>1 DEF HasLine, Doc
  <2>3. local[c][line + 1] \in Line
    BY <2>1, <2>2 DEF Doc
  <2>4. Len(local[c][line + 1]) \in Nat
    BY <2>3 DEF Line
  <2> QED
    BY <1>1, <2>4 DEF Width, LineWidth
<1>2. CASE ~ HasLine(local[c], line)
  BY <1>2, SessionAssumption DEF Width, LineWidth
<1> QED
  BY <1>1, <1>2
\* Queues: taking the first packet and adding one.
LEMMA QueueTypes ==
    ASSUME TypeOK, NEW c \in Client
    PROVE  /\ up[c] # << >> => /\ Head(up[c]) \in ToServer
                               /\ Tail(up[c]) \in Seq(ToServer)
           /\ down[c] # << >> => /\ Head(down[c]) \in ToClient
                                 /\ Tail(down[c]) \in Seq(ToClient)
           /\ pending[c] # << >> => /\ Head(pending[c]) \in ToServer
                                    /\ Tail(pending[c]) \in Seq(ToServer)
           /\ todo[c] # << >> => /\ Head(todo[c]) \in Client \cup {NoClient}
                                 /\ Tail(todo[c]) \in Seq(Client \cup {NoClient})
<1>1. /\ up[c] \in Seq(ToServer) /\ down[c] \in Seq(ToClient)
      /\ pending[c] \in Seq(ToServer) /\ todo[c] \in Seq(Client \cup {NoClient})
  BY DEF TypeOK, NetTypes, ClientTypes, ThreadTypes
<1> QED
  BY <1>1

LEMMA SendToType ==
    ASSUME TypeOK, NEW b \in Client, NEW p \in ToClient, SendTo(b, p)
    PROVE  down' \in [Client -> Seq(ToClient)]
<1>1. down \in [Client -> Seq(ToClient)] /\ down[b] \in Seq(ToClient)
  BY DEF TypeOK, NetTypes
<1>2. Append(down[b], p) \in Seq(ToClient)
  BY <1>1
<1> QED
  BY <1>1, <1>2 DEF SendTo

LEMMA SendUpType ==
    ASSUME TypeOK, NEW c \in Client, NEW p \in ToServer, SendUp(c, p)
    PROVE  up' \in [Client -> Seq(ToServer)]
<1>1. up \in [Client -> Seq(ToServer)] /\ up[c] \in Seq(ToServer)
  BY DEF TypeOK, NetTypes
<1>2. Append(up[c], p) \in Seq(ToServer)
  BY <1>1
<1> QED
  BY <1>1, <1>2 DEF SendUp

-----------------------------------------------------------------------------
(***************************************************************************)
(* Type correctness.  It needs that a thread which forwards a packet works *)
(* on an edit that has been applied, and that edits are numbered from 1;   *)
(* the latter is part of OrderInv.                                         *)
(***************************************************************************)
Working == \A c \in Client :
    pc[c] \in {"clock", "forward"} => msg[c] \in EditPacket /\ applied[c] > 0

TypeInv == TypeOK /\ Working

LEMMA InsertedWidthType ==
    ASSUME TypeOK, NEW c \in Client, NEW char \in Char, NEW count \in Nat,
           NEW w \in InsertedWidth(c, char, count)
    PROVE  w \in Nat
<1>1. Width(c, cursor[c].line) \subseteq Nat
  BY WidthType DEF TypeOK, ClientTypes, Position
<1> QED
  BY <1>1 DEF InsertedWidth

LEMMA SentEdits ==
    ASSUME TypeOK, NEW c \in Client, pending[c] # << >>,
           IsEdit([Head(pending[c]) EXCEPT !.n = issued[c] + 1])
    PROVE  [Head(pending[c]) EXCEPT !.n = issued[c] + 1] \in EditPacket
<1>1. Head(pending[c]) \in ToServer /\ issued[c] \in Nat
  BY QueueTypes DEF TypeOK, HistoryTypes
<1>2. Head(pending[c]) \in EditPacket
  BY <1>1 DEF IsEdit, ToServer, EditPacket, Request, FileRequest
<1> QED
  BY <1>1, <1>2 DEF EditPacket

LEMMA Frames ==
    ASSUME TypeInv
    PROVE  /\ UNCHANGED serverVars => ServerTypes'
           /\ UNCHANGED threadVars => ThreadTypes'
           /\ UNCHANGED netVars => NetTypes'
           /\ UNCHANGED clientVars => ClientTypes'
           /\ UNCHANGED historyVars => HistoryTypes'
           /\ UNCHANGED << pc, msg, applied >> => Working'
<1> USE DEF TypeInv, TypeOK
<1>1. UNCHANGED serverVars => ServerTypes'
  BY DEF serverVars, ServerTypes
<1>2. UNCHANGED threadVars => ThreadTypes'
  BY DEF threadVars, ThreadTypes
<1>3. UNCHANGED netVars => NetTypes'
  BY DEF netVars, NetTypes
<1>4. UNCHANGED clientVars => ClientTypes'
  BY DEF clientVars, ClientTypes
<1>5. UNCHANGED historyVars => HistoryTypes'
  BY DEF historyVars, HistoryTypes
<1>6. UNCHANGED << pc, msg, applied >> => Working'
  BY DEF Working
<1> QED
  BY <1>1, <1>2, <1>3, <1>4, <1>5, <1>6

LEMMA TypeInit == Init => TypeInv
<1> SUFFICES ASSUME Init PROVE TypeInv
  OBVIOUS
<1>1. cursor \in [Client -> Position]
  BY SessionAssumption DEF Init, Starts, Origin, Position, Range
<1>2. disk \in [File -> Doc] /\ text \in Doc /\ clients \in Seq(Client)
  BY SessionAssumption DEF Init
<1>3. EmptyDoc \in Doc
  BY DEF EmptyDoc, Doc, Line
<1>4. local \in [Client -> Doc]
  BY <1>3, SessionAssumption DEF Init
<1>5. msg \in [Client -> ToClient]
  BY DEF Init, NoticeOf, ToClient, Notice
<1>6. TypeOK
  BY <1>1, <1>2, <1>4, <1>5, SessionAssumption
  DEF Init, TypeOK, Labels, ServerTypes, ThreadTypes, NetTypes, ClientTypes, HistoryTypes
<1>7. Working
  BY DEF Init, Working
<1> QED
  BY <1>6, <1>7 DEF TypeInv

LEMMA TypeApplyEdit ==
    ASSUME TypeInv, NEW c \in Client, ApplyEdit(c), Head(up[c]).n > 0
    PROVE  TypeInv'
<1> USE DEF TypeInv
<1>1. UNCHANGED << clientVars >>
  BY DEF ApplyEdit, serverVars, threadVars, netVars, clientVars, historyVars
<1>2. ServerTypes'
  <2>1. Head(up[c]) \in EditPacket
    BY QueueTypes, EditPackets DEF ApplyEdit, Receives
  <2>2. text' \in Doc
    <3>1. CASE Head(up[c]).type = "Insert"
      BY <2>1, <3>1, EditFields, InsertCharType DEF ApplyEdit, TypeOK, ServerTypes
    <3>2. CASE Head(up[c]).type = "Remove"
      BY <2>1, <3>2, EditFields, RemoveCharType DEF ApplyEdit, TypeOK, ServerTypes
    <3> QED
      BY <3>1, <3>2 DEF ApplyEdit
  <2> QED
    BY <2>2 DEF ApplyEdit, TypeOK, ServerTypes
<1>3. ThreadTypes'
  <2>1. Head(up[c]) \in EditPacket
    BY QueueTypes, EditPackets DEF ApplyEdit, Receives
  <2> QED
    BY <2>1, EditFields DEF ApplyEdit, Goto, TypeOK, ThreadTypes, Labels
<1>4. NetTypes'
  BY QueueTypes DEF ApplyEdit, Receives, Goto, TypeOK, NetTypes
<1>5. HistoryTypes'
  <2>1. Head(up[c]) \in EditPacket
    BY QueueTypes, EditPackets DEF ApplyEdit, Receives
  <2> QED
    BY <2>1, EditFields DEF ApplyEdit, Receives, Goto, TypeOK, HistoryTypes
<1>6. Working'
  <2>1. Head(up[c]) \in EditPacket
    BY QueueTypes, EditPackets DEF ApplyEdit, Receives
  <2> QED
    BY <2>1, SMTT(30) DEF ApplyEdit, Goto, TypeOK, ThreadTypes, HistoryTypes, Working
<1> QED
  BY <1>1, <1>2, <1>3, <1>4, <1>5, <1>6, Frames DEF serverVars, threadVars, netVars, clientVars, historyVars, TypeOK

LEMMA TypeCrashOnErase ==
    ASSUME TypeInv, NEW c \in Client, CrashOnErase(c)
    PROVE  TypeInv'
<1> USE DEF TypeInv
<1>1. UNCHANGED << threadVars, clientVars, historyVars >>
  BY DEF CrashOnErase, serverVars, threadVars, netVars, clientVars, historyVars
<1>2. ServerTypes'
  BY DEF CrashOnErase, Receives, TypeOK, ServerTypes
<1>3. NetTypes'
  BY QueueTypes DEF CrashOnErase, Receives, TypeOK, NetTypes
<1> QED
  BY <1>1, <1>2, <1>3, Frames DEF serverVars, threadVars, netVars, clientVars, historyVars, TypeOK

LEMMA TypeWriteToDisk ==
    ASSUME TypeInv, NEW c \in Client, WriteToDisk(c)
    PROVE  TypeInv'
<1> USE DEF TypeInv
<1>1. UNCHANGED << clientVars, historyVars >>
  BY DEF WriteToDisk, serverVars, threadVars, netVars, clientVars, historyVars
<1>2. ServerTypes'
  BY DEF WriteToDisk, Receives, Goto, TypeOK, ServerTypes
<1>3. ThreadTypes'
  BY MadePackets DEF WriteToDisk, Goto, TypeOK, ThreadTypes, Labels
<1>4. NetTypes'
  BY QueueTypes DEF WriteToDisk, Receives, Goto, TypeOK, NetTypes
<1>5. Working'
  BY DEF WriteToDisk, Receives, Goto, TypeOK, ThreadTypes, Working, historyVars
<1> QED
  BY <1>1, <1>2, <1>3, <1>4, <1>5, Frames DEF serverVars, threadVars, netVars, clientVars, historyVars, TypeOK

LEMMA TypeReadFromDisk ==
    ASSUME TypeInv, NEW c \in Client, ReadFromDisk(c)
    PROVE  TypeInv'
<1> USE DEF TypeInv
<1>1. UNCHANGED << clientVars, historyVars >>
  BY DEF ReadFromDisk, serverVars, threadVars, netVars, clientVars, historyVars
<1>2. ServerTypes'
  <2>1. Head(up[c]).file \in File
    BY QueueTypes, FilePackets DEF ReadFromDisk, Receives, FileRequest
  <2> QED
    BY <2>1 DEF ReadFromDisk, TypeOK, ServerTypes
<1>3. ThreadTypes'
  BY MadePackets DEF ReadFromDisk, Goto, TypeOK, ThreadTypes, Labels
<1>4. NetTypes'
  BY QueueTypes DEF ReadFromDisk, Receives, Goto, TypeOK, NetTypes
<1>5. Working'
  BY DEF ReadFromDisk, Receives, Goto, TypeOK, ThreadTypes, Working, historyVars
<1> QED
  BY <1>1, <1>2, <1>3, <1>4, <1>5, Frames DEF serverVars, threadVars, netVars, clientVars, historyVars, TypeOK

LEMMA TypeAnswer ==
    ASSUME TypeInv, NEW c \in Client, Answer(c)
    PROVE  TypeInv'
<1> USE DEF TypeInv
<1>1. UNCHANGED << serverVars, clientVars, historyVars >>
  BY DEF Answer, serverVars, threadVars, netVars, clientVars, historyVars
<1>2. ThreadTypes'
  <2>1. msg' \in [Client -> ToClient]
    <3>1. CASE msg' = [msg EXCEPT ![c] = ContentOf(FALSE)]
      BY <3>1, MadePackets DEF TypeOK, ThreadTypes
    <3>2. CASE msg' = [msg EXCEPT ![c] = [type |-> "ClientCount", count |-> SocketCount]]
      BY <3>2, MadePackets, SocketListType DEF TypeOK, ThreadTypes
    <3> QED
      BY <3>1, <3>2 DEF Answer
  <2> QED
    BY <2>1 DEF Answer, Goto, TypeOK, ThreadTypes, Labels
<1>3. NetTypes'
  <2>1. up' = [up EXCEPT ![c] = Tail(@)] /\ up[c] # << >>
    BY DEF Answer, Receives
  <2> QED
    BY <2>1, QueueTypes DEF Answer, TypeOK, NetTypes
<1>4. Working'
  BY DEF Answer, Receives, Goto, TypeOK, ThreadTypes, Working, historyVars
<1> QED
  BY <1>1, <1>2, <1>3, <1>4, Frames DEF serverVars, threadVars, netVars, clientVars, historyVars, TypeOK

LEMMA TypeReply ==
    ASSUME TypeInv, NEW c \in Client, Reply(c)
    PROVE  TypeInv'
<1> USE DEF TypeInv
<1>1. UNCHANGED << serverVars, clientVars, historyVars >>
  BY DEF Reply, serverVars, threadVars, netVars, clientVars, historyVars
<1>2. ThreadTypes'
  BY QueueTypes DEF Reply, SendTo, Goto, TypeOK, ThreadTypes, Labels
<1>3. NetTypes'
  <2>1. msg[c] \in ToClient
    BY DEF TypeOK, ThreadTypes
  <2> QED
    BY <2>1, SendToType DEF Reply, TypeOK, NetTypes
<1>4. Working'
  BY DEF Reply, SendTo, Goto, TypeOK, ThreadTypes, Working, historyVars
<1> QED
  BY <1>1, <1>2, <1>3, <1>4, Frames DEF serverVars, threadVars, netVars, clientVars, historyVars, TypeOK

LEMMA TypeTakeClock ==
    ASSUME TypeInv, NEW c \in Client, TakeClock(c)
    PROVE  TypeInv'
<1> USE DEF TypeInv
<1>1. UNCHANGED << netVars, clientVars, historyVars >>
  BY DEF TakeClock, serverVars, threadVars, netVars, clientVars, historyVars
<1>2. ServerTypes'
  BY DEF TakeClock, Goto, TypeOK, ServerTypes
<1>3. ThreadTypes'
  <2>1. clients \in Seq(Client \cup {NoClient})
    BY DEF TypeOK, ServerTypes
  <2> QED
    BY <2>1 DEF TakeClock, Goto, TypeOK, ThreadTypes, Labels
<1>4. Working'
  BY DEF TakeClock, Goto, TypeOK, ThreadTypes, Working, historyVars
<1> QED
  BY <1>1, <1>2, <1>3, <1>4, Frames DEF serverVars, threadVars, netVars, clientVars, historyVars, TypeOK

LEMMA TypeForward ==
    ASSUME TypeInv, NEW c \in Client, Forward(c)
    PROVE  TypeInv'
<1> USE DEF TypeInv
<1>1. UNCHANGED << serverVars, clientVars, pc, msg, applied >>
  BY DEF Forward, serverVars, threadVars, netVars, clientVars, historyVars
<1>2. ThreadTypes'
  BY QueueTypes DEF Forward, TypeOK, ThreadTypes, Labels
<1>3. NetTypes'
  <2>1. Head(todo[c]) \in Client \cup {NoClient} /\ msg[c] \in ToClient
    BY QueueTypes DEF Forward, TypeOK, ThreadTypes
  <2>2. CASE SendTo(Head(todo[c]), msg[c]) /\ Head(todo[c]) \in Client
    BY <2>1, <2>2, SendToType DEF Forward, TypeOK, NetTypes
  <2>3. CASE SendTo(NoClient, msg[c])
    BY <2>3, SessionAssumption DEF Forward, SendTo, TypeOK, NetTypes
  <2>4. CASE UNCHANGED down
    BY <2>4 DEF Forward, TypeOK, NetTypes
  <2> QED
    BY <2>1, <2>2, <2>3, <2>4 DEF Forward
<1>4. HistoryTypes'
  <2>1. msg[c].n \in Nat
    BY EditFields DEF Forward, Working
  <2>2. sent' = sent \/ sent' = [sent EXCEPT ![Head(todo[c])][c] = msg[c].n]
    BY DEF Forward
  <2>3. sent' \in [Client -> [Client -> Nat]]
    BY <2>1, <2>2 DEF TypeOK, HistoryTypes
  <2> QED
    BY <2>3 DEF Forward, TypeOK, HistoryTypes
<1> QED
  BY <1>1, <1>2, <1>3, <1>4, Frames DEF serverVars, threadVars, netVars, clientVars, historyVars, TypeOK

LEMMA TypeReleaseClock ==
    ASSUME TypeInv, NEW c \in Client, ReleaseClock(c)
    PROVE  TypeInv'
<1> USE DEF TypeInv
<1>1. UNCHANGED << netVars, clientVars, historyVars >>
  BY DEF ReleaseClock, serverVars, threadVars, netVars, clientVars, historyVars
<1>2. ServerTypes'
  BY DEF ReleaseClock, Goto, TypeOK, ServerTypes
<1>3. ThreadTypes'
  BY QueueTypes DEF ReleaseClock, Goto, TypeOK, ThreadTypes, Labels
<1>4. Working'
  BY DEF ReleaseClock, Goto, TypeOK, ThreadTypes, Working, historyVars
<1> QED
  BY <1>1, <1>2, <1>3, <1>4, Frames DEF serverVars, threadVars, netVars, clientVars, historyVars, TypeOK

LEMMA TypeListSockets ==
    ASSUME TypeInv, NEW c \in Client, ListSockets(c)
    PROVE  TypeInv'
<1> USE DEF TypeInv
<1>1. UNCHANGED << serverVars, netVars, clientVars, historyVars >>
  BY DEF ListSockets, serverVars, threadVars, netVars, clientVars, historyVars
<1>2. ThreadTypes'
  <2>1. todo' \in [Client -> Seq(Client \cup {NoClient})]
    BY SocketListType DEF ListSockets, TypeOK, ThreadTypes
  <2> QED
    BY <2>1 DEF ListSockets, Goto, TypeOK, ThreadTypes, Labels
<1>3. Working'
  BY DEF ListSockets, Goto, TypeOK, ThreadTypes, Working, historyVars
<1> QED
  BY <1>1, <1>2, <1>3, Frames DEF serverVars, threadVars, netVars, clientVars, historyVars, TypeOK

LEMMA TypeSerializeText ==
    ASSUME TypeInv, NEW c \in Client, SerializeText(c)
    PROVE  TypeInv'
<1> USE DEF TypeInv
<1>1. UNCHANGED << serverVars, netVars, clientVars, historyVars >>
  BY DEF SerializeText, serverVars, threadVars, netVars, clientVars, historyVars
<1>2. ThreadTypes'
  BY MadePackets DEF SerializeText, Goto, TypeOK, ThreadTypes, Labels
<1>3. Working'
  BY DEF SerializeText, Goto, TypeOK, ThreadTypes, Working, historyVars
<1> QED
  BY <1>1, <1>2, <1>3, Frames DEF serverVars, threadVars, netVars, clientVars, historyVars, TypeOK

LEMMA TypeBroadcast ==
    ASSUME TypeInv, NEW c \in Client, Broadcast(c)
    PROVE  TypeInv'
<1> USE DEF TypeInv
<1>1. UNCHANGED << serverVars, clientVars, historyVars >>
  BY DEF Broadcast, serverVars, threadVars, netVars, clientVars, historyVars
<1>2. ThreadTypes'
  BY QueueTypes DEF Broadcast, SendTo, TypeOK, ThreadTypes, Labels
<1>3. NetTypes'
  <2>1. Head(todo[c]) \in Client \cup {NoClient} /\ msg[c] \in ToClient
    BY QueueTypes DEF Broadcast, TypeOK, ThreadTypes
  <2>2. down' \in [Client -> Seq(ToClient)]
    BY <2>1, SendToType DEF Broadcast, TypeOK, NetTypes
  <2> QED
    BY <2>2 DEF Broadcast, TypeOK, NetTypes
<1>4. Working'
  BY DEF Broadcast, SendTo, TypeOK, ThreadTypes, Working, historyVars
<1> QED
  BY <1>1, <1>2, <1>3, <1>4, Frames DEF serverVars, threadVars, netVars, clientVars, historyVars, TypeOK

LEMMA TypeEndBroadcast ==
    ASSUME TypeInv, NEW c \in Client, EndBroadcast(c)
    PROVE  TypeInv'
<1> USE DEF TypeInv
<1>1. UNCHANGED << serverVars, netVars, clientVars, historyVars >>
  BY DEF EndBroadcast, serverVars, threadVars, netVars, clientVars, historyVars
<1>2. ThreadTypes'
  BY QueueTypes DEF EndBroadcast, Goto, TypeOK, ThreadTypes, Labels
<1>3. Working'
  BY DEF EndBroadcast, Goto, TypeOK, ThreadTypes, Working, historyVars
<1> QED
  BY <1>1, <1>2, <1>3, Frames DEF serverVars, threadVars, netVars, clientVars, historyVars, TypeOK

LEMMA TypeDisconnected ==
    ASSUME TypeInv, NEW c \in Client, Disconnected(c)
    PROVE  TypeInv'
<1> USE DEF TypeInv
<1>1. UNCHANGED << serverVars, netVars, clientVars, historyVars >>
  BY DEF Disconnected, serverVars, threadVars, netVars, clientVars, historyVars
<1>2. ThreadTypes'
  BY MadePackets DEF Disconnected, Goto, TypeOK, ThreadTypes, Labels
<1>3. Working'
  BY DEF Disconnected, Goto, TypeOK, ThreadTypes, Working, historyVars
<1> QED
  BY <1>1, <1>2, <1>3, Frames DEF serverVars, threadVars, netVars, clientVars, historyVars, TypeOK

LEMMA TypeClose ==
    ASSUME TypeInv, NEW c \in Client, Close(c)
    PROVE  TypeInv'
<1> USE DEF TypeInv
<1>1. UNCHANGED << netVars, clientVars, historyVars >>
  BY DEF Close, serverVars, threadVars, netVars, clientVars, historyVars
<1>2. ServerTypes'
  BY DEF Close, Goto, TypeOK, ServerTypes
<1>3. ThreadTypes'
  BY QueueTypes DEF Close, Goto, TypeOK, ThreadTypes, Labels
<1>4. Working'
  BY DEF Close, Goto, TypeOK, ThreadTypes, Working, historyVars
<1> QED
  BY <1>1, <1>2, <1>3, <1>4, Frames DEF serverVars, threadVars, netVars, clientVars, historyVars, TypeOK

LEMMA TypeSaveOnExit ==
    ASSUME TypeInv, NEW c \in Client, SaveOnExit(c)
    PROVE  TypeInv'
<1> USE DEF TypeInv
<1>1. UNCHANGED << netVars, clientVars, historyVars >>
  BY DEF SaveOnExit, serverVars, threadVars, netVars, clientVars, historyVars
<1>2. ServerTypes'
  BY DEF SaveOnExit, Goto, TypeOK, ServerTypes
<1>3. ThreadTypes'
  BY QueueTypes DEF SaveOnExit, Goto, TypeOK, ThreadTypes, Labels
<1>4. Working'
  BY DEF SaveOnExit, Goto, TypeOK, ThreadTypes, Working, historyVars
<1> QED
  BY <1>1, <1>2, <1>3, <1>4, Frames DEF serverVars, threadVars, netVars, clientVars, historyVars, TypeOK

LEMMA TypeAccept ==
    ASSUME TypeInv, Accept
    PROVE  TypeInv'
<1> USE DEF TypeInv
<1>1. UNCHANGED << threadVars, clientVars, historyVars >>
  BY DEF Accept, serverVars, threadVars, netVars, clientVars, historyVars
<1>2. ServerTypes'
  <2>1. Head(backlog) \in Client
    BY DEF Accept, TypeOK, NetTypes
  <2> QED
    BY <2>1, SocketListType DEF Accept, TypeOK, ServerTypes
<1>3. NetTypes'
  BY QueueTypes DEF Accept, TypeOK, NetTypes
<1> QED
  BY <1>1, <1>2, <1>3, Frames DEF serverVars, threadVars, netVars, clientVars, historyVars, TypeOK

LEMMA TypeNotifyOne ==
    ASSUME TypeInv, NotifyOne
    PROVE  TypeInv'
<1> USE DEF TypeInv
<1>1. UNCHANGED << threadVars, clientVars, historyVars >>
  BY DEF NotifyOne, serverVars, threadVars, netVars, clientVars, historyVars
<1>2. ServerTypes'
  BY DEF NotifyOne, SendTo, TypeOK, ServerTypes
<1>3. NetTypes'
  <2>1. Head(notify) \in Client \cup {NoClient}
    BY DEF NotifyOne, TypeOK, ServerTypes
  <2>2. down' \in [Client -> Seq(ToClient)]
    BY <2>1, SendToType, MadePackets DEF NotifyOne, TypeOK, NetTypes
  <2> QED
    BY <2>2 DEF NotifyOne, TypeOK, NetTypes
<1> QED
  BY <1>1, <1>2, <1>3, Frames DEF serverVars, threadVars, netVars, clientVars, historyVars, TypeOK

LEMMA TypeStartThread ==
    ASSUME TypeInv, StartThread
    PROVE  TypeInv'
<1> USE DEF TypeInv
<1>1. UNCHANGED << netVars, clientVars >>
  BY DEF StartThread, serverVars, threadVars, netVars, clientVars, historyVars
<1>2. ServerTypes'
  BY DEF StartThread, TypeOK, ServerTypes
<1>3. ThreadTypes'
  BY QueueTypes DEF StartThread, Goto, TypeOK, ThreadTypes, Labels
<1>4. HistoryTypes'
  <2>1. Missed \in [Client -> Nat]
    BY DEF Missed, TypeOK, HistoryTypes, Working
  <2> QED
    BY <2>1 DEF StartThread, TypeOK, HistoryTypes
<1>5. Working'
  BY DEF StartThread, Goto, TypeOK, ThreadTypes, HistoryTypes, Working
<1> QED
  BY <1>1, <1>2, <1>3, <1>4, <1>5, Frames DEF serverVars, threadVars, netVars, clientVars, historyVars, TypeOK

LEMMA TypePressChar ==
    ASSUME TypeInv, NEW c \in Client, PressChar(c)
    PROVE  TypeInv'
<1> USE DEF TypeInv
<1>1. UNCHANGED << serverVars, threadVars, netVars, historyVars >>
  BY DEF PressChar, Press, serverVars, threadVars, netVars, clientVars, historyVars
<1>2. ClientTypes'
  <2>1. /\ presses' \in [Client -> 0 .. MaxKeys]
        /\ UNCHANGED << client, local, loop >>
    BY SessionAssumption DEF PressChar, Press, TypeOK, ClientTypes
  <2>2. modified' \in [Client -> BOOLEAN]
    BY DEF PressChar, SetFlag, TypeOK, ClientTypes
  <2>3. /\ cursor[c].line \in Nat /\ cursor[c].index \in Nat
        /\ Blank \in Char
    BY SessionAssumption DEF TypeOK, ClientTypes, Position
  <2>4. pending' \in [Client -> Seq(ToServer)]
    <3>1. \A char \in Char :
             << Edit(c, "Insert", cursor[c].line, cursor[c].index, char) >> \in Seq(ToServer)
      BY <2>3, MadeEdits, EditFields
    <3> QED
      BY <3>1 DEF PressChar, Then, TypeOK, ClientTypes
  <2>5. cursor' \in [Client -> Position]
    <3>1. \A w \in InsertedWidth(c, Blank, 1) : w \in Nat
      BY <2>3, InsertedWidthType
    <3>2. \A w \in Nat : Least(cursor[c].index + 1, w) \in Nat
      BY <2>3 DEF Least
    <3> QED
      BY <2>3, <3>1, <3>2 DEF PressChar, CursorTo, Position, TypeOK, ClientTypes
  <2> QED
    BY <2>1, <2>2, <2>4, <2>5 DEF TypeOK, ClientTypes
<1> QED
  BY <1>1, <1>2, Frames DEF serverVars, threadVars, netVars, clientVars, historyVars, TypeOK

LEMMA TypePressTab ==
    ASSUME TypeInv, NEW c \in Client, PressTab(c)
    PROVE  TypeInv'
<1> USE DEF TypeInv
<1>1. UNCHANGED << serverVars, threadVars, netVars, historyVars >>
  BY DEF PressTab, Press, serverVars, threadVars, netVars, clientVars, historyVars
<1>2. ClientTypes'
  <2>1. /\ presses' \in [Client -> 0 .. MaxKeys]
        /\ UNCHANGED << client, local, loop >>
    BY SessionAssumption DEF PressTab, Press, TypeOK, ClientTypes
  <2>2. modified' \in [Client -> BOOLEAN]
    BY DEF PressTab, SetFlag, TypeOK, ClientTypes
  <2>3. /\ cursor[c].line \in Nat /\ cursor[c].index \in Nat
        /\ Blank \in Char
    BY SessionAssumption DEF TypeOK, ClientTypes, Position
  <2>4. pending' \in [Client -> Seq(ToServer)]
    <3> DEFINE e == Edit(c, "Insert", cursor[c].line, cursor[c].index, Blank)
    <3>1. e \in ToServer
      BY <2>3, MadeEdits, EditFields
    <3>2. [i \in 1 .. TabWidth |-> e] \in Seq(ToServer)
      <4> HIDE DEF e
      <4> QED
        BY <3>1, SessionAssumption
    <3> QED
      BY <3>2 DEF PressTab, Then, TypeOK, ClientTypes
  <2>5. cursor' \in [Client -> Position]
    <3>1. \A w \in InsertedWidth(c, Blank, TabWidth) : w \in Nat
      BY <2>3, InsertedWidthType, SessionAssumption
    <3>2. \A w \in Nat : Least(cursor[c].index + TabWidth, w) \in Nat
      BY <2>3, SessionAssumption DEF Least
    <3> QED
      BY <2>3, <3>1, <3>2 DEF PressTab, CursorTo, Position, TypeOK, ClientTypes
  <2> QED
    BY <2>1, <2>2, <2>4, <2>5 DEF TypeOK, ClientTypes
<1> QED
  BY <1>1, <1>2, Frames DEF serverVars, threadVars, netVars, clientVars, historyVars, TypeOK

LEMMA TypePressEnter ==
    ASSUME TypeInv, NEW c \in Client, PressEnter(c)
    PROVE  TypeInv'
<1> USE DEF TypeInv
<1>1. UNCHANGED << serverVars, threadVars, netVars, historyVars >>
  BY DEF PressEnter, Press, serverVars, threadVars, netVars, clientVars, historyVars
<1>2. ClientTypes'
  <2>1. /\ presses' \in [Client -> 0 .. MaxKeys]
        /\ UNCHANGED << client, local, loop >>
    BY SessionAssumption DEF PressEnter, Press, TypeOK, ClientTypes
  <2>2. modified' \in [Client -> BOOLEAN]
    BY DEF PressEnter, SetFlag, TypeOK, ClientTypes
  <2>3. /\ cursor[c].line \in Nat /\ cursor[c].index \in Nat
        /\ Blank \in Char
    BY SessionAssumption DEF TypeOK, ClientTypes, Position
  <2>4. pending' \in [Client -> Seq(ToServer)]
    <3>1. << Edit(c, "Insert", cursor[c].line, cursor[c].index, Enter) >> \in Seq(ToServer)
      BY <2>3, MadeEdits, EditFields
    <3> QED
      BY <3>1 DEF PressEnter, Then, TypeOK, ClientTypes
  <2>5. cursor' \in [Client -> Position]
    BY <2>3 DEF PressEnter, CursorTo, Position, TypeOK, ClientTypes
  <2> QED
    BY <2>1, <2>2, <2>4, <2>5 DEF TypeOK, ClientTypes
<1> QED
  BY <1>1, <1>2, Frames DEF serverVars, threadVars, netVars, clientVars, historyVars, TypeOK

LEMMA TypePressBackspace ==
    ASSUME TypeInv, NEW c \in Client, PressBackspace(c)
    PROVE  TypeInv'
<1> USE DEF TypeInv
<1>1. UNCHANGED << serverVars, threadVars, netVars, historyVars >>
  BY DEF PressBackspace, Press, serverVars, threadVars, netVars, clientVars, historyVars
<1>2. ClientTypes'
  <2>1. /\ presses' \in [Client -> 0 .. MaxKeys]
        /\ UNCHANGED << client, local, loop >>
    BY SessionAssumption DEF PressBackspace, Press, TypeOK, ClientTypes
  <2>2. modified' \in [Client -> BOOLEAN]
    BY DEF PressBackspace, SetFlag, TypeOK, ClientTypes
  <2>3. /\ cursor[c].line \in Nat /\ cursor[c].index \in Nat
        /\ Blank \in Char
    BY SessionAssumption DEF TypeOK, ClientTypes, Position
  <2> DEFINE line == cursor[c].line
             x == cursor[c].index
  <2>6. CASE x = 0 /\ line = 0
    BY <2>1, <2>2, <2>6, SMT DEF PressBackspace, TypeOK, ClientTypes
  <2>7. CASE x > 0
    <3>1. PICK w \in Width(c, line) :
              /\ Then(c, << Edit(c, "Remove", line, Least(x - 1, w), Enter) >>)
              /\ CursorTo(c, line, Least(x - 1, w))
      BY <2>7 DEF PressBackspace
    <3>2. Least(x - 1, w) \in Nat
      BY <2>3, <2>7, <3>1, WidthType DEF Least
    <3>3. << Edit(c, "Remove", line, Least(x - 1, w), Enter) >> \in Seq(ToServer)
      BY <2>3, <3>2, MadeEdits, EditFields
    <3> QED
      BY <2>1, <2>2, <2>3, <3>1, <3>2, <3>3 DEF Then, CursorTo, Position, TypeOK, ClientTypes
  <2>8. CASE x = 0 /\ line > 0
    <3>1. /\ Then(c, << Edit(c, "Remove", line, Join, Enter) >>)
          /\ \E w \in Width(c, line - 1) : CursorTo(c, line - 1, w)
      BY <2>8 DEF PressBackspace
    <3>2. << Edit(c, "Remove", line, Join, Enter) >> \in Seq(ToServer)
      <4>1. Join \in Nat \cup {Join} /\ "Remove" \in {"Insert", "Remove"}
            /\ Enter \in Char \cup {Enter} /\ line \in Nat
        BY <2>3
      <4>2. Edit(c, "Remove", line, Join, Enter) \in EditPacket
        BY <4>1, MadeEdits, Zenon
      <4> QED
        BY <4>2, EditFields
    <3>3. line - 1 \in Nat /\ Width(c, line - 1) \subseteq Nat
      BY <2>3, <2>8, WidthType
    <3> QED
      BY <2>1, <2>2, <3>1, <3>2, <3>3 DEF Then, CursorTo, Position, TypeOK, ClientTypes
  <2> QED
    BY <2>3, <2>6, <2>7, <2>8
<1> QED
  BY <1>1, <1>2, Frames DEF serverVars, threadVars, netVars, clientVars, historyVars, TypeOK

LEMMA TypePressDelete ==
    ASSUME TypeInv, NEW c \in Client, PressDelete(c)
    PROVE  TypeInv'
<1> USE DEF TypeInv
<1>1. UNCHANGED << serverVars, threadVars, netVars, historyVars >>
  BY DEF PressDelete, Press, serverVars, threadVars, netVars, clientVars, historyVars
<1>2. ClientTypes'
  <2>1. /\ presses' \in [Client -> 0 .. MaxKeys]
        /\ UNCHANGED << client, local, loop >>
    BY SessionAssumption DEF PressDelete, Press, TypeOK, ClientTypes
  <2>2. modified' \in [Client -> BOOLEAN]
    BY DEF PressDelete, SetFlag, TypeOK, ClientTypes
  <2>3. /\ cursor[c].line \in Nat /\ cursor[c].index \in Nat
        /\ Blank \in Char
    BY SessionAssumption DEF TypeOK, ClientTypes, Position
  <2>4. pending' \in [Client -> Seq(ToServer)]
    <3>1. /\ << Edit(c, "Remove", cursor[c].line, cursor[c].index, Enter) >> \in Seq(ToServer)
          /\ << Edit(c, "Remove", cursor[c].line + 1, Join, Enter) >> \in Seq(ToServer)
      <4>1. Join \in Nat \cup {Join} /\ "Remove" \in {"Insert", "Remove"}
            /\ Enter \in Char \cup {Enter} /\ cursor[c].line + 1 \in Nat
        BY <2>3
      <4>2. Edit(c, "Remove", cursor[c].line + 1, Join, Enter) \in EditPacket
        BY <4>1, MadeEdits, Zenon
      <4>3. Edit(c, "Remove", cursor[c].line, cursor[c].index, Enter) \in EditPacket
        BY <2>3, MadeEdits
      <4> QED
        BY <4>2, <4>3, EditFields
    <3> QED
      BY <3>1 DEF PressDelete, Then, TypeOK, ClientTypes
  <2>5. cursor' \in [Client -> Position]
    BY DEF PressDelete, TypeOK, ClientTypes
  <2> QED
    BY <2>1, <2>2, <2>4, <2>5 DEF TypeOK, ClientTypes
<1> QED
  BY <1>1, <1>2, Frames DEF serverVars, threadVars, netVars, clientVars, historyVars, TypeOK

LEMMA TypePressCommand ==
    ASSUME TypeInv, NEW c \in Client, PressCommand(c)
    PROVE  TypeInv'
<1> USE DEF TypeInv
<1>1. UNCHANGED << serverVars, threadVars, netVars, historyVars >>
  BY DEF PressCommand, Press, serverVars, threadVars, netVars, clientVars, historyVars
<1>2. ClientTypes'
  <2>1. /\ presses' \in [Client -> 0 .. MaxKeys]
        /\ UNCHANGED << client, local, loop >>
    <3>1. \E kind \in KeyKind : Press(c, kind)
      BY DEF PressCommand, KeyKind
    <3> QED
      BY <3>1, SessionAssumption DEF Press, TypeOK, ClientTypes
  <2>2. modified' \in [Client -> BOOLEAN]
    BY DEF PressCommand, SetFlag, TypeOK, ClientTypes
  <2>4. pending' \in [Client -> Seq(ToServer)]
    <3>1. \A p \in ToServer : << p >> \in Seq(ToServer)
      OBVIOUS
    <3>2. PICK p \in ToServer : Then(c, << p >>)
      BY MadePackets DEF PressCommand
    <3> QED
      BY <3>1, <3>2 DEF Then, TypeOK, ClientTypes
  <2>5. cursor' \in [Client -> Position]
    BY DEF PressCommand, TypeOK, ClientTypes
  <2> QED
    BY <2>1, <2>2, <2>4, <2>5 DEF TypeOK, ClientTypes
<1> QED
  BY <1>1, <1>2, Frames DEF serverVars, threadVars, netVars, clientVars, historyVars, TypeOK

LEMMA TypePressSync ==
    ASSUME TypeInv, NEW c \in Client, PressSync(c)
    PROVE  TypeInv'
<1> USE DEF TypeInv
<1>1. UNCHANGED << serverVars, threadVars, netVars, historyVars >>
  BY DEF PressSync, Press, serverVars, threadVars, netVars, clientVars, historyVars
<1>2. ClientTypes'
  <2>1. /\ presses' \in [Client -> 0 .. MaxKeys]
        /\ UNCHANGED << client, local, loop >>
    BY SessionAssumption DEF PressSync, Press, TypeOK, ClientTypes
  <2>2. modified' \in [Client -> BOOLEAN]
    BY DEF PressSync, SetFlag, TypeOK, ClientTypes
  <2>4. pending' \in [Client -> Seq(ToServer)]
    <3>1. << GetFull >> \in Seq(ToServer)
      BY MadePackets
    <3> QED
      BY <3>1 DEF PressSync, Then, TypeOK, ClientTypes
  <2>5. cursor' \in [Client -> Position]
    BY DEF PressSync, TypeOK, ClientTypes
  <2> QED
    BY <2>1, <2>2, <2>4, <2>5 DEF TypeOK, ClientTypes
<1> QED
  BY <1>1, <1>2, Frames DEF serverVars, threadVars, netVars, clientVars, historyVars, TypeOK

LEMMA TypeMoveCursor ==
    ASSUME TypeInv, NEW c \in Client, MoveCursor(c)
    PROVE  TypeInv'
<1> USE DEF TypeInv
<1>1. UNCHANGED << serverVars, threadVars, netVars, historyVars >>
  BY DEF MoveCursor, serverVars, threadVars, netVars, clientVars, historyVars
<1>2. ClientTypes'
  <2>1. PICK p \in Reach[c] : cursor' = [cursor EXCEPT ![c] = p]
    BY DEF MoveCursor
  <2>2. p \in Position
    BY SessionAssumption
  <2> QED
    BY <2>1, <2>2 DEF MoveCursor, TypeOK, ClientTypes
<1> QED
  BY <1>1, <1>2, Frames DEF serverVars, threadVars, netVars, clientVars, historyVars, TypeOK

LEMMA TypeSendEdit ==
    ASSUME TypeInv, NEW c \in Client, SendEdit(c)
    PROVE  TypeInv'
<1> USE DEF TypeInv
<1>1. UNCHANGED << serverVars, threadVars, applied >>
  BY DEF SendEdit, serverVars, threadVars, netVars, clientVars, historyVars
<1>2. NetTypes'
  <2> DEFINE p == [Head(pending[c]) EXCEPT !.n = issued[c] + 1]
  <2>1. p \in EditPacket
    BY SentEdits DEF SendEdit
  <2>2. up' \in [Client -> Seq(ToServer)]
    BY <2>1, EditFields, SendUpType DEF SendEdit
  <2> QED
    BY <2>2 DEF SendEdit, TypeOK, NetTypes
<1>3. ClientTypes'
  <2> DEFINE p == [Head(pending[c]) EXCEPT !.n = issued[c] + 1]
  <2>1. p \in EditPacket /\ local[c] \in Doc
    BY SentEdits DEF SendEdit, TypeOK, ClientTypes
  <2>2. local' \in [Client -> Doc]
    <3>1. CASE local' = [local EXCEPT ![c] = InsertChar(@, p.line, p.index, p.char)]
      <4>1. InsertChar(local[c], p.line, p.index, p.char) \in Doc
        BY <2>1, EditFields, InsertCharType
      <4> QED
        BY <3>1, <4>1 DEF TypeOK, ClientTypes
    <3>2. CASE \E doc \in RemoveChar(local[c], p.line, p.index) :
                  local' = [local EXCEPT ![c] = doc]
      <4>1. \A doc \in RemoveChar(local[c], p.line, p.index) : doc \in Doc
        BY <2>1, EditFields, RemoveCharType
      <4> QED
        BY <3>2, <4>1 DEF TypeOK, ClientTypes
    <3> QED
      BY <3>1, <3>2 DEF SendEdit
  <2>3. pending' \in [Client -> Seq(ToServer)]
    BY QueueTypes DEF SendEdit, TypeOK, ClientTypes
  <2> QED
    BY <2>2, <2>3 DEF SendEdit, TypeOK, ClientTypes
<1>4. HistoryTypes'
  BY DEF SendEdit, TypeOK, HistoryTypes
<1> QED
  BY <1>1, <1>2, <1>3, <1>4, Frames DEF serverVars, threadVars, netVars, clientVars, historyVars, TypeOK

LEMMA TypeSendRequest ==
    ASSUME TypeInv, NEW c \in Client, SendRequest(c)
    PROVE  TypeInv'
<1> USE DEF TypeInv
<1>1. UNCHANGED << serverVars, threadVars, historyVars >>
  BY DEF SendRequest, serverVars, threadVars, netVars, clientVars, historyVars
<1>2. NetTypes'
  <2>1. up' \in [Client -> Seq(ToServer)]
    BY QueueTypes, SendUpType DEF SendRequest
  <2> QED
    BY <2>1 DEF SendRequest, TypeOK, NetTypes
<1>3. ClientTypes'
  BY QueueTypes DEF SendRequest, TypeOK, ClientTypes
<1> QED
  BY <1>1, <1>2, <1>3, Frames DEF serverVars, threadVars, netVars, clientVars, historyVars, TypeOK

LEMMA TypeForcedText ==
    ASSUME TypeInv, NEW c \in Client, ForcedText(c)
    PROVE  TypeInv'
<1> USE DEF TypeInv
<1>1. UNCHANGED << serverVars, threadVars, historyVars >>
  BY DEF ForcedText, Handles, serverVars, threadVars, netVars, clientVars, historyVars
<1>2. NetTypes'
  BY QueueTypes DEF ForcedText, Handles, TypeOK, NetTypes
<1>3. ClientTypes'
  <2>1. Head(down[c]).text \in Doc
    BY QueueTypes, ContentPackets DEF ForcedText, Handles, Content
  <2> QED
    BY <2>1 DEF ForcedText, Handles, CursorTo, Position, TypeOK, ClientTypes
<1> QED
  BY <1>1, <1>2, <1>3, Frames DEF serverVars, threadVars, netVars, clientVars, historyVars, TypeOK

LEMMA TypeOverwrite ==
    ASSUME TypeInv, NEW c \in Client, Overwrite(c)
    PROVE  TypeInv'
<1> USE DEF TypeInv
<1>1. UNCHANGED << serverVars, threadVars, historyVars >>
  BY DEF Overwrite, Handles, serverVars, threadVars, netVars, clientVars, historyVars
<1>2. NetTypes'
  BY QueueTypes DEF Overwrite, Handles, TypeOK, NetTypes
<1>3. ClientTypes'
  <2>1. Head(down[c]).text \in Doc
    BY QueueTypes, ContentPackets DEF Overwrite, Handles, Content
  <2> QED
    BY <2>1 DEF Overwrite, Handles, CursorTo, Position, TypeOK, ClientTypes
<1> QED
  BY <1>1, <1>2, <1>3, Frames DEF serverVars, threadVars, netVars, clientVars, historyVars, TypeOK

LEMMA TypeIgnoreText ==
    ASSUME TypeInv, NEW c \in Client, IgnoreText(c)
    PROVE  TypeInv'
<1> USE DEF TypeInv
<1>1. UNCHANGED << serverVars, threadVars, clientVars, historyVars >>
  BY DEF IgnoreText, Handles, serverVars, threadVars, netVars, clientVars, historyVars
<1>2. NetTypes'
  BY QueueTypes DEF IgnoreText, Handles, TypeOK, NetTypes
<1> QED
  BY <1>1, <1>2, Frames DEF serverVars, threadVars, netVars, clientVars, historyVars, TypeOK

LEMMA TypeRemoteEdit ==
    ASSUME TypeInv, NEW c \in Client, RemoteEdit(c)
    PROVE  TypeInv'
<1> USE DEF TypeInv
<1>1. UNCHANGED << serverVars, threadVars, applied >>
  BY DEF RemoteEdit, Handles, serverVars, threadVars, netVars, clientVars, historyVars
<1>2. NetTypes'
  BY QueueTypes DEF RemoteEdit, Handles, TypeOK, NetTypes
<1>3. ClientTypes'
  <2> DEFINE p == Head(down[c])
  <2>1. p \in EditPacket /\ local[c] \in Doc
    BY QueueTypes, EditPackets DEF RemoteEdit, Handles, TypeOK, ClientTypes
  <2>2. local' \in [Client -> Doc]
    <3>1. CASE local' = [local EXCEPT ![c] = InsertChar(@, p.line, p.index, p.char)]
      <4>1. InsertChar(local[c], p.line, p.index, p.char) \in Doc
        BY <2>1, EditFields, InsertCharType
      <4> QED
        BY <3>1, <4>1 DEF TypeOK, ClientTypes
    <3>2. CASE \E doc \in RemoveChar(local[c], p.line, p.index) :
                  local' = [local EXCEPT ![c] = doc]
      <4>1. \A doc \in RemoveChar(local[c], p.line, p.index) : doc \in Doc
        BY <2>1, EditFields, RemoveCharType
      <4> QED
        BY <3>2, <4>1 DEF TypeOK, ClientTypes
    <3> QED
      BY <3>1, <3>2 DEF RemoteEdit
  <2> QED
    BY <2>2 DEF RemoteEdit, Handles, TypeOK, ClientTypes
<1>4. HistoryTypes'
  <2>1. Head(down[c]).from \in Client /\ Head(down[c]).n \in Nat
    BY QueueTypes, EditPackets, EditFields DEF RemoteEdit, Handles
  <2>2. got' \in [Client -> [Client -> Nat]]
    BY <2>1 DEF RemoteEdit, TypeOK, HistoryTypes
  <2> QED
    BY <2>2 DEF RemoteEdit, Handles, TypeOK, HistoryTypes
<1> QED
  BY <1>1, <1>2, <1>3, <1>4, Frames DEF serverVars, threadVars, netVars, clientVars, historyVars, TypeOK

LEMMA TypeShowNotice ==
    ASSUME TypeInv, NEW c \in Client, ShowNotice(c)
    PROVE  TypeInv'
<1> USE DEF TypeInv
<1>1. UNCHANGED << serverVars, threadVars, clientVars, historyVars >>
  BY DEF ShowNotice, Handles, serverVars, threadVars, netVars, clientVars, historyVars
<1>2. NetTypes'
  BY QueueTypes DEF ShowNotice, Handles, TypeOK, NetTypes
<1> QED
  BY <1>1, <1>2, Frames DEF serverVars, threadVars, netVars, clientVars, historyVars, TypeOK

LEMMA TypeClearFlag ==
    ASSUME TypeInv, NEW c \in Client, ClearFlag(c)
    PROVE  TypeInv'
<1> USE DEF TypeInv
<1>1. UNCHANGED << serverVars, threadVars, netVars, historyVars >>
  BY DEF ClearFlag, serverVars, threadVars, netVars, clientVars, historyVars
<1>2. ClientTypes'
  BY DEF ClearFlag, SetFlag, TypeOK, ClientTypes
<1> QED
  BY <1>1, <1>2, Frames DEF serverVars, threadVars, netVars, clientVars, historyVars, TypeOK

LEMMA TypeAskForText ==
    ASSUME TypeInv, NEW c \in Client, AskForText(c)
    PROVE  TypeInv'
<1> USE DEF TypeInv
<1>1. UNCHANGED << serverVars, threadVars, historyVars >>
  BY DEF AskForText, serverVars, threadVars, netVars, clientVars, historyVars
<1>2. NetTypes'
  <2>1. up' \in [Client -> Seq(ToServer)]
    BY MadePackets, SendUpType DEF AskForText
  <2> QED
    BY <2>1 DEF AskForText, TypeOK, NetTypes
<1>3. ClientTypes'
  BY DEF AskForText, TypeOK, ClientTypes
<1> QED
  BY <1>1, <1>2, <1>3, Frames DEF serverVars, threadVars, netVars, clientVars, historyVars, TypeOK

LEMMA TypeConnect ==
    ASSUME TypeInv, NEW c \in Client, Connect(c)
    PROVE  TypeInv'
<1> USE DEF TypeInv
<1>1. UNCHANGED << serverVars, threadVars, historyVars >>
  BY DEF Connect, serverVars, threadVars, netVars, clientVars, historyVars
<1>2. NetTypes'
  BY MadePackets DEF Connect, TypeOK, NetTypes
<1>3. ClientTypes'
  BY DEF Connect, TypeOK, ClientTypes
<1> QED
  BY <1>1, <1>2, <1>3, Frames DEF serverVars, threadVars, netVars, clientVars, historyVars, TypeOK

LEMMA TypeEnds ==
    ASSUME TypeInv, NEW c \in Client, Ends(c)
    PROVE  TypeInv'
<1> USE DEF TypeInv
<1>1. UNCHANGED << serverVars, threadVars, historyVars >>
  BY DEF Ends, serverVars, threadVars, netVars, clientVars, historyVars
<1>2. NetTypes'
  BY QueueTypes DEF Ends, TypeOK, NetTypes
<1>3. ClientTypes'
  BY DEF Ends, TypeOK, ClientTypes
<1> QED
  BY <1>1, <1>2, <1>3, Frames DEF serverVars, threadVars, netVars, clientVars, historyVars, TypeOK

LEMMA TypeNoticeLoss ==
    ASSUME TypeInv, NEW c \in Client, NoticeLoss(c)
    PROVE  TypeInv'
<1> USE DEF TypeInv
<1>1. UNCHANGED << serverVars, threadVars, historyVars >>
  BY DEF NoticeLoss, serverVars, threadVars, netVars, clientVars, historyVars
<1>2. NetTypes'
  BY QueueTypes DEF NoticeLoss, TypeOK, NetTypes
<1>3. ClientTypes'
  BY DEF NoticeLoss, TypeOK, ClientTypes
<1> QED
  BY <1>1, <1>2, <1>3, Frames DEF serverVars, threadVars, netVars, clientVars, historyVars, TypeOK

LEMMA TypeContinueLocally ==
    ASSUME TypeInv, NEW c \in Client, ContinueLocally(c)
    PROVE  TypeInv'
<1> USE DEF TypeInv
<1>1. UNCHANGED << serverVars, threadVars, netVars, historyVars >>
  BY DEF ContinueLocally, serverVars, threadVars, netVars, clientVars, historyVars
<1>2. ClientTypes'
  BY DEF ContinueLocally, TypeOK, ClientTypes
<1> QED
  BY <1>1, <1>2, Frames DEF serverVars, threadVars, netVars, clientVars, historyVars, TypeOK

LEMMA TypeStep ==
    ASSUME TypeInv, [Next]_vars, \A c \in Client : ApplyEdit(c) => Head(up[c]).n > 0
    PROVE  TypeInv'
<1>1. CASE AcceptorStep
  BY <1>1, TypeAccept, TypeNotifyOne, TypeStartThread DEF AcceptorStep
<1>2. ASSUME NEW c \in Client, ServerStep(c) PROVE TypeInv'
  BY <1>2, TypeApplyEdit, TypeCrashOnErase, TypeWriteToDisk, TypeReadFromDisk, TypeAnswer,
     TypeReply, TypeTakeClock, TypeForward, TypeReleaseClock, TypeListSockets,
     TypeSerializeText, TypeBroadcast, TypeEndBroadcast, TypeDisconnected, TypeClose,
     TypeSaveOnExit DEF ServerStep
<1>3. ASSUME NEW c \in Client, ClientStep(c) PROVE TypeInv'
  BY <1>3, TypeSendEdit, TypeSendRequest, TypeForcedText, TypeOverwrite, TypeIgnoreText,
     TypeRemoteEdit, TypeShowNotice, TypeClearFlag, TypeAskForText, TypeEnds, TypeNoticeLoss
  DEF ClientStep, KeyboardStep, HandlerStep, LoopStep, ClientCrash
<1>4. ASSUME NEW c \in Client, UserStep(c) PROVE TypeInv'
  BY <1>4, TypePressChar, TypePressTab, TypePressEnter, TypePressBackspace, TypePressDelete,
     TypePressCommand, TypePressSync, TypeMoveCursor, TypeConnect, TypeEnds,
     TypeContinueLocally
  DEF UserStep, Quit
<1>5. CASE UNCHANGED vars
  BY <1>5, Frames DEF TypeInv, TypeOK, vars, threadVars, historyVars
<1> QED
  BY <1>1, <1>2, <1>3, <1>4, <1>5 DEF Next

-----------------------------------------------------------------------------
(***************************************************************************)
(* Streams in a queue: what happens to them at its head and at its tail.   *)
(***************************************************************************)
Numbered(S, a) == \A p \in S : EditOf(p, a) => p.n \in Int

LEMMA GaplessHead ==
    ASSUME NEW S, NEW s \in Seq(S), NEW a, Numbered(S, a), NEW low \in Int,
           s # << >>, Gapless(s, a, low), EditOf(Head(s), a)
    PROVE  Head(s).n = low + 1
<1>1. 1 \in DOMAIN s /\ s[1] = Head(s) /\ s[1] \in S
  OBVIOUS
<1>2. s[1].n \in Int
  BY <1>1 DEF Numbered
<1>3. /\ s[1].n > low
      /\ \A k \in low + 1 .. s[1].n - 1 : \E j \in 1 .. 1 - 1 : EditOf(s[j], a) /\ s[j].n = k
  BY <1>1 DEF Gapless
<1>4. low + 1 \notin low + 1 .. s[1].n - 1
  BY <1>3
<1> QED
  BY <1>1, <1>2, <1>3, <1>4

LEMMA GaplessTailEdit ==
    ASSUME NEW S, NEW s \in Seq(S), NEW a, Numbered(S, a), NEW low \in Int,
           s # << >>, Gapless(s, a, low), EditOf(Head(s), a)
    PROVE  Gapless(Tail(s), a, low + 1)
<1> DEFINE t == Tail(s)
<1>1. /\ t \in Seq(S) /\ Len(t) = Len(s) - 1 /\ Len(s) \in Nat
      /\ DOMAIN t = 1 .. Len(t) /\ DOMAIN s = 1 .. Len(s)
      /\ \A i \in DOMAIN t : t[i] = s[i + 1] /\ i + 1 \in DOMAIN s
  OBVIOUS
<1>2. s[1] = Head(s) /\ s[1].n = low + 1 /\ EditOf(s[1], a)
  BY GaplessHead
<1>3. ASSUME NEW i \in DOMAIN t, EditOf(t[i], a)
      PROVE  /\ t[i].n > low + 1
             /\ \A j \in 1 .. i - 1 : EditOf(t[j], a) => t[j].n < t[i].n
             /\ \A k \in low + 1 + 1 .. t[i].n - 1 :
                   \E j \in 1 .. i - 1 : EditOf(t[j], a) /\ t[j].n = k
  <2>1. /\ i + 1 \in DOMAIN s /\ t[i] = s[i + 1] /\ i \in Nat /\ i >= 1
        /\ s[i + 1] \in S
    BY <1>1
  <2>2. s[i + 1].n \in Int
    BY <2>1, <1>3 DEF Numbered
  <2>3. /\ \A j \in 1 .. i + 1 - 1 : EditOf(s[j], a) => s[j].n < s[i + 1].n
        /\ \A k \in low + 1 .. s[i + 1].n - 1 :
              \E j \in 1 .. i + 1 - 1 : EditOf(s[j], a) /\ s[j].n = k
    BY <2>1, <1>3 DEF Gapless
  <2>4. t[i].n > low + 1
    BY <1>2, <2>1, <2>2, <2>3
  <2>5. ASSUME NEW j \in 1 .. i - 1, EditOf(t[j], a) PROVE t[j].n < t[i].n
    <3>1. j + 1 \in 1 .. i + 1 - 1 /\ t[j] = s[j + 1]
      BY <1>1, <2>1
    <3> QED
      BY <3>1, <2>3, <2>1, <2>5
  <2>6. ASSUME NEW k \in low + 1 + 1 .. t[i].n - 1
        PROVE  \E j \in 1 .. i - 1 : EditOf(t[j], a) /\ t[j].n = k
    <3>1. k \in low + 1 .. s[i + 1].n - 1
      BY <2>1, <2>2
    <3>2. PICK j \in 1 .. i : EditOf(s[j], a) /\ s[j].n = k
      BY <2>1, <2>3, <3>1
    <3>3. j # 1
      BY <1>2, <3>2
    <3>4. j - 1 \in 1 .. i - 1 /\ j - 1 \in DOMAIN t /\ t[j - 1] = s[j]
      BY <1>1, <2>1, <3>3
    <3> QED
      BY <3>2, <3>4
  <2> QED
    BY <2>4, <2>5, <2>6
<1> QED
  BY <1>3 DEF Gapless

LEMMA GaplessTailOther ==
    ASSUME NEW S, NEW s \in Seq(S), NEW a, NEW low \in Int,
           s # << >>, Gapless(s, a, low), ~ EditOf(Head(s), a)
    PROVE  Gapless(Tail(s), a, low)
<1> DEFINE t == Tail(s)
<1>1. /\ t \in Seq(S) /\ Len(t) = Len(s) - 1 /\ Len(s) \in Nat
      /\ DOMAIN t = 1 .. Len(t) /\ DOMAIN s = 1 .. Len(s)
      /\ \A i \in DOMAIN t : t[i] = s[i + 1] /\ i + 1 \in DOMAIN s
  OBVIOUS
<1>2. ~ EditOf(s[1], a)
  BY <1>1
<1>3. ASSUME NEW i \in DOMAIN t, EditOf(t[i], a)
      PROVE  /\ t[i].n > low
             /\ \A j \in 1 .. i - 1 : EditOf(t[j], a) => t[j].n < t[i].n
             /\ \A k \in low + 1 .. t[i].n - 1 :
                   \E j \in 1 .. i - 1 : EditOf(t[j], a) /\ t[j].n = k
  <2>1. i + 1 \in DOMAIN s /\ t[i] = s[i + 1] /\ i \in Nat /\ i >= 1
    BY <1>1
  <2>2. /\ s[i + 1].n > low
        /\ \A j \in 1 .. i + 1 - 1 : EditOf(s[j], a) => s[j].n < s[i + 1].n
        /\ \A k \in low + 1 .. s[i + 1].n - 1 :
              \E j \in 1 .. i + 1 - 1 : EditOf(s[j], a) /\ s[j].n = k
    BY <2>1, <1>3 DEF Gapless
  <2>3. ASSUME NEW j \in 1 .. i - 1, EditOf(t[j], a) PROVE t[j].n < t[i].n
    <3>1. j + 1 \in 1 .. i + 1 - 1 /\ t[j] = s[j + 1]
      BY <1>1, <2>1
    <3> QED
      BY <3>1, <2>2, <2>1, <2>3
  <2>4. ASSUME NEW k \in low + 1 .. t[i].n - 1
        PROVE  \E j \in 1 .. i - 1 : EditOf(t[j], a) /\ t[j].n = k
    <3>1. PICK j \in 1 .. i : EditOf(s[j], a) /\ s[j].n = k
      BY <2>1, <2>2
    <3>2. j # 1
      BY <1>2, <3>1
    <3>3. j - 1 \in 1 .. i - 1 /\ j - 1 \in DOMAIN t /\ t[j - 1] = s[j]
      BY <1>1, <2>1, <3>2
    <3> QED
      BY <3>1, <3>3
  <2> QED
    BY <2>1, <2>2, <2>3, <2>4
<1> QED
  BY <1>3 DEF Gapless

LEMMA UpToTail ==
    ASSUME NEW S, NEW s \in Seq(S), NEW a, Numbered(S, a),
           NEW low \in Int, NEW high \in Int,
           s # << >>, Gapless(s, a, low), UpTo(s, a, low, high)
    PROVE  /\ EditOf(Head(s), a) => UpTo(Tail(s), a, low + 1, high)
           /\ ~ EditOf(Head(s), a) => UpTo(Tail(s), a, low, high)
<1> DEFINE t == Tail(s)
<1>1. /\ t \in Seq(S) /\ Len(t) = Len(s) - 1 /\ Len(s) \in Nat
      /\ DOMAIN t = 1 .. Len(t) /\ DOMAIN s = 1 .. Len(s)
      /\ \A i \in DOMAIN t : t[i] = s[i + 1] /\ i + 1 \in DOMAIN s
      /\ \A i \in DOMAIN s : i # 1 => i - 1 \in DOMAIN t /\ t[i - 1] = s[i]
      /\ s[1] = Head(s) /\ 1 \in DOMAIN s
  OBVIOUS
<1>2. \A i \in DOMAIN t : EditOf(t[i], a) => t[i].n <= high
  BY <1>1 DEF UpTo
<1>3. CASE EditOf(Head(s), a)
  <2>1. s[1].n = low + 1
    BY <1>1, <1>3, GaplessHead
  <2>2. low + 1 <= high
    BY <1>1, <1>3, <2>1 DEF UpTo
  <2>3. ASSUME low + 1 < high PROVE \E i \in DOMAIN t : EditOf(t[i], a) /\ t[i].n = high
    <3>1. PICK i \in DOMAIN s : EditOf(s[i], a) /\ s[i].n = high
      BY <2>3 DEF UpTo
    <3>2. i # 1
      BY <2>1, <2>3, <3>1
    <3> QED
      BY <1>1, <3>1, <3>2
  <2> QED
    BY <1>2, <1>3, <2>2, <2>3 DEF UpTo
<1>4. CASE ~ EditOf(Head(s), a)
  <2>1. ASSUME low < high PROVE \E i \in DOMAIN t : EditOf(t[i], a) /\ t[i].n = high
    <3>1. PICK i \in DOMAIN s : EditOf(s[i], a) /\ s[i].n = high
      BY <2>1 DEF UpTo
    <3>2. i # 1
      BY <1>1, <1>4, <3>1
    <3> QED
      BY <1>1, <3>1, <3>2
  <2> QED
    BY <1>2, <1>4, <2>1 DEF UpTo
<1> QED
  BY <1>3, <1>4

LEMMA AppendEdit ==
    ASSUME NEW S, NEW s \in Seq(S), NEW a, Numbered(S, a),
           NEW low \in Int, NEW high \in Int,
           Gapless(s, a, low), UpTo(s, a, low, high),
           NEW p \in S, EditOf(p, a), p.n = high + 1
    PROVE  /\ Gapless(Append(s, p), a, low)
           /\ UpTo(Append(s, p), a, low, high + 1)
<1> DEFINE t == Append(s, p)
           last == Len(s) + 1
<1>1. /\ t \in Seq(S) /\ Len(t) = last /\ Len(s) \in Nat
      /\ DOMAIN t = 1 .. last /\ DOMAIN s = 1 .. Len(s)
      /\ \A i \in DOMAIN s : t[i] = s[i] /\ i \in DOMAIN t
      /\ \A i \in DOMAIN t : i = last \/ i \in DOMAIN s
      /\ t[last] = p
  OBVIOUS
<1>2. ASSUME NEW i \in DOMAIN t, EditOf(t[i], a)
      PROVE  /\ t[i].n > low
             /\ \A j \in 1 .. i - 1 : EditOf(t[j], a) => t[j].n < t[i].n
             /\ \A k \in low + 1 .. t[i].n - 1 :
                   \E j \in 1 .. i - 1 : EditOf(t[j], a) /\ t[j].n = k
  <2>1. CASE i \in DOMAIN s
    <3>1. \A j \in 1 .. i - 1 : j \in DOMAIN s
      BY <1>1, <2>1
    <3> QED
      BY <1>1, <1>2, <2>1, <3>1 DEF Gapless
  <2>2. CASE i = last
    <3>1. t[i].n = high + 1 /\ 1 .. i - 1 = DOMAIN s
      BY <1>1, <2>2
    <3>2. t[i].n > low
      BY <3>1 DEF UpTo
    <3>3. \A j \in 1 .. i - 1 : EditOf(t[j], a) => t[j].n < t[i].n
      <4>1. ASSUME NEW j \in DOMAIN s, EditOf(s[j], a) PROVE s[j].n < high + 1
        <5>1. s[j].n \in Int /\ s[j].n <= high
          BY <1>1, <4>1 DEF UpTo, Numbered
        <5> QED
          BY <5>1
      <4> QED
        BY <1>1, <3>1, <4>1
    <3>4. ASSUME NEW k \in low + 1 .. t[i].n - 1
          PROVE  \E j \in 1 .. i - 1 : EditOf(t[j], a) /\ t[j].n = k
      <4>1. k \in low + 1 .. high /\ low < high
        BY <3>1
      <4>2. PICK h \in DOMAIN s : EditOf(s[h], a) /\ s[h].n = high
        BY <4>1 DEF UpTo
      <4>3. \E j \in DOMAIN s : EditOf(s[j], a) /\ s[j].n = k
        <5>1. CASE k = high
          BY <4>2, <5>1
        <5>2. CASE k # high
          <6>1. k \in low + 1 .. s[h].n - 1
            BY <4>1, <4>2, <5>2
          <6>2. PICK j \in 1 .. h - 1 : EditOf(s[j], a) /\ s[j].n = k
            BY <4>2, <6>1 DEF Gapless
          <6>3. j \in DOMAIN s
            BY <1>1, <4>2, <6>2
          <6> QED
            BY <6>2, <6>3
        <5> QED
          BY <5>1, <5>2
      <4> QED
        BY <1>1, <3>1, <4>3
    <3> QED
      BY <3>2, <3>3, <3>4
  <2> QED
    BY <1>1, <2>1, <2>2
<1>3. UpTo(t, a, low, high + 1)
  <2>1. low <= high + 1
    BY DEF UpTo
  <2>2. ASSUME NEW i \in DOMAIN t, EditOf(t[i], a) PROVE t[i].n <= high + 1
    <3>1. CASE i \in DOMAIN s
      <4>1. t[i].n \in Int /\ t[i].n <= high
        BY <1>1, <2>2, <3>1 DEF UpTo, Numbered
      <4> QED
        BY <4>1
    <3>2. CASE i = last
      BY <1>1, <3>2
    <3> QED
      BY <1>1, <3>1, <3>2
  <2>3. last \in DOMAIN t /\ EditOf(t[last], a) /\ t[last].n = high + 1
    BY <1>1
  <2> QED
    BY <2>1, <2>2, <2>3 DEF UpTo
<1> QED
  BY <1>2, <1>3 DEF Gapless

LEMMA AppendOther ==
    ASSUME NEW S, NEW s \in Seq(S), NEW a, NEW low \in Int, NEW p \in S, ~ EditOf(p, a)
    PROVE  /\ Gapless(s, a, low) => Gapless(Append(s, p), a, low)
           /\ \A high \in Int :
                 UpTo(s, a, low, high) => UpTo(Append(s, p), a, low, high)
<1> DEFINE t == Append(s, p)
           last == Len(s) + 1
<1>1. /\ t \in Seq(S) /\ Len(t) = last /\ Len(s) \in Nat
      /\ DOMAIN t = 1 .. last /\ DOMAIN s = 1 .. Len(s)
      /\ \A i \in DOMAIN s : t[i] = s[i] /\ i \in DOMAIN t
      /\ \A i \in DOMAIN t : i = last \/ i \in DOMAIN s
      /\ t[last] = p
  OBVIOUS
<1>2. \A i \in DOMAIN t : EditOf(t[i], a) => i \in DOMAIN s
  BY <1>1
<1>3. \A i \in DOMAIN s : \A j \in 1 .. i - 1 : j \in DOMAIN s
  BY <1>1
<1>4. ASSUME Gapless(s, a, low) PROVE Gapless(t, a, low)
  <2> SUFFICES ASSUME NEW i \in DOMAIN t, EditOf(t[i], a)
               PROVE  /\ t[i].n > low
                      /\ \A j \in 1 .. i - 1 : EditOf(t[j], a) => t[j].n < t[i].n
                      /\ \A k \in low + 1 .. t[i].n - 1 :
                            \E j \in 1 .. i - 1 : EditOf(t[j], a) /\ t[j].n = k
    BY DEF Gapless
  <2>1. i \in DOMAIN s /\ t[i] = s[i] /\ \A j \in 1 .. i - 1 : t[j] = s[j]
    BY <1>1, <1>2, <1>3
  <2> QED
    BY <1>4, <2>1 DEF Gapless
<1>5. ASSUME NEW high \in Int, UpTo(s, a, low, high) PROVE UpTo(t, a, low, high)
  BY <1>1, <1>2, <1>5 DEF UpTo
<1> QED
  BY <1>4, <1>5

LEMMA GaplessPrefix ==
    ASSUME NEW S, NEW s \in Seq(S), NEW a, NEW low \in Int, NEW m \in 0 .. Len(s),
           Gapless(s, a, low)
    PROVE  Gapless(SubSeq(s, 1, m), a, low)
<1> DEFINE t == SubSeq(s, 1, m)
<1>1. /\ Len(s) \in Nat /\ DOMAIN s = 1 .. Len(s) /\ DOMAIN t = 1 .. m
      /\ \A i \in DOMAIN t : t[i] = s[i] /\ i \in DOMAIN s
      /\ \A i \in DOMAIN t : \A j \in 1 .. i - 1 : j \in DOMAIN t
  OBVIOUS
<1> QED
  BY <1>1 DEF Gapless

LEMMA GaplessEmpty ==
    ASSUME NEW a, NEW low \in Int
    PROVE  Gapless(<< >>, a, low) /\ UpTo(<< >>, a, low, low)
BY DEF Gapless, UpTo

-----------------------------------------------------------------------------
(***************************************************************************)
(* Parts of the invariant that a step leaves alone.                        *)
(***************************************************************************)
Inv == TypeInv /\ OrderInv

LEMMA Types ==
    ASSUME Inv
    PROVE  /\ clients \in Seq(Client) /\ backlog \in Seq(Client)
           /\ accepted \in Client \cup {NoClient} /\ NoClient \notin Client
           /\ alive \in [Client -> BOOLEAN]
           /\ pc \in [Client -> Labels] /\ msg \in [Client -> ToClient]
           /\ todo \in [Client -> Seq(Client \cup {NoClient})]
           /\ up \in [Client -> Seq(ToServer)]
           /\ down \in [Client -> Seq(ToClient)]
           /\ pending \in [Client -> Seq(ToServer)]
           /\ client \in [Client -> {"new", "up", "lost", "local", "gone"}]
           /\ issued \in [Client -> Nat] /\ applied \in [Client -> Nat]
           /\ sent \in [Client -> [Client -> Nat]]
           /\ got \in [Client -> [Client -> Nat]]
BY SessionAssumption
DEF Inv, TypeInv, TypeOK, ServerTypes, ThreadTypes, NetTypes, ClientTypes, HistoryTypes

LEMMA PacketsNumbered ==
    ASSUME NEW a
    PROVE  Numbered(ToServer, a) /\ Numbered(ToClient, a)
BY EditPackets, EditFields DEF Numbered, EditOf

LEMMA Members ==
    ASSUME Inv
    PROVE  /\ Member \subseteq Client
           /\ Member = { clients[i] : i \in DOMAIN clients }
BY Types DEF Member, ToSet

LEMMA UpStreamSame ==
    ASSUME NEW c, UpStream(c), up'[c] = up[c], client'[c] = client[c],
           issued'[c] = issued[c], applied'[c] = applied[c]
    PROVE  UpStream(c)'
BY DEF UpStream, Gapless, UpTo, EditOf, IsEdit

LEMMA DownStreamSame ==
    ASSUME NEW b, NEW a, DownStream(b, a), down'[b] = down[b], client'[b] = client[b],
           got'[b][a] = got[b][a], sent'[b][a] = sent[b][a]
    PROVE  DownStream(b, a)'
BY DEF DownStream, Gapless, UpTo, EditOf, IsEdit

LEMMA UpFrame ==
    ASSUME Inv, UNCHANGED << server, up, client, issued, applied >>
    PROVE  UpStreams'
BY DEF Inv, OrderInv, UpStreams, UpStream, Gapless, UpTo, EditOf, IsEdit

LEMMA OwnFrame ==
    ASSUME Inv, UNCHANGED pending
    PROVE  OwnEdits'
BY DEF Inv, OrderInv, OwnEdits, IsEdit

LEMMA DownFrame ==
    ASSUME Inv, UNCHANGED << down, clients, client, applied, sent, got >>
    PROVE  DownStreams'
BY DEF Inv, OrderInv, DownStreams, ForwardedEdits, DownStream, Member, Gapless, UpTo,
       EditOf, IsEdit

LEMMA LinksFrame ==
    ASSUME Inv, UNCHANGED << clients, client, applied, sent, pc, todo >>
    PROVE  Links'
BY DEF Inv, OrderInv, Links, Caught, Owes, Member

LEMMA ForwardingFrame ==
    ASSUME Inv, UNCHANGED << clients, clock, applied, pc, msg, todo >>
    PROVE  Forwarding'
BY DEF Inv, OrderInv, Forwarding, Member, Distinct

LEMMA AnsweringFrame ==
    ASSUME Inv, UNCHANGED << pc, msg >>
    PROVE  Answering'
BY DEF Inv, OrderInv, Answering, IsEdit

LEMMA ArrivalsFrame ==
    ASSUME Inv, UNCHANGED << clients, backlog, accepted, pc, client >>
    PROVE  Arrivals'
BY DEF Inv, OrderInv, Arrivals, Member, Distinct

LEMMA DeparturesFrame ==
    ASSUME Inv, UNCHANGED << clients, alive, pc, msg, client >>
    PROVE  Departures'
BY DEF Inv, OrderInv, Departures, GoodBye, Member

\* What holds of the threads when one of them works on something else than edits.
LEMMA IdleThread ==
    ASSUME Inv, NEW c \in Client, NEW label,
           pc[c] \notin {"none", "clock", "forward"},
           label \notin {"none", "clock", "forward"},
           pc' = [pc EXCEPT ![c] = label],
           \A d \in Client \ {c} : msg'[d] = msg[d] /\ todo'[d] = todo[d],
           UNCHANGED << clients, backlog, accepted, clock, client, pending,
                        applied, sent >>
    PROVE  OwnEdits' /\ Links' /\ Forwarding' /\ Arrivals'
<1>1. OwnEdits'
  BY OwnFrame
<1>2. \A d \in Client : pc'[d] = IF d = c THEN label ELSE pc[d]
  BY Types
<1>3. Links'
  <2>1. \A a, b \in Client : Owes(a, b)' = Owes(a, b)
    BY <1>2 DEF Owes
  <2>2. Member' = Member /\ Member \subseteq Client
    BY Members DEF Member
  <2> QED
    BY <2>1, <2>2 DEF Inv, OrderInv, Links, Caught
<1>4. Forwarding'
  BY <1>2 DEF Inv, OrderInv, Forwarding, Member, Distinct
<1>5. Arrivals'
  BY <1>2 DEF Inv, OrderInv, Arrivals, Member, Distinct
<1> QED
  BY <1>1, <1>3, <1>4, <1>5

(***************************************************************************)
(* Queues that gain or lose a packet which is not an edit.                 *)
(***************************************************************************)
LEMMA UpTailOther ==
    ASSUME Inv, NEW c \in Client, server = "up", up[c] # << >>, ~ IsEdit(Head(up[c])),
           up' = [up EXCEPT ![c] = Tail(@)],
           UNCHANGED << server, client, issued, applied >>
    PROVE  UpStreams'
<1> SUFFICES ASSUME NEW d \in Client PROVE UpStream(d)'
  BY DEF UpStreams
<1>1. UpStream(d) /\ UpStream(c)
  BY DEF Inv, OrderInv, UpStreams
<1>2. CASE d # c
  <2>1. up'[d] = up[d]
    BY <1>2, Types
  <2> QED
    BY <1>1, <2>1, UpStreamSame
<1>3. CASE d = c
  <2> DEFINE s == up[c]
             t == Tail(s)
  <2>1. /\ up'[c] = t /\ s \in Seq(ToServer) /\ s # << >>
        /\ applied[c] \in Int /\ issued[c] \in Int
    BY Types
  <2>2. \A i \in DOMAIN t : i + 1 \in DOMAIN s /\ t[i] = s[i + 1]
    BY <2>1
  <2>3. ~ EditOf(Head(s), c)
    BY DEF EditOf
  <2>4. Gapless(t, c, applied[c])
    BY <1>1, <2>1, <2>3, GaplessTailOther DEF UpStream
  <2>5. client[c] \in {"new", "up"} => UpTo(t, c, applied[c], issued[c])
    BY <1>1, <2>1, <2>3, PacketsNumbered, UpToTail DEF UpStream
  <2>6. \A i \in DOMAIN t : IsEdit(t[i]) => t[i].from = c /\ t[i].n <= issued[c]
    BY <1>1, <2>2 DEF UpStream
  <2>7. /\ Gapless(up'[c], c, applied[c]) 
        /\ client[c] \in {"new", "up"} => UpTo(up'[c], c, applied[c], issued[c])
        /\ \A i \in DOMAIN up'[c] : IsEdit(up'[c][i]) =>
              up'[c][i].from = c /\ up'[c][i].n <= issued[c]
    BY <2>1, <2>4, <2>5, <2>6
  <2> QED
    BY <1>1, <1>3, <2>7 DEF UpStream, Gapless, UpTo, EditOf, IsEdit
<1> QED
  BY <1>2, <1>3

LEMMA UpSendOther ==
    ASSUME Inv, NEW c \in Client, NEW p \in ToServer, ~ IsEdit(p), SendUp(c, p),
           UNCHANGED << server, client, issued, applied >>
    PROVE  UpStreams'
<1> SUFFICES ASSUME server = "up", NEW d \in Client PROVE UpStream(d)'
  BY DEF UpStreams
<1>1. UpStream(d) /\ UpStream(c)
  BY DEF Inv, OrderInv, UpStreams
<1>2. CASE up'[d] = up[d]
  BY <1>1, <1>2, UpStreamSame
<1>3. CASE d = c /\ client[c] = "up" /\ up'[c] = Append(up[c], p)
  <2> DEFINE s == up[c]
             t == Append(s, p)
  <2>1. /\ up'[c] = t /\ s \in Seq(ToServer)
        /\ applied[c] \in Int /\ issued[c] \in Int
    BY <1>3, Types
  <2>2. \A i \in DOMAIN t : t[i] = p \/ (i \in DOMAIN s /\ t[i] = s[i])
    BY <2>1
  <2>3. ~ EditOf(p, c)
    BY DEF EditOf
  <2>4. /\ Gapless(t, c, applied[c])
        /\ client[c] \in {"new", "up"} => UpTo(t, c, applied[c], issued[c])
    BY <1>1, <2>1, <2>3, AppendOther DEF UpStream
  <2>5. \A i \in DOMAIN t : IsEdit(t[i]) => t[i].from = c /\ t[i].n <= issued[c]
    BY <1>1, <2>2 DEF UpStream
  <2>6. /\ Gapless(up'[c], c, applied[c]) 
        /\ client[c] \in {"new", "up"} => UpTo(up'[c], c, applied[c], issued[c])
        /\ \A i \in DOMAIN up'[c] : IsEdit(up'[c][i]) =>
              up'[c][i].from = c /\ up'[c][i].n <= issued[c]
    BY <2>1, <2>4, <2>5
  <2> QED
    BY <1>1, <1>3, <2>6, SMTT(30) DEF UpStream, Gapless, UpTo, EditOf, IsEdit
<1>4. up'[d] = up[d] \/ (d = c /\ client[c] = "up" /\ up'[c] = Append(up[c], p))
  BY Types DEF SendUp, Connection
<1> QED
  BY <1>2, <1>3, <1>4

LEMMA DownSendOther ==
    ASSUME Inv, NEW b \in Client, NEW p \in ToClient, ~ IsEdit(p), SendTo(b, p),
           UNCHANGED << clients, client, applied, sent, got >>
    PROVE  DownStreams'
<1> SUFFICES ASSUME NEW d \in Client
             PROVE  ForwardedEdits(d)' /\ \A a \in Client : DownStream(d, a)'
  BY DEF DownStreams
<1>1. ForwardedEdits(d) /\ \A a \in Client : DownStream(d, a)
  BY DEF Inv, OrderInv, DownStreams
<1>2. CASE down'[d] = down[d]
  BY <1>1, <1>2, DownStreamSame DEF ForwardedEdits, Member, IsEdit
<1>3. CASE d = b /\ down'[b] = Append(down[b], p)
  <2> DEFINE s == down[b]
             t == Append(s, p)
  <2>1. down'[d] = t /\ s \in Seq(ToClient)
    BY <1>3, Types
  <2>2. \A i \in DOMAIN t : t[i] = p \/ (i \in DOMAIN s /\ t[i] = s[i])
    BY <2>1
  <2>3. ForwardedEdits(d)'
    <3>1. \A i \in DOMAIN t : IsEdit(t[i]) => /\ d \in Member
                                              /\ t[i].from # d
                                              /\ t[i].n <= applied[t[i].from]
      BY <1>1, <1>3, <2>2 DEF ForwardedEdits
    <3> QED
      BY <3>1, <2>1 DEF ForwardedEdits, Member, IsEdit
  <2>4. ASSUME NEW a \in Client PROVE DownStream(d, a)'
    <3>1. got[b][a] \in Int /\ sent[b][a] \in Int /\ ~ EditOf(p, a)
      BY Types DEF EditOf
    <3>2. /\ Gapless(t, a, got[b][a])
          /\ client[b] = "up" => UpTo(t, a, got[b][a], sent[b][a])
      BY <1>1, <1>3, <2>1, <3>1, AppendOther DEF DownStream
    <3>3. /\ Gapless(down'[d], a, got[b][a])
          /\ client[b] = "up" => UpTo(down'[d], a, got[b][a], sent[b][a])
      BY <2>1, <3>2
    <3> QED
      BY <1>1, <1>3, <3>3 DEF DownStream, Gapless, UpTo, EditOf, IsEdit
  <2> QED
    BY <2>3, <2>4
<1>4. down'[d] = down[d] \/ (d = b /\ down'[b] = Append(down[b], p))
  BY Types DEF SendTo
<1> QED
  BY <1>2, <1>3, <1>4

LEMMA DownTailOther ==
    ASSUME Inv, NEW b \in Client, down[b] # << >>, ~ IsEdit(Head(down[b])),
           down' = [down EXCEPT ![b] = Tail(@)],
           UNCHANGED << clients, client, applied, sent, got >>
    PROVE  DownStreams'
<1> SUFFICES ASSUME NEW d \in Client
             PROVE  ForwardedEdits(d)' /\ \A a \in Client : DownStream(d, a)'
  BY DEF DownStreams
<1>1. ForwardedEdits(d) /\ \A a \in Client : DownStream(d, a)
  BY DEF Inv, OrderInv, DownStreams
<1>2. CASE d # b
  <2>1. down'[d] = down[d]
    BY <1>2, Types
  <2> QED
    BY <1>1, <2>1, DownStreamSame DEF ForwardedEdits, Member, IsEdit
<1>3. CASE d = b
  <2> DEFINE s == down[b]
             t == Tail(s)
  <2>1. down'[d] = t /\ s \in Seq(ToClient) /\ s # << >>
    BY <1>3, Types
  <2>2. \A i \in DOMAIN t : i + 1 \in DOMAIN s /\ t[i] = s[i + 1]
    BY <2>1
  <2>3. ForwardedEdits(d)'
    <3>1. \A i \in DOMAIN t : IsEdit(t[i]) => /\ d \in Member
                                              /\ t[i].from # d
                                              /\ t[i].n <= applied[t[i].from]
      BY <1>1, <1>3, <2>2 DEF ForwardedEdits
    <3> QED
      BY <3>1, <2>1 DEF ForwardedEdits, Member, IsEdit
  <2>4. ASSUME NEW a \in Client PROVE DownStream(d, a)'
    <3>1. got[b][a] \in Int /\ sent[b][a] \in Int /\ ~ EditOf(Head(s), a)
      BY Types DEF EditOf
    <3>2. Gapless(t, a, got[b][a])
      BY <1>1, <1>3, <2>1, <3>1, GaplessTailOther DEF DownStream
    <3>3. client[b] = "up" => UpTo(t, a, got[b][a], sent[b][a])
      BY <1>1, <1>3, <2>1, <3>1, PacketsNumbered, UpToTail DEF DownStream
    <3>4. /\ Gapless(down'[d], a, got[b][a])
          /\ client[b] = "up" => UpTo(down'[d], a, got[b][a], sent[b][a])
      BY <2>1, <3>2, <3>3
    <3> QED
      BY <1>1, <1>3, <3>4 DEF DownStream, Gapless, UpTo, EditOf, IsEdit
  <2> QED
    BY <2>3, <2>4
<1> QED
  BY <1>2, <1>3

\* What the thread of c says to others, and when it says good-bye.
LEMMA ThreadStep ==
    ASSUME Inv, NEW c \in Client, NEW label,
           pc' = [pc EXCEPT ![c] = label],
           \A d \in Client \ {c} : msg'[d] = msg[d],
           UNCHANGED << clients, alive, client >>,
           label \in {"reply", "list", "listForText", "serialize", "broadcast"}
               => ~ IsEdit(msg'[c]),
           label \in {"close", "autosave", "dead"} => client[c] = "gone",
           label \in {"list", "broadcast"} /\ msg'[c].type = "Disconnect"
               => client[c] = "gone"
    PROVE  Answering' /\ Departures'
<1>1. \A d \in Client : pc'[d] = IF d = c THEN label ELSE pc[d]
  BY Types
<1>2. Answering'
  BY <1>1 DEF Inv, OrderInv, Answering, IsEdit
<1>3. Departures'
  BY <1>1 DEF Inv, OrderInv, Departures, GoodBye, Member
<1> QED
  BY <1>2, <1>3

-----------------------------------------------------------------------------
(***************************************************************************)
(* The steps of the server.                                                *)
(***************************************************************************)
LEMMA NextEdit ==
    ASSUME Inv, NEW c \in Client, Receives(c, {"Insert", "Remove"})
    PROVE  /\ Head(up[c]) \in EditPacket
           /\ Head(up[c]).from = c
           /\ Head(up[c]).n = applied[c] + 1
           /\ Head(up[c]).n <= issued[c]
<1> DEFINE p == Head(up[c])
<1>1. UpStream(c) /\ up[c] \in Seq(ToServer) /\ up[c] # << >> /\ applied[c] \in Int
  BY Types DEF Inv, OrderInv, UpStreams, Receives
<1>2. p \in EditPacket /\ IsEdit(p)
  BY <1>1, EditPackets DEF Receives
<1>3. 1 \in DOMAIN up[c] /\ up[c][1] = p
  BY <1>1
<1>4. p.from = c /\ p.n <= issued[c]
  BY <1>1, <1>2, <1>3 DEF UpStream
<1>5. p.n = applied[c] + 1
  BY <1>1, <1>2, <1>4, PacketsNumbered, GaplessHead DEF UpStream, EditOf
<1> QED
  BY <1>2, <1>4, <1>5

LEMMA OrderApplyEdit ==
    ASSUME Inv, NEW c \in Client, ApplyEdit(c)
    PROVE  OrderInv'
<1> DEFINE p == Head(up[c])
           s == up[c]
           t == Tail(s)
<1>1. /\ p \in EditPacket /\ p.from = c /\ p.n = applied[c] + 1 /\ p.n <= issued[c]
      /\ IsEdit(p)
  BY NextEdit, EditFields DEF ApplyEdit
<1>2. /\ server = "up" /\ pc[c] = "recv" /\ s # << >> /\ s \in Seq(ToServer)
      /\ up' = [up EXCEPT ![c] = t]
      /\ pc' = [pc EXCEPT ![c] = "clock"]
      /\ msg' = [msg EXCEPT ![c] = p]
      /\ applied' = [applied EXCEPT ![c] = @ + 1]
      /\ UNCHANGED << server, clients, alive, clock, accepted, todo, backlog, down,
                      client, pending, issued, sent, got >>
  BY <1>1, Types DEF ApplyEdit, Receives, Goto, clientVars
<1>3. \A d \in Client : /\ pc'[d] = IF d = c THEN "clock" ELSE pc[d]
                        /\ msg'[d] = IF d = c THEN p ELSE msg[d]
                        /\ applied'[d] = IF d = c THEN applied[d] + 1 ELSE applied[d]
                        /\ up'[d] = IF d = c THEN t ELSE up[d]
                        /\ applied[d] \in Nat /\ issued[d] \in Nat
  BY <1>2, Types
<1>4. UpStreams'
  <2> SUFFICES ASSUME NEW d \in Client PROVE UpStream(d)'
    BY DEF UpStreams
  <2>1. UpStream(d)
    BY <1>2 DEF Inv, OrderInv, UpStreams
  <2>2. CASE d # c
    BY <1>2, <1>3, <2>1, <2>2, UpStreamSame
  <2>3. CASE d = c
    <3>1. EditOf(Head(s), c)
      BY <1>1 DEF EditOf
    <3>2. applied[c] \in Int /\ issued[c] \in Int
      BY <1>3
    <3>3. Gapless(t, c, applied[c] + 1)
      BY <1>2, <2>1, <2>3, <3>1, <3>2, PacketsNumbered, GaplessTailEdit DEF UpStream
    <3>4. client[c] \in {"new", "up"} => UpTo(t, c, applied[c] + 1, issued[c])
      BY <1>2, <2>1, <2>3, <3>1, <3>2, PacketsNumbered, UpToTail DEF UpStream
    <3>5. \A i \in DOMAIN t : i + 1 \in DOMAIN s /\ t[i] = s[i + 1]
      BY <1>2
    <3>6. \A i \in DOMAIN t : IsEdit(t[i]) => t[i].from = c /\ t[i].n <= issued[c]
      BY <2>1, <2>3, <3>5 DEF UpStream
    <3>7. /\ Gapless(up'[c], c, applied'[c])
          /\ client'[c] \in {"new", "up"} => UpTo(up'[c], c, applied'[c], issued'[c])
          /\ \A i \in DOMAIN up'[c] : IsEdit(up'[c][i]) =>
                up'[c][i].from = c /\ up'[c][i].n <= issued'[c]
          /\ applied'[c] <= issued'[c]
          /\ client'[c] # "new"
      BY <1>1, <1>2, <1>3, <2>1, <2>3, <3>2, <3>3, <3>4, <3>6 DEF UpStream
    <3> QED
      BY <2>3, <3>7 DEF UpStream, Gapless, UpTo, EditOf, IsEdit
  <2> QED
    BY <2>2, <2>3
<1>5. OwnEdits'
  BY <1>2, OwnFrame
<1>6. DownStreams'
  <2> SUFFICES ASSUME NEW b \in Client
               PROVE  ForwardedEdits(b)' /\ \A a \in Client : DownStream(b, a)'
    BY DEF DownStreams
  <2>1. ForwardedEdits(b) /\ \A a \in Client : DownStream(b, a)
    BY DEF Inv, OrderInv, DownStreams
  <2>2. ForwardedEdits(b)'
    <3>1. ASSUME NEW i \in DOMAIN down[b], IsEdit(down[b][i])
          PROVE  down[b][i].n <= applied'[down[b][i].from]
      <4>1. down[b] \in Seq(ToClient)
        BY Types
      <4>2. down[b][i] \in ToClient
        BY <4>1
      <4>3. down[b][i].from \in Client /\ down[b][i].n \in Nat
        BY <3>1, <4>2, EditPackets, EditFields
      <4> QED
        BY <1>3, <2>1, <3>1, <4>3 DEF ForwardedEdits
    <3> QED
      BY <1>2, <2>1, <3>1 DEF ForwardedEdits, Member, IsEdit
  <2> QED
    BY <1>2, <2>1, <2>2, DownStreamSame
<1>7. Links'
  <2>1. Member' = Member /\ Member \subseteq Client
    BY <1>2, Members DEF Member
  <2>2. ASSUME NEW b \in Member, NEW a \in Client \ {b}, client[b] = "up"
        PROVE  Caught(b, a)'
    <3>1. Caught(b, a)
      BY <2>1, <2>2 DEF Inv, OrderInv, Links
    <3>2. CASE a = c
      BY <1>2, <1>3, <3>1, <3>2 DEF Caught, Owes
    <3>3. CASE a # c
      BY <1>2, <1>3, <3>1, <3>3 DEF Caught, Owes
    <3> QED
      BY <3>2, <3>3
  <2> QED
    BY <1>2, <2>1, <2>2 DEF Links
<1>8. Forwarding'
  BY <1>1, <1>2, <1>3 DEF Inv, OrderInv, Forwarding, Member, Distinct
<1>9. Answering' /\ Departures'
  BY <1>2, <1>3, ThreadStep, ZenonT(30)
<1>10. Arrivals'
  BY <1>2, <1>3 DEF Inv, OrderInv, Arrivals, Member, Distinct
<1> QED
  BY <1>4, <1>5, <1>6, <1>7, <1>8, <1>9, <1>10 DEF OrderInv

LEMMA OrderCrashOnErase ==
    ASSUME Inv, NEW c \in Client, CrashOnErase(c)
    PROVE  OrderInv'
<1>1. /\ server' = "crashed"
      /\ UNCHANGED << clients, alive, clock, accepted, pc, msg, todo, backlog, down,
                      client, pending, issued, applied, sent, got >>
  BY DEF CrashOnErase, threadVars, clientVars, historyVars
<1>2. UpStreams'
  BY <1>1 DEF UpStreams
<1> QED
  BY <1>1, <1>2, OwnFrame, DownFrame, LinksFrame, ForwardingFrame, AnsweringFrame,
     ArrivalsFrame, DeparturesFrame DEF OrderInv

\* A request that is not an edit is taken from the queue.
LEMMA OrderRequest ==
    ASSUME Inv, NEW c \in Client, WriteToDisk(c) \/ ReadFromDisk(c) \/ Answer(c)
    PROVE  OrderInv'
<1>1. /\ server = "up" /\ pc[c] = "recv" /\ up[c] # << >>
      /\ ~ IsEdit(Head(up[c]))
      /\ up' = [up EXCEPT ![c] = Tail(@)]
      /\ UNCHANGED << server, clients, alive, clock, accepted, todo, backlog, down,
                      client, pending, issued, applied, sent, got >>
  BY DEF WriteToDisk, ReadFromDisk, Answer, Receives, IsEdit, serverVars, clientVars,
         historyVars
<1>2. PICK label \in {"list", "reply"} :
         /\ pc' = [pc EXCEPT ![c] = label]
         /\ \E p : /\ msg' = [msg EXCEPT ![c] = p]
                  /\ p.type \in {"WriteConfirmed", "ReadConfirmed",
                                 "FullContent", "ClientCount"}
  <2>1. CASE WriteToDisk(c) \/ ReadFromDisk(c)
    <3>1. PICK type \in {"WriteConfirmed", "ReadConfirmed"} :
             msg' = [msg EXCEPT ![c] = [type |-> type]] /\ pc' = [pc EXCEPT ![c] = "list"]
      BY <2>1 DEF WriteToDisk, ReadFromDisk, Goto, NoticeOf
    <3> DEFINE p == [type |-> type]
    <3>2. p.type = type /\ msg' = [msg EXCEPT ![c] = p]
      BY <3>1
    <3> HIDE DEF p
    <3> QED
      BY <3>1, <3>2
  <2>2. CASE Answer(c)
    <3>1. pc' = [pc EXCEPT ![c] = "reply"]
      BY <2>2 DEF Answer, Goto
    <3>2. \/ msg' = [msg EXCEPT ![c] = ContentOf(FALSE)]
          \/ msg' = [msg EXCEPT ![c] = [type |-> "ClientCount", count |-> SocketCount]]
      BY <2>2 DEF Answer
    <3>3. ContentOf(FALSE).type = "FullContent"
      BY DEF ContentOf
    <3>4. [type |-> "ClientCount", count |-> SocketCount].type = "ClientCount"
      OBVIOUS
    <3> QED
      BY <3>1, <3>2, <3>3, <3>4
  <2> QED
    BY <2>1, <2>2
<1>3. PICK p :
         /\ msg' = [msg EXCEPT ![c] = p]
         /\ p.type \in {"WriteConfirmed", "ReadConfirmed", "FullContent", "ClientCount"}
  BY <1>2
<1>4. /\ msg'[c].type # "Disconnect" /\ ~ IsEdit(msg'[c])
      /\ \A d \in Client \ {c} : msg'[d] = msg[d]
  BY <1>3, Types DEF IsEdit
<1>5. UpStreams'
  BY <1>1, UpTailOther
<1>6. OwnEdits' /\ Links' /\ Forwarding' /\ Arrivals'
  BY <1>1, <1>2, <1>4, IdleThread
<1>7. Answering' /\ Departures'
  BY <1>1, <1>2, <1>4, ThreadStep
<1> QED
  BY <1>1, <1>5, <1>6, <1>7, DownFrame DEF OrderInv

LEMMA OrderReply ==
    ASSUME Inv, NEW c \in Client, Reply(c)
    PROVE  OrderInv'
<1>1. /\ pc[c] = "reply" /\ pc' = [pc EXCEPT ![c] = "recv"]
      /\ SendTo(c, msg[c])
      /\ UNCHANGED << server, clients, alive, clock, accepted, msg, todo, backlog, up,
                      client, pending, issued, applied, sent, got >>
  BY DEF Reply, Goto, serverVars, clientVars, historyVars
<1>2. msg[c] \in ToClient /\ ~ IsEdit(msg[c])
  BY <1>1, Types DEF Inv, OrderInv, Answering
<1>3. DownStreams'
  BY <1>1, <1>2, DownSendOther
<1>4. OwnEdits' /\ Links' /\ Forwarding' /\ Arrivals'
  BY <1>1, IdleThread
<1>5. Answering' /\ Departures'
  BY <1>1, ThreadStep
<1> QED
  BY <1>1, <1>3, <1>4, <1>5, UpFrame DEF OrderInv

LEMMA OrderTakeClock ==
    ASSUME Inv, NEW c \in Client, TakeClock(c)
    PROVE  OrderInv'
<1>1. /\ pc[c] = "clock" /\ pc' = [pc EXCEPT ![c] = "forward"]
      /\ clock = NoClient /\ clock' = c
      /\ todo' = [todo EXCEPT ![c] = clients]
      /\ UNCHANGED << server, clients, alive, accepted, msg, backlog, up, down,
                      client, pending, issued, applied, sent, got >>
  BY DEF TakeClock, Goto, netVars, clientVars, historyVars
<1>2. \A d \in Client : /\ pc'[d] = IF d = c THEN "forward" ELSE pc[d]
                        /\ todo'[d] = IF d = c THEN clients ELSE todo[d]
  BY <1>1, Types
<1>3. Links'
  <2>1. Member' = Member /\ Member \subseteq Client
    BY <1>1, Members DEF Member
  <2>2. ASSUME NEW b \in Member, NEW a \in Client PROVE Owes(a, b)' = Owes(a, b)
    <3>1. b \in ToSet(clients)
      BY <2>2 DEF Member
    <3> QED
      BY <1>1, <1>2, <3>1 DEF Owes
  <2> QED
    BY <1>1, <2>1, <2>2 DEF Inv, OrderInv, Links, Caught
<1>4. Forwarding'
  <2>1. Distinct(clients) /\ ToSet(clients) \subseteq Member /\ Member' = Member
    BY <1>1 DEF Inv, OrderInv, Arrivals, Member
  <2>2. \A a \in Client : pc[a] # "forward"
    BY <1>1, Types DEF Inv, OrderInv, Forwarding
  <2> QED
    BY <1>1, <1>2, <2>1, <2>2 DEF Inv, OrderInv, Forwarding, Distinct
<1>5. Answering' /\ Departures'
  BY <1>1, ThreadStep
<1>6. Arrivals'
  BY <1>1, <1>2 DEF Inv, OrderInv, Arrivals, Member, Distinct
<1> QED
  BY <1>1, <1>3, <1>4, <1>5, <1>6, UpFrame, OwnFrame, DownFrame DEF OrderInv

LEMMA OrderReleaseClock ==
    ASSUME Inv, NEW c \in Client, ReleaseClock(c)
    PROVE  OrderInv'
<1>1. /\ pc[c] = "forward" /\ pc' = [pc EXCEPT ![c] = "recv"]
      /\ todo[c] = << >>
      /\ UNCHANGED << server, clients, alive, accepted, msg, todo, backlog, up, down,
                      client, pending, issued, applied, sent, got >>
  BY DEF ReleaseClock, Goto, netVars, clientVars, historyVars
<1>2. \A d \in Client : pc'[d] = IF d = c THEN "recv" ELSE pc[d]
  BY <1>1, Types
<1>3. Links'
  <2>1. Member' = Member /\ Member \subseteq Client
    BY <1>1, Members DEF Member
  <2>2. \A a, b \in Client : Owes(a, b)' = Owes(a, b)
    BY <1>1, <1>2 DEF Owes, ToSet
  <2> QED
    BY <1>1, <2>1, <2>2 DEF Inv, OrderInv, Links, Caught
<1>4. Forwarding'
  <2>1. clock = c
    BY <1>1 DEF Inv, OrderInv, Forwarding
  <2>2. \A a \in Client : pc'[a] # "forward"
    BY <1>1, <1>2, <2>1 DEF Inv, OrderInv, Forwarding
  <2> QED
    BY <1>1, <1>2, <2>2 DEF Inv, OrderInv, Forwarding
<1>5. Answering' /\ Departures'
  BY <1>1, ThreadStep
<1>6. Arrivals'
  BY <1>1, <1>2 DEF Inv, OrderInv, Arrivals, Member, Distinct
<1> QED
  BY <1>1, <1>3, <1>4, <1>5, <1>6, UpFrame, OwnFrame, DownFrame DEF OrderInv

LEMMA Entry ==
    ASSUME NEW f \in [Client -> [Client -> Nat]], NEW g, NEW b \in Client,
           NEW c \in Client, NEW v, g = [f EXCEPT ![b][c] = v]
    PROVE  \A d, a \in Client : g[d][a] = IF d = b /\ a = c THEN v ELSE f[d][a]
OBVIOUS

\* The only step in which an edit enters a queue to a client.
LEMMA OrderForward ==
    ASSUME Inv, NEW c \in Client, Forward(c)
    PROVE  OrderInv'
<1> DEFINE b == Head(todo[c])
           p == msg[c]
           rest == Tail(todo[c])
<1>1. /\ pc[c] = "forward" /\ todo[c] # << >> /\ todo' = [todo EXCEPT ![c] = rest]
      /\ IF b # c /\ alive[b]
         THEN SendTo(b, p) /\ sent' = [sent EXCEPT ![b][c] = p.n]
         ELSE UNCHANGED << down, sent >>
      /\ UNCHANGED << server, clients, alive, clock, accepted, pc, msg, backlog, up,
                      client, pending, issued, applied, got >>
  BY DEF Forward, serverVars, clientVars
<1>2. todo[c] \in Seq(Client \cup {NoClient}) /\ Distinct(todo[c])
      /\ ToSet(todo[c]) \subseteq Member /\ Member \subseteq Client
      /\ p.from = c /\ p.n = applied[c] /\ p \in EditPacket /\ IsEdit(p) /\ p \in ToClient
  BY <1>1, Types, Members, EditFields
  DEF Inv, OrderInv, Forwarding, TypeInv, Working
<1>3. /\ b \in Member /\ b \notin ToSet(rest) /\ ToSet(rest) \subseteq ToSet(todo[c])
      /\ Distinct(rest) /\ ToSet(todo[c]) \subseteq ToSet(rest) \cup {b}
  <2>1. /\ Len(todo[c]) \in Nat /\ DOMAIN todo[c] = 1 .. Len(todo[c])
        /\ 1 \in DOMAIN todo[c] /\ b = todo[c][1]
        /\ DOMAIN rest = 1 .. Len(todo[c]) - 1
        /\ \A i \in DOMAIN rest : i + 1 \in DOMAIN todo[c] /\ rest[i] = todo[c][i + 1]
                                  /\ i + 1 # 1
        /\ \A i \in DOMAIN todo[c] : i # 1 => i - 1 \in DOMAIN rest
                                              /\ rest[i - 1] = todo[c][i]
    BY <1>1, <1>2
  <2>2. b \in Member
    BY <1>2, <2>1 DEF ToSet
  <2>3. \A i \in DOMAIN rest : rest[i] # b
    BY <1>2, <2>1 DEF Distinct
  <2>4. ASSUME NEW i \in DOMAIN rest, NEW j \in DOMAIN rest, i # j
        PROVE  rest[i] # rest[j]
    <3>1. i + 1 # j + 1
      BY <2>1, <2>4
    <3> QED
      BY <1>2, <2>1, <3>1 DEF Distinct
  <2> QED
    BY <2>1, <2>2, <2>3, <2>4 DEF ToSet, Distinct
<1>4. /\ \A d \in Client : todo'[d] = IF d = c THEN rest ELSE todo[d]
      /\ b \in Client
  BY <1>1, <1>2, <1>3, Types
<1>5. client[b] = "up" => alive[b]
  BY <1>3 DEF Inv, OrderInv, Departures
<1>6. b # c /\ client[b] = "up" => Caught(b, c) /\ Owes(c, b)
  <2>1. b \in ToSet(todo[c])
    BY <1>1, <1>2 DEF ToSet
  <2> QED
    BY <1>1, <1>3, <2>1 DEF Inv, OrderInv, Links, Owes
<1>7. \A d, a \in Client :
          /\ sent[d][a] \in Nat /\ got[d][a] \in Nat /\ applied[a] \in Nat
          /\ sent'[d][a] = IF d = b /\ a = c /\ b # c /\ alive[b]
                           THEN p.n ELSE sent[d][a]
  <2>1. sent \in [Client -> [Client -> Nat]]
    BY Types
  <2>2. CASE b # c /\ alive[b]
    <3>1. sent' = [sent EXCEPT ![b][c] = p.n]
      BY <1>1, <2>2
    <3>2. \A d, a \in Client : sent'[d][a] = IF d = b /\ a = c THEN p.n ELSE sent[d][a]
      BY <1>4, <2>1, <3>1, Entry
    <3> QED
      BY <2>2, <3>2, Types
  <2>3. CASE ~ (b # c /\ alive[b])
    BY <1>1, <2>3, Types
  <2> QED
    BY <2>2, <2>3
<1>8. DownStreams'
  <2> SUFFICES ASSUME NEW d \in Client
               PROVE  ForwardedEdits(d)' /\ \A a \in Client : DownStream(d, a)'
    BY DEF DownStreams
  <2>1. ForwardedEdits(d) /\ \A a \in Client : DownStream(d, a)
    BY DEF Inv, OrderInv, DownStreams
  <2>2. CASE d # b \/ ~ (b # c /\ client[b] = "up")
    <3>1. down'[d] = down[d]
      BY <1>1, <1>4, <2>2, Types DEF SendTo
    <3>2. ForwardedEdits(d)'
      BY <1>1, <2>1, <3>1 DEF ForwardedEdits, Member, IsEdit
    <3>3. ASSUME NEW a \in Client PROVE DownStream(d, a)'
      <4>1. CASE sent'[d][a] = sent[d][a]
        BY <1>1, <2>1, <3>1, <4>1, DownStreamSame
      <4>2. CASE client[d] \notin {"new", "up"}
        BY <1>1, <2>1, <3>1, <4>2 DEF DownStream, Gapless, EditOf, IsEdit
      <4>3. sent'[d][a] = sent[d][a] \/ client[d] \notin {"new", "up"}
        <5>1. client[b] # "new"
          BY <1>3, <1>4 DEF Inv, OrderInv, Arrivals
        <5> QED
          BY <1>7, <2>2, <5>1
      <4> QED
        BY <4>1, <4>2, <4>3
    <3> QED
      BY <3>2, <3>3
  <2>3. CASE d = b /\ b # c /\ client[b] = "up"
    <3> DEFINE s == down[b]
               t == Append(s, p)
    <3>1. /\ down'[d] = t /\ s \in Seq(ToClient)
          /\ sent' = [sent EXCEPT ![b][c] = p.n]
      BY <1>1, <1>4, <1>5, <2>3, Types DEF SendTo
    <3>2. \A i \in DOMAIN t : t[i] = p \/ (i \in DOMAIN s /\ t[i] = s[i])
      BY <3>1
    <3>3. ForwardedEdits(d)'
      <4>1. p.n <= applied[c]
        BY <1>2, Types
      <4>2. \A i \in DOMAIN t : IsEdit(t[i]) => /\ d \in Member
                                                /\ t[i].from # d
                                                /\ t[i].n <= applied[t[i].from]
        BY <1>2, <1>3, <2>1, <2>3, <3>2, <4>1 DEF ForwardedEdits
      <4> QED
        BY <1>1, <3>1, <4>2 DEF ForwardedEdits, Member, IsEdit
    <3>4. ASSUME NEW a \in Client PROVE DownStream(d, a)'
      <4>1. /\ got[b][a] \in Int /\ sent[b][a] \in Int /\ applied[c] \in Int
            /\ sent'[b][a] = IF a = c THEN p.n ELSE sent[b][a]
        BY <1>4, <1>5, <1>7, <2>3
      <4>2. /\ Gapless(t, a, got[b][a])
            /\ UpTo(t, a, got[b][a], sent'[b][a])
        <5>1. Gapless(s, a, got[b][a]) /\ UpTo(s, a, got[b][a], sent[b][a])
          BY <2>1, <2>3 DEF DownStream
        <5>2. CASE a = c
          <6>1. EditOf(p, a) /\ p.n = sent[b][c] + 1
            BY <1>2, <1>6, <2>3, <4>1, <5>2 DEF EditOf, Caught
          <6> QED
            BY <1>2, <3>1, <4>1, <5>1, <5>2, <6>1, PacketsNumbered, AppendEdit
        <5>3. CASE a # c
          <6>1. ~ EditOf(p, a)
            BY <1>2, <5>3 DEF EditOf
          <6> QED
            BY <1>2, <3>1, <4>1, <5>1, <5>3, <6>1, AppendOther
        <5> QED
          BY <5>2, <5>3
      <4>3. /\ Gapless(down'[d], a, got'[d][a])
            /\ UpTo(down'[d], a, got'[d][a], sent'[d][a])
        BY <1>1, <2>3, <3>1, <4>2
      <4> QED
        BY <1>1, <2>3, <4>3 DEF DownStream, Gapless, UpTo, EditOf, IsEdit
    <3> QED
      BY <3>3, <3>4
  <2> QED
    BY <2>2, <2>3
<1>9. Links'
  <2>1. Member' = Member
    BY <1>1 DEF Member
  <2>2. ASSUME NEW d \in Member, NEW a \in Client \ {d}, client[d] = "up"
        PROVE  Caught(d, a)'
    <3>1. Caught(d, a) /\ d \in Client
      BY <1>2, <2>2 DEF Inv, OrderInv, Links
    <3>2. CASE d = b /\ a = c
      <4>1. sent'[b][c] = applied[c]
        BY <1>2, <1>4, <1>5, <1>7, <2>2, <3>2
      <4>2. pc'[a] = "forward" /\ d \notin ToSet(todo'[a])
        BY <1>1, <1>3, <1>4, <3>2
      <4>3. ~ Owes(a, d)'
        BY <4>2 DEF Owes
      <4> QED
        BY <1>1, <3>2, <4>1, <4>3 DEF Caught
    <3>3. CASE ~ (d = b /\ a = c)
      <4>1. sent'[d][a] = sent[d][a]
        BY <1>7, <3>1, <3>3
      <4>2. Owes(a, d)' = Owes(a, d)
        BY <1>1, <1>3, <1>4, <3>3 DEF Owes
      <4> QED
        BY <1>1, <3>1, <4>1, <4>2 DEF Caught
    <3> QED
      BY <3>2, <3>3
  <2> QED
    BY <1>1, <2>1, <2>2 DEF Links
<1>10. Forwarding'
  <2>1. Member' = Member /\ ToSet(rest) \subseteq Member /\ Distinct(rest)
    BY <1>1, <1>2, <1>3 DEF Member
  <2>2. \A a \in Client : Distinct(todo[a])' = Distinct(todo'[a])
    BY DEF Distinct
  <2> QED
    BY <1>1, <1>4, <2>1, <2>2 DEF Inv, OrderInv, Forwarding
<1> QED
  BY <1>1, <1>8, <1>9, <1>10, UpFrame, OwnFrame, AnsweringFrame, ArrivalsFrame,
     DeparturesFrame DEF OrderInv

LEMMA OrderListSockets ==
    ASSUME Inv, NEW c \in Client, ListSockets(c)
    PROVE  OrderInv'
<1>1. PICK label \in {"broadcast", "serialize"} :
         /\ pc[c] \in {"list", "listForText"} /\ pc' = [pc EXCEPT ![c] = label]
         /\ label = "broadcast" => pc[c] = "list"
         /\ todo' = [todo EXCEPT ![c] = SocketList]
         /\ UNCHANGED << server, clients, alive, clock, accepted, msg, backlog, up,
                         down, client, pending, issued, applied, sent, got >>
  BY DEF ListSockets, Goto, serverVars, netVars, clientVars, historyVars
<1>2. \A d \in Client \ {c} : todo'[d] = todo[d]
  BY <1>1, Types
<1>3. ~ IsEdit(msg[c]) /\ (pc[c] = "list" /\ msg[c].type = "Disconnect" => client[c] = "gone")
  BY <1>1 DEF Inv, OrderInv, Answering, Departures, GoodBye
<1>4. OwnEdits' /\ Links' /\ Forwarding' /\ Arrivals'
  BY <1>1, <1>2, IdleThread
<1>5. Answering' /\ Departures'
  BY <1>1, <1>3, ThreadStep
<1> QED
  BY <1>1, <1>4, <1>5, UpFrame, DownFrame DEF OrderInv

LEMMA OrderSerializeText ==
    ASSUME Inv, NEW c \in Client, SerializeText(c)
    PROVE  OrderInv'
<1>1. /\ pc[c] = "serialize" /\ pc' = [pc EXCEPT ![c] = "broadcast"]
      /\ msg' = [msg EXCEPT ![c] = ContentOf(TRUE)]
      /\ UNCHANGED << server, clients, alive, clock, accepted, todo, backlog, up,
                      down, client, pending, issued, applied, sent, got >>
  BY DEF SerializeText, Goto, serverVars, netVars, clientVars, historyVars
<1>2. /\ \A d \in Client \ {c} : msg'[d] = msg[d]
      /\ msg'[c].type = "FullContent"
  BY <1>1, Types DEF ContentOf
<1>3. ~ IsEdit(msg'[c])
  BY <1>2 DEF IsEdit
<1>4. OwnEdits' /\ Links' /\ Forwarding' /\ Arrivals'
  BY <1>1, <1>2, IdleThread
<1>5. Answering' /\ Departures'
  BY <1>1, <1>2, <1>3, ThreadStep
<1> QED
  BY <1>1, <1>4, <1>5, UpFrame, DownFrame DEF OrderInv

LEMMA OrderBroadcast ==
    ASSUME Inv, NEW c \in Client, Broadcast(c)
    PROVE  OrderInv'
<1>1. /\ pc[c] = "broadcast" /\ todo[c] # << >>
      /\ \/ UNCHANGED down
         \/ Head(todo[c]) # NoClient /\ SendTo(Head(todo[c]), msg[c])
      /\ todo' = [todo EXCEPT ![c] = Tail(@)]
      /\ UNCHANGED << server, clients, alive, clock, accepted, pc, msg, backlog, up,
                      client, pending, issued, applied, sent, got >>
  BY DEF Broadcast, serverVars, clientVars, historyVars
<1>2. /\ Head(todo[c]) \in Client \cup {NoClient}
      /\ \A d \in Client \ {c} : todo'[d] = todo[d]
      /\ pc' = [pc EXCEPT ![c] = "broadcast"]
  BY <1>1, Types
<1>3. msg[c] \in ToClient /\ ~ IsEdit(msg[c])
  BY <1>1, Types DEF Inv, OrderInv, Answering
<1>4. DownStreams'
  BY <1>1, <1>2, <1>3, DownSendOther, DownFrame
<1>5. OwnEdits' /\ Links' /\ Forwarding' /\ Arrivals'
  BY <1>1, <1>2, IdleThread
<1> QED
  BY <1>1, <1>4, <1>5, UpFrame, AnsweringFrame, DeparturesFrame DEF OrderInv

LEMMA OrderEndBroadcast ==
    ASSUME Inv, NEW c \in Client, EndBroadcast(c)
    PROVE  OrderInv'
<1>1. PICK label \in {"listForText", "close", "recv"} :
         /\ pc[c] = "broadcast" /\ pc' = [pc EXCEPT ![c] = label]
         /\ label = "close" => msg[c].type = "Disconnect"
         /\ UNCHANGED << server, clients, alive, clock, accepted, msg, todo, backlog, up,
                         down, client, pending, issued, applied, sent, got >>
  BY DEF EndBroadcast, Goto, serverVars, netVars, clientVars, historyVars
<1>2. ~ IsEdit(msg[c]) /\ (msg[c].type = "Disconnect" => client[c] = "gone")
  BY <1>1 DEF Inv, OrderInv, Answering, Departures, GoodBye
<1>3. OwnEdits' /\ Links' /\ Forwarding' /\ Arrivals'
  BY <1>1, IdleThread
<1>4. Answering' /\ Departures'
  BY <1>1, <1>2, ThreadStep
<1> QED
  BY <1>1, <1>3, <1>4, UpFrame, DownFrame DEF OrderInv

LEMMA OrderDisconnected ==
    ASSUME Inv, NEW c \in Client, Disconnected(c)
    PROVE  OrderInv'
<1>1. /\ pc[c] = "recv" /\ pc' = [pc EXCEPT ![c] = "list"]
      /\ client[c] = "gone"
      /\ msg' = [msg EXCEPT ![c] = NoticeOf("Disconnect")]
      /\ UNCHANGED << server, clients, alive, clock, accepted, todo, backlog, up,
                      down, client, pending, issued, applied, sent, got >>
  BY DEF Disconnected, Goto, serverVars, netVars, clientVars, historyVars
<1>2. /\ \A d \in Client \ {c} : msg'[d] = msg[d]
      /\ msg'[c].type = "Disconnect"
  BY <1>1, Types DEF NoticeOf
<1>3. ~ IsEdit(msg'[c])
  BY <1>2 DEF IsEdit
<1>4. OwnEdits' /\ Links' /\ Forwarding' /\ Arrivals'
  BY <1>1, <1>2, IdleThread
<1>5. Answering' /\ Departures'
  BY <1>1, <1>2, <1>3, ThreadStep
<1> QED
  BY <1>1, <1>4, <1>5, UpFrame, DownFrame DEF OrderInv

LEMMA OrderClose ==
    ASSUME Inv, NEW c \in Client, Close(c)
    PROVE  OrderInv'
<1>1. /\ pc[c] = "close" /\ pc' = [pc EXCEPT ![c] = "autosave"]
      /\ alive' = [alive EXCEPT ![c] = FALSE]
      /\ UNCHANGED << server, clients, clock, accepted, msg, todo, backlog, up,
                      down, client, pending, issued, applied, sent, got >>
  BY DEF Close, Goto, netVars, clientVars, historyVars
<1>2. \A d \in Client : /\ pc'[d] = IF d = c THEN "autosave" ELSE pc[d]
                        /\ alive'[d] = IF d = c THEN FALSE ELSE alive[d]
  BY <1>1, Types
<1>3. client[c] = "gone"
  BY <1>1 DEF Inv, OrderInv, Departures, GoodBye
<1>4. OwnEdits' /\ Links' /\ Forwarding' /\ Arrivals'
  BY <1>1, IdleThread
<1>5. Answering'
  BY <1>1, <1>2 DEF Inv, OrderInv, Answering, IsEdit
<1>6. Departures'
  <2>1. Member' = Member /\ Member \subseteq Client
    BY <1>1, Members DEF Member
  <2> QED
    BY <1>1, <1>2, <1>3, <2>1 DEF Inv, OrderInv, Departures, GoodBye
<1> QED
  BY <1>1, <1>4, <1>5, <1>6, UpFrame, DownFrame DEF OrderInv

LEMMA OrderSaveOnExit ==
    ASSUME Inv, NEW c \in Client, SaveOnExit(c)
    PROVE  OrderInv'
<1>1. /\ pc[c] = "autosave" /\ pc' = [pc EXCEPT ![c] = "dead"]
      /\ UNCHANGED << server, clients, alive, clock, accepted, msg, todo, backlog, up,
                      down, client, pending, issued, applied, sent, got >>
  BY DEF SaveOnExit, Goto, netVars, clientVars, historyVars
<1>2. client[c] = "gone"
  BY <1>1 DEF Inv, OrderInv, Departures, GoodBye
<1>3. OwnEdits' /\ Links' /\ Forwarding' /\ Arrivals'
  BY <1>1, IdleThread
<1>4. Answering' /\ Departures'
  BY <1>1, <1>2, ThreadStep
<1> QED
  BY <1>1, <1>3, <1>4, UpFrame, DownFrame DEF OrderInv

LEMMA OrderAccept ==
    ASSUME Inv, Accept
    PROVE  OrderInv'
<1>1. /\ accepted = NoClient /\ backlog # << >>
      /\ accepted' = Head(backlog) /\ backlog' = Tail(backlog)
      /\ UNCHANGED << server, clients, alive, clock, pc, msg, todo, up,
                      down, client, pending, issued, applied, sent, got >>
  BY DEF Accept, threadVars, clientVars, historyVars
<1>2. /\ backlog \in Seq(Client) /\ Distinct(backlog)
      /\ ToSet(backlog) \cap (Member \cup {accepted}) = {}
      /\ Member' = Member
  BY <1>1, Types DEF Inv, OrderInv, Arrivals, Member
<1>3. /\ Head(backlog) \in ToSet(backlog) /\ ToSet(Tail(backlog)) \subseteq ToSet(backlog)
      /\ Head(backlog) \notin ToSet(Tail(backlog)) /\ Distinct(Tail(backlog))
  <2>1. /\ Len(backlog) \in Nat /\ DOMAIN backlog = 1 .. Len(backlog)
        /\ 1 \in DOMAIN backlog /\ backlog[1] = Head(backlog)
        /\ DOMAIN Tail(backlog) = 1 .. Len(backlog) - 1
        /\ \A i \in DOMAIN Tail(backlog) : i + 1 \in DOMAIN backlog /\ i + 1 # 1
                                           /\ Tail(backlog)[i] = backlog[i + 1]
    BY <1>1, <1>2
  <2>2. ASSUME NEW i \in DOMAIN Tail(backlog), NEW j \in DOMAIN Tail(backlog), i # j
        PROVE  Tail(backlog)[i] # Tail(backlog)[j]
    <3>1. i + 1 # j + 1
      BY <2>1, <2>2
    <3> QED
      BY <1>2, <2>1, <3>1 DEF Distinct
  <2>3. \A i \in DOMAIN Tail(backlog) : Tail(backlog)[i] # Head(backlog)
    BY <1>2, <2>1 DEF Distinct
  <2> QED
    BY <2>1, <2>2, <2>3 DEF ToSet, Distinct
<1>4. Arrivals'
  <2>1. Distinct(clients)' /\ Distinct(backlog)'
    BY <1>1, <1>3 DEF Inv, OrderInv, Arrivals, Distinct
  <2>2. ToSet(backlog') \cap (Member \cup {accepted'}) = {} /\ accepted' \notin Member
    BY <1>1, <1>2, <1>3
  <2>3. \A c \in Client : client[c] = "new" =>
           c \notin Member \cup ToSet(backlog') \cup {accepted'}
    BY <1>1, <1>3 DEF Inv, OrderInv, Arrivals
  <2> QED
    BY <1>1, <1>2, <2>1, <2>2, <2>3 DEF Inv, OrderInv, Arrivals
<1> QED
  BY <1>1, <1>4, UpFrame, OwnFrame, DownFrame, LinksFrame, ForwardingFrame,
     AnsweringFrame, DeparturesFrame DEF OrderInv

LEMMA OrderNotifyOne ==
    ASSUME Inv, NotifyOne
    PROVE  OrderInv'
<1>1. /\ notify # << >>
      /\ \/ UNCHANGED down
         \/ Head(notify) # NoClient /\ SendTo(Head(notify), NoticeOf("Disconnect"))
      /\ UNCHANGED << server, clients, alive, clock, accepted, pc, msg, todo, backlog, up,
                      client, pending, issued, applied, sent, got >>
  BY DEF NotifyOne, threadVars, clientVars, historyVars
<1>2. Head(notify) \in Client \cup {NoClient}
  BY <1>1 DEF Inv, TypeInv, TypeOK, ServerTypes
<1>3. NoticeOf("Disconnect") \in ToClient /\ ~ IsEdit(NoticeOf("Disconnect"))
  BY MadePackets DEF Inv, TypeInv, NoticeOf, IsEdit
<1>4. DownStreams'
  BY <1>1, <1>2, <1>3, DownSendOther, DownFrame
<1> QED
  BY <1>1, <1>4, UpFrame, OwnFrame, LinksFrame, ForwardingFrame,
     AnsweringFrame, ArrivalsFrame, DeparturesFrame DEF OrderInv

\* A new client enters each stream where it is: before an edit that has been
\* applied but not yet forwarded, behind any other.
LEMMA OrderStartThread ==
    ASSUME Inv, StartThread
    PROVE  OrderInv'
<1> DEFINE b == accepted
<1>1. /\ b # NoClient /\ clock = NoClient
      /\ clients' = Append(clients, b)
      /\ alive' = [alive EXCEPT ![b] = TRUE]
      /\ pc' = [pc EXCEPT ![b] = "recv"]
      /\ accepted' = NoClient
      /\ sent' = [sent EXCEPT ![b] = Missed]
      /\ got' = [got EXCEPT ![b] = Missed]
      /\ UNCHANGED << server, clock, msg, todo, backlog, up, down, client, pending,
                      issued, applied >>
  BY DEF StartThread, Goto, netVars, clientVars
<1>2. /\ b \in Client /\ NoClient \notin Client
      /\ b \notin Member /\ Member \subseteq Client /\ pc[b] = "none"
  BY <1>1, Types, Members DEF Inv, OrderInv, Arrivals
<1>3. /\ Member' = Member \cup {b}
      /\ Distinct(clients')
  <2>1. /\ Len(clients) \in Nat /\ DOMAIN clients = 1 .. Len(clients)
        /\ DOMAIN clients' = 1 .. Len(clients) + 1
        /\ clients'[Len(clients) + 1] = b
        /\ \A i \in DOMAIN clients : clients'[i] = clients[i]
        /\ \A i \in DOMAIN clients' : i \in DOMAIN clients \/ i = Len(clients) + 1
    <3>1. clients \in Seq(Client) /\ b \in Client
      BY <1>2, Types
    <3> DEFINE t == Append(clients, b)
    <3>2. /\ Len(clients) \in Nat /\ DOMAIN clients = 1 .. Len(clients)
          /\ DOMAIN t = 1 .. Len(clients) + 1
          /\ t[Len(clients) + 1] = b
          /\ \A i \in DOMAIN clients : t[i] = clients[i]
          /\ \A i \in DOMAIN t : i \in DOMAIN clients \/ i = Len(clients) + 1
      BY <3>1
    <3> QED
      BY <1>1, <3>2
  <2>2. \A i \in DOMAIN clients : clients[i] # b
    BY <1>2 DEF Member, ToSet
  <2>3. Distinct(clients)
    BY DEF Inv, OrderInv, Arrivals
  <2>4. ASSUME NEW i \in DOMAIN clients', NEW j \in DOMAIN clients', i # j
        PROVE  clients'[i] # clients'[j]
    BY <2>1, <2>2, <2>3, <2>4 DEF Distinct
  <2>5. Distinct(clients')
    BY <2>4 DEF Distinct
  <2>6. \A x : x \in ToSet(clients') <=> x \in ToSet(clients) \cup {b}
    BY <2>1 DEF ToSet
  <2> QED
    BY <2>5, <2>6 DEF Member
<1>4. /\ \A d \in Client : /\ pc'[d] = IF d = b THEN "recv" ELSE pc[d]
                           /\ alive'[d] = IF d = b THEN TRUE ELSE alive[d]
                           /\ d # b => sent'[d] = sent[d] /\ got'[d] = got[d]
      /\ \A a \in Client : /\ sent'[b][a] = IF pc[a] = "clock" THEN applied[a] - 1
                                                               ELSE applied[a]
                           /\ got'[b][a] = sent'[b][a]
                           /\ sent'[b][a] \in Int
  BY <1>1, <1>2, Types, SMTT(30) DEF Missed
<1>5. DownStreams'
  <2> SUFFICES ASSUME NEW d \in Client
               PROVE  ForwardedEdits(d)' /\ \A a \in Client : DownStream(d, a)'
    BY DEF DownStreams
  <2>1. ForwardedEdits(d) /\ \A a \in Client : DownStream(d, a)
    BY DEF Inv, OrderInv, DownStreams
  <2>2. ForwardedEdits(d)'
    BY <1>1, <1>3, <2>1 DEF ForwardedEdits, IsEdit
  <2>3. CASE d # b
    <3>1. \A a \in Client : sent'[d][a] = sent[d][a] /\ got'[d][a] = got[d][a]
      BY <1>4, <2>3
    <3> QED
      BY <1>1, <2>1, <2>2, <3>1, DownStreamSame
  <2>4. CASE d = b
    <3>1. \A i \in DOMAIN down[d] : ~ IsEdit(down[d][i])
      BY <1>2, <2>1, <2>4 DEF ForwardedEdits
    <3>2. ASSUME NEW a \in Client PROVE DownStream(d, a)'
      <4>1. \A i \in DOMAIN down'[d] : ~ EditOf(down'[d][i], a)
        BY <1>1, <3>1 DEF EditOf
      <4>2. got'[d][a] = sent'[d][a] /\ sent'[d][a] \in Int
        BY <1>4, <2>4
      <4>3. /\ Gapless(down'[d], a, got'[d][a])
            /\ UpTo(down'[d], a, got'[d][a], sent'[d][a])
        BY <4>1, <4>2 DEF Gapless, UpTo
      <4> QED
        BY <4>2, <4>3 DEF DownStream, Gapless, UpTo, EditOf, IsEdit
    <3> QED
      BY <2>2, <3>2
  <2> QED
    BY <2>3, <2>4
<1>6. Links'
  <2> SUFFICES ASSUME NEW d \in Member', NEW a \in Client \ {d}, client'[d] = "up"
               PROVE  Caught(d, a)'
    BY DEF Links
  <2>1. CASE d = b
    <3>1. pc[a] # "forward" /\ pc'[a] = pc[a]
      BY <1>1, <1>2, <1>4, <2>1 DEF Inv, OrderInv, Forwarding
    <3> QED
      BY <1>1, <1>4, <2>1, <3>1 DEF Caught, Owes
  <2>2. CASE d # b
    <3>1. d \in Member /\ Caught(d, a)
      BY <1>1, <1>3, <2>2 DEF Inv, OrderInv, Links
    <3>2. sent'[d][a] = sent[d][a]
      BY <1>2, <1>4, <2>2, <3>1
    <3>3. Owes(a, d)' = Owes(a, d)
      BY <1>1, <1>2, <1>4 DEF Owes
    <3> QED
      BY <1>1, <3>1, <3>2, <3>3 DEF Caught
  <2> QED
    BY <2>1, <2>2
<1>7. Forwarding'
  BY <1>1, <1>3, <1>4 DEF Inv, OrderInv, Forwarding, Distinct
<1>8. Answering'
  BY <1>1, <1>4 DEF Inv, OrderInv, Answering, IsEdit
<1>9. Arrivals'
  <2>1. Distinct(backlog)'
    BY <1>1 DEF Inv, OrderInv, Arrivals, Distinct
  <2>2. Distinct(clients)'
    BY <1>3 DEF Distinct
  <2>3. ToSet(backlog') \cap (Member' \cup {accepted'}) = {}
    <3>1. ToSet(backlog) \subseteq Client
      BY Types DEF ToSet
    <3> QED
      BY <1>1, <1>2, <1>3, <3>1 DEF Inv, OrderInv, Arrivals
  <2> QED
    BY <1>1, <1>2, <1>3, <1>4, <2>1, <2>2, <2>3 DEF Inv, OrderInv, Arrivals
<1>10. Departures'
  <2>1. \A c \in Client : GoodBye(c)' => GoodBye(c)
    BY <1>1, <1>4 DEF GoodBye
  <2>2. \A c \in Member' : client[c] = "up" => alive'[c]
    BY <1>2, <1>3, <1>4 DEF Inv, OrderInv, Departures
  <2> QED
    BY <1>1, <2>1, <2>2 DEF Inv, OrderInv, Departures
<1> QED
  BY <1>1, <1>5, <1>6, <1>7, <1>8, <1>9, <1>10, UpFrame, OwnFrame DEF OrderInv

-----------------------------------------------------------------------------
(***************************************************************************)
(* The steps of the clients.                                               *)
(***************************************************************************)
LEMMA QuietClient ==
    ASSUME Inv, UNCHANGED << serverVars, threadVars, netVars, client, historyVars >>,
           OwnEdits'
    PROVE  OrderInv'
BY UpFrame, DownFrame, LinksFrame, ForwardingFrame, AnsweringFrame, ArrivalsFrame,
   DeparturesFrame DEF OrderInv, serverVars, threadVars, netVars, historyVars

LEMMA Typed ==
    ASSUME NEW c, NEW type, NEW line, NEW index, NEW char
    PROVE  Edit(c, type, line, index, char).from = c
BY DEF Edit

LEMMA OneKey ==
    ASSUME Inv, NEW c \in Client, NEW p, p.from = c \/ ~ IsEdit(p), Then(c, << p >>)
    PROVE  OwnEdits'
<1>1. \A d \in Client : pending'[d] = IF d = c THEN << p >> ELSE pending[d]
  BY Types DEF Then
<1>2. DOMAIN << p >> = {1} /\ << p >>[1] = p
  OBVIOUS
<1> QED
  BY <1>1, <1>2 DEF Inv, OrderInv, OwnEdits, IsEdit

LEMMA OrderPress ==
    ASSUME Inv, NEW c \in Client,
           \/ PressChar(c) \/ PressTab(c) \/ PressEnter(c) \/ PressBackspace(c)
           \/ PressDelete(c) \/ PressCommand(c) \/ PressSync(c)
    PROVE  OrderInv'
<1>1. \E kind : Press(c, kind)
  BY DEF PressChar, PressTab, PressEnter, PressBackspace, PressDelete, PressCommand,
         PressSync
<1>2. UNCHANGED << serverVars, threadVars, netVars, client, historyVars >>
  BY <1>1 DEF Press
<1>3. \/ UNCHANGED pending
      \/ \E p : (p.from = c \/ ~ IsEdit(p)) /\ Then(c, << p >>)
      \/ PressTab(c)
  <2>1. CASE PressChar(c) \/ PressEnter(c) \/ PressBackspace(c) \/ PressDelete(c)
    <3>1. \/ UNCHANGED pending
          \/ \E type, line, index, char : Then(c, << Edit(c, type, line, index, char) >>)
      BY <2>1 DEF PressChar, PressEnter, PressBackspace, PressDelete
    <3> QED
      BY <3>1, Typed
  <2>2. CASE PressCommand(c)
    <3>1. PICK p : /\ Then(c, << p >>)
                   /\ \/ \E f \in File : p = [type |-> "WriteToDisk", file |-> f]
                      \/ \E f \in File : p = [type |-> "ReadFromDisk", file |-> f]
                      \/ p = [type |-> "GetClientCount"]
      BY <2>2 DEF PressCommand
    <3>2. p.type \in {"WriteToDisk", "ReadFromDisk", "GetClientCount"}
      BY <3>1
    <3> QED
      BY <3>1, <3>2 DEF IsEdit
  <2>3. CASE PressSync(c)
    <3>1. Then(c, << GetFull >>) /\ GetFull.type = "GetFull"
      BY <2>3 DEF PressSync, GetFull
    <3> QED
      BY <3>1 DEF IsEdit
  <2> QED
    BY <2>1, <2>2, <2>3
<1>4. OwnEdits'
  <2>1. CASE PressTab(c)
    <3> DEFINE p == Edit(c, "Insert", cursor[c].line, cursor[c].index, Blank)
    <3>1. pending' = [pending EXCEPT ![c] = [i \in 1 .. TabWidth |-> p]]
      BY <2>1 DEF PressTab, Then
    <3>2. p.from = c
      BY Typed
    <3> HIDE DEF p
    <3>3. \A d \in Client :
             pending'[d] = IF d = c THEN [i \in 1 .. TabWidth |-> p] ELSE pending[d]
      BY <3>1, Types
    <3>4. \A i \in 1 .. TabWidth : [j \in 1 .. TabWidth |-> p][i].from = c
      BY <3>2
    <3>5. ASSUME NEW d \in Client, NEW i \in DOMAIN pending'[d], IsEdit(pending'[d][i])
          PROVE  pending'[d][i].from = d
      BY <3>3, <3>4, <3>5 DEF Inv, OrderInv, OwnEdits
    <3> QED
      BY <3>5 DEF OwnEdits, IsEdit
  <2> QED
    BY <1>3, <2>1, OneKey, OwnFrame
<1> QED
  BY <1>2, <1>4, QuietClient

LEMMA OrderQuietSteps ==
    ASSUME Inv, NEW c \in Client, MoveCursor(c) \/ ClearFlag(c)
    PROVE  OrderInv'
<1>1. UNCHANGED << serverVars, threadVars, netVars, client, pending, historyVars >>
  BY DEF MoveCursor, ClearFlag
<1> QED
  BY <1>1, OwnFrame, QuietClient

LEMMA OwnTail ==
    ASSUME Inv, NEW c \in Client, pending[c] # << >>,
           pending' = [pending EXCEPT ![c] = Tail(@)]
    PROVE  OwnEdits'
<1>1. \A d \in Client : pending'[d] = IF d = c THEN Tail(pending[d]) ELSE pending[d]
  BY Types
<1>2. pending[c] \in Seq(ToServer)
  BY Types
<1>3. \A i \in DOMAIN Tail(pending[c]) : /\ i + 1 \in DOMAIN pending[c]
                                         /\ Tail(pending[c])[i] = pending[c][i + 1]
  BY <1>2
<1>4. ASSUME NEW d \in Client, NEW i \in DOMAIN pending'[d], IsEdit(pending'[d][i])
      PROVE  pending'[d][i].from = d
  BY <1>1, <1>3, <1>4 DEF Inv, OrderInv, OwnEdits
<1> QED
  BY <1>4 DEF OwnEdits, IsEdit

\* The only step in which an edit enters the queue to the server.
LEMMA OrderSendEdit ==
    ASSUME Inv, NEW c \in Client, SendEdit(c)
    PROVE  OrderInv'
<1> DEFINE p == [Head(pending[c]) EXCEPT !.n = issued[c] + 1]
           s == up[c]
           t == Append(s, p)
<1>1. /\ pending[c] # << >> /\ IsEdit(p) /\ SendUp(c, p)
      /\ issued' = IF Connection(c) THEN [issued EXCEPT ![c] = @ + 1] ELSE issued
      /\ pending' = [pending EXCEPT ![c] = Tail(@)]
      /\ UNCHANGED << server, clients, alive, clock, accepted, pc, msg, todo, backlog,
                      down, client, applied, sent, got >>
  BY DEF SendEdit, serverVars, threadVars
<1>2. p \in EditPacket /\ p.from = c /\ p.n = issued[c] + 1
  <2>1. p \in EditPacket
    BY <1>1, SentEdits DEF Inv, TypeInv
  <2>2. Head(pending[c]) \in ToServer /\ Head(pending[c]) = pending[c][1]
        /\ 1 \in DOMAIN pending[c]
    BY <1>1, Types
  <2>3. Head(pending[c]) \in EditPacket
    BY <1>1, <2>2 DEF IsEdit, ToServer, EditPacket, Request, FileRequest
  <2>4. pending[c][1].from = c
    BY <2>2, <2>3, EditFields DEF Inv, OrderInv, OwnEdits
  <2> QED
    BY <2>1, <2>2, <2>3, <2>4 DEF EditPacket
<1>3. UpStreams'
  <2> SUFFICES ASSUME server = "up", NEW d \in Client PROVE UpStream(d)'
    BY <1>1 DEF UpStreams
  <2>1. UpStream(d)
    BY DEF Inv, OrderInv, UpStreams
  <2>2. CASE d # c \/ ~ Connection(c)
    <3>1. up'[d] = up[d] /\ issued'[d] = issued[d]
      BY <1>1, <2>2, Types DEF SendUp
    <3> QED
      BY <1>1, <2>1, <3>1, UpStreamSame
  <2>3. CASE d = c /\ Connection(c)
    <3>1. /\ s \in Seq(ToServer) /\ p \in ToServer /\ applied[c] \in Int
          /\ issued[c] \in Int /\ client[c] = "up" /\ EditOf(p, c)
          /\ issued' = [issued EXCEPT ![c] = issued[c] + 1]
          /\ up' = [up EXCEPT ![c] = t]
      BY <1>1, <1>2, <2>3, Types, EditFields DEF Connection, EditOf, SendUp
    <3>2. up'[c] = t /\ issued'[c] = issued[c] + 1
      BY <3>1, Types
    <3>3. Gapless(t, c, applied[c]) /\ UpTo(t, c, applied[c], issued[c] + 1)
      BY <1>2, <2>1, <2>3, <3>1, PacketsNumbered, AppendEdit DEF UpStream
    <3>4. \A i \in DOMAIN t : t[i] = p \/ (i \in DOMAIN s /\ t[i] = s[i])
      BY <3>1
    <3>5. ASSUME NEW i \in DOMAIN t, IsEdit(t[i])
          PROVE  t[i].from = c /\ t[i].n <= issued[c] + 1
      <4>1. CASE t[i] = p
        <5> HIDE DEF p
        <5> QED
          BY <1>2, <3>1, <4>1
      <4>2. CASE i \in DOMAIN s /\ t[i] = s[i]
        <5>1. s[i].from = c /\ s[i].n <= issued[c] /\ s[i] \in ToServer
          BY <2>1, <2>3, <3>1, <3>5, <4>2 DEF UpStream
        <5>2. s[i].n \in Int
          BY <3>5, <4>2, <5>1, PacketsNumbered DEF Numbered, EditOf
        <5> QED
          BY <3>1, <4>2, <5>1, <5>2
      <4> QED
        BY <3>4, <4>1, <4>2
    <3>6. /\ Gapless(up'[c], c, applied'[c])
          /\ UpTo(up'[c], c, applied'[c], issued'[c])
          /\ \A i \in DOMAIN up'[c] : IsEdit(up'[c][i]) =>
                up'[c][i].from = c /\ up'[c][i].n <= issued'[c]
          /\ applied'[c] <= issued'[c]
          /\ client'[c] # "new"
      <4>1. /\ applied'[c] = applied[c] /\ client'[c] # "new" /\ applied[c] <= issued[c]
            /\ issued[c] \in Nat /\ applied[c] \in Nat
        BY <1>1, <2>1, <2>3, <3>1, Types DEF UpStream
      <4> HIDE DEF t
      <4> QED
        BY ONLY <3>2, <3>3, <3>5, <4>1
    <3> QED
      BY <2>3, <3>6 DEF UpStream, Gapless, UpTo, EditOf, IsEdit
  <2> QED
    BY <2>2, <2>3
<1> QED
  BY <1>1, <1>3, OwnTail, DownFrame, LinksFrame, ForwardingFrame, AnsweringFrame,
     ArrivalsFrame, DeparturesFrame DEF OrderInv

LEMMA OrderAsk ==
    ASSUME Inv, NEW c \in Client, SendRequest(c) \/ AskForText(c)
    PROVE  OrderInv'
<1>1. UNCHANGED << server, clients, alive, clock, accepted, pc, msg, todo, backlog,
                   down, client, issued, applied, sent, got >>
  BY DEF SendRequest, AskForText, serverVars, threadVars, historyVars
<1>2. \E p \in ToServer : ~ IsEdit(p) /\ SendUp(c, p)
  <2>1. CASE SendRequest(c)
    BY <2>1, QueueTypes DEF SendRequest, Inv, TypeInv
  <2>2. CASE AskForText(c)
    <3>1. GetFull \in ToServer /\ ~ IsEdit(GetFull)
      BY MadePackets DEF Inv, TypeInv, GetFull, IsEdit
    <3> QED
      BY <2>2, <3>1 DEF AskForText
  <2> QED
    BY <2>1, <2>2
<1>3. UpStreams'
  BY <1>1, <1>2, UpSendOther
<1>4. OwnEdits'
  BY OwnTail, OwnFrame DEF SendRequest, AskForText
<1> QED
  BY <1>1, <1>3, <1>4, DownFrame, LinksFrame, ForwardingFrame, AnsweringFrame,
     ArrivalsFrame, DeparturesFrame DEF OrderInv

LEMMA OrderHandleOther ==
    ASSUME Inv, NEW c \in Client,
           ForcedText(c) \/ Overwrite(c) \/ IgnoreText(c) \/ ShowNotice(c)
    PROVE  OrderInv'
<1>1. PICK types \in SUBSET {"FullContent", "WriteConfirmed", "ReadConfirmed",
                             "Disconnect", "ClientCount"} : Handles(c, types)
  BY DEF ForcedText, Overwrite, IgnoreText, ShowNotice
<1>2. /\ down[c] # << >> /\ ~ IsEdit(Head(down[c]))
      /\ down' = [down EXCEPT ![c] = Tail(@)]
      /\ UNCHANGED << server, clients, alive, clock, accepted, pc, msg, todo, backlog,
                      up, pending, issued, applied, sent >>
  BY <1>1 DEF Handles, IsEdit, serverVars, threadVars
<1>3. UNCHANGED << client, got >>
  BY DEF ForcedText, Overwrite, IgnoreText, ShowNotice
<1>4. DownStreams'
  BY <1>2, <1>3, DownTailOther
<1> QED
  BY <1>2, <1>3, <1>4, UpFrame, OwnFrame, LinksFrame, ForwardingFrame, AnsweringFrame,
     ArrivalsFrame, DeparturesFrame DEF OrderInv

LEMMA NextForwarded ==
    ASSUME Inv, NEW c \in Client, Handles(c, {"Insert", "Remove"})
    PROVE  /\ Head(down[c]) \in EditPacket
           /\ Head(down[c]).n = got[c][Head(down[c]).from] + 1
           /\ Head(down[c]).n <= applied[Head(down[c]).from]
           /\ Head(down[c]).from # c
           /\ c \in Member
<1> DEFINE p == Head(down[c])
           a == p.from
<1>1. down[c] \in Seq(ToClient) /\ down[c] # << >> /\ p.type \in {"Insert", "Remove"}
  BY Types DEF Handles
<1>2. p \in EditPacket /\ a \in Client /\ EditOf(p, a)
  <2>1. p \in ToClient
    BY <1>1
  <2> QED
    BY <1>1, <2>1, EditPackets, EditFields DEF EditOf
<1>3. got[c][a] \in Int /\ DownStream(c, a) /\ ForwardedEdits(c)
  <2>1. got \in [Client -> [Client -> Nat]]
    BY Types
  <2>2. DownStream(c, a) /\ ForwardedEdits(c)
    BY <1>2 DEF Inv, OrderInv, DownStreams
  <2> QED
    BY <1>2, <2>1, <2>2
<1>4. 1 \in DOMAIN down[c] /\ down[c][1] = p
  BY <1>1
<1>5. p.n = got[c][a] + 1
  BY <1>1, <1>2, <1>3, PacketsNumbered, GaplessHead, ZenonT(30) DEF DownStream
<1> QED
  BY <1>2, <1>3, <1>4, <1>5 DEF ForwardedEdits, EditOf

LEMMA OrderRemoteEdit ==
    ASSUME Inv, NEW c \in Client, RemoteEdit(c)
    PROVE  OrderInv'
<1> DEFINE s == down[c]
           p == Head(s)
           t == Tail(s)
<1>1. /\ p \in EditPacket /\ p.from \in Client /\ p.from # c /\ c \in Member
      /\ p.n = got[c][p.from] + 1
  BY NextForwarded, EditFields DEF RemoteEdit
<1>2. /\ s # << >> /\ s \in Seq(ToClient) /\ client[c] = "up"
      /\ down' = [down EXCEPT ![c] = t]
      /\ got' = [got EXCEPT ![c][p.from] = got[c][p.from] + 1]
      /\ UNCHANGED << server, clients, alive, clock, accepted, pc, msg, todo, backlog,
                      up, client, pending, issued, applied, sent >>
  BY <1>1, Types DEF RemoteEdit, Handles, serverVars, threadVars
<1>3. DownStreams'
  <2> SUFFICES ASSUME NEW d \in Client
               PROVE  ForwardedEdits(d)' /\ \A a \in Client : DownStream(d, a)'
    BY DEF DownStreams
  <2>1. ForwardedEdits(d) /\ \A a \in Client : DownStream(d, a)
    BY DEF Inv, OrderInv, DownStreams
  <2>2. \A a \in Client :
           got'[d][a] = IF d = c /\ a = p.from THEN got[c][p.from] + 1 ELSE got[d][a]
    <3>1. /\ got \in [Client -> [Client -> Nat]] /\ p.from \in Client
          /\ got' = [got EXCEPT ![c][p.from] = got[c][p.from] + 1]
      BY <1>1, <1>2, Types
    <3> DEFINE v == got[c][p.from] + 1
               b == p.from
    <3> HIDE DEF v, b
    <3>2. got' = [got EXCEPT ![c][b] = v] /\ b \in Client
      BY <3>1 DEF v, b
    <3>3. \A e, a \in Client : got'[e][a] = IF e = c /\ a = b THEN v ELSE got[e][a]
      BY ONLY <3>1, <3>2, c \in Client, Entry
    <3> QED
      BY <3>3 DEF v, b
  <2>3. CASE d # c
    <3>1. down'[d] = down[d]
      BY <1>2, <2>3, Types
    <3> QED
      BY <1>2, <2>1, <2>2, <2>3, <3>1, DownStreamSame DEF ForwardedEdits, Member, IsEdit
  <2>4. CASE d = c
    <3>1. down'[d] = t
      BY <1>2, <2>4, Types
    <3>2. \A i \in DOMAIN t : i + 1 \in DOMAIN s /\ t[i] = s[i + 1]
      BY <1>2
    <3>3. ForwardedEdits(d)'
      <4>1. \A i \in DOMAIN t : IsEdit(t[i]) => /\ d \in Member
                                                /\ t[i].from # d
                                                /\ t[i].n <= applied[t[i].from]
        BY <2>1, <2>4, <3>2 DEF ForwardedEdits
      <4> QED
        BY <1>2, <3>1, <4>1 DEF ForwardedEdits, Member, IsEdit
    <3>4. ASSUME NEW a \in Client PROVE DownStream(d, a)'
      <4>1. /\ got[c][a] \in Int /\ sent[c][a] \in Int
            /\ Gapless(s, a, got[c][a]) /\ UpTo(s, a, got[c][a], sent[c][a])
        BY <1>2, <2>1, <2>4, Types DEF DownStream
      <4>2. Gapless(t, a, got'[c][a]) /\ UpTo(t, a, got'[c][a], sent[c][a])
        <5>1. CASE a = p.from
          <6>1. EditOf(p, a)
            BY <1>1, <5>1, EditFields DEF EditOf
          <6>2. got'[c][a] = got[c][a] + 1
            BY <2>2, <2>4, <5>1
          <6>3. Gapless(t, a, got[c][a] + 1)
            BY <1>2, <4>1, <6>1, PacketsNumbered, GaplessTailEdit
          <6>4. UpTo(t, a, got[c][a] + 1, sent[c][a])
            BY <1>2, <4>1, <6>1, PacketsNumbered, UpToTail
          <6> QED
            BY <6>2, <6>3, <6>4
        <5>2. CASE a # p.from
          <6>1. ~ EditOf(p, a)
            BY <5>2 DEF EditOf
          <6>2. got'[c][a] = got[c][a]
            BY <2>2, <2>4, <5>2
          <6>3. Gapless(t, a, got[c][a])
            BY <1>2, <4>1, <6>1, GaplessTailOther
          <6>4. UpTo(t, a, got[c][a], sent[c][a])
            BY <1>2, <4>1, <6>1, PacketsNumbered, UpToTail
          <6> QED
            BY <6>2, <6>3, <6>4
        <5> QED
          BY <5>1, <5>2
      <4>3. /\ Gapless(down'[d], a, got'[d][a])
            /\ UpTo(down'[d], a, got'[d][a], sent'[d][a])
        BY <1>2, <2>4, <3>1, <4>2
      <4> QED
        BY <1>2, <2>4, <4>3 DEF DownStream, Gapless, UpTo, EditOf, IsEdit
    <3> QED
      BY <3>3, <3>4
  <2> QED
    BY <2>3, <2>4
<1> QED
  BY <1>2, <1>3, UpFrame, OwnFrame, LinksFrame, ForwardingFrame, AnsweringFrame,
     ArrivalsFrame, DeparturesFrame DEF OrderInv

LEMMA OrderConnect ==
    ASSUME Inv, NEW c \in Client, Connect(c)
    PROVE  OrderInv'
<1>1. /\ server = "up" /\ client[c] = "new"
      /\ client' = [client EXCEPT ![c] = "up"]
      /\ up' = [up EXCEPT ![c] = << GetFull >>]
      /\ backlog' = Append(backlog, c)
      /\ UNCHANGED << server, clients, alive, clock, accepted, pc, msg, todo, down,
                      pending, issued, applied, sent, got >>
  BY DEF Connect, serverVars, threadVars, historyVars
<1>2. /\ \A d \in Client : client'[d] = IF d = c THEN "up" ELSE client[d]
      /\ c \notin Member \cup ToSet(backlog) \cup {accepted}
      /\ Member' = Member /\ Member \subseteq Client
  BY <1>1, Types, Members DEF Inv, OrderInv, Arrivals, Member
<1>3. UpStreams'
  <2> SUFFICES ASSUME NEW d \in Client PROVE UpStream(d)'
    BY DEF UpStreams
  <2>1. UpStream(d)
    BY <1>1 DEF Inv, OrderInv, UpStreams
  <2>2. CASE d # c
    <3>1. up'[d] = up[d] /\ client'[d] = client[d]
      BY <1>1, <1>2, <2>2, Types
    <3> QED
      BY <1>1, <2>1, <3>1, UpStreamSame
  <2>3. CASE d = c
    <3> DEFINE t == Append(<< >>, GetFull)
    <3>1. up[c] = << >> /\ applied[c] \in Int /\ issued[c] \in Int
      BY <1>1, <2>1, <2>3, Types DEF UpStream
    <3>2. /\ up'[c] = t /\ GetFull \in ToServer /\ ~ IsEdit(GetFull)
          /\ << >> \in Seq(ToServer)
      BY <1>1, Types, MadePackets DEF Inv, TypeInv, GetFull, IsEdit
    <3>3. Gapless(<< >>, c, applied[c]) /\ UpTo(<< >>, c, applied[c], issued[c])
      BY <1>1, <2>1, <2>3, <3>1 DEF UpStream
    <3>4. Gapless(t, c, applied[c]) /\ UpTo(t, c, applied[c], issued[c])
      BY <3>1, <3>2, <3>3, AppendOther DEF EditOf
    <3>5. \A i \in DOMAIN t : ~ IsEdit(t[i])
      BY <3>2
    <3>6. /\ Gapless(up'[c], c, applied'[c])
          /\ UpTo(up'[c], c, applied'[c], issued'[c])
          /\ \A i \in DOMAIN up'[c] : ~ IsEdit(up'[c][i])
          /\ applied'[c] <= issued'[c] /\ client'[c] # "new"
      BY <1>1, <1>2, <2>1, <2>3, <3>2, <3>4, <3>5 DEF UpStream
    <3> QED
      BY <2>3, <3>6 DEF UpStream, Gapless, UpTo, EditOf, IsEdit
  <2> QED
    BY <2>2, <2>3
<1>4. DownStreams'
  <2> SUFFICES ASSUME NEW d \in Client
               PROVE  ForwardedEdits(d)' /\ \A a \in Client : DownStream(d, a)'
    BY DEF DownStreams
  <2>1. ForwardedEdits(d) /\ \A a \in Client : DownStream(d, a)
    BY DEF Inv, OrderInv, DownStreams
  <2>2. ForwardedEdits(d)'
    BY <1>1, <1>2, <2>1 DEF ForwardedEdits, IsEdit
  <2>3. CASE d # c
    BY <1>1, <1>2, <2>1, <2>2, <2>3, DownStreamSame
  <2>4. CASE d = c
    <3>1. \A i \in DOMAIN down[d] : ~ IsEdit(down[d][i])
      BY <1>2, <2>1, <2>4 DEF ForwardedEdits
    <3>2. ASSUME NEW a \in Client PROVE DownStream(d, a)'
      <4>1. \A i \in DOMAIN down'[d] : ~ EditOf(down'[d][i], a)
        BY <1>1, <3>1 DEF EditOf
      <4>2. got'[d][a] = sent'[d][a] /\ sent'[d][a] \in Int
        BY <1>1, <2>1, <2>4, Types DEF DownStream
      <4>3. /\ Gapless(down'[d], a, got'[d][a])
            /\ UpTo(down'[d], a, got'[d][a], sent'[d][a])
        BY <4>1, <4>2 DEF Gapless, UpTo
      <4> QED
        BY <4>2, <4>3 DEF DownStream, Gapless, UpTo, EditOf, IsEdit
    <3> QED
      BY <2>2, <3>2
  <2> QED
    BY <2>3, <2>4
<1>5. Links'
  <2>1. \A d \in Member : client'[d] = client[d]
    BY <1>2
  <2>2. \A a, b \in Client : Caught(b, a)' = Caught(b, a)
    BY <1>1 DEF Caught, Owes
  <2> QED
    BY <1>2, <2>1, <2>2 DEF Inv, OrderInv, Links
<1>6. Arrivals'
  <2>1. Distinct(backlog)' /\ ToSet(backlog') = ToSet(backlog) \cup {c}
    <3> DEFINE t == Append(backlog, c)
    <3>1. backlog \in Seq(Client)
      BY Types
    <3>2. /\ Len(backlog) \in Nat /\ DOMAIN backlog = 1 .. Len(backlog)
          /\ DOMAIN t = 1 .. Len(backlog) + 1
          /\ t[Len(backlog) + 1] = c
          /\ \A i \in DOMAIN backlog : t[i] = backlog[i]
          /\ \A i \in DOMAIN t : i \in DOMAIN backlog \/ i = Len(backlog) + 1
      BY <3>1
    <3>3. \A i \in DOMAIN backlog : backlog[i] # c
      BY <1>2 DEF ToSet
    <3>4. Distinct(backlog)
      BY DEF Inv, OrderInv, Arrivals
    <3>5. Distinct(t)
      BY <3>2, <3>3, <3>4 DEF Distinct
    <3>6. \A x : x \in ToSet(t) <=> x \in ToSet(backlog) \cup {c}
      BY <3>2 DEF ToSet
    <3> QED
      BY <1>1, <3>5, <3>6 DEF Distinct
  <2>2. Distinct(clients)'
    BY <1>1 DEF Inv, OrderInv, Arrivals, Distinct
  <2> QED
    BY <1>1, <1>2, <2>1, <2>2 DEF Inv, OrderInv, Arrivals
<1>7. Departures'
  <2>1. \A d \in Client : GoodBye(d)' => GoodBye(d) /\ d # c
    BY <1>1, <1>2 DEF Inv, OrderInv, Departures, GoodBye
  <2> QED
    BY <1>1, <1>2, <2>1 DEF Inv, OrderInv, Departures
<1> QED
  BY <1>1, <1>3, <1>4, <1>5, <1>6, <1>7, OwnFrame, ForwardingFrame, AnsweringFrame
  DEF OrderInv

\* A client that is not connected any more: of what it has sent and of what it
\* was sent, something may be lost at the end.
LEMMA OrderLeave ==
    ASSUME Inv, NEW c \in Client, NEW state \in {"lost", "local", "gone"},
           client' = [client EXCEPT ![c] = state],
           client[c] # "gone" \/ state = "gone",
           up' = up \/ \E n \in 0 .. Len(up[c]) : up' = [up EXCEPT ![c] = SubSeq(@, 1, n)],
           down' = down \/ down' = [down EXCEPT ![c] = << >>],
           pending' = pending \/ pending' = [pending EXCEPT ![c] = << >>],
           UNCHANGED << server, clients, alive, clock, accepted, pc, msg, todo, backlog,
                        issued, applied, sent, got >>
    PROVE  OrderInv'
<1>1. /\ \A d \in Client : client'[d] = IF d = c THEN state ELSE client[d]
      /\ Member' = Member /\ Member \subseteq Client
  BY Types, Members DEF Member
<1>2. UpStreams'
  <2> SUFFICES ASSUME server = "up", NEW d \in Client PROVE UpStream(d)'
    BY DEF UpStreams
  <2>1. UpStream(d)
    BY DEF Inv, OrderInv, UpStreams
  <2>2. CASE up'[d] = up[d]
    <3>1. /\ \A i \in DOMAIN up'[d] : IsEdit(up'[d][i]) =>
                up'[d][i].from = d /\ up'[d][i].n <= issued'[d]
          /\ Gapless(up'[d], d, applied'[d])
          /\ applied'[d] <= issued'[d]
          /\ client'[d] \in {"new", "up"} => UpTo(up'[d], d, applied'[d], issued'[d])
          /\ client'[d] = "new" => up'[d] = << >>
      BY <1>1, <2>1, <2>2 DEF UpStream
    <3> QED
      BY <3>1 DEF UpStream, Gapless, UpTo, EditOf, IsEdit
  <2>3. CASE d = c /\ \E n \in 0 .. Len(up[c]) : up'[c] = SubSeq(up[c], 1, n)
    <3>1. PICK n \in 0 .. Len(up[c]) : up'[c] = SubSeq(up[c], 1, n)
      BY <2>3
    <3> DEFINE s == up[c]
               t == SubSeq(s, 1, n)
    <3>2. s \in Seq(ToServer) /\ applied[c] \in Int
      BY Types
    <3>3. \A i \in DOMAIN t : i \in DOMAIN s /\ t[i] = s[i]
      BY <3>1, <3>2
    <3>4. Gapless(t, c, applied[c])
      BY <2>1, <2>3, <3>1, <3>2, GaplessPrefix DEF UpStream
    <3>5. \A i \in DOMAIN t : IsEdit(t[i]) => t[i].from = c /\ t[i].n <= issued[c]
      BY <2>1, <2>3, <3>3 DEF UpStream
    <3>6. /\ \A i \in DOMAIN up'[c] : IsEdit(up'[c][i]) =>
                up'[c][i].from = c /\ up'[c][i].n <= issued'[c]
          /\ Gapless(up'[c], c, applied'[c])
          /\ applied'[c] <= issued'[c]
          /\ client'[c] \notin {"new", "up"}
      <4>1. up'[c] = t /\ applied' = applied /\ issued' = issued
        BY <3>1
      <4>2. client'[c] \notin {"new", "up"} /\ applied[c] <= issued[c]
        BY <1>1, <2>1, <2>3 DEF UpStream
      <4> HIDE DEF t
      <4> QED
        BY <3>4, <3>5, <4>1, <4>2
    <3> HIDE DEF s, t
    <3>7. UpStream(c)'
      BY <3>6 DEF UpStream, Gapless, EditOf, IsEdit
    <3> QED
      BY <2>3, <3>7
  <2> QED
    BY <2>2, <2>3, Types
<1>3. OwnEdits'
  <2>1. \A d \in Client : pending'[d] = pending[d] \/ pending'[d] = << >>
    BY Types
  <2> QED
    BY <2>1 DEF Inv, OrderInv, OwnEdits, IsEdit
<1>4. DownStreams'
  <2> SUFFICES ASSUME NEW d \in Client
               PROVE  ForwardedEdits(d)' /\ \A a \in Client : DownStream(d, a)'
    BY DEF DownStreams
  <2>1. ForwardedEdits(d) /\ \A a \in Client : DownStream(d, a)
    BY DEF Inv, OrderInv, DownStreams
  <2>2. down'[d] = down[d] \/ (d = c /\ down'[d] = << >>)
    BY Types
  <2>3. ForwardedEdits(d)'
    BY <1>1, <2>1, <2>2 DEF ForwardedEdits, IsEdit
  <2>4. ASSUME NEW a \in Client PROVE DownStream(d, a)'
    <3>1. DownStream(d, a) /\ got[d][a] \in Int
      BY <2>1, Types
    <3>2. CASE d # c
      BY <1>1, <2>2, <3>1, <3>2, DownStreamSame
    <3>3. CASE d = c
      <4>1. Gapless(down'[d], a, got'[d][a])
        BY <2>2, <3>1, GaplessEmpty DEF DownStream
      <4>2. client'[d] \notin {"new", "up"}
        BY <1>1, <3>3
      <4> QED
        BY <4>1, <4>2 DEF DownStream, Gapless, EditOf, IsEdit
    <3> QED
      BY <3>2, <3>3
  <2> QED
    BY <2>3, <2>4
<1>5. Links'
  <2>1. \A a, b \in Client : Caught(b, a)' = Caught(b, a)
    BY DEF Caught, Owes
  <2> QED
    BY <1>1, <2>1 DEF Inv, OrderInv, Links
<1>6. Arrivals'
  BY <1>1 DEF Inv, OrderInv, Arrivals, Distinct
<1>7. Departures'
  <2>1. \A d \in Client : GoodBye(d)' = GoodBye(d)
    BY DEF GoodBye
  <2> QED
    BY <1>1, <2>1 DEF Inv, OrderInv, Departures
<1> QED
  BY <1>2, <1>3, <1>4, <1>5, <1>6, <1>7, ForwardingFrame, AnsweringFrame DEF OrderInv

LEMMA OrderLeaving ==
    ASSUME Inv, NEW c \in Client, Ends(c) \/ NoticeLoss(c) \/ ContinueLocally(c)
    PROVE  OrderInv'
<1>1. UNCHANGED << server, clients, alive, clock, accepted, pc, msg, todo, backlog,
                   issued, applied, sent, got >>
  BY DEF Ends, NoticeLoss, ContinueLocally, serverVars, threadVars, netVars, historyVars
<1>2. CASE Ends(c)
  <2>1. /\ client' = [client EXCEPT ![c] = "gone"]
        /\ \E n \in 0 .. Len(up[c]) : up' = [up EXCEPT ![c] = SubSeq(@, 1, n)]
        /\ down' = [down EXCEPT ![c] = << >>]
        /\ pending' = [pending EXCEPT ![c] = << >>]
    BY <1>2 DEF Ends
  <2> QED
    BY <1>1, <2>1, OrderLeave
<1>3. CASE NoticeLoss(c)
  <2>1. /\ client[c] = "up" /\ client' = [client EXCEPT ![c] = "lost"]
        /\ down' = [down EXCEPT ![c] = << >>]
        /\ up' = up /\ pending' = pending
    BY <1>3 DEF NoticeLoss
  <2> QED
    BY <1>1, <2>1, OrderLeave
<1>4. CASE ContinueLocally(c)
  <2>1. /\ client[c] = "lost" /\ client' = [client EXCEPT ![c] = "local"]
        /\ down' = down /\ up' = up /\ pending' = pending
    BY <1>4 DEF ContinueLocally, netVars
  <2> QED
    BY <1>1, <2>1, OrderLeave
<1> QED
  BY <1>2, <1>3, <1>4

-----------------------------------------------------------------------------
(***************************************************************************)
(* The theorems.                                                           *)
(***************************************************************************)
LEMMA OrderInitially == Init => OrderInv
<1> SUFFICES ASSUME Init PROVE OrderInv
  OBVIOUS
<1>1. /\ server = "up" /\ clients = Connected /\ accepted = NoClient
      /\ alive = [c \in Client |-> c \in ToSet(Connected)]
      /\ pc = [c \in Client |-> IF c \in ToSet(Connected) THEN "recv" ELSE "none"]
      /\ backlog = << >>
      /\ client = [c \in Client |-> IF c \in ToSet(Connected) THEN "up" ELSE "new"]
      /\ \A c \in Client :
            /\ up[c] = << >> /\ down[c] = << >> /\ pending[c] = << >>
            /\ issued[c] = 0 /\ applied[c] = 0
            /\ \A a \in Client : sent[c][a] = 0 /\ got[c][a] = 0
  BY DEF Init
<1>2. /\ \A a \in Client : Gapless(<< >>, a, 0) /\ UpTo(<< >>, a, 0, 0)
      /\ DOMAIN << >> = {}
  BY GaplessEmpty
<1>3. /\ Member = ToSet(Connected) /\ Member \subseteq Client
      /\ Distinct(Connected) /\ NoClient \notin Client
  BY <1>1, SessionAssumption DEF Member, ToSet, Distinct
<1>4. UpStreams /\ OwnEdits /\ DownStreams
  BY <1>1, <1>2 DEF UpStreams, UpStream, OwnEdits, DownStreams, DownStream, ForwardedEdits
<1>5. \A c \in Client : /\ pc[c] \in {"recv", "none"} /\ (c \notin Member => pc[c] = "none")
                        /\ (client[c] = "new" => c \notin Member)
                        /\ (c \in Member => alive[c])
  BY <1>1, <1>3
<1>6. Links
  BY <1>1, <1>3, <1>5 DEF Links, Caught, Owes
<1>7. Forwarding /\ Answering /\ Departures
  BY <1>3, <1>5 DEF Forwarding, Answering, Departures, GoodBye
<1>8. Arrivals
  <2>1. Distinct(<< >>) /\ ToSet(<< >>) = {}
    BY <1>2 DEF Distinct, ToSet
  <2> QED
    BY <1>1, <1>3, <1>5, <2>1 DEF Arrivals
<1> QED
  BY <1>4, <1>6, <1>7, <1>8 DEF OrderInv

LEMMA OrderStep == Inv /\ [Next]_vars => OrderInv'
<1> SUFFICES ASSUME Inv, [Next]_vars PROVE OrderInv'
  OBVIOUS
<1>1. CASE AcceptorStep
  BY <1>1, OrderAccept, OrderNotifyOne, OrderStartThread DEF AcceptorStep
<1>2. ASSUME NEW c \in Client, ServerStep(c) PROVE OrderInv'
  BY <1>2, OrderApplyEdit, OrderCrashOnErase, OrderRequest, OrderReply, OrderTakeClock,
     OrderForward, OrderReleaseClock, OrderListSockets, OrderSerializeText,
     OrderBroadcast, OrderEndBroadcast, OrderDisconnected, OrderClose, OrderSaveOnExit
  DEF ServerStep
<1>3. ASSUME NEW c \in Client, ClientStep(c) PROVE OrderInv'
  BY <1>3, OrderSendEdit, OrderAsk, OrderHandleOther, OrderRemoteEdit, OrderQuietSteps,
     OrderLeaving
  DEF ClientStep, KeyboardStep, HandlerStep, LoopStep, ClientCrash
<1>4. ASSUME NEW c \in Client, UserStep(c) PROVE OrderInv'
  BY <1>4, OrderPress, OrderQuietSteps, OrderConnect, OrderLeaving DEF UserStep, Quit
<1>5. CASE UNCHANGED vars
  <2>1. UNCHANGED << serverVars, threadVars, netVars, client, pending, historyVars >>
    BY <1>5 DEF vars, clientVars
  <2> QED
    BY <2>1, OwnFrame, QuietClient
<1> QED
  BY <1>1, <1>2, <1>3, <1>4, <1>5 DEF Next

\* In every reachable state the edits of each client stand without gap or double,
\* in the order sent, in the queue to the server, in the server's thread and in
\* the queues to the other clients, and each stretch begins where the last ended.
THEOREM OrderCorrect == Spec => []Inv
<1>1. Init => Inv
  BY TypeInit, OrderInitially DEF Inv
<1>2. Inv /\ [Next]_vars => Inv'
  <2> SUFFICES ASSUME Inv, [Next]_vars PROVE Inv'
    OBVIOUS
  <2>1. ASSUME NEW c \in Client, ApplyEdit(c) PROVE Head(up[c]).n > 0
    <3>1. Head(up[c]).n = applied[c] + 1 /\ applied[c] \in Nat
      BY <2>1, NextEdit, Types DEF ApplyEdit
    <3> QED
      BY <3>1
  <2> QED
    BY <2>1, TypeStep, OrderStep DEF Inv
<1> QED
  BY <1>1, <1>2, PTL DEF Spec

\* In every reachable state every variable has its type; in particular no line
\* of any text contains a line break, whatever edits cross in the network.
THEOREM TypeCorrect == Spec => []TypeOK
<1>1. Inv => TypeOK
  BY DEF Inv, TypeInv
<1> QED
  BY <1>1, OrderCorrect, PTL
-----------------------------------------------------------------------------
(***************************************************************************)
(* What follows from the invariant: the edits of each client stay in       *)
(* order, the session implements Relay, and the autosave file is complete  *)
(* when nobody is left.                                                    *)
(***************************************************************************)
\* Whatever the threads do, and whoever joins, leaves or dies, the server applies
\* the edits of a client in the order it sent them, and the other clients handle
\* them in that order: no edit is skipped, doubled or overtaken by another.
THEOREM EditsInOrder == Spec => InOrder
<1> DEFINE A == \A c \in Client :
                   /\ ApplyEdit(c) => NextInLine(Head(up[c]), applied)
                   /\ RemoteEdit(c) => NextInLine(Head(down[c]), got[c])
<1>1. Inv => A
  <2> SUFFICES ASSUME Inv, NEW c \in Client
               PROVE  /\ ApplyEdit(c) => NextInLine(Head(up[c]), applied)
                      /\ RemoteEdit(c) => NextInLine(Head(down[c]), got[c])
    OBVIOUS
  <2>1. ApplyEdit(c) => NextInLine(Head(up[c]), applied)
    BY NextEdit DEF ApplyEdit, NextInLine
  <2>2. RemoteEdit(c) => NextInLine(Head(down[c]), got[c])
    BY NextForwarded DEF RemoteEdit, NextInLine
  <2> QED
    BY <2>1, <2>2
<1>2. Inv /\ [Next]_vars => [A]_vars
  BY <1>1
<1> QED
  BY <1>2, OrderCorrect, PTL DEF Spec, InOrder

-----------------------------------------------------------------------------
(***************************************************************************)
(* The session implements Relay: a step of Session that makes, applies or  *)
(* handles an edit has the number that Relay asks for, any other changes   *)
(* nothing there.                                                          *)
(***************************************************************************)
Recorded == << issued, applied, got, ToSet(clients) >>

LEMMA RelayIssue ==
    ASSUME Inv, NEW c \in Client, SendEdit(c)
    PROVE  Promise!Issue(c) \/ UNCHANGED Recorded
<1>1. UNCHANGED << applied, got, clients >>
  BY DEF SendEdit, serverVars
<1>2. issued' = [issued EXCEPT ![c] = @ + 1] \/ issued' = issued
  BY DEF SendEdit
<1> QED
  BY <1>1, <1>2 DEF Promise!Issue, Recorded

LEMMA RelayApply ==
    ASSUME Inv, NEW c \in Client, ApplyEdit(c)
    PROVE  Promise!Apply(c)
<1>1. /\ applied' = [applied EXCEPT ![c] = @ + 1]
      /\ UNCHANGED << issued, got, clients >>
  BY NextEdit DEF ApplyEdit
<1>2. applied[c] + 1 <= issued[c]
  BY NextEdit DEF ApplyEdit
<1>3. applied[c] < issued[c]
  BY <1>2, Types
<1> QED
  BY <1>1, <1>3 DEF Promise!Apply

LEMMA RelayDeliver ==
    ASSUME Inv, NEW c \in Client, RemoteEdit(c)
    PROVE  \E a \in Client : Promise!Deliver(c, a)
<1> DEFINE a == Head(down[c]).from
<1>1. /\ got' = [got EXCEPT ![c][a] = Head(down[c]).n]
      /\ UNCHANGED << issued, applied, clients >>
  BY DEF RemoteEdit, Handles, serverVars
<1>2. /\ a \in Client /\ Head(down[c]).n = got[c][a] + 1 /\ a # c /\ c \in ToSet(clients)
      /\ got[c][a] + 1 <= applied[a]
  BY NextForwarded, EditFields DEF RemoteEdit, Member
<1>3. got[c][a] < applied[a]
  <2>1. got[c][a] \in Nat /\ applied[a] \in Nat
    <3> HIDE DEF a
    <3> QED
      BY <1>2, Types
  <2> QED
    BY <1>2, <2>1
<1> QED
  BY <1>1, <1>2, <1>3 DEF Promise!Deliver

LEMMA RelayJoin ==
    ASSUME Inv, StartThread
    PROVE  \E b \in Client : Promise!Join(b)
<1> DEFINE b == accepted
<1>1. /\ b # NoClient /\ clients' = Append(clients, b)
      /\ got' = [got EXCEPT ![b] = Missed]
      /\ UNCHANGED << issued, applied >>
  BY DEF StartThread
<1>2. b \in Client /\ b \notin ToSet(clients)
  BY <1>1, Types DEF Inv, OrderInv, Arrivals, Member
<1>3. ToSet(clients') = ToSet(clients) \cup {b}
  <2> DEFINE t == Append(clients, b)
  <2>1. clients \in Seq(Client)
    BY Types
  <2>2. /\ DOMAIN clients = 1 .. Len(clients) /\ DOMAIN t = 1 .. Len(clients) + 1
        /\ t[Len(clients) + 1] = b /\ Len(clients) \in Nat
        /\ \A i \in DOMAIN clients : t[i] = clients[i]
        /\ \A i \in DOMAIN t : i \in DOMAIN clients \/ i = Len(clients) + 1
    BY <1>2, <2>1
  <2>3. \A x : x \in ToSet(t) <=> x \in ToSet(clients) \cup {b}
    BY <2>2 DEF ToSet
  <2> QED
    BY <1>1, <2>3
<1>4. got' \in [Client -> [Client -> Nat]]
  BY TypeStartThread DEF Inv, TypeInv, TypeOK, HistoryTypes
<1>5. /\ \A c \in Client \ {b} : got'[c] = got[c]
      /\ \A a \in Client : got'[b][a] <= applied[a]
  <2>1. /\ \A c \in Client \ {b} : got'[c] = got[c]
        /\ got'[b] = Missed
    BY <1>1, <1>2, Types
  <2>2. ASSUME NEW a \in Client PROVE Missed[a] <= applied[a]
    <3>1. applied[a] \in Nat
      BY Types
    <3>2. Missed[a] = IF pc[a] = "clock" THEN applied[a] - 1 ELSE applied[a]
      BY DEF Missed
    <3> QED
      BY <3>1, <3>2
  <2> QED
    BY <2>1, <2>2
<1> QED
  BY <1>1, <1>2, <1>3, <1>4, <1>5 DEF Promise!Join

LEMMA RelayStutters ==
    ASSUME [Next]_vars
    PROVE  \/ UNCHANGED Recorded
           \/ StartThread
           \/ \E c \in Client : SendEdit(c) \/ ApplyEdit(c) \/ RemoteEdit(c)
<1>1. CASE AcceptorStep
  BY <1>1 DEF AcceptorStep, Accept, NotifyOne, Recorded, historyVars
<1>2. ASSUME NEW c \in Client, ServerStep(c)
      PROVE  UNCHANGED Recorded \/ ApplyEdit(c)
  BY <1>2
  DEF ServerStep, CrashOnErase, WriteToDisk, ReadFromDisk, Answer, Reply, TakeClock,
      Forward, ReleaseClock, ListSockets, SerializeText, Broadcast, EndBroadcast,
      Disconnected, Close, SaveOnExit, Recorded, serverVars, historyVars
<1>3. ASSUME NEW c \in Client, ClientStep(c)
      PROVE  UNCHANGED Recorded \/ SendEdit(c) \/ RemoteEdit(c)
  BY <1>3
  DEF ClientStep, KeyboardStep, HandlerStep, LoopStep, SendRequest, ForcedText, Overwrite,
      IgnoreText, ShowNotice, Handles, ClearFlag, AskForText, ClientCrash, Ends,
      NoticeLoss, Recorded, serverVars, historyVars
<1>4. ASSUME NEW c \in Client, UserStep(c) PROVE UNCHANGED Recorded
  BY <1>4
  DEF UserStep, PressChar, PressTab, PressEnter, PressBackspace, PressDelete, PressCommand,
      PressSync, Press, MoveCursor, Connect, Quit, Ends, ContinueLocally, Recorded,
      serverVars, historyVars
<1>5. CASE UNCHANGED vars
  BY <1>5 DEF vars, serverVars, historyVars, Recorded
<1> QED
  BY <1>1, <1>2, <1>3, <1>4, <1>5 DEF Next

\* Of each client the edit that the server applies next, and the edit that each
\* other client in its list handles next, is the one after the last, has been
\* made or applied before, and never comes back to its author: what
\* thread_routine() and forward_message() do implements Relay.
THEOREM RelayCorrect == Spec => ImplementsRelay
<1>1. Init => Promise!Init
  <2>1. ToSet(Connected) \in SUBSET Client
    BY SessionAssumption DEF ToSet
  <2> QED
    BY <2>1 DEF Init, Promise!Init
<1>2. Inv /\ [Next]_vars => [Promise!Next]_(Promise!vars)
  <2> SUFFICES ASSUME Inv, [Next]_vars PROVE Promise!Next \/ UNCHANGED Recorded
    BY DEF Promise!vars, Recorded
  <2> QED
    BY RelayStutters, RelayIssue, RelayApply, RelayDeliver, RelayJoin DEF Promise!Next
<1> QED
  BY <1>1, <1>2, OrderCorrect, PTL DEF Spec, ImplementsRelay, Promise!Spec

-----------------------------------------------------------------------------
(***************************************************************************)
(* The autosave file.  While a thread lives, the file may be out of date;  *)
(* a thread that dies writes it, and with nobody left nothing changes.     *)
(***************************************************************************)
LEMMA ThreadMember ==
    ASSUME Inv, NEW c \in Client, pc[c] # "none"
    PROVE  c \in Member
BY DEF Inv, OrderInv, Arrivals

LEMMA AutosaveKept ==
    ASSUME [Next]_vars
    PROVE  \/ UNCHANGED << text, disk, clients, pc >>
           \/ StartThread
           \/ \E c \in Client : SaveOnExit(c)
           \/ /\ UNCHANGED clients
              /\ \E c \in Client, label \in Labels \ {"dead"} :
                    pc[c] # "none" /\ pc' = [pc EXCEPT ![c] = label]
<1>1. CASE AcceptorStep
  BY <1>1 DEF AcceptorStep, Accept, NotifyOne, threadVars
<1>2. ASSUME NEW c \in Client, ServerStep(c)
      PROVE  \/ UNCHANGED << text, disk, clients, pc >>
             \/ SaveOnExit(c)
             \/ /\ UNCHANGED clients
                /\ \E label \in Labels \ {"dead"} :
                      pc[c] # "none" /\ pc' = [pc EXCEPT ![c] = label]
  <2>1. CASE CrashOnErase(c) \/ Forward(c) \/ Broadcast(c)
    BY <2>1 DEF CrashOnErase, Forward, Broadcast, serverVars, threadVars
  <2>2. CASE ApplyEdit(c) \/ WriteToDisk(c) \/ ReadFromDisk(c) \/ Answer(c) \/ Disconnected(c)
    BY <2>2 DEF ApplyEdit, WriteToDisk, ReadFromDisk, Answer, Disconnected, Receives, Goto,
                serverVars, Labels
  <2>3. CASE Reply(c) \/ TakeClock(c) \/ ReleaseClock(c) \/ ListSockets(c)
              \/ SerializeText(c) \/ EndBroadcast(c) \/ Close(c)
    BY <2>3 DEF Reply, TakeClock, ReleaseClock, ListSockets, SerializeText, EndBroadcast,
                Close, Goto, serverVars, Labels
  <2> QED
    BY <1>2, <2>1, <2>2, <2>3 DEF ServerStep
<1>3. ASSUME NEW c \in Client, ClientStep(c) PROVE UNCHANGED << text, disk, clients, pc >>
  BY <1>3
  DEF ClientStep, KeyboardStep, HandlerStep, LoopStep, SendEdit, SendRequest, ForcedText,
      Overwrite, IgnoreText, RemoteEdit, ShowNotice, Handles, ClearFlag, AskForText,
      ClientCrash, Ends, NoticeLoss, serverVars, threadVars
<1>4. ASSUME NEW c \in Client, UserStep(c) PROVE UNCHANGED << text, disk, clients, pc >>
  BY <1>4
  DEF UserStep, PressChar, PressTab, PressEnter, PressBackspace, PressDelete, PressCommand,
      PressSync, Press, MoveCursor, Connect, Quit, Ends, ContinueLocally,
      serverVars, threadVars
<1>5. CASE UNCHANGED vars
  BY <1>5 DEF vars, serverVars, threadVars
<1> QED
  BY <1>1, <1>2, <1>3, <1>4, <1>5 DEF Next

LEMMA AutosaveStep == Inv /\ AutosaveHoldsText /\ [Next]_vars => AutosaveHoldsText'
<1> SUFFICES ASSUME Inv, AutosaveHoldsText, [Next]_vars,
                    clients' # << >>, \A i \in DOMAIN clients' : pc'[clients'[i]] = "dead"
             PROVE  disk'[Autosave] = text'
  BY DEF AutosaveHoldsText
<1>1. CASE UNCHANGED << text, disk, clients, pc >>
  BY <1>1 DEF AutosaveHoldsText
<1>2. CASE StartThread
  <2>1. /\ clients' = Append(clients, accepted) /\ accepted \in Client
        /\ pc'[accepted] = "recv" /\ clients \in Seq(Client)
    BY <1>2, Types DEF StartThread, Goto
  <2>2. Len(clients) + 1 \in DOMAIN clients' /\ clients'[Len(clients) + 1] = accepted
    BY <2>1
  <2> QED
    BY <2>1, <2>2
<1>3. ASSUME NEW c \in Client, SaveOnExit(c) PROVE disk'[Autosave] = text'
  BY <1>3, SessionAssumption DEF SaveOnExit, Inv, TypeInv, TypeOK, ServerTypes
<1>4. ASSUME NEW c \in Client, NEW label \in Labels \ {"dead"}, UNCHANGED clients,
             pc[c] # "none", pc' = [pc EXCEPT ![c] = label]
      PROVE  FALSE
  <2>1. PICK i \in DOMAIN clients : clients[i] = c
    BY <1>4, ThreadMember DEF Member, ToSet
  <2>2. pc'[c] # "dead"
    BY <1>4, Types
  <2> QED
    BY <1>4, <2>1, <2>2
<1> QED
  BY <1>1, <1>2, <1>3, <1>4, AutosaveKept

\* When the last thread of the server has ended, "autosave.txt" holds the text
\* with every edit, however the threads of the clients that leave interleave.
THEOREM AutosaveCorrect == Spec => []AutosaveHoldsText
<1>1. Init => AutosaveHoldsText
  <2> SUFFICES ASSUME Init, clients # << >>
               PROVE  \E i \in DOMAIN clients : pc[clients[i]] # "dead"
    BY DEF AutosaveHoldsText
  <2>1. /\ clients = Connected /\ Connected \in Seq(Client)
        /\ pc = [c \in Client |-> IF c \in ToSet(Connected) THEN "recv" ELSE "none"]
    BY SessionAssumption DEF Init
  <2>2. 1 \in DOMAIN clients /\ clients[1] \in Client
    BY <2>1
  <2> QED
    BY <2>1, <2>2
<1> QED
  BY <1>1, AutosaveStep, OrderCorrect, PTL DEF Spec
-----------------------------------------------------------------------------
\* Who changes what; and that the last text asked for holds every edit.

LEMMA MoreTypes ==
    ASSUME Inv
    PROVE  /\ text \in Doc /\ disk \in [File -> Doc]
           /\ local \in [Client -> Doc] /\ modified \in [Client -> BOOLEAN]
           /\ cursor \in [Client -> Position] /\ presses \in [Client -> 0 .. MaxKeys]
           /\ loop \in [Client -> {"sleep", "cleared"}]
           /\ clock \in Client \cup {NoClient}
           /\ notify \in Seq(Client \cup {NoClient})
BY DEF Inv, TypeInv, TypeOK, ServerTypes, ClientTypes

LEMMA SentTo ==
    ASSUME Inv, NEW d \in Client, NEW b, NEW p, SendTo(b, p)
    PROVE  \/ down'[d] = down[d]
           \/ d = b /\ client[d] = "up" /\ down'[d] = Append(down[d], p)
BY Types DEF SendTo

\* g is f, but for the entry of c.
ButFor(c, f, g) == g = f \/ \E v : g = [f EXCEPT ![c] = v]

LEMMA OtherEntry ==
    ASSUME NEW S, NEW f \in [Client -> S], NEW g, NEW c, ButFor(c, f, g),
           NEW d \in Client \ {c}
    PROVE  g[d] = f[d]
BY DEF ButFor

\* A step of one client and its thread, seen by another client.
LEMMA Elsewhere ==
    ASSUME Inv, NEW d \in Client, NEW c \in Client \ {d},
           ServerStep(c) \/ ClientStep(c) \/ UserStep(c)
    PROVE  /\ UNCHANGED Own(d)
           /\ \/ down'[d] = down[d]
              \/ /\ client[d] = "up" /\ pc[c] \in {"forward", "broadcast"}
                 /\ down'[d] = Append(down[d], msg[c])
<1> USE Types, MoreTypes DEF Own
<1>1. ASSUME ServerStep(c)
      PROVE  /\ UNCHANGED Own(d)
             /\ \/ down'[d] = down[d]
                \/ /\ client[d] = "up" /\ pc[c] \in {"forward", "broadcast"}
                   /\ down'[d] = Append(down[d], msg[c])
  <2> DEFINE Rest == UNCHANGED << down, clientVars, issued >>
             Queue == ButFor(c, up, up') /\ ButFor(c, applied, applied')
             Thread == ButFor(c, pc, pc') /\ ButFor(c, msg, msg') /\ ButFor(c, todo, todo')
  <2>0. ASSUME Rest, Queue, Thread PROVE UNCHANGED Own(d) /\ down'[d] = down[d]
    <3>1. up'[d] = up[d]
      <4> DEFINE S == Seq(ToServer)
      <4>1. up \in [Client -> S] /\ ButFor(c, up, up') /\ d \in Client \ {c}
        BY <2>0
      <4> HIDE DEF S
      <4> QED
        BY ONLY <4>1, OtherEntry
    <3>2. applied'[d] = applied[d]
      <4>1. applied \in [Client -> Nat] /\ ButFor(c, applied, applied') /\ d \in Client \ {c}
        BY <2>0
      <4> QED
        BY ONLY <4>1, OtherEntry
    <3>3. pc'[d] = pc[d]
      <4>1. pc \in [Client -> Labels] /\ ButFor(c, pc, pc') /\ d \in Client \ {c}
        BY <2>0
      <4> QED
        BY ONLY <4>1, OtherEntry
    <3>4. msg'[d] = msg[d]
      <4>1. msg \in [Client -> ToClient] /\ ButFor(c, msg, msg') /\ d \in Client \ {c}
        BY <2>0
      <4> QED
        BY ONLY <4>1, OtherEntry
    <3>5. todo'[d] = todo[d]
      <4> DEFINE S == Seq(Client \cup {NoClient})
      <4>1. todo \in [Client -> S] /\ ButFor(c, todo, todo') /\ d \in Client \ {c}
        BY <2>0
      <4> HIDE DEF S
      <4> QED
        BY ONLY <4>1, OtherEntry
    <3> QED
      BY <2>0, <3>1, <3>2, <3>3, <3>4, <3>5 DEF clientVars
  <2>1. CASE ApplyEdit(c) \/ CrashOnErase(c)
    <3>1. ASSUME ApplyEdit(c) PROVE Rest /\ Queue /\ Thread
      BY ONLY <3>1 DEF ApplyEdit, Rest, Queue, Thread, ButFor, Receives, Goto
    <3>2. ASSUME CrashOnErase(c) PROVE Rest /\ Queue /\ Thread
      BY ONLY <3>2 DEF CrashOnErase, Rest, Queue, Thread, ButFor, Receives, threadVars, historyVars
    <3> QED
      BY ONLY <2>0, <2>1, <3>1, <3>2
  <2>2. CASE WriteToDisk(c) \/ ReadFromDisk(c) \/ Answer(c)
    <3>1. ASSUME WriteToDisk(c) PROVE Rest /\ Queue /\ Thread
      BY ONLY <3>1 DEF WriteToDisk, Rest, Queue, Thread, ButFor, Receives, Goto, historyVars
    <3>2. ASSUME ReadFromDisk(c) PROVE Rest /\ Queue /\ Thread
      BY ONLY <3>2 DEF ReadFromDisk, Rest, Queue, Thread, ButFor, Receives, Goto, historyVars
    <3>3. ASSUME Answer(c) PROVE Rest /\ Queue /\ Thread
      BY ONLY <3>3 DEF Answer, Rest, Queue, Thread, ButFor, Receives, Goto, historyVars
    <3> QED
      BY ONLY <2>0, <2>2, <3>1, <3>2, <3>3
  <2>3. CASE Reply(c)
    BY <2>3 DEF Reply, SendTo, Goto, clientVars, historyVars
  <2>4. CASE TakeClock(c) \/ ReleaseClock(c)
    <3>1. ASSUME TakeClock(c) PROVE Rest /\ Queue /\ Thread
      BY ONLY <3>1 DEF TakeClock, Rest, Queue, Thread, ButFor, Goto, netVars, historyVars
    <3>2. ASSUME ReleaseClock(c) PROVE Rest /\ Queue /\ Thread
      BY ONLY <3>2 DEF ReleaseClock, Rest, Queue, Thread, ButFor, Goto, netVars, historyVars
    <3> QED
      BY ONLY <2>0, <2>4, <3>1, <3>2
  <2>5. CASE Forward(c)
    <3>1. UNCHANGED Own(d)
      BY <2>5 DEF Forward, clientVars
    <3>2. \/ UNCHANGED down
          \/ SendTo(Head(todo[c]), msg[c])
      BY <2>5 DEF Forward
    <3>3. pc[c] = "forward"
      BY <2>5 DEF Forward
    <3>4. \/ down'[d] = down[d]
          \/ client[d] = "up" /\ down'[d] = Append(down[d], msg[c])
      BY ONLY <3>2, SentTo, Inv
    <3> QED
      BY ONLY <3>1, <3>3, <3>4
  <2>6. CASE ListSockets(c) \/ SerializeText(c) \/ EndBroadcast(c)
    <3>1. ASSUME ListSockets(c) PROVE Rest /\ Queue /\ Thread
      BY ONLY <3>1 DEF ListSockets, Rest, Queue, Thread, ButFor, Goto, netVars, historyVars
    <3>2. ASSUME SerializeText(c) PROVE Rest /\ Queue /\ Thread
      BY ONLY <3>2 DEF SerializeText, Rest, Queue, Thread, ButFor, Goto, netVars, historyVars
    <3>3. ASSUME EndBroadcast(c) PROVE Rest /\ Queue /\ Thread
      BY ONLY <3>3 DEF EndBroadcast, Rest, Queue, Thread, ButFor, Goto, netVars, historyVars
    <3> QED
      BY ONLY <2>0, <2>6, <3>1, <3>2, <3>3
  <2>7. CASE Broadcast(c)
    <3>1. UNCHANGED Own(d)
      BY <2>7 DEF Broadcast, clientVars, historyVars
    <3>2. \/ UNCHANGED down
          \/ SendTo(Head(todo[c]), msg[c])
      BY <2>7 DEF Broadcast
    <3>3. pc[c] = "broadcast"
      BY <2>7 DEF Broadcast
    <3>4. \/ down'[d] = down[d]
          \/ client[d] = "up" /\ down'[d] = Append(down[d], msg[c])
      BY ONLY <3>2, SentTo, Inv
    <3> QED
      BY ONLY <3>1, <3>3, <3>4
  <2>8. CASE Disconnected(c) \/ Close(c) \/ SaveOnExit(c)
    <3>1. ASSUME Disconnected(c) PROVE Rest /\ Queue /\ Thread
      BY ONLY <3>1 DEF Disconnected, Rest, Queue, Thread, ButFor, Goto, netVars, historyVars
    <3>2. ASSUME Close(c) PROVE Rest /\ Queue /\ Thread
      BY ONLY <3>2 DEF Close, Rest, Queue, Thread, ButFor, Goto, netVars, historyVars
    <3>3. ASSUME SaveOnExit(c) PROVE Rest /\ Queue /\ Thread
      BY ONLY <3>3 DEF SaveOnExit, Rest, Queue, Thread, ButFor, Goto, netVars, historyVars
    <3> QED
      BY ONLY <2>0, <2>8, <3>1, <3>2, <3>3
  <2> QED
    BY <1>1, <2>1, <2>2, <2>3, <2>4, <2>5, <2>6, <2>7, <2>8 DEF ServerStep
<1>2. ASSUME ClientStep(c) PROVE UNCHANGED Own(d) /\ down'[d] = down[d]
  <2>1. CASE SendEdit(c) \/ SendRequest(c)
    <3>1. CASE SendEdit(c)
      <4>1. UNCHANGED << threadVars, down, client, modified, cursor, loop, presses, applied >>
        BY <3>1 DEF SendEdit
      <4>2. \E doc : local' = [local EXCEPT ![c] = doc]
        BY <3>1 DEF SendEdit
      <4>3. \E s : pending' = [pending EXCEPT ![c] = s]
        BY <3>1 DEF SendEdit
      <4>4. up'[d] = up[d] /\ issued'[d] = issued[d]
        BY <3>1 DEF SendEdit, SendUp
      <4> QED
        BY <4>1, <4>2, <4>3, <4>4 DEF threadVars
    <3>2. CASE SendRequest(c)
      BY <3>2, SMTT(30) DEF SendRequest, SendUp, threadVars, historyVars
    <3> QED
      BY <2>1, <3>1, <3>2
  <2>2. CASE ForcedText(c) \/ Overwrite(c) \/ IgnoreText(c) \/ ShowNotice(c)
    BY <2>2 DEF ForcedText, Overwrite, IgnoreText, ShowNotice, Handles, CursorTo,
                threadVars, historyVars
  <2>3. CASE RemoteEdit(c)
    BY <2>3 DEF RemoteEdit, Handles, threadVars
  <2>4. CASE ClearFlag(c) \/ AskForText(c)
    BY <2>4 DEF ClearFlag, AskForText, SetFlag, SendUp, threadVars, netVars, historyVars
  <2>5. CASE Ends(c)
    BY <2>5 DEF Ends, threadVars, historyVars
  <2>6. CASE NoticeLoss(c)
    BY <2>6 DEF NoticeLoss, threadVars, historyVars
  <2> QED
    BY <1>2, <2>1, <2>2, <2>3, <2>4, <2>5, <2>6
    DEF ClientStep, KeyboardStep, HandlerStep, LoopStep, ClientCrash
<1>3. ASSUME UserStep(c) PROVE UNCHANGED Own(d) /\ down'[d] = down[d]
  <2>1. CASE PressChar(c) \/ PressTab(c) \/ PressEnter(c)
    BY <2>1 DEF PressChar, PressTab, PressEnter, Press, SetFlag, Then, CursorTo,
                threadVars, netVars, historyVars
  <2>2. CASE PressBackspace(c) \/ PressDelete(c)
    BY <2>2 DEF PressBackspace, PressDelete, Press, SetFlag, Then, CursorTo,
                threadVars, netVars, historyVars
  <2>3. CASE PressCommand(c) \/ PressSync(c)
    BY <2>3 DEF PressCommand, PressSync, Press, SetFlag, Then, threadVars, netVars,
                historyVars
  <2>4. CASE MoveCursor(c) \/ ContinueLocally(c)
    BY <2>4 DEF MoveCursor, ContinueLocally, threadVars, netVars, historyVars
  <2>5. CASE Connect(c)
    BY <2>5 DEF Connect, threadVars, historyVars
  <2>6. CASE Ends(c)
    BY <2>6 DEF Ends, threadVars, historyVars
  <2> QED
    BY <1>3, <2>1, <2>2, <2>3, <2>4, <2>5, <2>6 DEF UserStep, Quit
<1> QED
  BY <1>1, <1>2, <1>3

\* A step of the accepting thread, seen by a client.
LEMMA Accepting ==
    ASSUME Inv, NEW d \in Client, AcceptorStep
    PROVE  /\ UNCHANGED << server, text, disk >>
           /\ UNCHANGED << up[d], pending[d], local[d], modified[d], cursor[d], presses[d],
                           loop[d], client[d], issued[d], applied[d], msg[d], todo[d] >>
           /\ pc'[d] = pc[d] \/ (pc[d] = "none" /\ pc'[d] = "recv")
           /\ \/ down'[d] = down[d]
              \/ client[d] = "up" /\ down'[d] = Append(down[d], NoticeOf("Disconnect"))
<1> USE Types, MoreTypes
<1>1. CASE Accept
  BY <1>1 DEF Accept, threadVars, clientVars, historyVars
<1>2. CASE NotifyOne
  <2>1. \/ UNCHANGED down
        \/ SendTo(Head(notify), NoticeOf("Disconnect"))
    BY <1>2 DEF NotifyOne
  <2>2. UNCHANGED << server, text, disk, threadVars, up, clientVars, historyVars >>
    BY <1>2 DEF NotifyOne
  <2> QED
    BY <2>1, <2>2, SentTo DEF threadVars, clientVars, historyVars
<1>3. CASE StartThread
  <2>1. accepted \in Client /\ pc[accepted] = "none"
    BY <1>3 DEF StartThread, Inv, OrderInv, Arrivals
  <2> QED
    BY <1>3, <2>1 DEF StartThread, Goto, netVars, clientVars
<1> QED
  BY <1>1, <1>2, <1>3 DEF AcceptorStep

LEMMA FiniteDomain ==
    ASSUME NEW S, NEW s \in Seq(S)
    PROVE  IsFiniteSet(DOMAIN s)
<1>1. Len(s) \in Nat /\ DOMAIN s = 1 .. Len(s)
  OBVIOUS
<1> DEFINE n == Len(s)
<1> HIDE DEF n
<1>2. IsFiniteSet(1 .. n)
  BY <1>1, FS_Interval DEF n
<1> QED
  BY <1>1, <1>2 DEF n

LEMMA SyncFrame ==
    ASSUME NEW d \in Client, Inv, Synchronised(d),
           UNCHANGED << up[d], pending[d], modified[d], issued[d], client[d], loop[d] >>,
           server' = "up" => server = "up",
           TextReady(d)' = TextReady(d), TextReady(d) => msg'[d] = msg[d],
           NEW p,
           down'[d] = down[d] \/ (down'[d] = Append(down[d], p) /\ ~ AskedText(p))
    PROVE  Synchronised(d)'
<1> SUFFICES ASSUME server' = "up", client'[d] \in {"new", "up"}, ~ modified'[d]
             PROVE  /\ pending'[d] \in { << >>, << GetFull >> }
                    /\ pending'[d] = << >> /\ loop'[d] = "sleep" => AskedLast(d)' \/ AnsweredLast(d)'
  BY DEF Synchronised
<1>1. /\ pending[d] \in { << >>, << GetFull >> }
      /\ pending[d] = << >> /\ loop[d] = "sleep" => AskedLast(d) \/ AnsweredLast(d)
  BY DEF Synchronised
<1>2. AskedLast(d) => AskedLast(d)'
  BY DEF AskedLast, IsEdit
<1>3. ASSUME AnsweredLast(d) PROVE AnsweredLast(d)'
  <2>1. down[d] \in Seq(ToClient)
    BY Types
  <2>2. CASE down'[d] = down[d]
    BY <1>3, <2>2 DEF AnsweredLast, IsEdit, AskedText
  <2>3. CASE down'[d] = Append(down[d], p) /\ ~ AskedText(p)
    <3> DEFINE s == down[d]
               t == Append(s, p)
    <3>1. /\ \A i \in DOMAIN t : t[i] = p \/ (i \in DOMAIN s /\ t[i] = s[i])
          /\ \A i \in DOMAIN s : i \in DOMAIN t /\ t[i] = s[i]
      BY <2>1
    <3>2. ASSUME ~ TextReady(d), NEW i \in DOMAIN t, AskedText(t[i])
          PROVE  \/ \E j \in DOMAIN t : j > i /\ AskedText(t[j])
                 \/ t[i].has[d] = issued[d]
      <4>1. i \in DOMAIN s /\ t[i] = s[i]
        BY <2>3, <3>1, <3>2
      <4>2. \/ \E j \in DOMAIN s : j > i /\ AskedText(s[j])
            \/ s[i].has[d] = issued[d]
        BY <1>3, <3>2, <4>1 DEF AnsweredLast
      <4> QED
        BY <3>1, <4>1, <4>2
    <3>3. down'[d] = t
      BY <2>3
    <3> HIDE DEF t
    <3> QED
      BY <1>3, <3>2, <3>3 DEF AnsweredLast, IsEdit, AskedText
  <2> QED
    BY <2>2, <2>3
<1> QED
  BY <1>1, <1>2, <1>3

LEMMA SyncSame ==
    ASSUME NEW d \in Client, Inv, Synchronised(d),
           UNCHANGED << server, up, down, pending, modified, issued, client, loop >>,
           ~ TextReady(d), ~ TextReady(d)'
    PROVE  Synchronised(d)'
<1>1. TextReady(d)' = TextReady(d)
  BY DEF TextReady
<1>2. UNCHANGED << up[d], down[d], pending[d], modified[d], issued[d], client[d], loop[d] >>
  OBVIOUS
<1> QED
  BY <1>1, <1>2, SyncFrame

\* The thread of d takes something else than a request for the text.
LEMMA SyncReceives ==
    ASSUME Inv, NEW d \in Client, Synchronised(d), NEW types, "GetFull" \notin types,
           Receives(d, types), ~ TextReady(d)',
           UNCHANGED << server, down, pending, modified, issued, client, loop >>
    PROVE  Synchronised(d)'
<1> DEFINE s == up[d]
           t == Tail(s)
<1> SUFFICES ASSUME client[d] \in {"new", "up"}, ~ modified[d]
             PROVE  /\ pending[d] \in { << >>, << GetFull >> }
                    /\ pending[d] = << >> /\ loop[d] = "sleep" => AskedLast(d)' \/ AnsweredLast(d)'
  BY DEF Synchronised
<1>1. /\ pending[d] \in { << >>, << GetFull >> }
      /\ pending[d] = << >> /\ loop[d] = "sleep" => AskedLast(d) \/ AnsweredLast(d)
  BY DEF Synchronised, Receives
<1>2. /\ up'[d] = t /\ s \in Seq(ToServer) /\ s # << >> /\ s[1].type # "GetFull"
      /\ ~ TextReady(d)
  <2>1. /\ s \in Seq(ToServer) /\ s # << >> /\ Head(s).type # "GetFull" /\ pc[d] = "recv"
        /\ up \in [Client -> Seq(ToServer)] /\ up' = [up EXCEPT ![d] = Tail(@)]
    BY Types DEF Receives
  <2> QED
    BY <2>1 DEF TextReady
<1>3. /\ \A i \in DOMAIN t : i + 1 \in DOMAIN s /\ t[i] = s[i + 1] /\ i \in Int
      /\ \A i \in DOMAIN s : i # 1 => i - 1 \in DOMAIN t /\ t[i - 1] = s[i]
      /\ DOMAIN s \subseteq Int
  BY <1>2
<1> HIDE DEF t
<1>4. ASSUME AskedLast(d) PROVE AskedLast(d)'
  <2>1. PICK i \in DOMAIN s : /\ s[i].type = "GetFull"
                              /\ \A j \in DOMAIN s : j > i => ~ IsEdit(s[j])
    BY <1>4 DEF AskedLast
  <2>2. i - 1 \in DOMAIN t /\ t[i - 1] = s[i] /\ i \in Int
    BY <1>2, <1>3, <2>1
  <2>3. \A j \in DOMAIN t : j > i - 1 => ~ IsEdit(t[j])
    BY <1>3, <2>1, <2>2
  <2> QED
    BY <1>2, <2>1, <2>2, <2>3 DEF AskedLast, IsEdit
<1>5. ASSUME AnsweredLast(d) PROVE AnsweredLast(d)'
  <2>1. \A i \in DOMAIN t : t[i].type # "GetFull" /\ ~ IsEdit(t[i])
    BY <1>3, <1>5 DEF AnsweredLast
  <2> QED
    BY <1>2, <1>5, <2>1 DEF AnsweredLast, IsEdit, AskedText
<1> QED
  BY <1>1, <1>4, <1>5

LEMMA SyncAnswer ==
    ASSUME Inv, NEW d \in Client, Synchronised(d), Answer(d)
    PROVE  Synchronised(d)'
<1>0. UNCHANGED << server, down, pending, modified, issued, applied, client, loop >>
  BY DEF Answer, serverVars, clientVars, historyVars
<1>1. CASE Receives(d, {"GetClientCount"}) /\ msg'[d].type = "ClientCount"
  <2>1. ~ TextReady(d)'
    BY <1>1 DEF TextReady
  <2> QED
    BY <1>0, <1>1, <2>1, SyncReceives
<1>2. CASE Receives(d, {"GetFull"}) /\ msg' = [msg EXCEPT ![d] = ContentOf(FALSE)]
  <2> DEFINE s == up[d]
             t == Tail(s)
  <2> SUFFICES ASSUME client[d] \in {"new", "up"}, ~ modified[d]
               PROVE  /\ pending[d] \in { << >>, << GetFull >> }
                      /\ pending[d] = << >> /\ loop[d] = "sleep" => AskedLast(d)' \/ AnsweredLast(d)'
    BY <1>0 DEF Synchronised
  <2>1. /\ pending[d] \in { << >>, << GetFull >> }
        /\ pending[d] = << >> /\ loop[d] = "sleep" => AskedLast(d) \/ AnsweredLast(d)
    BY <1>2 DEF Synchronised, Receives
  <2>2. /\ up'[d] = t /\ s \in Seq(ToServer) /\ s # << >> /\ s[1].type = "GetFull"
        /\ 1 \in DOMAIN s /\ server = "up"
    BY <1>2, Types DEF Receives
  <2>3. /\ \A i \in DOMAIN t : i + 1 \in DOMAIN s /\ t[i] = s[i + 1] /\ i \in Int /\ i > 0
        /\ \A i \in DOMAIN s : i # 1 => i - 1 \in DOMAIN t /\ t[i - 1] = s[i]
        /\ DOMAIN s \subseteq Int
    BY <2>2
  <2>4. msg'[d].has[d] = applied[d]
    BY <1>2, Types DEF ContentOf
  <2> HIDE DEF t
  <2>5. ~ AnsweredLast(d)
    BY <2>2 DEF AnsweredLast
  <2>6. ASSUME AskedLast(d) PROVE AskedLast(d)' \/ AnsweredLast(d)'
    <3>1. PICK i \in DOMAIN s : /\ s[i].type = "GetFull"
                                /\ \A j \in DOMAIN s : j > i => ~ IsEdit(s[j])
      BY <2>6 DEF AskedLast
    <3>2. CASE i # 1
      <4>1. i - 1 \in DOMAIN t /\ t[i - 1] = s[i] /\ i \in Int
        BY <2>3, <3>2
      <4>2. \A j \in DOMAIN t : j > i - 1 => ~ IsEdit(t[j])
        BY <2>3, <3>1, <4>1
      <4> QED
        BY <2>2, <3>1, <4>1, <4>2 DEF AskedLast, IsEdit
    <3>3. CASE i = 1
      <4>1. \A j \in DOMAIN t : ~ IsEdit(t[j])
        BY <2>3, <3>1, <3>3
      <4>2. CASE \E k \in DOMAIN t : t[k].type = "GetFull"
        BY <2>2, <4>1, <4>2 DEF AskedLast, IsEdit
      <4>3. CASE \A k \in DOMAIN t : t[k].type # "GetFull"
        <5>1. \A j \in DOMAIN s : ~ EditOf(s[j], d)
          BY <2>2, <2>3, <3>1, <3>3 DEF EditOf, IsEdit
        <5>2. UpTo(s, d, applied[d], issued[d])
          BY <2>2 DEF Inv, OrderInv, UpStreams, UpStream
        <5>3. applied[d] = issued[d]
          <6>1. applied[d] \in Int /\ issued[d] \in Int
            BY Types
          <6>2. applied[d] <= issued[d] /\ ~ (applied[d] < issued[d])
            BY <5>1, <5>2 DEF UpTo
          <6> QED
            BY <6>1, <6>2
        <5>4. pc'[d] = "reply" /\ msg'[d].type = "FullContent"
          BY <1>2, Types DEF Answer, Goto, ContentOf
        <5>5. TextReady(d)' /\ msg'[d].has[d] = issued'[d]
          BY <1>0, <2>4, <5>3, <5>4 DEF TextReady
        <5> QED
          BY <2>2, <4>1, <4>3, <5>5 DEF AnsweredLast, IsEdit
      <4> QED
        BY <4>2, <4>3
    <3> QED
      BY <3>2, <3>3
  <2> QED
    BY <2>1, <2>5, <2>6
<1>3. \/ Receives(d, {"GetClientCount"}) /\ msg'[d].type = "ClientCount"
      \/ Receives(d, {"GetFull"}) /\ msg' = [msg EXCEPT ![d] = ContentOf(FALSE)]
  <2>1. ASSUME msg' = [msg EXCEPT ![d] = [type |-> "ClientCount", count |-> SocketCount]]
        PROVE  msg'[d].type = "ClientCount"
    BY <2>1, Types
  <2> QED
    BY <2>1 DEF Answer
<1> QED
  BY <1>1, <1>2, <1>3

LEMMA SyncReply ==
    ASSUME Inv, NEW d \in Client, Synchronised(d), TextKinds(d), Reply(d)
    PROVE  Synchronised(d)'
<1>1. /\ pc[d] = "reply" /\ SendTo(d, msg[d])
      /\ UNCHANGED << server, up, pending, modified, issued, client, loop, msg >>
      /\ pc' = [pc EXCEPT ![d] = "recv"]
  BY DEF Reply, Goto, serverVars, clientVars, historyVars
<1>2. ~ TextReady(d)'
  BY <1>1, Types DEF TextReady
<1>3. \/ down'[d] = down[d] /\ client[d] # "up"
      \/ down'[d] = Append(down[d], msg[d])
  BY <1>1, Types DEF SendTo
<1>4. client[d] # "new"
  BY <1>1 DEF Inv, OrderInv, Arrivals
<1>5. CASE ~ TextReady(d)
  <2>1. ~ AskedText(msg[d])
    BY <1>1, <1>5 DEF TextReady, AskedText
  <2>2. down'[d] = down[d] \/ (down'[d] = Append(down[d], msg[d]) /\ ~ AskedText(msg[d]))
    BY <1>3, <2>1
  <2>3. TextReady(d)' = TextReady(d)
    BY <1>2, <1>5 DEF TextReady
  <2>4. UNCHANGED << up[d], pending[d], modified[d], issued[d], client[d], loop[d] >> /\ server' = server
    BY <1>1
  <2> QED
    BY <1>5, <2>2, <2>3, <2>4, SyncFrame
<1>6. CASE client[d] # "up"
  BY <1>1, <1>4, <1>6 DEF Synchronised
<1>7. CASE TextReady(d) /\ down'[d] = Append(down[d], msg[d])
  <2> DEFINE s == down[d]
             t == Append(s, msg[d])
             last == Len(s) + 1
  <2>1. s \in Seq(ToClient)
    BY Types
  <2>2. /\ \A i \in DOMAIN t : i \in Int /\ (i = last \/ (i \in DOMAIN s /\ i < last))
        /\ last \in DOMAIN t /\ t[last] = msg[d]
    BY <2>1
  <2>3. AskedText(msg[d])
    BY <1>7 DEF TextKinds
  <2> HIDE DEF t
  <2>4. ASSUME AnsweredLast(d) PROVE AnsweredLast(d)'
    <3>1. msg[d].has[d] = issued[d]
      BY <1>7, <2>4 DEF AnsweredLast
    <3>2. ASSUME NEW i \in DOMAIN t
          PROVE  \/ \E j \in DOMAIN t : j > i /\ AskedText(t[j])
                 \/ t[i].has[d] = issued[d]
      BY <2>2, <2>3, <3>1
    <3>3. down'[d] = t
      BY <1>7 DEF t
    <3> QED
      BY <1>1, <1>2, <2>4, <3>2, <3>3 DEF AnsweredLast, IsEdit, AskedText
  <2>5. AskedLast(d) => AskedLast(d)'
    BY <1>1 DEF AskedLast, IsEdit
  <2> QED
    BY <1>1, <2>4, <2>5 DEF Synchronised
<1> QED
  BY <1>3, <1>5, <1>6, <1>7

LEMMA SyncHandles ==
    ASSUME Inv, NEW d \in Client, Synchronised(d), NEW types, Handles(d, types),
           UNCHANGED client
    PROVE  Synchronised(d)'
<1> DEFINE s == down[d]
           t == Tail(s)
<1>1. /\ s # << >> /\ s \in Seq(ToClient) /\ down'[d] = t
      /\ UNCHANGED << server, up, pending, modified, issued, loop, pc, msg >>
  BY Types DEF Handles, serverVars, threadVars
<1>2. /\ \A i \in DOMAIN t : i + 1 \in DOMAIN s /\ t[i] = s[i + 1] /\ i \in Int
      /\ \A i \in DOMAIN s : i # 1 => i - 1 \in DOMAIN t /\ t[i - 1] = s[i]
      /\ DOMAIN s \subseteq Int
      /\ \A i \in DOMAIN t : i >= 1
  BY <1>1
<1> HIDE DEF t
<1>3. ASSUME AnsweredLast(d) PROVE AnsweredLast(d)'
  <2>1. ASSUME ~ TextReady(d), NEW i \in DOMAIN t, AskedText(t[i])
        PROVE  \/ \E j \in DOMAIN t : j > i /\ AskedText(t[j])
               \/ t[i].has[d] = issued[d]
    <3>1. i + 1 \in DOMAIN s /\ t[i] = s[i + 1] /\ i \in Int /\ i >= 1
      BY <1>2
    <3>2. \/ \E j \in DOMAIN s : j > i + 1 /\ AskedText(s[j])
          \/ s[i + 1].has[d] = issued[d]
      BY <1>3, <2>1, <3>1 DEF AnsweredLast
    <3>3. ASSUME NEW j \in DOMAIN s, j > i + 1, AskedText(s[j])
          PROVE  j - 1 \in DOMAIN t /\ j - 1 > i /\ AskedText(t[j - 1])
      BY <1>2, <3>1, <3>3
    <3> QED
      BY <3>1, <3>2, <3>3
  <2>2. TextReady(d)' = TextReady(d)
    BY <1>1 DEF TextReady
  <2> QED
    BY <1>1, <1>3, <2>1, <2>2 DEF AnsweredLast, IsEdit, AskedText
<1>4. AskedLast(d) => AskedLast(d)'
  BY <1>1 DEF AskedLast, IsEdit
<1> QED
  BY <1>1, <1>3, <1>4 DEF Synchronised

LEMMA SyncSends ==
    ASSUME Inv, NEW d \in Client, Synchronised(d),
           SendEdit(d) \/ SendRequest(d) \/ Connect(d)
    PROVE  Synchronised(d)'
<1> SUFFICES ASSUME server' = "up", client'[d] \in {"new", "up"}, ~ modified'[d]
             PROVE  /\ pending'[d] \in { << >>, << GetFull >> }
                    /\ pending'[d] = << >> /\ loop'[d] = "sleep" => AskedLast(d)'
  BY DEF Synchronised
<1>1. UNCHANGED << server, modified >>
  BY DEF SendEdit, SendRequest, Connect, serverVars
<1>2. Head(<< GetFull >>) = GetFull /\ Tail(<< GetFull >>) = << >> /\ ~ IsEdit(GetFull)
  BY DEF GetFull, IsEdit
<1>3. CASE SendEdit(d) \/ SendRequest(d)
  <2>1. /\ client[d] \in {"up", "lost", "local"} /\ UNCHANGED client
        /\ pending[d] # << >> /\ pending' = [pending EXCEPT ![d] = Tail(@)]
    BY <1>3 DEF SendEdit, SendRequest
  <2>2. pending[d] = << GetFull >>
    BY <1>1, <2>1 DEF Synchronised
  <2>3. pending'[d] = << >>
    BY <1>2, <2>1, <2>2, Types
  <2>4. ~ IsEdit([Head(pending[d]) EXCEPT !.n = issued[d] + 1])
    BY <1>2, <2>2 DEF IsEdit, GetFull
  <2>5. SendUp(d, GetFull)
    BY <1>2, <1>3, <2>2, <2>4 DEF SendEdit, SendRequest
  <2>6. up'[d] = Append(up[d], GetFull) /\ up[d] \in Seq(ToServer)
    BY <1>1, <2>1, <2>5, Types DEF SendUp, Connection
  <2>7. AskedLast(d)'
    <3> DEFINE s == up[d]
               t == Append(s, GetFull)
    <3>1. /\ Len(s) + 1 \in DOMAIN t /\ t[Len(s) + 1] = GetFull
          /\ \A j \in DOMAIN t : ~ (j > Len(s) + 1)
      BY <2>6
    <3>2. up'[d] = t /\ GetFull.type = "GetFull"
      BY <2>6 DEF GetFull
    <3> HIDE DEF t
    <3> QED
      BY <3>1, <3>2 DEF AskedLast, IsEdit
  <2> QED
    BY <2>3, <2>7
<1>4. CASE Connect(d)
  <2>1. /\ client[d] = "new" /\ up'[d] = << GetFull >> /\ UNCHANGED pending
    BY <1>4, Types DEF Connect
  <2>2. pending[d] \in { << >>, << GetFull >> }
    BY <1>1, <2>1 DEF Synchronised
  <2>3. AskedLast(d)'
    <3> DEFINE t == << GetFull >>
    <3>1. 1 \in DOMAIN t /\ t[1].type = "GetFull" /\ \A j \in DOMAIN t : ~ (j > 1)
      BY DEF GetFull
    <3>2. up'[d] = t
      BY <2>1
    <3> HIDE DEF t
    <3> QED
      BY <3>1, <3>2 DEF AskedLast, IsEdit
  <2> QED
    BY <2>1, <2>2, <2>3
<1> QED
  BY <1>3, <1>4

LEMMA SyncKeys ==
    ASSUME Inv, NEW d \in Client, Synchronised(d),
           \/ PressChar(d) \/ PressTab(d) \/ PressEnter(d) \/ PressBackspace(d)
           \/ PressDelete(d) \/ PressCommand(d) \/ PressSync(d)
    PROVE  Synchronised(d)'
<1>1. CASE PressSync(d)
  <2>1. pending'[d] = << GetFull >> /\ << GetFull >> # << >>
    BY <1>1, Types DEF PressSync, Then
  <2> QED
    BY <2>1 DEF Synchronised
<1>2. CASE ~ PressSync(d)
  <2>1. SetFlag(d, TRUE)
    BY <1>2 DEF PressChar, PressTab, PressEnter, PressBackspace, PressDelete, PressCommand
  <2>2. modified'[d]
    BY <2>1, MoreTypes DEF SetFlag
  <2> QED
    BY <2>2 DEF Synchronised
<1> QED
  BY <1>1, <1>2

\* The other steps of d and its thread.
LEMMA SyncElse ==
    ASSUME Inv, NEW d \in Client, Synchronised(d), TextKinds(d),
           \/ TakeClock(d) \/ Forward(d) \/ ReleaseClock(d) \/ ListSockets(d)
           \/ SerializeText(d) \/ Broadcast(d) \/ EndBroadcast(d) \/ Disconnected(d)
           \/ Close(d) \/ SaveOnExit(d) \/ MoveCursor(d)
    PROVE  Synchronised(d)'
<1>1. CASE Forward(d) \/ Broadcast(d)
  <2>1. /\ UNCHANGED << server, up, pending, modified, issued, client, loop, pc, msg >>
        /\ pc[d] \in {"forward", "broadcast"}
    BY <1>1 DEF Forward, Broadcast, serverVars, clientVars, historyVars
  <2>2. ~ AskedText(msg[d])
    BY <2>1 DEF TextKinds, Inv, OrderInv, Forwarding, TypeInv, Working, EditPacket, AskedText
  <2>3. down'[d] = down[d] \/ down'[d] = Append(down[d], msg[d])
    <3>1. UNCHANGED down \/ SendTo(Head(todo[d]), msg[d])
      BY <1>1 DEF Forward, Broadcast
    <3> QED
      BY ONLY <3>1, SentTo, Inv, d \in Client
  <2> QED
    BY <2>1, <2>2, <2>3, SyncFrame DEF TextReady
<1>2. CASE MoveCursor(d)
  <2>1. UNCHANGED << server, up, down, pending, modified, issued, client, loop, pc, msg >>
    BY <1>2 DEF MoveCursor, serverVars, threadVars, netVars, historyVars
  <2> QED
    BY <2>1, SyncFrame DEF TextReady
<1>3. CASE ~ (Forward(d) \/ Broadcast(d) \/ MoveCursor(d))
  <2>1. CASE TakeClock(d) \/ ReleaseClock(d) \/ ListSockets(d) \/ SerializeText(d)
    <3>1. /\ UNCHANGED << server, up, down, pending, modified, issued, client, loop >>
          /\ pc[d] # "reply" /\ \E label \in Labels \ {"reply"} : pc' = [pc EXCEPT ![d] = label]
      BY <2>1 DEF TakeClock, ReleaseClock, ListSockets, SerializeText, Goto, Labels, serverVars,
                  netVars, clientVars, historyVars
    <3>2. ~ TextReady(d) /\ ~ TextReady(d)'
      BY <3>1, Types DEF TextReady
    <3> QED
      BY <3>1, <3>2, SyncSame
  <2>2. CASE EndBroadcast(d) \/ Disconnected(d) \/ Close(d) \/ SaveOnExit(d)
    <3>1. /\ UNCHANGED << server, up, down, pending, modified, issued, client, loop >>
          /\ pc[d] # "reply" /\ \E label \in Labels \ {"reply"} : pc' = [pc EXCEPT ![d] = label]
      BY <2>2 DEF EndBroadcast, Disconnected, Close, SaveOnExit, Goto, Labels, serverVars,
                  netVars, clientVars, historyVars
    <3>2. ~ TextReady(d) /\ ~ TextReady(d)'
      BY <3>1, Types DEF TextReady
    <3> QED
      BY <3>1, <3>2, SyncSame
  <2> QED
    BY <1>3, <2>1, <2>2
<1> QED
  BY <1>1, <1>2, <1>3

\* The periodic thread of d.
LEMMA SyncLoop ==
    ASSUME Inv, NEW d \in Client, Synchronised(d),
           \/ ClearFlag(d) /\ pending[d] = << >>
           \/ AskForText(d)
    PROVE  Synchronised(d)'
<1>1. CASE ClearFlag(d) /\ pending[d] = << >>
  <2>1. loop'[d] = "cleared" /\ pending'[d] = << >>
    BY <1>1, MoreTypes DEF ClearFlag
  <2> QED
    BY <2>1 DEF Synchronised
<1>2. CASE AskForText(d)
  <2>1. /\ UNCHANGED << server, pending, modified, client >> /\ SendUp(d, GetFull)
        /\ client[d] \in {"up", "lost", "local"}
    BY <1>2 DEF AskForText, serverVars
  <2> SUFFICES ASSUME server = "up", client[d] = "up", ~ modified[d]
               PROVE  /\ pending[d] \in { << >>, << GetFull >> }
                      /\ AskedLast(d)'
    BY <2>1 DEF Synchronised
  <2>2. pending[d] \in { << >>, << GetFull >> }
    BY DEF Synchronised
  <2>3. up'[d] = Append(up[d], GetFull) /\ up[d] \in Seq(ToServer)
    BY <2>1, Types DEF SendUp, Connection
  <2>4. AskedLast(d)'
    <3> DEFINE s == up[d]
               t == Append(s, GetFull)
    <3>1. /\ Len(s) + 1 \in DOMAIN t /\ t[Len(s) + 1] = GetFull
          /\ \A j \in DOMAIN t : ~ (j > Len(s) + 1)
      BY <2>3
    <3>2. up'[d] = t /\ GetFull.type = "GetFull"
      BY <2>3 DEF GetFull
    <3> HIDE DEF t
    <3> QED
      BY <3>1, <3>2 DEF AskedLast, IsEdit
  <2> QED
    BY <2>2, <2>4
<1> QED
  BY <1>1, <1>2

LEMMA KindsStep ==
    ASSUME Inv, NEW d \in Client, TextKinds(d),
           ServerStep(d)
    PROVE  TextKinds(d)'
<1> USE Types
<1>1. CASE ApplyEdit(d) \/ TakeClock(d) \/ ReleaseClock(d)
  BY <1>1 DEF ApplyEdit, TakeClock, ReleaseClock, Goto, TextKinds, TextReady
<1>2. CASE CrashOnErase(d) \/ Forward(d) \/ Broadcast(d)
  BY <1>2 DEF CrashOnErase, Forward, Broadcast, threadVars, TextKinds, TextReady, AskedText
<1>3. CASE WriteToDisk(d) \/ ReadFromDisk(d) \/ Disconnected(d)
  <2>1. pc'[d] = "list" /\ \E t \in {"WriteConfirmed", "ReadConfirmed", "Disconnect"} :
                             msg'[d] = NoticeOf(t)
    BY <1>3 DEF WriteToDisk, ReadFromDisk, Disconnected, Goto
  <2> QED
    BY <2>1 DEF TextKinds, TextReady, AskedText, NoticeOf
<1>4. CASE Answer(d)
  <2>1. pc'[d] = "reply"
    BY <1>4 DEF Answer, Goto
  <2>2. \/ msg'[d] = ContentOf(FALSE)
        \/ msg'[d] = [type |-> "ClientCount", count |-> SocketCount]
    BY <1>4 DEF Answer
  <2>3. AskedText(ContentOf(FALSE))
    BY DEF AskedText, ContentOf
  <2>4. [type |-> "ClientCount", count |-> SocketCount].type # "FullContent"
    OBVIOUS
  <2> QED
    BY <2>1, <2>2, <2>3, <2>4 DEF TextKinds, TextReady, AskedText
<1>5. CASE Reply(d) \/ EndBroadcast(d) \/ Close(d) \/ SaveOnExit(d)
  BY <1>5 DEF Reply, EndBroadcast, Close, SaveOnExit, Goto, TextKinds, TextReady
<1>6. CASE ListSockets(d)
  BY <1>6 DEF ListSockets, Goto, TextKinds, TextReady, AskedText
<1>7. CASE SerializeText(d)
  <2>1. pc'[d] = "broadcast" /\ msg'[d] = ContentOf(TRUE)
    BY <1>7 DEF SerializeText, Goto
  <2> QED
    BY <2>1 DEF TextKinds, TextReady, AskedText, ContentOf
<1> QED
  BY <1>1, <1>2, <1>3, <1>4, <1>5, <1>6, <1>7 DEF ServerStep

LEMMA SyncOwnStep ==
    ASSUME Inv, ClearsBetweenKeys, NEW d \in Client, Synchronised(d), TextKinds(d),
           ServerStep(d) \/ ClientStep(d) \/ UserStep(d)
    PROVE  Synchronised(d)' /\ TextKinds(d)'
<1>1. CASE ServerStep(d)
  <2>2. ASSUME ApplyEdit(d) PROVE Synchronised(d)'
    <3>1. pc'[d] # "reply" /\ UNCHANGED << server, down, pending, modified, issued, client, loop >>
      BY <2>2, Types DEF ApplyEdit, Goto, clientVars
    <3>2. Receives(d, {"Insert", "Remove"}) /\ "GetFull" \notin {"Insert", "Remove"}
      BY <2>2 DEF ApplyEdit
    <3>3. ~ TextReady(d)'
      BY <3>1 DEF TextReady
    <3> QED
      BY <3>1, <3>2, <3>3, SyncReceives
  <2>3. ASSUME WriteToDisk(d) \/ ReadFromDisk(d) PROVE Synchronised(d)'
    <3>1. pc'[d] # "reply"
      BY <2>3, Types DEF WriteToDisk, ReadFromDisk, Goto
    <3>2. UNCHANGED << server, down, pending, modified, issued, client, loop >>
      BY <2>3 DEF WriteToDisk, ReadFromDisk, clientVars, historyVars
    <3>3. \/ Receives(d, {"WriteToDisk"}) /\ "GetFull" \notin {"WriteToDisk"}
          \/ Receives(d, {"ReadFromDisk"}) /\ "GetFull" \notin {"ReadFromDisk"}
      BY <2>3 DEF WriteToDisk, ReadFromDisk
    <3>4. ~ TextReady(d)'
      BY <3>1 DEF TextReady
    <3> QED
      BY <3>2, <3>3, <3>4, SyncReceives
  <2>4. ASSUME CrashOnErase(d) PROVE Synchronised(d)'
    <3>1. server' = "crashed"
      BY <2>4 DEF CrashOnErase
    <3> QED
      BY <3>1 DEF Synchronised
  <2>5. Synchronised(d)'
    BY <1>1, <2>2, <2>3, <2>4, SyncAnswer, SyncReply, SyncElse DEF ServerStep
  <2> QED
    BY <1>1, <2>5, KindsStep
<1>2. CASE ClientStep(d) \/ UserStep(d)
  <2>1. UNCHANGED threadVars
    BY <1>2 DEF ClientStep, KeyboardStep, HandlerStep, LoopStep, SendEdit, SendRequest,
       ForcedText, Overwrite, IgnoreText, RemoteEdit, ShowNotice, Handles, ClearFlag,
       AskForText, ClientCrash, Ends, NoticeLoss, UserStep, PressChar, PressTab,
       PressEnter, PressBackspace, PressDelete, PressCommand, PressSync, Press, MoveCursor,
       Connect, Quit, Ends, ContinueLocally
  <2>2. TextKinds(d)'
    BY <2>1 DEF threadVars, TextKinds, TextReady, AskedText
  <2>3. CASE ClearFlag(d) \/ AskForText(d)
    <3>1. ClearFlag(d) => pending[d] = << >>
      BY DEF ClearsBetweenKeys
    <3> QED
      BY <2>2, <2>3, <3>1, SyncLoop
  <2>4. CASE ForcedText(d) \/ Overwrite(d) \/ IgnoreText(d) \/ RemoteEdit(d) \/ ShowNotice(d)
    <3>1. (\E types : Handles(d, types)) /\ UNCHANGED client
      BY <2>4 DEF ForcedText, Overwrite, IgnoreText, RemoteEdit, ShowNotice
    <3> QED
      BY <2>2, <3>1, SyncHandles
  <2>5. CASE SendEdit(d) \/ SendRequest(d) \/ Connect(d)
    BY <2>2, <2>5, SyncSends
  <2>6. CASE \/ PressChar(d) \/ PressTab(d) \/ PressEnter(d) \/ PressBackspace(d)
             \/ PressDelete(d) \/ PressCommand(d) \/ PressSync(d)
    BY <2>2, <2>6, SyncKeys
  <2>7. CASE Ends(d) \/ NoticeLoss(d) \/ ContinueLocally(d)
    <3>1. client'[d] \notin {"new", "up"}
      BY <2>7, Types DEF Ends, NoticeLoss, ContinueLocally
    <3> QED
      BY <2>2, <3>1 DEF Synchronised
  <2>8. CASE MoveCursor(d)
    BY <2>2, <2>8, SyncElse
  <2> QED
    BY <1>2, <2>3, <2>4, <2>5, <2>6, <2>7, <2>8
    DEF ClientStep, KeyboardStep, HandlerStep, LoopStep, ClientCrash, UserStep, Quit
<1> QED
  BY <1>1, <1>2

LEMMA ServerStays ==
    ASSUME [Next]_vars, server' = "up"
    PROVE  server = "up"
<1>1. CASE AcceptorStep
  BY <1>1 DEF AcceptorStep, Accept, NotifyOne, StartThread
<1>2. ASSUME NEW c \in Client, ServerStep(c) PROVE server = "up"
  BY <1>2 DEF ServerStep, ApplyEdit, CrashOnErase, WriteToDisk, ReadFromDisk, Answer, Reply,
     TakeClock, Forward, ReleaseClock, ListSockets, SerializeText, Broadcast, EndBroadcast,
     Disconnected, Close, SaveOnExit, Receives
<1>3. ASSUME NEW c \in Client, ClientStep(c) \/ UserStep(c) PROVE server' = server
  BY <1>3 DEF ClientStep, KeyboardStep, HandlerStep, LoopStep, SendEdit, SendRequest,
     ForcedText, Overwrite, IgnoreText, RemoteEdit, ShowNotice, Handles, ClearFlag,
     AskForText, ClientCrash, Ends, NoticeLoss, UserStep, PressChar, PressTab,
     PressEnter, PressBackspace, PressDelete, PressCommand, PressSync, Press, MoveCursor,
     Connect, Quit, Ends, ContinueLocally, serverVars
<1>4. CASE UNCHANGED vars
  BY <1>4 DEF vars, serverVars
<1> QED
  BY <1>1, <1>2, <1>3, <1>4 DEF Next

LEMMA SyncStep ==
    ASSUME Inv, SyncInv, [Next]_vars, [ClearsBetweenKeys]_vars
    PROVE  SyncInv'
<1> SUFFICES ASSUME NEW d \in Client
             PROVE  Synchronised(d)' /\ TextKinds(d)'
  BY DEF SyncInv
<1>1. Synchronised(d) /\ TextKinds(d)
  BY DEF SyncInv
<1>2. CASE AcceptorStep
  <2>1. /\ UNCHANGED << server, up[d], pending[d], modified[d], issued[d], client[d],
                        loop[d], msg[d] >>
        /\ pc'[d] = pc[d] \/ (pc[d] = "none" /\ pc'[d] = "recv")
        /\ \/ down'[d] = down[d]
           \/ down'[d] = Append(down[d], NoticeOf("Disconnect"))
    BY <1>2, Accepting
  <2>2. ~ AskedText(NoticeOf("Disconnect"))
    BY DEF AskedText, NoticeOf
  <2>3. TextReady(d)' = TextReady(d) /\ TextKinds(d)'
    BY <1>1, <2>1 DEF TextReady, TextKinds, AskedText
  <2>4. Synchronised(d)'
    BY <1>1, <2>1, <2>2, <2>3, SyncFrame
  <2> QED
    BY <1>1, <2>1, <2>3, <2>4
<1>3. ASSUME NEW c \in Client, c # d, ServerStep(c) \/ ClientStep(c) \/ UserStep(c)
      PROVE  Synchronised(d)' /\ TextKinds(d)'
  <2>1. /\ UNCHANGED << up[d], pending[d], modified[d], issued[d], client[d],
                        loop[d], pc[d], msg[d] >>
        /\ \/ down'[d] = down[d]
           \/ /\ pc[c] \in {"forward", "broadcast"}
              /\ down'[d] = Append(down[d], msg[c])
    BY <1>3, Elsewhere DEF Own
  <2>2. pc[c] \in {"forward", "broadcast"} => ~ AskedText(msg[c])
    BY DEF SyncInv, TextKinds, Inv, TypeInv, Working, EditPacket, AskedText
  <2>3. TextReady(d)' = TextReady(d) /\ TextKinds(d)'
    BY <1>1, <2>1 DEF TextReady, TextKinds, AskedText
  <2>4. server' = "up" => server = "up"
    BY ServerStays
  <2>5. Synchronised(d)'
    BY <1>1, <2>1, <2>2, <2>3, <2>4, SyncFrame
  <2> QED
    BY <1>1, <2>1, <2>3, <2>5
<1>4. CASE ClearsBetweenKeys /\ (ServerStep(d) \/ ClientStep(d) \/ UserStep(d))
  BY <1>1, <1>4, SyncOwnStep
<1>5. CASE UNCHANGED vars
  BY <1>1, <1>5 DEF vars, serverVars, threadVars, netVars, clientVars, historyVars,
     Synchronised, TextKinds, TextReady, AskedText, AskedLast, AnsweredLast, IsEdit
<1> QED
  BY <1>2, <1>3, <1>4, <1>5 DEF Next

LEMMA SyncInitially == Init => SyncInv
<1> SUFFICES ASSUME Init, NEW d \in Client
             PROVE  Synchronised(d) /\ TextKinds(d)
  BY DEF SyncInv
<1>1. /\ pending[d] = << >> /\ up[d] = << >> /\ down[d] = << >>
      /\ pc[d] \in {"recv", "none"}
  BY DEF Init
<1>2. TextKinds(d) /\ ~ TextReady(d)
  BY <1>1 DEF TextKinds, TextReady
<1>3. AnsweredLast(d)
  BY <1>1, <1>2 DEF AnsweredLast
<1> QED
  BY <1>1, <1>2, <1>3 DEF Synchronised

\* The last text: nothing else is waited for, so it is the last in the queue.
LEMMA OnlyOneWaited ==
    ASSUME Inv, NEW c \in Client, Waiting(c) = 1, down[c] # << >>, AskedText(Head(down[c]))
    PROVE  /\ \A i \in DOMAIN up[c] : up[c][i].type # "GetFull"
           /\ \A i \in DOMAIN down[c] : AskedText(down[c][i]) => i = 1
           /\ ~ TextReady(c)
<1> DEFINE asked    == { i \in DOMAIN up[c] : up[c][i].type = "GetFull" }
           answered == { i \in DOMAIN down[c] :
                           down[c][i].type = "FullContent" /\ ~ down[c][i].force }
           ready    == IF pc[c] = "reply" /\ msg[c].type = "FullContent" THEN 1 ELSE 0
<1>1. IsFiniteSet(DOMAIN up[c]) /\ IsFiniteSet(DOMAIN down[c])
  <2>1. up[c] \in Seq(ToServer) /\ down[c] \in Seq(ToClient)
    BY Types
  <2> QED
    BY ONLY <2>1, FiniteDomain
<1>2. IsFiniteSet(asked) /\ IsFiniteSet(answered)
  BY <1>1, FS_Subset
<1>3. 1 \in answered
  <2>1. down[c] \in Seq(ToClient)
    BY Types
  <2> QED
    BY <2>1 DEF AskedText
<1>4. Waiting(c) = Cardinality(asked) + Cardinality(answered) + ready
  BY DEF Waiting
<1>5. ready \in {0, 1} /\ (TextReady(c) => ready = 1)
  BY DEF TextReady
<1>6. /\ \A i \in DOMAIN up[c] : up[c][i].type = "GetFull" => i \in asked
      /\ \A i \in DOMAIN down[c] : AskedText(down[c][i]) => i \in answered
  BY DEF AskedText
<1> HIDE DEF asked, answered, ready
<1>7. /\ Cardinality(asked) \in Nat /\ Cardinality(answered) \in Nat
      /\ Cardinality(asked) = 0 => asked = {}
      /\ Cardinality(answered) # 0
  BY <1>2, <1>3, FS_CardinalityType, FS_EmptySet
<1>8. Cardinality(asked) = 0 /\ Cardinality(answered) = 1 /\ ready = 0
  BY <1>4, <1>5, <1>7
<1>9. \A i \in answered : i = 1
  <2>1. PICK k : answered = {k}
    BY <1>2, <1>8, FS_Singleton
  <2> QED
    BY <1>3, <2>1
<1> QED
  BY <1>5, <1>6, <1>7, <1>8, <1>9

\* If getFullLoop() cleared the flag only between two keys (as it would under mlock,
\* which it does not take), whoever types, deletes, asks, loads, joins or leaves, and
\* as long as the server lives: a text that replaces a client's own when no other is
\* waited for holds every edit of that client.
THEOREM LastTextKeepsEdits ==
    Spec /\ [][ClearsBetweenKeys]_vars => LastOverwriteKeepsEdits
<1> DEFINE A == \A c \in Client :
                   Overwrite(c) /\ server = "up" /\ Waiting(c) = 1 /\ loop[c] = "sleep"
                      => Head(down[c]).has[c] = issued[c]
<1>1. ASSUME Inv, SyncInv PROVE A
  <2> SUFFICES ASSUME NEW c \in Client, Overwrite(c), server = "up", Waiting(c) = 1,
                      loop[c] = "sleep"
               PROVE  Head(down[c]).has[c] = issued[c]
    OBVIOUS
  <2>1. /\ client[c] = "up" /\ pending[c] = << >> /\ down[c] # << >> /\ ~ modified[c]
        /\ AskedText(Head(down[c]))
    BY DEF Overwrite, Handles, AskedText
  <2>2. /\ \A i \in DOMAIN up[c] : up[c][i].type # "GetFull"
        /\ \A i \in DOMAIN down[c] : AskedText(down[c][i]) => i = 1
        /\ ~ TextReady(c)
    BY <1>1, <2>1, OnlyOneWaited
  <2>3. AskedLast(c) \/ AnsweredLast(c)
    BY <1>1, <2>1 DEF SyncInv, Synchronised
  <2>4. AnsweredLast(c)
    BY <2>2, <2>3 DEF AskedLast
  <2>5. 1 \in DOMAIN down[c] /\ down[c][1] = Head(down[c])
    <3>1. down[c] \in Seq(ToClient)
      BY <1>1, Types
    <3> QED
      BY <2>1, <3>1
  <2> QED
    BY <2>1, <2>2, <2>4, <2>5 DEF AnsweredLast
<1>2. Inv /\ SyncInv /\ [Next]_vars => [A]_vars
  BY <1>1
<1>3. Inv /\ SyncInv /\ [Next]_vars /\ [ClearsBetweenKeys]_vars => SyncInv'
  BY SyncStep
<1> QED
  BY <1>2, <1>3, SyncInitially, OrderCorrect, PTL DEF Spec, LastOverwriteKeepsEdits
=============================================================================
