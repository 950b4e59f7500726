-------------------------- MODULE ConnectionsProofs --------------------------
(***************************************************************************)
(* Theorems on the locks of Connections, for any number of clients and     *)
(* connections of any size.  Inv collects who holds which lock where.      *)
(***************************************************************************)
EXTENDS Connections, FiniteSetTheorems, SequenceTheorems, TLAPS

Packet == [to : Client, force : BOOLEAN]

\* In the server: the thread in send_message() holds sendlock and no other one
\* does, and who holds clock is sending and will give it back.
ServerLocks ==
    \A c \in Client :
        /\ st[c] = "sending" <=> sendlock = c
        /\ clock = c => st[c] \in { "send", "sending" }
        /\ st[c] = "sending" => todo[c] # << >>

\* A thread leaves the loop once its client is gone and everything it sent has
\* been read, and is counted out only at its end.
Leavers ==
    \A c \in Client :
        /\ c \in leaving => st[c] \in { "send", "sending", "ended" } /\ up[c] = << >>
        /\ st[c] = "ended" => c \in leaving
        /\ c \notin alive => st[c] = "ended"

\* In a client: what is still to be sent is sent under mlock.
ClientLocks ==
    \A b \in Client :
        /\ csend[b] = "holder" => pending[b] # << >>
        /\ pending[b] # << >> => mlock[b] # "free"
        /\ mlock[b] = "handler" => handler[b] = "got"

\* A process that has ended holds nothing.
Gone ==
    \A b \in dead : /\ mlock[b] = "free" /\ pending[b] = << >> /\ csend[b] = "free"
                    /\ handler[b] = "reading" /\ down[b] = << >>

Inv == TypeOK /\ ServerLocks /\ Leavers /\ ClientLocks /\ Gone

-----------------------------------------------------------------------------
\* The list of some clients is a list of clients, empty only for none.
LEMMA ListOfClients ==
    ASSUME NEW S \in SUBSET Client
    PROVE  /\ SetToSeq(S) \in Seq(Client)
           /\ S # {} => SetToSeq(S) # << >>
<1>1. IsFiniteSet(S)
  BY FS_Subset, ConnectionsAssumption
<1>2. Cardinality(S) \in Nat /\ ExistsBijection(1 .. Cardinality(S), S)
  BY <1>1, FS_CardinalityType
<1>3. PICK f \in [1 .. Cardinality(S) -> S] : IsInjective(f)
  BY <1>2 DEF ExistsBijection, Bijection, Injection, IsInjective
<1>4. SetToSeq(S) \in [1 .. Cardinality(S) -> S]
  BY <1>3 DEF SetToSeq
<1>5. SetToSeq(S) \in Seq(Client)
  BY <1>4, <1>2
<1>6. S # {} => Cardinality(S) # 0
  BY <1>1, FS_EmptySet
<1>7. S # {} => SetToSeq(S) # << >>
  BY <1>4, <1>6, <1>2
<1> QED BY <1>5, <1>7

\* Packets to a list of clients.
LEMMA PacketsTo ==
    ASSUME NEW receivers \in Seq(Client), NEW force \in BOOLEAN
    PROVE  /\ To(receivers, force) \in Seq(Packet)
           /\ receivers # << >> => To(receivers, force) # << >>
<1>1. Len(receivers) \in Nat /\ DOMAIN receivers = 1 .. Len(receivers)
  OBVIOUS
<1>2. \A i \in 1 .. Len(receivers) : [to |-> receivers[i], force |-> force] \in Packet
  BY DEF Packet
<1>3. To(receivers, force) \in [1 .. Len(receivers) -> Packet]
  BY <1>1, <1>2 DEF To
<1>4. To(receivers, force) \in Seq(Packet)
  BY <1>1, <1>3
<1>5. receivers # << >> => 1 \in DOMAIN To(receivers, force)
  BY <1>1, <1>3
<1> QED BY <1>4, <1>5

\* What a thread answers are packets to clients.
LEMMA AnswersType ==
    ASSUME TypeOK, NEW c \in Client, NEW kind \in Kind
    PROVE  Answers(c, kind) \in Seq(Packet)
<1>1. SocketList \in Seq(Client)
  BY ListOfClients DEF SocketList, TypeOK
<1>2. << c >> \in Seq(Client)
  OBVIOUS
<1>3. /\ To(SocketList, FALSE) \in Seq(Packet)
      /\ To(SocketList, TRUE) \in Seq(Packet)
      /\ To(<< c >>, FALSE) \in Seq(Packet)
  BY <1>1, <1>2, PacketsTo
<1>4. To(SocketList, FALSE) \o To(SocketList, TRUE) \in Seq(Packet)
  BY <1>3, ConcatProperties
<1>5. << >> \in Seq(Packet)
  OBVIOUS
<1> QED BY <1>3, <1>4, <1>5 DEF Answers

\* Who receives a forwarded edit: somebody, unless its author is alone.
LEMMA ForwardTo ==
    ASSUME TypeOK, NEW c \in Client
    PROVE  /\ To(SetToSeq(alive \ {c}), FALSE) \in Seq(Packet)
           /\ \A d \in alive : d # c => To(SetToSeq(alive \ {c}), FALSE) # << >>
<1>1. alive \ {c} \in SUBSET Client
  BY DEF TypeOK
<1>2. SetToSeq(alive \ {c}) \in Seq(Client)
  BY <1>1, ListOfClients
<1>3. \A d \in alive : d # c => SetToSeq(alive \ {c}) # << >>
  BY <1>1, ListOfClients
<1> QED BY <1>2, <1>3, PacketsTo

\* The parts of a sequence that a step leaves.
LEMMA TailOf ==
    ASSUME NEW S, NEW s \in Seq(S), s # << >>
    PROVE  Head(s) \in S /\ Tail(s) \in Seq(S) /\ Len(Tail(s)) = Len(s) - 1
                /\ Len(s) \in Nat \ {0}
  OBVIOUS

\* A part of the invariant survives a step that leaves its variables alone.
LEMMA Frames ==
    ASSUME Inv
    PROVE  /\ UNCHANGED << st, todo, clock, sendlock >> => ServerLocks'
           /\ UNCHANGED << leaving, st, up, alive >> => Leavers'
           /\ UNCHANGED << csend, pending, mlock, handler >> => ClientLocks'
           /\ UNCHANGED << dead, mlock, pending, csend, handler, down >> => Gone'
  BY DEF Inv, ServerLocks, Leavers, ClientLocks, Gone
-----------------------------------------------------------------------------
LEMMA InitInv == Init => Inv
<1> SUFFICES ASSUME Init PROVE Inv
  OBVIOUS
<1>1. \A S : << >> \in Seq(S) /\ Len(<< >>) = 0
  OBVIOUS
<1>2. TypeOK
  BY <1>1, ConnectionsAssumption DEF Init, TypeOK
<1>3. ServerLocks /\ Leavers /\ ClientLocks /\ Gone
  BY ConnectionsAssumption DEF Init, ServerLocks, Leavers, ClientLocks, Gone
<1> QED BY <1>2, <1>3 DEF Inv

LEMMA ReceiveInv == ASSUME Inv, NEW c \in Client, Receive(c) PROVE Inv'
<1> USE DEF Inv
<1>1. /\ up[c] \in Seq(Kind) /\ up[c] # << >> /\ Head(up[c]) \in Kind
      /\ Tail(up[c]) \in Seq(Kind) /\ Len(Tail(up[c])) <= Room
  BY TailOf, ConnectionsAssumption DEF Receive, TypeOK
<1>2. Answers(c, Head(up[c])) \in Seq(Packet)
  BY <1>1, AnswersType
<1>3. TypeOK'
  BY <1>1, <1>2 DEF Receive, TypeOK, Packet, local
<1>4. ServerLocks'
  BY DEF Receive, ServerLocks, TypeOK
<1>5. Leavers'
  BY DEF Receive, Leavers, TypeOK
<1>6. ClientLocks' /\ Gone'
  BY Frames DEF Receive, local
<1> QED BY <1>3, <1>4, <1>5, <1>6

LEMMA TakeClockInv == ASSUME Inv, NEW c \in Client, TakeClock(c) PROVE Inv'
<1> USE DEF Inv
<1>1. To(SetToSeq(alive \ {c}), FALSE) \in Seq(Packet)
  BY ForwardTo
<1>2. TypeOK'
  BY <1>1 DEF TakeClock, TypeOK, Packet, local
<1>3. ServerLocks'
  BY ConnectionsAssumption DEF TakeClock, ServerLocks, TypeOK
<1>4. Leavers'
  BY DEF TakeClock, Leavers, TypeOK
<1>5. ClientLocks' /\ Gone'
  BY Frames DEF TakeClock, local
<1> QED BY <1>2, <1>3, <1>4, <1>5

LEMMA TakeSendlockInv == ASSUME Inv, NEW c \in Client, TakeSendlock(c) PROVE Inv'
<1> USE DEF Inv
<1>1. TypeOK'
  BY DEF TakeSendlock, TypeOK, local
<1>2. ServerLocks'
  BY ConnectionsAssumption DEF TakeSendlock, ServerLocks, TypeOK
<1>3. Leavers'
  BY DEF TakeSendlock, Leavers, TypeOK
<1>4. ClientLocks' /\ Gone'
  BY Frames DEF TakeSendlock, local
<1> QED BY <1>1, <1>2, <1>3, <1>4

\* Where a packet for a client goes.
LEMMA DeliveredType ==
    ASSUME TypeOK, Gone, NEW packet \in Packet, Delivered(packet)
    PROVE  /\ down' \in [Client -> Seq(BOOLEAN)]
           /\ \A b \in Client : Len(down'[b]) <= Room
           /\ \A b \in dead : down'[b] = << >>
<1>1. CASE packet.to \in dead /\ UNCHANGED down
  BY <1>1 DEF TypeOK, Gone
<1>2. CASE /\ packet.to \notin dead /\ HasRoom(down[packet.to])
           /\ down' = [down EXCEPT ![packet.to] = Append(@, packet.force)]
  <2>1. packet.to \in Client /\ packet.force \in BOOLEAN
    BY DEF Packet
  <2>2. down[packet.to] \in Seq(BOOLEAN)
    BY <2>1 DEF TypeOK
  <2>3. /\ Append(down[packet.to], packet.force) \in Seq(BOOLEAN)
        /\ Len(Append(down[packet.to], packet.force)) = Len(down[packet.to]) + 1
    BY <2>1, <2>2, AppendProperties
  <2>4. Len(down[packet.to]) \in Nat /\ Len(down[packet.to]) < Room
    BY <1>2, <2>2 DEF HasRoom
  <2>5. Len(down[packet.to]) + 1 <= Room
    BY <2>4, ConnectionsAssumption
  <2>6. down' \in [Client -> Seq(BOOLEAN)]
    BY <1>2, <2>1, <2>3 DEF TypeOK
  <2>7. \A b \in Client : Len(down'[b]) <= Room
    BY <1>2, <2>1, <2>3, <2>5 DEF TypeOK
  <2>8. \A b \in dead : down'[b] = << >>
    BY <1>2, <2>1 DEF TypeOK, Gone
  <2> QED BY <2>6, <2>7, <2>8
<1> QED BY <1>1, <1>2 DEF Delivered

LEMMA SendMessageInv == ASSUME Inv, NEW c \in Client, SendMessage(c) PROVE Inv'
<1> USE DEF Inv
<1>1. todo[c] \in Seq(Packet) /\ todo[c] # << >>
  BY DEF SendMessage, TypeOK, ServerLocks, Packet
<1>2. Head(todo[c]) \in Packet /\ Tail(todo[c]) \in Seq(Packet)
  BY <1>1, TailOf
<1>3. /\ down' \in [Client -> Seq(BOOLEAN)]
      /\ \A b \in Client : Len(down'[b]) <= Room
      /\ \A b \in dead : down'[b] = << >>
  BY <1>2, DeliveredType DEF SendMessage
<1>4. TypeOK'
  BY <1>2, <1>3 DEF SendMessage, TypeOK, Packet, local
<1>5. ServerLocks'
  BY ConnectionsAssumption DEF SendMessage, ServerLocks, TypeOK
<1>6. Leavers'
  BY DEF SendMessage, Leavers, TypeOK
<1>7. ClientLocks'
  BY Frames DEF SendMessage, local
<1>8. Gone'
  BY <1>3 DEF SendMessage, Gone, local
<1> QED BY <1>4, <1>5, <1>6, <1>7, <1>8

LEMMA DoneInv == ASSUME Inv, NEW c \in Client, Done(c) PROVE Inv'
<1> USE DEF Inv
<1>1. TypeOK'
  BY DEF Done, ReleaseClock, TypeOK, local
<1>2. ServerLocks'
  BY ConnectionsAssumption DEF Done, ReleaseClock, ServerLocks, TypeOK
<1>3. Leavers'
  BY DEF Done, Leavers, TypeOK
<1>4. ClientLocks' /\ Gone'
  BY Frames DEF Done, local
<1> QED BY <1>1, <1>2, <1>3, <1>4

LEMMA LeaveInv == ASSUME Inv, NEW c \in Client, Leave(c) PROVE Inv'
<1> USE DEF Inv
<1>1. To(SocketList, FALSE) \in Seq(Packet)
  BY ListOfClients, PacketsTo DEF SocketList, TypeOK
<1>2. TypeOK'
  BY <1>1 DEF Leave, TypeOK, Packet, local
<1>3. ServerLocks'
  BY DEF Leave, ServerLocks, TypeOK
<1>4. Leavers'
  BY DEF Leave, Leavers, TypeOK
<1>5. ClientLocks' /\ Gone'
  BY Frames DEF Leave, local
<1> QED BY <1>2, <1>3, <1>4, <1>5
-----------------------------------------------------------------------------
LEMMA PressKeyInv == ASSUME Inv, NEW b \in Client, PressKey(b) PROVE Inv'
<1> USE DEF Inv
<1>1. PICK packets \in Keystroke : pending' = [pending EXCEPT ![b] = packets]
  BY DEF PressKey
<1>2. pending' \in [Client -> Seq(Kind)]
  <2>1. packets \in Seq(Kind)
    BY ConnectionsAssumption
  <2> QED BY <1>1, <2>1 DEF TypeOK
<1>3. TypeOK'
  <2>1. keys' \in [Client -> Nat]
    BY DEF PressKey, TypeOK
  <2>2. mlock' \in [Client -> { "free", "key", "handler" }]
    BY DEF PressKey, TypeOK
  <2>3. UNCHANGED << server, up, down, dead, csend, handler, held, asks >>
    BY DEF PressKey
  <2> QED BY <1>2, <2>1, <2>2, <2>3 DEF TypeOK, server
<1>4. ServerLocks' /\ Leavers'
  BY Frames DEF PressKey, server
<1>5. ClientLocks'
  BY <1>1 DEF PressKey, ClientLocks, TypeOK
<1>6. Gone'
  BY <1>1 DEF PressKey, Gone, TypeOK
<1> QED BY <1>3, <1>4, <1>5, <1>6

LEMMA StartSendInv == ASSUME Inv, NEW b \in Client, StartSend(b) PROVE Inv'
<1> USE DEF Inv
<1>1. TypeOK'
  BY DEF StartSend, TypeOK, server
<1>2. ServerLocks' /\ Leavers'
  BY Frames DEF StartSend, server
<1>3. ClientLocks'
  BY DEF StartSend, ClientLocks, TypeOK
<1>4. Gone'
  BY DEF StartSend, Gone, TypeOK
<1> QED BY <1>1, <1>2, <1>3, <1>4

\* A packet put on the way to the server.
LEMMA SentType ==
    ASSUME TypeOK, NEW b \in Client, HasRoom(up[b]), NEW kind \in Kind,
           up' = [up EXCEPT ![b] = Append(@, kind)]
    PROVE  up' \in [Client -> Seq(Kind)] /\ \A d \in Client : Len(up'[d]) <= Room
<1>1. up[b] \in Seq(Kind)
  BY DEF TypeOK
<1>2. /\ Append(up[b], kind) \in Seq(Kind)
      /\ Len(Append(up[b], kind)) = Len(up[b]) + 1
  BY <1>1, AppendProperties
<1>3. Len(up[b]) \in Nat /\ Len(up[b]) < Room
  BY <1>1 DEF HasRoom
<1>4. Len(up[b]) + 1 <= Room
  BY <1>3, ConnectionsAssumption
<1> QED BY <1>2, <1>4 DEF TypeOK

LEMMA SendPendingInv == ASSUME Inv, NEW b \in Client, SendPending(b) PROVE Inv'
<1> USE DEF Inv
<1>1. pending[b] \in Seq(Kind) /\ pending[b] # << >>
  BY DEF SendPending, TypeOK, ClientLocks
<1>2. Head(pending[b]) \in Kind /\ Tail(pending[b]) \in Seq(Kind)
  BY <1>1, TailOf
<1>3. up' \in [Client -> Seq(Kind)] /\ \A d \in Client : Len(up'[d]) <= Room
  BY <1>2, SentType DEF SendPending
<1>4. TypeOK'
  BY <1>2, <1>3 DEF SendPending, TypeOK, server
<1>5. ServerLocks'
  BY Frames DEF SendPending, server
<1>6. Leavers'
  BY DEF SendPending, Leavers, TypeOK, server
<1>7. ClientLocks'
  BY <1>1 DEF SendPending, ClientLocks, TypeOK
<1>8. Gone'
  BY DEF SendPending, Gone, TypeOK
<1> QED BY <1>4, <1>5, <1>6, <1>7, <1>8

LEMMA UnlockInv == ASSUME Inv, NEW b \in Client, Unlock(b) PROVE Inv'
<1> USE DEF Inv
<1>1. TypeOK'
  BY DEF Unlock, TypeOK, server
<1>2. ServerLocks' /\ Leavers'
  BY Frames DEF Unlock, server
<1>3. ClientLocks'
  BY DEF Unlock, ClientLocks, TypeOK
<1>4. Gone'
  BY DEF Unlock, Gone, TypeOK
<1> QED BY <1>1, <1>2, <1>3, <1>4

LEMMA StartAskInv == ASSUME Inv, NEW b \in Client, StartAsk(b) PROVE Inv'
<1> USE DEF Inv
<1>1. TypeOK'
  BY SMTT(30) DEF StartAsk, TypeOK, server
<1>2. ServerLocks' /\ Leavers'
  BY Frames DEF StartAsk, server
<1>3. ClientLocks'
  BY DEF StartAsk, ClientLocks, TypeOK
<1>4. Gone'
  BY DEF StartAsk, Gone, TypeOK
<1> QED BY <1>1, <1>2, <1>3, <1>4

LEMMA SendAskInv == ASSUME Inv, NEW b \in Client, SendAsk(b) PROVE Inv'
<1> USE DEF Inv
<1>1. "ask" \in Kind
  BY DEF Kind
<1>2. up' \in [Client -> Seq(Kind)] /\ \A d \in Client : Len(up'[d]) <= Room
  BY <1>1, SentType DEF SendAsk
<1>3. TypeOK'
  BY <1>2 DEF SendAsk, TypeOK, server
<1>4. ServerLocks'
  BY Frames DEF SendAsk, server
<1>5. Leavers'
  BY DEF SendAsk, Leavers, TypeOK, server
<1>6. ClientLocks'
  BY DEF SendAsk, ClientLocks, TypeOK
<1>7. Gone'
  BY DEF SendAsk, Gone, TypeOK
<1> QED BY <1>3, <1>4, <1>5, <1>6, <1>7

LEMMA GetMessageInv == ASSUME Inv, NEW b \in Client, GetMessage(b) PROVE Inv'
<1> USE DEF Inv
<1>1. down[b] \in Seq(BOOLEAN) /\ down[b] # << >> /\ Len(down[b]) <= Room
  BY DEF GetMessage, TypeOK
<1>2. /\ Head(down[b]) \in BOOLEAN /\ Tail(down[b]) \in Seq(BOOLEAN)
      /\ Len(Tail(down[b])) <= Room
  <2>1. /\ Head(down[b]) \in BOOLEAN /\ Tail(down[b]) \in Seq(BOOLEAN)
        /\ Len(Tail(down[b])) = Len(down[b]) - 1 /\ Len(down[b]) \in Nat
    BY <1>1, TailOf
  <2>2. Len(down[b]) - 1 <= Room
    BY <1>1, <2>1, ConnectionsAssumption
  <2> QED BY <2>1, <2>2
<1>3. TypeOK'
  BY <1>2 DEF GetMessage, TypeOK, server
<1>4. ServerLocks' /\ Leavers'
  BY Frames DEF GetMessage, server
<1>5. ClientLocks'
  BY DEF GetMessage, ClientLocks, TypeOK
<1>6. Gone'
  BY DEF GetMessage, Gone, TypeOK
<1> QED BY <1>3, <1>4, <1>5, <1>6

LEMMA HandleMessageInv == ASSUME Inv, NEW b \in Client, HandleMessage(b) PROVE Inv'
<1> USE DEF Inv
<1>1. << "move" >> \in Seq(Kind) /\ << >> \in Seq(Kind)
  BY DEF Kind
<1>2. TypeOK'
  BY <1>1 DEF HandleMessage, TypeOK, server
<1>3. ServerLocks' /\ Leavers'
  BY Frames DEF HandleMessage, server
<1>4. ClientLocks'
  BY DEF HandleMessage, ClientLocks, TypeOK
<1>5. Gone'
  BY DEF HandleMessage, Gone, TypeOK
<1> QED BY <1>2, <1>3, <1>4, <1>5

LEMMA DieInv == ASSUME Inv, NEW b \in Client, Die(b) PROVE Inv'
<1> USE DEF Inv
<1>1. PICK n \in 0 .. Len(up[b]) : up' = [up EXCEPT ![b] = SubSeq(@, 1, n)]
  BY DEF Die
<1>2. up[b] \in Seq(Kind) /\ Len(up[b]) \in Nat /\ Len(up[b]) <= Room
  BY DEF TypeOK
<1>3. /\ SubSeq(up[b], 1, n) \in Seq(Kind) /\ Len(SubSeq(up[b], 1, n)) = n
      /\ n <= Room
  BY <1>2, SubSeqProperties, ConnectionsAssumption
<1>4. up' \in [Client -> Seq(Kind)] /\ \A d \in Client : Len(up'[d]) <= Room
  BY <1>1, <1>3 DEF TypeOK
<1>5. /\ down' \in [Client -> Seq(BOOLEAN)]
      /\ \A d \in Client : Len(down'[d]) <= Room
  <2>1. << >> \in Seq(BOOLEAN) /\ Len(<< >>) <= Room
    BY ConnectionsAssumption
  <2> QED BY <2>1 DEF Die, TypeOK
<1>6. pending' \in [Client -> Seq(Kind)]
  <2>1. << >> \in Seq(Kind)
    OBVIOUS
  <2> QED BY <2>1 DEF Die, TypeOK
<1>7. TypeOK'
  BY <1>4, <1>5, <1>6 DEF Die, TypeOK, server
<1>8. ServerLocks'
  BY Frames DEF Die, server
<1>9. Leavers'
  <2>1. up[b] = << >> => up'[b] = << >>
    BY <1>1, <1>2, <1>3, <1>4
  <2> QED BY <1>1, <2>1 DEF Die, Leavers, TypeOK, server
<1>10. ClientLocks'
  BY DEF Die, ClientLocks, TypeOK
<1>11. Gone'
  BY DEF Die, Gone, TypeOK
<1> QED BY <1>7, <1>8, <1>9, <1>10, <1>11

LEMMA NextInv == Inv /\ [Next]_vars => Inv'
<1> SUFFICES ASSUME Inv, [Next]_vars PROVE Inv'
  OBVIOUS
<1>1. CASE \E c \in Client : ServerThread(c)
  BY <1>1, ReceiveInv, TakeClockInv, TakeSendlockInv, SendMessageInv, DoneInv, LeaveInv
  DEF ServerThread
<1>2. CASE \E b \in Client : LockHolder(b) \/ SendAsk(b) \/ Handler(b)
  BY <1>2, StartSendInv, SendPendingInv, UnlockInv, SendAskInv, GetMessageInv,
     HandleMessageInv
  DEF LockHolder, Handler
<1>3. CASE \E b \in Client : PressKey(b) \/ StartAsk(b) \/ Die(b)
  BY <1>3, PressKeyInv, StartAskInv, DieInv
<1>4. CASE UNCHANGED vars
  <2>1. UNCHANGED << server, local, up, down, dead >>
    BY <1>4 DEF vars
  <2>2. TypeOK'
    BY <2>1 DEF Inv, TypeOK, server, local
  <2> QED BY <2>1, <2>2, Frames DEF Inv, server, local
<1> QED BY <1>1, <1>2, <1>3, <1>4 DEF Next, Work
-----------------------------------------------------------------------------
\* With sendlock free, clock is free and every thread of the server is between
\* two packets; then the clients can send and handle all they have.
LEMMA QuietWithoutSendlock ==
    ASSUME Inv, ~ CanGoOn, sendlock = Nobody
    PROVE  Quiet
<1> USE DEF Inv
<1> SUFFICES ASSUME NEW c \in Client
             PROVE  /\ st[c] = IF c \in dead THEN "ended" ELSE "recv"
                    /\ up[c] = << >> /\ down[c] = << >>
                    /\ c \notin dead => /\ mlock[c] = "free" /\ csend[c] = "free"
                                       /\ handler[c] = "reading"
  BY DEF Quiet
<1>1. \A d \in Client : ~ ServerCanGoOn(d) /\ ~ ClientCanGoOn(d)
  BY DEF CanGoOn
<1>2. \A d \in Client : st[d] # "sending" /\ st[d] # "send"
  BY <1>1, ConnectionsAssumption DEF ServerCanGoOn, ServerLocks, TypeOK
<1>3. clock = Nobody
  BY <1>2 DEF ServerLocks, TypeOK
<1>4. st[c] \in { "recv", "ended" }
  BY <1>1, <1>2, <1>3 DEF ServerCanGoOn, TypeOK
<1>5. CASE st[c] = "ended"
  <2>1. c \in leaving /\ up[c] = << >> /\ c \in dead
    BY <1>5 DEF Leavers, TypeOK
  <2> QED BY <1>5, <2>1 DEF Gone
<1>6. CASE st[c] = "recv"
  <2>1. up[c] = << >> /\ c \notin dead
    BY <1>1, <1>6 DEF ServerCanGoOn
  <2>2. HasRoom(up[c])
    <3>1. Len(<< >>) = 0
      OBVIOUS
    <3> QED BY <2>1, <3>1, ConnectionsAssumption DEF HasRoom
  <2>3. csend[c] = "free"
    BY <1>1, <2>1, <2>2 DEF ClientCanGoOn
  <2>4. mlock[c] = "free"
    BY <1>1, <2>1, <2>3 DEF ClientCanGoOn
  <2>5. handler[c] = "reading"
    BY <1>1, <2>1, <2>4 DEF ClientCanGoOn, TypeOK
  <2>6. down[c] = << >>
    BY <1>1, <2>1, <2>5 DEF ClientCanGoOn
  <2> QED BY <1>6, <2>1, <2>3, <2>4, <2>5, <2>6
<1> QED BY <1>4, <1>5, <1>6

\* With sendlock held, its holder waits for a client that is jammed.
LEMMA JamWithSendlock ==
    ASSUME Inv, ~ CanGoOn, sendlock # Nobody
    PROVE  \E b \in Client : Jammed(b)
<1> USE DEF Inv
<1>1. \A d \in Client : ~ ServerCanGoOn(d) /\ ~ ClientCanGoOn(d)
  BY DEF CanGoOn
<1>2. /\ sendlock \in Client /\ st[sendlock] = "sending"
      /\ todo[sendlock] # << >> /\ todo[sendlock] \in Seq(Packet)
  BY DEF TypeOK, ServerLocks, Packet
<1>3. Head(todo[sendlock]) \in Packet
  BY <1>2, TailOf
<1>4. PICK b \in Client : b = Head(todo[sendlock]).to
  BY <1>3 DEF Packet
<1>5. b \notin dead /\ ~ HasRoom(down[b])
  BY <1>1, <1>2, <1>4 DEF ServerCanGoOn
<1>6. down[b] # << >>
  <2>1. Len(<< >>) = 0
    OBVIOUS
  <2> QED BY <1>5, <2>1, ConnectionsAssumption DEF HasRoom
<1>7. handler[b] = "got"
  BY <1>1, <1>5, <1>6 DEF ClientCanGoOn, TypeOK
<1>8. mlock[b] # "free"
  BY <1>1, <1>5, <1>7 DEF ClientCanGoOn
<1>9. pending[b] # << >> /\ csend[b] # "free"
  BY <1>1, <1>5, <1>8 DEF ClientCanGoOn
<1>10. ~ HasRoom(up[b])
  BY <1>1, <1>5, <1>9 DEF ClientCanGoOn
<1>11. up[b] # << >>
  <2>1. Len(<< >>) = 0
    OBVIOUS
  <2> QED BY <1>10, <2>1, ConnectionsAssumption DEF HasRoom
<1>12. st[b] # "recv" /\ (st[b] = "send" => todo[b] # << >>)
  BY <1>1, <1>11 DEF ServerCanGoOn
<1>13. st[b] # "ended"
  BY <1>5 DEF Leavers, TypeOK
<1>14. st[b] \in { "clock", "send", "sending" }
  BY <1>12, <1>13 DEF TypeOK
<1> QED BY <1>4, <1>5, <1>7, <1>9, <1>10, <1>12, <1>14 DEF Jammed

\* A jam survives a step that leaves alone what it consists of.
LEMMA JamFrame ==
    ASSUME NEW b, Jammed(b), b \notin dead',
           UNCHANGED << sendlock, todo[sendlock], down[b], handler[b], pending[b], csend[b],
                        up[b] >>,
           \/ UNCHANGED << st[b], todo[b] >>
           \/ st'[b] = "send" /\ todo'[b] # << >>
    PROVE  Jammed(b)'
  BY DEF Jammed, HasRoom

LEMMA JamStays ==
    ASSUME Inv, [Next]_vars, NEW b \in Client, Jammed(b)
    PROVE  Jammed(b)' \/ b \in dead'
<1> USE DEF Inv
<1>1. /\ sendlock \in Client /\ st[sendlock] = "sending" /\ sendlock # Nobody
      /\ todo[sendlock] # << >>
  BY DEF Jammed, TypeOK, ServerLocks
<1>2. mlock[b] # "free" /\ b \notin dead /\ ~ HasRoom(up[b]) /\ ~ HasRoom(down[b])
  BY DEF Jammed, ClientLocks
<1>3. ASSUME NEW c \in Client, ServerThread(c)
      PROVE  Jammed(b)'
  <2>1. CASE Receive(c) \/ Leave(c)
    <3>1. c # b /\ c # sendlock
      BY <1>1, <2>1 DEF Receive, Leave, Jammed
    <3>2. UNCHANGED << st[b], todo[b], todo[sendlock] >>
      <4>1. CASE Receive(c)
        BY <3>1, <4>1, <1>1 DEF Receive, TypeOK
      <4>2. CASE Leave(c)
        BY <3>1, <4>2, <1>1 DEF Leave, TypeOK
      <4> QED BY <2>1, <4>1, <4>2
    <3>3. UNCHANGED up[b]
      BY <2>1, <3>1 DEF Receive, Leave, TypeOK
    <3>4. UNCHANGED << sendlock, down, dead, handler, pending, csend >>
      BY <2>1 DEF Receive, Leave, local
    <3> QED BY <3>2, <3>3, <3>4, <1>2, JamFrame
  <2>2. CASE TakeClock(c) /\ c # b
    <3>1. c # sendlock
      BY <1>1, <2>2 DEF TakeClock
    <3> QED BY <2>2, <3>1, <1>1, <1>2, JamFrame DEF TakeClock, TypeOK, local
  <2>3. CASE TakeClock(c) /\ c = b
    <3>1. sendlock # b /\ sendlock \in alive
      BY <1>1, <2>3 DEF TakeClock, Leavers
    <3>2. To(SetToSeq(alive \ {b}), FALSE) # << >>
      BY <3>1, ForwardTo
    <3>3. st'[b] = "send" /\ todo'[b] # << >>
      BY <2>3, <3>2 DEF TakeClock, TypeOK
    <3> QED BY <2>3, <3>1, <3>3, <1>1, <1>2, JamFrame DEF TakeClock, TypeOK, local
  <2>4. CASE TakeSendlock(c)
    BY <1>1, <2>4 DEF TakeSendlock
  <2>5. CASE SendMessage(c)
    <3>1. c = sendlock
      BY <2>5 DEF SendMessage, ServerLocks
    <3>2. Head(todo[c]).to = b
      BY <3>1 DEF Jammed
    <3> QED BY <2>5, <3>2, <1>2 DEF SendMessage, Delivered
  <2>6. CASE Done(c)
    <3>1. c # b /\ c # sendlock
      BY <1>1, <2>6 DEF Done, Jammed
    <3> QED BY <2>6, <3>1, <1>1, <1>2, JamFrame DEF Done, TypeOK, local
  <2> QED BY <1>3, <2>1, <2>2, <2>3, <2>4, <2>5, <2>6 DEF ServerThread
<1>4. ASSUME NEW c \in Client,
             \/ PressKey(c) \/ StartSend(c) \/ SendPending(c) \/ Unlock(c)
             \/ StartAsk(c) \/ SendAsk(c) \/ GetMessage(c) \/ HandleMessage(c)
      PROVE  Jammed(b)'
  <2>1. c # b
    BY <1>2, <1>4 DEF Jammed, PressKey, StartSend, SendPending, Unlock, StartAsk, SendAsk,
                      GetMessage, HandleMessage
  <2>2. UNCHANGED << down[b], handler[b], pending[b], csend[b], up[b] >>
    BY <1>4, <2>1, SMTT(30) DEF PressKey, StartSend, SendPending, Unlock, StartAsk, SendAsk,
                      GetMessage, HandleMessage, TypeOK
  <2>3. UNCHANGED << server, dead >>
    BY <1>4 DEF PressKey, StartSend, SendPending, Unlock, StartAsk, SendAsk,
                GetMessage, HandleMessage
  <2> QED BY <1>2, <2>2, <2>3, JamFrame DEF server
<1>5. ASSUME NEW c \in Client, Die(c)
      PROVE  Jammed(b)' \/ b \in dead'
  <2>1. CASE c = b
    BY <1>5, <2>1 DEF Die
  <2>2. CASE c # b
    <3>1. UNCHANGED << down[b], handler[b], pending[b], csend[b], up[b] >>
      BY <1>5, <2>2 DEF Die, TypeOK
    <3>2. UNCHANGED server /\ b \notin dead'
      BY <1>2, <1>5, <2>2 DEF Die
    <3> QED BY <3>1, <3>2, JamFrame DEF server
  <2> QED BY <2>1, <2>2
<1>6. CASE UNCHANGED vars
  BY <1>2, <1>6, JamFrame DEF vars, server, local
<1> QED BY <1>3, <1>4, <1>5, <1>6 DEF Next, Work, LockHolder, Handler
-----------------------------------------------------------------------------
\* The invariant holds in every reachable state.
THEOREM Invariant == Spec => []Inv
<1>1. Init => Inv
  BY InitInv
<1>2. Inv /\ [Next]_vars => Inv'
  BY NextInv
<1> QED BY <1>1, <1>2, PTL DEF Spec

\* Types, and no connection holds more than it can.
THEOREM TypeCorrect == Spec => []TypeOK
<1>1. Inv => TypeOK
  BY DEF Inv
<1> QED BY <1>1, Invariant, PTL

\* However many clients compete for the locks of forward_message() and
\* send_message(), nothing but a jam brings all of them to a stand (server.cpp:133,
\* networking.cpp:254).
THEOREM StuckOnlyWhenJammedAlways == Spec => []StuckOnlyWhenJammed
<1>1. Inv => StuckOnlyWhenJammed
  BY QuietWithoutSendlock, JamWithSendlock DEF StuckOnlyWhenJammed
<1> QED BY <1>1, Invariant, PTL

\* No other client and no thread of the server resolves a jam: only the end of
\* the jammed client does.
THEOREM JamIsFinalAlways == Spec => JamIsFinal
<1>1. Inv /\ [Next]_vars =>
        [\A b \in Client : Jammed(b) => Jammed(b)' \/ b \in dead']_vars
  BY JamStays
<1> QED BY <1>1, Invariant, PTL DEF Spec, JamIsFinal
=============================================================================
