------------------------------ MODULE Session ------------------------------
(***************************************************************************)
(* An editing session: one server process, its thread per client, and the  *)
(* clients with their three threads (keyboard, message handler, periodic   *)
(* synchronisation), over one TCP connection each.                         *)
(*                                                                         *)
(* Connections are FIFO queues of whole packets: send_message() holds the  *)
(* process-wide sendlock, so the packets of one process never mix.  How    *)
(* packets are cut out of the byte stream is the subject of Framing, and   *)
(* the text operations of BlockingVector.  Move packets are left out: the  *)
(* server ignores them.  The window is taken to be tall enough to show the *)
(* whole text, so that the cursor is a position in the text.               *)
(*                                                                         *)
(* The variables of the last group exist in no code; they record which     *)
(* edit came last where.                                                   *)
(***************************************************************************)
EXTENDS BlockingVector, FiniteSets

CONSTANTS
    Client,         \* users
    NoClient,       \* nobody: the value of a free lock
    File,           \* file names on the server
    Autosave,       \* the file "autosave.txt"
    Blank,          \* the character that Tab inserts
    GarbageWidths,  \* what line_width() may return beyond the last line
    InitialText,    \* the text of the server and of the clients at the start
    InitialDisk,    \* what each file holds at the start
    Connected,      \* the clients in the server's list at the start, in order
    Keys,           \* Keys[c]: the kinds of keys that user c presses
    Reach,          \* Reach[c]: where user c moves the cursor with the arrows
    Joiners,        \* the users that may still connect
    Leavers,        \* the users that may quit
    TabWidth,       \* TAB_WIDTH
    MaxKeys,        \* bound: keys that each user presses
    MaxRequests     \* bound: unanswered requests of one periodic thread

KeyKind == {"Char", "Enter", "Tab", "Backspace", "Delete", "Sync",
            "Write", "Read", "Count"}
Position == [line : Nat, index : Nat]

ASSUME SessionAssumption ==
    /\ NoClient \notin Client
    /\ Autosave \in File
    /\ Blank \in Char
    /\ GarbageWidths \subseteq Nat /\ GarbageWidths # {}
    /\ InitialText \in Doc
    /\ InitialDisk \in [File -> Doc]
    /\ Connected \in Seq(Client)
    /\ \A i, j \in DOMAIN Connected : i # j => Connected[i] # Connected[j]
    /\ Keys \in [Client -> SUBSET KeyKind]
    /\ Reach \in [Client -> SUBSET Position]
    /\ Joiners \subseteq Client /\ Leavers \subseteq Client
    /\ TabWidth \in Nat /\ MaxKeys \in Nat /\ MaxRequests \in Nat

VARIABLES
    \* the server process
    server,     \* "up", or "crashed" by undefined behaviour
    text,       \* server.cpp: text
    disk,       \* the text in each file
    clients,    \* server.cpp: clients, in the order of the vector
    alive,      \* Client::alive, for those in clients
    clock,      \* who holds server.cpp: clock
    accepted,   \* the client between accept() and push_back()
    notify,     \* whom the accepting thread still has to tell about it
    pc,         \* where the thread of each client is
    msg,        \* the packet that thread is working on
    todo,       \* the clients its current loop has still to visit
    \* the connections
    backlog,    \* connections not accepted yet
    up, down,   \* packets under way to and from the server
    \* the client processes
    client,     \* "new", "up", "lost" (the server), "local" or "gone"
    local,      \* editor.cpp: text
    modified,   \* modifiedTextSinceUpdate
    cursor,     \* lineoffset + y, and x
    pending,    \* what the key handler has still to do; it holds mlock
                \* as long as this is not empty
    loop,       \* getFullLoop: "sleep", or "cleared" (the flag)
    presses,    \* keys pressed so far
    \* history
    issued,     \* issued[a]: the number of the last edit that a has sent
    applied,    \* applied[a]: of the last edit of a that the server applied
    sent,       \* sent[b][a]: of the last edit of a forwarded to b
    got         \* got[b][a]: of the last edit of a that client b has handled,
                \* at first of the last one before it joined

serverVars  == << server, text, disk, clients, alive, clock, accepted, notify >>
threadVars  == << pc, msg, todo >>
netVars     == << backlog, up, down >>
clientVars  == << client, local, modified, cursor, pending, loop, presses >>
historyVars == << issued, applied, sent, got >>
vars == << serverVars, threadVars, netVars, clientVars, historyVars >>

(***************************************************************************)
(* Packets.  Of a Remove the character means nothing.  from and n are not  *)
(* on the wire: they number the edits of each client.  has says which      *)
(* edits are contained in the text of a FullContent packet.                *)
(***************************************************************************)
EditPacket ==
    [type : {"Insert", "Remove"}, from : Client, n : Nat,
     line : Nat, index : Nat \cup {Join}, char : Char \cup {Enter}]
Request     == [type : {"GetFull", "GetClientCount"}]
FileRequest == [type : {"WriteToDisk", "ReadFromDisk"}, file : File]
Content     == [type : {"FullContent"}, force : BOOLEAN, text : Doc,
                has : [Client -> Nat]]
Notice      == [type : {"WriteConfirmed", "ReadConfirmed", "Disconnect"}]
Count       == [type : {"ClientCount"}, count : Nat]

ToServer == EditPacket \cup Request \cup FileRequest
ToClient == EditPacket \cup Content \cup Notice \cup Count

IsEdit(p) == p.type \in {"Insert", "Remove"}

GetFull == [type |-> "GetFull"]
NoticeOf(type) == [type |-> type]

ContentOf(force) ==
    [type |-> "FullContent", force |-> force, text |-> text, has |-> applied]

\* Mutant: a packet that does not fit is dropped.
SendTo_IfRoom(b, p) ==
    down' = IF client[b] = "up" /\ down[b] = << >>
            THEN [down EXCEPT ![b] = Append(@, p)] ELSE down

\* A packet for a client that has closed its socket goes nowhere.
SendTo(b, p) == down' = IF client[b] = "up"
                        THEN [down EXCEPT ![b] = Append(@, p)] ELSE down

Connection(c) == server = "up" /\ client[c] = "up"
SendUp(c, p)  == up' = IF Connection(c)
                       THEN [up EXCEPT ![c] = Append(@, p)] ELSE up

\* The session is under way: users have moved their cursors.
Origin == [line |-> 0, index |-> 0]
OnText(doc, p) == HasLine(doc, p.line) /\ p.index <= Len(doc[p.line + 1])
Starts(c) ==
    LET there == { p \in Reach[c] : OnText(InitialText, p) }
    IN  IF c \in ToSet(Connected) /\ there # {} THEN there ELSE {Origin}

Init ==
    /\ server = "up"
    /\ text = InitialText
    /\ disk = InitialDisk
    /\ clients = Connected
    /\ alive = [c \in Client |-> c \in ToSet(Connected)]
    /\ clock = NoClient
    /\ accepted = NoClient
    /\ notify = << >>
    /\ pc = [c \in Client |-> IF c \in ToSet(Connected) THEN "recv" ELSE "none"]
    /\ msg = [c \in Client |-> NoticeOf("WriteConfirmed")]
    /\ todo = [c \in Client |-> << >>]
    /\ backlog = << >>
    /\ up = [c \in Client |-> << >>]
    /\ down = [c \in Client |-> << >>]
    /\ client = [c \in Client |-> IF c \in ToSet(Connected) THEN "up" ELSE "new"]
    /\ local = [c \in Client |->
                  IF c \in ToSet(Connected) THEN InitialText ELSE EmptyDoc]
    /\ modified = [c \in Client |-> FALSE]
    /\ cursor \in { f \in [Client -> {Origin} \cup UNION Range(Reach)] :
                     \A c \in Client : f[c] \in Starts(c) }
    /\ pending = [c \in Client |-> << >>]
    /\ loop = [c \in Client |-> "sleep"]
    /\ presses = [c \in Client |-> 0]
    /\ issued = [a \in Client |-> 0]
    /\ applied = [a \in Client |-> 0]
    /\ sent = [b \in Client |-> [a \in Client |-> 0]]
    /\ got = [b \in Client |-> [a \in Client |-> 0]]
-----------------------------------------------------------------------------
(***************************************************************************)
(* The server.  thread_routine() of client c: "recv" is get_message(),     *)
(* the labels after it are the points where other threads can come in      *)
(* between: taking clock, each send, and each evaluation of                *)
(* get_socket_list(), which takes no lock.                                 *)
(***************************************************************************)
SocketList ==      \* with NoClient in place of a client that has left
    [i \in DOMAIN clients |-> IF alive[clients[i]] THEN clients[i] ELSE NoClient]
SocketCount == Cardinality({ i \in DOMAIN clients : alive[clients[i]] })

\* Mutant: the packet stays in the receive queue.
Receives_Peek(c, types) == /\ server = "up"
                           /\ pc[c] = "recv"
                           /\ up[c] # << >>
                           /\ Head(up[c]).type \in types
                           /\ up' = up

Receives(c, types) == /\ server = "up"
                      /\ pc[c] = "recv"
                      /\ up[c] # << >>
                      /\ Head(up[c]).type \in types
                      /\ up' = [up EXCEPT ![c] = Tail(@)]

Goto(c, label) == pc' = [pc EXCEPT ![c] = label]

\* Insert and Remove: the text changes now, the packet is forwarded later.
ApplyEdit(c) ==
    LET p == Head(up[c])
    IN  /\ Receives(c, {"Insert", "Remove"})
        /\ \/ /\ p.type = "Insert"
              /\ text' = InsertChar(text, p.line, p.index, p.char)
           \/ /\ p.type = "Remove"
              /\ text' \in RemoveChar(text, p.line, p.index)
        /\ msg' = [msg EXCEPT ![c] = p]
        /\ applied' = [applied EXCEPT ![c] = p.n]
        /\ Goto(c, "clock")
        /\ UNCHANGED << server, disk, clients, alive, clock, accepted, notify,
                        todo, backlog, down, clientVars, issued, sent, got >>

\* Remove at the end of a line is undefined: the server may die of it.
CrashOnErase(c) ==
    LET p == Head(up[c])
    IN  /\ Receives(c, {"Remove"})
        /\ p.index # Join /\ ErasesEnd(text, p.line, p.index)
        /\ server' = "crashed"
        /\ UNCHANGED << text, disk, clients, alive, clock, accepted, notify,
                        threadVars, backlog, down, clientVars, historyVars >>

WriteToDisk(c) ==
    /\ Receives(c, {"WriteToDisk"})
    /\ disk' = [disk EXCEPT ![Head(up[c]).file] = text]
    /\ msg' = [msg EXCEPT ![c] = NoticeOf("WriteConfirmed")]
    /\ Goto(c, "list")
    /\ UNCHANGED << server, text, clients, alive, clock, accepted, notify,
                    todo, backlog, down, clientVars, historyVars >>

ReadFromDisk(c) ==
    /\ Receives(c, {"ReadFromDisk"})
    /\ text' = disk[Head(up[c]).file]
    /\ msg' = [msg EXCEPT ![c] = NoticeOf("ReadConfirmed")]
    /\ Goto(c, "list")
    /\ UNCHANGED << server, disk, clients, alive, clock, accepted, notify,
                    todo, backlog, down, clientVars, historyVars >>

\* GetFull and GetClientCount: the answer is computed, then sent.
Answer(c) ==
    /\ \/ /\ Receives(c, {"GetFull"})
          /\ msg' = [msg EXCEPT ![c] = ContentOf(FALSE)]
       \/ /\ Receives(c, {"GetClientCount"})
          /\ msg' = [msg EXCEPT ![c] = [type |-> "ClientCount",
                                        count |-> SocketCount]]
    /\ Goto(c, "reply")
    /\ UNCHANGED << serverVars, todo, backlog, down, clientVars, historyVars >>

Reply(c) ==
    /\ server = "up"
    /\ pc[c] = "reply"
    /\ SendTo(c, msg[c])
    /\ Goto(c, "recv")
    /\ UNCHANGED << serverVars, msg, todo, backlog, up, clientVars, historyVars >>

\* forward_message(): under clock, to every living client but the sender.
TakeClock(c) ==
    /\ server = "up"
    /\ pc[c] = "clock"
    /\ clock = NoClient
    /\ clock' = c
    /\ todo' = [todo EXCEPT ![c] = clients]
    /\ Goto(c, "forward")
    /\ UNCHANGED << server, text, disk, clients, alive, accepted, notify,
                    msg, netVars, clientVars, historyVars >>

\* Mutant: the sender is not skipped.
Forward_Echo(c) ==
    LET b == Head(todo[c])
    IN  /\ server = "up"
        /\ pc[c] = "forward"
        /\ todo[c] # << >>
        /\ todo' = [todo EXCEPT ![c] = Tail(@)]
        /\ IF alive[b]
           THEN /\ SendTo(b, msg[c])
                /\ sent' = [sent EXCEPT ![b][c] = msg[c].n]
           ELSE UNCHANGED << down, sent >>
        /\ UNCHANGED << serverVars, pc, msg, backlog, up, clientVars,
                        issued, applied, got >>

Forward(c) ==
    LET b == Head(todo[c])
    IN  /\ server = "up"
        /\ pc[c] = "forward"
        /\ todo[c] # << >>
        /\ todo' = [todo EXCEPT ![c] = Tail(@)]
        /\ IF b # c /\ alive[b]
           THEN /\ SendTo(b, msg[c])
                /\ sent' = [sent EXCEPT ![b][c] = msg[c].n]
           ELSE UNCHANGED << down, sent >>
        /\ UNCHANGED << serverVars, pc, msg, backlog, up, clientVars,
                        issued, applied, got >>

\* Mutant: the lock is not released.
ReleaseClock_Forgotten(c) ==
    /\ server = "up"
    /\ pc[c] = "forward"
    /\ todo[c] = << >>
    /\ Goto(c, "recv")
    /\ UNCHANGED << serverVars, msg, todo, netVars, clientVars, historyVars >>

ReleaseClock(c) ==
    /\ server = "up"
    /\ pc[c] = "forward"
    /\ todo[c] = << >>
    /\ clock' = NoClient
    /\ Goto(c, "recv")
    /\ UNCHANGED << server, text, disk, clients, alive, accepted, notify,
                    msg, todo, netVars, clientVars, historyVars >>

\* The broadcast_...() functions get the list of sockets as an argument, and
\* broadcast_full_content() serializes the text before it sends.
ListSockets(c) ==
    /\ server = "up"
    /\ pc[c] \in {"list", "listForText"}
    /\ todo' = [todo EXCEPT ![c] = SocketList]
    /\ Goto(c, IF pc[c] = "list" THEN "broadcast" ELSE "serialize")
    /\ UNCHANGED << serverVars, msg, netVars, clientVars, historyVars >>

SerializeText(c) ==
    /\ server = "up"
    /\ pc[c] = "serialize"
    /\ msg' = [msg EXCEPT ![c] = ContentOf(TRUE)]
    /\ Goto(c, "broadcast")
    /\ UNCHANGED << serverVars, todo, netVars, clientVars, historyVars >>

Broadcast(c) ==
    /\ server = "up"
    /\ pc[c] = "broadcast"
    /\ todo[c] # << >>
    /\ IF Head(todo[c]) = NoClient THEN UNCHANGED down
                                  ELSE SendTo(Head(todo[c]), msg[c])
    /\ todo' = [todo EXCEPT ![c] = Tail(@)]
    /\ UNCHANGED << serverVars, pc, msg, backlog, up, clientVars, historyVars >>

EndBroadcast(c) ==
    /\ server = "up"
    /\ pc[c] = "broadcast"
    /\ todo[c] = << >>
    /\ Goto(c, IF msg[c].type = "ReadConfirmed" THEN "listForText"
            ELSE IF msg[c].type = "Disconnect" THEN "close"
            ELSE "recv")
    /\ UNCHANGED << serverVars, msg, todo, netVars, clientVars, historyVars >>

\* The connection has ended: tell the others, forget the client, save.
Disconnected(c) ==
    /\ server = "up"
    /\ pc[c] = "recv"
    /\ client[c] = "gone"
    /\ up[c] = << >>
    /\ msg' = [msg EXCEPT ![c] = NoticeOf("Disconnect")]
    /\ Goto(c, "list")
    /\ UNCHANGED << serverVars, todo, netVars, clientVars, historyVars >>

Close(c) ==
    /\ server = "up"
    /\ pc[c] = "close"
    /\ alive' = [alive EXCEPT ![c] = FALSE]
    /\ Goto(c, "autosave")
    /\ UNCHANGED << server, text, disk, clients, clock, accepted, notify,
                    msg, todo, netVars, clientVars, historyVars >>

\* Mutant: an autosave file that exists is kept.
SaveOnExit_Once(c) ==
    /\ server = "up"
    /\ pc[c] = "autosave"
    /\ disk' = IF disk[Autosave] = << >>
               THEN [disk EXCEPT ![Autosave] = text] ELSE disk
    /\ Goto(c, "dead")
    /\ UNCHANGED << server, text, clients, alive, clock, accepted, notify,
                    msg, todo, netVars, clientVars, historyVars >>

SaveOnExit(c) ==
    /\ server = "up"
    /\ pc[c] = "autosave"
    /\ disk' = [disk EXCEPT ![Autosave] = text]
    /\ Goto(c, "dead")
    /\ UNCHANGED << server, text, clients, alive, clock, accepted, notify,
                    msg, todo, netVars, clientVars, historyVars >>

ServerStep(c) ==
    \/ ApplyEdit(c) \/ CrashOnErase(c) \/ WriteToDisk(c) \/ ReadFromDisk(c)
    \/ Answer(c) \/ Reply(c)
    \/ TakeClock(c) \/ Forward(c) \/ ReleaseClock(c)
    \/ ListSockets(c) \/ SerializeText(c) \/ Broadcast(c) \/ EndBroadcast(c)
    \/ Disconnected(c) \/ Close(c) \/ SaveOnExit(c)

(***************************************************************************)
(* server_entrypoint(): accept, tell the others (a Disconnect packet with  *)
(* another wording), add the client to the vector, start its thread.       *)
(***************************************************************************)
Accept ==
    /\ server = "up"
    /\ accepted = NoClient
    /\ backlog # << >>
    /\ accepted' = Head(backlog)
    /\ backlog' = Tail(backlog)
    /\ notify' = SocketList
    /\ UNCHANGED << server, text, disk, clients, alive, clock, threadVars,
                    up, down, clientVars, historyVars >>

NotifyOne ==
    /\ server = "up"
    /\ notify # << >>
    /\ IF Head(notify) = NoClient
       THEN UNCHANGED down ELSE SendTo(Head(notify), NoticeOf("Disconnect"))
    /\ notify' = Tail(notify)
    /\ UNCHANGED << server, text, disk, clients, alive, clock, accepted,
                    threadVars, backlog, up, clientVars, historyVars >>

\* Edits applied but not yet forwarded will reach the new client; those
\* before it has missed.
Missed == [a \in Client |-> IF pc[a] = "clock" THEN applied[a] - 1 ELSE applied[a]]

StartThread ==
    /\ server = "up"
    /\ accepted # NoClient
    /\ notify = << >>
    /\ clock = NoClient
    /\ clients' = Append(clients, accepted)
    /\ alive' = [alive EXCEPT ![accepted] = TRUE]
    /\ Goto(accepted, "recv")
    /\ accepted' = NoClient
    /\ sent' = [sent EXCEPT ![accepted] = Missed]
    /\ got' = [got EXCEPT ![accepted] = Missed]
    /\ UNCHANGED << server, text, disk, clock, notify, msg, todo, netVars,
                    clientVars, issued, applied >>

AcceptorStep == Accept \/ NotifyOne \/ StartThread
-----------------------------------------------------------------------------
(***************************************************************************)
(* The keyboard thread of a client.  A key is handled under mlock; it      *)
(* first sets the flag, then changes the local text and sends, one         *)
(* character at a time.  The cursor moves with the last of them.           *)
(***************************************************************************)
Edit(c, type, line, index, char) ==
    [type |-> type, from |-> c, n |-> 0, line |-> line, index |-> index,
     char |-> char]

Press(c, kind) == /\ client[c] \in {"up", "local"}
                  /\ pending[c] = << >>
                  /\ kind \in Keys[c]
                  /\ presses[c] < MaxKeys
                  /\ presses' = [presses EXCEPT ![c] = @ + 1]
                  /\ UNCHANGED << serverVars, threadVars, netVars, client,
                                  local, loop, historyVars >>

\* Mutants: the flag is never set; or never cleared.
SetFlag_Never(c, value)  == modified' = [modified EXCEPT ![c] = FALSE]
SetFlag_Sticky(c, value) == modified' = [modified EXCEPT ![c] = @ \/ value]

SetFlag(c, value) == modified' = [modified EXCEPT ![c] = value]
Then(c, packets)  == pending' = [pending EXCEPT ![c] = packets]
CursorTo(c, l, i) == cursor' = [cursor EXCEPT ![c] = [line |-> l, index |-> i]]

Width(c, line) == LineWidth(local[c], line, GarbageWidths)
Least(i, j) == IF i < j THEN i ELSE j

\* Inserting count characters at the cursor, and moving behind them: the
\* cursor stops at the width the line has then.
InsertedWidth(c, char, count) ==
    IF local[c] = InsertChar(local[c], cursor[c].line, cursor[c].index, char)
    THEN Width(c, cursor[c].line)
    ELSE { w + count : w \in Width(c, cursor[c].line) }

PressChar(c) ==
    /\ Press(c, "Char")
    /\ SetFlag(c, TRUE)
    /\ \E char \in Char, w \in InsertedWidth(c, Blank, 1) :
          /\ Then(c, << Edit(c, "Insert", cursor[c].line, cursor[c].index, char) >>)
          /\ CursorTo(c, cursor[c].line, Least(cursor[c].index + 1, w))

PressTab(c) ==
    /\ Press(c, "Tab")
    /\ SetFlag(c, TRUE)
    /\ Then(c, [i \in 1 .. TabWidth |->
                  Edit(c, "Insert", cursor[c].line, cursor[c].index, Blank)])
    /\ \E w \in InsertedWidth(c, Blank, TabWidth) :
          CursorTo(c, cursor[c].line, Least(cursor[c].index + TabWidth, w))

\* The row is capped at the last one of the window, which in a window that
\* shows the whole text is the new line (View has the rest).
PressEnter(c) ==
    /\ Press(c, "Enter")
    /\ SetFlag(c, TRUE)
    /\ Then(c, << Edit(c, "Insert", cursor[c].line, cursor[c].index, Enter) >>)
    /\ CursorTo(c, cursor[c].line + 1, 0)

\* Backspace moves left, not beyond the end of the line, and removes what is
\* there; in column 0 it joins the line to the one above.
PressBackspace(c) ==
    LET line == cursor[c].line
        x == cursor[c].index
    IN  /\ Press(c, "Backspace")
        /\ SetFlag(c, TRUE)
        /\ \/ /\ x > 0
              /\ \E w \in Width(c, line) :
                    /\ Then(c, << Edit(c, "Remove", line, Least(x - 1, w), Enter) >>)
                    /\ CursorTo(c, line, Least(x - 1, w))
           \/ /\ x = 0 /\ line > 0
              /\ Then(c, << Edit(c, "Remove", line, Join, Enter) >>)
              /\ \E w \in Width(c, line - 1) : CursorTo(c, line - 1, w)
           \/ /\ x = 0 /\ line = 0
              /\ UNCHANGED << pending, cursor >>

\* Delete removes the character under the cursor, at the end of the line
\* the line break.
PressDelete(c) ==
    LET line == cursor[c].line
        x == cursor[c].index
    IN  /\ Press(c, "Delete")
        /\ SetFlag(c, TRUE)
        /\ \E w \in Width(c, line) :
              \/ /\ x < w
                 /\ Then(c, << Edit(c, "Remove", line, x, Enter) >>)
              \/ /\ x >= w /\ line < Len(local[c]) - 1
                 /\ Then(c, << Edit(c, "Remove", line + 1, Join, Enter) >>)
              \/ /\ x >= w /\ line >= Len(local[c]) - 1
                 /\ UNCHANGED pending
        /\ UNCHANGED cursor

\* The commands :w, :e and :cc end with the Enter key, which sets the flag.
PressCommand(c) ==
    /\ \/ /\ Press(c, "Write")
          /\ \E f \in File : Then(c, << [type |-> "WriteToDisk", file |-> f] >>)
       \/ /\ Press(c, "Read")
          /\ \E f \in File : Then(c, << [type |-> "ReadFromDisk", file |-> f] >>)
       \/ /\ Press(c, "Count")
          /\ Then(c, << [type |-> "GetClientCount"] >>)
    /\ SetFlag(c, TRUE)
    /\ UNCHANGED cursor

PressSync(c) ==
    /\ Press(c, "Sync")
    /\ SetFlag(c, FALSE)
    /\ Then(c, << GetFull >>)
    /\ UNCHANGED cursor

MoveCursor(c) ==
    /\ client[c] \in {"up", "local"}
    /\ pending[c] = << >>
    /\ presses[c] < MaxKeys
    /\ \E p \in Reach[c] : /\ OnText(local[c], p)
                           /\ cursor' = [cursor EXCEPT ![c] = p]
    /\ UNCHANGED << serverVars, threadVars, netVars, historyVars,
                    client, local, modified, pending, loop, presses >>

\* insert_char() and remove_char(): the local text first, then the packet,
\* if the server has not been lost.
SendEdit(c) ==
    LET p == [Head(pending[c]) EXCEPT !.n = issued[c] + 1]
    IN  /\ client[c] \in {"up", "lost", "local"}
        /\ pending[c] # << >>
        /\ IsEdit(p)
        /\ \/ /\ p.type = "Insert"
              /\ local' = [local EXCEPT ![c] = InsertChar(@, p.line, p.index, p.char)]
           \/ /\ p.type = "Remove"
              /\ \E doc \in RemoveChar(local[c], p.line, p.index) :
                    local' = [local EXCEPT ![c] = doc]
        /\ SendUp(c, p)
        /\ issued' = IF Connection(c) THEN [issued EXCEPT ![c] = @ + 1] ELSE issued
        /\ pending' = [pending EXCEPT ![c] = Tail(@)]
        /\ UNCHANGED << serverVars, threadVars, backlog, down, client, modified,
                        cursor, loop, presses, applied, sent, got >>

SendRequest(c) ==
    /\ client[c] \in {"up", "lost", "local"}
    /\ pending[c] # << >>
    /\ ~ IsEdit(Head(pending[c]))
    /\ SendUp(c, Head(pending[c]))
    /\ pending' = [pending EXCEPT ![c] = Tail(@)]
    /\ UNCHANGED << serverVars, threadVars, backlog, down, client, local, modified,
                    cursor, loop, presses, historyVars >>
-----------------------------------------------------------------------------
(***************************************************************************)
(* The message handler thread: get_message(), then handleMessage() under   *)
(* mlock, which is free when the keyboard thread has nothing pending.      *)
(***************************************************************************)
Handles(c, types) == /\ client[c] = "up"
                     /\ pending[c] = << >>
                     /\ down[c] # << >>
                     /\ Head(down[c]).type \in types
                     /\ down' = [down EXCEPT ![c] = Tail(@)]
                     /\ UNCHANGED << serverVars, threadVars, backlog, up, modified,
                                     pending, loop, presses, issued, applied, sent >>

\* A forced text replaces the local one and takes the cursor home; any other
\* is dropped when the flag is set.
ForcedText(c) ==
    /\ Handles(c, {"FullContent"})
    /\ Head(down[c]).force
    /\ local' = [local EXCEPT ![c] = Head(down[c]).text]
    /\ CursorTo(c, 0, 0)
    /\ UNCHANGED << client, got >>

Overwrite(c) ==
    /\ Handles(c, {"FullContent"})
    /\ ~ Head(down[c]).force
    /\ ~ modified[c]
    /\ local' = [local EXCEPT ![c] = Head(down[c]).text]
    /\ UNCHANGED << client, cursor, got >>

IgnoreText(c) ==
    /\ Handles(c, {"FullContent"})
    /\ ~ Head(down[c]).force
    /\ modified[c]
    /\ UNCHANGED << client, local, cursor, got >>

RemoteEdit(c) ==
    LET p == Head(down[c])
    IN  /\ Handles(c, {"Insert", "Remove"})
        /\ \/ /\ p.type = "Insert"
              /\ local' = [local EXCEPT ![c] = InsertChar(@, p.line, p.index, p.char)]
           \/ /\ p.type = "Remove"
              /\ \E doc \in RemoveChar(local[c], p.line, p.index) :
                    local' = [local EXCEPT ![c] = doc]
        /\ got' = [got EXCEPT ![c][p.from] = p.n]
        /\ UNCHANGED << client, cursor >>

\* Confirmations and notices are only displayed.
ShowNotice(c) ==
    /\ Handles(c, {"WriteConfirmed", "ReadConfirmed", "Disconnect", "ClientCount"})
    /\ UNCHANGED << client, local, cursor, got >>

\* getFullLoop() takes no lock between clearing the flag and asking.
Waiting(c) ==
      Cardinality({ i \in DOMAIN up[c] : up[c][i].type = "GetFull" })
    + Cardinality({ i \in DOMAIN down[c] :
                      down[c][i].type = "FullContent" /\ ~ down[c][i].force })
    + (IF pc[c] = "reply" /\ msg[c].type = "FullContent" THEN 1 ELSE 0)

ClearFlag(c) ==
    /\ client[c] = "up"
    /\ loop[c] = "sleep"
    /\ Waiting(c) < MaxRequests
    /\ SetFlag(c, FALSE)
    /\ loop' = [loop EXCEPT ![c] = "cleared"]
    /\ UNCHANGED << serverVars, threadVars, netVars, client, local, cursor,
                    pending, presses, historyVars >>

AskForText(c) ==
    /\ client[c] \in {"up", "lost", "local"}
    /\ loop[c] = "cleared"
    /\ SendUp(c, GetFull)
    /\ loop' = [loop EXCEPT ![c] = "sleep"]
    /\ UNCHANGED << serverVars, threadVars, backlog, down, client, local, modified,
                    cursor, pending, presses, historyVars >>

KeyboardStep(c) == SendEdit(c) \/ SendRequest(c)
HandlerStep(c)  == ForcedText(c) \/ Overwrite(c) \/ IgnoreText(c)
                     \/ RemoteEdit(c) \/ ShowNotice(c)
LoopStep(c)     == ClearFlag(c) \/ AskForText(c)
-----------------------------------------------------------------------------
(***************************************************************************)
(* Processes that come and go.                                             *)
(***************************************************************************)
\* A client started with an address asks for the text as soon as it is
\* connected (client_entrypoint(), START_SERVER false).
Connect(c) ==
    /\ server = "up"
    /\ client[c] = "new"
    /\ c \in Joiners
    /\ client' = [client EXCEPT ![c] = "up"]
    /\ up' = [up EXCEPT ![c] = << GetFull >>]
    /\ backlog' = Append(backlog, c)
    /\ UNCHANGED << serverVars, threadVars, down, local, modified, cursor,
                    pending, loop, presses, historyVars >>

\* A process that ends closes its socket.  If it has not read everything, the
\* connection is reset and what it has not yet delivered is lost with it.
Ends(c) ==
    /\ client' = [client EXCEPT ![c] = "gone"]
    /\ \E n \in 0 .. Len(up[c]) :
          /\ n = Len(up[c]) \/ down[c] # << >>
          /\ up' = [up EXCEPT ![c] = SubSeq(@, 1, n)]
    /\ down' = [down EXCEPT ![c] = << >>]
    /\ pending' = [pending EXCEPT ![c] = << >>]
    /\ loop' = [loop EXCEPT ![c] = "sleep"]
    /\ UNCHANGED << serverVars, threadVars, backlog, local, modified, cursor,
                    presses, historyVars >>

Quit(c) ==
    /\ client[c] \in {"up", "lost", "local"}
    /\ c \in Leavers
    /\ pending[c] = << >>
    /\ Ends(c)

\* The erase(end()) of BlockingVector::remove() in the client itself.
ClientCrash(c) ==
    /\ client[c] \in {"up", "lost", "local"}
    /\ \E p \in { Head(s) : s \in { q \in {pending[c], down[c]} : q # << >> } } :
          /\ pending[c] # << >> => p = Head(pending[c])
          /\ pending[c] = << >> => client[c] = "up"
          /\ p.type = "Remove"
          /\ p.index # Join /\ ErasesEnd(local[c], p.line, p.index)
    /\ Ends(c)

\* signal_disconnect(), once get_message() fails.  What the server has sent
\* may still be read before that, or be lost.
NoticeLoss(c) ==
    /\ client[c] = "up"
    /\ server = "crashed"
    /\ client' = [client EXCEPT ![c] = "lost"]
    /\ down' = [down EXCEPT ![c] = << >>]
    /\ UNCHANGED << serverVars, threadVars, backlog, up, local, modified, cursor,
                    pending, loop, presses, historyVars >>

\* handle_disconnect(): the user chooses to continue on the local text (the
\* other choices are Quit).
ContinueLocally(c) ==
    /\ client[c] = "lost"
    /\ pending[c] = << >>
    /\ client' = [client EXCEPT ![c] = "local"]
    /\ UNCHANGED << serverVars, threadVars, netVars, local, modified, cursor,
                    pending, loop, presses, historyVars >>

UserStep(c) ==
    \/ PressChar(c) \/ PressTab(c) \/ PressEnter(c) \/ PressBackspace(c)
    \/ PressDelete(c) \/ PressCommand(c) \/ PressSync(c) \/ MoveCursor(c)
    \/ Connect(c) \/ Quit(c) \/ ContinueLocally(c)

ClientStep(c) == \/ KeyboardStep(c) \/ HandlerStep(c) \/ LoopStep(c)
                 \/ ClientCrash(c) \/ NoticeLoss(c)

Next == \/ AcceptorStep
        \/ \E c \in Client : ServerStep(c) \/ ClientStep(c) \/ UserStep(c)

Spec == Init /\ [][Next]_vars

(***************************************************************************)
(* Threads that can run do run; what a user does, and when undefined       *)
(* behaviour strikes, is left open.                                        *)
(***************************************************************************)
Fairness == /\ WF_vars(AcceptorStep)
            /\ \A c \in Client : /\ WF_vars(ServerStep(c))
                                 /\ WF_vars(KeyboardStep(c))
                                 /\ WF_vars(HandlerStep(c))
                                 /\ WF_vars(LoopStep(c))
                                 /\ WF_vars(NoticeLoss(c))

FairSpec == Spec /\ Fairness
-----------------------------------------------------------------------------
Labels == {"none", "recv", "reply", "clock", "forward", "list", "listForText",
           "serialize", "broadcast", "close", "autosave", "dead"}

ServerTypes ==
    /\ server \in {"up", "crashed"}
    /\ text \in Doc
    /\ disk \in [File -> Doc]
    /\ clients \in Seq(Client)
    /\ alive \in [Client -> BOOLEAN]
    /\ clock \in Client \cup {NoClient}
    /\ accepted \in Client \cup {NoClient}
    /\ notify \in Seq(Client \cup {NoClient})

ThreadTypes ==
    /\ pc \in [Client -> Labels]
    /\ msg \in [Client -> ToClient]
    /\ todo \in [Client -> Seq(Client \cup {NoClient})]

NetTypes ==
    /\ backlog \in Seq(Client)
    /\ up \in [Client -> Seq(ToServer)]
    /\ down \in [Client -> Seq(ToClient)]

ClientTypes ==
    /\ client \in [Client -> {"new", "up", "lost", "local", "gone"}]
    /\ local \in [Client -> Doc]
    /\ modified \in [Client -> BOOLEAN]
    /\ cursor \in [Client -> Position]
    /\ pending \in [Client -> Seq(ToServer)]
    /\ loop \in [Client -> {"sleep", "cleared"}]
    /\ presses \in [Client -> 0 .. MaxKeys]

HistoryTypes ==
    /\ issued \in [Client -> Nat]
    /\ applied \in [Client -> Nat]
    /\ sent \in [Client -> [Client -> Nat]]
    /\ got \in [Client -> [Client -> Nat]]

\* Every variable has its type; lines never contain Enter.
TypeOK == ServerTypes /\ ThreadTypes /\ NetTypes /\ ClientTypes /\ HistoryTypes

\* The edits of each client are applied by the server in the order in which
\* they were made, without a gap and without repetition, and handled like that
\* by each other client, whatever the threads of the server do in between.
NextInLine(p, count) == IsEdit(p) => p.n = count[p.from] + 1

InOrder ==
    [][\A c \in Client : /\ ApplyEdit(c) => NextInLine(Head(up[c]), applied)
                         /\ RemoteEdit(c) => NextInLine(Head(down[c]), got[c])]_vars

\* The server applies only what a client sent, and what it forwards reaches
\* only clients in its list, after it was applied, and never the client that
\* the edit came from.
Promise == INSTANCE Relay WITH member <- ToSet(clients)
ImplementsRelay == Promise!Spec

\* Nothing is under way and nobody is in the middle of anything.
Quiet == /\ server = "up"
         /\ backlog = << >> /\ accepted = NoClient
         /\ \A c \in Client : /\ up[c] = << >> /\ down[c] = << >>
                              /\ pending[c] = << >>
                              /\ pc[c] \in {"none", "recv", "dead"}

\* When everything sent has arrived, all texts are the same, without any
\* synchronisation: where the edits are such that their order does not matter.
ReplicasAgree ==
    Quiet => \A c \in Client : client[c] = "up" => local[c] = text

\* A text that replaces the local one, because nothing was modified since it
\* was asked for, contains every edit that this client has sent.
OverwriteKeepsEdits ==
    [][\A c \in Client : Overwrite(c) => Head(down[c]).has[c] = issued[c]]_vars

\* The same for the last text a client waits for, when its periodic thread is
\* not about to ask again: a text that misses an edit is followed by another
\* one, as long as the server lives to send it.
LastOverwriteKeepsEdits ==
    [][\A c \in Client :
          Overwrite(c) /\ server = "up" /\ Waiting(c) = 1 /\ loop[c] = "sleep"
             => Head(down[c]).has[c] = issued[c]]_vars

\* The server only removes characters that exist.
NeverErasesEnd == server = "up"

\* Once the last thread of the server has ended, the autosave file holds the
\* text with all edits, whatever the order in which the clients left.
AutosaveHoldsText ==
    (clients # << >> /\ \A i \in DOMAIN clients : pc[clients[i]] = "dead")
        => disk[Autosave] = text

\* When the users stop typing, the periodic synchronisation brings every
\* connected client to the text of the server.
Converges ==
    <>[](\A c \in Client : client[c] = "up" => server = "up" /\ local[c] = text)

\* And every edit that a connected client has sent has then reached every
\* other connected client, as long as the server lives.
EditsArrive ==
    <>[](server = "up" =>
            \A a, b \in { c \in ToSet(clients) : client[c] = "up" } :
                a # b => got[b][a] = issued[a])
=============================================================================
