----------------------------- MODULE Connections -----------------------------
(***************************************************************************)
(* Who waits for whom: the locks of the server and of its clients, and     *)
(* connections that hold only so many packets.  A send() on a full         *)
(* connection blocks, and send_message() blocks with the process-wide      *)
(* sendlock held (networking.cpp:254), in the server under clock, too      *)
(* (server.cpp:133), in a client under mlock (editor.cpp:980).             *)
(*                                                                         *)
(* Session says what the packets do to the texts and has connections       *)
(* without limit; here a packet is its kind, every client is connected from*)
(* the start, and a message is sent or blocks as a whole.                  *)
(***************************************************************************)
EXTENDS Naturals, SequencesExt

CONSTANTS Client,
          Nobody,       \* holds a lock that is free
          Room,         \* packets that one direction of a connection holds
          Keystroke,    \* the packets that the handler of a key may send
          MaxKeys,      \* bound: keys of each user
          MaxAsks,      \* bound: requests of the periodic threads
          MaxDeaths     \* bound: clients that end

Kind == { "edit", "move", "ask", "save", "load" }

ASSUME ConnectionsAssumption ==
    /\ Nobody \notin Client
    /\ IsFiniteSet(Client)
    /\ Room \in Nat \ {0} /\ Keystroke \subseteq Seq(Kind)
    /\ MaxKeys \in Nat /\ MaxAsks \in Nat /\ MaxDeaths \in Nat

VARIABLES
    \* the server
    st,        \* where the thread of each client is
    todo,      \* the packets it is sending, each with its receiver
    leaving,   \* threads that have left the loop of thread_routine()
    alive,     \* clients[...].alive
    clock,     \* the thread that holds it, or Nobody
    sendlock,  \* the same
    \* the connections
    up,        \* packets to the server, by kind
    down,      \* packets to the client: is it a forced text?
    dead,      \* clients whose process has ended
    \* each client
    mlock,     \* who holds it: free, key or handler
    pending,   \* what the holder of mlock has still to send
    csend,     \* who holds the client's sendlock: free, holder (of mlock), periodic
    handler,   \* handleMessages() is reading or has got a packet
    held,      \* that packet, until it is handled
    keys,      \* how often its user has pressed a key
    asks       \* how many requests the periodic threads have sent

server == << st, todo, leaving, alive, clock, sendlock >>
local  == << mlock, pending, csend, handler, held, keys, asks >>
vars   == << server, up, down, dead, local >>

Init == /\ st = [c \in Client |-> "recv"] /\ todo = [c \in Client |-> << >>]
        /\ leaving = {} /\ alive = Client
        /\ clock = Nobody /\ sendlock = Nobody
        /\ up = [c \in Client |-> << >>] /\ down = [c \in Client |-> << >>]
        /\ dead = {}
        /\ mlock = [c \in Client |-> "free"] /\ pending = [c \in Client |-> << >>]
        /\ csend = [c \in Client |-> "free"]
        /\ handler = [c \in Client |-> "reading"] /\ held = [c \in Client |-> FALSE]
        /\ keys = [c \in Client |-> 0] /\ asks = 0

(***************************************************************************)
(* The thread of client c in the server (thread_routine).                  *)
(***************************************************************************)
To(receivers, force) == [i \in DOMAIN receivers |-> [to |-> receivers[i], force |-> force]]

\* get_socket_list(), in whatever order the clients have connected.  That of a
\* load's text is taken with that of its confirmation: they differ at most in
\* clients that have ended, which no packet reaches any more.
SocketList == SetToSeq(alive)

Answers(c, kind) ==
    CASE kind = "ask"  -> To(<< c >>, FALSE)
      [] kind = "save" -> To(SocketList, FALSE)
      [] kind = "load" -> To(SocketList, FALSE) \o To(SocketList, TRUE)
      [] OTHER         -> << >>

Receive(c) ==
    /\ st[c] = "recv" /\ up[c] # << >>
    /\ up' = [up EXCEPT ![c] = Tail(@)]
    /\ st' = [st EXCEPT ![c] = IF Head(up[c]) = "edit" THEN "clock" ELSE "send"]
    /\ todo' = [todo EXCEPT ![c] = Answers(c, Head(up[c]))]
    /\ UNCHANGED << leaving, alive, clock, sendlock, down, dead, local >>

\* forward_message()
TakeClock(c) ==
    /\ st[c] = "clock" /\ clock = Nobody
    /\ clock' = c
    /\ todo' = [todo EXCEPT ![c] = To(SetToSeq(alive \ {c}), FALSE)]
    /\ st' = [st EXCEPT ![c] = "send"]
    /\ UNCHANGED << leaving, alive, sendlock, up, down, dead, local >>

\* send_message(), from taking sendlock to giving it back.
TakeSendlock(c) ==
    /\ st[c] = "send" /\ todo[c] # << >> /\ sendlock = Nobody
    /\ sendlock' = c
    /\ st' = [st EXCEPT ![c] = "sending"]
    /\ UNCHANGED << todo, leaving, alive, clock, up, down, dead, local >>

HasRoom(queue) == Len(queue) < Room

\* Mutant: send() accepts more than the connection holds.
Delivered_NoWait(packet) ==
    \/ packet.to \in dead /\ UNCHANGED down
    \/ packet.to \notin dead /\ down' = [down EXCEPT ![packet.to] = Append(@, packet.force)]

\* Mutant: a packet for which there is no room is dropped.
Delivered_Drops(packet) ==
    \/ (packet.to \in dead \/ ~ HasRoom(down[packet.to])) /\ UNCHANGED down
    \/ /\ packet.to \notin dead /\ HasRoom(down[packet.to])
       /\ down' = [down EXCEPT ![packet.to] = Append(@, packet.force)]

\* Mutant: a send() to a process that has ended goes on waiting.
Delivered_NeverFails(packet) ==
    /\ HasRoom(down[packet.to])
    /\ down' = [down EXCEPT ![packet.to] = Append(@, packet.force)]

\* A send() to a process that has ended fails, SIGPIPE being ignored.
Delivered(packet) ==
    \/ packet.to \in dead /\ UNCHANGED down
    \/ /\ packet.to \notin dead /\ HasRoom(down[packet.to])
       /\ down' = [down EXCEPT ![packet.to] = Append(@, packet.force)]

SendMessage(c) ==
    /\ st[c] = "sending"
    /\ Delivered(Head(todo[c]))
    /\ todo' = [todo EXCEPT ![c] = Tail(@)]
    /\ st' = [st EXCEPT ![c] = "send"]
    /\ sendlock' = Nobody
    /\ UNCHANGED << leaving, alive, clock, up, dead, local >>

\* Mutant: forward_message() returns with the lock held.
ReleaseClock_Forgotten(c) == clock

ReleaseClock(c) == IF clock = c THEN Nobody ELSE clock

Done(c) ==
    /\ st[c] = "send" /\ todo[c] = << >>
    /\ clock' = ReleaseClock(c)
    /\ st' = [st EXCEPT ![c] = IF c \in leaving THEN "ended" ELSE "recv"]
    /\ alive' = IF c \in leaving THEN alive \ {c} ELSE alive
    /\ UNCHANGED << todo, leaving, sendlock, up, down, dead, local >>

\* get_message() finds the end of the connection: broadcast_disconnect().
Leave(c) ==
    /\ st[c] = "recv" /\ up[c] = << >> /\ c \in dead
    /\ leaving' = leaving \cup {c}
    /\ todo' = [todo EXCEPT ![c] = To(SocketList, FALSE)]
    /\ st' = [st EXCEPT ![c] = "send"]
    /\ UNCHANGED << alive, clock, sendlock, up, down, dead, local >>

(***************************************************************************)
(* Client b.  The holder of mlock, the handler of a key or of a message,   *)
(* and the periodic thread send, each under the client's own sendlock.     *)
(***************************************************************************)
PressKey(b) ==
    /\ b \notin dead /\ mlock[b] = "free" /\ keys[b] < MaxKeys
    /\ keys' = [keys EXCEPT ![b] = @ + 1]
    /\ mlock' = [mlock EXCEPT ![b] = "key"]
    /\ \E packets \in Keystroke : pending' = [pending EXCEPT ![b] = packets]
    /\ UNCHANGED << server, up, down, dead, csend, handler, held, asks >>

StartSend(b) ==
    /\ b \notin dead /\ pending[b] # << >> /\ csend[b] = "free"
    /\ csend' = [csend EXCEPT ![b] = "holder"]
    /\ UNCHANGED << server, up, down, dead, mlock, pending, handler, held, keys, asks >>

SendPending(b) ==
    /\ b \notin dead /\ csend[b] = "holder" /\ HasRoom(up[b])
    /\ up' = [up EXCEPT ![b] = Append(@, Head(pending[b]))]
    /\ pending' = [pending EXCEPT ![b] = Tail(@)]
    /\ csend' = [csend EXCEPT ![b] = "free"]
    /\ UNCHANGED << server, down, dead, mlock, handler, held, keys, asks >>

Unlock(b) ==
    /\ b \notin dead /\ mlock[b] # "free" /\ pending[b] = << >>
    /\ mlock' = [mlock EXCEPT ![b] = "free"]
    /\ handler' = [handler EXCEPT ![b] = IF mlock[b] = "handler" THEN "reading" ELSE @]
    /\ UNCHANGED << server, up, down, dead, pending, csend, held, keys, asks >>

\* getFullLoop()
StartAsk(b) ==
    /\ b \notin dead /\ csend[b] = "free" /\ asks < MaxAsks
    /\ asks' = asks + 1
    /\ csend' = [csend EXCEPT ![b] = "periodic"]
    /\ UNCHANGED << server, up, down, dead, mlock, pending, handler, held, keys >>

SendAsk(b) ==
    /\ b \notin dead /\ csend[b] = "periodic" /\ HasRoom(up[b])
    /\ up' = [up EXCEPT ![b] = Append(@, "ask")]
    /\ csend' = [csend EXCEPT ![b] = "free"]
    /\ UNCHANGED << server, down, dead, mlock, pending, handler, held, keys, asks >>

\* handleMessages(): the packet is taken without mlock and handled under it.
GetMessage(b) ==
    /\ b \notin dead /\ handler[b] = "reading" /\ down[b] # << >>
    /\ handler' = [handler EXCEPT ![b] = "got"]
    /\ held' = [held EXCEPT ![b] = Head(down[b])]
    /\ down' = [down EXCEPT ![b] = Tail(@)]
    /\ UNCHANGED << server, up, dead, mlock, pending, csend, keys, asks >>

\* A forced text sends the cursor home, and move_cursor() tells the server.
HandleMessage(b) ==
    /\ b \notin dead /\ handler[b] = "got" /\ mlock[b] = "free"
    /\ mlock' = [mlock EXCEPT ![b] = "handler"]
    /\ pending' = [pending EXCEPT ![b] = IF held[b] THEN << "move" >> ELSE << >>]
    /\ held' = [held EXCEPT ![b] = FALSE]
    /\ UNCHANGED << server, up, down, dead, csend, handler, keys, asks >>

(***************************************************************************)
(* A client quits or is killed at any moment.  Its kernel closes the       *)
(* connection; what it has sent may be lost from some packet on.           *)
(***************************************************************************)
Die(b) ==
    /\ b \notin dead /\ Cardinality(dead) < MaxDeaths
    /\ dead' = dead \cup {b}
    /\ \E n \in 0 .. Len(up[b]) : up' = [up EXCEPT ![b] = SubSeq(@, 1, n)]
    /\ down' = [down EXCEPT ![b] = << >>]
    /\ mlock' = [mlock EXCEPT ![b] = "free"] /\ pending' = [pending EXCEPT ![b] = << >>]
    /\ csend' = [csend EXCEPT ![b] = "free"] /\ handler' = [handler EXCEPT ![b] = "reading"]
    /\ held' = [held EXCEPT ![b] = FALSE]
    /\ UNCHANGED << server, keys, asks >>

ServerThread(c) == Receive(c) \/ TakeClock(c) \/ TakeSendlock(c) \/ SendMessage(c)
                     \/ Done(c) \/ Leave(c)
LockHolder(b)   == StartSend(b) \/ SendPending(b) \/ Unlock(b)
Handler(b)      == GetMessage(b) \/ HandleMessage(b)

Work == \E c \in Client : ServerThread(c) \/ LockHolder(c) \/ SendAsk(c) \/ Handler(c)

Next == Work \/ \E c \in Client : PressKey(c) \/ StartAsk(c) \/ Die(c)

Spec == Init /\ [][Next]_vars

\* Every thread that can go on does so; nothing is assumed about users and the
\* clock of the periodic thread.
FairSpec == /\ Spec
            /\ \A c \in Client : /\ WF_vars(ServerThread(c)) /\ WF_vars(LockHolder(c))
                                 /\ WF_vars(SendAsk(c)) /\ WF_vars(Handler(c))
-----------------------------------------------------------------------------
TypeOK ==
    /\ st \in [Client -> { "recv", "clock", "send", "sending", "ended" }]
    /\ todo \in [Client -> Seq([to : Client, force : BOOLEAN])]
    /\ leaving \subseteq dead /\ alive \subseteq Client /\ dead \subseteq Client
    /\ clock \in Client \cup {Nobody} /\ sendlock \in Client \cup {Nobody}
    /\ up \in [Client -> Seq(Kind)] /\ down \in [Client -> Seq(BOOLEAN)]
    /\ \A b \in Client : Len(up[b]) <= Room /\ Len(down[b]) <= Room
    /\ mlock \in [Client -> { "free", "key", "handler" }]
    /\ pending \in [Client -> Seq(Kind)]
    /\ csend \in [Client -> { "free", "holder", "periodic" }]
    /\ handler \in [Client -> { "reading", "got" }] /\ held \in [Client -> BOOLEAN]
    /\ keys \in [Client -> Nat] /\ asks \in Nat

\* Some thread of the server or of a client can take its next step.
ServerCanGoOn(c) ==
    \/ st[c] = "recv" /\ (up[c] # << >> \/ c \in dead)
    \/ st[c] = "clock" /\ clock = Nobody
    \/ st[c] = "send" /\ (todo[c] = << >> \/ sendlock = Nobody)
    \/ st[c] = "sending" /\ LET b == Head(todo[c]).to IN b \in dead \/ HasRoom(down[b])

ClientCanGoOn(b) ==
    /\ b \notin dead
    /\ \/ mlock[b] # "free" /\ (pending[b] = << >> \/ csend[b] = "free")
       \/ csend[b] # "free" /\ HasRoom(up[b])
       \/ handler[b] = "reading" /\ down[b] # << >>
       \/ handler[b] = "got" /\ mlock[b] = "free"

CanGoOn == \E c \in Client : ServerCanGoOn(c) \/ ClientCanGoOn(c)

\* Every packet has arrived, and every thread waits for new work.
Quiet == \A c \in Client :
            /\ st[c] = IF c \in dead THEN "ended" ELSE "recv"
            /\ up[c] = << >> /\ down[c] = << >>
            /\ c \notin dead => /\ mlock[c] = "free" /\ csend[c] = "free"
                               /\ handler[c] = "reading"

\* Both directions of b's connection are full.  A thread of the server waits
\* for room with sendlock held; b makes none, because its message handler waits
\* for mlock (or holds it), whose holder itself waits for room; and the thread
\* that could make it waits for a lock, or is the one that is sending.
Jammed(b) ==
    /\ b \notin dead
    /\ sendlock # Nobody /\ Head(todo[sendlock]).to = b /\ ~ HasRoom(down[b])
    /\ handler[b] = "got" /\ pending[b] # << >>
    /\ csend[b] # "free" /\ ~ HasRoom(up[b])
    /\ st[b] \in { "clock", "send", "sending" }
    /\ st[b] = "send" => todo[b] # << >>

\* Threads compete for clock, for sendlock and for three locks in each client,
\* and block on connections while they hold them; still there is only one way
\* in which all stand still: some client is jammed.
StuckOnlyWhenJammed == CanGoOn \/ Quiet \/ \E b \in Client : Jammed(b)

\* A jam never resolves itself, whatever all the others do: only the end of the
\* jammed client ends it.
JamIsFinal ==
    [][\A b \in Client : Jammed(b) => Jammed(b)' \/ b \in dead']_vars

\* Every packet is delivered in the end, also those held up by a jam that ended
\* with its client - unless a client stays jammed for ever.
Settles == <>[]Quiet \/ <>[](\E b \in Client : Jammed(b))
=============================================================================
