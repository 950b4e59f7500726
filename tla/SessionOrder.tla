----------------------------- MODULE SessionOrder -----------------------------
(***************************************************************************)
(* Why the edits of each client stay in order: an inductive invariant of   *)
(* Session.  The edits of a client form a stream of consecutive numbers    *)
(* through its connection to the server, and another one through every     *)
(* connection from the server; the end of one and the beginning of the     *)
(* other meet in the thread of that client.                                *)
(***************************************************************************)
EXTENDS Session

EditOf(p, a) == IsEdit(p) /\ p.from = a

\* The edits of a in the queue s have the numbers low + 1, low + 2, and so on.
Gapless(s, a, low) ==
    \A i \in DOMAIN s : EditOf(s[i], a) =>
        /\ s[i].n > low
        /\ \A j \in 1 .. i - 1 : EditOf(s[j], a) => s[j].n < s[i].n
        /\ \A k \in low + 1 .. s[i].n - 1 :
              \E j \in 1 .. i - 1 : EditOf(s[j], a) /\ s[j].n = k

\* The last of them has the number high.
UpTo(s, a, low, high) ==
    /\ low <= high
    /\ \A i \in DOMAIN s : EditOf(s[i], a) => s[i].n <= high
    /\ low < high => \E i \in DOMAIN s : EditOf(s[i], a) /\ s[i].n = high

Member == ToSet(clients)

Distinct(s) == \A i, j \in DOMAIN s : i # j => s[i] # s[j]

\* To the server: what has been sent but not applied.  (Of a client that has
\* quit, a beginning of that.)
UpStream(c) ==
    /\ \A i \in DOMAIN up[c] : IsEdit(up[c][i]) => up[c][i].from = c
    /\ \A i \in DOMAIN up[c] : IsEdit(up[c][i]) => up[c][i].n <= issued[c]
    /\ Gapless(up[c], c, applied[c])
    /\ applied[c] <= issued[c]
    /\ client[c] \in {"new", "up"} => UpTo(up[c], c, applied[c], issued[c])
    /\ client[c] = "new" => up[c] = << >>

UpStreams == server = "up" => \A c \in Client : UpStream(c)

OwnEdits == \A c \in Client : \A i \in DOMAIN pending[c] :
               IsEdit(pending[c][i]) => pending[c][i].from = c

\* From the server: what has been forwarded but not handled.
DownStream(b, a) ==
    /\ Gapless(down[b], a, got[b][a])
    /\ client[b] = "up" => UpTo(down[b], a, got[b][a], sent[b][a])
    /\ client[b] = "new" => got[b][a] = sent[b][a]

ForwardedEdits(b) ==
    \A i \in DOMAIN down[b] : IsEdit(down[b][i]) =>
        /\ b \in Member
        /\ down[b][i].from # b
        /\ down[b][i].n <= applied[down[b][i].from]

DownStreams == \A b \in Client : /\ ForwardedEdits(b)
                                 /\ \A a \in Client : DownStream(b, a)

\* Where they meet: an edit of a that has been applied has been forwarded to b,
\* or the thread of a is about to do so.
Owes(a, b) == pc[a] = "clock" \/ (pc[a] = "forward" /\ b \in ToSet(todo[a]))

Caught(b, a) == sent[b][a] = IF Owes(a, b) THEN applied[a] - 1 ELSE applied[a]

Links == \A b \in Member : \A a \in Client \ {b} :
            client[b] = "up" => Caught(b, a)

\* A thread that forwards holds the lock, works on the last edit applied, and
\* visits each client in the list at most once.
Forwarding == \A a \in Client :
    /\ pc[a] \in {"clock", "forward"} => msg[a].from = a /\ msg[a].n = applied[a]
    /\ pc[a] = "forward" => /\ clock = a
                            /\ Distinct(todo[a])
                            /\ ToSet(todo[a]) \subseteq Member

\* What is sent otherwise is no edit.
Answering == \A c \in Client :
    pc[c] \in {"reply", "list", "listForText", "serialize", "broadcast"}
        => ~ IsEdit(msg[c])

\* A client passes through the backlog and the accepting thread into the list.
Arrivals == /\ Distinct(clients)
            /\ Distinct(backlog)
            /\ ToSet(backlog) \cap (Member \cup {accepted}) = {}
            /\ accepted \notin Member
            /\ \A c \in Client : c \notin Member => pc[c] = "none"
            /\ \A c \in Client : client[c] = "new" =>
                  c \notin Member \cup ToSet(backlog) \cup {accepted}

\* Only the thread of a client that has gone takes it for dead.
GoodBye(c) == \/ pc[c] \in {"close", "autosave", "dead"}
              \/ pc[c] \in {"list", "broadcast"} /\ msg[c].type = "Disconnect"

Departures == /\ \A c \in Client : GoodBye(c) => client[c] = "gone"
              /\ \A c \in Member : client[c] = "up" => alive[c]

OrderInv == /\ UpStreams /\ OwnEdits /\ DownStreams /\ Links /\ Forwarding
            /\ Answering /\ Arrivals /\ Departures
=============================================================================
