------------------------------ MODULE Framing ------------------------------
(***************************************************************************)
(* Messages on one direction of a connection: send_message() puts a        *)
(* header, the payload and a footer into the byte stream with separate     *)
(* calls of send(), and get_message() peeks at what has arrived, looks for *)
(* the footer and removes the bytes of the message.                        *)
(*                                                                         *)
(* TCP delivers the bytes in order, any number at a time: Arrive lets one  *)
(* more byte in, and the receiver may look after each.  The constants of   *)
(* the code are scaled down; what matters is kept: header and footer have  *)
(* the same length, begin and end with 0, and a peek may see several short *)
(* messages or only a part of a long one.                                  *)
(***************************************************************************)
EXTENDS Integers, SequencesExt

CONSTANTS HEADER_LENGTH, \* of the header and of the footer (10)
          MTU,           \* the most bytes a recv() or send() is asked for (1280)
          Payload,       \* the payloads that are sent
          MaxMessages,   \* bound: messages on the connection
          MaxCuts        \* bound: headers and footers that are not sent whole

Byte == 0 .. 255

ASSUME HeaderAssumption == HEADER_LENGTH \in Nat /\ HEADER_LENGTH >= 3
ASSUME MTUAssumption    == MTU \in Nat /\ MTU >= HEADER_LENGTH

Marked(byte) == [i \in 1 .. HEADER_LENGTH |->
                    IF i \in {1, HEADER_LENGTH} THEN 0 ELSE byte]
MESSAGE_HEADER == Marked(1)
MESSAGE_FOOTER == Marked(4)

Frame(payload) == MESSAGE_HEADER \o payload \o MESSAGE_FOOTER

\* A payload begins with its type, a short below 256 in network order, so with
\* the byte 0.  What the protocol rests on is that the footer of a message is
\* the first one behind its header: no payload holds a footer, nor ends with a
\* part that the first bytes of the footer make one.
ASSUME PayloadAssumption ==
    \A p \in Payload :
        /\ p \in Seq(Byte) /\ Len(p) > 1 /\ p[1] = 0
        /\ \A i \in 1 .. Len(p) :
              SubSeq(p \o MESSAGE_FOOTER, i, i + HEADER_LENGTH - 1) # MESSAGE_FOOTER

ASSUME MessagesAssumption == MaxMessages \in Nat

VARIABLES
    outbox,     \* payloads not sent completely, the first is under way
    part,       \* the call of send() that comes next
    left,       \* bytes of the payload that are still to be sent
    stream,     \* every byte put into the connection so far
    line,       \* state of the connection: open, closed, reset
    arrived,    \* bytes that have reached the receiver's socket
    taken,      \* bytes removed from it
    retbuf,     \* what the running get_message() has collected
    status,     \* how get_message() ended, reading as long as it has not
    results,    \* history: the payloads returned
    starts,     \* history: where in the stream each message begins
    cut,        \* history: messages whose header or footer is incomplete
    lone        \* history: the first peek of this call saw a header's length

sender   == << outbox, part, left, stream, starts, cut >>
receiver == << taken, retbuf, status, results, lone >>
vars     == << sender, line, arrived, receiver >>

Init == /\ outbox \in [1 .. MaxMessages -> Payload]
        /\ part = "header" /\ left = << >> /\ stream = << >>
        /\ line = "open" /\ arrived = 0
        /\ taken = 0 /\ retbuf = << >> /\ status = "reading"
        /\ results = << >> /\ starts = << >> /\ cut = {} /\ lone = FALSE

(***************************************************************************)
(* send_message(), under sendlock, so that messages never mix.  The results*)
(* of sending header and footer are ignored: interrupted by a signal, such *)
(* a call sends nothing or only the beginning.  The payload is sent until  *)
(* nothing is left, however much each call accepts.                        *)
(***************************************************************************)
\* What a single send() of the bytes b puts into the stream.
Ignoring(b) == { SubSeq(b, 1, n) : n \in
                    IF Cardinality(cut) < MaxCuts THEN 0 .. Len(b) ELSE { Len(b) } }

MessageNumber == Len(starts)

SendHeader ==
    /\ line = "open" /\ status = "reading" /\ part = "header" /\ outbox # << >>
    /\ \E b \in Ignoring(MESSAGE_HEADER) :
          /\ stream' = stream \o b
          /\ cut' = IF b = MESSAGE_HEADER THEN cut ELSE cut \cup { MessageNumber + 1 }
    /\ starts' = Append(starts, Len(stream))
    /\ left' = Head(outbox)
    /\ part' = "body"
    /\ UNCHANGED << outbox, line, arrived, receiver >>

SendBody ==
    /\ line = "open" /\ status = "reading" /\ part = "body"
    /\ \E n \in 1 .. Min({MTU, Len(left)}) :
          /\ stream' = stream \o SubSeq(left, 1, n)
          /\ left' = SubSeq(left, n + 1, Len(left))
    /\ part' = IF left' = << >> THEN "footer" ELSE "body"
    /\ UNCHANGED << outbox, starts, cut, line, arrived, receiver >>

SendFooter ==
    /\ line = "open" /\ status = "reading" /\ part = "footer"
    /\ \E b \in Ignoring(MESSAGE_FOOTER) :
          /\ stream' = stream \o b
          /\ cut' = IF b = MESSAGE_FOOTER THEN cut ELSE cut \cup { MessageNumber }
    /\ outbox' = Tail(outbox)
    /\ part' = "header"
    /\ UNCHANGED << left, starts, line, arrived, receiver >>

(***************************************************************************)
(* The network.  A process that exits closes its sockets; when it leaves   *)
(* bytes unread, the connection is reset and what is under way is lost.    *)
(***************************************************************************)
Arrive == /\ arrived < Len(stream)
          /\ line # "reset" /\ status = "reading"
          /\ arrived' = arrived + 1
          /\ UNCHANGED << sender, line, receiver >>

Close == /\ line = "open" /\ status = "reading"
         /\ line' \in { "closed", "reset" }
         /\ UNCHANGED << sender, arrived, receiver >>

(***************************************************************************)
(* footer_exists(): one pass over the buffer that counts how many bytes of *)
(* the footer have just been seen, and stops behind the last one.          *)
(***************************************************************************)
\* Mutant: the byte that breaks a chain is not looked at again.
Chain_NoRestart ==
    [same \in 0 .. HEADER_LENGTH |-> [byte \in Byte |->
        IF same = HEADER_LENGTH THEN same
        ELSE IF byte = MESSAGE_FOOTER[same + 1] THEN same + 1 ELSE 0]]

Chain ==
    [same \in 0 .. HEADER_LENGTH |-> [byte \in Byte |->
        IF same = HEADER_LENGTH THEN same
        ELSE IF byte = MESSAGE_FOOTER[same + 1] THEN same + 1
        ELSE IF byte = MESSAGE_FOOTER[1] THEN 1 ELSE 0]]

FooterScan(buf) ==
    LET same[i \in 0 .. Len(buf)] == IF i = 0 THEN 0 ELSE Chain[same[i - 1]][buf[i]]
    IN  same

FooterExists(buf) == FooterScan(buf)[Len(buf)] = HEADER_LENGTH
FooterEnd(buf)    == LET scan == FooterScan(buf)
                     IN  Cardinality({ i \in 0 .. Len(buf) : scan[i] # HEADER_LENGTH })

(***************************************************************************)
(* strncmp() ends at a byte 0, and header and message both begin with one. *)
(***************************************************************************)
DiffersAsString(s, t, n) ==
    \E k \in 1 .. n : s[k] # t[k] /\ \A j \in 1 .. k - 1 : s[j] = t[j] /\ s[j] # 0

(***************************************************************************)
(* get_message().  Between two steps of the loop the peeked bytes stay in  *)
(* the socket.  With fewer than HEADER_LENGTH bytes there it sleeps and    *)
(* peeks again, which changes nothing.                                     *)
(***************************************************************************)
Peeked == SubSeq(stream, taken + 1, IF arrived - taken < MTU THEN arrived ELSE taken + MTU)

SearchedFrom(total) == Max({total - HEADER_LENGTH, 0})

\* Mutant: one byte of the window is forgotten.
SearchedLength_Short(total, got) ==
    got + (IF total > HEADER_LENGTH THEN HEADER_LENGTH - 1 ELSE 0)

SearchedLength(total, got) ==
    got + (IF total > HEADER_LENGTH THEN HEADER_LENGTH ELSE 0)

Searched(buf, total) ==
    LET off == SearchedFrom(total)
    IN  SubSeq(buf, off + 1, off + SearchedLength(total, Len(buf) - total))

\* How many bytes are removed from the socket once the footer is found.
\* Mutant: the part of the window that was read before is not subtracted.
ActuallyRead_WholeWindow(footerEnd, total) == footerEnd

ActuallyRead(footerEnd, total) ==
    footerEnd - (IF SearchedFrom(total) < total THEN HEADER_LENGTH ELSE 0)

\* Mutant: whatever was peeked is removed.
Consume_All(n) == taken' = taken + Len(Peeked)

Consume(n) == taken' = taken + n

Receive ==
    /\ status = "reading"
    /\ Len(Peeked) >= HEADER_LENGTH
    /\ retbuf = << >> => ~ DiffersAsString(MESSAGE_HEADER, Peeked, HEADER_LENGTH)
    /\ \E buf \in { retbuf \o Peeked } :
       \E window \in { Searched(buf, Len(retbuf)) } :
          IF FooterExists(window)
          THEN \E n \in { ActuallyRead(FooterEnd(window), Len(retbuf)) } :
                  /\ results' = Append(results,
                        SubSeq(buf, HEADER_LENGTH + 1, Len(retbuf) + n - HEADER_LENGTH))
                  /\ Consume(n)
                  /\ retbuf' = << >>
                  /\ lone' = FALSE
          ELSE /\ retbuf' = buf
               /\ Consume(Len(Peeked))
               /\ lone' = (lone \/ Len(buf) = HEADER_LENGTH)
               /\ UNCHANGED results
    /\ UNCHANGED << sender, line, arrived, status >>

RejectHeader ==
    /\ status = "reading"
    /\ retbuf = << >>
    /\ Len(Peeked) >= HEADER_LENGTH
    /\ DiffersAsString(MESSAGE_HEADER, Peeked, HEADER_LENGTH)
    /\ status' = "bad"
    /\ UNCHANGED << sender, line, arrived, taken, retbuf, results, lone >>

\* recv() returns 0 or -1 when the connection has ended and nothing is left.
EndOfStream ==
    /\ status = "reading"
    /\ taken = arrived
    /\ \/ line = "closed" /\ arrived = Len(stream) /\ status' = "closed"
       \/ line = "reset" /\ status' = "error"
    /\ UNCHANGED << sender, line, arrived, taken, retbuf, results, lone >>

\* Another thread has set SHUTDOWN_NETWORK, and recv() has returned.
Shutdown ==
    /\ status = "reading"
    /\ status' = "shutdown"
    /\ UNCHANGED << sender, line, arrived, taken, retbuf, results, lone >>

Send == SendHeader \/ SendBody \/ SendFooter
GetMessage == Receive \/ RejectHeader \/ EndOfStream

Next == Send \/ Arrive \/ Close \/ GetMessage \/ Shutdown

Spec == Init /\ [][Next]_vars
-----------------------------------------------------------------------------
TypeOK == /\ outbox \in Seq(Payload) /\ part \in { "header", "body", "footer" }
          /\ line \in { "open", "closed", "reset" }
          /\ 0 <= taken /\ taken <= arrived /\ arrived <= Len(stream)
          /\ status \in { "reading", "bad", "closed", "error", "shutdown" }
          /\ cut \subseteq 1 .. Len(starts)

\* Where a message begins or has just been completed.
Boundaries == { starts[k] : k \in DOMAIN starts } \cup
              (IF part = "header" THEN { Len(stream) } ELSE {})

\* Whenever get_message() has returned, the next header lies right there to
\* read, as networking.cpp:209 and 232 promise; a connection that has lost a
\* header or a footer finds back to a boundary with the next footer.  Only a
\* footer without its last byte is completed by the header behind it.
NextHeaderLeft ==
    retbuf = << >> => \/ taken \in Boundaries
                      \/ taken - 1 \in Boundaries /\ cut # {}

\* Bytes of the messages that have been returned.
Returned == taken - Len(retbuf)

\* As long as header and footer of every message are sent, what is returned
\* and collected is exactly what was sent, each byte once and in order.
NothingLostOrDoubled ==
    [][cut = {} => /\ retbuf' = SubSeq(stream, Returned' + 1, taken')
                   /\ results' # results =>
                        Frame(Last(results')) = SubSeq(stream, Returned + 1, taken')]_vars

\* Two messages come out as one only when the first peek of the call saw
\* nothing but a header; the footer is missed in no other way, wherever the
\* reads divide the bytes.
OneMessageEach ==
    [][results' # results /\ cut = {} /\ ~ lone => Last(results') \in Payload]_vars

\* Nothing is under way any more and get_message() sleeps or waits in recv().
Waiting == /\ status = "reading" /\ line = "open" /\ part = "header"
           /\ arrived = Len(stream)
           /\ arrived - taken < HEADER_LENGTH

\* While everybody waits, only the last message may not have been returned
\* yet, and only because a peek saw a lone header or because too few bytes are
\* left to be looked at; when both come together, the last two are held back.
HoldsBackTheLast ==
    Waiting /\ cut = {} /\ Returned # Len(stream) =>
        /\ lone \/ arrived # taken
        /\ \/ Returned = Last(starts)
           \/ lone /\ arrived # taken /\ Returned = starts[Len(starts) - 1]
=============================================================================
