# A verification project for NetworkedEditor

NetworkedEditor is a text editor for several users: one server process keeps
the text, every user runs a client with a copy of it, and keystrokes travel as
Insert and Remove messages over one TCP connection per client. This directory
holds TLA+ models of it, the TLC configurations that check them, and proofs
that TLAPS checks. The models are of the default build; `ChunkList` and
`LockfreeClient` are of a client built with `LOCKFREE=1`.

## Inventory

| part | state | operations | hard behaviour |
|---|---|---|---|
| text container (`blockingVector.cpp`, `textcontainer.cpp`) | `data`, a vector of lines | insert, remove, line_width, writeToFile, readFromFile, serialize, deserialize, all under `vectorLock` | index limits, `erase(end())`, the zero-line text, round trips through files and the wire |
| server threads (`server.cpp: thread_routine`) | `text`, `clients`, `clock`, one message per thread | apply and forward edits, save, load, answer, say goodbye, autosave | edits are applied and forwarded in two steps; lists of sockets are read without a lock; sends block under locks |
| accepting thread (`server.cpp: server_entrypoint`) | the vectors `clients` and `threads` | accept, announce, add, start a thread | edits between the announcement and the addition; reallocation under readers |
| client keyboard thread (`editor.cpp: client_entrypoint`) | local text, cursor, `modifiedTextSinceUpdate` | every key, under `mlock` | stale cursors, the flag |
| client message handler (`handleMessages`) | the same | texts, edits, confirmations | texts that replace newer edits; it sends while it is the one who reads |
| client synchronisation (`getFullLoop`) | the flag | clear it, ask for the text | no lock at all |
| framing (`networking.cpp: get_message, send_message`) | the unread bytes of a socket | cut messages out of a stream | windows and limits of the footer search |
| client view (`editor.cpp: move_win_rel`, counters) | `lineoffset`, `numlines`, `numdisplaylines`, window cursor | scrolling | counters that drift from the text |
| lock-free container (`lockfreelist.cpp`) | list of lines, each a list of buffers | as the text container | slots that are emptied and used again; never given back |
| life cycle (`main.cpp`) | `SERVER_PID`, the options | fork, SIGTERM at exit | the autosave may be cut short |
| display | curses | printing | none for the text |

The parts interact in three ways. Keyboard thread, handler and synchronisation
thread of a client share the local text, the flag and, the first two, `mlock`.
Client and server exchange messages over a FIFO connection, whose two ends
write under a process-wide `sendlock`. The threads of the server share the
text (each call atomic by `vectorLock`), the lock `clock`, and the vector of
clients.

What makes it correct, part by part:

- *container*: lines are a faithful split of a flat string; edits change one
  character of it; what is serialized or saved comes back. The lock-free one
  shows the same text as the server's.
- *server*: the edits of a client reach every other one exactly once and in
  order; nothing is executed out of bounds; the autosave is the last text.
- *client*: an edit of the user is not lost by a synchronisation, and when all
  have stopped typing, all show the server's text.
- *framing*: messages come out whole, once and in order.
- *view*: the cursor is in the text, and the counters count its lines.
- *locks*: no wait lasts for ever.

## Modules

| module | what it is |
|---|---|
| `BlockingVector` | pure operators: what each member function of the container computes |
| `TextBuffer` | a container and its files under any sequence of calls |
| `FlatText` | abstract specification of a container: a flat string |
| `ChunkList` | pure operators: the member functions of `LockFreeList` |
| `LockfreeClient` | a server's container and a client's chunk list under the same edits |
| `Session` | server process, its threads, connections, clients |
| `Relay` | abstract specification of a session: streams of numbered edits |
| `Framing` | one direction of a connection, byte by byte |
| `View` | the main window of a client: cursor, scroll offset, counters |
| `Connections` | locks of server and clients, connections that fill up |
| `MCTextBuffer`, `MCSession`, `MCFraming`, `MCView`, `MCConnections` | constants for TLC |
| `SessionOrder` | the invariant behind the order of edits |
| `SessionTexts` | the invariants behind the agreement of texts |
| `Induction` | lemmas: induction and recursion in a form the provers can use |
| `BlockingVectorProofs` | theorems on the member functions of the container |
| `TextBufferProofs` | theorems on the container, the chunk list, and the client that uses it |
| `SessionProofs` | theorems on the session |
| `SessionTextsProofs` | theorems on when its texts agree |
| `FramingProofs` | theorems on the framing |
| `ViewProofs`, `ConnectionsProofs` | theorems on the view and on the locks |

`TextBuffer`, `Session` and `ChunkList` extend `BlockingVector`;
`LockfreeClient` composes `TextBuffer` and `ChunkList`. `TextBuffer` is shown
to implement `FlatText`, also under the steps of `LockfreeClient`, and
`Session` to implement `Relay`. `Framing`, `View` and `Connections` each take
one thing apart that `Session` takes as given: that a connection is a queue of
whole messages, that a cursor is in the text, that a send never blocks.

### How Session corresponds to the code

A server thread is at a label `pc[c]`:

| label | where the code is |
|---|---|
| `recv` | in `get_message()` |
| `clock`, `forward` | in `forward_message()`, before and after taking `clock` |
| `list`, `listForText` | before `get_socket_list()`; the second is the one for the text after a load |
| `serialize` | at the start of `broadcast_full_content()` |
| `broadcast` | in the sending loop of a `broadcast_...()` function |
| `reply` | between building an answer and `send_message()` |
| `close`, `autosave`, `dead` | the lines after the loop of `thread_routine()` |

`todo[c]` is what the current loop has still to visit. A packet is sent to one
client per step, so that anything may happen between two sends. The list of
sockets is read in one step (see "Not modelled"); a client that is no longer
alive is represented in it by `NoClient`, which the loops skip.

A key of the user is a step `Press...` that takes `mlock`, sets the flag, moves
the cursor and leaves in `pending[c]` what the handler of the key has still to
do; `SendEdit` and `SendRequest` do it, one item at a time, each time changing
the local text first and sending after it. `mlock` is free exactly when
`pending[c]` is empty, and only then does the message handler take a packet
(`Handles`). `getFullLoop` takes no lock: `ClearFlag` and `AskForText` happen
at any time between the other steps.

Undefined behaviour is a choice. `remove()` at the end of a line erases
`end()`; the process may die (`CrashOnErase`, `ClientCrash`), or the call may
drop the last character of the line, as builds with another `memmove` do.
`line_width()` below the last line returns any of `GarbageWidths`.

A client that ends (`Quit`, `ClientCrash`) closes its socket. When it has
unread packets the connection is reset, and any suffix of what it sent may be
lost; the server reads what remains and then the end of the connection.

The variables `issued`, `applied`, `sent` and `got`, and the fields `from`, `n`
and `has` of packets, exist in no code. They number the edits of each client so
that properties can speak of them, and no guard depends on them. Each is the
number of the edit that came last; a client that joins counts as having what
was applied and is not still to be forwarded (`Missed`).

The window of `Session` is tall enough for the whole text: the row of the
cursor is a line of the text, and Enter moves to the next one without the cap at
the last row of the window (`View` has both).

Left out of `Session`: Move packets (the server ignores them; `Connections` has
them, where they take room), the window (in `View`), `:wl` (it changes nothing
but a file on the client's side; `LockfreeClient` says what it writes), the
reconnect dialogue beyond "quit" and "continue locally", and the end of the server by the owner's SIGTERM.

### How Framing corresponds to the code

`SendHeader`, `SendBody` and `SendFooter` are the calls of `send()` in
`send_message()`. The payload is sent in a loop until nothing is left; the
results for header and footer are ignored, so that an interrupted call leaves
less than the whole of them (at most `MaxCuts` times). `Arrive` lets one more
byte reach the receiver, so that every division of the stream into reads
occurs. `Receive` is one round of the loop of `get_message()`: what was peeked
is `Peeked`, the part of the buffer that is searched for a footer `Searched`,
and `FooterScan` is the single pass of `footer_exists()`. The comparison of the
header is that of strings (`DiffersAsString`), as the code uses `strncmp()`.

The constants of the code are scaled down in the run; the theorems are for all
values with `HEADER_LENGTH >= 3` and `MTU >= HEADER_LENGTH`. `PayloadAssumption`
is what the protocol itself rests on, since nothing in a frame says how long it
is: the first footer behind a header is the one of the message. With the bytes
of the code (0, eight times 4, 0) an edit would need a line number above 67
million to break it, a text a NUL, eight control-D and another NUL.

### How View corresponds to the code

A key, a packet and a change of the window's size are each one action, since
each handler runs under `mlock` (the signal handler of `SIGWINCH` runs at any
moment, and may in the code interrupt another handler; here it comes between
two). The width of the window stays the same. Of the text only the widths of the
lines are kept. `Scrolled` is the
part of `move_win_rel()` that decides between moving in the window and
scrolling it. The packets of other users carry any position: they were
computed from texts this client may not have had. `seen` is the height that the
main loop read before it waited for a key. `drift`, `resized` and `disturbed`
record only what the properties need to say when they hold.

### How ChunkList corresponds to the code

A line is a sequence of buffers of `BUFFERLEN` slots; a slot that holds
`UNUSEDINT` is empty. `insertIntoLine` takes the first slot with `index`
characters before it (`Places`), uses an empty slot there or to the left of it,
or splits the buffer. In spite of its name the list is used by a single
process, in the client, whose handlers exclude each other by `mlock`: the
member functions are operators. The server always has a `BlockingVector`.

### How Connections corresponds to the code

`st[c]` says where the server's thread is: `recv`, waiting for `clock` in
`forward_message()`, waiting for `sendlock` or about to go on (`send`), inside
`send_message()` with `sendlock` held (`sending`), or `ended`. `todo[c]` holds
the packets that the current function has still to send. In a client `mlock`
says whether a key or a message is being handled, `pending` what that handler
has still to send, and `csend` who is in `send_message()`. A send on a
connection that holds `Room` packets waits. A client may end at any moment, and
then sends to it fail. The accepting thread, which takes `clock` for a moment
and sends a notice to each client under `sendlock`, is left out: all clients are
connected from the start.

## Runs

| cfg | question | bounds |
|---|---|---|
| `TextBuffer` | the algebra of the container; does it implement a flat string; does a lock-free client show the same text | texts of up to 3 stored items + what loading brings, 2 letters, 1 file, 3 initial files; positions one beyond every limit; buffers of 2 slots, inserts into up to 3 buffers |
| `Framing` | do messages come out whole, once and in order | 3 messages of 2 payloads, headers of 4 bytes, reads of up to 10, 1 incomplete header or footer |
| `View` | do the counters count, is the cursor in the text | heights 1 to 3, width 2, texts that grow up to 4 lines and 4 characters, 1 refused break or join |
| `OneWriter` | do watchers follow a single author without synchronisation; is the author ever out of bounds | 3 clients, 3 keys of any kind from 9 cursor positions |
| `OwnLines` | do replicas agree when each user stays in a line of its own | 3 clients, 2 keys for each of two users, two lines |
| `Members` | are edits applied and relayed in order, once, to all others | 3 clients, 1 key each: alice's is a Tab, which makes two edits, bob's a Delete, an Enter or a count; carol joins, alice may leave |
| `ManualSync` | does the last text a user waits for hold all the user's edits; does the autosave hold the last text | 2 clients, 3 keys each: one types, deletes and presses Ctrl+S, the other deletes, which may kill the server; both may leave |
| `Converge` | do all texts become equal when typing stops; does every edit arrive | 2 clients with periodic threads, one request under way, 1 key each: one types in the second line, which the other takes away by a join, or loads or saves a file over |
| `Connections` | who can wait for ever | 2 clients, 1 packet per direction, 1 key each that sends up to three packets, 1 periodic request, 1 death |
| `PeriodicSync` | does a synchronisation keep local edits | expected to fail |
| `SameDelete` | does the server only erase what exists | expected to fail |
| `LocalSave` | is a local save of a lock-free client read back as its text | expected to fail |

Three clients are needed for a forwarding order to differ between receivers. An
order needs two edits of the same client: in `Members` they are the two
characters of a Tab, between which the server thread forwards, a client joins,
and an edit of somebody else passes. One or two keys each are enough for every
pair of operations to race, and a third adds an edit after a synchronisation. In
`Converge` the cursor of the user who types may be left below the last line,
where the width of the line is whatever lies behind the vector. `MaxKeys` is the number of keys per user and
`MaxRequests` the number of unanswered requests of a periodic thread (without
it the queue is unbounded: the thread sleeps five seconds and never waits for
an answer). `MaxSize` limits what is inserted into, not what loading brings.

In `Framing` a whole frame is of the length of one read or some bytes longer,
so that a read sees a message, a part of one, or one and the beginning of the
next; a payload ends in the first byte of a footer and one contains some of its
bytes. Three messages are the fewest of which two can be held back behind one.
In `View` every text can be scrolled in a window of one row, none in one of
three, and a line can be wider than the window. A buffer of two slots is the
smallest that can be split. In `Connections` a connection of one packet is the
smallest that can be full, and three packets from one key are enough to fill
it and wait; a jam is reached within twenty steps.

The deadlock check is switched off where the system really stops: a session in
which everybody has typed what the bound allows stands still, a process may
have died, a receiver has returned for good, a session may be jammed.

### What the runs found

- `PeriodicSync`: `getFullLoop` clears the flag between the line that sets it
  and the edit itself; the text it asked for replaces the edit on its author's
  screen. Ctrl+S, a character, Ctrl+S has the same effect: the second clears the
  flag, and the answer to the first was computed before the character arrived.
  In both cases a later answer brings it back: as long as only the keyboard
  asks, the last text waited for contains all edits (`ManualSync`). With the
  periodic thread the same holds if it clears the flag between two keys, as it
  would under `mlock` (`LastTextKeepsEdits`). If the server dies before it gives
  that answer, the text without the edit stays.
- `SameDelete`: two users delete the last character of a line at the same time;
  the second remove arrives at a line that is one shorter, passes the bound
  check, and erases `end()`.
- `Framing`: when the first read of a message sees its header and nothing
  else, the window searched next has the wrong length (`networking.cpp:195`
  compares with `>`); the footer is missed and two messages come out as one, or
  the message is held back until the next one. Nothing else has this effect
  (`OneMessageEach`). A rest of fewer than ten bytes is polled and not looked
  at, so that up to two messages wait for the next one (`HoldsBackTheLast`).
  `strncmp()` compares strings, and the first byte of header and payload is 0,
  so that the check of the header lets everything through that begins with 0;
  a connection that has lost a header goes on with it (`NextHeaderLeft`).
- `LocalSave`: `:wl` of a lock-free client writes a line break after every
  buffer, although `README.md:9` of the program says "save the file locally".
  A line that has outgrown its first buffer is read back as several.
  `SavedPerBuffer` says exactly when the file is right.
- `TextBuffer` with a lock-free client: a full content leaves an empty line at
  the end of the client's text that the server's does not have (`SameText`).
- `View`: the counters are off by exactly the breaks and joins that the text
  refused; a window that was resized may show fewer rows than there are lines;
  a join while the window is scrolled, or onto a line wider than the window,
  leaves the cursor outside the text. The properties state these as
  exceptions, and hold for everything else.
- `Connections`: a client whose both directions are full while a key is being
  handled waits for the server, and the server for the client. All other
  clients wait with them, since the thread that sends holds `sendlock`. It is
  the only way in which everything comes to a stand (`StuckOnlyWhenJammed`),
  and only the end of the client resolves it (`JamIsFinal`).

## Fairness

`FairSpec` of `Session` adds weak fairness for each thread of the system: the
accepting thread, each server thread, and of each client the rest of a key once
it is pressed, the handler, the synchronisation loop, and the discovery that
the server is gone. They are preemptively scheduled and block only for the
conditions that are guards. The lock `clock` needs no strong fairness in these
instances: the number of keys is bounded, so that competition ends. Nothing is
assumed about users (pressing, joining, quitting) or about when undefined
behaviour kills a process.

`FairSpec` of `Connections` is weakly fair to each server thread, to the holder
of each client's `mlock`, to a periodic request once it is being sent, and to
each message handler. Again competition ends with the bounded number of keys,
so that no lock has to be fair. Nothing is assumed about users, about the clock
of the periodic threads, or about processes that end.

## Proofs

`Induction` makes induction over data possible with first-order provers. The
induction theorems of the library take the predicate as an operator parameter;
`Induct` and `SeqInduct` take a set instead, and follow from the well-founded
induction over the naturals. A recursive function is recognized as `Fold(base,
step, s)`, where `step` is a function too, so that what `Serialize`, `SplitAt`,
`Without`, the scans of `Framing` and the loops of `ChunkList` compute for every
input has been proved.

`BlockingVectorProofs`: an insertion with any arguments takes a text to a text,
and so does each outcome of a removal. Lines put together with an end after
each are split at the ends into the same lines.

`TextBufferProofs`, from `EnterAssumption` and `DiskAssumption` (files begin as
sequences of characters): `TextIsLines` is the type invariant, for which a file
of any contents has to be loaded as lines; `WireIsExact`, that in every
reachable state a full content is read back as it was written, with the length
of `IntsIn` that goes beyond the end; `TypingStaysUndone`, that removing what
was just inserted restores the text; `EditsStayCommuting`, that two edits inside
different lines can be made in either order (`EditsByRow` shows that an edit
inside a line replaces that line by one of `Rows` and no other);
`LinesOnlyFromFiles`, that only loading leads to a text without lines or away
from it. `TextIsFlat` is the refinement of `FlatText`: a text is what lies above
a line, the line, and what lies below it (`AroundLine`), its flat form is put
together of the flat forms of these (`SerializedAround`), and so an edit of the
line puts one character into the flat text or takes one out (`InsertIsFlat`,
`RemoveIsFlat`).

Its second half is about the chunk list, from `BufferAssumption` (a buffer has
slots, and `UNUSEDINT` is no character), for buffers of any size. `CharsOf` a
layout is what is left of its slots without the empty ones, and a place cuts
them in two (`PlaceCutsChars`).
`InsertIntoLineIs`: wherever `insertIntoLine()` finds room, in an empty slot, in
one to the left, in a split or a new buffer, the characters of the line are the
old ones with one more at the index; the slot to the left needs the place to be
the first with `index` characters before it (`SlotBefore`). `FilledIs` and
`BrokenIs` carry that through the loops of an Enter and a join, `EmptiedIs` says
that the slots emptied by `remove()` hold one character. So each member function
does to the contents what `BlockingVector`'s does (`ListInsertIs`, `ListJoinIs`,
`ListRemoveIs`), and `DeserializedIs` follows by induction over what is read.
The invariant `TypeOK /\ ListTypeOK /\ SameText` of `LockfreeClient` is then
inductive: an edit of the lines that client and server share leaves the one
behind them alone (`InsertAbove`, `JoinAbove`, `RemoveAbove`). It gives
`LinesHaveBuffers`, `ClientShowsText` and `EditsAreTheSame`. `SavedPerBuffer`
says that what a local save writes is read back as the text shown if and only
if no line has a second buffer; it follows from `SavedIs`, which counts the
lines of a saved file. Last,
`ClientIsServed`, that the server's side is `TextBuffer`, whose theorems hold
there too.

`FramingProofs`, from the assumptions on `HEADER_LENGTH`, `MTU`, `Payload` and
`MaxMessages`: `TypesKept`, `HeaderIsNext`, `OnlyTheLastHeldBack`,
`BytesReturned` and `MessagesReturned`. `FooterFound` and `FooterMissing` say
that the one pass of `footer_exists()`, with its counter that goes back to 0 or
1, finds the first footer of any buffer. The invariant is `Types /\ Sent /\
Waits`. `Sent` speaks of the sender: messages lie in order in the stream, and a
footer in it ends where a message does (`FootersEndMessages`), except for one
that lost its last byte. `Waits` speaks of the receiver: what it has collected
begins where a message does, and holds no footer except one behind a peek that
saw a lone header, or one that the next window will see again. `WindowWith` and
`WindowWithout` say what the window of `get_message()` sees of the buffer. That
what is returned ends with the first footer behind a header is then enough for
all five.

`SessionProofs`, `TypeCorrect`: `Spec => []TypeOK` for every set of clients, any
initial text, any keys and bounds, from the assumption `SessionAssumption` on
the constants and `EnterAssumption`. `TypeOK` is not inductive alone: a thread
that forwards takes the number of the edit from its current message, so it
must be known to be an edit (`Working`); and what a client that joins has
missed is a number only because the edit that a thread is about to forward has
been counted, which is a part of `OrderInv` below. There is one lemma per
action, each with a step for each group of variables that the action changes,
the rest by `Frames`.

Its second part, `OrderCorrect`: `Spec => []Inv`, where `Inv` is `TypeInv` and
the `OrderInv` of `SessionOrder`. `InOrder` speaks of a step, and whether the
step is in order depends on what was queued before. `OrderInv` therefore
follows the edits of a client through all places they can be in: numbered from
`issued` back to `applied` in the queue to the server (`UpStream`), at most one
in the thread of the server between being applied and being forwarded, and in
the queue to each listed client from `sent` back to `got` (`DownStream`), each
stretch without gap or double. The delicate place is the thread: between the
two steps the edit is applied but not sent, and a client that is announced in
between has it or not according to the text it is given. A reset cuts off the
end of a queue, which leaves a shorter stretch without gap.

Three conclusions follow for every set of clients: `EditsInOrder` (the action
property `InOrder`), `RelayCorrect` (a step of `Session` that counts an edit is
a step of `Relay`, any other changes nothing there; `Relay` is about safety, and
says what may be applied and handled, and when, not that it ever is), and
`AutosaveCorrect` (a
thread that writes the file last has nobody left who could change the text).

Its last part is `LastTextKeepsEdits`: whoever types, asks, loads, joins, leaves
or dies, with periodic threads, the last text a client waits for holds all its
edits, if `getFullLoop` clears the flag between two keys and not while one is
handled. That hypothesis (`ClearsBetweenKeys`) is what taking `mlock` would
give; the code does not take it, and `PeriodicSync` shows the consequence. The
property speaks of the moment at which a text is taken over; `SyncInv` says what
must hold before. A client whose flag is clear has either sent no edit since its
last request (`AskedLast`), or all its requests are answered and the last
answer, in the thread of the server or in the queue, holds every edit
(`AnsweredLast`). A key that edits sets the flag, so that it may break both;
Ctrl+S clears it and sends the request before `mlock` is free again; the
periodic thread may let keys come in before it asks, which is why the property
excepts a client whose thread is about to ask (`loop[c] = "sleep"`).

`SessionTextsProofs`: agreement of the texts depends on who edits what and on
who asks for the text, so that these theorems have hypotheses, which
`SessionTexts` states. All of them leave out loading, and allow any number of
clients, any texts and bounds, saving, counting, leaving and dying. The
hypotheses on constants, `OneAuthor(a)` and `OwnLine(own)`, say whose keys edit.
Those on behaviours are conjuncts of the temporal formula on the left:

| theorem | constants | behaviour |
|---|---|---|
| `OneAuthorAgrees` | only `a` edits, with any keys from any place | `NobodyAsks`: nobody presses Ctrl+S or joins, and no periodic thread clears its flag |
| `OneAuthorNeverErasesEnd` | the same; `a` is there from the start, and the text has a line | `OverwriteKeepsEdits`: no text takes back an edit of the client that it is taken over by |
| `OwnLinesAgree` | every editor has a line of its own, which exists | `NobodyAsks`; `EachKeepsLine(own)`: every key that edits is pressed in that line, and neither breaks nor joins it |
| `OwnLinesNeverEraseEnd` | the same, and nobody who edits joins later | `OverwriteKeepsEdits`; `EachKeepsLine(own)` |

`OneWriter` and `OwnLines` are instances. Each hypothesis on the behaviour is
there because the conclusion is false without it. `client_entrypoint` always
starts `getFullLoop`, which sleeps five seconds before it first asks
(`editor.cpp:903-910`), and what it gets is a text that is serialized before it
is sent: an edit that is applied before and forwarded after is contained in it
and then handled again. So once somebody has asked, texts differ until the next
synchronisation (`Converges` is about that), and `NobodyAsks` is the time up to
the first request. That the server never erases `end()` survives texts that are
behind, since it depends on the author's text alone, and periodic threads,
Ctrl+S and joins are allowed in these two theorems. It does not survive a text
that takes an edit of the author back: the author then sees the last character
of a line again, deletes it again, and the second remove finds the line one
shorter. `OverwriteKeepsEdits` is false of the code (`PeriodicSync`); what the
theorems say is that a single author, or authors of separate lines, cannot make
the server erase what does not exist in any other way. Deleting up to the end
of the line and its last character is allowed.

The argument is the same in all of them, and is made once for a part of the
text that only the edits of one user change (`Sees`): the whole text, or a line.
`Leads(V, R, s, x, y)` says that the packets of a queue `s` turn the part `x`
into `y`, each packet by a step of `R`; a packet that does not concern the part
turns it into itself (`Neutral`). Then the unapplied edits of the author lead
from the server's part to the author's (`Ahead`), and, as long as nobody asks,
the packets on the way to any other client, with the one that the author's
thread has applied and not yet forwarded, lead from the part of that client to
the server's (`Behind`). Each step moves a packet from one chain to the next, or
takes it off the end of one. `OrderInv` is needed here: that an edit is
forwarded to every listed client, and that there is at most one between the two
chains. When all queues are empty the chains are, and the parts are equal.
`Traffic` says which packets can be under way at all.

That the server does not erase `end()` needs that the edits fit the text they
meet: `R` is then `Legal`, or `Fits`, which relate nothing to a text that the
edit does not fit. A text that the author takes over must not break `Ahead`:
`Fresh` says that a text on its way which holds every edit of the author that
the server has applied shows the part as the server does; one that holds every
edit the author has sent then shows it as the author does, and changes nothing.
The author's keys have to keep the fit up: `Typing`, or `Room` in a line of
one's own, says that what a key has left to send fits the author's text, one
item after the other, and leads to a text on which the cursor is. Edits of other
lines disturb neither, as long as the lines stay where they are (`SameLines`):
therefore `EachKeepsLine` excludes Enter and joins.

`ViewProofs`: `TypeCorrect`, `CountersExactAlways`, `DisplayExactAlways` and
`CursorInTextAlways`, for windows of any size and texts of any length, from
`ViewAssumption`. The counters are inductive as they stand. The cursor is not:
that moving it leaves it in the text depends on the rows of the window being
filled with lines. `Inv == TypeOK /\ CountersExact /\ DisplayExact /\
RowsFilled` says that too, as long as nothing has disturbed it.

`ConnectionsProofs`: `TypeCorrect`, `StuckOnlyWhenJammedAlways` and
`JamIsFinalAlways`, for any finite set of clients, connections of any size and
any keys, from `ConnectionsAssumption`. `Inv` collects who holds which lock
where: `ServerLocks` (a thread has `sendlock` exactly while it sends, and who
has `clock` is on the way to giving it back), `Leavers`, `ClientLocks` (what is
to be sent is sent under `mlock`) and `Gone` (a process that ended holds
nothing). If nobody can go on, a waiting server thread leads by `clock` and
`sendlock` to one that is sending; its receiver has a full connection and does
not read, so its handler waits for `mlock`, whose holder waits for room at the
thread of that client, which waits in turn: that client is jammed. The order in
which the locks are taken leaves no other way. While a client is jammed, no
step of anybody changes one of the conditions that make it so.

Only model-checked: liveness, which is out of the prover's reach (`Converges`,
`EditsArrive`, `Settles`), and with it that a load reaches everybody
(`Converge`). `OverwriteKeepsEdits`, `SavedAsShown`, and `NeverErasesEnd` for
users who share a line, are false.

## Not modelled

- The reallocation of the vector `clients` by the accepting thread while others
  read it without a lock (`server.cpp:124`). It is undefined in a way that no
  choice over values covers: a reader may follow freed memory.
- The life cycle (`main.cpp`): option parsing, fork and redirection are
  straight-line code. The SIGTERM that ends the server races with the autosave
  only through the buffering of an `ofstream`, which no source of the
  repository determines.
- Editing in the command window: a line of characters whose commands
  `Session` has as keys. In the dialogue after a lost server, saving locally.
- `LockFreeList::serialize()`, `readFromFile()`: only a server would call them,
  and the server never has this container. `print...()` is display.
- The non-blocking form of `get_message()`: nobody calls it.
- The position that `move()` stores in a container: nobody reads it.
- Undefined behaviour that no choice over states stands for: `insert()` and
  `remove()` form an iterator into a line before they check that it exists
  (`blockingVector.cpp:44`, `:76`), which is taken to be harmless when the call
  is then refused; `send_move()` ends without a return statement
  (`networking.cpp:315`), and its caller ignores the value.
- Display (curses, syntax colours), `locklesslist.h` (no file includes it), the
  unit test (it prints a greeting) and the build.
