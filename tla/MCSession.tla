------------------------------ MODULE MCSession ------------------------------
\* Values for the constants of Session, chosen in each configuration.
EXTENDS Session

CONSTANTS alice, bob, carol, letter, file, autosave

At(line, index) == [line |-> line, index |-> index]

NoKeys  == [u \in Client |-> {}]
NoReach == [u \in Client |-> {}]
NoFiles == [f \in File |-> << >>]
Two     == << alice, bob >>
Three   == << alice, bob, carol >>

OneLetter == << << letter >> >>
TwoLines  == << << letter, letter >>, << letter, letter >> >>
TwoEmpty  == << << >>, << >> >>

\* One user edits in every way, the others watch.
Author == [u \in Client |->
             IF u = alice THEN {"Char", "Enter", "Tab", "Backspace", "Delete"} ELSE {}]
Anywhere == [u \in Client |->
             IF u = alice THEN { At(l, i) : l \in 0 .. 2, i \in 0 .. 2 } ELSE {}]

\* Two users edit, each inside a line of their own.
LineEditors == [u \in Client |-> IF u \in {alice, bob} THEN {"Char", "Delete"} ELSE {}]
OwnLines    == [u \in Client |-> CASE u = alice -> { At(0, 0) }
                                   [] u = bob -> { At(1, 0) }
                                   [] OTHER -> {}]

\* One user makes two edits with a key, another deletes, breaks the line or
\* counts.
Crowd == [u \in Client |-> CASE u = alice -> {"Tab"}
                             [] u = bob -> {"Delete", "Enter", "Count"}
                             [] OTHER -> {}]

\* Two users type and delete at the start of the text.
Typists == [u \in Client |-> IF u \in {alice, bob} THEN {"Char", "Delete"} ELSE {}]

\* One user edits and synchronises by hand, another deletes; the server may
\* crash of it.
Syncers == [u \in Client |-> IF u = alice THEN {"Char", "Sync", "Delete"} ELSE {"Delete"}]

\* One user types in the second line, while another takes it away by a join,
\* or loads or saves a file.
Mixed == [u \in Client |-> IF u = alice THEN {"Char"} ELSE {"Delete", "Read", "Write"}]
Below == [u \in Client |-> IF u = alice THEN { At(1, 0) } ELSE {}]
Files == [f \in File |-> TwoLines]
=============================================================================
