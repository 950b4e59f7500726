-------------------------------- MODULE Relay --------------------------------
(***************************************************************************)
(* What the server promises about edits, without any text.  The edits of   *)
(* each client are numbered in the order in which it made them.  The       *)
(* server applies them in that order, none skipped and none twice; each    *)
(* other client in its list receives them in that order, none skipped and  *)
(* none twice, and none before the server has applied it.  A client never  *)
(* receives its own edits.  One that joins enters each stream at some      *)
(* point.  Nothing is said of when, or whether, an edit gets through.      *)
(***************************************************************************)
EXTENDS Integers

CONSTANT Client

VARIABLES issued,    \* issued[a]: the number of the last edit of a
          applied,   \* applied[a]: of the last one the server has applied
          got,       \* got[b][a]: of the last one that b has received
          member     \* the clients the server relays to

vars == << issued, applied, got, member >>

Init == /\ issued  = [a \in Client |-> 0]
        /\ applied = [a \in Client |-> 0]
        /\ got = [b \in Client |-> [a \in Client |-> 0]]
        /\ member \in SUBSET Client

Issue(a) == /\ issued' = [issued EXCEPT ![a] = @ + 1]
            /\ UNCHANGED << applied, got, member >>

Apply(a) == /\ applied[a] < issued[a]
            /\ applied' = [applied EXCEPT ![a] = @ + 1]
            /\ UNCHANGED << issued, got, member >>

Deliver(b, a) == /\ b \in member
                 /\ b # a
                 /\ got[b][a] < applied[a]
                 /\ got' = [got EXCEPT ![b][a] = @ + 1]
                 /\ UNCHANGED << issued, applied, member >>

Join(b)  == /\ b \notin member
            /\ member' = member \cup {b}
            /\ got' \in [Client -> [Client -> Nat]]
            /\ \A c \in Client \ {b} : got'[c] = got[c]
            /\ \A a \in Client : got'[b][a] <= applied[a]
            /\ UNCHANGED << issued, applied >>

Next == \E a \in Client : \/ Issue(a)
                          \/ Apply(a)
                          \/ Join(a)
                          \/ \E b \in Client : Deliver(b, a)

Spec == Init /\ [][Next]_vars
=============================================================================
