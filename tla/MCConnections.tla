--------------------------- MODULE MCConnections ---------------------------
\* Two users, connections of one packet each way, a client that may end.
EXTENDS Connections

CONSTANTS alice, bob

MCKeystroke == { << "edit", "edit", "move" >>, << "load" >>, << "save" >> }
=============================================================================
