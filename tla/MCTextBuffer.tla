---------------------------- MODULE MCTextBuffer ----------------------------
\* A container of up to three stored characters and line ends, two letters
\* and a file that is at first missing, complete, unterminated or in DOS form;
\* beside it the same text in buffers of two slots.
EXTENDS LockfreeClient

CONSTANTS ch1, ch2, f

MCInitialDisk == { << >>, << ch1, Newline, ch2 >>, << ch1, Enter, Newline, Newline >> }
=============================================================================
