----------------------------- MODULE MCFraming -----------------------------
\* Frames of exactly one peek and of a peek and a few bytes; one payload ends
\* in the first byte of a footer, the other contains the beginning of one.
EXTENDS Framing

MCPayload == { << 0, 0 >>, << 0, 4, 4, 2 >> }
=============================================================================
