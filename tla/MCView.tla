------------------------------- MODULE MCView -------------------------------
\* Windows of one to three rows on texts of up to three lines: every text can be
\* scrolled, and a line can be wider than the window.
EXTENDS View

MCTexts == { << >>, << 1, 0, 2 >> }
=============================================================================
