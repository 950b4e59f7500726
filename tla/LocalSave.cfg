\* A client built with LOCKFREE=1 saves its text locally.
CONSTANTS
    ch1 = ch1
    ch2 = ch2
    Char = {ch1, ch2}
    Enter = Enter
    Newline = Newline
    f = f
    File = {f}
    InitialDisk <- MCInitialDisk
    MaxSize = 3
    BUFFERLEN = 2
    UNUSEDINT = UNUSEDINT
    MaxBuffers = 3

SPECIFICATION ClientSpec
INVARIANTS SavedAsShown
\* The process may have died, after which nothing happens.
CHECK_DEADLOCK FALSE
