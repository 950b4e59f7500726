\* Periodic synchronisation, while one user types in a line that another takes
\* away, or loads a file over.
CONSTANTS
    alice = alice
    bob = bob
    carol = carol
    letter = letter
    file = file
    autosave = autosave
    Client = {alice, bob}
    NoClient = NoClient
    Char = {letter}
    Enter = Enter
    Blank = letter
    File = {file}
    Autosave = file
    GarbageWidths = {0, 1}
    InitialText <- TwoEmpty
    InitialDisk <- Files
    Connected <- Two
    Keys <- Mixed
    Reach <- Below
    Joiners = {}
    Leavers = {}
    TabWidth = 2
    MaxKeys = 1
    MaxRequests = 1

SPECIFICATION FairSpec
PROPERTIES Converges EditsArrive
\* The session ends when the users have typed what they wanted to type.
CHECK_DEADLOCK FALSE
