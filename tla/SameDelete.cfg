\* Two users may delete the same character.
CONSTANTS
    alice = alice
    bob = bob
    carol = carol
    letter = letter
    file = file
    autosave = autosave
    Client = {alice, bob}
    NoClient = NoClient
    Char = {letter}
    Enter = Enter
    Blank = letter
    File = {file, autosave}
    Autosave = autosave
    GarbageWidths = {0, 1}
    InitialText <- OneLetter
    InitialDisk <- NoFiles
    Connected <- Two
    Keys <- Typists
    Reach <- NoReach
    Joiners = {}
    Leavers = {}
    TabWidth = 2
    MaxKeys = 1
    MaxRequests = 0

SPECIFICATION Spec
INVARIANTS NeverErasesEnd
\* The session ends when the users have typed what they wanted to type.
CHECK_DEADLOCK FALSE
