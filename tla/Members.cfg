\* Two users edit the same text while a third joins and one may leave.
CONSTANTS
    alice = alice
    bob = bob
    carol = carol
    letter = letter
    file = file
    autosave = autosave
    Client = {alice, bob, carol}
    NoClient = NoClient
    Char = {letter}
    Enter = Enter
    Blank = letter
    File = {autosave}
    Autosave = autosave
    GarbageWidths = {0, 1}
    InitialText <- OneLetter
    InitialDisk <- NoFiles
    Connected <- Two
    Keys <- Crowd
    Reach <- NoReach
    Joiners = {carol}
    Leavers = {alice}
    TabWidth = 2
    MaxKeys = 1
    MaxRequests = 0

SPECIFICATION Spec
INVARIANTS TypeOK
PROPERTIES InOrder ImplementsRelay
\* The session ends when the users have typed what they wanted to type.
CHECK_DEADLOCK FALSE
