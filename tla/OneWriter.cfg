\* One user edits in every way, two others watch; nobody synchronises.
CONSTANTS
    alice = alice
    bob = bob
    carol = carol
    letter = letter
    file = file
    autosave = autosave
    Client = {alice, bob, carol}
    NoClient = NoClient
    Char = {letter}
    Enter = Enter
    Blank = letter
    File = {file, autosave}
    Autosave = autosave
    GarbageWidths = {0, 1}
    InitialText <- OneLetter
    InitialDisk <- NoFiles
    Connected <- Three
    Keys <- Author
    Reach <- Anywhere
    Joiners = {}
    Leavers = {}
    TabWidth = 2
    MaxKeys = 3
    MaxRequests = 0

SPECIFICATION Spec
INVARIANTS ReplicasAgree NeverErasesEnd
\* The session ends when the users have typed what they wanted to type.
CHECK_DEADLOCK FALSE
