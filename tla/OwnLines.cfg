\* Two users type and delete, each in a line of their own.
CONSTANTS
    alice = alice
    bob = bob
    carol = carol
    letter = letter
    file = file
    autosave = autosave
    Client = {alice, bob, carol}
    NoClient = NoClient
    Char = {letter}
    Enter = Enter
    Blank = letter
    File = {file, autosave}
    Autosave = autosave
    GarbageWidths = {0, 1}
    InitialText <- TwoLines
    InitialDisk <- NoFiles
    Connected <- Three
    Keys <- LineEditors
    Reach <- OwnLines
    Joiners = {}
    Leavers = {}
    TabWidth = 2
    MaxKeys = 2
    MaxRequests = 0

SPECIFICATION Spec
INVARIANTS ReplicasAgree
\* The session ends when the users have typed what they wanted to type.
CHECK_DEADLOCK FALSE
