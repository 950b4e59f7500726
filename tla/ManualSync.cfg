\* Ctrl+S only: no periodic thread.  Both users may leave.
CONSTANTS
    alice = alice
    bob = bob
    carol = carol
    letter = letter
    file = file
    autosave = autosave
    Client = {alice, bob}
    NoClient = NoClient
    Char = {letter}
    Enter = Enter
    Blank = letter
    File = {file, autosave}
    Autosave = autosave
    GarbageWidths = {0, 1}
    InitialText <- OneLetter
    InitialDisk <- NoFiles
    Connected <- Two
    Keys <- Syncers
    Reach <- NoReach
    Joiners = {}
    Leavers = {alice, bob}
    TabWidth = 2
    MaxKeys = 3
    MaxRequests = 0

SPECIFICATION Spec
INVARIANTS AutosaveHoldsText
PROPERTIES LastOverwriteKeepsEdits
\* The session ends when the users have typed what they wanted to type.
CHECK_DEADLOCK FALSE
