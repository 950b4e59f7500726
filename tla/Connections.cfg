CONSTANTS
    alice = alice
    bob = bob
    Client = {alice, bob}
    Nobody = Nobody
    Room = 1
    Keystroke <- MCKeystroke
    MaxKeys = 1
    MaxAsks = 1
    MaxDeaths = 1

SPECIFICATION FairSpec
INVARIANTS TypeOK StuckOnlyWhenJammed
PROPERTIES JamIsFinal Settles
\* A session that has delivered everything, or is jammed, stands still.
CHECK_DEADLOCK FALSE
