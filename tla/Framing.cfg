CONSTANTS
    HEADER_LENGTH = 4
    MTU = 10
    Payload <- MCPayload
    MaxMessages = 3
    MaxCuts = 1

SPECIFICATION Spec
INVARIANTS TypeOK NextHeaderLeft HoldsBackTheLast
PROPERTIES NothingLostOrDoubled OneMessageEach
\* A receiver that has returned for good stops.
CHECK_DEADLOCK FALSE
