\* Two frames with every edge value in address, payload and checksum.
SPECIFICATION Spec
CONSTANTS
    Addresses = {0, 128, 254}
    Bytes <- EdgeBytes
    Noise <- Leftovers
    MaxPayload = 2
    MaxFrames = 2
CHECK_DEADLOCK FALSE
INVARIANTS
    NothingLost
    ReadAsSent
