\* Replies of 0 to 6 bytes, in chunks of 1 to 3, into a buffer that holds 4.
CONSTANTS
    RequestLen = 2
    HeaderLen = 1
    MaxReply = 6
    ChunkMax = 3
    RespSize = 6
SPECIFICATION Spec
INVARIANTS
    WithinBuffer
    WholeWhenFits
    ReturnTellsWritten
    IInv
PROPERTIES
    Returns
    ImplementsRequest
