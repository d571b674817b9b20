CONSTANTS
    BlockWidth = 2
    S1 = S1
    SEmpty = SEmpty
    SBad = SBad
    SNil = SNil
    RawStorage <- MCRawStorage
    EmptyStorage <- SEmpty
    Undecodable <- MCUndecodable
    NoStorage <- SNil
    Requests <- AllRequests
SPECIFICATION Spec
CONSTRAINT HistoryBounded
INVARIANT EmptySnapshotSkipped
