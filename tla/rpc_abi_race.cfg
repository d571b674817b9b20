CONSTANTS
    A1 = A1
    A2 = A2
    Z = Z
    AbiFull = AbiFull
    AbiNoEvent = AbiNoEvent
    Empty = Empty
    Malformed = Malformed
    C1 = C1
    Addresses <- MCAddresses
    Zero <- Z
    ABIs <- MCABIs
    NotJSON <- MCNotJSON
    NoABI <- Empty
    Describes <- MCDescribes
    Transactions <- MCTransactions
    ConfigAddresses <- MCConfigAddresses
    Clients <- MCClients
SPECIFICATION Spec
INVARIANT TypeOK
INVARIANT OwnEventsDecoded
