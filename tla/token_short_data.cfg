CONSTANTS
    A1 = A1
    A2 = A2
    U1 = U1
    U2 = U2
    Zero = Zero
    F1 = F1
    F2 = F2
    None = None
    Addresses <- MCAddresses
    Users <- MCUsers
    NoAddr <- Zero
    Selectors <- MCSelectors
    InterfaceIds <- MCInterfaceIds
    BadHex <- MCBadHex
    RuleSets <- MCRuleSets
    Transactions <- MCShortDataTransactions
    NoFault <- None
    ShortData = ShortData
SPECIFICATION Spec
INVARIANT NoPanic
