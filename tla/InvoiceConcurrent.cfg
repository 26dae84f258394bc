SPECIFICATION Spec

CONSTANTS
    Invoices = {i1}
    Storefronts = {i1}
    Monitors = {"onchain_btc", "lnbits"}
    Requests = {r1}
    NoThread = NoThread
    Total <- MCTotal
    Gift = 1
    Amounts = {1, 3, 5}

INVARIANTS
    TypeOK
    SavedRowCoherent
    NeverOverCredited
    PaidIsCovered
    DetectedIsRecorded
    FulfilledOnce

PROPERTIES
    ReceiptIsAnnounced
    LightningConfirms
    JobsFinish

CHECK_DEADLOCK FALSE
