SPECIFICATION Spec
ACTION_CONSTRAINT OneJobAtATime

CONSTANTS
    Invoices = {i1}
    Storefronts = {i1}
    Monitors = {"onchain_btc", "btcpay", "lnbits", "stable"}
    Requests = {r1}
    NoThread = NoThread
    Total <- MCTotal
    Gift = 1
    Amounts = {1, 3, 5}

INVARIANTS
    CreditIsExact
    PaidAnnouncedFirst

PROPERTIES
    ImplementsLedger

CHECK_DEADLOCK FALSE
