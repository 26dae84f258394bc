SPECIFICATION Spec
ACTION_CONSTRAINT RequestsAlone

CONSTANTS
    Invoices = {i1}
    Storefronts = {i1}
    Monitors = {"onchain_btc", "lnbits"}
    Requests = {r1}
    NoThread = NoThread
    Total <- MCTotal
    Gift = 1
    Amounts = {1, 3, 5}

INVARIANTS
    CreditIsExact

CHECK_DEADLOCK FALSE
