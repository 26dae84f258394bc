SPECIFICATION Spec

CONSTANTS
    Invoices = {i1}
    Storefronts = {i1}
    Monitors = {"onchain_btc", "stable"}
    Requests = {r1}
    NoThread = NoThread
    Total <- MCTotal
    Gift = 1
    Amounts = {1, 3, 5}

INVARIANTS
    FulfilledOnce

CHECK_DEADLOCK FALSE
