SPECIFICATION ServicesSpec
CONSTANTS
    Endpoints = {"e1"}
    Events = {"paid"}
    Delays <- MCDelays
    MaxDispatches = 2
    NoEndpoint = NoEndpoint
    Watchable = {"a1"}
    Sizes = {1, 2}
    MaxTxs = 2
    Small = 3
    MaxRestarts = 1
    NoCopy = NoCopy
    StableInvoices = {"i1", "i2"}
    Quoted = {"i1"}
    Due = 3
    Tolerated = 2
    MaxSent = 2
    MaxUpsets = 1
    NoBaseline = NoBaseline
    NobodyPolled = NobodyPolled
    MaxStarts = 2
    MaxApiKeys = 2
    NoEntry = NoEntry
INVARIANTS
    DeliveryLogIsTrue
    CreditIsReceived
    StableCreditIsOwn
    RecordedOnce
PROPERTIES
    DeliveriesEnd
    DeepPaymentsAreCredited
    StablePaymentsAreCredited
    SettledIsConfirmed
CHECK_DEADLOCK FALSE
