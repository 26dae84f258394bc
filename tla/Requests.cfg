SPECIFICATION RequestsSpec
CONSTRAINT NothingOverwritten
SYMMETRY WalletSymmetry
CONSTANTS
    Models = {M}
    Keys = {k1, k2}
    Tags = {g}
    Threads = {t1, t2}
    KeysChange = TRUE
    MaxPk = 3
    NoRow = NoRow
    Derived <- MCDerived
    Pool = {"p1"}
    Bills = {i1, i2}
    Workers = {w1, w2}
    MaxWallets = 2
    MaxRequests = 5
    MaxRestarts = 1
    NoWallet = NoWallet
    NoAddress = NoAddress
    NoBill = NoBill
    Sources <- MCSources
    Currencies = {"USD"}
    Prices = {10, 100, 104, 140}
    Low = 20
    High = 200
    NoRate = NoRate
    People = {"alice", "bob"}
    Desks = {"d1", "d2"}
    MaxMemberships = 4
    MaxStrays = 1
    Nobody = Nobody
    Browsers = {"b1", "b2"}
    Tokens = {"s1", "s2"}
    MaxPassword = 2
    MaxSecret = 2
    Offers = {{"wrong"}, {"expire", "password"}, {"setup", "enable", "disable"}}
    LockAt = 2
    NoToken = NoToken
    NoUserCopy = NoUserCopy
    Admins = {"t1", "t2"}
    MaxNumber = 2
    MaxForms = 2
    NoOrgCopy = NoOrgCopy
    Editors = {"t1", "t2"}
    Networks = {"eth", "tron"}
    MaxConnectors = 2
    Callers = {"t1", "t2"}
    MaxAttempts = 1
    Window = 1
    Forgotten = 1
    Interval = 1
    MaxTime = 3
    Sales = {"s1", "s2"}
    Clerks = {"c1"}
    InStock = 2
    MaxUnits = 2
    ItemPrices = {3}
    NoShopRow = NoShopRow
    Askers = {"a1", "a2"}
    MaxSockets = 2
    MaxQuestions = 3
    NoAsker = NoAsker
INVARIANTS
    IndexesAreSound
    AddressesAreNotShared
    NextIndexIsFree
    RatesAreSane
    OneFirstOwner
    SomebodyOwns
    AccountIsAsAnswered
    NumbersGoOn
    OfferIsAsSaved
    CallsAreLimited
    ShopIsItsOrders
    AnswersAreOwn
PROPERTIES
    OldSessionsAreOut
CHECK_DEADLOCK FALSE
