------------------------------- MODULE MCRequests -------------------------------
(***************************************************************************)
(* What requests work on, on small instances: the store's rows and indexes, *)
(* each component that keeps its state in them, and the client that threads *)
(* share.  As in MCServices one component moves in a behaviour, the one     *)
(* that "focus" names.                                                      *)
(***************************************************************************)
EXTENDS MemoryStore, WalletAddresses, ExchangeRates, Registration, Sessions,
        OrgSettings, Connectors, ApiAccess, Storefront, ElectrumClient

VARIABLE focus

MCDerived == [n \in 0 .. 1 |-> <<"d0", "d1">>[n + 1]]
WalletSymmetry == Permutations(Bills) \cup Permutations(Workers)
MCSources == <<"coingecko", "coinbase", "kraken">>

allRequestVars ==
    <<vars, walletVars, rateVars, registrationVars, sessionVars, settingsVars,
      connectorVars, apiVars, shopVars, electrumVars>>

RequestsInit ==
    /\ focus \in {"store", "wallets", "rates", "registration", "sessions",
                  "settings", "connectors", "api", "shop", "electrum"}
    /\ Init /\ WalletInit /\ RatesInit /\ RegistrationInit /\ SessionsInit
    /\ SettingsInit /\ ConnectorsInit /\ ApiInit /\ StorefrontInit /\ ElectrumInit
    /\ focus # "sessions" => offered = {"wrong"}
    /\ focus # "connectors" => kind = "wire" /\ ~ legacy
    /\ focus # "shop" => shop # NoShopRow

StoreMoves ==
    /\ focus = "store" /\ Next
    /\ UNCHANGED <<focus, walletVars, rateVars, registrationVars, sessionVars, settingsVars,
                   connectorVars, apiVars, shopVars, electrumVars>>
WalletsMove ==
    /\ focus = "wallets" /\ WalletNext
    /\ UNCHANGED <<focus, vars, rateVars, registrationVars, sessionVars, settingsVars,
                   connectorVars, apiVars, shopVars, electrumVars>>
RatesMove ==
    /\ focus = "rates" /\ RatesNext
    /\ UNCHANGED <<focus, vars, walletVars, registrationVars, sessionVars, settingsVars,
                   connectorVars, apiVars, shopVars, electrumVars>>
RegistrationMoves ==
    /\ focus = "registration" /\ RegistrationNext
    /\ UNCHANGED <<focus, vars, walletVars, rateVars, sessionVars, settingsVars,
                   connectorVars, apiVars, shopVars, electrumVars>>
SessionsMove ==
    /\ focus = "sessions" /\ SessionsNext
    /\ UNCHANGED <<focus, vars, walletVars, rateVars, registrationVars, settingsVars,
                   connectorVars, apiVars, shopVars, electrumVars>>
SettingsMove ==
    /\ focus = "settings" /\ SettingsNext
    /\ UNCHANGED <<focus, vars, walletVars, rateVars, registrationVars, sessionVars,
                   connectorVars, apiVars, shopVars, electrumVars>>
ConnectorsMove ==
    /\ focus = "connectors" /\ ConnectorsNext
    /\ UNCHANGED <<focus, vars, walletVars, rateVars, registrationVars, sessionVars,
                   settingsVars, apiVars, shopVars, electrumVars>>
ApiMoves ==
    /\ focus = "api" /\ ApiNext
    /\ UNCHANGED <<focus, vars, walletVars, rateVars, registrationVars, sessionVars,
                   settingsVars, connectorVars, shopVars, electrumVars>>
ShopMoves ==
    /\ focus = "shop" /\ StorefrontNext
    /\ UNCHANGED <<focus, vars, walletVars, rateVars, registrationVars, sessionVars,
                   settingsVars, connectorVars, apiVars, electrumVars>>
ElectrumMoves ==
    /\ focus = "electrum" /\ ElectrumNext
    /\ UNCHANGED <<focus, vars, walletVars, rateVars, registrationVars, sessionVars,
                   settingsVars, connectorVars, apiVars, shopVars>>

RequestsNext ==
    \/ StoreMoves     \/ WalletsMove    \/ RatesMove \/ RegistrationMoves \/ SessionsMove
    \/ SettingsMove   \/ ConnectorsMove \/ ApiMoves  \/ ShopMoves
    \/ ElectrumMoves

RequestsSpec == RequestsInit /\ [][RequestsNext]_<<focus, allRequestVars>>

\* Once a copy was saved over a newer row, or rows of addresses were lost, the
\* properties of these components claim nothing any more.
NothingOverwritten == ~ overwritten /\ ~ shopOverwritten /\ ~ rowsLost
===============================================================================
