------------------------------- MODULE Connectors -------------------------------
(***************************************************************************)
(* One kind of payment connector, wire, BTCPay, LNbits or stablecoin         *)
(* account: its rows, the settings pages (btpay/frontend/settings_views.py)  *)
(* that look for "at most one" of the first three and change it, the set-up  *)
(* wizard (setup_views.py) that adds one, and the customers whose invoices   *)
(* enable methods once and for all (invoice_views.py, public_views.py) and   *)
(* are offered the rows of them that are active (checkout_views.py).         *)
(*                                                                         *)
(* "Slip" introduces a mistaken form that a property is tested with.        *)
(***************************************************************************)
EXTENDS Integers, Sequences

CONSTANTS
    Editors,        \* request threads
    Networks,       \* stable_<chain>_<token>, the methods of stablecoin accounts
    MaxConnectors   \* bound on the rows

ASSUME ConnectorAssumption == MaxConnectors \in Nat

VARIABLES
    kind,
    legacy,         \* the organization's row has wire_info, which no page writes
    connectors,     \* the rows, oldest first: active or not, or deleted
    methods,        \* the method that each row is of
    editor,         \* what each thread does
    enabled,        \* the methods that the customer's invoice enables
    answered,       \* history: the one row that a page shows as the form saved last left it,
                    \* or the accounts as users turned them on and off and deleted them
    muddled         \* history: a second row where one is meant, or a stale save

connectorVars == <<kind, legacy, connectors, methods, editor, enabled, answered, muddled>>

Single == {"wire", "btcpay", "lnbits"}
AtEase == [pc |-> "idle", row |-> 0, copy |-> "gone"]

ConnectorsInit ==
    /\ kind \in Single \cup {"stable"}
    /\ legacy \in BOOLEAN /\ (legacy => kind = "wire")
    /\ connectors = <<>> /\ methods = <<>> /\ answered = <<>>
    /\ editor = [t \in Editors |-> AtEase]
    /\ enabled = {} /\ muddled = FALSE

MethodsOfKind == IF kind = "stable" THEN Networks ELSE {kind}
RowsStay == UNCHANGED <<kind, legacy, connectors, methods, answered, muddled>>
Rest(t) == editor' = [editor EXCEPT ![t] = AtEase]

\* A new row, its form valid.
Inserted(state) ==
    /\ Len(connectors) < MaxConnectors
    /\ connectors' = Append(connectors, state)
    /\ \E method \in MethodsOfKind : methods' = Append(methods, method)
    /\ answered' = IF kind \in Single THEN <<state>> ELSE Append(answered, state)
    /\ muddled' = (muddled \/ (kind \in Single /\ connectors # <<>>))
    /\ UNCHANGED <<kind, legacy, enabled>>

\* save() of the oldest row.
Changed(state) ==
    /\ connectors' = [connectors EXCEPT ![1] = state]
    /\ answered' = <<state>>
    /\ UNCHANGED <<kind, legacy, methods, enabled, muddled>>

-------------------------------------------------------------------------------
(* The wizard's connector_wire, connector_btcpay and connector_lnbits, and         *)
(* connector_stablecoins: a new row each time.                                     *)

WizardWire == kind = "wire" /\ Inserted("on") /\ UNCHANGED editor
WizardBtcpay == kind = "btcpay" /\ Inserted("on") /\ UNCHANGED editor
WizardLnbits == kind = "lnbits" /\ Inserted("on") /\ UNCHANGED editor
WizardStablecoins == kind = "stable" /\ Inserted("on") /\ UNCHANGED editor

-------------------------------------------------------------------------------
(* The settings pages. *)

\* query.filter(org_id).first(): the oldest row or none.
OpenConnector(t) ==
    /\ editor[t].pc = "idle" /\ kind \in Single
    /\ editor' = [editor EXCEPT ![t].pc = IF connectors = <<>> THEN "add" ELSE "edit"]
    /\ RowsStay /\ UNCHANGED enabled

\* An invalid form changes nothing.
RefuseConnector(t) ==
    /\ editor[t].pc \in {"add", "edit"}
    /\ Rest(t)
    /\ RowsStay /\ UNCHANGED enabled

SaveConnector(t, state) ==
    /\ \/ editor[t].pc = "add" /\ Inserted(state)
       \/ editor[t].pc = "edit" /\ Changed(state)
    /\ Rest(t)

ConnectorsWire(t, state) == kind = "wire" /\ SaveConnector(t, state)
ConnectorsBtcpay(t, state) == kind = "btcpay" /\ SaveConnector(t, state)
ConnectorsLnbits(t, state) == kind = "lnbits" /\ SaveConnector(t, state)

\* connectors_stablecoins: an address that is valid on a known chain.
AddAccount == kind = "stable" /\ Inserted("on") /\ UNCHANGED editor

Flipped(state) == IF state = "on" THEN "off" ELSE "on"

\* toggle_stablecoin fetches the account and saves it whole.
FetchAccount(t, n) ==
    /\ kind = "stable" /\ editor[t].pc = "idle"
    /\ n \in DOMAIN connectors /\ connectors[n] # "gone"
    /\ editor' = [editor EXCEPT ![t] = [pc |-> "toggle", row |-> n, copy |-> connectors[n]]]
    /\ RowsStay /\ UNCHANGED enabled

ToggleAccount(t) ==
    LET n == editor[t].row
    IN
    /\ editor[t].pc = "toggle"
    /\ connectors' = [connectors EXCEPT ![n] = Flipped(editor[t].copy)]
    /\ answered' = [answered EXCEPT ![n] = IF @ = "gone" THEN @ ELSE Flipped(@)]
    /\ muddled' = (muddled \/ connectors[n] # editor[t].copy)
    /\ Rest(t)
    /\ UNCHANGED <<kind, legacy, methods, enabled>>

DeleteAccount(n) ==
    /\ kind = "stable"
    /\ n \in DOMAIN connectors /\ connectors[n] # "gone"
    /\ connectors' = [connectors EXCEPT ![n] = "gone"]
    /\ answered' = [answered EXCEPT ![n] = "gone"]
    /\ UNCHANGED <<kind, legacy, methods, editor, enabled, muddled>>

-------------------------------------------------------------------------------
(* The customer. *)

Active == {n \in DOMAIN connectors : connectors[n] = "on"}

\* create: the methods that a form or the API sends are taken as they are.  A form
\* calls all accounts together "stablecoins".
BillByForm ==
    /\ enabled' \in SUBSET (MethodsOfKind \cup {n \in {"stablecoins"} : kind = "stable"})
    /\ RowsStay /\ UNCHANGED editor

\* _get_payment_methods: a storefront without a list of its own enables the methods
\* that are active now.
BillByStore ==
    /\ enabled' = {methods[n] : n \in Active}
    /\ RowsStay /\ UNCHANGED editor

Enables(n) == methods[n] \in enabled \/ (kind = "stable" /\ "stablecoins" \in enabled)

\* Slip: rows that were switched off are shown too.
CheckoutInactive == {n \in DOMAIN connectors : connectors[n] # "gone" /\ Enables(n)}

\* _get_checkout_methods: all active accounts, or the oldest active connector.  In
\* place of one, row 0 is the bank of wire_info.
CheckoutMethods ==
    LET shown == {n \in Active : Enables(n) /\ (kind \in Single => \A m \in Active : n <= m)}
    IN  shown \cup {n \in {0} : legacy /\ shown = {} /\ kind \in enabled}

ConnectorsNext ==
    \/ WizardWire \/ WizardBtcpay \/ WizardLnbits \/ WizardStablecoins
    \/ AddAccount \/ BillByForm \/ BillByStore
    \/ \E n \in 1 .. MaxConnectors : DeleteAccount(n)
    \/ \E t \in Editors :
          \/ OpenConnector(t) \/ RefuseConnector(t) \/ ToggleAccount(t)
          \/ \E n \in 1 .. MaxConnectors : FetchAccount(t, n)
          \/ \E state \in {"on", "off"} :
                ConnectorsWire(t, state) \/ ConnectorsBtcpay(t, state) \/ ConnectorsLnbits(t, state)

ConnectorsSpec == ConnectorsInit /\ [][ConnectorsNext]_connectorVars

-------------------------------------------------------------------------------
\* Customers are shown exactly the rows of the methods their invoice enables that
\* the forms saved last have on, and the bank of wire_info only where none is on:
\* until a second row is inserted where the page knows only the oldest, by the wizard
\* run twice or by two first saves at once, or a toggle saves a copy that is no longer
\* the row and may bring a deleted account back.
OfferIsAsSaved ==
    LET saved == {n \in DOMAIN answered : answered[n] = "on" /\ Enables(n)}
    IN  ~ muddled => /\ CheckoutMethods \ {0} = saved
                     /\ 0 \in CheckoutMethods => legacy /\ saved = {}
===============================================================================
