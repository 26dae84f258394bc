------------------------------- MODULE OrgSettings -------------------------------
(***************************************************************************)
(* The Organization row: the settings that administrators save in it        *)
(* (btpay/frontend/settings_views.py), the steps of the set-up wizard        *)
(* (setup_views.py) and the invoice numbers that creating invoices counts in *)
(* it (invoicing/service.py).  A request works on the copy it loaded when it *)
(* came in, and saves it whole.  A setting is told apart only by whether a   *)
(* saved form is in it.                                                     *)
(*                                                                         *)
(* "Slip" introduces a mistaken form that a property is tested with.        *)
(***************************************************************************)
EXTENDS Integers, FiniteSets

CONSTANTS
    Admins,         \* request threads
    MaxNumber,      \* bound on the invoice numbers
    MaxForms,       \* bound on the forms that are sent
    NoOrgCopy

ASSUME SettingsAssumption == MaxNumber \in Nat \ {0} /\ MaxForms \in Nat

VARIABLES
    org,            \* the row: saved settings and steps, next number, set-up done
    numbered,       \* the numbers of the invoices in the index
    refused,        \* an invoice was refused because of its number
    admin,          \* each thread's request
    forms,          \* history: forms sent
    overwritten,    \* history: a copy of the row was saved over a newer one
    done            \* history: what was answered as saved

settingsVars == <<org, numbered, refused, admin, forms, overwritten, done>>

Pages == {"general", "rpc", "branding", "notifications", "electrum", "email"}
Steps == {"org", "connector", "finish"}

OffDuty == [pc |-> "idle", copy |-> NoOrgCopy]

SettingsInit ==
    /\ org = [set |-> {}, next |-> 1, setUp |-> FALSE]
    /\ numbered = {} /\ refused = FALSE
    /\ admin = [t \in Admins |-> OffDuty]
    /\ forms = 0
    /\ overwritten = FALSE /\ done = {}

Does(t, step) == admin[t].pc = step
Finish(t) == admin' = [admin EXCEPT ![t] = OffDuty]

\* load_session, api_auth: the request comes in with a copy of the row.
ComeIn(t, step) ==
    /\ Does(t, "idle")
    /\ admin' = [admin EXCEPT ![t] = [pc |-> step, copy |-> org]]

\* A form of the settings or, until the set-up is finished, of the wizard.
SendForm(t, page) ==
    /\ forms < MaxForms /\ forms' = forms + 1
    /\ page \in Steps => ~ org.setUp    \* _guard_setup
    /\ ComeIn(t, page)
    /\ UNCHANGED <<org, numbered, refused, overwritten, done>>

\* org.save().
SaveOrg(t, row) ==
    /\ org' = row
    /\ overwritten' = (overwritten \/ org # admin[t].copy)

\* The handler puts its values in the row, saves it and answers.
Put(t, page, values) ==
    /\ Does(t, page)
    /\ SaveOrg(t, [admin[t].copy EXCEPT !.set = @ \cup values])
    /\ done' = done \cup values
    /\ Finish(t)
    /\ UNCHANGED <<numbered, refused, forms>>

-------------------------------------------------------------------------------
(* The settings pages. *)

General(t) == Put(t, "general", {"name", "general"})

StablecoinRpc(t) == Put(t, "rpc", {"rpc"})

\* A URL into a private network, a port that is no number: nothing is saved.
RefuseForm(t) ==
    /\ admin[t].pc \in {"rpc", "electrum", "email"}
    /\ Finish(t)
    /\ UNCHANGED <<org, numbered, refused, forms, overwritten, done>>

Branding(t) == Put(t, "branding", {"branding"})

Notifications(t) == Put(t, "notifications", {"notifications"})

Electrum(t) == Put(t, "electrum", {"electrum"})

Email(t) == Put(t, "email", {"email"})

-------------------------------------------------------------------------------
(* The wizard.  (The dict of the steps is shared by the copies of a row, so that *)
(* a step is marked just before the save that follows.)                          *)

\* org: the name and its slug are saved, then the step.
SetupOrg(t) == Put(t, "org", {"name", "orgStep"})

\* The connector's own row was inserted before; see Connectors.
MarkConnector(t) == Put(t, "connector", {"connectorStep"})

FinishSetup(t) ==
    /\ Does(t, "finish")
    /\ SaveOrg(t, [admin[t].copy EXCEPT !.setUp = TRUE])
    /\ Finish(t)
    /\ UNCHANGED <<numbered, refused, forms, done>>

-------------------------------------------------------------------------------
(* create_invoice, from the form and from the API. *)

OpenForm(t) ==
    /\ ComeIn(t, "count")
    /\ UNCHANGED <<org, numbered, refused, forms, overwritten, done>>

CallApi(t) ==
    /\ ComeIn(t, "count")
    /\ UNCHANGED <<org, numbered, refused, forms, overwritten, done>>

\* Slip: the number is used, and counted with the next save.
CountUnsaved(t) ==
    /\ Does(t, "count") /\ admin[t].copy.next <= MaxNumber
    /\ admin' = [admin EXCEPT ![t].pc = "insert"]
    /\ UNCHANGED <<org, numbered, refused, forms, overwritten, done>>

\* generate_invoice_number: the number of the copy is this invoice's.
CountNumber(t) ==
    /\ Does(t, "count") /\ admin[t].copy.next <= MaxNumber
    /\ SaveOrg(t, [admin[t].copy EXCEPT !.next = @ + 1])
    /\ admin' = [admin EXCEPT ![t].pc = "insert"]
    /\ UNCHANGED <<numbered, refused, forms, done>>

\* inv.save(): invoice_number is unique.
InsertInvoice(t) ==
    LET number == admin[t].copy.next
    IN
    /\ Does(t, "insert")
    /\ refused' = (refused \/ number \in numbered)
    /\ numbered' = numbered \cup {number}
    /\ Finish(t)
    /\ UNCHANGED <<org, forms, overwritten, done>>

PageStep(t) ==
    \/ General(t) \/ StablecoinRpc(t) \/ RefuseForm(t) \/ Branding(t)
    \/ Notifications(t) \/ Electrum(t) \/ Email(t)
    \/ SetupOrg(t) \/ MarkConnector(t) \/ FinishSetup(t)

SettingsNext ==
    \E t \in Admins :
        \/ \E page \in Pages \cup Steps : SendForm(t, page)
        \/ PageStep(t)
        \/ OpenForm(t) \/ CallApi(t) \/ CountNumber(t) \/ InsertInvoice(t)

SettingsSpec == SettingsInit /\ [][SettingsNext]_settingsVars

-------------------------------------------------------------------------------
(* Properties.  They hold as long as no copy is saved over a newer row: a request *)
(* on an old copy takes other settings back, and with them the invoice numbers.   *)

\* A setting whose saving was answered is there, whatever invoices are created and
\* forms sent; and the next number is beyond every invoice's, so that none is
\* refused, also by requests that took their number and have not inserted the
\* invoice.
NumbersGoOn ==
    ~ overwritten => /\ done \subseteq org.set
                     /\ ~ refused
                     /\ \A n \in numbered : n < org.next
                     /\ \A t \in Admins : Does(t, "insert") =>
                            admin[t].copy.next \in (1 .. org.next - 1) \ numbered
===============================================================================
