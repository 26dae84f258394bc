---------------------------- MODULE InvoiceService ----------------------------
(***************************************************************************)
(* The life of an invoice: InvoiceService (btpay/invoicing/service.py), the *)
(* payment callbacks that drive it (btpay/payment_automation.py) and the    *)
(* requests that administer it.                                            *)
(*                                                                         *)
(* A monitor thread runs the callbacks of its own payment method one after *)
(* the other; request threads finalize, cancel, expire and refresh.  Every *)
(* job works on a private copy of the Invoice row, loaded once when the    *)
(* job begins (Invoice.get builds a new object) and written back whole by  *)
(* each save().  One action is one operation on the shared store: loading, *)
(* inserting or updating a row under the store's lock.                     *)
(*                                                                         *)
(* Amounts are fiat, in whole units.  The fiat value of an on-chain or     *)
(* stablecoin receipt is drawn from Amounts; BTCPay and LNbits receipts    *)
(* are credited at the amount due in the copy, as the callbacks do.        *)
(*                                                                         *)
(* The store copies rows shallowly: the metadata of a row is one dict that *)
(* every copy of the row shares, until somebody assigns a new dict.  A row *)
(* therefore names its dict, and flagged holds the dicts that carry the    *)
(* storefront_fulfilled flag.                                              *)
(*                                                                         *)
(* A definition introduced as "Slip" is the one below it with a plausible  *)
(* mistake; nothing uses it.  The properties are tested against them.      *)
(***************************************************************************)
EXTENDS Integers, Sequences, FiniteSets

CONSTANTS
    Invoices,       \* Invoice primary keys
    Storefronts,    \* the invoices that come from a storefront purchase
    Monitors,       \* the enabled payment methods, one monitor thread each
    Requests,       \* HTTP request threads
    NoThread,       \* "the payment lock is free"
    Total,          \* Invoice.total, by invoice
    Gift,           \* underpaid_gift: a shortfall accepted as paid
    Amounts         \* fiat values a receipt can have

Methods == {"onchain_btc", "btcpay", "lnbits", "stable"}
Threads == Monitors \cup Requests

ASSUME ConstantsAssumption ==
    /\ Invoices # {}
    /\ Storefronts \subseteq Invoices
    /\ Monitors \subseteq Methods
    /\ Monitors \cap Requests = {}
    /\ NoThread \notin Threads
    /\ Total \in [Invoices -> Nat \ {0}]
    /\ Gift \in Nat
    /\ Amounts \subseteq Nat

VARIABLES
    invoice,        \* the Invoice table
    payments,       \* the Payment table: the rows of each invoice, by id
    recorded,       \* history: the sum of amount_fiat over payments[i]
    paymentLock,    \* InvoiceService._payment_lock: its holder
    pc,             \* where each thread is in its job
    job,            \* the arguments of each thread's job
    copy,           \* each thread's private Invoice object
    watch,          \* what each monitor has reported of each invoice
    flagged,        \* the metadata dicts with storefront_fulfilled set
    fulfilments,    \* orders counted on the storefront for each invoice
    published       \* events handed to the webhook dispatcher and email

vars == <<invoice, payments, recorded, paymentLock, pc, job, copy, watch,
          flagged, fulfilments, published>>

-------------------------------------------------------------------------------
(* Rows, jobs and their types. *)

Statuses == {"draft", "pending", "partial", "paid", "confirmed",
             "expired", "cancelled"}
\* Slip: a partly paid invoice takes no further payment.
PayableNotPartial == {"pending", "paid"}

Payable  == {"pending", "partial", "paid"}
Settled  == {"paid", "confirmed"}
Txids    == {"", "tx"}      \* "": the transaction id could not be fetched

\* Metadata dicts: the one the invoice was created with, and those that a
\* finalizing thread assigned for its connectors and its stablecoin baseline.
CreatedMeta == <<"created", NoThread>>
Metas == {CreatedMeta} \cup ({"connector", "baseline"} \X Requests)

InvoiceRow == [status: Statuses, paid: Nat, quoted: BOOLEAN, meta: Metas]
PaymentRow == [method: Methods, txid: Txids, fiat: Nat,
               status: {"pending", "confirmed"}]

Job == [inv: Invoices, method: Methods, txid: Txids, fiat: Nat,
        confirm: BOOLEAN, before: Statuses, row: Nat]

\* A watched address or entry, as its monitor's own object has it.
WatchStates == {"unwatched", "watching", "seen", "done"}

Steps == {"idle", "record", "credit", "flush", "fulfil", "publish",
          "confirm", "confirmInvoice", "flushConfirmed", "publishConfirmed",
          "finalize", "watch", "baseline", "flushFinal",
          "cancel", "flushCancel", "publishCancel", "expire", "refresh"}

NewInvoice == [status |-> "draft", paid |-> 0, quoted |-> FALSE,
               meta |-> CreatedMeta]

\* What an idle thread's local variables are reset to.
NoJob == [inv |-> CHOOSE i \in Invoices : TRUE, method |-> "onchain_btc",
          txid |-> "", fiat |-> 0, confirm |-> FALSE, before |-> "draft",
          row |-> 0]

Event(name, i, r) == [event |-> name, inv |-> i, row |-> r]

\* Slip: no max(0, ...).
AmountDueUnclamped(i, inv) == Total[i] - inv.paid

AmountDue(i, inv) == IF inv.paid >= Total[i] THEN 0 ELSE Total[i] - inv.paid

\* Slip: the total is credited, whatever was received.
CreditedInFull(i, inv, fiat) ==
    [inv EXCEPT !.paid = Total[i], !.status = "paid"]

\* Slip: any amount pays the invoice.
CreditedAsPaid(i, inv, fiat) ==
    [inv EXCEPT !.paid = @ + fiat,
                !.status = IF inv.paid + fiat > 0 THEN "paid" ELSE @]

\* Slip: the amount replaces what was paid before.
CreditedLatest(i, inv, fiat) ==
    [inv EXCEPT !.paid = fiat,
                !.status = IF fiat + Gift >= Total[i] THEN "paid" ELSE "partial"]

\* _credit_invoice: the copy with the amount added and the status it implies.
Credited(i, inv, fiat) ==
    LET paid == inv.paid + fiat
        status == IF \/ paid >= Total[i]
                     \/ paid > 0 /\ Total[i] - paid <= Gift
                  THEN "paid"
                  ELSE IF paid > 0 THEN "partial" ELSE inv.status
    IN  [inv EXCEPT !.paid = paid, !.status = status]

\* _find_payment: the row with this txid, else the latest row of the method
\* (a txid that is not found falls through to the latest candidate).
Candidates(i, m) == {k \in DOMAIN payments[i] : payments[i][k].method = m}
Latest(i, m) == CHOOSE k \in Candidates(i, m) :
                    \A l \in Candidates(i, m) : l <= k
FindPayment(i, m, txid) ==
    LET same == {k \in Candidates(i, m) : payments[i][k].txid = txid}
    IN  CASE Candidates(i, m) = {}    -> 0
          [] txid # "" /\ same # {}   -> CHOOSE k \in same :
                                             \A l \in same : k <= l
          [] OTHER                    -> Latest(i, m)

-------------------------------------------------------------------------------
Init ==
    /\ invoice = [i \in Invoices |-> NewInvoice]
    /\ payments = [i \in Invoices |-> <<>>]
    /\ recorded = [i \in Invoices |-> 0]
    /\ paymentLock = NoThread
    /\ pc = [t \in Threads |-> "idle"]
    /\ job = [t \in Threads |-> NoJob]
    /\ copy = [t \in Threads |-> NewInvoice]
    /\ watch = [m \in Monitors |-> [i \in Invoices |-> "unwatched"]]
    /\ flagged = [i \in Invoices |-> {}]
    /\ fulfilments = [i \in Invoices |-> 0]
    /\ published = {}

store == <<invoice, payments, recorded, flagged, fulfilments>>

Goto(t, step) == pc' = [pc EXCEPT ![t] = step]

\* A thread takes up a job on invoice i: Invoice.get gives it a private copy.
Begin(t, i, step, args) ==
    /\ Goto(t, step)
    /\ job' = [job EXCEPT ![t] = [args EXCEPT !.inv = i]]
    /\ copy' = [copy EXCEPT ![t] = invoice[i]]

\* The job ends: its local objects are garbage.
Finish(t) ==
    /\ Goto(t, "idle")
    /\ job' = [job EXCEPT ![t] = NoJob]
    /\ copy' = [copy EXCEPT ![t] = NewInvoice]

\* invoice.save(): the thread's copy becomes row, in its hands and in the table.
Save(t, row) ==
    /\ copy' = [copy EXCEPT ![t] = row]
    /\ invoice' = [invoice EXCEPT ![job[t].inv] = row]

-------------------------------------------------------------------------------
(* The monitors.  A monitor thread polls what it watches, notes a change in  *)
(* its own object and then fires its callback; it never fires the same       *)
(* change twice.  The callback loads the invoice, returns early unless it is *)
(* payable, and looks for an earlier Payment row of its method: only the     *)
(* method's own thread inserts those, so poll, load and lookup are one step. *)

Recording(m, txid, fiat, confirm) ==
    [NoJob EXCEPT !.method = m, !.txid = txid, !.fiat = fiat,
                  !.confirm = confirm]

Confirming(m, r) == [NoJob EXCEPT !.method = m, !.row = r]

\* The idle monitor m moves its entry for invoice i to state s, as the BTCPay
\* monitor does between reading a status and calling back; the others are alike.
Report(m, i, s) ==
    /\ pc[m] = "idle"
    /\ watch' = [watch EXCEPT ![m][i] = s]
    /\ UNCHANGED <<store, paymentLock, published>>

\* The callback returned early.
Ignore == UNCHANGED <<pc, job, copy>>

\* The callback goes on to confirm row r, unless it is confirmed already.
BeginConfirm(m, i, r) ==
    IF payments[i][r].status # "confirmed"
    THEN Begin(m, i, "confirm", Confirming(m, r))
    ELSE Ignore

\* _check_address, first funds, and _handle_onchain_seen: a known txid is not
\* recorded when the invoice has any on-chain row.
OnchainSeen(i) ==
    LET m == "onchain_btc" IN
    /\ m \in Monitors
    /\ watch[m][i] = "watching"
    /\ Report(m, i, "seen")
    /\ \E txid \in Txids, fiat \in Amounts :
          IF \/ invoice[i].status \notin Payable
             \/ txid # "" /\ FindPayment(i, m, txid) # 0
          THEN Ignore
          ELSE Begin(m, i, "record", Recording(m, txid, fiat, FALSE))

\* _check_address, enough confirmations, and _handle_onchain_confirmed.
OnchainConfirmed(i) ==
    LET m == "onchain_btc"
        r == FindPayment(i, m, "")
    IN
    /\ m \in Monitors
    /\ watch[m][i] = "seen"
    /\ Report(m, i, "done")
    /\ \/ invoice[i].status \notin Payable /\ Ignore
       \/ /\ invoice[i].status \in Payable /\ r = 0
          /\ \E fiat \in Amounts :
                Begin(m, i, "record", Recording(m, "", fiat, TRUE))
       \/ invoice[i].status \in Payable /\ r # 0 /\ BeginConfirm(m, i, r)

\* _handle_btcpay_payment: Processing records, Settled records and confirms.
\* The processor's own invoice expires or is invalid: the entry is dropped.
BTCPayPayment(i) ==
    LET m == "btcpay"
        r == FindPayment(i, m, "tx")
        due == AmountDue(i, invoice[i])
    IN
    /\ m \in Monitors
    /\ \/ /\ watch[m][i] = "watching"
          /\ Report(m, i, "seen")
          /\ IF invoice[i].status \in Payable /\ r = 0
             THEN Begin(m, i, "record", Recording(m, "tx", due, FALSE))
             ELSE Ignore
       \/ /\ watch[m][i] \in {"watching", "seen"}
          /\ Report(m, i, "done")
          /\ IF invoice[i].status \notin Payable THEN Ignore
             ELSE IF r # 0 THEN BeginConfirm(m, i, r)
             ELSE Begin(m, i, "record", Recording(m, "tx", due, TRUE))
       \/ /\ watch[m][i] \in {"watching", "seen"}
          /\ Report(m, i, "unwatched")
          /\ Ignore

\* Slip: a Lightning payment is recorded and left pending.
LNbitsNotConfirmed(i) ==
    LET m == "lnbits" IN
    /\ m \in Monitors
    /\ watch[m][i] = "watching"
    /\ Report(m, i, "done")
    /\ IF invoice[i].status \in Payable /\ FindPayment(i, m, "tx") = 0
       THEN Begin(m, i, "record",
                  Recording(m, "tx", AmountDue(i, invoice[i]), FALSE))
       ELSE Ignore

\* _handle_lnbits_payment.
LNbitsPayment(i) ==
    LET m == "lnbits"
        r == FindPayment(i, m, "tx")
        due == AmountDue(i, invoice[i])
    IN
    /\ m \in Monitors
    /\ watch[m][i] = "watching"
    /\ Report(m, i, "done")
    /\ IF invoice[i].status \notin Payable THEN Ignore
       ELSE IF r # 0 THEN BeginConfirm(m, i, r)
       ELSE Begin(m, i, "record", Recording(m, "tx", due, TRUE))

\* StablecoinMonitor._check_entry: 99.5% of the expected amount is enough.
\* _handle_stablecoin_payment returns when any row of the method exists,
\* whether or not that row was ever confirmed.
StablecoinPayment(i) ==
    LET m == "stable" IN
    /\ m \in Monitors
    /\ watch[m][i] = "watching"
    /\ Report(m, i, "done")
    /\ \E fiat \in Amounts :
        /\ 1000 * fiat >= 995 * Total[i]
        /\ IF invoice[i].status \in Payable /\ FindPayment(i, m, "tx") = 0
           THEN Begin(m, i, "record", Recording(m, "tx", fiat, TRUE))
           ELSE Ignore

-------------------------------------------------------------------------------
(* record_payment / record_fiat_payment: the steps under _payment_lock.      *)

\* Take the lock and insert the Payment row (confirmations = 0: pending).
RecordPayment(t) ==
    LET i == job[t].inv
        row == [method |-> job[t].method, txid |-> job[t].txid,
                fiat |-> job[t].fiat, status |-> "pending"]
    IN
    /\ pc[t] = "record"
    /\ paymentLock = NoThread
    /\ paymentLock' = t
    /\ payments' = [payments EXCEPT ![i] = Append(@, row)]
    /\ recorded' = [recorded EXCEPT ![i] = @ + job[t].fiat]
    /\ job' = [job EXCEPT ![t].row = Len(payments[i]) + 1,
                          ![t].before = copy[t].status]
    /\ Goto(t, "credit")
    /\ UNCHANGED <<invoice, copy, watch, flagged, fulfilments, published>>

\* _credit_invoice up to invoice.save().
CreditInvoice(t) ==
    /\ pc[t] = "credit"
    /\ Save(t, Credited(job[t].inv, copy[t], job[t].fiat))
    /\ Goto(t, "flush")
    /\ UNCHANGED <<payments, recorded, paymentLock, job, watch, flagged,
                   fulfilments, published>>

\* _flush_to_disk: what reaches the disk is modelled in InvoiceDurability.
Flush(t) ==
    /\ pc[t] = "flush"
    /\ Goto(t, IF copy[t].status = "paid" THEN "fulfil" ELSE "publish")
    /\ UNCHANGED <<store, paymentLock, job, copy, watch, published>>

\* Slip: the flag is tested and never set.
FulfilUnflagged(t) ==
    LET i == job[t].inv IN
    /\ pc[t] = "fulfil"
    /\ IF i \in Storefronts /\ copy[t].meta \notin flagged[i]
       THEN fulfilments' = [fulfilments EXCEPT ![i] = @ + 1]
       ELSE UNCHANGED fulfilments
    /\ Goto(t, "publish")
    /\ UNCHANGED <<invoice, payments, recorded, paymentLock, job, copy, watch,
                   flagged, published>>

\* fulfill_storefront_invoice, guarded by the flag in the copy's metadata: the
\* flag is set in the dict itself, whoever shares it, and the copy is saved.
Fulfil(t) ==
    LET i == job[t].inv IN
    /\ pc[t] = "fulfil"
    /\ \/ /\ i \in Storefronts
          /\ copy[t].meta \notin flagged[i]
          /\ fulfilments' = [fulfilments EXCEPT ![i] = @ + 1]
          /\ flagged' = [flagged EXCEPT ![i] = @ \cup {copy[t].meta}]
          /\ Save(t, copy[t])
       \/ /\ i \notin Storefronts \/ copy[t].meta \in flagged[i]
          /\ UNCHANGED <<fulfilments, flagged, copy, invoice>>
    /\ Goto(t, "publish")
    /\ UNCHANGED <<payments, recorded, paymentLock, job, watch, published>>

\* Slip: the lock is kept when the callback returns.
PublishKeepsLock(t) ==
    /\ pc[t] = "publish"
    /\ published' = published \cup
                       {Event("payment.received", job[t].inv, job[t].row)}
    /\ IF job[t].confirm THEN Goto(t, "confirm") /\ UNCHANGED <<job, copy>>
                         ELSE Finish(t)
    /\ UNCHANGED <<store, watch, paymentLock>>

\* Slip: a payment on an invoice that was settled before it is not announced.
PublishUnsettledOnly(t) ==
    LET i == job[t].inv IN
    /\ pc[t] = "publish"
    /\ published' = published \cup
         {Event(name, i, job[t].row) : name \in
            IF job[t].before \in Settled THEN {}
            ELSE {"payment.received"} \cup
                 (IF copy[t].status = "paid" THEN {"invoice.paid"} ELSE {})}
    /\ paymentLock' = NoThread
    /\ IF job[t].confirm THEN Goto(t, "confirm") /\ UNCHANGED <<job, copy>>
                         ELSE Finish(t)
    /\ UNCHANGED <<store, watch>>

\* Slip: every payment on a paid invoice announces it as paid.
PublishPaidAgain(t) ==
    LET i == job[t].inv IN
    /\ pc[t] = "publish"
    /\ published' = published
         \cup {Event("payment.received", i, job[t].row)}
         \cup (IF copy[t].status = "paid"
               THEN {Event("invoice.paid", i, job[t].row)} ELSE {})
    /\ paymentLock' = NoThread
    /\ IF job[t].confirm THEN Goto(t, "confirm") /\ UNCHANGED <<job, copy>>
                         ELSE Finish(t)
    /\ UNCHANGED <<store, watch>>

\* The events of a recorded payment; then the lock is released, and the
\* callback goes on to confirm the payment or returns.
PublishReceived(t) ==
    LET i == job[t].inv
        turnedPaid == job[t].before \notin Settled /\ copy[t].status = "paid"
    IN
    /\ pc[t] = "publish"
    /\ published' = published
         \cup {Event("payment.received", i, job[t].row)}
         \cup (IF turnedPaid THEN {Event("invoice.paid", i, job[t].row)} ELSE {})
    /\ paymentLock' = NoThread
    /\ \/ job[t].confirm /\ Goto(t, "confirm") /\ UNCHANGED <<job, copy>>
       \/ ~ job[t].confirm /\ Finish(t)
    /\ UNCHANGED <<store, watch>>

-------------------------------------------------------------------------------
(* confirm_payment: runs outside the payment lock.                           *)

ConfirmPayment(t) ==
    /\ pc[t] = "confirm"
    /\ payments' = [payments EXCEPT
                        ![job[t].inv][job[t].row].status = "confirmed"]
    /\ Goto(t, IF copy[t].status = "paid" THEN "confirmInvoice"
                                          ELSE "publishConfirmed")
    /\ UNCHANGED <<invoice, recorded, paymentLock, job, copy, watch, flagged,
                   fulfilments, published>>

ConfirmInvoice(t) ==
    /\ pc[t] = "confirmInvoice"
    /\ Save(t, [copy[t] EXCEPT !.status = "confirmed"])
    /\ Goto(t, "flushConfirmed")
    /\ UNCHANGED <<payments, recorded, paymentLock, job, watch, flagged,
                   fulfilments, published>>

FlushConfirmed(t) ==
    /\ pc[t] = "flushConfirmed"
    /\ Goto(t, "publishConfirmed")
    /\ UNCHANGED <<store, paymentLock, job, copy, watch, published>>

PublishConfirmed(t) ==
    LET i == job[t].inv IN
    /\ pc[t] = "publishConfirmed"
    /\ published' = published
         \cup {Event("payment.confirmed", i, job[t].row)}
         \cup (IF copy[t].status = "confirmed"
               THEN {Event("invoice.confirmed", i, 0)} ELSE {})
    /\ Finish(t)
    /\ UNCHANGED <<store, paymentLock, watch>>

-------------------------------------------------------------------------------
(* The request threads. *)

\* A request reads the invoice and calls the service with it.
BeginRequest(t, i, step) ==
    /\ pc[t] = "idle"
    /\ Begin(t, i, step, NoJob)
    /\ UNCHANGED <<store, paymentLock, watch, published>>

BeginFinalize(t, i) ==
    /\ invoice[i].status = "draft"
    /\ BeginRequest(t, i, "finalize")

\* meta = dict(invoice.metadata): the new dict has the flag the old one had.
CopyFlag(i, old, new) ==
    flagged' = [flagged EXCEPT ![i] = IF old \in @ THEN @ \cup {new}
                                                   ELSE @ \ {new}]

\* The address, the rate and the processor invoice were obtained; the copy
\* becomes pending.  btc_rate_expires_at is set for on-chain invoices only; a
\* connector writes its identifiers into a new metadata dict.
FinalizeInvoice(t) ==
    LET i == job[t].inv
        meta == IF Monitors \cap {"btcpay", "lnbits"} # {}
                THEN <<"connector", t>> ELSE copy[t].meta
    IN
    /\ pc[t] = "finalize"
    /\ Save(t, [copy[t] EXCEPT !.status = "pending", !.meta = meta,
                               !.quoted = "onchain_btc" \in Monitors])
    /\ CopyFlag(i, copy[t].meta, meta)
    /\ Goto(t, "watch")
    /\ UNCHANGED <<payments, recorded, paymentLock, job, watch, fulfilments,
                   published>>

\* No address, no rate, or a connector error: ValueError, nothing is saved.
FinalizeFails(t) ==
    /\ pc[t] = "finalize"
    /\ Finish(t)
    /\ UNCHANGED <<store, paymentLock, watch, published>>

\* _watch_invoice_payments: the address and the connectors' invoices first,
\* then the stablecoin account, unless another payable invoice uses it too.
WatchInvoice(t) ==
    LET i == job[t].inv IN
    /\ pc[t] = "watch"
    /\ watch' = [m \in Monitors |->
                    IF m = "stable" THEN watch[m]
                    ELSE [watch[m] EXCEPT ![i] = "watching"]]
    /\ \/ /\ "stable" \in Monitors
          /\ CopyFlag(i, copy[t].meta, <<"baseline", t>>)
          /\ Goto(t, "baseline")
       \/ Goto(t, "flushFinal") /\ UNCHANGED flagged
    /\ UNCHANGED <<invoice, payments, recorded, paymentLock, job, copy,
                   fulfilments, published>>

\* The balance snapshot has arrived from the network: it goes into the new
\* dict, the copy is saved again, and the account is watched.
SaveBaseline(t) ==
    /\ pc[t] = "baseline"
    /\ Save(t, [copy[t] EXCEPT !.meta = <<"baseline", t>>])
    /\ watch' = [watch EXCEPT !["stable"][job[t].inv] = "watching"]
    /\ Goto(t, "flushFinal")
    /\ UNCHANGED <<payments, recorded, paymentLock, job, flagged, fulfilments,
                   published>>

FlushFinal(t) ==
    /\ pc[t] = "flushFinal"
    /\ Finish(t)
    /\ UNCHANGED <<store, paymentLock, watch, published>>

BeginCancel(t, i) ==
    /\ invoice[i].status \in {"draft", "pending"}
    /\ BeginRequest(t, i, "cancel")

CancelInvoice(t) ==
    /\ pc[t] = "cancel"
    /\ Save(t, [copy[t] EXCEPT !.status = "cancelled"])
    /\ Goto(t, "flushCancel")
    /\ UNCHANGED <<payments, recorded, paymentLock, job, watch, flagged,
                   fulfilments, published>>

FlushCancel(t) ==
    /\ pc[t] = "flushCancel"
    /\ Goto(t, "publishCancel")
    /\ UNCHANGED <<store, paymentLock, job, copy, watch, published>>

PublishCancel(t) ==
    /\ pc[t] = "publishCancel"
    /\ published' = published \cup {Event("invoice.cancelled", job[t].inv, 0)}
    /\ Finish(t)
    /\ UNCHANGED <<store, paymentLock, watch>>

\* Slip: the quote of a partly paid invoice expires the invoice.
BeginExpiryPartial(t, i) ==
    /\ invoice[i].status \in {"pending", "partial"}
    /\ invoice[i].quoted
    /\ BeginRequest(t, i, "expire")

\* start_checkout -> check_expiry: the deadline may have passed by now.  An
\* invoice with money on it does not expire.
BeginExpiry(t, i) ==
    /\ invoice[i].status \in {"pending", "partial"}
    /\ invoice[i].quoted
    /\ invoice[i].paid = 0
    /\ BeginRequest(t, i, "expire")

\* The expired invoice is saved and announced; with a wallet at hand
\* start_checkout goes on to refresh the quote, else it raises.
ExpireInvoice(t) ==
    LET row == [copy[t] EXCEPT !.status = "expired"] IN
    /\ pc[t] = "expire"
    /\ invoice' = [invoice EXCEPT ![job[t].inv] = row]
    /\ published' = published \cup {Event("invoice.expired", job[t].inv, 0)}
    /\ \/ /\ copy' = [copy EXCEPT ![t] = row]
          /\ Goto(t, "refresh")
          /\ UNCHANGED job
       \/ Finish(t)
    /\ UNCHANGED <<payments, recorded, paymentLock, watch, flagged, fulfilments>>

BeginRefresh(t, i) ==
    /\ invoice[i].status \in {"pending", "expired"}
    /\ BeginRequest(t, i, "refresh")

\* refresh_btc_quote: a new rate is locked and an expired invoice is pending
\* again; without a rate it raises before it changes anything.
RefreshQuote(t) ==
    /\ pc[t] = "refresh"
    /\ \/ invoice' = [invoice EXCEPT ![job[t].inv] =
                        [copy[t] EXCEPT !.status = "pending", !.quoted = TRUE]]
       \/ UNCHANGED invoice
    /\ Finish(t)
    /\ UNCHANGED <<payments, recorded, paymentLock, watch, flagged, fulfilments,
                   published>>

-------------------------------------------------------------------------------
Callback == \E i \in Invoices :
    \/ OnchainSeen(i)
    \/ OnchainConfirmed(i)
    \/ BTCPayPayment(i)
    \/ LNbitsPayment(i)
    \/ StablecoinPayment(i)

Request == \E t \in Requests, i \in Invoices :
    \/ BeginFinalize(t, i)
    \/ BeginCancel(t, i)
    \/ BeginExpiry(t, i)
    \/ BeginRefresh(t, i)

Continue(t) ==
    \/ RecordPayment(t)  \/ CreditInvoice(t)   \/ Flush(t)
    \/ Fulfil(t)         \/ PublishReceived(t)
    \/ ConfirmPayment(t) \/ ConfirmInvoice(t)
    \/ FlushConfirmed(t) \/ PublishConfirmed(t)
    \/ FinalizeInvoice(t) \/ FinalizeFails(t)
    \/ WatchInvoice(t)   \/ SaveBaseline(t)    \/ FlushFinal(t)
    \/ CancelInvoice(t)  \/ FlushCancel(t)     \/ PublishCancel(t)
    \/ ExpireInvoice(t)  \/ RefreshQuote(t)

Next == Callback \/ Request \/ \E t \in Threads : Continue(t)

\* A thread that has begun a job is scheduled until it is done.  Nothing makes
\* a customer pay or an administrator act, so Callback and Request are not fair.
Fairness == \A t \in Threads : WF_vars(Continue(t))

Spec == Init /\ [][Next]_vars /\ Fairness

\* The same program when jobs do not overlap.
AllIdle == \A t \in Threads : pc[t] = "idle"
OneJobAtATime == Callback \/ Request => AllIdle
SerialSpec == Init /\ [][Next /\ OneJobAtATime]_vars /\ Fairness

-------------------------------------------------------------------------------
(* Properties.  Those of the first group hold however the jobs interleave.   *)

\* Every variable has its type; the counters are what the code can count to.
TypeOK ==
    /\ invoice \in [Invoices -> InvoiceRow]
    /\ payments \in [Invoices -> Seq(PaymentRow)]
    /\ recorded \in [Invoices -> Nat]
    /\ paymentLock \in Threads \cup {NoThread}
    /\ pc \in [Threads -> Steps]
    /\ job \in [Threads -> Job]
    /\ copy \in [Threads -> InvoiceRow]
    /\ watch \in [Monitors -> [Invoices -> WatchStates]]
    /\ flagged \in [Invoices -> SUBSET Metas]
    /\ fulfilments \in [Invoices -> Nat]

Covers(i, amount) == amount > 0 /\ amount + Gift >= Total[i]

\* A row whose status and amount_paid belong together.
Coherent(i, row) ==
    /\ row.status \in Settled => Covers(i, row.paid)
    /\ row.status = "partial" => row.paid > 0 /\ ~ Covers(i, row.paid)
    /\ row.status \notin Settled \cup {"partial"} => row.paid = 0

\* Whatever stale copies are saved, status and amount_paid of a saved invoice
\* agree: nothing on it unless partial, paid or confirmed, and it is settled
\* exactly when the amount covers the total up to the accepted shortfall.
SavedRowCoherent == \A i \in Invoices : Coherent(i, invoice[i])

\* An invoice is never credited with more than the Payment rows recorded for
\* it: a stale copy loses credits, it never counts one twice.
NeverOverCredited == \A i \in Invoices : invoice[i].paid <= recorded[i]

\* An invoice shown as paid or confirmed is covered by recorded payments.
PaidIsCovered ==
    \A i \in Invoices :
        invoice[i].status \in Settled => Covers(i, recorded[i])

\* The order of a storefront invoice is counted once, also when two monitors
\* credit the invoice from copies loaded before either paid it: the copies
\* share the metadata dict that carries the flag.
FulfilledOnce == \A i \in Invoices : fulfilments[i] <= 1

Announced(name, i) == \E e \in published : e.event = name /\ e.inv = i

\* Somebody is about to announce that the invoice was closed.
Closing(i) ==
    \E t \in Threads :
        /\ job[t].inv = i
        /\ pc[t] \in {"flushCancel", "publishCancel",
                      "flushConfirmed", "publishConfirmed"}

\* The money a monitor reports is recorded, or the invoice has been closed
\* (expired, cancelled or confirmed); a monitor reports a change only once, so
\* a report dropped for any other reason would be lost for good.
DetectedIsRecorded ==
    \A m \in Monitors, i \in Invoices :
        watch[m][i] \in {"seen", "done"} /\ pc[m] = "idle" =>
            \/ Candidates(i, m) # {}
            \/ Closing(i)
            \/ \E name \in {"invoice.expired", "invoice.cancelled",
                            "invoice.confirmed"} : Announced(name, i)

\* Every Payment row is announced in the end, the first of an invoice and each
\* later one: the thread that recorded it gets through the lock, the flush and the
\* fulfilment to its event.  Rows and events are never taken back, so that all are
\* announced whenever none is left unannounced.
Unannounced(i) ==
    {n \in DOMAIN payments[i] : Event("payment.received", i, n) \notin published}
ReceiptIsAnnounced == \A i \in Invoices : Unannounced(i) # {} ~> Unannounced(i) = {}

\* A Lightning receipt is final: the row does not stay pending.
LightningConfirms ==
    \A i \in Invoices :
        (Candidates(i, "lnbits") # {}) ~>
            (\E k \in Candidates(i, "lnbits") :
                payments[i][k].status = "confirmed")

\* Every job comes to its end; no thread waits for the payment lock for ever.
JobsFinish == \A t \in Threads : pc[t] # "idle" ~> pc[t] = "idle"

-------------------------------------------------------------------------------
(* The inductive invariant behind SavedRowCoherent, NeverOverCredited and     *)
(* PaidIsCovered: what is known of every thread's private copy.               *)

\* What a job's guard established still holds of its copy, whatever has
\* happened to the row since; the row of a job to confirm exists.
PhaseOK(t) ==
    /\ pc[t] \in {"record", "credit"} => copy[t].status \in Payable
    /\ pc[t] = "confirmInvoice" => copy[t].status = "paid"
    /\ pc[t] = "finalize" => copy[t].status = "draft"
    /\ pc[t] \in {"watch", "baseline"} => copy[t].status = "pending"
    /\ pc[t] \in {"finalize", "watch", "baseline"} => t \in Requests
    /\ pc[t] = "cancel" => copy[t].status \in {"draft", "pending"}
    /\ pc[t] = "expire" => copy[t].paid = 0
    /\ pc[t] = "refresh" => copy[t].status \in {"pending", "expired"}
    /\ pc[t] \in {"credit", "flush", "fulfil", "publish", "confirm"} =>
          job[t].row \in DOMAIN payments[job[t].inv]

\* The amount that a thread has recorded and not yet put on its copy.
Uncredited(t) == IF pc[t] = "credit" THEN job[t].fiat ELSE 0

CopiesSound ==
    \A t \in Threads :
        /\ PhaseOK(t)
        /\ Coherent(job[t].inv, copy[t])
        /\ copy[t].paid + Uncredited(t) <= recorded[job[t].inv]

IInv == TypeOK /\ SavedRowCoherent /\ NeverOverCredited /\ CopiesSound

-------------------------------------------------------------------------------
(* Properties of the serial program: no two jobs on one invoice overlap.     *)

Quiet(i) == \A t \in Threads : pc[t] # "idle" => job[t].inv # i

\* The invoice is credited with every recorded payment, to the last unit.
\* record_payment claims this of concurrent payments too ("Thread-safe: uses a
\* lock to prevent race conditions on payment state"); there it fails.
CreditIsExact == \A i \in Invoices : Quiet(i) => invoice[i].paid = recorded[i]

\* A receiver of the events learns that an invoice is paid before it learns
\* that it is confirmed, and learns it once.
PaidAnnouncedFirst ==
    \A i \in Invoices :
        /\ Announced("invoice.confirmed", i) => Announced("invoice.paid", i)
        /\ \A d, e \in published :
              d.event = "invoice.paid" /\ e.event = "invoice.paid"
                /\ d.inv = i /\ e.inv = i => d = e

\* The ledger that the tables amount to: a status, what was received and what
\* was credited.
Ledger == INSTANCE InvoiceLedger WITH
            status   <- [i \in Invoices |-> invoice[i].status],
            received <- recorded,
            credited <- [i \in Invoices |-> invoice[i].paid]

\* The steps of every job of the serial program are steps of the ledger, and
\* what is received is credited in the end.
ImplementsLedger == Ledger!Spec

-------------------------------------------------------------------------------
(* What the source says, and the interleavings refute.                        *)

\* Monitors overlap each other, requests overlap nothing.
RequestsAlone ==
    /\ Request => AllIdle
    /\ Callback => \A t \in Requests : pc[t] = "idle"

\* "Cancel a draft or pending invoice": an invoice that holds a payment, as its row
\* says, is never turned into a cancelled one.
PaidIsNotCancelled ==
    [][\A i \in Invoices :
          invoice[i].status \in Settled \cup {"partial"} =>
              invoice'[i].status # "cancelled"]_vars
===============================================================================
