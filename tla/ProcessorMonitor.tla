----------------------------- MODULE ProcessorMonitor -----------------------------
(***************************************************************************)
(* An invoice that is paid through BTCPay Server or LNbits: its counterpart  *)
(* there (connectors/btcpay.py, lnbits.py, made by invoicing/service.py),    *)
(* the monitor that asks for the counterpart's status (btcpay_monitor.py,    *)
(* lnbits_monitor.py), and the handler that records the payment              *)
(* (payment_automation.py).  A callback that succeeds is one step here, and  *)
(* one that fails may have inserted its row; InvoiceService has it call by   *)
(* call.                                                                    *)
(*                                                                         *)
(* "Slip" introduces a mistaken form that a property is tested with.        *)
(***************************************************************************)
EXTENDS Integers, Sequences

CONSTANTS
    MaxStarts,      \* bound on the restarts
    MaxApiKeys,     \* bound on the API keys of the connector
    NoEntry

ASSUME ProcessorAssumption == MaxStarts \in Nat /\ MaxApiKeys \in Nat \ {0}

VARIABLES
    processor,      \* which of the two, constant
    remote,         \* status of the counterpart
    order,          \* the invoice: status, counterpart known, its Payment rows
    finalizing,     \* it is saved and not yet registered with the monitor
    connector,      \* the row: active or not, its API key, the only one accepted
    entry,          \* the entry in _watched, with its copy of the connector
    fetched,        \* the status that was asked for and is not handled yet
    unheard,        \* history: why the monitor will not hear or record a settlement
    starts

processorVars == <<processor, remote, order, finalizing, connector, entry, fetched,
                   unheard, starts>>

\* dropped: reported while the invoice was not payable; failed: the callback failed;
\* givenUp: the counterpart had expired or was invalid; key: changed while watched;
\* unwatched: connector inactive, or invoice not payable at a start.
Reasons == {"dropped", "failed", "givenUp", "key", "unwatched"}

PayableStatuses == {"pending", "paid"}
Accepts == order.status \in PayableStatuses

ProcessorInit ==
    /\ processor \in {"btcpay", "lnbits"}
    /\ remote = "none"
    /\ order = [status |-> "draft", linked |-> FALSE, rows |-> <<>>]
    /\ finalizing = FALSE
    /\ connector = [active |-> TRUE, key |-> 1]
    /\ entry = NoEntry /\ fetched = "none"
    /\ unheard = {} /\ starts = 0

-------------------------------------------------------------------------------
(* finalize_invoice: the counterpart is made, its id kept in the metadata. *)

Linked ==
    /\ order.status = "draft" /\ connector.active
    /\ remote' = "New"
    /\ order' = [order EXCEPT !.status = "pending", !.linked = TRUE]
    /\ finalizing' = TRUE
    /\ UNCHANGED <<processor, connector, entry, fetched, unheard, starts>>

CreateBtcpayInvoice == processor = "btcpay" /\ Linked
CreateLnbitsInvoice == processor = "lnbits" /\ Linked

NewEntry == [key |-> connector.key, last |-> "New"]

\* _watch_btcpay_invoice, _watch_lnbits_invoice.
WatchBtcpay ==
    IF order.linked /\ connector.active THEN NewEntry ELSE NoEntry
WatchLnbits == WatchBtcpay

Registered == IF processor = "btcpay" THEN WatchBtcpay ELSE WatchLnbits

RegisterOrder ==
    /\ finalizing /\ finalizing' = FALSE
    /\ entry' = Registered
    /\ unheard' = IF Registered = NoEntry THEN unheard \cup {"unwatched"} ELSE unheard
    /\ UNCHANGED <<processor, remote, order, connector, fetched, starts>>

-------------------------------------------------------------------------------
(* The processor and its customer, the administrator, the invoice's own life. *)

\* An invoice that has expired or is invalid with BTCPay is settled by a late payment
\* or by the merchant.
Leads == {<<"New", "Settled">>} \cup
         (IF processor = "lnbits" THEN {}
          ELSE {<<"New", "Processing">>, <<"Processing", "Settled">>,
                <<"New", "Expired">>, <<"Processing", "Invalid">>,
                <<"Expired", "Settled">>, <<"Invalid", "Settled">>})

RemoteMoves ==
    /\ \E s \in {"Processing", "Settled", "Expired", "Invalid"} :
          <<remote, s>> \in Leads /\ remote' = s
    /\ UNCHANGED <<processor, order, finalizing, connector, entry, fetched, unheard, starts>>

\* A new key in the settings: the entry keeps the old one.
RotateKey ==
    /\ connector.key < MaxApiKeys
    /\ connector' = [connector EXCEPT !.key = @ + 1]
    /\ unheard' = IF entry # NoEntry THEN unheard \cup {"key"} ELSE unheard
    /\ UNCHANGED <<processor, remote, order, finalizing, entry, fetched, starts>>

SwitchConnector ==
    /\ connector' = [connector EXCEPT !.active = ~ @]
    /\ UNCHANGED <<processor, remote, order, finalizing, entry, fetched, unheard, starts>>

\* Its quote expires and is refreshed, it is cancelled.
OrderMoves ==
    /\ \/ order.status = "pending" /\ order' = [order EXCEPT !.status = "expired"]
       \/ order.status = "expired" /\ order' = [order EXCEPT !.status = "pending"]
       \/ order.status = "pending" /\ order' = [order EXCEPT !.status = "cancelled"]
    /\ UNCHANGED <<processor, remote, finalizing, connector, entry, fetched, unheard, starts>>

-------------------------------------------------------------------------------
(* The monitor's thread. *)

\* get_invoice, check_payment: an error leaves everything for the next round.
FetchStatus ==
    /\ entry # NoEntry /\ fetched = "none"
    /\ entry.key = connector.key
    /\ fetched' = remote
    /\ UNCHANGED <<processor, remote, order, finalizing, connector, entry, unheard, starts>>

\* Slip: a row that waits for its confirmation is not found.
FindConfirmed == IF order.rows # <<>> /\ order.rows[1] = "confirmed" THEN 1 ELSE 0

\* _find_payment: the first row with the transaction id of the counterpart, which
\* is the one of every row that is recorded for it.
FindPayment == IF order.rows = <<>> THEN 0 ELSE 1

\* record_fiat_payment of what is due: the row is inserted, the invoice credited.
Inserted == [order EXCEPT !.rows = Append(@, "pending")]
Recorded == IF FindPayment = 0 THEN [Inserted EXCEPT !.status = "paid"] ELSE order

\* confirm_payment of the row that was found or recorded, if it is not confirmed:
\* the invoice follows if it is paid.
Confirmed ==
    LET n == IF FindPayment = 0 THEN Len(Recorded.rows) ELSE FindPayment
    IN  IF Recorded.rows[n] = "confirmed" THEN Recorded
        ELSE [Recorded EXCEPT !.rows[n] = "confirmed",
                              !.status = IF @ = "paid" THEN "confirmed" ELSE @]

\* _handle_btcpay_payment: a payment in progress is recorded, a settled one
\* confirmed, and recorded before unless it was.
BtcpayPayment(status) == IF status = "Settled" THEN Confirmed ELSE Recorded

\* _handle_lnbits_payment.
LnbitsPayment == Confirmed

\* _fire_payment.  A callback finds the invoice payable or does nothing; an
\* exception of it is logged, whether or not the row was inserted before it.
\* A payment in progress is reported again when it is settled.
Fire(status) ==
    \/ /\ Accepts
       /\ order' = IF processor = "btcpay" THEN BtcpayPayment(status) ELSE LnbitsPayment
       /\ UNCHANGED unheard
    \/ /\ ~ Accepts
       /\ unheard' = IF status = "Settled" THEN unheard \cup {"dropped"} ELSE unheard
       /\ UNCHANGED order
    \/ /\ Accepts
       /\ order' \in {order} \cup (IF FindPayment = 0 THEN {Inserted} ELSE {})
       /\ unheard' = IF status = "Settled" \/ order' # order
                      THEN unheard \cup {"failed"} ELSE unheard

\* Slip: a payment in progress is taken for the last word.
BtcpayReportEarly(status) ==
    /\ Fire(status)
    /\ entry' = NoEntry

\* The counterpart will not be paid: no report, and no entry any more.
GiveUp == entry' = NoEntry /\ unheard' = unheard \cup {"givenUp"} /\ UNCHANGED order

\* _check_entry of BTCPay, for a status that has changed.
BtcpayReport(status) ==
    \/ status = "Processing" /\ Fire(status) /\ entry' = [entry EXCEPT !.last = status]
    \/ status = "Settled" /\ Fire(status) /\ entry' = NoEntry
    \/ status \in {"Expired", "Invalid"} /\ GiveUp

\* _check_entry of LNbits.
LnbitsReport(status) == status = "Settled" /\ Fire(status) /\ entry' = NoEntry

HandleStatus ==
    /\ fetched # "none" /\ fetched' = "none"
    /\ \/ fetched = entry.last /\ UNCHANGED <<order, entry, unheard>>
       \/ /\ fetched # entry.last
          /\ IF processor = "btcpay" THEN BtcpayReport(fetched) ELSE LnbitsReport(fetched)
    /\ UNCHANGED <<processor, remote, finalizing, connector, starts>>

\* A row was inserted and the invoice not credited.
Uncredited == order.rows # <<>> /\ order.status \notin {"paid", "confirmed"}

\* _start_btcpay_monitor, _start_lnbits_monitor: payable invoices are registered,
\* and what was dropped is reported again; a row that was inserted is found.
StartMonitor ==
    /\ starts < MaxStarts /\ starts' = starts + 1
    /\ finalizing' = FALSE /\ fetched' = "none"
    /\ entry' = IF Accepts THEN Registered ELSE NoEntry
    /\ unheard' = {r \in {"failed", "unwatched"} :
                      \/ r = "failed" /\ Uncredited
                      \/ r = "unwatched" /\ entry' = NoEntry /\ order.status # "draft"}
    /\ UNCHANGED <<processor, remote, order, connector>>

ProcessorNext ==
    \/ CreateBtcpayInvoice \/ CreateLnbitsInvoice \/ RegisterOrder
    \/ RemoteMoves \/ RotateKey \/ SwitchConnector \/ OrderMoves
    \/ FetchStatus \/ HandleStatus \/ StartMonitor

ProcessorFairness == RegisterOrder \/ FetchStatus \/ HandleStatus

ProcessorSpec == ProcessorInit /\ [][ProcessorNext]_processorVars
              /\ WF_processorVars(ProcessorFairness)

-------------------------------------------------------------------------------
(* Properties. *)

\* What the processor received is recorded once, though a payment in progress is
\* reported again when it is settled, a restarted monitor is told of it again, and a
\* callback can fail half-way; and it is confirmed only when it is settled.
RecordedOnce ==
    /\ Len(order.rows) <= 1
    /\ \A n \in DOMAIN order.rows : order.rows[n] = "confirmed" => remote = "Settled"

\* A payment that is settled with the processor is confirmed in the end, while the
\* invoice is payable, also after it was recorded in progress, expired meanwhile or
\* the process was restarted: unless one of Reasons applies.  A restart that registers
\* the invoice again takes them back, but for a row inserted and never credited.
SettledIsConfirmed ==
    remote = "Settled" /\ Accepts /\ unheard = {} ~> ~ Accepts \/ unheard # {}
===============================================================================
