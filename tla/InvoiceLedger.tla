----------------------------- MODULE InvoiceLedger -----------------------------
(***************************************************************************)
(* What InvoiceService promises about money, without threads, rows or      *)
(* events: an invoice has a status, the sum received for it and the sum    *)
(* credited to it.  Receiving comes first; crediting catches up at once    *)
(* and decides the status.  The serial InvoiceService implements this.     *)
(***************************************************************************)
EXTENDS Integers

CONSTANTS
    Invoices,
    Total,          \* Invoice.total, by invoice
    Gift,           \* the shortfall that still counts as paid
    Amounts         \* values a receipt can have

VARIABLES status, received, credited

ledger == <<status, received, credited>>

\* The status that a sum received implies for a payable invoice.
StatusFor(i, amount) ==
    IF amount > 0 /\ amount + Gift >= Total[i] THEN "paid"
    ELSE IF amount > 0 THEN "partial" ELSE "pending"

Init ==
    /\ status = [i \in Invoices |-> "draft"]
    /\ received = [i \in Invoices |-> 0]
    /\ credited = [i \in Invoices |-> 0]

Move(i, from, to) ==
    /\ status[i] \in from
    /\ received[i] = credited[i]
    /\ status' = [status EXCEPT ![i] = to]
    /\ UNCHANGED <<received, credited>>

Finalize(i) == Move(i, {"draft"}, "pending")
Cancel(i)   == received[i] = 0 /\ Move(i, {"draft", "pending"}, "cancelled")
Expire(i)   == received[i] = 0 /\ Move(i, {"pending"}, "expired")
Reopen(i)   == Move(i, {"expired"}, "pending")
Confirm(i)  == Move(i, {"paid"}, "confirmed")

\* A receipt of a listed amount, or of exactly what is still due.
Receive(i) ==
    /\ status[i] \in {"pending", "partial", "paid"}
    /\ received[i] = credited[i]
    /\ \E amount \in Amounts \cup {Total[i] - credited[i]} :
        /\ amount >= 0
        /\ received' = [received EXCEPT ![i] = @ + amount]
    /\ UNCHANGED <<status, credited>>

Credit(i) ==
    /\ received[i] > credited[i]
    /\ credited' = [credited EXCEPT ![i] = received[i]]
    /\ status' = [status EXCEPT ![i] = StatusFor(i, received[i])]
    /\ UNCHANGED received

Next == \E i \in Invoices :
    \/ Finalize(i) \/ Cancel(i) \/ Expire(i) \/ Reopen(i)
    \/ Receive(i)  \/ Credit(i) \/ Confirm(i)

\* What was received is credited before long.
Spec == Init /\ [][Next]_ledger /\ \A i \in Invoices : WF_ledger(Credit(i))
===============================================================================
