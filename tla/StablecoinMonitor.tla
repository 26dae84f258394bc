--------------------------- MODULE StablecoinMonitor ---------------------------
(***************************************************************************)
(* Invoices paid in one stablecoin to one shared account, told apart by the *)
(* balance alone (btpay/connectors/stablecoin_monitor.py): an invoice is    *)
(* watched from a baseline unless another payable one uses the account      *)
(* (payment_automation.py), and credited with what the balance has grown.   *)
(* Whoever has it watched works on the copy of the row that it finalized.   *)
(*                                                                         *)
(* "Slip" introduces a mistaken form that a property is tested with.        *)
(***************************************************************************)
EXTENDS Integers, FiniteSetsExt

CONSTANTS
    StableInvoices, \* invoices with the method enabled
    Quoted,         \* those that can be paid in bitcoin too, so that they expire
    Due,            \* total of each, in units of the token
    Tolerated,      \* the 99.5 percent of it that suffice
    MaxSent,        \* bound on what the customers send
    MaxUpsets,      \* bound on the restarts and withdrawals
    NoBaseline,
    NobodyPolled

ASSUME StablecoinAssumption ==
    /\ Due \in Nat \ {0} /\ Tolerated \in 1 .. Due /\ MaxSent \in Nat /\ MaxUpsets \in Nat
    /\ Quoted \subseteq StableInvoices
    /\ NoBaseline \notin Nat /\ NobodyPolled \notin StableInvoices

VARIABLES
    balance,        \* what get_token_balance returns
    stable,         \* each invoice: status, baseline, Payment row, amount credited
    registering,    \* each invoice's registration, in the thread that finalizes it
    snapshot,       \* the baseline that this thread has read and not saved
    watched,        \* _watched: the invoices with an entry
    polled,         \* the entry that the monitor has fetched the balance for
    sent,           \* history: what each invoice's customer has sent
    strayed,        \* history: invoices whose growth is not their customer's alone
    overlooked,     \* history: invoices not registered, or whose report failed
    upsets

stableVars == <<balance, stable, registering, snapshot, watched, polled, sent,
                strayed, overlooked, upsets>>

Payable == {i \in StableInvoices : stable[i].status \in {"pending", "partial"}}
NobodyChecked == [inv |-> NobodyPolled, balance |-> 0]

StableInit ==
    /\ balance = 1      \* the account has been used before
    /\ stable = [i \in StableInvoices |-> [status |-> "draft", baseline |-> NoBaseline,
                                          row |-> FALSE, credited |-> 0]]
    /\ registering = [i \in StableInvoices |-> "idle"]
    /\ snapshot = [i \in StableInvoices |-> 0]
    /\ watched = {}
    /\ polled = NobodyChecked
    /\ sent = [i \in StableInvoices |-> 0]
    /\ strayed = {} /\ overlooked = {} /\ upsets = 0

-------------------------------------------------------------------------------
(* Invoices *)

\* finalize_invoice saves the invoice as pending, and then has it watched.
Finalize(i) ==
    /\ stable[i].status = "draft"
    /\ stable' = [stable EXCEPT ![i].status = "pending"]
    /\ registering' = [registering EXCEPT ![i] = "check"]
    /\ UNCHANGED <<balance, snapshot, watched, polled, strayed, overlooked, sent, upsets>>

StatusMoves(i, from, to) ==
    /\ stable[i].status = from /\ stable[i].credited = 0
    /\ stable' = [stable EXCEPT ![i].status = to]
    /\ UNCHANGED <<balance, registering, snapshot, watched, polled, strayed,
                   overlooked, sent, upsets>>

\* cancel_invoice; nothing unwatches what it, or check_expiry, closes.
CancelStable(i) == \E from \in {"draft", "pending"} : StatusMoves(i, from, "cancelled")

\* check_expiry, of a quote for bitcoin.
ExpireStable(i) == i \in Quoted /\ StatusMoves(i, "pending", "expired")

\* refresh_btc_quote: an expired invoice is pending again, watched or not.
ReopenStable(i) == StatusMoves(i, "expired", "pending")

\* _stablecoin_has_conflict.
Conflict(i) == Payable \ {i} # {}

\* _watch_stablecoin_method: the account has to be the only active one of its token
\* and chain ("alone", as the administrator has it by now), and no other payable
\* invoice may use it.  An invoice that is not watched now never will be, unless the
\* program restarts.
CheckConflict(i, alone) ==
    /\ registering[i] = "check"
    /\ IF alone /\ ~ Conflict(i)
       THEN registering' = [registering EXCEPT ![i] = "watch"] /\ UNCHANGED overlooked
       ELSE /\ registering' = [registering EXCEPT ![i] = "idle"]
            /\ overlooked' = overlooked \cup {i}
    /\ UNCHANGED <<balance, stable, snapshot, watched, polled, strayed, sent,
                   upsets>>

\* The baseline is read over the network, once; it counts as 0 if that fails.
TakeSnapshot(i, answers) ==
    /\ registering[i] = "watch" /\ stable[i].baseline = NoBaseline
    /\ registering' = [registering EXCEPT ![i] = "save"]
    /\ snapshot' = [snapshot EXCEPT ![i] = IF answers THEN balance ELSE 0]
    /\ strayed' = IF snapshot'[i] < balance THEN strayed \cup {i} ELSE strayed
    /\ UNCHANGED <<balance, stable, watched, polled, overlooked, sent,
                   upsets>>

\* It is saved with the whole copy, which was pending, whatever the row is by now,
\* and the account watched.
SaveBaseline(i) ==
    /\ registering[i] = "save"
    /\ registering' = [registering EXCEPT ![i] = "idle"]
    /\ stable' = [stable EXCEPT ![i].baseline = snapshot[i], ![i].status = "pending"]
    /\ snapshot' = [snapshot EXCEPT ![i] = 0]
    /\ watched' = watched \cup {i}
    /\ UNCHANGED <<balance, polled, strayed, overlooked, sent, upsets>>

\* Watched again from the baseline there is.
WatchAgain(i) ==
    /\ registering[i] = "watch" /\ stable[i].baseline # NoBaseline
    /\ registering' = [registering EXCEPT ![i] = "idle"]
    /\ watched' = watched \cup {i}
    /\ UNCHANGED <<balance, stable, snapshot, polled, sent, strayed, overlooked,
                   upsets>>

\* A customer sends money, as the page says, or late.
SendStable(i, amount) ==
    /\ stable[i].status # "draft"
    /\ MapThenSumSet(LAMBDA j : sent[j], StableInvoices) + amount <= MaxSent
    /\ balance' = balance + amount
    /\ sent' = [sent EXCEPT ![i] = @ + amount]
    /\ strayed' = strayed \cup {j \in StableInvoices \ {i} :
                      stable[j].baseline # NoBaseline \/ registering[j] = "save"}
    /\ UNCHANGED <<stable, registering, snapshot, watched, polled,
                   overlooked, upsets>>

\* The merchant takes the money out of the account.
Withdraw ==
    /\ balance > 0 /\ balance' = 0
    /\ upsets < MaxUpsets /\ upsets' = upsets + 1
    /\ UNCHANGED <<stable, registering, snapshot, watched, polled, sent, strayed,
                   overlooked>>

-------------------------------------------------------------------------------
(* The monitor *)

\* _check_entry asks for the balance of an entry.
FetchBalance(i) ==
    /\ i \in watched /\ polled = NobodyChecked
    /\ polled' = [inv |-> i, balance |-> balance]
    /\ UNCHANGED <<balance, stable, registering, snapshot, watched, strayed,
                   overlooked, sent, upsets>>

\* What the balance has grown beyond the baseline of the invoice.
Received == polled.balance - stable[polled.inv].baseline

\* Slip: the exact amount is asked for.
EnoughExact == Received = Due
Enough == Received >= Tolerated

\* Nothing came, or too little; a part that was seen before is not looked at again.
SeeNothing ==
    /\ polled # NobodyChecked
    /\ Received <= 0 \/ ~ Enough
    /\ polled' = NobodyChecked
    /\ UNCHANGED <<balance, stable, registering, snapshot, watched, strayed, overlooked,
                   sent, upsets>>

\* Slip: the whole balance is taken for the invoice's.
AmountWhole == polled.balance
Amount == Received

\* The invoice can be paid and has no Payment row of the method.
Open(i) == i \in Payable /\ ~ stable[i].row

\* _handle_stablecoin_payment: the row is inserted, the invoice credited and
\* confirmed; with a tolerated shortfall it may stay partly paid.
Handled(i) ==
    /\ Open(i)
    /\ \E status \in {"partial", "confirmed"} :
          /\ Amount >= Due => status = "confirmed"
          /\ stable' = [stable EXCEPT ![i].row = TRUE, ![i].credited = Amount,
                                       ![i].status = status]
    /\ UNCHANGED overlooked

\* It breaks off, before or after it inserts the row.
BrokenOff(i) ==
    /\ Open(i)
    /\ \E inserted \in BOOLEAN : stable' = [stable EXCEPT ![i].row = inserted]
    /\ overlooked' = overlooked \cup {i}

\* _fire_payment, which logs an exception of the callback.  The entry is spent,
\* whatever came of it.
SeePayment ==
    LET i == polled.inv
    IN
    /\ polled # NobodyChecked
    /\ Received > 0 /\ Enough
    /\ watched' = watched \ {i}
    /\ polled' = NobodyChecked
    /\ \/ Handled(i) \/ BrokenOff(i)
       \/ ~ Open(i) /\ UNCHANGED <<stable, overlooked>>
    /\ UNCHANGED <<balance, registering, snapshot, strayed, sent, upsets>>

\* start_payment_automation registers the payable invoices again; a Payment row that
\* was inserted stays, credited or not.
Reboot ==
    /\ upsets < MaxUpsets /\ upsets' = upsets + 1
    /\ watched' = {}
    /\ registering' = [i \in StableInvoices |-> IF i \in Payable THEN "check" ELSE "idle"]
    /\ polled' = NobodyChecked
    /\ overlooked' = {i \in overlooked : stable[i].row}
    /\ snapshot' = [i \in StableInvoices |-> 0]
    /\ UNCHANGED <<balance, stable, sent, strayed>>

\* The registering thread goes on.
Register(i) ==
    \/ SaveBaseline(i) \/ WatchAgain(i)
    \/ \E alone \in BOOLEAN : CheckConflict(i, alone)
    \/ \E answers \in BOOLEAN : TakeSnapshot(i, answers)

StableNext ==
    \/ \E i \in StableInvoices :
        \/ Finalize(i) \/ CancelStable(i) \/ ExpireStable(i) \/ ReopenStable(i)
        \/ Register(i) \/ FetchBalance(i)
        \/ \E amount \in 1 .. Due : SendStable(i, amount)
    \/ Withdraw \/ SeeNothing \/ SeePayment \/ Reboot

\* Registrations go on, and every entry is polled in turn and answered now and then.
StableFairness ==
    /\ WF_stableVars(SeeNothing \/ SeePayment)
    /\ WF_stableVars(\E i \in StableInvoices : Register(i))
    /\ \A i \in StableInvoices : SF_stableVars(FetchBalance(i))
StableSpec == StableInit /\ [][StableNext]_stableVars /\ StableFairness

-------------------------------------------------------------------------------
(* Properties *)

\* An invoice is credited with no more than its own customer sent, unless somebody
\* else paid into the account after its baseline was taken, or the baseline could
\* not be read and was taken for zero.
StableCreditIsOwn ==
    \A i \in StableInvoices \ strayed : stable[i].credited <= sent[i]

\* An invoice with an entry, for which enough has come into the account, if short of
\* the total by what is tolerated, is credited, also after a restart: unless it
\* expires or is cancelled first, the merchant takes the money out again before it is
\* seen, the callback fails, or at the restart another invoice is payable or the
\* account is no longer the only active one.
StablePaymentsAreCredited ==
    \A i \in StableInvoices :
        LET Covered == /\ stable[i].baseline # NoBaseline
                       /\ balance >= stable[i].baseline + Tolerated
        IN  i \in watched \cap Payable /\ Covered /\ i \notin overlooked
                ~> \/ stable[i].credited > 0 \/ i \notin Payable \/ ~ Covered
                   \/ i \in overlooked
===============================================================================
