----------------------------- MODULE OnchainMonitor -----------------------------
(***************************************************************************)
(* PaymentMonitor (btpay/bitcoin/monitor.py) and its callbacks              *)
(* (payment_automation.py): a loop polls the chain for each watched address *)
(* and works on a copy of the BitcoinAddress row that it got when the       *)
(* invoice was finalized or the process started.  Each address belongs to   *)
(* one invoice here; WalletAddresses shows that addresses are not shared,   *)
(* InvoiceService has the invoice in full.                                  *)
(*                                                                         *)
(* "Slip" introduces a mistaken form that a property is tested with.        *)
(***************************************************************************)
EXTENDS Integers

CONSTANTS
    Watchable,      \* addresses, each assigned to an invoice of its own
    Sizes,          \* amounts of one transaction
    MaxTxs,         \* bound on the transactions to one address
    Small,          \* amounts below need 1 confirmation, others 2
    MaxRestarts,    \* bound on the restarts
    NoCopy          \* the monitor does not watch the address

ASSUME MonitorAssumption == Sizes \subseteq Nat \ {0} /\ MaxTxs \in Nat /\ MaxRestarts \in Nat

VARIABLES
    coins,          \* BitcoinAddress rows: status and amount_received_sat
    watching,       \* _watched: the monitor's copies of the rows
    poll,           \* what the loop is doing with an address it polls
    chain,          \* outside: what is on an address, by confirmations
    billing,        \* the invoice: its status and its payment
    restarts,       \* the number of restarts so far
    missed          \* history: the report that would have credited it came to nothing

monitorVars == <<coins, watching, poll, chain, billing, restarts, missed>>

Fresh == [status |-> "assigned", amount |-> 0]
Unfunded == [fresh |-> 0, once |-> 0, deep |-> 0, sweeping |-> FALSE, count |-> 0, paid |-> 0]
Resting == [pc |-> "idle", total |-> 0, conf |-> 0]

MonitorInit ==
    /\ coins = [a \in Watchable |-> Fresh]
    /\ watching = [a \in Watchable |-> NoCopy]
    /\ poll = [a \in Watchable |-> Resting]
    /\ chain = [a \in Watchable |-> Unfunded]
    /\ billing = [a \in Watchable |->
                    [status |-> "draft", row |-> FALSE, credited |-> 0, confirmed |-> FALSE]]
    /\ restarts = 0
    /\ missed = [a \in Watchable |-> FALSE]

-------------------------------------------------------------------------------
(* Outside: customers pay, blocks are mined, the merchant spends.  "fresh",   *)
(* "once" and "deep" are the unspent amounts with no, one and two or more      *)
(* confirmations; "sweeping" says that a transaction without a confirmation    *)
(* spends those in blocks; "count" is the number of payments, and "paid" what  *)
(* they were in all, replaced ones included.                                   *)

\* get_address_balance: funded less spent, in blocks and in all.
InBlocks(c) == c.once + c.deep
Total(c) == c.fresh + (IF c.sweeping THEN 0 ELSE InBlocks(c))

Pay(a, size) ==
    /\ chain[a].count < MaxTxs
    /\ billing[a].status # "draft"
    /\ chain' = [chain EXCEPT ![a] =
          [fresh |-> @.fresh + size, once |-> @.once, deep |-> @.deep,
           sweeping |-> @.sweeping, count |-> @.count + 1, paid |-> @.paid + size]]
    /\ UNCHANGED <<coins, watching, poll, billing, restarts, missed>>

\* A block: every transaction gets a confirmation more, up to 2.
Mine(a) ==
    /\ chain[a].fresh + chain[a].once > 0 \/ chain[a].sweeping
    /\ chain' = [chain EXCEPT ![a] =
          [fresh |-> 0, once |-> @.fresh, deep |-> IF @.sweeping THEN 0 ELSE InBlocks(@),
           sweeping |-> FALSE, count |-> @.count, paid |-> @.paid]]
    /\ UNCHANGED <<coins, watching, poll, billing, restarts, missed>>

\* What has no confirmation is replaced by its sender, or evicted.
Evict(a) ==
    /\ chain[a].fresh > 0
    /\ chain' = [chain EXCEPT ![a].fresh = 0]
    /\ UNCHANGED <<coins, watching, poll, billing, restarts, missed>>

\* The merchant spends what is in blocks.
Sweep(a) ==
    /\ InBlocks(chain[a]) > 0 /\ ~ chain[a].sweeping
    /\ chain' = [chain EXCEPT ![a].sweeping = TRUE]
    /\ UNCHANGED <<coins, watching, poll, billing, restarts, missed>>

\* get_confirmations of the latest transaction.
Confirmations(a) ==
    IF chain[a].fresh > 0 \/ chain[a].sweeping \/ InBlocks(chain[a]) = 0 THEN 0
    ELSE IF chain[a].once > 0 THEN 1 ELSE 2
Required(amount) == IF amount < Small THEN 1 ELSE 2

-------------------------------------------------------------------------------
(* The invoice. *)

Awaits(a) == billing[a].status = "pending"

\* finalize_invoice: the invoice is pending and the address watched, with a copy
\* of its row as it is then.
Finalized(a) ==
    /\ billing[a].status = "draft"
    /\ billing' = [billing EXCEPT ![a].status = "pending"]
    /\ watching' = [watching EXCEPT ![a] = coins[a]]
    /\ UNCHANGED <<coins, poll, chain, restarts, missed>>

\* cancel_invoice releases the address if nothing was seen on it; the monitor's
\* copy stays as it is.
Cancelled(a) ==
    /\ Awaits(a) /\ billing[a].credited = 0
    /\ billing' = [billing EXCEPT ![a].status = "cancelled"]
    /\ coins' = [coins EXCEPT ![a].status = IF @ = "assigned" THEN "released" ELSE @]
    /\ UNCHANGED <<watching, poll, chain, restarts, missed>>

\* check_expiry, and refresh_btc_quote that takes it back.
Expired(a) ==
    /\ Awaits(a) /\ billing[a].credited = 0
    /\ billing' = [billing EXCEPT ![a].status = "expired"]
    /\ UNCHANGED <<coins, watching, poll, chain, restarts, missed>>

Reopened(a) ==
    /\ billing[a].status = "expired"
    /\ billing' = [billing EXCEPT ![a].status = "pending"]
    /\ UNCHANGED <<coins, watching, poll, chain, restarts, missed>>

-------------------------------------------------------------------------------
(* _check_address. *)

Unwatch(a) ==
    /\ watching[a] # NoCopy /\ poll[a].pc = "idle"
    /\ watching[a].status = "confirmed"
    /\ watching' = [watching EXCEPT ![a] = NoCopy]
    /\ UNCHANGED <<coins, poll, chain, billing, restarts, missed>>

\* The balance is read; a backend that fails, or an address with nothing on it, leaves
\* everything as it is.
ReadBalance(a) ==
    /\ watching[a] # NoCopy /\ poll[a].pc = "idle"
    /\ watching[a].status \in {"assigned", "seen"}
    /\ Total(chain[a]) > 0
    /\ poll' = [poll EXCEPT ![a] = [pc |-> watching[a].status,
                                    total |-> Total(chain[a]),
                                    conf |-> InBlocks(chain[a])]]
    /\ UNCHANGED <<coins, watching, chain, billing, restarts, missed>>

\* The copy is changed and saved, over whatever the row is by now.
Save(a, status, amount) ==
    /\ watching' = [watching EXCEPT ![a] = [status |-> status, amount |-> amount]]
    /\ coins' = [coins EXCEPT ![a] = [status |-> status, amount |-> amount]]

\* Funds for the first time: mark_seen, and the callback is due.
MarkSeen(a) ==
    /\ poll[a].pc = "assigned"
    /\ Save(a, "seen", poll[a].total)
    /\ poll' = [poll EXCEPT ![a].pc = "fireSeen"]
    /\ UNCHANGED <<chain, billing, restarts, missed>>

\* Slip: what the transaction brings is recorded a second time.
CreditTwice(a, amount) ==
    IF Awaits(a) THEN [billing EXCEPT ![a].row = TRUE, ![a].credited = @ + amount] ELSE billing

\* record_payment, of an invoice that can be paid and has no payment yet.
Credit(a, amount) ==
    IF Awaits(a) /\ ~ billing[a].row
    THEN [billing EXCEPT ![a].row = TRUE, ![a].credited = amount] ELSE billing

\* The callback fails, before or after it inserts the Payment row; the row is then
\* found from now on, and never credited.
CallbackFails(a) ==
    /\ Awaits(a) /\ ~ billing[a].row
    /\ \E inserted \in BOOLEAN :
          /\ billing' = [billing EXCEPT ![a].row = inserted]
          /\ missed' = [missed EXCEPT ![a] = @ \/ inserted]

\* _fire_seen: _handle_onchain_seen records the total that was read; an exception is
\* logged.
FireSeen(a) ==
    /\ poll[a].pc = "fireSeen"
    /\ \/ billing' = Credit(a, poll[a].total) /\ UNCHANGED missed
       \/ CallbackFails(a)
    /\ poll' = [poll EXCEPT ![a].pc = "depth"]
    /\ UNCHANGED <<coins, watching, chain, restarts>>

\* An address seen before: on to its confirmations.
SeenBefore(a) ==
    /\ poll[a].pc = "seen"
    /\ poll' = [poll EXCEPT ![a].pc = "depth"]
    /\ UNCHANGED <<coins, watching, chain, billing, restarts, missed>>

Deep(a) == poll[a].conf > 0 /\ Confirmations(a) >= Required(watching[a].amount)

MarkConfirmed(a) ==
    /\ poll[a].pc = "depth" /\ Deep(a)
    /\ Save(a, "confirmed", poll[a].conf)
    /\ poll' = [poll EXCEPT ![a].pc = "fireConfirmed"]
    /\ UNCHANGED <<chain, billing, restarts, missed>>

\* Not deep enough, or the transaction cannot be looked up: the amount is saved
\* if it is another one.
UpdateAmount(a) ==
    /\ poll[a].pc = "depth"
    /\ \/ poll[a].total # watching[a].amount /\ Save(a, "seen", poll[a].total)
       \/ poll[a].total = watching[a].amount /\ UNCHANGED <<watching, coins>>
    /\ poll' = [poll EXCEPT ![a] = Resting]
    /\ UNCHANGED <<chain, billing, restarts, missed>>

\* _fire_confirmed: _handle_onchain_confirmed records the payment if no poll before
\* did, and confirms it.  If it fails instead, which is logged, or the invoice cannot
\* be paid, there is no second time.
FireConfirmed(a) ==
    /\ poll[a].pc = "fireConfirmed"
    /\ poll' = [poll EXCEPT ![a] = Resting]
    /\ \/ /\ Awaits(a)
          /\ billing' = [Credit(a, poll[a].conf) EXCEPT ![a].confirmed = TRUE]
          /\ UNCHANGED missed
       \/ /\ missed' = [missed EXCEPT ![a] = TRUE]
          /\ \/ UNCHANGED billing
             \/ Awaits(a) /\ billing' = [billing EXCEPT ![a].row = TRUE]
             \/ Awaits(a) /\ billing' = Credit(a, poll[a].conf)
    /\ UNCHANGED <<coins, watching, chain, restarts>>

\* Slip: only addresses on which nothing was seen are watched again.
ReloadedAssigned(a) == IF coins[a].status = "assigned" THEN coins[a] ELSE NoCopy

\* load_assigned_addresses.
Reloaded(a) == IF coins[a].status \in {"assigned", "seen"} THEN coins[a] ELSE NoCopy

\* The process stops and starts again with the rows as they were.
RestartMonitor ==
    /\ restarts < MaxRestarts
    /\ restarts' = restarts + 1
    /\ watching' = [a \in Watchable |-> Reloaded(a)]
    /\ poll' = [a \in Watchable |-> Resting]
    /\ missed' = [a \in Watchable |-> missed[a] \/ poll[a].pc = "fireConfirmed"]
    /\ UNCHANGED <<coins, chain, billing>>

PollStep(a) ==
    \/ ReadBalance(a) \/ MarkSeen(a)      \/ FireSeen(a)      \/ SeenBefore(a)
    \/ UpdateAmount(a) \/ MarkConfirmed(a) \/ FireConfirmed(a) \/ Unwatch(a)

MonitorNext ==
    \/ \E a \in Watchable : Mine(a) \/ Evict(a) \/ Sweep(a) \/ PollStep(a)
    \/ \E a \in Watchable : Finalized(a) \/ Cancelled(a) \/ Expired(a) \/ Reopened(a)
    \/ \E a \in Watchable, size \in Sizes : Pay(a, size)
    \/ RestartMonitor

\* The loop runs, and its backend answers now and then.
MonitorFairness ==
    \A a \in Watchable : WF_monitorVars(PollStep(a)) /\ SF_monitorVars(MarkConfirmed(a))
MonitorSpec == MonitorInit /\ [][MonitorNext]_monitorVars /\ MonitorFairness

-------------------------------------------------------------------------------
(* Properties. *)

\* The invoice is never credited with more than was paid to its address, whatever is
\* polled twice, restarted or saved from a stale copy.  What is replaced or evicted
\* once it is credited counts: a payment is credited without a confirmation, and
\* nothing takes the credit back.
CreditIsReceived ==
    \A a \in Watchable : billing[a].credited <= chain[a].paid

\* A payment deep in the chain is credited in the end to an invoice that stays
\* payable, also when it was seen while the quote was expired, the process stopped
\* after mark_seen, or the report that it is seen failed: unless the merchant spends
\* it before, a report failed and left its row, or the report of the confirmation,
\* which comes once, failed, was cut off, or came while the quote was expired.
Unnoticed(a) ==
    /\ Awaits(a) /\ watching[a] # NoCopy /\ chain[a].count = MaxTxs
    /\ chain[a].fresh = 0 /\ chain[a].once = 0 /\ Total(chain[a]) > 0
DeepPaymentsAreCredited ==
    \A a \in Watchable :
        Unnoticed(a) ~> \/ billing[a].credited > 0 \/ ~ Awaits(a) \/ missed[a]
                        \/ Total(chain[a]) = 0

\* A customer who paid a part and then pays the rest to the same address, as the
\* checkout asks ("Pay Remaining"), gets both credited: what the row of the address
\* has received when it is confirmed is credited to the invoice, if no report failed
\* and all that was paid is still there.
TopUpsAreCredited ==
    \A a \in Watchable :
        billing[a].confirmed /\ ~ missed[a] /\ Total(chain[a]) = chain[a].paid
            => billing[a].credited >= coins[a].amount
===============================================================================
