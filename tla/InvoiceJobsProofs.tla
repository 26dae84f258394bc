--------------------------- MODULE InvoiceJobsProofs ---------------------------
(***************************************************************************)
(* More proofs about InvoiceService: what the jobs, taken together, do.     *)
(***************************************************************************)
EXTENDS InvoiceServiceProofs

-------------------------------------------------------------------------------
(* What a step may change at all.                                            *)

\* One step of thread t: the others' locals, the rows of other invoices and
\* what was published before stay.
OnlyMoves(t) ==
    LET i == job[t].inv
    IN  /\ \A u \in Threads \ {t} :
              pc'[u] = pc[u] /\ job'[u] = job[u] /\ copy'[u] = copy[u]
        /\ \A j \in Invoices \ {i} :
              /\ invoice'[j] = invoice[j] /\ payments'[j] = payments[j]
              /\ recorded'[j] = recorded[j] /\ flagged'[j] = flagged[j]
              /\ fulfilments'[j] = fulfilments[j]
        /\ pc'[t] = "idle" \/ job'[t].inv = i
        /\ published \subseteq published'

LEMMA JobStep ==
    ASSUME IInv, NEW t \in Threads, Continue(t)
    PROVE  OnlyMoves(t)
  <1> USE DEF OnlyMoves, IInv, TypeOK, Goto, store
  <1>1. CASE RecordPayment(t)
    BY <1>1 DEF RecordPayment, Job
  <1>2. CASE CreditInvoice(t)
    BY <1>2 DEF CreditInvoice, Save
  <1>3. CASE Flush(t) \/ FlushConfirmed(t) \/ FlushCancel(t)
    BY <1>3 DEF Flush, FlushConfirmed, FlushCancel
  <1>4. CASE Fulfil(t)
    BY <1>4 DEF Fulfil, Save
  <1>5. CASE PublishReceived(t)
    BY <1>5 DEF PublishReceived, Finish
  <1>6. CASE ConfirmPayment(t)
    BY <1>6 DEF ConfirmPayment
  <1>7. CASE ConfirmInvoice(t) \/ CancelInvoice(t)
    BY <1>7 DEF ConfirmInvoice, CancelInvoice, Save
  <1>8. CASE PublishConfirmed(t) \/ PublishCancel(t)
    BY <1>8 DEF PublishConfirmed, PublishCancel, Finish
  <1>9. CASE FinalizeInvoice(t)
    BY <1>9 DEF FinalizeInvoice, Save, CopyFlag
  <1>10. CASE FinalizeFails(t) \/ FlushFinal(t)
    BY <1>10 DEF FinalizeFails, FlushFinal, Finish
  <1>11. CASE WatchInvoice(t)
    BY <1>11 DEF WatchInvoice, CopyFlag
  <1>12. CASE SaveBaseline(t)
    BY <1>12 DEF SaveBaseline, Save
  <1>13. CASE ExpireInvoice(t)
    BY <1>13 DEF ExpireInvoice, Finish
  <1>14. CASE RefreshQuote(t)
    BY <1>14 DEF RefreshQuote, Finish
  <1> QED
    BY <1>1, <1>2, <1>3, <1>4, <1>5, <1>6, <1>7, <1>8, <1>9, <1>10, <1>11,
       <1>12, <1>13, <1>14 DEF Continue

\* What a callback of monitor m for invoice i comes to: nothing, for an invoice
\* that is not payable or a receipt that is known, a receipt to record, or a
\* recorded one to confirm.
IgnoresReport(m, i, s) ==
    /\ Ignore
    /\ \/ s = "unwatched" \/ invoice[i].status \notin Payable
       \/ Candidates(i, m) # {}

RecordsReport(m, i) ==
    /\ invoice[i].status \in Payable
    /\ \E txid \in Txids, fiat \in Nat, confirm \in BOOLEAN :
          /\ fiat \in Amounts \/ fiat = AmountDue(i, invoice[i])
          /\ Begin(m, i, "record", Recording(m, txid, fiat, confirm))

ConfirmsReport(m, i) ==
    /\ invoice[i].status \in Payable
    /\ Candidates(i, m) # {}
    /\ \E r \in DOMAIN payments[i] : Begin(m, i, "confirm", Confirming(m, r))

Reports(m, i) ==
    \E s \in {"seen", "done", "unwatched"} :
        /\ watch[m][i] # "unwatched"
        /\ Report(m, i, s)
        /\ IgnoresReport(m, i, s) \/ RecordsReport(m, i) \/ ConfirmsReport(m, i)

\* A payment that is found is one of the method's.
LEMMA FoundIsCandidate ==
    ASSUME NEW i, NEW m, NEW txid, FindPayment(i, m, txid) # 0
    PROVE  Candidates(i, m) # {}
  BY DEF FindPayment

LEMMA ConfirmReport ==
    ASSUME NEW m, NEW i, NEW r \in DOMAIN payments[i], NEW s,
           Candidates(i, m) # {}, invoice[i].status \in Payable,
           BeginConfirm(m, i, r)
    PROVE  IgnoresReport(m, i, s) \/ ConfirmsReport(m, i)
  BY DEF BeginConfirm, IgnoresReport, ConfirmsReport

LEMMA CallbackReports ==
    ASSUME IInv, NEW i \in Invoices,
           \/ OnchainSeen(i) \/ OnchainConfirmed(i) \/ BTCPayPayment(i)
           \/ LNbitsPayment(i) \/ StablecoinPayment(i)
    PROVE  \E m \in Monitors : Reports(m, i)
  <1>1. Amounts \subseteq Nat /\ {"", "tx"} \subseteq Txids
    BY ConstantsAssumption DEF Txids
  <1>2. \A m, txid : FindPayment(i, m, txid) # 0 =>
            FindPayment(i, m, txid) \in DOMAIN payments[i] /\ Candidates(i, m) # {}
    BY FindPaymentRow, FoundIsCandidate DEF IInv
  <1>3. AmountDue(i, invoice[i]) \in Nat
    BY AmountDueTyped DEF IInv
  <1>4. CASE OnchainSeen(i)
    BY <1>1, <1>2, <1>4 DEF OnchainSeen, Reports, IgnoresReport, RecordsReport
  <1>5. CASE OnchainConfirmed(i)
    BY <1>1, <1>2, <1>5, ConfirmReport
    DEF OnchainConfirmed, Reports, IgnoresReport, RecordsReport
  <1>6. ASSUME NEW m, invoice[i].status \in Payable,
               \/ Begin(m, i, "record",
                        Recording(m, "tx", AmountDue(i, invoice[i]), FALSE))
               \/ Begin(m, i, "record",
                        Recording(m, "tx", AmountDue(i, invoice[i]), TRUE))
        PROVE  RecordsReport(m, i)
    BY <1>1, <1>3, <1>6 DEF RecordsReport
  <1>7. CASE BTCPayPayment(i)
    BY <1>2, <1>6, <1>7, ConfirmReport DEF BTCPayPayment, Reports, IgnoresReport
  <1>9. CASE LNbitsPayment(i)
    BY <1>2, <1>6, <1>9, ConfirmReport DEF LNbitsPayment, Reports, IgnoresReport
  <1>8. CASE StablecoinPayment(i)
    <2>1. "stable" \in Monitors /\ watch["stable"][i] = "watching" /\ Report("stable", i, "done")
      BY <1>8 DEF StablecoinPayment
    <2>2. PICK fiat \in Amounts :
              \/ /\ invoice[i].status \in Payable /\ FindPayment(i, "stable", "tx") = 0
                 /\ Begin("stable", i, "record", Recording("stable", "tx", fiat, TRUE))
              \/ /\ ~ (invoice[i].status \in Payable /\ FindPayment(i, "stable", "tx") = 0)
                 /\ Ignore
      BY <1>8, Zenon DEF StablecoinPayment
    <2>3. CASE invoice[i].status \in Payable /\ FindPayment(i, "stable", "tx") = 0
      <3>1. RecordsReport("stable", i)
        BY <1>1, <2>2, <2>3 DEF RecordsReport
      <3> QED  BY <2>1, <3>1 DEF Reports
    <2>4. CASE ~ (invoice[i].status \in Payable /\ FindPayment(i, "stable", "tx") = 0)
      <3>1. IgnoresReport("stable", i, "done")
        BY <1>2, <2>2, <2>4 DEF IgnoresReport
      <3> QED  BY <2>1, <3>1 DEF Reports
    <2> QED  BY <2>3, <2>4
  <1> QED  BY <1>4, <1>5, <1>7, <1>8, <1>9

LEMMA BeginFacts ==
    ASSUME IInv, NEW t \in Threads, NEW i \in Invoices, NEW step, NEW args \in Job,
           Begin(t, i, step, args)
    PROVE  /\ pc'[t] = step /\ copy'[t] = invoice[i]
           /\ job'[t].inv = i /\ job'[t].method = args.method
           /\ job'[t].fiat = args.fiat
           /\ \A u \in Threads \ {t} :
                 pc'[u] = pc[u] /\ job'[u] = job[u] /\ copy'[u] = copy[u]
  BY DEF Begin, Goto, IInv, TypeOK, Job

-------------------------------------------------------------------------------
(* The inductive invariant behind DetectedIsRecorded.                        *)

\* What IInv does not say of a thread in the middle of its job.
JobFacts ==
    \A t \in Threads :
        /\ pc[t] = "fulfil" => copy[t].status = "paid"
        /\ pc[t] = "record" => t \in Monitors /\ job[t].method = t
        /\ pc[t] = "expire" => copy[t].status \in {"pending", "partial"}

\* Nothing is watched, paid or confirmed before the invoice is finalized, and
\* no stale copy makes it a draft again.
DraftIsUntouched ==
    /\ \A m \in Monitors, i \in Invoices :
          watch[m][i] # "unwatched" => invoice[i].status # "draft"
    /\ \A m \in Monitors : pc[m] # "idle" => invoice[job[m].inv].status # "draft"
    /\ \A t \in Threads : pc[t] \in {"watch", "baseline"} =>
          invoice[job[t].inv].status # "draft"

ClosedStatuses == {"expired", "cancelled", "confirmed"}
ClosedEvents   == {"invoice.expired", "invoice.cancelled", "invoice.confirmed"}

\* Thread t will announce that its invoice was cancelled or confirmed.
WillClose(t) ==
    \/ pc[t] \in {"flushCancel", "publishCancel"}
    \/ /\ pc[t] \in {"flushConfirmed", "publishConfirmed"}
       /\ copy[t].status = "confirmed"

Closed(i) ==
    \/ \E t \in Threads : job[t].inv = i /\ WillClose(t)
    \/ \E name \in ClosedEvents : Announced(name, i)

\* A closed status is announced, at the latest by the thread that saved it:
\* however often the row is overwritten, the invoice has been closed for good.
ClosedIsTold ==
    \A i \in Invoices : invoice[i].status \in ClosedStatuses => Closed(i)

\* The report of monitor m on invoice i has not been dropped.
Kept(m, i) ==
    \/ Candidates(i, m) # {}
    \/ Closed(i)
    \/ pc[m] = "record" /\ job[m].inv = i

ReportsKept ==
    \A m \in Monitors, i \in Invoices :
        watch[m][i] \in {"seen", "done"} => Kept(m, i)

DetectInv == JobFacts /\ DraftIsUntouched /\ ClosedIsTold /\ ReportsKept

LEMMA DetectInit == Init => DetectInv
  <1> USE DEF Init
  <1>1. Init => JobFacts
    BY DEF JobFacts
  <1>2. Init => DraftIsUntouched
    BY DEF DraftIsUntouched, Threads
  <1>3. Init => ClosedIsTold
    BY DEF ClosedIsTold, ClosedStatuses, NewInvoice
  <1>4. Init => ReportsKept
    BY DEF ReportsKept
  <1> QED  BY <1>1, <1>2, <1>3, <1>4 DEF DetectInv

LEMMA DetectImplies == DetectInv => DetectedIsRecorded
  BY DEF DetectInv, ReportsKept, Kept, Closed, WillClose, DetectedIsRecorded,
         Closing, ClosedEvents

\* A Payment row, once inserted, stays a candidate of its method.
LEMMA CandidatesKept ==
    ASSUME IInv, NEW t \in Threads, Continue(t), NEW i \in Invoices, NEW m
    PROVE  Candidates(i, m) \subseteq Candidates(i, m)'
  <1> USE DEF Candidates, store
  <1>1. payments[i] \in Seq(PaymentRow) /\ job[t].inv \in Invoices
    BY ThreadFacts DEF IInv, TypeOK
  <1>2. CASE RecordPayment(t)
    <2>1. \A k \in DOMAIN payments[i] :
              k \in DOMAIN payments'[i] /\ payments'[i][k] = payments[i][k]
      BY <1>1, <1>2 DEF RecordPayment, IInv, TypeOK
    <2> QED  BY <2>1
  <1>3. CASE ConfirmPayment(t)
    <2>1. \A k \in DOMAIN payments[i] :
              /\ k \in DOMAIN payments'[i]
              /\ payments'[i][k].method = payments[i][k].method
      BY <1>1, <1>3 DEF ConfirmPayment, IInv, TypeOK, PaymentRow
    <2> QED  BY <2>1
  <1>4. CASE UNCHANGED payments
    BY <1>4
  <1>5. RecordPayment(t) \/ ConfirmPayment(t) \/ UNCHANGED payments
    BY DEF Continue, CreditInvoice, Flush, Fulfil, PublishReceived,
           ConfirmInvoice, FlushConfirmed, PublishConfirmed, FinalizeInvoice,
           FinalizeFails, WatchInvoice, SaveBaseline, FlushFinal, CancelInvoice,
           FlushCancel, PublishCancel, ExpireInvoice, RefreshQuote
  <1> QED  BY <1>2, <1>3, <1>4, <1>5

LEMMA EventIsAnnounced ==
    ASSUME NEW name, NEW i, NEW r, Event(name, i, r) \in published'
    PROVE  Announced(name, i)'
  BY DEF Announced, Event

\* A thread that will announce the closing of its invoice does so.
LEMMA WillCloseKept ==
    ASSUME IInv, NEW t \in Threads, Continue(t), NEW i, job[t].inv = i,
           WillClose(t)
    PROVE  \/ job'[t].inv = i /\ WillClose(t)'
           \/ \E name \in ClosedEvents : Announced(name, i)'
  <1> USE DEF WillClose, ClosedEvents, Goto, IInv, TypeOK, store
  <1>1. CASE pc[t] \in {"flushCancel", "flushConfirmed"}
    <2>1. FlushCancel(t) \/ FlushConfirmed(t)
      BY <1>1 DEF Continue, RecordPayment, CreditInvoice, Flush, Fulfil,
           PublishReceived, ConfirmPayment, ConfirmInvoice, PublishConfirmed,
           FinalizeInvoice, FinalizeFails, WatchInvoice, SaveBaseline,
           FlushFinal, CancelInvoice, PublishCancel, ExpireInvoice, RefreshQuote
    <2> QED  BY <1>1, <2>1 DEF FlushCancel, FlushConfirmed
  <1>2. CASE pc[t] \in {"publishCancel", "publishConfirmed"}
    <2>1. PublishCancel(t) \/ PublishConfirmed(t)
      BY <1>2 DEF Continue, RecordPayment, CreditInvoice, Flush, Fulfil,
           PublishReceived, ConfirmPayment, ConfirmInvoice, FlushConfirmed,
           FinalizeInvoice, FinalizeFails, WatchInvoice, SaveBaseline,
           FlushFinal, CancelInvoice, FlushCancel, ExpireInvoice, RefreshQuote
    <2>2. CASE PublishCancel(t)
      <3>1. Event("invoice.cancelled", i, 0) \in published'
        BY <2>2 DEF PublishCancel
      <3> QED  BY <3>1, EventIsAnnounced
    <2>3. CASE PublishConfirmed(t)
      <3>1. Event("invoice.confirmed", i, 0) \in published'
        BY <1>2, <2>3 DEF PublishConfirmed
      <3> QED  BY <3>1, EventIsAnnounced
    <2> QED  BY <2>1, <2>2, <2>3
  <1> QED  BY <1>1, <1>2

LEMMA ClosedKept ==
    ASSUME IInv, NEW t \in Threads, Continue(t), NEW i \in Invoices, Closed(i)
    PROVE  Closed(i)'
  <1>1. OnlyMoves(t)
    BY JobStep
  <1>2. CASE \E name \in ClosedEvents : Announced(name, i)
    BY <1>1, <1>2 DEF OnlyMoves, Closed, Announced
  <1>3. ASSUME NEW u \in Threads, u # t, job[u].inv = i, WillClose(u)
        PROVE  Closed(i)'
    <2>1. pc'[u] = pc[u] /\ job'[u] = job[u] /\ copy'[u] = copy[u]
      BY <1>1, <1>3 DEF OnlyMoves
    <2>2. job'[u].inv = i /\ WillClose(u)'
      BY <1>3, <2>1 DEF WillClose
    <2> QED  BY <2>2 DEF Closed
  <1>4. CASE job[t].inv = i /\ WillClose(t)
    BY <1>4, WillCloseKept DEF Closed
  <1>5. ASSUME NEW u \in Threads, job[u].inv = i, WillClose(u)
        PROVE  Closed(i)'
    BY <1>3, <1>4, <1>5
  <1> QED  BY <1>2, <1>5 DEF Closed

\* What a thread saves is no draft, and if it closes the invoice, the thread has
\* announced it or will.
LEMMA RowSaved ==
    ASSUME IInv, JobFacts, NEW t \in Threads, Continue(t), NEW i \in Invoices
    PROVE  \/ invoice'[i] = invoice[i]
           \/ /\ i = job[t].inv
              /\ invoice'[i].status # "draft"
              /\ invoice'[i].status \in ClosedStatuses => Closed(i)'
  <1> USE DEF Goto, Save, ClosedStatuses
  <1>1. /\ job[t].inv \in Invoices /\ copy[t] \in InvoiceRow
        /\ invoice \in [Invoices -> InvoiceRow] /\ pc \in [Threads -> Steps]
        /\ copy \in [Threads -> InvoiceRow]
    BY ThreadFacts DEF IInv, TypeOK
  <1>2. PhaseOK(t)
    BY DEF IInv, CopiesSound
  <1>3. CASE UNCHANGED invoice
    BY <1>3
  <1>4. CASE CreditInvoice(t)
    <2>1. copy[t].status \in Payable
      BY <1>2, <1>4 DEF CreditInvoice, PhaseOK
    <2>2. Credited(job[t].inv, copy[t], job[t].fiat).status \in Payable
      BY <1>1, <2>1 DEF Credited, Payable, InvoiceRow
    <2> QED  BY <1>1, <1>4, <2>2 DEF CreditInvoice, Payable
  <1>5. CASE Fulfil(t)
    BY <1>1, <1>5 DEF Fulfil, JobFacts
  <1>6. CASE ConfirmInvoice(t)
    <2>1. /\ \/ invoice'[i] = invoice[i]
             \/ i = job[t].inv /\ invoice'[i].status # "draft"
          /\ pc'[t] = "flushConfirmed" /\ copy'[t].status = "confirmed"
          /\ job' = job
      BY <1>1, <1>6 DEF ConfirmInvoice, InvoiceRow
    <2> QED  BY <2>1 DEF Closed, WillClose
  <1>7. CASE CancelInvoice(t)
    <2>1. /\ \/ invoice'[i] = invoice[i]
             \/ i = job[t].inv /\ invoice'[i].status # "draft"
          /\ pc'[t] = "flushCancel" /\ job' = job
      BY <1>1, <1>7 DEF CancelInvoice, InvoiceRow
    <2> QED  BY <2>1 DEF Closed, WillClose
  <1>8. CASE ExpireInvoice(t)
    <2>1. Event("invoice.expired", job[t].inv, 0) \in published'
      BY <1>8 DEF ExpireInvoice
    <2>2. i = job[t].inv => Announced("invoice.expired", i)'
      BY <2>1, EventIsAnnounced
    <2>3. \/ invoice'[i] = invoice[i]
          \/ i = job[t].inv /\ invoice'[i].status # "draft"
      BY <1>1, <1>8 DEF ExpireInvoice, InvoiceRow
    <2> QED  BY <2>2, <2>3 DEF Closed, ClosedEvents
  <1>9. CASE FinalizeInvoice(t)
    BY <1>1, <1>9 DEF FinalizeInvoice, InvoiceRow
  <1>10. CASE SaveBaseline(t)
    <2>1. copy[t].status = "pending"
      BY <1>2, <1>10 DEF SaveBaseline, PhaseOK
    <2> QED  BY <1>1, <1>10, <2>1 DEF SaveBaseline, InvoiceRow
  <1>11. CASE RefreshQuote(t)
    BY <1>1, <1>11 DEF RefreshQuote, InvoiceRow
  <1> QED
    BY <1>3, <1>4, <1>5, <1>6, <1>7, <1>8, <1>9, <1>10, <1>11
    DEF Continue, RecordPayment, Flush, PublishReceived, ConfirmPayment, store,
        FlushConfirmed, PublishConfirmed, FinalizeFails, WatchInvoice,
        FlushFinal, FlushCancel, PublishCancel

\* Where a thread that reads or may fulfil goes to.
LEMMA StepsTaken ==
    ASSUME IInv, NEW t \in Threads, Continue(t)
    PROVE  /\ pc'[t] \notin {"record", "finalize", "expire"} /\ pc[t] # "idle"
           /\ pc'[t] = "fulfil" => copy'[t] = copy[t] /\ copy[t].status = "paid"
           /\ pc'[t] = "watch" => invoice'[job[t].inv].status = "pending"
           /\ pc'[t] = "baseline" => pc[t] = "watch" /\ UNCHANGED invoice
           /\ \A m \in Monitors, i \in Invoices :
                 \/ watch'[m][i] = watch[m][i]
                 \/ /\ watch'[m][i] = "watching" /\ i = job[t].inv
                    /\ \/ pc[t] = "watch" /\ UNCHANGED invoice
                       \/ invoice'[i].status = "pending"
           /\ pc[t] = "record" => RecordPayment(t)
  <1> USE DEF Goto, IInv, TypeOK, store
  <1>1. CASE RecordPayment(t) \/ CreditInvoice(t) \/ Flush(t) \/ Fulfil(t)
    BY <1>1 DEF RecordPayment, CreditInvoice, Flush, Fulfil
  <1>2. CASE PublishReceived(t) \/ ConfirmPayment(t) \/ ConfirmInvoice(t)
    BY <1>2 DEF PublishReceived, ConfirmPayment, ConfirmInvoice, Finish
  <1>3. CASE FlushConfirmed(t) \/ PublishConfirmed(t) \/ FinalizeFails(t)
    BY <1>3 DEF FlushConfirmed, PublishConfirmed, FinalizeFails, Finish
  <1>4. CASE FinalizeInvoice(t)
    BY <1>4 DEF FinalizeInvoice, Save, Job, InvoiceRow
  <1>5. CASE WatchInvoice(t)
    BY <1>5 DEF WatchInvoice
  <1>6. CASE SaveBaseline(t)
    <2>1. copy[t].status = "pending"
      BY <1>6 DEF SaveBaseline, CopiesSound, PhaseOK
    <2> QED  BY <1>6, <2>1 DEF SaveBaseline, Save, Job, InvoiceRow
  <1>7. CASE FlushFinal(t) \/ CancelInvoice(t) \/ FlushCancel(t)
    BY <1>7 DEF FlushFinal, CancelInvoice, FlushCancel, Finish
  <1>8. CASE PublishCancel(t) \/ ExpireInvoice(t) \/ RefreshQuote(t)
    BY <1>8 DEF PublishCancel, ExpireInvoice, RefreshQuote, Finish
  <1> QED
    BY <1>1, <1>2, <1>3, <1>4, <1>5, <1>6, <1>7, <1>8 DEF Continue

LEMMA DetectContinue ==
    ASSUME IInv, DetectInv, NEW t \in Threads, Continue(t)
    PROVE  DetectInv'
  <1>1. /\ OnlyMoves(t) /\ JobFacts /\ DraftIsUntouched /\ ClosedIsTold
        /\ ReportsKept /\ Monitors \subseteq Threads /\ job[t].inv \in Invoices
    BY JobStep, ThreadFacts DEF DetectInv, Threads
  <1>2. \A i \in Invoices :
            \/ invoice'[i] = invoice[i]
            \/ /\ i = job[t].inv
               /\ invoice'[i].status # "draft"
               /\ invoice'[i].status \in ClosedStatuses => Closed(i)'
    BY <1>1, RowSaved
  <1>3. \A i \in Invoices : Closed(i) => Closed(i)'
    BY ClosedKept
  <1>4. JobFacts'
    <2> SUFFICES ASSUME NEW u \in Threads
                 PROVE  /\ pc'[u] = "fulfil" => copy'[u].status = "paid"
                        /\ pc'[u] = "record" => u \in Monitors /\ job'[u].method = u
                        /\ pc'[u] = "expire" =>
                              copy'[u].status \in {"pending", "partial"}
      BY DEF JobFacts
    <2>1. CASE u = t
      BY <2>1, StepsTaken
    <2>2. CASE u # t
      BY <1>1, <2>2 DEF OnlyMoves, JobFacts
    <2> QED  BY <2>1, <2>2
  <1>5. DraftIsUntouched'
    <2>1. \A i \in Invoices : invoice'[i].status = "draft" => invoice[i].status = "draft"
      BY <1>2
    <2>2. ASSUME NEW m \in Monitors, NEW i \in Invoices,
                 watch'[m][i] # "unwatched"
          PROVE  invoice'[i].status # "draft"
      <3>1. CASE watch'[m][i] = watch[m][i]
        BY <1>1, <2>1, <2>2, <3>1 DEF DraftIsUntouched
      <3>2. CASE i = job[t].inv /\ pc[t] = "watch" /\ UNCHANGED invoice
        BY <1>1, <3>2 DEF DraftIsUntouched
      <3>3. CASE invoice'[i].status = "pending"
        BY <3>3
      <3> QED  BY <3>1, <3>2, <3>3, StepsTaken
    <2>3. ASSUME NEW m \in Monitors, pc'[m] # "idle"
          PROVE  invoice'[job'[m].inv].status # "draft"
      <3>1. /\ m \in Threads /\ pc[m] # "idle" /\ job'[m].inv = job[m].inv
            /\ job[m].inv \in Invoices
        BY <1>1, <2>3, ThreadFacts, StepsTaken DEF OnlyMoves
      <3> QED  BY <1>1, <2>1, <3>1 DEF DraftIsUntouched
    <2>4. ASSUME NEW u \in Threads, pc'[u] \in {"watch", "baseline"}
          PROVE  invoice'[job'[u].inv].status # "draft"
      <3>1. CASE u = t
        <4>1. job'[t].inv = job[t].inv
          BY <1>1, <2>4, <3>1 DEF OnlyMoves
        <4>2. CASE pc'[t] = "watch"
          BY <4>1, <4>2, <3>1, StepsTaken
        <4>3. CASE pc'[t] = "baseline"
          BY <1>1, <4>1, <4>3, <3>1, StepsTaken DEF DraftIsUntouched
        <4> QED  BY <2>4, <3>1, <4>2, <4>3
      <3>2. CASE u # t
        <4>1. pc'[u] = pc[u] /\ job'[u] = job[u] /\ job[u].inv \in Invoices
          BY <1>1, <3>2, ThreadFacts DEF OnlyMoves
        <4> QED  BY <1>1, <2>1, <2>4, <4>1 DEF DraftIsUntouched
      <3> QED  BY <3>1, <3>2
    <2> QED  BY <2>2, <2>3, <2>4 DEF DraftIsUntouched
  <1>6. ClosedIsTold'
    <2> SUFFICES ASSUME NEW i \in Invoices, invoice'[i].status \in ClosedStatuses
                 PROVE  Closed(i)'
      BY DEF ClosedIsTold, ClosedStatuses
    <2>1. CASE invoice'[i] = invoice[i]
      BY <1>1, <1>3, <2>1 DEF ClosedIsTold
    <2> QED  BY <1>2, <2>1
  <1>7. ReportsKept'
    <2> SUFFICES ASSUME NEW m \in Monitors, NEW i \in Invoices,
                        watch'[m][i] \in {"seen", "done"}
                 PROVE  Kept(m, i)'
      BY DEF ReportsKept
    <2>1. watch[m][i] \in {"seen", "done"}
      BY StepsTaken
    <2>2. CASE Candidates(i, m) # {}
      BY <2>2, CandidatesKept DEF Kept
    <2>3. CASE Closed(i)
      BY <1>3, <2>3 DEF Kept
    <2>4. CASE pc[m] = "record" /\ job[m].inv = i
      <3>1. CASE m # t
        BY <1>1, <2>4, <3>1 DEF Kept, OnlyMoves
      <3>2. CASE m = t
        <4>1. RecordPayment(t) /\ job[t].method = t /\ payments[i] \in Seq(PaymentRow)
          BY <1>1, <2>4, <3>2, StepsTaken, ThreadFacts DEF JobFacts
        <4>2. /\ Len(payments[i]) + 1 \in DOMAIN payments'[i]
              /\ payments'[i][Len(payments[i]) + 1].method = m
          BY <2>4, <3>2, <4>1 DEF RecordPayment, IInv, TypeOK
        <4> QED  BY <4>2 DEF Kept, Candidates
      <3> QED  BY <3>1, <3>2
    <2> QED  BY <1>1, <2>1, <2>2, <2>3, <2>4 DEF ReportsKept, Kept
  <1> QED  BY <1>4, <1>5, <1>6, <1>7 DEF DetectInv

\* An idle thread takes up a job, or a monitor only notes what it has seen.
LEMMA DetectBegin ==
    ASSUME IInv, DetectInv, NEW t \in Threads, pc[t] = "idle",
           NEW i \in Invoices, UNCHANGED <<store, published>>,
           \/ Ignore
           \/ \E step \in {"record", "confirm", "finalize", "cancel", "expire",
                           "refresh"}, args \in Job :
                 /\ step = "record" => t \in Monitors /\ args.method = t
                 /\ step = "expire" => invoice[i].status \in {"pending", "partial"}
                 /\ Begin(t, i, step, args),
           t \in Monitors => invoice[i].status # "draft",
           \A m \in Monitors, j \in Invoices :
              watch'[m][j] # "unwatched" => watch[m][j] # "unwatched"
    PROVE  /\ JobFacts' /\ DraftIsUntouched' /\ ClosedIsTold'
           /\ \A m \in Monitors, j \in Invoices : Kept(m, j) => Kept(m, j)'
  <1>1. /\ JobFacts /\ DraftIsUntouched /\ ClosedIsTold
        /\ Monitors \subseteq Threads
        /\ \A u \in Threads : job[u] \in Job /\ job[u].inv \in Invoices
        /\ UNCHANGED <<invoice, payments, published>>
    BY ThreadFacts DEF DetectInv, Threads, store
  <1>2. \A u \in Threads \ {t} :
            pc'[u] = pc[u] /\ job'[u] = job[u] /\ copy'[u] = copy[u]
    BY BeginFacts DEF Ignore
  <1>3. \/ pc'[t] = "idle"
        \/ /\ pc'[t] \in {"record", "confirm", "finalize", "cancel", "expire",
                          "refresh"}
           /\ pc'[t] = "record" => t \in Monitors /\ job'[t].method = t
           /\ pc'[t] = "expire" => copy'[t].status \in {"pending", "partial"}
           /\ job'[t].inv = i
    BY BeginFacts DEF Ignore
  <1>4. JobFacts'
    <2> SUFFICES ASSUME NEW u \in Threads
                 PROVE  /\ pc'[u] = "fulfil" => copy'[u].status = "paid"
                        /\ pc'[u] = "record" => u \in Monitors /\ job'[u].method = u
                        /\ pc'[u] = "expire" =>
                              copy'[u].status \in {"pending", "partial"}
      BY DEF JobFacts
    <2> QED  BY <1>1, <1>2, <1>3 DEF JobFacts
  <1>5. DraftIsUntouched'
    <2>1. ASSUME NEW m \in Monitors, pc'[m] # "idle"
          PROVE  invoice'[job'[m].inv].status # "draft"
      BY <1>1, <1>2, <1>3, <2>1 DEF DraftIsUntouched
    <2>2. ASSUME NEW u \in Threads, pc'[u] \in {"watch", "baseline"}
          PROVE  invoice'[job'[u].inv].status # "draft"
      BY <1>1, <1>2, <1>3, <2>2 DEF DraftIsUntouched
    <2> QED  BY <1>1, <2>1, <2>2 DEF DraftIsUntouched
  <1>6. ASSUME NEW j \in Invoices, Closed(j) PROVE Closed(j)'
    <2>1. CASE \E name \in ClosedEvents : Announced(name, j)
      BY <1>1, <2>1 DEF Closed, Announced
    <2>2. ASSUME NEW u \in Threads, job[u].inv = j, WillClose(u)
          PROVE  Closed(j)'
      <3>1. u # t
        BY <2>2 DEF WillClose
      <3>2. job'[u].inv = j /\ WillClose(u)'
        BY <1>2, <2>2, <3>1 DEF WillClose
      <3> QED  BY <3>2 DEF Closed
    <2> QED  BY <1>6, <2>1, <2>2 DEF Closed
  <1>7. ClosedIsTold'
    BY <1>1, <1>6 DEF ClosedIsTold
  <1>8. ASSUME NEW m \in Monitors, NEW j \in Invoices, Kept(m, j)
        PROVE  Kept(m, j)'
    <2>1. CASE Candidates(j, m) # {}
      BY <1>1, <2>1 DEF Kept, Candidates
    <2>2. CASE Closed(j)
      BY <1>6, <2>2 DEF Kept
    <2>3. CASE pc[m] = "record" /\ job[m].inv = j
      BY <1>1, <1>2, <2>3 DEF Kept
    <2> QED  BY <1>8, <2>1, <2>2, <2>3 DEF Kept
  <1> QED  BY <1>4, <1>5, <1>7, <1>8

\* A callback that goes on takes up the invoice with a job of its own method.
LEMMA ReportBegins ==
    ASSUME IInv, NEW m \in Monitors, NEW i \in Invoices, Reports(m, i)
    PROVE  \/ Ignore
           \/ \E step \in {"record", "confirm"}, args \in Job :
                 args.method = m /\ Begin(m, i, step, args)
  <1>1. m \in Methods
    BY ConstantsAssumption
  <1>2. CASE RecordsReport(m, i)
    <2>1. PICK txid \in Txids, fiat \in Nat, confirm \in BOOLEAN :
              Begin(m, i, "record", Recording(m, txid, fiat, confirm))
      BY <1>2 DEF RecordsReport
    <2>2. /\ Recording(m, txid, fiat, confirm) \in Job
          /\ Recording(m, txid, fiat, confirm).method = m
      BY <1>1, RecordingTyped, NoJobTyped DEF Recording, Job
    <2> QED  BY <2>1, <2>2
  <1>3. CASE ConfirmsReport(m, i)
    <2>1. PICK r \in DOMAIN payments[i] : Begin(m, i, "confirm", Confirming(m, r))
      BY <1>3 DEF ConfirmsReport
    <2>2. r \in Nat
      BY DEF IInv, TypeOK
    <2>3. Confirming(m, r) \in Job /\ Confirming(m, r).method = m
      BY <1>1, <2>2, NoJobTyped DEF Confirming, Job
    <2> QED  BY <2>1, <2>3
  <1> QED  BY <1>2, <1>3 DEF Reports, IgnoresReport

LEMMA DetectCallback ==
    ASSUME IInv, DetectInv, NEW m \in Monitors, NEW i \in Invoices, Reports(m, i)
    PROVE  DetectInv'
  <1>1. m \in Threads /\ m \in Methods /\ ReportsKept /\ ClosedIsTold
    BY ConstantsAssumption DEF Threads, DetectInv
  <1>2. PICK s \in {"seen", "done", "unwatched"} :
            /\ watch[m][i] # "unwatched"
            /\ Report(m, i, s)
            /\ IgnoresReport(m, i, s) \/ RecordsReport(m, i) \/ ConfirmsReport(m, i)
    BY DEF Reports
  <1>3. /\ pc[m] = "idle" /\ UNCHANGED <<store, published>>
        /\ invoice[i].status # "draft"
        /\ \A n \in Monitors, j \in Invoices :
              \/ watch'[n][j] = watch[n][j]
              \/ n = m /\ j = i /\ watch'[n][j] = s
    BY <1>2 DEF Report, DetectInv, DraftIsUntouched, IInv, TypeOK
  <1>4. \/ Ignore
        \/ \E step \in {"record", "confirm"}, args \in Job :
              args.method = m /\ Begin(m, i, step, args)
    BY ReportBegins
  <1>5. /\ JobFacts' /\ DraftIsUntouched' /\ ClosedIsTold'
        /\ \A n \in Monitors, j \in Invoices : Kept(n, j) => Kept(n, j)'
    <2>1. \A n \in Monitors, j \in Invoices :
              watch'[n][j] # "unwatched" => watch[n][j] # "unwatched"
      BY <1>2, <1>3
    <2> QED  BY <1>1, <1>3, <1>4, <2>1, DetectBegin
  <1>6. Kept(m, i) \/ RecordsReport(m, i) \/ s = "unwatched"
    <2>1. CASE IgnoresReport(m, i, s)
      <3>1. CASE invoice[i].status \notin Payable
        <4>1. invoice[i].status \in Statuses
          BY DEF IInv, TypeOK, InvoiceRow
        <4>2. invoice[i].status \in ClosedStatuses
          BY <1>3, <3>1, <4>1 DEF Payable, Statuses, ClosedStatuses
        <4> QED  BY <1>1, <4>2 DEF ClosedIsTold, Kept
      <3> QED  BY <2>1, <3>1 DEF IgnoresReport, Kept
    <2>2. CASE ConfirmsReport(m, i)
      BY <2>2 DEF ConfirmsReport, Kept
    <2> QED  BY <1>2, <2>1, <2>2
  <1>7. RecordsReport(m, i) => Kept(m, i)'
    <2> SUFFICES ASSUME RecordsReport(m, i) PROVE Kept(m, i)'
      OBVIOUS
    <2>1. pc'[m] = "record" /\ job'[m].inv = i
      BY <1>1 DEF RecordsReport, Begin, Goto, IInv, TypeOK, Job
    <2> QED  BY <2>1 DEF Kept
  <1>8. ReportsKept'
    <2> SUFFICES ASSUME NEW n \in Monitors, NEW j \in Invoices,
                        watch'[n][j] \in {"seen", "done"}
                 PROVE  Kept(n, j)'
      BY DEF ReportsKept
    <2> QED  BY <1>1, <1>3, <1>5, <1>6, <1>7 DEF ReportsKept
  <1> QED  BY <1>5, <1>8 DEF DetectInv

\* What a request found when it took up the invoice.
RequestBegins(t, i) ==
    \E step \in {"finalize", "cancel", "expire", "refresh"} :
        /\ BeginRequest(t, i, step)
        /\ step = "finalize" => invoice[i].status = "draft"
        /\ step = "cancel" => invoice[i].status \in {"draft", "pending"}
        /\ step = "expire" => /\ invoice[i].status \in {"pending", "partial"}
                              /\ invoice[i].paid = 0
        /\ step = "refresh" => invoice[i].status \in {"pending", "expired"}

LEMMA RequestCases ==
    ASSUME NEW t, NEW i, \/ BeginFinalize(t, i) \/ BeginCancel(t, i)
                         \/ BeginExpiry(t, i)   \/ BeginRefresh(t, i)
    PROVE  RequestBegins(t, i)
  BY DEF BeginFinalize, BeginCancel, BeginExpiry, BeginRefresh, RequestBegins

LEMMA DetectRequest ==
    ASSUME IInv, DetectInv, NEW t \in Requests, NEW i \in Invoices,
           RequestBegins(t, i)
    PROVE  DetectInv'
  <1>1. /\ t \in Threads /\ t \notin Monitors /\ NoJob \in Job
        /\ pc[t] = "idle" /\ UNCHANGED <<store, published, watch>>
    BY ConstantsAssumption, NoJobTyped DEF Threads, RequestBegins, BeginRequest
  <1>2. PICK step \in {"finalize", "cancel", "expire", "refresh"} :
            /\ Begin(t, i, step, NoJob)
            /\ step = "expire" => invoice[i].status \in {"pending", "partial"}
    BY DEF RequestBegins, BeginRequest
  <1>3. /\ JobFacts' /\ DraftIsUntouched' /\ ClosedIsTold'
        /\ \A n \in Monitors, j \in Invoices : Kept(n, j) => Kept(n, j)'
    <2>1. \A n \in Monitors, j \in Invoices :
              watch'[n][j] # "unwatched" => watch[n][j] # "unwatched"
      BY <1>1
    <2> QED  BY <1>1, <1>2, <2>1, DetectBegin
  <1>4. ReportsKept'
    BY <1>1, <1>3 DEF DetectInv, ReportsKept
  <1> QED  BY <1>3, <1>4 DEF DetectInv

LEMMA DetectStutters ==
    ASSUME DetectInv, UNCHANGED vars
    PROVE  DetectInv'
  <1> USE DEF vars
  <1>1. \A i : Closed(i) => Closed(i)'
    BY DEF Closed, WillClose, Announced
  <1>2. JobFacts' /\ DraftIsUntouched' /\ ClosedIsTold'
    BY <1>1 DEF DetectInv, JobFacts, DraftIsUntouched, ClosedIsTold
  <1>3. ReportsKept'
    BY <1>1 DEF DetectInv, ReportsKept, Kept, Candidates
  <1> QED  BY <1>2, <1>3 DEF DetectInv

LEMMA DetectNext ==
    ASSUME IInv, DetectInv, [Next]_vars
    PROVE  DetectInv'
  <1>1. CASE Callback
    BY <1>1, CallbackReports, DetectCallback DEF Callback
  <1>2. CASE Request
    BY <1>2, RequestCases, DetectRequest DEF Request
  <1>3. ASSUME NEW t \in Threads, Continue(t) PROVE DetectInv'
    BY <1>3, DetectContinue
  <1>4. CASE UNCHANGED vars
    BY <1>4, DetectStutters
  <1> QED  BY <1>1, <1>2, <1>3, <1>4 DEF Next

LEMMA DetectInvariance == Spec => []DetectInv
  <1>1. Init => DetectInv
    BY DetectInit
  <1>2. IInv /\ DetectInv /\ [Next]_vars => DetectInv'
    BY DetectNext
  <1> QED  BY <1>1, <1>2, Invariance, PTL DEF Spec

\* A report a monitor makes is never lost, however its callback, the requests
\* and the other monitors interleave and whichever stale copies are saved: a
\* Payment row is inserted, or the invoice was announced as expired, cancelled
\* or confirmed.
THEOREM ReportsAreRecorded == Spec => []DetectedIsRecorded
  <1>1. DetectInv => DetectedIsRecorded
    BY DetectImplies
  <1> QED  BY <1>1, DetectInvariance, PTL

-------------------------------------------------------------------------------
(* The order of an invoice is counted once, as long as the copies of its row *)
(* share one metadata dict.                                                  *)

Connected == Monitors \cap {"btcpay", "lnbits"} # {}

\* Finalizing assigns at most one new metadata dict to an invoice: there is no
\* stablecoin account whose baseline needs one, and with a connector a single
\* thread finalizes.
SharedMetadata ==
    /\ "stable" \notin Monitors
    /\ Connected => \A r, s \in Requests : r = s

\* The dict that an invoice has from its finalization on.
FinalMeta == IF Connected THEN <<"connector", CHOOSE r \in Requests : TRUE>>
                          ELSE CreatedMeta

HasFinalMeta(row) ==
    row.status \notin {"draft", "cancelled"} \/ ~ Connected =>
        row.meta = FinalMeta

\* Every copy that can fulfil has the final dict, and that dict carries the
\* flag once the order is counted; while a thread finalizes through a connector
\* the row is still the draft that nobody fulfils.
MetaInv ==
    /\ \A i \in Invoices : HasFinalMeta(invoice[i])
    /\ \A t \in Threads : HasFinalMeta(copy[t]) /\ pc[t] # "baseline"
    /\ \A i \in Invoices :
          \/ fulfilments[i] = 0
          \/ /\ fulfilments[i] = 1
             /\ invoice[i].status # "draft"
             /\ FinalMeta \in flagged[i]
    /\ \A t \in Threads : pc[t] = "finalize" /\ Connected =>
          invoice[job[t].inv].status = "draft"

\* A thread holds and saves rows with the final dict.
LEMMA MetaSaved ==
    ASSUME SharedMetadata, IInv, JobFacts, MetaInv, NEW t \in Threads, Continue(t)
    PROVE  /\ HasFinalMeta(copy'[t])
           /\ \A i \in Invoices :
                 invoice'[i] = invoice[i] \/ HasFinalMeta(invoice'[i])
  <1> USE DEF Goto, Save
  <1>1. /\ job[t].inv \in Invoices /\ copy[t] \in InvoiceRow
        /\ invoice \in [Invoices -> InvoiceRow] /\ pc \in [Threads -> Steps]
        /\ copy \in [Threads -> InvoiceRow]
    BY ThreadFacts DEF IInv, TypeOK
  <1>2. PhaseOK(t) /\ HasFinalMeta(copy[t]) /\ pc[t] # "baseline"
    BY DEF IInv, CopiesSound, MetaInv
  <1>3. CASE UNCHANGED <<invoice, copy>>
    BY <1>2, <1>3
  <1>4. CASE CreditInvoice(t)
    <2> DEFINE row == Credited(job[t].inv, copy[t], job[t].fiat)
    <2>1. copy[t].status \in Payable
      BY <1>2, <1>4 DEF CreditInvoice, PhaseOK
    <2>2. row.meta = copy[t].meta
      BY <1>1 DEF Credited, InvoiceRow
    <2>3. HasFinalMeta(row)
      BY <1>2, <2>1, <2>2 DEF HasFinalMeta, Payable
    <2> QED  BY <1>1, <1>4, <2>3 DEF CreditInvoice
  <1>5. CASE Fulfil(t)
    BY <1>1, <1>2, <1>5 DEF Fulfil
  <1>6. CASE Finish(t) /\ UNCHANGED invoice
    <2>1. copy'[t] = NewInvoice
      BY <1>1, <1>6 DEF Finish
    <2> QED  BY <1>6, <2>1 DEF HasFinalMeta, NewInvoice, FinalMeta
  <1>7. CASE ConfirmInvoice(t)
    <2>1. copy[t].status = "paid"
      BY <1>2, <1>7 DEF ConfirmInvoice, PhaseOK
    <2> QED  BY <1>1, <1>2, <1>7, <2>1 DEF ConfirmInvoice, InvoiceRow, HasFinalMeta
  <1>8. CASE CancelInvoice(t)
    BY <1>1, <1>2, <1>8 DEF CancelInvoice, InvoiceRow, HasFinalMeta
  <1>9. CASE ExpireInvoice(t) \/ RefreshQuote(t)
    <2>1. copy[t].meta = FinalMeta
      BY <1>2, <1>9 DEF ExpireInvoice, RefreshQuote, PhaseOK, JobFacts, HasFinalMeta
    <2>2. NewInvoice.meta = CreatedMeta /\ NewInvoice.status = "draft"
      BY DEF NewInvoice
    <2>3. ASSUME NEW row, row.meta = copy[t].meta PROVE HasFinalMeta(row)
      BY <2>1, <2>3 DEF HasFinalMeta
    <2>4. HasFinalMeta(NewInvoice)
      BY <2>2 DEF HasFinalMeta, FinalMeta
    <2>5. CASE ExpireInvoice(t)
      <3> DEFINE row == [copy[t] EXCEPT !.status = "expired"]
      <3>1. HasFinalMeta(row)
        BY <1>1, <2>3 DEF InvoiceRow
      <3> QED  BY <1>1, <2>4, <2>5, <3>1 DEF ExpireInvoice, Finish
    <2>6. CASE RefreshQuote(t)
      <3> DEFINE row == [copy[t] EXCEPT !.status = "pending", !.quoted = TRUE]
      <3>1. HasFinalMeta(row)
        BY <1>1, <2>3 DEF InvoiceRow
      <3> QED  BY <1>1, <2>4, <2>6, <3>1 DEF RefreshQuote, Finish
    <2> QED  BY <1>9, <2>5, <2>6
  <1>10. CASE FinalizeInvoice(t)
    <2>1. t \in Requests /\ copy[t].status = "draft"
      BY <1>2, <1>10 DEF FinalizeInvoice, PhaseOK
    <2>2. Connected => <<"connector", t>> = FinalMeta
      BY <2>1 DEF SharedMetadata, FinalMeta
    <2> QED
      BY <1>1, <1>2, <1>10, <2>2
      DEF FinalizeInvoice, InvoiceRow, HasFinalMeta, Connected
  <1> QED
    BY <1>2, <1>3, <1>4, <1>5, <1>6, <1>7, <1>8, <1>9, <1>10
    DEF Continue, RecordPayment, Flush, PublishReceived, ConfirmPayment, store,
        FlushConfirmed, PublishConfirmed, FinalizeFails, WatchInvoice,
        SaveBaseline, FlushFinal, FlushCancel, PublishCancel

\* The order is counted by a thread whose copy shows the final dict unflagged;
\* the flag of the final dict is never lost.
LEMMA CountedOnce ==
    ASSUME SharedMetadata, IInv, DetectInv, MetaInv, NEW t \in Threads,
           Continue(t), NEW i \in Invoices
    PROVE  \/ fulfilments[i] = 0 /\ fulfilments'[i] = 0
           \/ fulfilments'[i] = fulfilments[i] /\ flagged[i] \subseteq flagged'[i]
           \/ /\ fulfilments[i] = 0 /\ fulfilments'[i] = 1
              /\ i = job[t].inv /\ copy'[t].status = "paid"
              /\ invoice'[i] = copy'[t] /\ FinalMeta \in flagged'[i]
  <1>1. /\ job[t].inv \in Invoices /\ copy[t] \in InvoiceRow
        /\ JobFacts /\ PhaseOK(t) /\ HasFinalMeta(copy[t]) /\ pc[t] # "baseline"
    BY ThreadFacts DEF IInv, CopiesSound, MetaInv, DetectInv
  <1>2. CASE UNCHANGED <<fulfilments, flagged>>
    BY <1>2
  <1>3. CASE Fulfil(t)
    <2>1. copy[t].status = "paid" /\ copy[t].meta = FinalMeta
      BY <1>1, <1>3 DEF Fulfil, JobFacts, HasFinalMeta
    <2>2. fulfilments[i] = 0 \/ FinalMeta \in flagged[i]
      BY DEF MetaInv
    <2> QED
      BY <1>1, <1>3, <2>1, <2>2 DEF Fulfil, Save, IInv, TypeOK
  <1>4. CASE FinalizeInvoice(t)
    <2>1. CASE Connected
      <3>1. invoice[job[t].inv].status = "draft"
        BY <1>4, <2>1 DEF FinalizeInvoice, MetaInv
      <3>2. fulfilments[job[t].inv] = 0
        BY <1>1, <3>1 DEF MetaInv
      <3> QED  BY <1>4, <3>2 DEF FinalizeInvoice, CopyFlag, IInv, TypeOK
    <2>2. CASE ~ Connected
      BY <1>4, <2>2 DEF FinalizeInvoice, CopyFlag, Connected, IInv, TypeOK
    <2> QED  BY <2>1, <2>2
  <1>5. CASE WatchInvoice(t)
    BY <1>5 DEF WatchInvoice, SharedMetadata
  <1> QED
    BY <1>1, <1>2, <1>3, <1>4, <1>5
    DEF Continue, RecordPayment, Flush, PublishReceived, ConfirmPayment, store,
        FlushConfirmed, PublishConfirmed, FinalizeFails, CreditInvoice,
        SaveBaseline, FlushFinal, FlushCancel, PublishCancel, ConfirmInvoice,
        CancelInvoice, ExpireInvoice, RefreshQuote

LEMMA MetaContinue ==
    ASSUME SharedMetadata, IInv, DetectInv, MetaInv, NEW t \in Threads, Continue(t)
    PROVE  MetaInv'
  <1>1. /\ OnlyMoves(t) /\ JobFacts /\ Monitors \subseteq Threads
        /\ job[t].inv \in Invoices
    BY JobStep, ThreadFacts DEF DetectInv, Threads
  <1>2. \A i \in Invoices : invoice'[i].status = "draft" => invoice[i].status = "draft"
    BY <1>1, RowSaved
  <1>3. ASSUME NEW i \in Invoices PROVE HasFinalMeta(invoice'[i])
    BY <1>1, MetaSaved DEF MetaInv
  <1>4. ASSUME NEW u \in Threads
        PROVE  HasFinalMeta(copy'[u]) /\ pc'[u] # "baseline"
    <2>1. CASE u = t
      <3>1. pc'[t] # "baseline"
        <4>1. ~ (pc[t] = "watch" /\ pc'[t] = "baseline")
          BY DEF Continue, WatchInvoice, SharedMetadata, RecordPayment, Flush,
                 Fulfil, PublishReceived, ConfirmPayment, ConfirmInvoice,
                 FlushConfirmed, PublishConfirmed, FinalizeInvoice, CreditInvoice,
                 FinalizeFails, SaveBaseline, FlushFinal, CancelInvoice,
                 FlushCancel, PublishCancel, ExpireInvoice, RefreshQuote, Goto,
                 IInv, TypeOK
        <4> QED  BY <4>1, StepsTaken
      <3> QED  BY <1>1, <2>1, <3>1, MetaSaved
    <2>2. CASE u # t
      BY <1>1, <2>2 DEF OnlyMoves, MetaInv
    <2> QED  BY <2>1, <2>2
  <1>5. ASSUME NEW i \in Invoices
        PROVE  \/ fulfilments'[i] = 0
               \/ /\ fulfilments'[i] = 1
                  /\ invoice'[i].status # "draft"
                  /\ FinalMeta \in flagged'[i]
    <2>1. \/ fulfilments[i] = 0
          \/ /\ fulfilments[i] = 1
             /\ invoice[i].status # "draft"
             /\ FinalMeta \in flagged[i]
      BY DEF MetaInv
    <2> QED  BY <1>2, <2>1, CountedOnce
  <1>6. ASSUME NEW u \in Threads, pc'[u] = "finalize", Connected
        PROVE  invoice'[job'[u].inv].status = "draft"
    <2>1. u # t
      BY <1>6, StepsTaken
    <2>2. /\ pc[u] = "finalize" /\ job'[u] = job[u]
          /\ job[u].inv \in Invoices /\ u \in Requests
          /\ invoice[job[u].inv].status = "draft"
      BY <1>1, <1>6, <2>1, ThreadFacts
      DEF OnlyMoves, MetaInv, IInv, CopiesSound, PhaseOK
    <2>3. t \in Monitors /\ pc[t] # "idle"
      BY <1>6, <2>1, <2>2, StepsTaken DEF SharedMetadata, Threads
    <2>4. job[t].inv # job[u].inv
      BY <2>2, <2>3 DEF DetectInv, DraftIsUntouched
    <2> QED  BY <1>1, <2>2, <2>4 DEF OnlyMoves
  <1> QED  BY <1>3, <1>4, <1>5, <1>6 DEF MetaInv

LEMMA MetaBegin ==
    ASSUME IInv, MetaInv, NEW t \in Threads, NEW i \in Invoices, UNCHANGED store,
           \/ Ignore
           \/ \E step \in {"record", "confirm", "finalize", "cancel", "expire",
                           "refresh"}, args \in Job :
                 /\ step = "finalize" => invoice[i].status = "draft"
                 /\ Begin(t, i, step, args)
    PROVE  MetaInv'
  <1>1. UNCHANGED <<invoice, flagged, fulfilments>>
    BY DEF store
  <1>2. CASE Ignore
    BY <1>1, <1>2 DEF Ignore, MetaInv
  <1>3. ASSUME NEW step \in {"record", "confirm", "finalize", "cancel", "expire",
                             "refresh"}, NEW args \in Job,
               step = "finalize" => invoice[i].status = "draft",
               Begin(t, i, step, args)
        PROVE  MetaInv'
    <2>1. /\ pc'[t] = step /\ copy'[t] = invoice[i] /\ job'[t].inv = i
          /\ \A u \in Threads \ {t} :
                pc'[u] = pc[u] /\ job'[u] = job[u] /\ copy'[u] = copy[u]
      BY <1>3, BeginFacts
    <2>2. \A u \in Threads : HasFinalMeta(copy'[u]) /\ pc'[u] # "baseline"
      BY <2>1 DEF MetaInv
    <2>3. \A u \in Threads : pc'[u] = "finalize" /\ Connected =>
              invoice'[job'[u].inv].status = "draft"
      BY <1>1, <1>3, <2>1 DEF MetaInv
    <2> QED  BY <1>1, <2>2, <2>3 DEF MetaInv
  <1> QED  BY <1>2, <1>3

LEMMA MetaInit == Init => MetaInv
  <1> SUFFICES ASSUME Init PROVE MetaInv
    OBVIOUS
  <1>1. HasFinalMeta(NewInvoice)
    BY DEF HasFinalMeta, NewInvoice, FinalMeta
  <1>2. /\ \A i \in Invoices : invoice[i] = NewInvoice /\ fulfilments[i] = 0
        /\ \A t \in Threads : copy[t] = NewInvoice /\ pc[t] = "idle"
    BY DEF Init
  <1> QED  BY <1>1, <1>2 DEF MetaInv

LEMMA MetaNext ==
    ASSUME SharedMetadata, IInv, DetectInv, MetaInv, [Next]_vars
    PROVE  MetaInv'
  <1>1. ASSUME NEW m \in Monitors, NEW i \in Invoices, Reports(m, i) PROVE MetaInv'
    <2>1. m \in Threads /\ UNCHANGED store
      BY <1>1 DEF Threads, Reports, Report
    <2>2. \/ Ignore
          \/ \E step \in {"record", "confirm", "finalize", "cancel", "expire",
                          "refresh"}, args \in Job :
                /\ step = "finalize" => invoice[i].status = "draft"
                /\ Begin(m, i, step, args)
      BY <1>1, ReportBegins
    <2> QED  BY <2>1, <2>2, MetaBegin
  <1>2. ASSUME NEW t \in Requests, NEW i \in Invoices, RequestBegins(t, i)
        PROVE  MetaInv'
    <2>1. t \in Threads /\ UNCHANGED store /\ NoJob \in Job
      BY <1>2, NoJobTyped DEF Threads, RequestBegins, BeginRequest, store
    <2>2. \E step \in {"record", "confirm", "finalize", "cancel", "expire",
                       "refresh"} :
             /\ step = "finalize" => invoice[i].status = "draft"
             /\ Begin(t, i, step, NoJob)
      BY <1>2 DEF RequestBegins, BeginRequest
    <2> QED  BY <2>1, <2>2, MetaBegin
  <1>3. CASE Callback
    BY <1>1, <1>3, CallbackReports DEF Callback
  <1>4. CASE Request
    BY <1>2, <1>4, RequestCases DEF Request
  <1>5. ASSUME NEW t \in Threads, Continue(t) PROVE MetaInv'
    BY <1>5, MetaContinue
  <1>6. CASE UNCHANGED vars
    BY <1>6 DEF vars, MetaInv
  <1> QED  BY <1>3, <1>4, <1>5, <1>6 DEF Next

\* With one metadata dict per finalized invoice, the flag in it makes the
\* storefront count an order once, whichever monitors credit the invoice from
\* copies loaded before either paid it.
THEOREM OrderCountedOnce ==
    ASSUME SharedMetadata
    PROVE  Spec => []FulfilledOnce
  <1>1. Init => MetaInv
    BY MetaInit
  <1>2. IInv /\ DetectInv /\ MetaInv /\ [Next]_vars => MetaInv'
    BY MetaNext
  <1>3. IInv /\ MetaInv => FulfilledOnce
    <2> SUFFICES ASSUME MetaInv, NEW i \in Invoices PROVE fulfilments[i] <= 1
      BY DEF FulfilledOnce
    <2> QED  BY DEF MetaInv
  <1> QED  BY <1>1, <1>2, <1>3, Invariance, DetectInvariance, PTL DEF Spec

-------------------------------------------------------------------------------
(* The serial program: jobs do not overlap, and every copy is the row.       *)

OneBusy == \A t, u \in Threads : pc[t] # "idle" /\ pc[u] # "idle" => t = u

\* A busy thread's copy is the row, and all that is not yet on the row is the
\* payment that the thread has just recorded.
CopiesAreRows ==
    \A t \in Threads : pc[t] # "idle" =>
        /\ copy[t] = invoice[job[t].inv]
        /\ copy[t].paid + Uncredited(t) = recorded[job[t].inv]

Settling(t) == pc[t] \in {"flush", "fulfil", "publish"}

\* What a job remembers of the status before its payment; a job that opened
\* with a receipt credits a listed amount or what is due.
JobsAreSerial ==
    \A t \in Threads :
        /\ pc[t] = "record" => \/ job[t].fiat \in Amounts
                               \/ job[t].fiat = AmountDue(job[t].inv, copy[t])
        /\ pc[t] = "credit" => job[t].before = copy[t].status
        /\ Settling(t) => /\ copy[t].status \in Payable
                          /\ job[t].before \in Settled => copy[t].status = "paid"

Told(i) == Announced("invoice.paid", i)

\* That an invoice is paid is announced when the status says so, but for the
\* thread that is on its way to announcing it.
PaidIsTold ==
    /\ \A t \in Threads : Settling(t) =>
          (Told(job[t].inv) <=> job[t].before \in Settled)
    /\ \A i \in Invoices :
          (\A t \in Threads : Settling(t) => job[t].inv # i) =>
              (Told(i) <=> invoice[i].status \in Settled)

\* The order that was counted is flagged in the metadata the row has now, and
\* in the dict that is about to replace it.
FlagIsKept ==
    /\ \A i \in Invoices :
          fulfilments[i] = 0 \/ (fulfilments[i] = 1 /\ invoice[i].meta \in flagged[i])
    /\ \A t \in Threads :
          pc[t] = "baseline" /\ copy[t].meta \in flagged[job[t].inv] =>
              <<"baseline", t>> \in flagged[job[t].inv]

SerialInv ==
    /\ OneBusy /\ CreditIsExact /\ CopiesAreRows /\ JobsAreSerial
    /\ PaidIsTold /\ PaidAnnouncedFirst /\ FlagIsKept

LEMMA SerialInit == Init => SerialInv
  <1> SUFFICES ASSUME Init PROVE SerialInv
    OBVIOUS
  <1> USE DEF Init
  <1>1. \A t \in Threads : pc[t] = "idle"
    OBVIOUS
  <1>2. OneBusy /\ CopiesAreRows /\ JobsAreSerial
    BY <1>1 DEF OneBusy, CopiesAreRows, JobsAreSerial, Settling
  <1>5. FlagIsKept
    <2>1. \A i \in Invoices : fulfilments[i] = 0
      OBVIOUS
    <2>2. \A t \in Threads : pc[t] # "baseline"
      BY <1>1
    <2>3. \A i \in Invoices :
             fulfilments[i] = 0 \/ (fulfilments[i] = 1 /\ invoice[i].meta \in flagged[i])
      BY <2>1
    <2>4. \A t \in Threads :
             pc[t] = "baseline" /\ copy[t].meta \in flagged[job[t].inv] =>
                 <<"baseline", t>> \in flagged[job[t].inv]
      BY <2>2
    <2> QED  BY <2>3, <2>4, Zenon DEF FlagIsKept
  <1>3. CreditIsExact
    BY DEF CreditIsExact, NewInvoice
  <1>4. PaidIsTold /\ PaidAnnouncedFirst
    BY <1>1 DEF PaidIsTold, PaidAnnouncedFirst, Told, Announced, Settling,
                Settled, NewInvoice
  <1> QED  BY <1>2, <1>3, <1>4, <1>5 DEF SerialInv

\* What a step leaves on the row and in the thread's copy of it.
LEMMA SerialRow ==
    ASSUME IInv, NEW t \in Threads, Continue(t), CopiesAreRows
    PROVE  /\ pc'[t] # "idle" => copy'[t] = invoice'[job[t].inv]
           /\ invoice'[job[t].inv].paid
                + (IF pc'[t] = "credit" THEN job'[t].fiat ELSE 0)
                = recorded'[job[t].inv]
  <1> DEFINE i == job[t].inv
  <1> USE DEF Goto, Save
  <1>1. /\ i \in Invoices /\ copy[t] \in InvoiceRow /\ copy[t].paid \in Nat
        /\ invoice \in [Invoices -> InvoiceRow] /\ pc \in [Threads -> Steps]
        /\ copy \in [Threads -> InvoiceRow] /\ recorded \in [Invoices -> Nat]
        /\ job[t].fiat \in Nat /\ job[t] \in Job /\ job \in [Threads -> Job]
    BY ThreadFacts DEF IInv, TypeOK
  <1>2. /\ copy[t] = invoice[i]
        /\ copy[t].paid + Uncredited(t) = recorded[i]
        /\ pc[t] # "idle"
    BY StepsTaken DEF CopiesAreRows
  <1>3. ASSUME UNCHANGED <<invoice, recorded, copy>>, pc[t] # "credit",
               pc'[t] # "credit"
        PROVE  /\ pc'[t] # "idle" => copy'[t] = invoice'[i]
               /\ invoice'[i].paid + (IF pc'[t] = "credit" THEN job'[t].fiat ELSE 0)
                    = recorded'[i]
    BY <1>1, <1>2, <1>3 DEF Uncredited
  <1>4. ASSUME UNCHANGED <<invoice, recorded>>, pc[t] # "credit", pc'[t] = "idle"
        PROVE  /\ pc'[t] # "idle" => copy'[t] = invoice'[i]
               /\ invoice'[i].paid + (IF pc'[t] = "credit" THEN job'[t].fiat ELSE 0)
                    = recorded'[i]
    BY <1>1, <1>2, <1>4 DEF Uncredited
  <1>5. ASSUME NEW row, row.paid = copy[t].paid, invoice'[i] = row,
               pc'[t] = "idle" \/ copy'[t] = row,
               UNCHANGED recorded, pc[t] # "credit", pc'[t] # "credit"
        PROVE  /\ pc'[t] # "idle" => copy'[t] = invoice'[i]
               /\ invoice'[i].paid + (IF pc'[t] = "credit" THEN job'[t].fiat ELSE 0)
                    = recorded'[i]
    BY <1>1, <1>2, <1>5 DEF Uncredited
  <1>6. CASE RecordPayment(t)
    <2>1. /\ pc'[t] = "credit" /\ job'[t].fiat = job[t].fiat
          /\ recorded'[i] = recorded[i] + job[t].fiat
          /\ UNCHANGED <<invoice, copy>> /\ pc[t] = "record"
      BY <1>1, <1>6 DEF RecordPayment, Job
    <2> QED  BY <1>1, <1>2, <2>1 DEF Uncredited
  <1>7. CASE CreditInvoice(t)
    <2> DEFINE row == Credited(i, copy[t], job[t].fiat)
    <2>1. row.paid = copy[t].paid + job[t].fiat
      BY <1>1 DEF Credited, InvoiceRow
    <2>2. /\ invoice'[i] = row /\ copy'[t] = row /\ pc'[t] = "flush"
          /\ UNCHANGED recorded /\ pc[t] = "credit"
      BY <1>1, <1>7 DEF CreditInvoice
    <2> QED  BY <1>1, <1>2, <2>1, <2>2 DEF Uncredited
  <1>8. CASE Flush(t) \/ FlushConfirmed(t) \/ FlushCancel(t)
    BY <1>1, <1>3, <1>8 DEF Flush, FlushConfirmed, FlushCancel, store
  <1>9. CASE Fulfil(t)
    <2>1. /\ invoice'[i] = copy[t] /\ copy'[t] = copy[t] /\ UNCHANGED recorded
          /\ pc[t] # "credit" /\ pc'[t] # "credit"
      BY <1>1, <1>2, <1>9 DEF Fulfil
    <2> QED  BY <1>5, <2>1
  <1>10. CASE PublishReceived(t) \/ PublishConfirmed(t) \/ PublishCancel(t)
    BY <1>1, <1>3, <1>4, <1>10
    DEF PublishReceived, PublishConfirmed, PublishCancel, Finish, store
  <1>11. CASE ConfirmPayment(t) \/ WatchInvoice(t)
    BY <1>1, <1>3, <1>11 DEF ConfirmPayment, WatchInvoice
  <1>12. CASE ConfirmInvoice(t) \/ CancelInvoice(t)
    BY <1>1, <1>5, <1>12 DEF ConfirmInvoice, CancelInvoice, InvoiceRow
  <1>13. CASE FinalizeInvoice(t)
    <2> DEFINE meta == IF Monitors \cap {"btcpay", "lnbits"} # {}
                       THEN <<"connector", t>> ELSE copy[t].meta
               row == [copy[t] EXCEPT !.status = "pending", !.meta = meta,
                                      !.quoted = "onchain_btc" \in Monitors]
    <2>1. row.paid = copy[t].paid
      BY <1>1 DEF InvoiceRow
    <2>2. /\ invoice'[i] = row /\ copy'[t] = row /\ UNCHANGED recorded
          /\ pc[t] # "credit" /\ pc'[t] # "credit"
      <3> HIDE DEF row
      <3> QED  BY <1>1, <1>13 DEF FinalizeInvoice, row
    <2> HIDE DEF row
    <2> QED  BY <1>5, <2>1, <2>2
  <1>14. CASE SaveBaseline(t)
    BY <1>1, <1>5, <1>14 DEF SaveBaseline, InvoiceRow
  <1>15. CASE FinalizeFails(t) \/ FlushFinal(t)
    BY <1>1, <1>4, <1>15 DEF FinalizeFails, FlushFinal, Finish, store
  <1>16. CASE ExpireInvoice(t) \/ RefreshQuote(t)
    <2>1. CASE ExpireInvoice(t)
      <3> DEFINE row == [copy[t] EXCEPT !.status = "expired"]
      <3>1. row.paid = copy[t].paid
        BY <1>1 DEF InvoiceRow
      <3>2. /\ invoice'[i] = row /\ UNCHANGED recorded
            /\ pc'[t] = "idle" \/ copy'[t] = row
            /\ pc[t] # "credit" /\ pc'[t] # "credit"
        BY <1>1, <2>1 DEF ExpireInvoice, Finish
      <3> HIDE DEF row
      <3> QED  BY <1>5, <3>1, <3>2
    <2>2. CASE RefreshQuote(t)
      <3> DEFINE row == [copy[t] EXCEPT !.status = "pending", !.quoted = TRUE]
      <3>1. row.paid = copy[t].paid
        BY <1>1 DEF InvoiceRow
      <3>2. /\ invoice'[i] = row \/ UNCHANGED invoice
            /\ UNCHANGED recorded /\ pc[t] # "credit" /\ pc'[t] = "idle"
        BY <1>1, <2>2 DEF RefreshQuote, Finish
      <3> HIDE DEF row
      <3> QED  BY <1>4, <1>5, <3>1, <3>2
    <2> QED  BY <1>16, <2>1, <2>2
  <1> QED
    BY <1>6, <1>7, <1>8, <1>9, <1>10, <1>11, <1>12, <1>13, <1>14, <1>15, <1>16
    DEF Continue

\* While a thread works, the others are idle.
LEMMA OthersIdle ==
    ASSUME IInv, OneBusy, NEW t \in Threads, Continue(t)
    PROVE  \A u \in Threads \ {t} : pc[u] = "idle" /\ pc'[u] = "idle"
  BY JobStep, StepsTaken DEF OneBusy, OnlyMoves

LEMMA SerialShape ==
    ASSUME IInv, SerialInv, NEW t \in Threads, Continue(t)
    PROVE  OneBusy' /\ CreditIsExact' /\ CopiesAreRows'
  <1>1. /\ OneBusy /\ CreditIsExact /\ CopiesAreRows
        /\ OnlyMoves(t) /\ job[t].inv \in Invoices
    BY JobStep, ThreadFacts DEF SerialInv
  <1>2. \A u \in Threads \ {t} : pc[u] = "idle" /\ pc'[u] = "idle"
    BY <1>1, OthersIdle
  <1>3. /\ pc'[t] # "idle" => copy'[t] = invoice'[job[t].inv]
        /\ invoice'[job[t].inv].paid
             + (IF pc'[t] = "credit" THEN job'[t].fiat ELSE 0)
             = recorded'[job[t].inv]
    BY <1>1, SerialRow
  <1>4. /\ pc'[t] # "idle" => job'[t].inv = job[t].inv
        /\ invoice'[job[t].inv].paid \in Nat
    BY <1>1, NextIInv DEF OnlyMoves, IInv, TypeOK, InvoiceRow, Next
  <1>5. OneBusy'
    BY <1>2 DEF OneBusy
  <1>6. CreditIsExact'
    <2> SUFFICES ASSUME NEW i \in Invoices, Quiet(i)'
                 PROVE  invoice'[i].paid = recorded'[i]
      BY DEF CreditIsExact
    <2>1. CASE i = job[t].inv
      <3>1. pc'[t] = "idle"
        BY <1>4, <2>1 DEF Quiet
      <3> QED  BY <1>3, <1>4, <2>1, <3>1
    <2>2. CASE i # job[t].inv
      <3>1. Quiet(i)
        BY <1>2, <2>2 DEF Quiet
      <3> QED  BY <1>1, <2>2, <3>1 DEF OnlyMoves, CreditIsExact
    <2> QED  BY <2>1, <2>2
  <1>7. CopiesAreRows'
    <2> SUFFICES ASSUME NEW u \in Threads, pc'[u] # "idle"
                 PROVE  /\ copy'[u] = invoice'[job'[u].inv]
                        /\ copy'[u].paid + Uncredited(u)' = recorded'[job'[u].inv]
      BY DEF CopiesAreRows
    <2>1. u = t
      BY <1>2
    <2> QED  BY <1>3, <1>4, <2>1 DEF Uncredited
  <1> QED  BY <1>5, <1>6, <1>7

\* Crediting a payable invoice leaves it payable, and a paid one paid.
LEMMA CreditedStatus ==
    ASSUME NEW i \in Invoices, NEW row \in InvoiceRow, NEW fiat \in Nat,
           Coherent(i, row), row.status \in Payable
    PROVE  /\ Credited(i, row, fiat).status \in Payable
           /\ row.status = "paid" => Credited(i, row, fiat).status = "paid"
  <1>1. Total[i] \in Nat /\ Gift \in Nat /\ row.paid \in Nat
    BY ConstantsAssumption DEF InvoiceRow
  <1> DEFINE paid == row.paid + fiat
             status == IF \/ paid >= Total[i]
                          \/ paid > 0 /\ Total[i] - paid <= Gift
                       THEN "paid"
                       ELSE IF paid > 0 THEN "partial" ELSE row.status
  <1>2. Credited(i, row, fiat).status = status
    BY DEF Credited, InvoiceRow
  <1>3. status \in Payable
    BY DEF Payable
  <1>4. row.status = "paid" => status = "paid"
    BY <1>1 DEF Coherent, Covers, Settled
  <1> QED  BY <1>2, <1>3, <1>4

\* The job of the thread that moves stays as JobsAreSerial has it.
LEMMA SerialJobs ==
    ASSUME IInv, SerialInv, NEW t \in Threads, Continue(t)
    PROVE  JobsAreSerial'
  <1>1. /\ JobsAreSerial /\ PhaseOK(t) /\ Coherent(job[t].inv, copy[t])
        /\ job[t].inv \in Invoices /\ copy[t] \in InvoiceRow
        /\ job[t].fiat \in Nat /\ job[t] \in Job /\ job \in [Threads -> Job]
        /\ pc \in [Threads -> Steps] /\ copy \in [Threads -> InvoiceRow]
    BY ThreadFacts DEF SerialInv, IInv, CopiesSound, TypeOK
  <1>2. \A u \in Threads \ {t} : pc'[u] = "idle"
    BY OthersIdle DEF SerialInv
  <1>3. pc'[t] = "credit" => job'[t].before = copy'[t].status
    <2>1. CASE RecordPayment(t)
      BY <1>1, <2>1 DEF RecordPayment, Job, Goto
    <2>2. RecordPayment(t) \/ pc'[t] # "credit"
      BY <1>1 DEF Continue, Goto, Finish, CreditInvoice, Flush, Fulfil,
             PublishReceived, ConfirmPayment, ConfirmInvoice, FlushConfirmed,
             PublishConfirmed, FinalizeInvoice, FinalizeFails, WatchInvoice,
             SaveBaseline, FlushFinal, CancelInvoice, FlushCancel,
             PublishCancel, ExpireInvoice, RefreshQuote
    <2> QED  BY <2>1, <2>2
  <1>4. Settling(t)' => /\ copy'[t].status \in Payable
                        /\ job'[t].before \in Settled => copy'[t].status = "paid"
    <2>1. CASE CreditInvoice(t)
      <3> DEFINE row == Credited(job[t].inv, copy[t], job[t].fiat)
      <3>1. /\ copy[t].status \in Payable /\ job[t].before = copy[t].status
            /\ copy'[t] = row /\ job' = job
        BY <1>1, <2>1 DEF CreditInvoice, PhaseOK, JobsAreSerial, Save
      <3>2. row.status \in Payable /\ (copy[t].status = "paid" => row.status = "paid")
        BY <1>1, <3>1, CreditedStatus
      <3> HIDE DEF row
      <3> QED  BY <3>1, <3>2 DEF Payable, Settled
    <2>2. CASE Flush(t) \/ Fulfil(t)
      BY <1>1, <2>2 DEF Flush, Fulfil, Save, Settling, JobsAreSerial
    <2>3. CreditInvoice(t) \/ Flush(t) \/ Fulfil(t) \/ ~ Settling(t)'
      BY <1>1 DEF Continue, Goto, Finish, Settling, RecordPayment,
             PublishReceived, ConfirmPayment, ConfirmInvoice, FlushConfirmed,
             PublishConfirmed, FinalizeInvoice, FinalizeFails, WatchInvoice,
             SaveBaseline, FlushFinal, CancelInvoice, FlushCancel,
             PublishCancel, ExpireInvoice, RefreshQuote
    <2> QED  BY <2>1, <2>2, <2>3
  <1>5. pc'[t] # "record"
    BY StepsTaken
  <1> QED
    <2> SUFFICES ASSUME NEW u \in Threads
                 PROVE  /\ pc'[u] # "record"
                        /\ pc'[u] = "credit" => job'[u].before = copy'[u].status
                        /\ Settling(u)' =>
                              /\ copy'[u].status \in Payable
                              /\ job'[u].before \in Settled => copy'[u].status = "paid"
      BY DEF JobsAreSerial
    <2>1. CASE u = t
      BY <1>3, <1>4, <1>5, <2>1
    <2>2. CASE u # t
      BY <1>2, <2>2 DEF Settling
    <2> QED  BY <2>1, <2>2

\* Only crediting settles an invoice, and nothing unsettles it.
LEMMA SettledKept ==
    ASSUME IInv, JobFacts, CopiesAreRows, NEW t \in Threads, Continue(t),
           ~ CreditInvoice(t), NEW i \in Invoices
    PROVE  invoice'[i].status \in Settled <=> invoice[i].status \in Settled
  <1> USE DEF Goto, Save, Settled
  <1>1. /\ job[t].inv \in Invoices /\ copy[t] \in InvoiceRow
        /\ invoice \in [Invoices -> InvoiceRow] /\ PhaseOK(t)
    BY ThreadFacts DEF IInv, CopiesSound, TypeOK
  <1>2. copy[t] = invoice[job[t].inv]
    BY StepsTaken DEF CopiesAreRows
  <1>3. CASE UNCHANGED invoice
    BY <1>3
  <1>4. CASE Fulfil(t)
    BY <1>1, <1>2, <1>4 DEF Fulfil
  <1>5. CASE ConfirmInvoice(t) \/ CancelInvoice(t)
    BY <1>1, <1>2, <1>5 DEF ConfirmInvoice, CancelInvoice, PhaseOK, InvoiceRow
  <1>6. CASE FinalizeInvoice(t)
    BY <1>1, <1>2, <1>6 DEF FinalizeInvoice, PhaseOK, InvoiceRow
  <1>7. CASE SaveBaseline(t)
    BY <1>1, <1>2, <1>7 DEF SaveBaseline, InvoiceRow
  <1>8. CASE ExpireInvoice(t)
    BY <1>1, <1>2, <1>8 DEF ExpireInvoice, JobFacts, InvoiceRow
  <1>9. CASE RefreshQuote(t)
    BY <1>1, <1>2, <1>9 DEF RefreshQuote, PhaseOK, InvoiceRow
  <1> QED
    BY <1>3, <1>4, <1>5, <1>6, <1>7, <1>8, <1>9
    DEF Continue, RecordPayment, Flush, PublishReceived, ConfirmPayment, store,
        FlushConfirmed, PublishConfirmed, FinalizeFails, WatchInvoice,
        FlushFinal, FlushCancel, PublishCancel

PaidEvents == {e \in published : e.event = "invoice.paid"}

\* What a step announces of payments and confirmations.
LEMMA WhatIsAnnounced ==
    ASSUME IInv, NEW t \in Threads, Continue(t)
    PROVE  /\ \/ PublishReceived(t)
              \/ PaidEvents' = PaidEvents
           /\ \/ PublishConfirmed(t)
              \/ \A i : Announced("invoice.confirmed", i)' =>
                           Announced("invoice.confirmed", i)
  <1>1. CASE UNCHANGED published
    BY <1>1 DEF PaidEvents, Announced
  <1>2. CASE PublishReceived(t)
    BY <1>2 DEF PublishReceived, Event, Announced
  <1>3. CASE PublishConfirmed(t)
    BY <1>3 DEF PublishConfirmed, Event, PaidEvents
  <1>4. CASE PublishCancel(t)
    BY <1>4 DEF PublishCancel, Event, PaidEvents, Announced
  <1>5. CASE ExpireInvoice(t)
    BY <1>5 DEF ExpireInvoice, Event, PaidEvents, Announced
  <1> QED
    BY <1>1, <1>2, <1>3, <1>4, <1>5
    DEF Continue, RecordPayment, CreditInvoice, Flush, Fulfil, ConfirmPayment,
        ConfirmInvoice, FlushConfirmed, FinalizeInvoice, FinalizeFails,
        WatchInvoice, SaveBaseline, FlushFinal, CancelInvoice, FlushCancel,
        RefreshQuote

\* The events of a recorded payment: invoice.paid is among them when the
\* payment is the one that settled the invoice.
LEMMA ReceivedIsAnnounced ==
    ASSUME IInv, NEW t \in Threads, PublishReceived(t)
    PROVE  PaidEvents' = PaidEvents \cup
               (IF job[t].before \notin Settled /\ copy[t].status = "paid"
                THEN {Event("invoice.paid", job[t].inv, job[t].row)} ELSE {})
  BY DEF PublishReceived, Event, PaidEvents

LEMMA ToldByEvent ==
    /\ \A i : Told(i) <=> \E e \in PaidEvents : e.inv = i
    /\ \A i : Told(i)' <=> \E e \in PaidEvents' : e.inv = i
  BY DEF Told, Announced, PaidEvents

LEMMA SerialTold ==
    ASSUME IInv, JobFacts, SerialInv, NEW t \in Threads, Continue(t)
    PROVE  PaidIsTold'
  <1> DEFINE i == job[t].inv
  <1>1. /\ PaidIsTold /\ JobsAreSerial /\ CopiesAreRows /\ OneBusy /\ OnlyMoves(t)
        /\ i \in Invoices /\ copy[t] = invoice[i]
        /\ pc \in [Threads -> Steps] /\ job \in [Threads -> Job]
    BY JobStep, ThreadFacts, StepsTaken DEF SerialInv, CopiesAreRows, IInv, TypeOK
  <1>2. \A u \in Threads \ {t} : ~ Settling(u) /\ ~ Settling(u)'
    BY <1>1, OthersIdle DEF Settling
  <1>3. \/ /\ PublishReceived(t) /\ Settling(t) /\ ~ Settling(t)'
        \/ /\ CreditInvoice(t) /\ ~ Settling(t) /\ Settling(t)'
           /\ PaidEvents' = PaidEvents
        \/ /\ ~ CreditInvoice(t) /\ (Settling(t) <=> Settling(t)')
           /\ PaidEvents' = PaidEvents
    <2>1. CASE PublishReceived(t)
      BY <1>1, <2>1 DEF PublishReceived, Finish, Goto, Settling
    <2>2. CASE CreditInvoice(t)
      <3>1. ~ PublishReceived(t)
        BY <2>2 DEF CreditInvoice, PublishReceived
      <3> QED  BY <1>1, <2>2, <3>1, WhatIsAnnounced DEF CreditInvoice, Goto, Settling
    <2>3. CASE ~ PublishReceived(t) /\ ~ CreditInvoice(t)
      <3>1. Settling(t) <=> Settling(t)'
        BY <1>1, <2>3 DEF Continue, Goto, Finish, Settling, RecordPayment, Flush,
             Fulfil, ConfirmPayment, ConfirmInvoice, FlushConfirmed,
             PublishConfirmed, FinalizeInvoice, FinalizeFails, WatchInvoice,
             SaveBaseline, FlushFinal, CancelInvoice, FlushCancel,
             PublishCancel, ExpireInvoice, RefreshQuote
      <3> QED  BY <2>3, <3>1, WhatIsAnnounced
    <2> QED  BY <2>1, <2>2, <2>3
  <1>4. CASE PublishReceived(t) /\ Settling(t) /\ ~ Settling(t)'
    <2>1. /\ UNCHANGED invoice /\ copy[t].status \in Payable
          /\ job[t].before \in Settled => copy[t].status = "paid"
          /\ Told(i) <=> job[t].before \in Settled
      BY <1>1, <1>4 DEF PublishReceived, store, JobsAreSerial, PaidIsTold
    <2>2. ASSUME NEW j \in Invoices
          PROVE  Told(j)' <=> invoice[j].status \in Settled
      <3>1. CASE j # i
        <4>1. Told(j)' <=> Told(j)
          BY <1>4, <3>1, ReceivedIsAnnounced, ToldByEvent DEF Event
        <4> QED  BY <1>1, <1>2, <3>1, <4>1 DEF PaidIsTold
      <3>2. CASE j = i /\ copy[t].status # "paid"
        <4>1. Told(j)' <=> Told(j)
          BY <1>4, <3>2, ReceivedIsAnnounced, ToldByEvent
        <4> QED  BY <1>1, <2>1, <3>2, <4>1 DEF Payable, Settled
      <3>3. CASE j = i /\ copy[t].status = "paid"
        <4>1. Told(j)'
          BY <1>4, <2>1, <3>3, ReceivedIsAnnounced, ToldByEvent DEF Event
        <4> QED  BY <1>1, <3>3, <4>1 DEF Settled
      <3> QED  BY <3>1, <3>2, <3>3
    <2> QED  BY <1>2, <1>4, <2>1, <2>2 DEF PaidIsTold
  <1>5. CASE CreditInvoice(t) /\ ~ Settling(t) /\ Settling(t)' /\ PaidEvents' = PaidEvents
    <2>1. \A j : Told(j)' <=> Told(j)
      BY <1>5, ToldByEvent
    <2>2. /\ job[t].before = invoice[i].status /\ job' = job
      BY <1>1, <1>5 DEF CreditInvoice, JobsAreSerial
    <2>3. Told(i) <=> invoice[i].status \in Settled
      BY <1>1, <1>2, <1>5 DEF PaidIsTold
    <2>4. \A u \in Threads : Settling(u)' =>
              (Told(job[u].inv)' <=> job'[u].before \in Settled)
      BY <1>2, <2>1, <2>2, <2>3
    <2>5. \A j \in Invoices \ {i} : Told(j)' <=> invoice'[j].status \in Settled
      BY <1>1, <1>2, <1>5, <2>1 DEF OnlyMoves, PaidIsTold
    <2> QED  BY <1>1, <1>5, <2>2, <2>4, <2>5 DEF PaidIsTold
  <1>6. CASE ~ CreditInvoice(t) /\ (Settling(t) <=> Settling(t)') /\ PaidEvents' = PaidEvents
    <2>1. \A j : Told(j)' <=> Told(j)
      BY <1>6, ToldByEvent
    <2>2. \A j \in Invoices :
              invoice'[j].status \in Settled <=> invoice[j].status \in Settled
      BY <1>1, <1>6, SettledKept
    <2>3. CASE Settling(t)
      <3>1. job' = job
        BY <1>1, <1>6, <2>3 DEF Settling, Continue, Goto, RecordPayment, Flush,
             Fulfil, ConfirmPayment, ConfirmInvoice, FlushConfirmed,
             PublishConfirmed, FinalizeInvoice, FinalizeFails, WatchInvoice,
             SaveBaseline, FlushFinal, CancelInvoice, FlushCancel,
             PublishCancel, ExpireInvoice, RefreshQuote, PublishReceived, Finish
      <3> QED  BY <1>1, <1>2, <1>6, <2>1, <2>2, <2>3, <3>1 DEF PaidIsTold
    <2>4. CASE ~ Settling(t)
      BY <1>1, <1>2, <1>6, <2>1, <2>2, <2>4 DEF PaidIsTold
    <2> QED  BY <2>3, <2>4
  <1> QED  BY <1>3, <1>4, <1>5, <1>6

LEMMA SerialAnnounces ==
    ASSUME IInv, JobFacts, SerialInv, NEW t \in Threads, Continue(t)
    PROVE  PaidAnnouncedFirst'
  <1> DEFINE i == job[t].inv
  <1>1. /\ PaidIsTold /\ PaidAnnouncedFirst /\ OneBusy /\ OnlyMoves(t)
        /\ i \in Invoices /\ copy[t] = invoice[i]
    BY JobStep, ThreadFacts, StepsTaken DEF SerialInv, CopiesAreRows
  <1>2. ASSUME NEW j \in Invoices, Announced("invoice.confirmed", j)'
        PROVE  Announced("invoice.paid", j)'
    <2>1. Told(j) => Told(j)'
      BY <1>1 DEF OnlyMoves, Told, Announced
    <2>2. CASE Announced("invoice.confirmed", j)
      BY <1>1, <2>1, <2>2 DEF PaidAnnouncedFirst, Told
    <2>3. CASE ~ Announced("invoice.confirmed", j)
      <3>1. PublishConfirmed(t)
        BY <1>2, <2>3, WhatIsAnnounced
      <3>2. j = i /\ copy[t].status = "confirmed"
        BY <1>2, <2>3, <3>1 DEF PublishConfirmed, Announced, Event
      <3>3. \A u \in Threads : ~ Settling(u)
        BY <1>1, <3>1, OthersIdle DEF Settling, PublishConfirmed
      <3>4. Told(j)
        BY <1>1, <3>2, <3>3 DEF PaidIsTold, Settled
      <3> QED  BY <2>1, <3>4 DEF Told
    <2> QED  BY <2>2, <2>3
  <1>3. ASSUME NEW j \in Invoices, NEW d \in PaidEvents', NEW e \in PaidEvents',
               d.inv = j, e.inv = j
        PROVE  d = e
    <2>1. \A x, y \in PaidEvents : x.inv = j /\ y.inv = j => x = y
      BY <1>1 DEF PaidAnnouncedFirst, PaidEvents
    <2>2. CASE PaidEvents' = PaidEvents
      BY <1>3, <2>1, <2>2
    <2>3. CASE PublishReceived(t)
      <3>1. CASE j # i \/ job[t].before \in Settled \/ copy[t].status # "paid"
        <4>1. d \in PaidEvents /\ e \in PaidEvents
          BY <1>3, <2>3, <3>1, ReceivedIsAnnounced DEF Event
        <4> QED  BY <1>3, <2>1, <4>1
      <3>2. CASE j = i /\ job[t].before \notin Settled
        <4>1. ~ Told(j)
          BY <1>1, <2>3, <3>2 DEF PaidIsTold, Settling, PublishReceived
        <4>2. d \notin PaidEvents /\ e \notin PaidEvents
          BY <1>3, <4>1, ToldByEvent
        <4> QED  BY <2>3, <4>2, ReceivedIsAnnounced
      <3> QED  BY <3>1, <3>2
    <2> QED  BY <2>2, <2>3, WhatIsAnnounced
  <1> QED  BY <1>2, <1>3 DEF PaidAnnouncedFirst, PaidEvents

LEMMA SerialFlags ==
    ASSUME IInv, SerialInv, NEW t \in Threads, Continue(t)
    PROVE  FlagIsKept'
  <1> DEFINE i == job[t].inv
  <1>1. /\ FlagIsKept /\ OnlyMoves(t) /\ i \in Invoices
        /\ copy[t] = invoice[i] /\ copy[t] \in InvoiceRow
        /\ invoice \in [Invoices -> InvoiceRow] /\ pc \in [Threads -> Steps]
        /\ copy \in [Threads -> InvoiceRow] /\ job \in [Threads -> Job]
        /\ fulfilments \in [Invoices -> Nat]
        /\ flagged \in [Invoices -> SUBSET Metas]
    BY JobStep, ThreadFacts, StepsTaken DEF SerialInv, CopiesAreRows, IInv, TypeOK
  <1>2. \A u \in Threads \ {t} : pc'[u] = "idle"
    BY OthersIdle DEF SerialInv
  <1>3. fulfilments[i] = 0 \/ (fulfilments[i] = 1 /\ copy[t].meta \in flagged[i])
    BY <1>1 DEF FlagIsKept
  <1> USE DEF Goto, Save
  <1>4. /\ \/ fulfilments'[i] = 0
           \/ fulfilments'[i] = 1 /\ invoice'[i].meta \in flagged'[i]
        /\ pc'[t] = "baseline" /\ copy'[t].meta \in flagged'[i] =>
              <<"baseline", t>> \in flagged'[i]
    <2>1. ASSUME UNCHANGED <<flagged, fulfilments>>, pc'[t] # "baseline",
                 invoice'[i].meta = copy[t].meta
          PROVE  <1>4!1
      BY <1>3, <2>1
    <2>2. CASE UNCHANGED <<invoice, flagged, fulfilments>> /\ pc'[t] # "baseline"
      BY <1>1, <2>1, <2>2
    <2>3. CASE CreditInvoice(t)
      <3> DEFINE row == Credited(i, copy[t], job[t].fiat)
      <3>1. row.meta = copy[t].meta
        BY <1>1 DEF Credited, InvoiceRow
      <3>2. /\ invoice'[i] = row /\ UNCHANGED <<flagged, fulfilments>>
            /\ pc'[t] = "flush"
        BY <1>1, <2>3 DEF CreditInvoice
      <3> QED  BY <2>1, <3>1, <3>2
    <2>4. CASE Fulfil(t)
      BY <1>1, <1>3, <2>4 DEF Fulfil
    <2>5. CASE ConfirmInvoice(t) \/ CancelInvoice(t)
      BY <1>1, <2>1, <2>5 DEF ConfirmInvoice, CancelInvoice, InvoiceRow
    <2>6. CASE ExpireInvoice(t)
      BY <1>1, <2>1, <2>6 DEF ExpireInvoice, Finish, InvoiceRow
    <2>7. CASE RefreshQuote(t)
      <3> DEFINE row == [copy[t] EXCEPT !.status = "pending", !.quoted = TRUE]
      <3>1. row.meta = copy[t].meta
        BY <1>1 DEF InvoiceRow
      <3>2. /\ invoice'[i] = row \/ UNCHANGED invoice
            /\ UNCHANGED <<flagged, fulfilments>> /\ pc'[t] # "baseline"
        BY <1>1, <2>7 DEF RefreshQuote, Finish
      <3> HIDE DEF row
      <3> QED  BY <2>1, <2>2, <3>1, <3>2
    <2>8. CASE FinalizeInvoice(t)
      <3> DEFINE meta == IF Monitors \cap {"btcpay", "lnbits"} # {}
                         THEN <<"connector", t>> ELSE copy[t].meta
                 row == [copy[t] EXCEPT !.status = "pending", !.meta = meta,
                                        !.quoted = "onchain_btc" \in Monitors]
      <3>1. row.meta = meta
        BY <1>1 DEF InvoiceRow
      <3> HIDE DEF row
      <3>2. /\ invoice'[i] = row /\ UNCHANGED fulfilments /\ pc'[t] = "watch"
            /\ CopyFlag(i, copy[t].meta, meta)
        BY <1>1, <2>8 DEF FinalizeInvoice, row
      <3> HIDE DEF meta
      <3>3. copy[t].meta \in flagged[i] => meta \in flagged'[i]
        BY <1>1, <3>2 DEF CopyFlag
      <3> QED  BY <1>3, <3>1, <3>2, <3>3
    <2>9. CASE WatchInvoice(t)
      <3>1. UNCHANGED <<invoice, copy, fulfilments>>
        BY <2>9 DEF WatchInvoice
      <3>2. CASE CopyFlag(i, copy[t].meta, <<"baseline", t>>)
        BY <1>1, <1>3, <3>1, <3>2 DEF CopyFlag
      <3>3. CASE pc'[t] = "flushFinal" /\ UNCHANGED flagged
        BY <1>1, <2>1, <3>1, <3>3
      <3> QED  BY <1>1, <2>9, <3>2, <3>3 DEF WatchInvoice
    <2>10. CASE SaveBaseline(t)
      <3>1. copy[t].meta \in flagged[i] => <<"baseline", t>> \in flagged[i]
        BY <1>1, <2>10 DEF SaveBaseline, FlagIsKept
      <3>2. /\ invoice'[i].meta = <<"baseline", t>> /\ pc'[t] = "flushFinal"
            /\ UNCHANGED <<flagged, fulfilments>>
        BY <1>1, <2>10 DEF SaveBaseline, InvoiceRow
      <3> QED  BY <1>3, <3>1, <3>2
    <2> QED
      BY <1>1, <2>2, <2>3, <2>4, <2>5, <2>6, <2>7, <2>8, <2>9, <2>10
      DEF Continue, RecordPayment, Flush, PublishReceived, ConfirmPayment, store,
          FlushConfirmed, PublishConfirmed, FinalizeFails, FlushFinal,
          FlushCancel, PublishCancel, Finish
  <1>5. ASSUME NEW j \in Invoices
        PROVE  \/ fulfilments'[j] = 0
               \/ fulfilments'[j] = 1 /\ invoice'[j].meta \in flagged'[j]
    BY <1>1, <1>4 DEF OnlyMoves, FlagIsKept
  <1>6. ASSUME NEW u \in Threads, pc'[u] = "baseline",
               copy'[u].meta \in flagged'[job'[u].inv]
        PROVE  <<"baseline", u>> \in flagged'[job'[u].inv]
    BY <1>1, <1>2, <1>4, <1>6 DEF OnlyMoves
  <1> QED  BY <1>5, <1>6 DEF FlagIsKept

LEMMA SerialContinue ==
    ASSUME IInv, JobFacts, SerialInv, NEW t \in Threads, Continue(t)
    PROVE  SerialInv'
  BY SerialShape, SerialJobs, SerialTold, SerialAnnounces, SerialFlags DEF SerialInv

\* A job begins when all threads are idle, so its copy is the row.
LEMMA SerialBegin ==
    ASSUME IInv, SerialInv, AllIdle, NEW t \in Threads, NEW i \in Invoices,
           UNCHANGED <<store, published>>,
           \/ Ignore
           \/ \E step \in {"record", "confirm", "finalize", "cancel", "expire",
                           "refresh"}, args \in Job :
                 /\ step = "record" => \/ args.fiat \in Amounts
                                       \/ args.fiat = AmountDue(i, invoice[i])
                 /\ Begin(t, i, step, args)
    PROVE  SerialInv'
  <1>1. UNCHANGED <<invoice, recorded, flagged, fulfilments, published>>
    BY DEF store
  <1>2. CASE Ignore
    <2>1. UNCHANGED <<pc, job, copy>>
      BY <1>2 DEF Ignore
    <2> QED
      BY <1>1, <2>1 DEF SerialInv, OneBusy, CreditIsExact, CopiesAreRows, Quiet,
         JobsAreSerial, PaidIsTold, PaidAnnouncedFirst, FlagIsKept, Settling,
         Told, Announced, Uncredited
  <1>3. ASSUME NEW step \in {"record", "confirm", "finalize", "cancel", "expire",
                             "refresh"}, NEW args \in Job,
               step = "record" => \/ args.fiat \in Amounts
                                  \/ args.fiat = AmountDue(i, invoice[i]),
               Begin(t, i, step, args)
        PROVE  SerialInv'
    <2>1. /\ pc'[t] = step /\ copy'[t] = invoice[i] /\ job'[t].inv = i
          /\ job'[t].fiat = args.fiat
          /\ \A u \in Threads \ {t} :
                pc'[u] = pc[u] /\ job'[u] = job[u] /\ copy'[u] = copy[u]
      BY <1>3, BeginFacts
    <2>2. \A u \in Threads : pc[u] = "idle" /\ (u # t => pc'[u] = "idle")
      BY <2>1 DEF AllIdle
    <2>3. \A u \in Threads : ~ Settling(u) /\ ~ Settling(u)'
      BY <1>3, <2>1, <2>2 DEF Settling
    <2>4. \A j \in Invoices : invoice[j].paid = recorded[j] /\ recorded[j] \in Nat
      BY <2>2 DEF SerialInv, CreditIsExact, Quiet, IInv, TypeOK
    <2>5. OneBusy' /\ CreditIsExact'
      BY <1>1, <2>2, <2>4 DEF OneBusy, CreditIsExact
    <2>6. CopiesAreRows'
      BY <1>1, <1>3, <2>1, <2>2, <2>4 DEF CopiesAreRows, Uncredited
    <2>7. JobsAreSerial'
      BY <1>1, <1>3, <2>1, <2>2, <2>3 DEF JobsAreSerial
    <2>8. PaidIsTold' /\ PaidAnnouncedFirst'
      BY <1>1, <2>3 DEF SerialInv, PaidIsTold, PaidAnnouncedFirst, Told, Announced
    <2>9. FlagIsKept'
      BY <1>1, <1>3, <2>1, <2>2 DEF SerialInv, FlagIsKept
    <2> QED  BY <2>5, <2>6, <2>7, <2>8, <2>9 DEF SerialInv
  <1> QED  BY <1>2, <1>3

\* What a callback does when no job is under way.
LEMMA SerialReport ==
    ASSUME IInv, SerialInv, AllIdle, NEW m \in Monitors, NEW i \in Invoices,
           Reports(m, i)
    PROVE  SerialInv'
  <1>1. m \in Threads /\ m \in Methods /\ UNCHANGED <<store, published>>
    BY ConstantsAssumption DEF Threads, Reports, Report
  <1>2. CASE RecordsReport(m, i)
    <2>1. PICK txid \in Txids, fiat \in Nat, confirm \in BOOLEAN :
              /\ fiat \in Amounts \/ fiat = AmountDue(i, invoice[i])
              /\ Begin(m, i, "record", Recording(m, txid, fiat, confirm))
      BY <1>2 DEF RecordsReport
    <2> DEFINE args == Recording(m, txid, fiat, confirm)
    <2>2. args \in Job /\ args.fiat = fiat
      BY <1>1, RecordingTyped, NoJobTyped DEF Recording, Job
    <2> HIDE DEF args
    <2>3. \E step \in {"record", "confirm", "finalize", "cancel", "expire",
                       "refresh"}, a \in Job :
             /\ step = "record" => \/ a.fiat \in Amounts
                                   \/ a.fiat = AmountDue(i, invoice[i])
             /\ Begin(m, i, step, a)
      BY <2>1, <2>2 DEF args
    <2> QED  BY <1>1, <2>3, SerialBegin
  <1>3. CASE ConfirmsReport(m, i)
    <2>1. PICK r \in DOMAIN payments[i] : Begin(m, i, "confirm", Confirming(m, r))
      BY <1>3 DEF ConfirmsReport
    <2>2. r \in Nat
      BY DEF IInv, TypeOK
    <2>3. Confirming(m, r) \in Job
      BY <1>1, <2>2, NoJobTyped DEF Confirming, Job
    <2> QED  BY <1>1, <2>1, <2>3, SerialBegin
  <1>4. CASE Ignore
    BY <1>1, <1>4, SerialBegin
  <1> QED  BY <1>2, <1>3, <1>4 DEF Reports, IgnoresReport

LEMMA SerialNext ==
    ASSUME IInv, DetectInv, SerialInv, [Next /\ OneJobAtATime]_vars
    PROVE  SerialInv'
  <1>1. CASE Callback /\ AllIdle
    BY <1>1, CallbackReports, SerialReport DEF Callback
  <1>2. CASE Request /\ AllIdle
    <2>1. PICK t \in Requests, i \in Invoices : RequestBegins(t, i)
      BY <1>2, RequestCases DEF Request
    <2>2. /\ t \in Threads /\ NoJob \in Job /\ UNCHANGED <<store, published>>
          /\ \E step \in {"finalize", "cancel", "expire", "refresh"} :
                Begin(t, i, step, NoJob)
      BY <2>1, NoJobTyped DEF Threads, RequestBegins, BeginRequest
    <2> QED  BY <1>2, <2>2, SerialBegin
  <1>3. ASSUME NEW t \in Threads, Continue(t) PROVE SerialInv'
    BY <1>3, SerialContinue DEF DetectInv
  <1>4. CASE UNCHANGED vars
    BY <1>4 DEF vars, SerialInv, OneBusy, CreditIsExact, CopiesAreRows, Quiet,
       JobsAreSerial, PaidIsTold, PaidAnnouncedFirst, FlagIsKept, Settling,
       Told, Announced, Uncredited
  <1> QED  BY <1>1, <1>2, <1>3, <1>4 DEF Next, OneJobAtATime

LEMMA SerialIsSpec == SerialSpec => Spec
  <1>1. [Next /\ OneJobAtATime]_vars => [Next]_vars
    OBVIOUS
  <1> QED  BY <1>1, PTL DEF SerialSpec, Spec

LEMMA SerialInvariance == SerialSpec => [](IInv /\ DetectInv /\ SerialInv)
  <1>1. Init => SerialInv
    BY SerialInit
  <1>2. IInv /\ DetectInv /\ SerialInv /\ [Next /\ OneJobAtATime]_vars => SerialInv'
    BY SerialNext
  <1> QED
    BY <1>1, <1>2, SerialIsSpec, Invariance, DetectInvariance, PTL DEF SerialSpec

\* When jobs do not overlap, an invoice that nobody is working on is credited
\* with exactly what was recorded for it.
THEOREM SerialCreditIsExact == SerialSpec => []CreditIsExact
  <1>1. SerialInv => CreditIsExact
    BY DEF SerialInv
  <1> QED  BY <1>1, SerialInvariance, PTL

\* When jobs do not overlap, that an invoice is paid is announced once, and
\* before it is announced as confirmed.
THEOREM SerialPaidAnnouncedFirst == SerialSpec => []PaidAnnouncedFirst
  <1>1. SerialInv => PaidAnnouncedFirst
    BY DEF SerialInv
  <1> QED  BY <1>1, SerialInvariance, PTL

\* When jobs do not overlap, the storefront counts an order once whatever
\* metadata dicts the connectors and the stablecoin baseline assign.
THEOREM SerialOrderCountedOnce == SerialSpec => []FulfilledOnce
  <1>1. SerialInv => FulfilledOnce
    <2> SUFFICES ASSUME FlagIsKept, NEW i \in Invoices PROVE fulfilments[i] <= 1
      BY DEF FulfilledOnce, SerialInv
    <2> QED  BY DEF FlagIsKept
  <1> QED  BY <1>1, SerialInvariance, PTL

-------------------------------------------------------------------------------
(* The serial program implements InvoiceLedger.                              *)


LEMMA LedgerStutters ==
    ASSUME UNCHANGED recorded,
           \A i \in Invoices : /\ invoice'[i].status = invoice[i].status
                               /\ invoice'[i].paid = invoice[i].paid
    PROVE  UNCHANGED Ledger!ledger
  BY DEF Ledger!ledger

\* A saved row that changes only the status moves the ledger.
LEMMA LedgerMoves ==
    ASSUME IInv, NEW i \in Invoices, NEW row, NEW from, NEW to,
           invoice' = [invoice EXCEPT ![i] = row], UNCHANGED recorded,
           row.status = to, row.paid = invoice[i].paid,
           invoice[i].paid = recorded[i], invoice[i].status \in from
    PROVE  Ledger!Move(i, from, to)
  <1>1. invoice \in [Invoices -> InvoiceRow]
    BY DEF IInv, TypeOK
  <1> QED  BY <1>1 DEF Ledger!Move

\* Recording a payment is receiving a listed amount or what is due; with
\* nothing due the ledger stutters.
LEMMA LedgerReceives ==
    ASSUME IInv, SerialInv, NEW t \in Threads, RecordPayment(t),
           NEW i \in Invoices, i = job[t].inv
    PROVE  Ledger!Receive(i) \/ UNCHANGED Ledger!ledger
  <1> DEFINE fiat == job[t].fiat
  <1>1. /\ i \in Invoices /\ fiat \in Nat /\ copy[t].paid \in Nat
        /\ pc[t] = "record" /\ UNCHANGED invoice
        /\ recorded \in [Invoices -> Nat]
        /\ recorded' = [recorded EXCEPT ![i] = @ + fiat]
    BY ThreadFacts DEF RecordPayment, IInv, TypeOK
  <1>2. /\ copy[t] = invoice[i] /\ invoice[i].paid = recorded[i]
        /\ copy[t].status \in Payable
        /\ fiat \in Amounts \/ fiat = AmountDue(i, invoice[i])
    BY <1>1 DEF SerialInv, CopiesAreRows, JobsAreSerial, Uncredited, IInv,
                CopiesSound, PhaseOK
  <1>3. Total[i] \in Nat
    BY <1>1, ConstantsAssumption
  <1> HIDE DEF fiat
  <1>4. CASE fiat = 0
    <2>1. recorded' = recorded
      BY <1>1, <1>4
    <2> QED  BY <1>1, <2>1 DEF Ledger!ledger
  <1>5. CASE fiat # 0
    <2>1. fiat \in Amounts \cup {Total[i] - invoice[i].paid}
      BY <1>1, <1>2, <1>3, <1>5 DEF AmountDue
    <2>2. Ledger!Receive(i)
      <3>1. /\ [j \in Invoices |-> invoice[j].status][i] \in {"pending", "partial", "paid"}
            /\ recorded[i] = [j \in Invoices |-> invoice[j].paid][i]
        BY <1>2 DEF Payable
      <3>2. \E amount \in Amounts \cup {Total[i] - [j \in Invoices |-> invoice[j].paid][i]} :
               /\ amount >= 0
               /\ recorded' = [recorded EXCEPT ![i] = @ + amount]
        <4>1. fiat \in Amounts \cup {Total[i] - [j \in Invoices |-> invoice[j].paid][i]}
          BY <2>1
        <4>2. fiat >= 0
          BY <1>1
        <4> QED  BY <1>1, <4>1, <4>2
      <3>3. UNCHANGED <<[j \in Invoices |-> invoice[j].status],
                        [j \in Invoices |-> invoice[j].paid]>>
        BY <1>1
      <3> QED  BY <3>1, <3>2, <3>3 DEF Ledger!Receive
    <2> QED  BY <2>2
  <1> QED  BY <1>4, <1>5

\* What crediting an amount leaves of a coherent payable row is the status
\* that the ledger gives to the sum.
LEMMA CreditedAsLedger ==
    ASSUME NEW i \in Invoices, NEW row \in InvoiceRow, NEW fiat \in Nat,
           Coherent(i, row), row.status \in Payable
    PROVE  /\ Credited(i, row, fiat).paid = row.paid + fiat
           /\ fiat = 0 => Credited(i, row, fiat).status = row.status
           /\ fiat > 0 => Credited(i, row, fiat).status
                            = Ledger!StatusFor(i, row.paid + fiat)
  <1>1. Total[i] \in Nat /\ Total[i] > 0 /\ Gift \in Nat /\ row.paid \in Nat
    BY ConstantsAssumption DEF InvoiceRow
  <1> DEFINE paid == row.paid + fiat
             status == IF \/ paid >= Total[i]
                          \/ paid > 0 /\ Total[i] - paid <= Gift
                       THEN "paid"
                       ELSE IF paid > 0 THEN "partial" ELSE row.status
  <1>2. Credited(i, row, fiat).status = status /\ Credited(i, row, fiat).paid = paid
    BY DEF Credited, InvoiceRow
  <1>3. fiat = 0 => status = row.status
    BY <1>1 DEF Coherent, Covers, Settled, Payable
  <1>4. fiat > 0 => status = Ledger!StatusFor(i, row.paid + fiat)
    BY <1>1 DEF Ledger!StatusFor
  <1> QED  BY <1>2, <1>3, <1>4

LEMMA LedgerCredits ==
    ASSUME IInv, SerialInv, NEW t \in Threads, CreditInvoice(t),
           NEW i \in Invoices, i = job[t].inv
    PROVE  Ledger!Credit(i) \/ UNCHANGED Ledger!ledger
  <1> DEFINE fiat == job[t].fiat
             row == Credited(i, copy[t], fiat)
  <1>1. /\ i \in Invoices /\ fiat \in Nat /\ copy[t] \in InvoiceRow
        /\ copy[t].paid \in Nat
        /\ pc[t] = "credit" /\ UNCHANGED recorded
        /\ invoice \in [Invoices -> InvoiceRow]
        /\ recorded \in [Invoices -> Nat]
        /\ invoice' = [invoice EXCEPT ![i] = row]
    BY ThreadFacts DEF CreditInvoice, Save, IInv, TypeOK
  <1>2. /\ copy[t] = invoice[i] /\ copy[t].paid + fiat = recorded[i]
        /\ copy[t].status \in Payable /\ Coherent(i, copy[t])
    BY <1>1 DEF SerialInv, CopiesAreRows, Uncredited, IInv, CopiesSound, PhaseOK
  <1>3. /\ row.paid = copy[t].paid + fiat
        /\ fiat = 0 => row.status = copy[t].status
        /\ fiat > 0 => row.status = Ledger!StatusFor(i, copy[t].paid + fiat)
    BY <1>1, <1>2, CreditedAsLedger
  <1> HIDE DEF fiat, row
  <1>4. CASE fiat = 0
    <2>1. \A j \in Invoices : /\ invoice'[j].status = invoice[j].status
                              /\ invoice'[j].paid = invoice[j].paid
      BY <1>1, <1>2, <1>3, <1>4
    <2> QED  BY <1>1, <2>1, LedgerStutters
  <1>5. CASE fiat > 0
    <2>1. /\ recorded[i] > invoice[i].paid
          /\ row.paid = recorded[i]
          /\ row.status = Ledger!StatusFor(i, recorded[i])
      BY <1>1, <1>2, <1>3, <1>5
    <2>2. [j \in Invoices |-> invoice'[j].paid]
            = [[j \in Invoices |-> invoice[j].paid] EXCEPT ![i] = recorded[i]]
      BY <1>1, <2>1
    <2>3. [j \in Invoices |-> invoice'[j].status]
            = [[j \in Invoices |-> invoice[j].status] EXCEPT
                  ![i] = Ledger!StatusFor(i, recorded[i])]
      BY <1>1, <2>1
    <2>4. Ledger!Credit(i)
      BY <1>1, <2>1, <2>2, <2>3 DEF Ledger!Credit
    <2> QED  BY <2>4
  <1> QED  BY <1>1, <1>4, <1>5

\* The steps that save a new status are the ledger's moves.
LEMMA LedgerSaves ==
    ASSUME IInv, JobFacts, SerialInv, NEW t \in Threads,
           NEW i \in Invoices, i = job[t].inv,
           \/ ConfirmInvoice(t) \/ CancelInvoice(t) \/ FinalizeInvoice(t)
           \/ ExpireInvoice(t)  \/ RefreshQuote(t)
    PROVE  \/ Ledger!Confirm(i)  \/ Ledger!Cancel(i) \/ Ledger!Finalize(i)
           \/ Ledger!Expire(i)   \/ Ledger!Reopen(i) \/ UNCHANGED Ledger!ledger
  <1>1. /\ i \in Invoices /\ copy[t] \in InvoiceRow /\ UNCHANGED recorded
        /\ PhaseOK(t) /\ Coherent(i, copy[t]) /\ recorded[i] \in Nat
    BY ThreadFacts DEF IInv, CopiesSound, ConfirmInvoice, CancelInvoice,
       FinalizeInvoice, ExpireInvoice, RefreshQuote
  <1>2. /\ copy[t] = invoice[i] /\ invoice[i].paid = recorded[i]
    BY <1>1 DEF SerialInv, CopiesAreRows, Uncredited, ConfirmInvoice,
       CancelInvoice, FinalizeInvoice, ExpireInvoice, RefreshQuote, InvoiceRow
  <1>3. CASE ConfirmInvoice(t)
    <2> DEFINE row == [copy[t] EXCEPT !.status = "confirmed"]
    <2>1. /\ row.status = "confirmed" /\ row.paid = invoice[i].paid
          /\ invoice[i].status \in {"paid"}
      BY <1>1, <1>2, <1>3 DEF ConfirmInvoice, PhaseOK, InvoiceRow
    <2>2. invoice' = [invoice EXCEPT ![i] = row]
      BY <1>3 DEF ConfirmInvoice, Save
    <2> HIDE DEF row
    <2>3. Ledger!Confirm(i)
      BY <1>1, <1>2, <2>1, <2>2, LedgerMoves DEF Ledger!Confirm
    <2> QED  BY <1>1, <2>3
  <1>4. CASE CancelInvoice(t)
    <2> DEFINE row == [copy[t] EXCEPT !.status = "cancelled"]
    <2>1. /\ row.status = "cancelled" /\ row.paid = invoice[i].paid
          /\ invoice[i].status \in {"draft", "pending"} /\ recorded[i] = 0
      BY <1>1, <1>2, <1>4 DEF CancelInvoice, PhaseOK, InvoiceRow, Coherent, Settled
    <2>2. invoice' = [invoice EXCEPT ![i] = row]
      BY <1>4 DEF CancelInvoice, Save
    <2> HIDE DEF row
    <2>3. Ledger!Cancel(i)
      BY <1>1, <1>2, <2>1, <2>2, LedgerMoves DEF Ledger!Cancel
    <2> QED  BY <1>1, <2>3
  <1>5. CASE FinalizeInvoice(t)
    <2> DEFINE meta == IF Monitors \cap {"btcpay", "lnbits"} # {}
                       THEN <<"connector", t>> ELSE copy[t].meta
               row == [copy[t] EXCEPT !.status = "pending", !.meta = meta,
                                      !.quoted = "onchain_btc" \in Monitors]
    <2>1. /\ row.status = "pending" /\ row.paid = invoice[i].paid
      BY <1>1, <1>2 DEF InvoiceRow
    <2>2. invoice[i].status \in {"draft"}
      BY <1>1, <1>2, <1>5 DEF FinalizeInvoice, PhaseOK
    <2> HIDE DEF row
    <2>3. invoice' = [invoice EXCEPT ![i] = row]
      BY <1>5 DEF FinalizeInvoice, Save, row
    <2>4. Ledger!Finalize(i)
      BY <1>1, <1>2, <2>1, <2>2, <2>3, LedgerMoves DEF Ledger!Finalize
    <2> QED  BY <1>1, <2>4
  <1>6. CASE ExpireInvoice(t)
    <2> DEFINE row == [copy[t] EXCEPT !.status = "expired"]
    <2>1. /\ row.status = "expired" /\ row.paid = invoice[i].paid
          /\ invoice[i].status \in {"pending"} /\ recorded[i] = 0
      BY <1>1, <1>2, <1>6
      DEF ExpireInvoice, PhaseOK, JobFacts, InvoiceRow, Coherent
    <2>2. invoice' = [invoice EXCEPT ![i] = row]
      BY <1>6 DEF ExpireInvoice
    <2> HIDE DEF row
    <2>3. Ledger!Expire(i)
      BY <1>1, <1>2, <2>1, <2>2, LedgerMoves DEF Ledger!Expire
    <2> QED  BY <1>1, <2>3
  <1>7. CASE RefreshQuote(t)
    <2> DEFINE row == [copy[t] EXCEPT !.status = "pending", !.quoted = TRUE]
    <2>1. /\ row.status = "pending" /\ row.paid = invoice[i].paid
          /\ invoice[i].status \in {"pending", "expired"}
      BY <1>1, <1>2, <1>7 DEF RefreshQuote, PhaseOK, InvoiceRow
    <2> HIDE DEF row
    <2>2. invoice' = [invoice EXCEPT ![i] = row] \/ UNCHANGED invoice
      BY <1>7 DEF RefreshQuote, row
    <2>3. CASE invoice' = [invoice EXCEPT ![i] = row] /\ invoice[i].status = "expired"
      <3>1. Ledger!Reopen(i)
        BY <1>1, <1>2, <2>1, <2>3, LedgerMoves DEF Ledger!Reopen
      <3> QED  BY <1>1, <3>1
    <2>4. CASE \/ UNCHANGED invoice
               \/ /\ invoice' = [invoice EXCEPT ![i] = row]
                  /\ invoice[i].status = "pending"
      <3>1. \A j \in Invoices : /\ invoice'[j].status = invoice[j].status
                                /\ invoice'[j].paid = invoice[j].paid
        BY <1>1, <2>1, <2>4 DEF IInv, TypeOK
      <3> QED  BY <1>1, <3>1, LedgerStutters
    <2> QED  BY <2>1, <2>2, <2>3, <2>4
  <1> QED  BY <1>3, <1>4, <1>5, <1>6, <1>7

LEMMA LedgerStep ==
    ASSUME IInv, DetectInv, SerialInv, [Next /\ OneJobAtATime]_vars
    PROVE  [Ledger!Next]_(Ledger!ledger)
  <1>1. CASE UNCHANGED <<invoice, recorded>>
    BY <1>1, LedgerStutters
  <1>2. ASSUME NEW t \in Threads, Continue(t)
        PROVE  [Ledger!Next]_(Ledger!ledger)
    <2>1. PICK i \in Invoices : i = job[t].inv /\ JobFacts
      BY ThreadFacts DEF DetectInv
    <2>2. CASE RecordPayment(t) \/ CreditInvoice(t)
      BY <2>1, <2>2, LedgerReceives, LedgerCredits DEF Ledger!Next
    <2>3. CASE \/ ConfirmInvoice(t) \/ CancelInvoice(t) \/ FinalizeInvoice(t)
               \/ ExpireInvoice(t)  \/ RefreshQuote(t)
      BY <2>1, <2>3, LedgerSaves DEF Ledger!Next
    <2>4. CASE Fulfil(t) \/ SaveBaseline(t)
      <3>1. copy[t] = invoice[job[t].inv] /\ copy[t] \in InvoiceRow
        BY <1>2, StepsTaken, ThreadFacts DEF SerialInv, CopiesAreRows
      <3>2. UNCHANGED recorded
        BY <2>4 DEF Fulfil, SaveBaseline
      <3>3. \A j \in Invoices : /\ invoice'[j].status = invoice[j].status
                                /\ invoice'[j].paid = invoice[j].paid
        <4>1. invoice \in [Invoices -> InvoiceRow]
          BY DEF IInv, TypeOK
        <4>2. CASE Fulfil(t)
          BY <2>1, <3>1, <4>1, <4>2 DEF Fulfil, Save
        <4>3. CASE SaveBaseline(t)
          BY <2>1, <3>1, <4>1, <4>3 DEF SaveBaseline, Save, InvoiceRow
        <4> QED  BY <2>4, <4>2, <4>3
      <3> QED  BY <3>2, <3>3, LedgerStutters
    <2>5. CASE UNCHANGED <<invoice, recorded>>
      BY <1>1, <2>5
    <2> QED
      BY <1>2, <2>2, <2>3, <2>4, <2>5
      DEF Continue, Flush, PublishReceived, ConfirmPayment, store, FlushCancel,
          FlushConfirmed, PublishConfirmed, FinalizeFails, WatchInvoice,
          FlushFinal, PublishCancel
  <1>3. CASE Callback
    <2>1. UNCHANGED <<invoice, recorded>>
      BY <1>3, CallbackReports DEF Callback, Reports, Report, store
    <2> QED  BY <1>1, <2>1
  <1>4. CASE Request
    <2>1. UNCHANGED <<invoice, recorded>>
      BY <1>4 DEF Request, BeginFinalize, BeginCancel, BeginExpiry, BeginRefresh,
                  BeginRequest, store
    <2> QED  BY <1>1, <2>1
  <1>5. CASE UNCHANGED vars
    BY <1>1, <1>5 DEF vars
  <1> QED  BY <1>2, <1>3, <1>4, <1>5 DEF Next

LEMMA LedgerInit == Init => Ledger!Init
  BY DEF Init, Ledger!Init, NewInvoice

\* The serial program implements the ledger, as far as safety goes: every step
\* of every job receives, credits or moves an invoice as the ledger allows, or
\* leaves the ledger alone.  In particular nothing is taken off a settled
\* invoice, and only an invoice without money is cancelled or expires.
THEOREM SerialImplementsLedger ==
    SerialSpec => Ledger!Init /\ [][Ledger!Next]_(Ledger!ledger)
  <1>1. Init => Ledger!Init
    BY LedgerInit
  <1>2. IInv /\ DetectInv /\ SerialInv /\ [Next /\ OneJobAtATime]_vars
            => [Ledger!Next]_(Ledger!ledger)
    BY LedgerStep
  <1> QED  BY <1>1, <1>2, SerialInvariance, PTL DEF SerialSpec
===============================================================================
