------------------------- MODULE InvoiceServiceProofs -------------------------
(***************************************************************************)
(* Proofs about InvoiceService, for any number of invoices, monitors and   *)
(* request threads, any totals and any accepted shortfall.                 *)
(*                                                                         *)
(* The invariant IInv of InvoiceService is inductive.  A thread that saves *)
(* a stale copy overwrites what others saved, so nothing can be proved of  *)
(* the table alone; what can be is that every copy is itself a coherent    *)
(* row that the payments recorded so far cover.                            *)
(***************************************************************************)
EXTENDS InvoiceService, SequenceTheorems, WellFoundedInduction, TLAPS

-------------------------------------------------------------------------------
(* A set of indices of a sequence that is not empty has a last element.      *)

LEMMA HasLast ==
    ASSUME NEW n \in Nat, NEW S \in SUBSET (1 .. n), S # {}
    PROVE  \E k \in S : \A l \in S : l <= k
  <1> DEFINE U == {u \in Nat : \A l \in S : l <= u}
  <1>1. U # {} /\ U \subseteq Nat
    <2>1. n \in U
      OBVIOUS
    <2> QED  BY <2>1
  <1>2. PICK u \in U : \A v \in U : ~ (<<v, u>> \in OpToRel(<, Nat))
    <2> HIDE DEF U
    <2> QED  BY <1>1, NatLessThanWellFounded, WFMin
  <1>3. \A v \in U : u <= v
    <2> SUFFICES ASSUME NEW v \in U PROVE u <= v
      OBVIOUS
    <2>1. ~ (v < u)
      BY <1>1, <1>2 DEF OpToRel
    <2> QED  BY <1>1, <2>1
  <1>4. u \in S
    <2> SUFFICES ASSUME u \notin S PROVE FALSE
      OBVIOUS
    <2>1. \A l \in S : l <= u - 1
      OBVIOUS
    <2>2. u - 1 \in U
      <3>1. PICK l \in S : TRUE
        OBVIOUS
      <3>2. l \in Nat /\ l >= 1 /\ l <= u - 1 /\ u \in Nat
        BY <2>1
      <3> QED  BY <2>1, <3>2
    <2> QED  BY <1>3, <2>2
  <1> QED  BY <1>4

\* _find_payment returns a row of the invoice, or none.
LEMMA FindPaymentRow ==
    ASSUME TypeOK, NEW i \in Invoices, NEW m, NEW txid
    PROVE  FindPayment(i, m, txid) \in (DOMAIN payments[i]) \cup {0}
  <1> DEFINE D == DOMAIN payments[i]
             C == Candidates(i, m)
             same == {k \in C : payments[i][k].txid = txid}
  <1>1. D = 1 .. Len(payments[i]) /\ Len(payments[i]) \in Nat
    BY DEF TypeOK
  <1>2. C \subseteq D /\ same \subseteq C
    BY DEF Candidates
  <1>3. C # {} => Latest(i, m) \in C
    BY <1>1, <1>2, HasLast DEF Latest
  <1>4. same # {} => (CHOOSE k \in same : \A l \in same : k <= l) \in same
    <2> SUFFICES ASSUME same # {}
                 PROVE  \E k \in same : \A l \in same : k <= l
      OBVIOUS
    <2> DEFINE flip == {Len(payments[i]) + 1 - k : k \in same}
    <2>1. flip # {} /\ flip \subseteq 1 .. Len(payments[i])
      BY <1>1, <1>2
    <2>2. PICK f \in flip : \A g \in flip : g <= f
      BY <1>1, <2>1, HasLast
    <2>3. PICK k \in same : f = Len(payments[i]) + 1 - k
      BY <2>2
    <2>4. ASSUME NEW l \in same PROVE k <= l
      <3>1. Len(payments[i]) + 1 - l \in flip
        OBVIOUS
      <3>2. Len(payments[i]) + 1 - l <= Len(payments[i]) + 1 - k
        BY <2>2, <2>3, <3>1
      <3>3. k \in Nat /\ l \in Nat
        BY <1>1, <1>2
      <3> QED  BY <1>1, <3>2, <3>3
    <2> QED  BY <2>4
  <1> QED
    <2>1. CASE C = {}
      BY <2>1 DEF FindPayment
    <2>2. CASE C # {} /\ txid # "" /\ same # {}
      BY <1>2, <1>4, <2>2 DEF FindPayment
    <2>3. CASE C # {} /\ ~ (txid # "" /\ same # {})
      BY <1>2, <1>3, <2>3 DEF FindPayment
    <2> QED  BY <2>1, <2>2, <2>3

-------------------------------------------------------------------------------
(* The lemmas that every step is reduced to.                                 *)

\* _credit_invoice keeps a payable row coherent: amount_paid grows by the
\* amount, and the status is the one it implies.
LEMMA CreditedCoherent ==
    ASSUME NEW i \in Invoices, NEW row \in InvoiceRow, NEW fiat \in Nat,
           Coherent(i, row), row.status \in Payable
    PROVE  /\ Credited(i, row, fiat) \in InvoiceRow
           /\ Credited(i, row, fiat).paid = row.paid + fiat
           /\ Coherent(i, Credited(i, row, fiat))
  <1>1. Total[i] \in Nat /\ Total[i] > 0 /\ Gift \in Nat
    BY ConstantsAssumption
  <1> DEFINE paid == row.paid + fiat
             new == Credited(i, row, fiat)
  <1>2. /\ row.paid \in Nat /\ paid \in Nat
        /\ row.status \in {"pending", "partial", "paid"}
    BY DEF InvoiceRow, Payable
  <1>3. /\ Covers(i, paid) => new.status = "paid"
        /\ paid > 0 /\ ~ Covers(i, paid) => new.status = "partial"
        /\ paid = 0 => new.status = row.status
        /\ new.paid = paid
    BY <1>1, <1>2 DEF Credited, Covers, InvoiceRow
  <1>4. new \in InvoiceRow
    <2>1. new = [row EXCEPT !.paid = paid, !.status = new.status]
      BY DEF Credited, InvoiceRow
    <2>2. new.status \in Statuses
      BY <1>2, <1>3 DEF Statuses
    <2> QED  BY <1>2, <2>1, <2>2 DEF InvoiceRow
  <1>5. Coherent(i, new)
    <2>1. paid = 0 => row.status = "pending"
      BY <1>2 DEF Coherent, Covers, Settled
    <2> QED  BY <1>2, <1>3, <2>1 DEF Coherent, Settled, Covers
  <1> QED  BY <1>3, <1>4, <1>5

\* A step in which only thread t moves, payments are only added, and what is
\* saved is coherent and covered preserves the invariant.
LEMMA OneThreadMoves ==
    ASSUME IInv, TypeOK', NEW t \in Threads,
           \A u \in Threads \ {t} :
              pc'[u] = pc[u] /\ job'[u] = job[u] /\ copy'[u] = copy[u],
           \A i \in Invoices : recorded[i] <= recorded'[i],
           \A i \in Invoices : DOMAIN payments[i] \subseteq DOMAIN payments'[i],
           PhaseOK(t)',
           Coherent(job[t].inv, copy[t])',
           (copy[t].paid + Uncredited(t) <= recorded[job[t].inv])',
           \A i \in Invoices :
              \/ invoice'[i] = invoice[i]
              \/ Coherent(i, invoice[i])' /\ (invoice[i].paid <= recorded[i])'
    PROVE  IInv'
  <1>1. SavedRowCoherent'
    BY DEF IInv, SavedRowCoherent, Coherent, Covers
  <1>2. NeverOverCredited'
    <2> SUFFICES ASSUME NEW i \in Invoices
                 PROVE  (invoice[i].paid <= recorded[i])'
      BY DEF NeverOverCredited
    <2>1. invoice[i].paid \in Nat /\ recorded[i] \in Nat /\ recorded'[i] \in Nat
      BY DEF IInv, TypeOK, InvoiceRow
    <2> QED  BY <2>1 DEF IInv, NeverOverCredited
  <1>3. ASSUME NEW u \in Threads \ {t}
        PROVE  /\ PhaseOK(u)'
               /\ Coherent(job[u].inv, copy[u])'
               /\ (copy[u].paid + Uncredited(u) <= recorded[job[u].inv])'
    <2>1. /\ PhaseOK(u)
          /\ Coherent(job[u].inv, copy[u])
          /\ copy[u].paid + Uncredited(u) <= recorded[job[u].inv]
          /\ job[u].inv \in Invoices /\ copy[u].paid \in Nat
          /\ job[u].fiat \in Nat
          /\ recorded[job[u].inv] \in Nat /\ recorded'[job[u].inv] \in Nat
      BY DEF IInv, CopiesSound, TypeOK, Job, InvoiceRow
    <2>2. PhaseOK(u)'
      BY <2>1 DEF PhaseOK
    <2>3. Coherent(job[u].inv, copy[u])'
      BY <2>1 DEF Coherent, Covers
    <2>4. (copy[u].paid + Uncredited(u) <= recorded[job[u].inv])'
      BY <2>1 DEF Uncredited
    <2> QED  BY <2>2, <2>3, <2>4
  <1> QED  BY <1>1, <1>2, <1>3 DEF IInv, CopiesSound

\* A thread that takes up a job has a fresh copy of a saved row.
LEMMA BeginPreserves ==
    ASSUME IInv, NEW t \in Threads, NEW i \in Invoices, NEW step \in Steps,
           NEW args \in Job, Begin(t, i, step, args),
           UNCHANGED <<store, paymentLock, published>>,
           watch' \in [Monitors -> [Invoices -> WatchStates]],
           step # "credit", PhaseOK(t)'
    PROVE  IInv'
  <1> USE DEF Begin, Goto, store
  <1>1. TypeOK'
    BY DEF IInv, TypeOK, Job
  <1>2. /\ job'[t].inv = i /\ copy'[t] = invoice[i] /\ pc'[t] = step
        /\ invoice' = invoice /\ recorded' = recorded /\ payments' = payments
    BY DEF IInv, TypeOK, Job
  <1>3. Coherent(i, invoice[i]) /\ invoice[i].paid <= recorded[i]
    BY DEF IInv, SavedRowCoherent, NeverOverCredited
  <1>4. Coherent(job[t].inv, copy[t])'
    BY <1>2, <1>3 DEF Coherent, Covers
  <1>5. (copy[t].paid + Uncredited(t) <= recorded[job[t].inv])'
    BY <1>2, <1>3 DEF Uncredited, IInv, TypeOK, InvoiceRow
  <1>6. \A u \in Threads \ {t} :
            pc'[u] = pc[u] /\ job'[u] = job[u] /\ copy'[u] = copy[u]
    BY DEF IInv, TypeOK
  <1>7. \A j \in Invoices : recorded[j] <= recorded'[j]
    BY <1>2 DEF IInv, TypeOK
  <1> HIDE DEF Begin, Goto, store
  <1> QED  BY <1>1, <1>2, <1>4, <1>5, <1>6, <1>7, OneThreadMoves

LEMMA NoJobTyped == NoJob \in Job
  <1>1. (CHOOSE i \in Invoices : TRUE) \in Invoices
    BY ConstantsAssumption
  <1> QED  BY <1>1 DEF NoJob, Job, Methods, Txids, Statuses

\* An idle thread holds a draft with nothing paid.
LEMMA FinishPreserves ==
    ASSUME IInv, TypeOK', NEW t \in Threads, Finish(t),
           payments' = payments, recorded' = recorded,
           \A i \in Invoices :
              \/ invoice'[i] = invoice[i]
              \/ Coherent(i, invoice[i])' /\ (invoice[i].paid <= recorded[i])'
    PROVE  IInv'
  <1> USE DEF Finish, Goto
  <1>1. pc'[t] = "idle" /\ job'[t] = NoJob /\ copy'[t] = NewInvoice
    BY DEF IInv, TypeOK
  <1>2. PhaseOK(t)'
    BY <1>1 DEF PhaseOK
  <1>3. NoJob.inv \in Invoices
    BY NoJobTyped DEF Job
  <1>4. Coherent(job[t].inv, copy[t])'
    BY <1>1 DEF Coherent, Covers, NewInvoice, Settled
  <1>5. (copy[t].paid + Uncredited(t) <= recorded[job[t].inv])'
    BY <1>1, <1>3 DEF Uncredited, NewInvoice, IInv, TypeOK
  <1>6. \A u \in Threads \ {t} :
            pc'[u] = pc[u] /\ job'[u] = job[u] /\ copy'[u] = copy[u]
    BY DEF IInv, TypeOK
  <1>7. \A j \in Invoices : recorded[j] <= recorded'[j]
    BY DEF IInv, TypeOK
  <1> HIDE DEF Finish, Goto
  <1> QED  BY <1>2, <1>4, <1>5, <1>6, <1>7, OneThreadMoves

-------------------------------------------------------------------------------
(* The callbacks: each one begins a job on a payable invoice, or none.       *)

LEMMA RecordingTyped ==
    ASSUME NEW m \in Methods, NEW txid \in Txids, NEW fiat \in Nat,
           NEW confirm \in BOOLEAN
    PROVE  Recording(m, txid, fiat, confirm) \in Job
  BY NoJobTyped DEF Recording, Job

LEMMA AmountDueTyped ==
    ASSUME TypeOK, NEW i \in Invoices
    PROVE  AmountDue(i, invoice[i]) \in Nat
  <1>1. invoice[i].paid \in Nat /\ Total[i] \in Nat
    BY ConstantsAssumption DEF TypeOK, InvoiceRow
  <1> QED  BY <1>1 DEF AmountDue

LEMMA ReportTyped ==
    ASSUME TypeOK, NEW m \in Monitors, NEW i \in Invoices,
           NEW s \in WatchStates, Report(m, i, s)
    PROVE  watch' \in [Monitors -> [Invoices -> WatchStates]]
  BY DEF TypeOK, Report

\* The callback returned early: only the monitor's own entry has changed.
LEMMA IgnorePreserves ==
    ASSUME IInv, NEW m \in Monitors, NEW i \in Invoices,
           NEW s \in WatchStates, Report(m, i, s), Ignore
    PROVE  IInv'
  <1>1. watch' \in [Monitors -> [Invoices -> WatchStates]]
    BY ReportTyped DEF IInv
  <1>2. UNCHANGED <<invoice, payments, recorded, flagged, fulfilments,
                    paymentLock, pc, job, copy>>
    BY DEF Report, Ignore, store
  <1> QED
    BY <1>1, <1>2
    DEF IInv, TypeOK, SavedRowCoherent, NeverOverCredited, CopiesSound,
        PhaseOK, Coherent, Covers, Uncredited

LEMMA BeginRecordPreserves ==
    ASSUME IInv, NEW m \in Monitors, NEW i \in Invoices,
           NEW s \in WatchStates, Report(m, i, s),
           invoice[i].status \in Payable,
           NEW txid \in Txids, NEW fiat \in Nat, NEW confirm \in BOOLEAN,
           Begin(m, i, "record", Recording(m, txid, fiat, confirm))
    PROVE  IInv'
  <1>1. m \in Threads /\ m \in Methods
    BY ConstantsAssumption DEF Threads
  <1>2. Recording(m, txid, fiat, confirm) \in Job
    BY <1>1, RecordingTyped
  <1>3. watch' \in [Monitors -> [Invoices -> WatchStates]]
    BY ReportTyped DEF IInv
  <1>4. PhaseOK(m)'
    BY <1>1 DEF PhaseOK, Begin, Goto, IInv, TypeOK
  <1>5. "record" \in Steps
    BY DEF Steps
  <1> QED
    BY <1>1, <1>2, <1>3, <1>4, <1>5, BeginPreserves DEF Report

LEMMA BeginConfirmPreserves ==
    ASSUME IInv, NEW m \in Monitors, NEW i \in Invoices,
           NEW s \in WatchStates, Report(m, i, s),
           NEW r \in DOMAIN payments[i], BeginConfirm(m, i, r)
    PROVE  IInv'
  <1>1. CASE Ignore
    BY <1>1, IgnorePreserves
  <1>2. CASE Begin(m, i, "confirm", Confirming(m, r))
    <2>1. m \in Threads /\ m \in Methods /\ r \in Nat
      BY ConstantsAssumption DEF Threads, IInv, TypeOK
    <2>2. Confirming(m, r) \in Job
      BY <2>1, NoJobTyped DEF Confirming, Job
    <2>3. watch' \in [Monitors -> [Invoices -> WatchStates]]
      BY ReportTyped DEF IInv
    <2>4. job'[m].row = r /\ job'[m].inv = i /\ payments' = payments
      BY <1>2, <2>1, <2>2
      DEF Begin, Report, store, IInv, TypeOK, Confirming, NoJob, Job
    <2>5. PhaseOK(m)'
      BY <1>2, <2>1, <2>4 DEF PhaseOK, Begin, Goto, IInv, TypeOK
    <2>6. "confirm" \in Steps
      BY DEF Steps
    <2> QED
      BY <1>2, <2>1, <2>2, <2>3, <2>5, <2>6, BeginPreserves DEF Report
  <1> QED  BY <1>1, <1>2 DEF BeginConfirm

LEMMA CallbackPreserves ==
    ASSUME IInv, NEW i \in Invoices,
           \/ OnchainSeen(i) \/ OnchainConfirmed(i) \/ BTCPayPayment(i)
           \/ LNbitsPayment(i) \/ StablecoinPayment(i)
    PROVE  IInv'
  <1>1. Amounts \subseteq Nat
    BY ConstantsAssumption
  <1>2. {"", "tx"} \subseteq Txids /\ {"seen", "done", "unwatched"} \subseteq WatchStates
    BY DEF Txids, WatchStates
  <1>3. \A m, txid : FindPayment(i, m, txid) # 0 =>
                        FindPayment(i, m, txid) \in DOMAIN payments[i]
    BY FindPaymentRow DEF IInv
  <1>4. AmountDue(i, invoice[i]) \in Nat
    BY AmountDueTyped DEF IInv
  <1>5. CASE OnchainSeen(i)
    BY <1>1, <1>2, <1>5, IgnorePreserves, BeginRecordPreserves DEF OnchainSeen
  <1>6. CASE OnchainConfirmed(i)
    BY <1>1, <1>2, <1>3, <1>6, IgnorePreserves, BeginRecordPreserves,
       BeginConfirmPreserves DEF OnchainConfirmed
  <1>7. CASE BTCPayPayment(i)
    BY <1>2, <1>3, <1>4, <1>7, IgnorePreserves, BeginRecordPreserves,
       BeginConfirmPreserves DEF BTCPayPayment
  <1>8. CASE LNbitsPayment(i)
    BY <1>2, <1>3, <1>4, <1>8, IgnorePreserves, BeginRecordPreserves,
       BeginConfirmPreserves DEF LNbitsPayment
  <1>9. CASE StablecoinPayment(i)
    BY <1>1, <1>2, <1>9, IgnorePreserves, BeginRecordPreserves
    DEF StablecoinPayment
  <1> QED  BY <1>5, <1>6, <1>7, <1>8, <1>9

-------------------------------------------------------------------------------
(* The requests. *)

LEMMA RequestPreserves ==
    ASSUME IInv, NEW t \in Requests, NEW i \in Invoices,
           \/ BeginFinalize(t, i) \/ BeginCancel(t, i)
           \/ BeginExpiry(t, i)   \/ BeginRefresh(t, i)
    PROVE  IInv'
  <1>1. t \in Threads
    BY DEF Threads
  <1>2. {"finalize", "cancel", "expire", "refresh"} \subseteq Steps
    BY DEF Steps
  <1>3. ASSUME NEW step \in Steps, step # "credit", BeginRequest(t, i, step),
               PhaseOK(t)'
        PROVE  IInv'
    <2>1. watch' \in [Monitors -> [Invoices -> WatchStates]]
      BY <1>3 DEF BeginRequest, IInv, TypeOK
    <2> QED
      BY <1>1, <1>3, <2>1, NoJobTyped, BeginPreserves DEF BeginRequest
  <1>4. ASSUME NEW step \in Steps, BeginRequest(t, i, step)
        PROVE  pc'[t] = step /\ copy'[t] = invoice[i]
    BY <1>1, <1>4 DEF BeginRequest, Begin, Goto, IInv, TypeOK
  <1>5. CASE BeginFinalize(t, i)
    <2>1. PhaseOK(t)'
      BY <1>2, <1>4, <1>5 DEF BeginFinalize, PhaseOK
    <2> QED  BY <1>2, <1>3, <1>5, <2>1 DEF BeginFinalize
  <1>6. CASE BeginCancel(t, i)
    <2>1. PhaseOK(t)'
      BY <1>2, <1>4, <1>6 DEF BeginCancel, PhaseOK
    <2> QED  BY <1>2, <1>3, <1>6, <2>1 DEF BeginCancel
  <1>7. CASE BeginExpiry(t, i)
    <2>1. PhaseOK(t)'
      BY <1>2, <1>4, <1>7 DEF BeginExpiry, PhaseOK
    <2> QED  BY <1>2, <1>3, <1>7, <2>1 DEF BeginExpiry
  <1>8. CASE BeginRefresh(t, i)
    <2>1. PhaseOK(t)'
      BY <1>2, <1>4, <1>8 DEF BeginRefresh, PhaseOK
    <2> QED  BY <1>2, <1>3, <1>8, <2>1 DEF BeginRefresh
  <1> QED  BY <1>5, <1>6, <1>7, <1>8

-------------------------------------------------------------------------------
(* The steps of a job.                                                       *)

\* A step that neither saves the invoice nor ends the job.
LEMMA MoveOnPreserves ==
    ASSUME IInv, NEW t \in Threads, NEW step \in Steps, Goto(t, step),
           pc[t] # "credit", step # "credit", PhaseOK(t)',
           TypeOK', UNCHANGED <<invoice, copy, recorded>>,
           \A u \in Threads : job'[u] = job[u],
           \A i \in Invoices : DOMAIN payments[i] \subseteq DOMAIN payments'[i]
    PROVE  IInv'
  <1>1. /\ pc'[t] = step
        /\ \A u \in Threads \ {t} :
              pc'[u] = pc[u] /\ job'[u] = job[u] /\ copy'[u] = copy[u]
    BY DEF Goto, IInv, TypeOK
  <1>2. Coherent(job[t].inv, copy[t])'
    BY DEF IInv, CopiesSound, Coherent, Covers
  <1>3. (copy[t].paid + Uncredited(t) <= recorded[job[t].inv])'
    BY <1>1 DEF IInv, CopiesSound, Uncredited
  <1>4. \A i \in Invoices : recorded[i] <= recorded'[i]
    BY DEF IInv, TypeOK
  <1> QED  BY <1>1, <1>2, <1>3, <1>4, OneThreadMoves

\* A save() of a coherent row whose amount the recorded payments cover.
LEMMA SavePreserves ==
    ASSUME IInv, NEW t \in Threads, NEW row \in InvoiceRow, Save(t, row),
           NEW step \in Steps, Goto(t, step), step # "credit",
           TypeOK', UNCHANGED <<payments, recorded, job>>, PhaseOK(t)',
           Coherent(job[t].inv, row), row.paid <= recorded[job[t].inv]
    PROVE  IInv'
  <1>1. /\ copy'[t] = row /\ pc'[t] = step
        /\ \A u \in Threads \ {t} :
              pc'[u] = pc[u] /\ job'[u] = job[u] /\ copy'[u] = copy[u]
    BY DEF Goto, Save, IInv, TypeOK
  <1>2. job[t].inv \in Invoices /\ row.paid \in Nat
    BY DEF IInv, TypeOK, Job, InvoiceRow
  <1>3. \A i \in Invoices :
          \/ invoice'[i] = invoice[i]
          \/ Coherent(i, invoice[i])' /\ (invoice[i].paid <= recorded[i])'
    <2> SUFFICES ASSUME NEW i \in Invoices, i = job[t].inv
                 PROVE  invoice'[i] = row
      BY DEF Save, IInv, TypeOK, Coherent, Covers
    <2> QED  BY DEF Save, IInv, TypeOK
  <1>4. Coherent(job[t].inv, copy[t])'
    BY <1>1 DEF Coherent, Covers
  <1>5. (copy[t].paid + Uncredited(t) <= recorded[job[t].inv])'
    BY <1>1, <1>2 DEF Uncredited
  <1>6. \A i \in Invoices :
            /\ recorded[i] <= recorded'[i]
            /\ DOMAIN payments[i] \subseteq DOMAIN payments'[i]
    BY DEF IInv, TypeOK
  <1> QED  BY <1>1, <1>3, <1>4, <1>5, <1>6, OneThreadMoves

\* What the invariant says of a thread and of the invoice it works on.
LEMMA ThreadFacts ==
    ASSUME IInv, NEW t \in Threads
    PROVE  /\ job[t] \in Job /\ job[t].inv \in Invoices
           /\ job[t].method \in Methods /\ job[t].txid \in Txids
           /\ job[t].fiat \in Nat
           /\ copy[t] \in InvoiceRow /\ copy[t].paid \in Nat
           /\ copy[t].meta \in Metas
           /\ recorded[job[t].inv] \in Nat
           /\ payments[job[t].inv] \in Seq(PaymentRow)
           /\ Len(payments[job[t].inv]) \in Nat
           /\ PhaseOK(t)
           /\ Coherent(job[t].inv, copy[t])
           /\ copy[t].paid + Uncredited(t) <= recorded[job[t].inv]
           /\ copy[t].paid <= recorded[job[t].inv]
  <1>1. job[t] \in Job /\ copy[t] \in InvoiceRow
    BY DEF IInv, TypeOK
  <1>2. /\ job[t].inv \in Invoices /\ job[t].fiat \in Nat
        /\ job[t].method \in Methods /\ job[t].txid \in Txids
    BY <1>1 DEF Job
  <1>3. copy[t].paid \in Nat /\ copy[t].meta \in Metas
    BY <1>1 DEF InvoiceRow
  <1>4. /\ recorded[job[t].inv] \in Nat
        /\ payments[job[t].inv] \in Seq(PaymentRow)
    BY <1>2 DEF IInv, TypeOK
  <1>5. Len(payments[job[t].inv]) \in Nat
    BY <1>4
  <1>6. /\ PhaseOK(t)
        /\ Coherent(job[t].inv, copy[t])
        /\ copy[t].paid + Uncredited(t) <= recorded[job[t].inv]
    BY DEF IInv, CopiesSound
  <1>7. copy[t].paid <= recorded[job[t].inv]
    BY <1>2, <1>3, <1>4, <1>6 DEF Uncredited
  <1> QED  BY <1>1, <1>2, <1>3, <1>4, <1>5, <1>6, <1>7

LEMMA RecordPreserves ==
    ASSUME IInv, NEW t \in Threads, RecordPayment(t)
    PROVE  IInv'
  <1> DEFINE i == job[t].inv
             row == [method |-> job[t].method, txid |-> job[t].txid,
                     fiat |-> job[t].fiat, status |-> "pending"]
  <1> USE DEF RecordPayment, Goto
  <1>1. /\ i \in Invoices /\ job[t].fiat \in Nat /\ job[t] \in Job
        /\ payments[i] \in Seq(PaymentRow) /\ row \in PaymentRow
        /\ Len(payments[i]) \in Nat
    BY ThreadFacts DEF PaymentRow
  <1>2. payments' \in [Invoices -> Seq(PaymentRow)]
    BY <1>1 DEF IInv, TypeOK
  <1>3. /\ recorded' \in [Invoices -> Nat]
        /\ recorded'[i] = recorded[i] + job[t].fiat
        /\ \A j \in Invoices : recorded[j] <= recorded'[j]
    BY <1>1 DEF IInv, TypeOK
  <1>4. /\ job' \in [Threads -> Job]
        /\ job'[t].inv = i /\ job'[t].fiat = job[t].fiat
        /\ job'[t].row = Len(payments[i]) + 1
    <2> DEFINE next == Len(payments[i]) + 1
               new == [job[t] EXCEPT !.row = next, !.before = copy[t].status]
    <2>1. job' = [job EXCEPT ![t] = new]
      BY DEF IInv, TypeOK
    <2>2. next \in Nat /\ copy[t].status \in Statuses
      BY <1>1, ThreadFacts DEF InvoiceRow
    <2>3. new \in Job /\ new.inv = i /\ new.fiat = job[t].fiat /\ new.row = next
      <3> HIDE DEF next
      <3> QED  BY <1>1, <2>2 DEF Job
    <2> HIDE DEF new
    <2> QED  BY <2>1, <2>3 DEF IInv, TypeOK
  <1>5. /\ pc' \in [Threads -> Steps] /\ pc'[t] = "credit" /\ copy' = copy
        /\ \A u \in Threads \ {t} : pc'[u] = pc[u] /\ job'[u] = job[u]
    BY DEF IInv, TypeOK, Steps
  <1>6. TypeOK'
    BY <1>2, <1>3, <1>4, <1>5 DEF IInv, TypeOK
  <1>7. /\ \A j \in Invoices : DOMAIN payments[j] \subseteq DOMAIN payments'[j]
        /\ job'[t].row \in DOMAIN payments'[i]
    BY <1>1, <1>4 DEF IInv, TypeOK
  <1>8. /\ copy[t].status \in Payable /\ Coherent(i, copy[t])
        /\ copy[t].paid <= recorded[i]
        /\ copy[t].paid \in Nat /\ recorded[i] \in Nat
    BY ThreadFacts DEF PhaseOK
  <1>9. PhaseOK(t)'
    BY <1>4, <1>5, <1>7, <1>8 DEF PhaseOK
  <1>10. Coherent(job[t].inv, copy[t])'
    BY <1>4, <1>5, <1>8 DEF Coherent, Covers
  <1>11. (copy[t].paid + Uncredited(t) <= recorded[job[t].inv])'
    BY <1>1, <1>3, <1>4, <1>5, <1>8 DEF Uncredited
  <1>12. invoice' = invoice
    OBVIOUS
  <1> HIDE DEF RecordPayment, Goto
  <1> QED
    BY <1>3, <1>5, <1>6, <1>7, <1>9, <1>10, <1>11, <1>12, OneThreadMoves

LEMMA CreditPreserves ==
    ASSUME IInv, NEW t \in Threads, CreditInvoice(t)
    PROVE  IInv'
  <1> DEFINE i == job[t].inv
             new == Credited(i, copy[t], job[t].fiat)
  <1>1. /\ i \in Invoices /\ copy[t] \in InvoiceRow /\ job[t].fiat \in Nat
        /\ copy[t].status \in Payable /\ Coherent(i, copy[t])
        /\ copy[t].paid + job[t].fiat <= recorded[i]
    BY ThreadFacts DEF CreditInvoice, PhaseOK, Uncredited
  <1>2. /\ new \in InvoiceRow /\ Coherent(i, new)
        /\ new.paid = copy[t].paid + job[t].fiat
    BY <1>1, CreditedCoherent
  <1>3. "flush" \in Steps /\ "flush" # "credit"
    BY DEF Steps
  <1>4. Save(t, new) /\ Goto(t, "flush") /\ UNCHANGED <<payments, recorded, job>>
    BY DEF CreditInvoice
  <1> HIDE DEF new
  <1>5. TypeOK'
    BY <1>1, <1>2, <1>3, <1>4 DEF CreditInvoice, Save, Goto, IInv, TypeOK
  <1>6. PhaseOK(t)'
    BY <1>3, <1>4 DEF PhaseOK, CreditInvoice, Goto, IInv, TypeOK, CopiesSound
  <1> QED  BY <1>1, <1>2, <1>3, <1>4, <1>5, <1>6, SavePreserves

LEMMA FulfilPreserves ==
    ASSUME IInv, NEW t \in Threads, Fulfil(t)
    PROVE  IInv'
  <1> DEFINE i == job[t].inv
  <1>1. /\ i \in Invoices /\ copy[t] \in InvoiceRow
        /\ copy[t].paid \in Nat /\ recorded[i] \in Nat
        /\ Coherent(i, copy[t]) /\ copy[t].paid <= recorded[i]
        /\ job[t].row \in DOMAIN payments[i]
        /\ "publish" \in Steps /\ "publish" # "credit" /\ pc[t] # "credit"
    BY ThreadFacts DEF Fulfil, PhaseOK, Steps
  <1>2. Goto(t, "publish") /\ UNCHANGED <<payments, recorded, job>>
    BY DEF Fulfil
  <1>3. PhaseOK(t)'
    BY <1>1, <1>2 DEF PhaseOK, Goto, IInv, TypeOK
  <1>4. pc' \in [Threads -> Steps]
    BY <1>1, <1>2 DEF Goto, IInv, TypeOK
  <1>5. CASE Save(t, copy[t]) /\ fulfilments' = [fulfilments EXCEPT ![i] = @ + 1]
             /\ flagged' = [flagged EXCEPT ![i] = @ \cup {copy[t].meta}]
    <2>1. flagged' \in [Invoices -> SUBSET Metas]
      BY <1>1, <1>5 DEF IInv, TypeOK, InvoiceRow
    <2>2. TypeOK'
      BY <1>1, <1>2, <1>4, <1>5, <2>1 DEF Fulfil, Save, IInv, TypeOK
    <2> QED  BY <1>1, <1>2, <1>3, <1>5, <2>2, SavePreserves
  <1>6. CASE UNCHANGED <<fulfilments, flagged, copy, invoice>>
    <2>1. TypeOK'
      BY <1>2, <1>4, <1>6 DEF Fulfil, IInv, TypeOK
    <2> QED  BY <1>1, <1>2, <1>3, <1>6, <2>1, MoveOnPreserves DEF IInv, TypeOK
  <1> QED  BY <1>5, <1>6 DEF Fulfil

\* Flushing and publishing leave the copies and the tables alone; the job goes
\* on or ends.
LEMMA QuietStepPreserves ==
    ASSUME IInv, NEW t \in Threads,
           \/ Flush(t) \/ PublishReceived(t) \/ FlushConfirmed(t)
           \/ PublishConfirmed(t) \/ FinalizeFails(t) \/ FlushFinal(t)
           \/ FlushCancel(t) \/ PublishCancel(t)
    PROVE  IInv'
  <1> USE DEF store
  <1>1. ASSUME UNCHANGED <<store, watch>>, Finish(t),
               paymentLock' \in Threads \cup {NoThread}
        PROVE  IInv'
    <2>1. NewInvoice \in InvoiceRow
      BY DEF NewInvoice, InvoiceRow, Statuses, Metas
    <2>2. "idle" \in Steps
      BY DEF Steps
    <2>3. TypeOK'
      BY <1>1, <2>1, <2>2, NoJobTyped DEF Finish, Goto, IInv, TypeOK
    <2> QED  BY <1>1, <2>3, FinishPreserves
  <1>2. ASSUME UNCHANGED <<store, watch, job, copy>>,
               paymentLock' \in Threads \cup {NoThread},
               NEW step \in {"fulfil", "publish", "confirm",
                             "publishConfirmed", "publishCancel"},
               Goto(t, step), pc[t] # "credit",
               step \in {"fulfil", "publish", "confirm"} =>
                    job[t].row \in DOMAIN payments[job[t].inv]
        PROVE  IInv'
    <2>1. step \in Steps /\ step # "credit" /\ pc'[t] = step
      BY <1>2 DEF Steps, Goto, IInv, TypeOK
    <2>2. TypeOK'
      BY <1>2, <2>1 DEF Goto, IInv, TypeOK
    <2>3. PhaseOK(t)'
      BY <1>2, <2>1 DEF PhaseOK
    <2> QED  BY <1>2, <2>1, <2>2, <2>3, MoveOnPreserves
  <1>3. pc[t] \in {"flush", "publish"} => job[t].row \in DOMAIN payments[job[t].inv]
    BY ThreadFacts DEF PhaseOK
  <1>4. paymentLock \in Threads \cup {NoThread}
    BY DEF IInv, TypeOK
  <1>5. CASE Flush(t)
    BY <1>2, <1>3, <1>4, <1>5 DEF Flush
  <1>6. CASE PublishReceived(t)
    BY <1>1, <1>2, <1>3, <1>6 DEF PublishReceived
  <1>7. CASE FlushConfirmed(t)
    BY <1>2, <1>4, <1>7 DEF FlushConfirmed
  <1>8. CASE PublishConfirmed(t)
    BY <1>1, <1>4, <1>8 DEF PublishConfirmed
  <1>9. CASE FinalizeFails(t)
    BY <1>1, <1>4, <1>9 DEF FinalizeFails
  <1>10. CASE FlushFinal(t)
    BY <1>1, <1>4, <1>10 DEF FlushFinal
  <1>11. CASE FlushCancel(t)
    BY <1>2, <1>4, <1>11 DEF FlushCancel
  <1>12. CASE PublishCancel(t)
    BY <1>1, <1>4, <1>12 DEF PublishCancel
  <1> QED
    BY <1>5, <1>6, <1>7, <1>8, <1>9, <1>10, <1>11, <1>12

LEMMA ConfirmPreserves ==
    ASSUME IInv, NEW t \in Threads, ConfirmPayment(t)
    PROVE  IInv'
  <1> DEFINE i == job[t].inv
             r == job[t].row
             step == IF copy[t].status = "paid" THEN "confirmInvoice"
                                                ELSE "publishConfirmed"
  <1>1. /\ i \in Invoices /\ r \in DOMAIN payments[i]
        /\ payments[i] \in Seq(PaymentRow)
    BY ThreadFacts DEF ConfirmPayment, PhaseOK
  <1>2. payments[i][r] \in PaymentRow
    BY <1>1
  <1>3. [payments[i][r] EXCEPT !.status = "confirmed"] \in PaymentRow
    BY <1>2 DEF PaymentRow
  <1>4. payments' = [payments EXCEPT ![i] =
            [payments[i] EXCEPT ![r] =
                [payments[i][r] EXCEPT !.status = "confirmed"]]]
    BY DEF ConfirmPayment
  <1>5. [payments[i] EXCEPT ![r] =
            [payments[i][r] EXCEPT !.status = "confirmed"]] \in Seq(PaymentRow)
    BY <1>1, <1>3, ExceptSeq
  <1>6. payments' \in [Invoices -> Seq(PaymentRow)]
    BY <1>1, <1>4, <1>5 DEF IInv, TypeOK
  <1>7. \A j \in Invoices : DOMAIN payments[j] \subseteq DOMAIN payments'[j]
    BY <1>1, <1>4 DEF IInv, TypeOK
  <1>8. /\ step \in Steps /\ step # "credit" /\ Goto(t, step)
        /\ pc[t] # "credit" /\ pc'[t] = step
        /\ UNCHANGED <<invoice, recorded, job, copy>>
    BY DEF ConfirmPayment, Steps, Goto, IInv, TypeOK
  <1>9. TypeOK'
    BY <1>6, <1>8 DEF ConfirmPayment, Goto, IInv, TypeOK
  <1>10. PhaseOK(t)'
    BY <1>8 DEF PhaseOK
  <1> HIDE DEF step
  <1> QED  BY <1>7, <1>8, <1>9, <1>10, MoveOnPreserves

\* dict(metadata): the flags of the invoice's dicts stay a set of dicts.
LEMMA CopyFlagTyped ==
    ASSUME TypeOK, NEW i \in Invoices, NEW old \in Metas, NEW new \in Metas,
           CopyFlag(i, old, new)
    PROVE  flagged' \in [Invoices -> SUBSET Metas]
  BY DEF TypeOK, CopyFlag

\* A changed status leaves a row coherent if it asks the same of its amount.
LEMMA RestatusCoherent ==
    ASSUME NEW i, NEW row \in InvoiceRow, Coherent(i, row),
           NEW new \in InvoiceRow, new.paid = row.paid,
           \/ new.status = "confirmed" /\ row.status = "paid"
           \/ /\ new.status \in {"pending", "expired", "cancelled"}
              /\ row.paid = 0
    PROVE  Coherent(i, new)
  BY DEF Coherent, Covers, Settled

LEMMA SaveStatusPreserves ==
    ASSUME IInv, NEW t \in Threads,
           \/ ConfirmInvoice(t) \/ FinalizeInvoice(t) \/ SaveBaseline(t)
           \/ CancelInvoice(t)
    PROVE  IInv'
  <1> DEFINE i == job[t].inv
  <1>1. /\ i \in Invoices /\ copy[t] \in InvoiceRow /\ copy[t].paid \in Nat
        /\ Coherent(i, copy[t]) /\ copy[t].paid <= recorded[i]
        /\ copy[t].meta \in Metas
    BY ThreadFacts
  <1>2. ASSUME NEW row \in InvoiceRow, Save(t, row),
               NEW step \in {"flushConfirmed", "watch", "flushFinal", "flushCancel"},
               Goto(t, step),
               step = "watch" => row.status = "pending" /\ t \in Requests,
               row.paid = copy[t].paid, Coherent(i, row),
               UNCHANGED <<payments, recorded, paymentLock, job, fulfilments>>,
               flagged' \in [Invoices -> SUBSET Metas],
               watch' \in [Monitors -> [Invoices -> WatchStates]]
        PROVE  IInv'
    <2>1. /\ step \in Steps /\ step # "credit" /\ pc'[t] = step
          /\ copy'[t] = row
      BY <1>2 DEF Steps, Goto, Save, IInv, TypeOK
    <2>2. TypeOK'
      BY <1>1, <1>2, <2>1 DEF Save, Goto, IInv, TypeOK
    <2>3. PhaseOK(t)'
      BY <1>2, <2>1 DEF PhaseOK
    <2> QED  BY <1>1, <1>2, <2>1, <2>2, <2>3, SavePreserves
  <1>3. /\ flagged \in [Invoices -> SUBSET Metas]
        /\ watch \in [Monitors -> [Invoices -> WatchStates]]
    BY DEF IInv, TypeOK
  <1>4. CASE ConfirmInvoice(t)
    <2> DEFINE row == [copy[t] EXCEPT !.status = "confirmed"]
    <2>1. row \in InvoiceRow /\ row.paid = copy[t].paid /\ row.status = "confirmed"
      BY <1>1 DEF InvoiceRow, Statuses
    <2>2. copy[t].status = "paid"
      BY <1>4, ThreadFacts DEF ConfirmInvoice, PhaseOK
    <2>3. Coherent(i, row)
      BY <1>1, <2>1, <2>2, RestatusCoherent
    <2> HIDE DEF row
    <2>4. Save(t, row) /\ Goto(t, "flushConfirmed")
      BY <1>4 DEF ConfirmInvoice, row
    <2> QED  BY <1>2, <1>3, <1>4, <2>1, <2>3, <2>4 DEF ConfirmInvoice
  <1>5. CASE FinalizeInvoice(t)
    <2> DEFINE meta == IF Monitors \cap {"btcpay", "lnbits"} # {}
                       THEN <<"connector", t>> ELSE copy[t].meta
               quoted == "onchain_btc" \in Monitors
               row == [copy[t] EXCEPT !.status = "pending", !.meta = meta,
                                      !.quoted = quoted]
    <2>1. copy[t].status = "draft" /\ t \in Requests
      BY <1>5, ThreadFacts DEF FinalizeInvoice, PhaseOK
    <2>2. meta \in Metas
      BY <1>1, <2>1 DEF Metas
    <2>3. quoted \in BOOLEAN
      OBVIOUS
    <2>4. /\ row \in InvoiceRow /\ row.paid = copy[t].paid
          /\ row.status = "pending"
      <3> HIDE DEF meta, quoted
      <3> QED  BY <1>1, <2>2, <2>3 DEF InvoiceRow, Statuses
    <2>5. Coherent(i, row)
      <3> HIDE DEF row
      <3>1. copy[t].paid = 0
        BY <1>1, <2>1 DEF Coherent, Settled
      <3> QED  BY <1>1, <2>4, <3>1, RestatusCoherent
    <2>6. /\ Save(t, row) /\ Goto(t, "watch")
          /\ CopyFlag(i, copy[t].meta, meta)
      BY <1>5 DEF FinalizeInvoice
    <2>7. flagged' \in [Invoices -> SUBSET Metas]
      BY <1>1, <2>2, <2>6, CopyFlagTyped DEF IInv
    <2> HIDE DEF row
    <2> QED  BY <1>2, <1>3, <1>5, <2>1, <2>4, <2>5, <2>6, <2>7 DEF FinalizeInvoice
  <1>6. CASE SaveBaseline(t)
    <2> DEFINE meta == <<"baseline", t>>
               row == [copy[t] EXCEPT !.meta = meta]
    <2>1. meta \in Metas
      BY <1>6, ThreadFacts DEF SaveBaseline, PhaseOK, Metas
    <2>2. /\ row \in InvoiceRow /\ row.paid = copy[t].paid
          /\ row.status = copy[t].status
      <3> HIDE DEF meta
      <3> QED  BY <1>1, <2>1 DEF InvoiceRow
    <2> HIDE DEF row
    <2>3. Coherent(i, row)
      BY <1>1, <2>2 DEF Coherent, Covers
    <2>4. Save(t, row) /\ Goto(t, "flushFinal")
      BY <1>6 DEF SaveBaseline, row
    <2>5. watch' \in [Monitors -> [Invoices -> WatchStates]]
      BY <1>1, <1>3, <1>6 DEF SaveBaseline, WatchStates
    <2> QED  BY <1>2, <1>3, <1>6, <2>2, <2>3, <2>4, <2>5 DEF SaveBaseline
  <1>7. CASE CancelInvoice(t)
    <2> DEFINE row == [copy[t] EXCEPT !.status = "cancelled"]
    <2>1. /\ row \in InvoiceRow /\ row.paid = copy[t].paid
          /\ row.status = "cancelled"
      BY <1>1 DEF InvoiceRow, Statuses
    <2>2. copy[t].status \in {"draft", "pending"}
      BY <1>7, ThreadFacts DEF CancelInvoice, PhaseOK
    <2>3. Coherent(i, row)
      <3>1. copy[t].paid = 0
        BY <1>1, <2>2 DEF Coherent, Settled
      <3> QED  BY <1>1, <2>1, <3>1, RestatusCoherent
    <2> HIDE DEF row
    <2>4. Save(t, row) /\ Goto(t, "flushCancel")
      BY <1>7 DEF CancelInvoice, row
    <2> QED  BY <1>2, <1>3, <1>7, <2>1, <2>3, <2>4 DEF CancelInvoice
  <1> QED  BY <1>4, <1>5, <1>6, <1>7

\* _watch_invoice_payments before the baseline: no row is touched.
LEMMA WatchPreserves ==
    ASSUME IInv, NEW t \in Threads, WatchInvoice(t)
    PROVE  IInv'
  <1> DEFINE i == job[t].inv
  <1>1. /\ i \in Invoices /\ copy[t].meta \in Metas
        /\ copy[t].status = "pending" /\ t \in Requests
    BY ThreadFacts DEF WatchInvoice, PhaseOK
  <1>2. watch' \in [Monitors -> [Invoices -> WatchStates]]
    BY <1>1 DEF WatchInvoice, WatchStates, IInv, TypeOK
  <1>3. /\ pc[t] # "credit" /\ copy' = copy
        /\ UNCHANGED <<invoice, payments, recorded, paymentLock, job, fulfilments>>
    BY DEF WatchInvoice
  <1>4. ASSUME NEW step \in {"baseline", "flushFinal"}, Goto(t, step),
               flagged' \in [Invoices -> SUBSET Metas]
        PROVE  IInv'
    <2>1. step \in Steps /\ step # "credit" /\ pc'[t] = step
      BY <1>4 DEF Steps, Goto, IInv, TypeOK
    <2>2. TypeOK'
      BY <1>2, <1>3, <1>4, <2>1 DEF Goto, IInv, TypeOK
    <2>3. PhaseOK(t)'
      BY <1>1, <1>3, <1>4, <2>1 DEF PhaseOK
    <2> QED  BY <1>3, <1>4, <2>1, <2>2, <2>3, MoveOnPreserves
  <1>5. CASE CopyFlag(i, copy[t].meta, <<"baseline", t>>) /\ Goto(t, "baseline")
    <2>1. <<"baseline", t>> \in Metas
      BY <1>1 DEF Metas
    <2>2. flagged' \in [Invoices -> SUBSET Metas]
      BY <1>1, <1>5, <2>1, CopyFlagTyped DEF IInv
    <2> QED  BY <1>4, <1>5, <2>2
  <1>6. CASE Goto(t, "flushFinal") /\ UNCHANGED flagged
    BY <1>4, <1>6 DEF IInv, TypeOK
  <1> QED  BY <1>5, <1>6 DEF WatchInvoice

\* The last save of a job whose row has nothing paid on it.
LEMMA LastSavePreserves ==
    ASSUME IInv, NEW t \in Threads, \/ ExpireInvoice(t) \/ RefreshQuote(t)
    PROVE  IInv'
  <1> DEFINE i == job[t].inv
  <1>1. /\ i \in Invoices /\ copy[t] \in InvoiceRow /\ copy[t].paid = 0
        /\ recorded[i] \in Nat /\ Coherent(i, copy[t])
        /\ pc[t] # "credit"
    <2>1. CASE pc[t] = "expire"
      BY <2>1, ThreadFacts DEF PhaseOK
    <2>2. CASE pc[t] = "refresh"
      BY <2>2, ThreadFacts DEF PhaseOK, Coherent, Settled
    <2> QED  BY <2>1, <2>2 DEF ExpireInvoice, RefreshQuote
  <1>2. /\ "idle" \in Steps /\ "refresh" \in Steps /\ NewInvoice \in InvoiceRow
        /\ UNCHANGED <<payments, recorded, paymentLock, watch, flagged, fulfilments>>
    BY DEF Steps, NewInvoice, InvoiceRow, Statuses, Metas, ExpireInvoice,
           RefreshQuote
  <1>3. ASSUME NEW row \in InvoiceRow, row.status \in {"expired", "pending"},
               row.paid = 0,
               \/ invoice' = [invoice EXCEPT ![i] = row]
               \/ invoice' = invoice
        PROVE  /\ Coherent(i, row)
               /\ invoice' \in [Invoices -> InvoiceRow]
               /\ \A j \in Invoices :
                    \/ invoice'[j] = invoice[j]
                    \/ Coherent(j, invoice[j])' /\ (invoice[j].paid <= recorded[j])'
    <2>1. Coherent(i, row)
      BY <1>1, <1>3, RestatusCoherent
    <2>2. invoice' \in [Invoices -> InvoiceRow]
      BY <1>1, <1>3 DEF IInv, TypeOK
    <2>3. ASSUME NEW j \in Invoices, invoice'[j] # invoice[j]
          PROVE  j = i /\ invoice'[j] = row
      BY <1>1, <1>3, <2>3 DEF IInv, TypeOK
    <2>4. ASSUME NEW j \in Invoices, invoice'[j] # invoice[j]
          PROVE  Coherent(j, invoice[j])' /\ (invoice[j].paid <= recorded[j])'
      BY <1>1, <1>2, <1>3, <2>1, <2>3, <2>4 DEF Coherent, Covers
    <2> QED  BY <2>1, <2>2, <2>4
  <1>4. ASSUME Finish(t), invoice' \in [Invoices -> InvoiceRow],
               \A j \in Invoices :
                  \/ invoice'[j] = invoice[j]
                  \/ Coherent(j, invoice[j])' /\ (invoice[j].paid <= recorded[j])'
        PROVE  IInv'
    <2>1. TypeOK'
      BY <1>2, <1>4, NoJobTyped DEF Finish, Goto, IInv, TypeOK
    <2> QED  BY <1>2, <1>4, <2>1, FinishPreserves
  <1>5. CASE ExpireInvoice(t)
    <2> DEFINE row == [copy[t] EXCEPT !.status = "expired"]
    <2>1. row \in InvoiceRow /\ row.status = "expired" /\ row.paid = 0
      BY <1>1 DEF InvoiceRow, Statuses
    <2>2. invoice' = [invoice EXCEPT ![i] = row]
      BY <1>5 DEF ExpireInvoice
    <2>3. CASE copy' = [copy EXCEPT ![t] = row] /\ Goto(t, "refresh") /\ UNCHANGED job
      <3> HIDE DEF row
      <3>1. Save(t, row) /\ Goto(t, "refresh") /\ "refresh" # "credit"
        BY <2>2, <2>3 DEF Save
      <3>2. copy'[t] = row /\ pc'[t] = "refresh"
        BY <2>3 DEF Goto, IInv, TypeOK
      <3>3. TypeOK'
        BY <1>2, <1>3, <2>1, <2>2, <2>3 DEF Goto, IInv, TypeOK
      <3>4. PhaseOK(t)'
        BY <2>1, <3>2 DEF PhaseOK
      <3>5. Coherent(i, row) /\ row.paid <= recorded[i]
        BY <1>1, <2>1, RestatusCoherent
      <3> QED  BY <1>2, <2>1, <2>3, <3>1, <3>3, <3>4, <3>5, SavePreserves
    <2>4. CASE Finish(t)
      BY <1>3, <1>4, <2>1, <2>2, <2>4
    <2> QED  BY <1>5, <2>3, <2>4 DEF ExpireInvoice
  <1>6. CASE RefreshQuote(t)
    <2> DEFINE row == [copy[t] EXCEPT !.status = "pending", !.quoted = TRUE]
    <2>1. row \in InvoiceRow /\ row.status = "pending" /\ row.paid = 0
      BY <1>1 DEF InvoiceRow, Statuses
    <2>2. /\ Finish(t)
          /\ invoice' = [invoice EXCEPT ![i] = row] \/ invoice' = invoice
      BY <1>6 DEF RefreshQuote
    <2> HIDE DEF row
    <2> QED  BY <1>3, <1>4, <2>1, <2>2
  <1> QED  BY <1>5, <1>6

-------------------------------------------------------------------------------
(* The theorems. *)

LEMMA InitIInv == Init => IInv
  <1> SUFFICES ASSUME Init PROVE IInv
    OBVIOUS
  <1> USE DEF Init
  <1>1. NewInvoice \in InvoiceRow /\ "idle" \in Steps /\ "unwatched" \in WatchStates
    BY DEF NewInvoice, InvoiceRow, Statuses, Metas, Steps, WatchStates
  <1>2. \A i \in Invoices : Coherent(i, NewInvoice) /\ NewInvoice.paid = 0
    BY DEF Coherent, NewInvoice, Settled
  <1>3. TypeOK
    BY <1>1, NoJobTyped DEF TypeOK
  <1>4. SavedRowCoherent /\ NeverOverCredited
    BY <1>2 DEF SavedRowCoherent, NeverOverCredited
  <1>5. CopiesSound
    <2> SUFFICES ASSUME NEW t \in Threads
                 PROVE  /\ PhaseOK(t) /\ Coherent(job[t].inv, copy[t])
                        /\ copy[t].paid + Uncredited(t) <= recorded[job[t].inv]
      BY DEF CopiesSound
    <2>1. /\ pc[t] = "idle" /\ copy[t] = NewInvoice
          /\ job[t].inv \in Invoices /\ recorded[job[t].inv] = 0
      BY NoJobTyped DEF Job
    <2> QED  BY <1>2, <2>1 DEF PhaseOK, Uncredited
  <1> QED  BY <1>3, <1>4, <1>5 DEF IInv

LEMMA NextIInv == IInv /\ [Next]_vars => IInv'
  <1> SUFFICES ASSUME IInv, [Next]_vars PROVE IInv'
    OBVIOUS
  <1>1. CASE Callback
    BY <1>1, CallbackPreserves DEF Callback
  <1>2. CASE Request
    BY <1>2, RequestPreserves DEF Request
  <1>3. ASSUME NEW t \in Threads, Continue(t) PROVE IInv'
    BY <1>3, RecordPreserves, CreditPreserves, FulfilPreserves,
       QuietStepPreserves, ConfirmPreserves, SaveStatusPreserves,
       WatchPreserves, LastSavePreserves DEF Continue
  <1>4. CASE UNCHANGED vars
    BY <1>4 DEF vars, IInv, TypeOK, SavedRowCoherent, NeverOverCredited,
                CopiesSound, PhaseOK, Coherent, Covers, Uncredited
  <1> QED  BY <1>1, <1>2, <1>3, <1>4 DEF Next

\* IInv holds in every state that any interleaving of the monitors and the
\* requests reaches.
THEOREM Invariance == Spec => []IInv
  <1> QED  BY InitIInv, NextIInv, PTL DEF Spec

\* Every variable keeps its type.
THEOREM TypeCorrect == Spec => []TypeOK
  <1>1. IInv => TypeOK
    BY DEF IInv
  <1> QED  BY <1>1, Invariance, PTL

\* Whatever stale copy is saved, status and amount_paid of the saved row agree.
THEOREM RowsAreCoherent == Spec => []SavedRowCoherent
  <1>1. IInv => SavedRowCoherent
    BY DEF IInv
  <1> QED  BY <1>1, Invariance, PTL

\* No interleaving credits an invoice with more than was recorded for it.
THEOREM CreditIsBounded == Spec => []NeverOverCredited
  <1>1. IInv => NeverOverCredited
    BY DEF IInv
  <1> QED  BY <1>1, Invariance, PTL

\* An invoice that is paid or confirmed has recorded payments that cover it.
THEOREM SettledIsCovered == Spec => []PaidIsCovered
  <1>1. IInv => PaidIsCovered
    <2> SUFFICES ASSUME IInv, NEW i \in Invoices, invoice[i].status \in Settled
                 PROVE  Covers(i, recorded[i])
      BY DEF PaidIsCovered
    <2>1. Covers(i, invoice[i].paid) /\ invoice[i].paid <= recorded[i]
      BY DEF IInv, SavedRowCoherent, NeverOverCredited, Coherent
    <2>2. /\ invoice[i].paid \in Nat /\ recorded[i] \in Nat
          /\ Gift \in Nat /\ Total[i] \in Nat
      BY ConstantsAssumption DEF IInv, TypeOK, InvoiceRow
    <2> QED  BY <2>1, <2>2 DEF Covers
  <1> QED  BY <1>1, Invariance, PTL
===============================================================================
