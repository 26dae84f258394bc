---------------------------- MODULE ServicesProofs ----------------------------
(***************************************************************************)
(* Proofs about the background services, for any constants.                 *)
(*                                                                         *)
(* StablecoinMonitor: an invoice is credited with its own customer's money.  *)
(* What the balance has grown since a baseline was read is bounded by what   *)
(* the customer sent, from the reading on: for the baseline still to be      *)
(* saved, for the saved one, and for the balance that is being polled.       *)
(*                                                                         *)
(* Webhooks: the log of a delivery is true, because what a thread counts,   *)
(* what it has slept and what it has posted stay together at every stage.   *)
(*                                                                         *)
(* ProcessorMonitor: a payment is recorded once and confirmed only when it  *)
(* is settled, because a settled status is the counterpart's last.          *)
(*                                                                         *)
(* OnchainMonitor: the credit is at most what was paid to the address,      *)
(* because what is on it, and what a poll has read of it, is at most that.  *)
(***************************************************************************)
EXTENDS StablecoinMonitor, Webhooks, ProcessorMonitor, OnchainMonitor, FiniteSetTheorems, TLAPS

-------------------------------------------------------------------------------
(* StablecoinMonitor. *)

StableRecords == [status : {"draft", "pending", "expired", "cancelled", "partial", "confirmed"},
                  baseline : Nat \cup {NoBaseline}, row : BOOLEAN, credited : Nat]
StableTypeOK ==
    /\ balance \in Nat
    /\ stable \in [StableInvoices -> StableRecords]
    /\ registering \in [StableInvoices -> {"idle", "check", "watch", "save"}]
    /\ snapshot \in [StableInvoices -> Nat]
    /\ watched \subseteq StableInvoices
    /\ polled \in [inv : StableInvoices \cup {NobodyPolled}, balance : Nat]
    /\ polled # NobodyChecked => polled.inv \in StableInvoices
    /\ sent \in [StableInvoices -> Nat]

WatchedHaveBaselines ==
    \A i \in StableInvoices :
        i \in watched \/ polled.inv = i => stable[i].baseline # NoBaseline

\* What the balance has grown since it was read for an invoice's baseline, be that
\* saved or not, is bounded by what the customer sent; so are what was polled of it
\* and the credit.
GrowthIsOwn ==
    \A i \in StableInvoices \ strayed :
        /\ registering[i] = "save" => balance - snapshot[i] <= sent[i]
        /\ stable[i].baseline # NoBaseline =>
              /\ balance - stable[i].baseline <= sent[i]
              /\ polled.inv = i => polled.balance - stable[i].baseline <= sent[i]
        /\ stable[i].credited <= sent[i]

\* An invoice whose baseline is being saved has none yet.
SavedOnce ==
    \A i \in StableInvoices : registering[i] = "save" => stable[i].baseline = NoBaseline

StableIInv == StableTypeOK /\ WatchedHaveBaselines /\ SavedOnce /\ GrowthIsOwn

LEMMA StableInitially == StableInit => StableIInv
BY StablecoinAssumption
   DEF StableInit, StableIInv, StableTypeOK, StableRecords, SavedOnce,
       WatchedHaveBaselines, GrowthIsOwn, NobodyChecked

\* A step that moves no money, takes no snapshot and watches nobody else.
LEMMA StableKept ==
    ASSUME StableIInv, StableTypeOK',
           UNCHANGED <<balance, sent, strayed>>,
           \A j \in StableInvoices :
              /\ stable'[j].baseline = stable[j].baseline
              /\ stable'[j].credited = stable[j].credited
              /\ registering'[j] = "save" =>
                    registering[j] = "save" /\ snapshot'[j] = snapshot[j],
           watched' \subseteq watched,
           polled' \in {polled, NobodyChecked}
    PROVE  StableIInv'
<1>1. \A j \in StableInvoices : polled'.inv = j => polled' = polled
  BY StablecoinAssumption DEF NobodyChecked
<1>2. WatchedHaveBaselines' /\ SavedOnce'
  BY <1>1 DEF StableIInv, WatchedHaveBaselines, SavedOnce
<1>3. GrowthIsOwn'
  BY <1>1 DEF StableIInv, GrowthIsOwn
<1> QED
  BY <1>2, <1>3 DEF StableIInv

\* The requests, and a check for conflicts.
LEMMA StableRequests ==
    ASSUME StableIInv, NEW i \in StableInvoices,
           \/ Finalize(i) \/ CancelStable(i) \/ ExpireStable(i) \/ ReopenStable(i)
           \/ \E alone \in BOOLEAN : CheckConflict(i, alone)
    PROVE  StableIInv'
<1>t. StableTypeOK
  BY DEF StableIInv
<1>1. CASE Finalize(i)
  <2>1. StableTypeOK'
    BY <1>t, <1>1 DEF StableTypeOK, StableRecords, Finalize, NobodyChecked
  <2> QED
    BY <1>t, <1>1, <2>1, StableKept DEF StableTypeOK, StableRecords, Finalize
<1>2. CASE CancelStable(i) \/ ExpireStable(i) \/ ReopenStable(i)
  <2>1. PICK from \in {"draft", "pending", "expired"}, to \in {"cancelled", "expired", "pending"} :
            StatusMoves(i, from, to)
    BY <1>2 DEF CancelStable, ExpireStable, ReopenStable
  <2>2. StableTypeOK'
    BY <1>t, <2>1 DEF StableTypeOK, StableRecords, StatusMoves, NobodyChecked
  <2> QED
    BY <1>t, <2>1, <2>2, StableKept DEF StableTypeOK, StableRecords, StatusMoves
<1>3. ASSUME NEW alone \in BOOLEAN, CheckConflict(i, alone) PROVE StableIInv'
  <2>1. PICK to \in {"watch", "idle"} :
            /\ registering' = [registering EXCEPT ![i] = to]
            /\ UNCHANGED <<balance, stable, snapshot, watched, polled, strayed, sent>>
    BY <1>3 DEF CheckConflict
  <2>2. StableTypeOK'
    BY <1>t, <2>1 DEF StableTypeOK, NobodyChecked
  <2> QED
    BY <1>t, <2>1, <2>2, StableKept DEF StableTypeOK
<1> QED
  BY <1>1, <1>2, <1>3

\* A registration that goes on to read, to save or to reuse a baseline.
LEMMA StableRegisters ==
    ASSUME StableIInv, NEW i \in StableInvoices,
           \/ SaveBaseline(i) \/ WatchAgain(i)
           \/ \E answers \in BOOLEAN : TakeSnapshot(i, answers)
    PROVE  StableIInv'
<1>t. StableTypeOK /\ WatchedHaveBaselines /\ SavedOnce /\ GrowthIsOwn
  BY DEF StableIInv
<1>1. ASSUME NEW answers \in BOOLEAN, TakeSnapshot(i, answers) PROVE StableIInv'
  <2>0. balance \in Nat
    BY <1>t DEF StableTypeOK
  <2>1. PICK base \in {balance, 0} :
            /\ base \in Nat
            /\ snapshot' = [snapshot EXCEPT ![i] = base]
            /\ strayed' = IF base < balance THEN strayed \cup {i} ELSE strayed
            /\ registering' = [registering EXCEPT ![i] = "save"]
            /\ stable[i].baseline = NoBaseline
            /\ UNCHANGED <<balance, stable, watched, polled, sent>>
    <3>1. snapshot'[i] = IF answers THEN balance ELSE 0
      BY <1>t, <1>1 DEF StableTypeOK, TakeSnapshot
    <3> QED
      BY <1>1, <2>0, <3>1 DEF TakeSnapshot
  <2>2. StableTypeOK'
    BY <1>t, <2>1 DEF StableTypeOK, NobodyChecked
  <2>3. WatchedHaveBaselines' /\ SavedOnce'
    BY <1>t, <2>1 DEF StableTypeOK, WatchedHaveBaselines, SavedOnce
  <2>4. i \notin strayed' => balance' - snapshot'[i] <= sent'[i]
    BY <1>t, <2>1 DEF StableTypeOK
  <2>5. GrowthIsOwn'
    BY <1>t, <2>1, <2>4 DEF StableTypeOK, GrowthIsOwn
  <2> QED
    BY <2>2, <2>3, <2>5 DEF StableIInv
<1>2. CASE SaveBaseline(i)
  <2>1. /\ registering[i] = "save"
        /\ registering' = [registering EXCEPT ![i] = "idle"]
        /\ stable' = [stable EXCEPT ![i].baseline = snapshot[i], ![i].status = "pending"]
        /\ snapshot' = [snapshot EXCEPT ![i] = 0]
        /\ watched' = watched \cup {i}
        /\ UNCHANGED <<balance, polled, strayed, sent>>
    BY <1>2 DEF SaveBaseline
  <2>2. stable' \in [StableInvoices -> StableRecords]
    <3> PICK base : base = snapshot[i]
      OBVIOUS
    <3>1. stable' = [stable EXCEPT ![i].baseline = base, ![i].status = "pending"]
      BY <2>1
    <3>2. base \in Nat \cup {NoBaseline} /\ stable \in [StableInvoices -> StableRecords]
      BY <1>t DEF StableTypeOK
    <3>3. stable[i] \in StableRecords
      BY <3>2
    <3> PICK r : r = [stable[i] EXCEPT !.baseline = base, !.status = "pending"]
      OBVIOUS
    <3>4. r \in StableRecords
      BY <3>2, <3>3 DEF StableRecords
    <3>5. stable' = [stable EXCEPT ![i] = r]
      BY <3>1, <3>2
    <3> QED
      BY <3>2, <3>4, <3>5
  <2>3. StableTypeOK'
    BY <1>t, <2>1, <2>2 DEF StableTypeOK, NobodyChecked
  <2>4. /\ stable'[i].baseline = snapshot[i] /\ stable'[i].credited = stable[i].credited
        /\ \A k \in StableInvoices \ {i} : stable'[k] = stable[k]
    BY <1>t, <2>1 DEF StableTypeOK, StableRecords
  <2>5. snapshot[i] # NoBaseline
    BY <1>t, StablecoinAssumption DEF StableTypeOK
  <2>6. stable[i].baseline = NoBaseline /\ polled.inv # i
    BY <1>t, <2>1 DEF SavedOnce, WatchedHaveBaselines
  <2>7. WatchedHaveBaselines' /\ SavedOnce'
    BY <1>t, <2>1, <2>4, <2>5 DEF StableTypeOK, WatchedHaveBaselines, SavedOnce
  <2>8. i \notin strayed => balance - snapshot[i] <= sent[i]
    BY <1>t, <2>1 DEF GrowthIsOwn
  <2>9. GrowthIsOwn'
    BY <1>t, <2>1, <2>4, <2>6, <2>8 DEF StableTypeOK, GrowthIsOwn
  <2> QED
    BY <2>3, <2>7, <2>9 DEF StableIInv
<1>3. CASE WatchAgain(i)
  <2>1. /\ stable[i].baseline # NoBaseline
        /\ registering' = [registering EXCEPT ![i] = "idle"]
        /\ watched' = watched \cup {i}
        /\ UNCHANGED <<balance, stable, snapshot, polled, strayed, sent>>
    BY <1>3 DEF WatchAgain
  <2>2. StableTypeOK'
    BY <1>t, <2>1 DEF StableTypeOK, NobodyChecked
  <2>3. WatchedHaveBaselines' /\ SavedOnce'
    BY <1>t, <2>1 DEF StableTypeOK, WatchedHaveBaselines, SavedOnce
  <2>4. GrowthIsOwn'
    BY <1>t, <2>1 DEF StableTypeOK, GrowthIsOwn
  <2> QED
    BY <2>2, <2>3, <2>4 DEF StableIInv
<1> QED
  BY <1>1, <1>2, <1>3

\* Money comes in or is taken out.
LEMMA StableMoney ==
    ASSUME StableIInv,
           Withdraw \/ \E i \in StableInvoices, amount \in 1 .. Due : SendStable(i, amount)
    PROVE  StableIInv'
<1>t. StableTypeOK /\ WatchedHaveBaselines /\ SavedOnce /\ GrowthIsOwn
  BY DEF StableIInv
<1>1. CASE Withdraw
  <2>1. /\ balance' = 0 /\ balance \in Nat
        /\ UNCHANGED <<stable, registering, snapshot, watched, polled, strayed, sent>>
    BY <1>t, <1>1 DEF StableTypeOK, Withdraw
  <2>2. StableTypeOK' /\ WatchedHaveBaselines' /\ SavedOnce'
    BY <1>t, <2>1 DEF StableTypeOK, WatchedHaveBaselines, SavedOnce, NobodyChecked
  <2>3. GrowthIsOwn'
    BY <1>t, <2>1 DEF StableTypeOK, StableRecords, GrowthIsOwn
  <2> QED
    BY <2>2, <2>3 DEF StableIInv
<1>2. ASSUME NEW i \in StableInvoices, NEW amount \in 1 .. Due, SendStable(i, amount)
      PROVE  StableIInv'
  <2>0. amount \in Nat
    BY StablecoinAssumption
  <2>1. /\ balance' = balance + amount
        /\ sent' = [sent EXCEPT ![i] = @ + amount]
        /\ strayed' = strayed \cup {j \in StableInvoices \ {i} :
                          stable[j].baseline # NoBaseline \/ registering[j] = "save"}
        /\ UNCHANGED <<stable, registering, snapshot, watched, polled>>
    BY <1>2 DEF SendStable
  <2>2. StableTypeOK' /\ WatchedHaveBaselines' /\ SavedOnce'
    BY <1>t, <2>0, <2>1 DEF StableTypeOK, WatchedHaveBaselines, SavedOnce, NobodyChecked
  <2>3. /\ sent'[i] = sent[i] + amount
        /\ \A j \in StableInvoices \ {i} : sent'[j] = sent[j]
    BY <1>t, <2>1 DEF StableTypeOK
  <2>4. \A j \in StableInvoices \ strayed' :
            j = i \/ (stable[j].baseline = NoBaseline /\ registering[j] # "save")
    BY <2>1
  <2>5. GrowthIsOwn'
    BY <1>t, <2>0, <2>1, <2>3, <2>4 DEF StableTypeOK, StableRecords, GrowthIsOwn
  <2> QED
    BY <2>2, <2>5 DEF StableIInv
<1> QED
  BY <1>1, <1>2

\* The monitor: what it reads of the balance is what there is.
LEMMA StableMonitors ==
    ASSUME StableIInv,
           SeeNothing \/ SeePayment \/ \E i \in StableInvoices : FetchBalance(i)
    PROVE  StableIInv'
<1>t. StableTypeOK /\ WatchedHaveBaselines /\ SavedOnce /\ GrowthIsOwn
  BY DEF StableIInv
<1>1. CASE SeeNothing
  <2>1. StableTypeOK'
    BY <1>t, <1>1 DEF StableTypeOK, SeeNothing, NobodyChecked
  <2> QED
    BY <1>1, <2>1, StableKept DEF SeeNothing
<1>2. ASSUME NEW i \in StableInvoices, FetchBalance(i) PROVE StableIInv'
  <2>1. /\ i \in watched /\ polled' = [inv |-> i, balance |-> balance]
        /\ UNCHANGED <<balance, stable, registering, snapshot, watched, strayed, sent>>
    BY <1>2 DEF FetchBalance
  <2>2. StableTypeOK' /\ WatchedHaveBaselines' /\ SavedOnce'
    BY <1>t, <2>1 DEF StableTypeOK, WatchedHaveBaselines, SavedOnce
  <2>3. GrowthIsOwn'
    BY <1>t, <2>1 DEF GrowthIsOwn
  <2> QED
    BY <2>2, <2>3 DEF StableIInv
<1>3. CASE SeePayment
  <2> DEFINE i == polled.inv
  <2>1. i \in StableInvoices /\ stable[i].baseline # NoBaseline
    BY <1>t, <1>3 DEF StableTypeOK, SeePayment, WatchedHaveBaselines
  <2>2. stable[i] \in StableRecords /\ Received \in Nat
    BY <1>t, <1>3, <2>1 DEF StableTypeOK, StableRecords, SeePayment, Received
  <2>3. /\ watched' = watched \ {i} /\ polled' = NobodyChecked
        /\ UNCHANGED <<balance, registering, snapshot, strayed, sent>>
    BY <1>3 DEF SeePayment
  <2>4. PICK inserted \in BOOLEAN, status \in {"partial", "confirmed"} :
            \/ stable' = [stable EXCEPT ![i].row = TRUE, ![i].credited = Received,
                                        ![i].status = status]
            \/ stable' = [stable EXCEPT ![i].row = inserted]
            \/ stable' = stable
    BY <1>3 DEF SeePayment, Handled, BrokenOff, Amount
  <2>5. stable' \in [StableInvoices -> StableRecords]
    <3> PICK r : r = Received
      OBVIOUS
    <3>1. CASE stable' = [stable EXCEPT ![i].row = TRUE, ![i].credited = r,
                                        ![i].status = status]
      BY <1>t, <2>1, <2>2, <3>1 DEF StableTypeOK, StableRecords
    <3>2. CASE stable' = [stable EXCEPT ![i].row = inserted]
      BY <1>t, <2>1, <3>2 DEF StableTypeOK, StableRecords
    <3> QED
      BY <1>t, <2>4, <3>1, <3>2 DEF StableTypeOK
  <2>6. StableTypeOK'
    BY <1>t, <2>1, <2>3, <2>5 DEF StableTypeOK, NobodyChecked
  <2>7. /\ \A j \in StableInvoices : stable'[j].baseline = stable[j].baseline
        /\ \A j \in StableInvoices \ {i} : stable'[j].credited = stable[j].credited
        /\ stable'[i].credited \in {stable[i].credited, Received}
    BY <1>t, <2>1, <2>4 DEF StableTypeOK, StableRecords
  <2>8. WatchedHaveBaselines' /\ SavedOnce'
    BY <1>t, <2>3, <2>7, StablecoinAssumption DEF WatchedHaveBaselines, SavedOnce, NobodyChecked
  <2>9. i \notin strayed => Received <= sent[i]
    BY <1>t, <2>1 DEF GrowthIsOwn, Received
  <2>10. \A j \in StableInvoices : polled'.inv # j
    BY <2>3, StablecoinAssumption DEF NobodyChecked
  <2>11. GrowthIsOwn'
    BY <1>t, <2>1, <2>3, <2>7, <2>9, <2>10 DEF GrowthIsOwn
  <2> QED
    BY <2>6, <2>8, <2>11 DEF StableIInv
<1> QED
  BY <1>1, <1>2, <1>3

LEMMA StableReboots == ASSUME StableIInv, Reboot PROVE StableIInv'
<1>t. StableTypeOK
  BY DEF StableIInv
<1>1. /\ watched' = {} /\ polled' = NobodyChecked
      /\ registering' = [i \in StableInvoices |-> IF i \in Payable THEN "check" ELSE "idle"]
      /\ snapshot' = [i \in StableInvoices |-> 0]
      /\ UNCHANGED <<balance, stable, strayed, sent>>
  BY DEF Reboot
<1>2. StableTypeOK'
  BY <1>t, <1>1 DEF StableTypeOK, NobodyChecked
<1> QED
  BY <1>1, <1>2, StableKept

\* Every state satisfies the strengthening.
LEMMA StableInvariance == StableSpec => []StableIInv
<1>1. StableIInv /\ [StableNext]_stableVars => StableIInv'
  <2> SUFFICES ASSUME StableIInv, [StableNext]_stableVars PROVE StableIInv'
    OBVIOUS
  <2>1. CASE StableNext
    BY <2>1, StableRequests, StableRegisters, StableMoney, StableMonitors, StableReboots
       DEF StableNext, Register
  <2>2. CASE UNCHANGED stableVars
    BY <2>2 DEF stableVars, StableIInv, StableTypeOK, SavedOnce, WatchedHaveBaselines,
                GrowthIsOwn
  <2> QED
    BY <2>1, <2>2
<1> QED
  BY <1>1, StableInitially, PTL DEF StableSpec

\* An invoice whose account nobody else paid into from the moment its baseline was
\* read, and whose baseline could be read, is credited with no more than its customer
\* sent (stablecoin_monitor.py, _check_entry), also over restarts, withdrawals,
\* callbacks that break off and stale rows saved with the baseline.
THEOREM CreditIsOwn == StableSpec => []StableCreditIsOwn
<1>1. StableIInv => StableCreditIsOwn
  BY DEF StableIInv, StableTypeOK, GrowthIsOwn, StableCreditIsOwn
<1> QED
  BY <1>1, StableInvariance, PTL

-------------------------------------------------------------------------------
(* Webhooks. *)

Retries == Len(Delays)

Stages == {"none", "start", "attempt", "posted", "sleep", "delivered", "failed", "lost"}

JobRecords == [pc : Stages, retry : 0 .. Retries, attempts : Nat, delivered : BOOLEAN]
LogRecords == [saved : BOOLEAN, attempts : Int, delivered : BOOLEAN, error : BOOLEAN]
ReceiverRecords == [posts : Nat, taken : Nat]

\* What a delivery thread, its saved row and its receiver have to do with each
\* other: the object counts the posts, the row lags behind it only while a post is
\* under way or when the thread died, and no post is made without a delay slept.
LogFits(thread, log, outside) ==
    /\ thread.attempts = outside.posts
    /\ log.delivered => outside.taken > 0
    /\ thread.pc \in {"none", "start"} => outside.posts = 0 /\ log.attempts = 0
    /\ log.attempts \in {outside.posts, outside.posts - 1}
    /\ log.attempts # outside.posts => thread.pc \in {"posted", "lost"}
    /\ outside.posts <= 1 + thread.retry
    /\ thread.pc = "attempt" => outside.posts <= thread.retry
    /\ thread.pc = "sleep" => thread.retry < Retries
    /\ thread.pc = "failed" => thread.retry = Retries

WebhooksTypeOK ==
    /\ dispatched \in Nat
    /\ job \in [Jobs -> JobRecords]
    /\ row \in [Jobs -> LogRecords]
    /\ receiver \in [Jobs -> ReceiverRecords]

LogsFit == \A j \in Jobs : LogFits(job[j], row[j], receiver[j])

\* A thread starts with a clean slate: nothing has been posted for it.
FutureIsIdle == \A j \in Jobs : j[2] > dispatched => job[j].pc = "none"

WebhooksInv == WebhooksTypeOK /\ LogsFit /\ FutureIsIdle

LEMMA RetriesAreCounted ==
    /\ Retries \in Nat
    /\ \A attempts, retry :
          AfterFailure(attempts, retry) =
              IF retry < Retries /\ attempts <= Retries THEN "sleep" ELSE "failed"
BY WebhookAssumption DEF Retries, AfterFailure

LEMMA JobsAreNumbered == ASSUME NEW j \in Jobs PROVE j[2] \in Int
BY DEF Jobs

LEMMA WebhooksInitially == WebhooksInit => WebhooksInv
<1> SUFFICES ASSUME WebhooksInit PROVE WebhooksInv
  OBVIOUS
<1> USE RetriesAreCounted
<1>1. PICK idle : idle = NoJob
  OBVIOUS
<1>2. PICK blank : blank = [NewRow EXCEPT !.saved = FALSE]
  OBVIOUS
<1>3. PICK quiet : quiet = [posts |-> 0, taken |-> 0]
  OBVIOUS
<1>4. idle \in JobRecords
  BY <1>1 DEF NoJob, JobRecords, Stages
<1>5. blank \in LogRecords
  <2>1. PICK new : new = NewRow
    OBVIOUS
  <2>2. new \in LogRecords
    BY <2>1 DEF NewRow, LogRecords
  <2> QED
    BY <1>2, <2>1, <2>2 DEF LogRecords
<1>6. quiet \in ReceiverRecords
  BY <1>3 DEF ReceiverRecords
<1>7. LogFits(idle, blank, quiet)
  BY <1>1, <1>2, <1>3 DEF LogFits, NoJob, NewRow
<1>8. /\ dispatched = 0 /\ job = [j \in Jobs |-> idle]
      /\ row = [j \in Jobs |-> blank] /\ receiver = [j \in Jobs |-> quiet]
  BY <1>1, <1>2, <1>3 DEF WebhooksInit
<1>9. idle.pc = "none"
  BY <1>1 DEF NoJob
<1> QED
  BY <1>4, <1>5, <1>6, <1>7, <1>8, <1>9
     DEF WebhooksInv, WebhooksTypeOK, LogsFit, FutureIsIdle

LEMMA ThreadChanged ==
    ASSUME NEW thread \in JobRecords, NEW pc \in Stages
    PROVE  /\ [thread EXCEPT !.pc = pc] \in JobRecords
           /\ [thread EXCEPT !.pc = pc].pc = pc
BY DEF JobRecords

\* A step of one thread is judged by what that thread, its row and its receiver
\* have become.
LEMMA ThreadStep ==
    ASSUME WebhooksInv, NEW j \in Jobs,
           NEW thread \in JobRecords, NEW log \in LogRecords,
           NEW outside \in ReceiverRecords,
           LogFits(thread, log, outside),
           thread.pc # "none", job[j].pc # "none",
           job' = [job EXCEPT ![j] = thread],
           row' = [row EXCEPT ![j] = log],
           receiver' = [receiver EXCEPT ![j] = outside],
           UNCHANGED dispatched
    PROVE  WebhooksInv'
<1>t. WebhooksTypeOK /\ LogsFit /\ FutureIsIdle
  BY DEF WebhooksInv
<1>1. WebhooksTypeOK'
  BY <1>t DEF WebhooksTypeOK
<1>2. \A k \in Jobs : IF k = j
        THEN job'[k] = thread /\ row'[k] = log /\ receiver'[k] = outside
        ELSE job'[k] = job[k] /\ row'[k] = row[k] /\ receiver'[k] = receiver[k]
  BY <1>t DEF WebhooksTypeOK
<1>3. LogsFit'
  <2> SUFFICES ASSUME NEW k \in Jobs PROVE LogFits(job'[k], row'[k], receiver'[k])
    BY DEF LogsFit
  <2>1. LogFits(job[k], row[k], receiver[k])
    BY <1>t DEF LogsFit
  <2>2. CASE k = j
    BY <2>2, <1>2
  <2>3. CASE k # j
    BY <2>3, <1>2, <2>1
  <2> QED
    BY <2>2, <2>3
<1>4. FutureIsIdle'
  BY <1>t, <1>2 DEF FutureIsIdle
<1> QED
  BY <1>1, <1>3, <1>4 DEF WebhooksInv

LEMMA DeliverStep ==
    ASSUME WebhooksInv, NEW j \in Jobs, Deliver(j)
    PROVE  WebhooksInv'
<1> USE RetriesAreCounted
<1>t. /\ job \in [Jobs -> JobRecords] /\ row \in [Jobs -> LogRecords]
      /\ receiver \in [Jobs -> ReceiverRecords]
  BY DEF WebhooksInv, WebhooksTypeOK
<1>p. PICK thread \in JobRecords, log \in LogRecords, outside \in ReceiverRecords :
        thread = job[j] /\ log = row[j] /\ outside = receiver[j]
  BY <1>t
<1>f. LogFits(thread, log, outside)
  BY <1>p DEF WebhooksInv, LogsFit
<1>r. row = [row EXCEPT ![j] = log]
  BY <1>t, <1>p
<1>o. receiver = [receiver EXCEPT ![j] = outside]
  BY <1>t, <1>p
<1>s. thread \in [pc : Stages, retry : 0 .. Retries, attempts : Nat, delivered : BOOLEAN]
  BY DEF JobRecords
<1>l. log \in [saved : BOOLEAN, attempts : Int, delivered : BOOLEAN, error : BOOLEAN]
  BY DEF LogRecords
<1>c. outside \in [posts : Nat, taken : Nat]
  BY DEF ReceiverRecords
<1>1. CASE Record(j)
  <2>1. PICK next : next = [thread EXCEPT !.pc = "attempt"]
    OBVIOUS
  <2>2. next \in JobRecords /\ NewRow \in LogRecords /\ next.pc = "attempt"
    BY <2>1, <1>s DEF JobRecords, LogRecords, NewRow, Stages
  <2>3. thread.pc = "start" /\ UNCHANGED <<dispatched, receiver>>
    BY <1>1, <1>p DEF Record
  <2>4. job' = [job EXCEPT ![j] = next] /\ row' = [row EXCEPT ![j] = NewRow]
    BY <1>1, <1>p, <1>t, <2>1 DEF Record
  <2>5. LogFits(next, NewRow, outside)
    BY <1>f, <1>s, <1>c, <2>1, <2>3 DEF LogFits, NewRow
  <2> QED
    BY ThreadStep, <1>p, <1>o, <2>2, <2>3, <2>4, <2>5
<1>2. CASE Unresolved(j)
  <2>1. PICK next : next = [thread EXCEPT !.pc = AfterFailure(thread.attempts, thread.retry)]
    OBVIOUS
  <2>2. PICK saved : saved = [log EXCEPT !.error = TRUE]
    OBVIOUS
  <2>3. /\ next \in JobRecords /\ next.pc \in {"sleep", "failed"} /\ saved \in LogRecords
    BY <2>1, <2>2, <1>s, <1>l DEF JobRecords, LogRecords, Stages
  <2>4. thread.pc = "attempt" /\ UNCHANGED <<dispatched, receiver>>
    BY <1>2, <1>p DEF Unresolved
  <2>5. job' = [job EXCEPT ![j] = next] /\ row' = [row EXCEPT ![j] = saved]
    BY <1>2, <1>p, <1>t, <2>1, <2>2 DEF Unresolved
  <2>6. LogFits(next, saved, outside)
    BY <1>f, <1>s, <1>l, <1>c, <2>1, <2>2, <2>4 DEF LogFits
  <2> QED
    BY ThreadStep, <1>p, <1>o, <2>3, <2>4, <2>5, <2>6
<1>3. CASE Post(j)
  <2>1. PICK next : next = [thread EXCEPT !.pc = "posted", !.attempts = @ + 1]
    OBVIOUS
  <2>2. PICK taken \in {0, 1} :
          receiver' = [receiver EXCEPT ![j].posts = @ + 1, ![j].taken = @ + taken]
    BY <1>3 DEF Post
  <2>3. PICK has : has = [outside EXCEPT !.posts = @ + 1, !.taken = @ + taken]
    OBVIOUS
  <2>4. next \in JobRecords /\ next.pc = "posted" /\ has \in ReceiverRecords
    <3>1. PICK mid : mid = [outside EXCEPT !.posts = @ + 1]
      OBVIOUS
    <3>2. mid \in ReceiverRecords /\ mid.taken \in Nat
      BY <3>1, <1>c DEF ReceiverRecords
    <3>3. has = [mid EXCEPT !.taken = mid.taken + taken]
      BY <2>3, <3>1, <1>c
    <3>4. has \in ReceiverRecords
      BY <3>2, <3>3 DEF ReceiverRecords
    <3>5. PICK posted : posted = [thread EXCEPT !.pc = "posted"]
      OBVIOUS
    <3>6. posted \in JobRecords /\ posted.attempts \in Nat
      BY <3>5, <1>s DEF JobRecords, Stages
    <3>7. next = [posted EXCEPT !.attempts = posted.attempts + 1]
      BY <2>1, <3>5, <1>s
    <3>8. next \in JobRecords
      BY <3>6, <3>7 DEF JobRecords
    <3>9. next.pc = "posted"
      BY <2>1, <1>s
    <3> QED
      BY <3>4, <3>8, <3>9
  <2>5. thread.pc = "attempt" /\ UNCHANGED <<dispatched, row>>
    BY <1>3, <1>p DEF Post
  <2>6. job' = [job EXCEPT ![j] = next] /\ receiver' = [receiver EXCEPT ![j] = has]
    BY <1>3, <1>p, <1>t, <2>1, <2>2, <2>3 DEF Post
  <2>7. LogFits(next, log, has)
    BY <1>f, <1>s, <1>l, <1>c, <2>1, <2>3, <2>5 DEF LogFits
  <2> QED
    BY ThreadStep, <1>p, <1>r, <2>4, <2>5, <2>6, <2>7
<1>4. CASE Accepted(j)
  <2>1. PICK next : next = [thread EXCEPT !.pc = "delivered", !.delivered = TRUE]
    OBVIOUS
  <2>2. PICK saved : saved = [log EXCEPT !.delivered = TRUE, !.attempts = thread.attempts]
    OBVIOUS
  <2>3. next \in JobRecords /\ next.pc = "delivered" /\ saved \in LogRecords
    <3>1. saved \in LogRecords
      <4>1. PICK mid : mid = [log EXCEPT !.delivered = TRUE]
        OBVIOUS
      <4>2. mid \in LogRecords
        BY <4>1 DEF LogRecords
      <4>3. saved = [mid EXCEPT !.attempts = thread.attempts]
        BY <2>2, <4>1
      <4> QED
        BY <4>2, <4>3, <1>s DEF LogRecords
    <3>2. next \in JobRecords
      BY <2>1, <1>s DEF JobRecords, Stages
    <3>3. next.pc = "delivered"
      BY <2>1, <1>s
    <3> QED
      BY <3>1, <3>2, <3>3
  <2>4. /\ thread.pc = "posted" /\ outside.taken > 0
        /\ UNCHANGED <<dispatched, receiver>>
    BY <1>4, <1>p DEF Accepted
  <2>5. job' = [job EXCEPT ![j] = next] /\ row' = [row EXCEPT ![j] = saved]
    BY <1>4, <1>p, <1>t, <2>1, <2>2 DEF Accepted
  <2>6. LogFits(next, saved, outside)
    BY <1>f, <1>s, <1>l, <1>c, <2>1, <2>2, <2>4 DEF LogFits
  <2> QED
    BY ThreadStep, <1>p, <1>o, <2>3, <2>4, <2>5, <2>6
<1>5. CASE Rejected(j)
  <2>1. PICK next : next = [thread EXCEPT !.pc = AfterFailure(thread.attempts, thread.retry)]
    OBVIOUS
  <2>2. PICK saved : saved = [log EXCEPT !.error = TRUE, !.attempts = thread.attempts]
    OBVIOUS
  <2>3. /\ next \in JobRecords /\ next.pc \in {"sleep", "failed"} /\ saved \in LogRecords
    <3>1. saved \in LogRecords
      <4>1. PICK mid : mid = [log EXCEPT !.error = TRUE]
        OBVIOUS
      <4>2. mid \in LogRecords
        BY <4>1 DEF LogRecords
      <4>3. saved = [mid EXCEPT !.attempts = thread.attempts]
        BY <2>2, <4>1
      <4> QED
        BY <4>2, <4>3, <1>s DEF LogRecords
    <3>2. next \in JobRecords /\ next.pc \in {"sleep", "failed"}
      BY <2>1, <1>s DEF JobRecords, Stages
    <3> QED
      BY <3>1, <3>2
  <2>4. thread.pc = "posted" /\ UNCHANGED <<dispatched, receiver>>
    BY <1>5, <1>p DEF Rejected
  <2>5. job' = [job EXCEPT ![j] = next] /\ row' = [row EXCEPT ![j] = saved]
    BY <1>5, <1>p, <1>t, <2>1, <2>2 DEF Rejected
  <2>6. LogFits(next, saved, outside)
    BY <1>f, <1>s, <1>l, <1>c, <2>1, <2>2, <2>4 DEF LogFits
  <2> QED
    BY ThreadStep, <1>p, <1>o, <2>3, <2>4, <2>5, <2>6
<1>6. CASE Wake(j)
  <2>1. PICK next : next = [thread EXCEPT !.pc = "attempt", !.retry = @ + 1]
    OBVIOUS
  <2>2. thread.pc = "sleep" /\ UNCHANGED <<dispatched, row, receiver>>
    BY <1>6, <1>p DEF Wake
  <2>3. thread.retry < Retries
    BY <2>2, <1>f DEF LogFits
  <2>4. next \in JobRecords /\ next.pc = "attempt"
    <3>1. thread.retry + 1 \in 0 .. Retries
      BY <2>3, <1>s
    <3>2. next \in JobRecords
      BY <2>1, <3>1, <1>s DEF JobRecords, Stages
    <3>3. next.pc = "attempt"
      BY <2>1, <1>s
    <3> QED
      BY <3>2, <3>3
  <2>5. job' = [job EXCEPT ![j] = next]
    BY <1>6, <1>p, <1>t, <2>1 DEF Wake
  <2>6. LogFits(next, log, outside)
    BY <1>f, <1>s, <1>l, <1>c, <2>1, <2>2, <2>3 DEF LogFits
  <2> QED
    BY ThreadStep, <1>p, <1>r, <1>o, <2>2, <2>4, <2>5, <2>6
<1> QED
  BY <1>1, <1>2, <1>3, <1>4, <1>5, <1>6 DEF Deliver

LEMMA DispatchStep ==
    ASSUME WebhooksInv, NEW event \in Events, Dispatch(event)
    PROVE  WebhooksInv'
<1> USE RetriesAreCounted
<1>t. WebhooksTypeOK /\ LogsFit /\ FutureIsIdle
  BY DEF WebhooksInv
<1>d. dispatched' = dispatched + 1 /\ UNCHANGED <<row, receiver>>
  BY DEF Dispatch
<1>1. PICK fresh : fresh = [NoJob EXCEPT !.pc = "start"]
  OBVIOUS
<1>2. /\ fresh \in JobRecords /\ fresh.pc = "start" /\ fresh.attempts = 0
      /\ fresh.retry = 0
  <2>1. PICK idle : idle = NoJob
    OBVIOUS
  <2>2. idle \in JobRecords
    BY <2>1 DEF NoJob, JobRecords, Stages
  <2>3. fresh \in JobRecords
    BY <1>1, <2>1, <2>2, ThreadChanged DEF Stages
  <2> QED
    BY <1>1, <2>3 DEF NoJob
<1>3. \A j \in Jobs : \/ job'[j] = job[j]
                      \/ job'[j] = fresh /\ j[2] = dispatched'
  BY <1>1 DEF Dispatch
<1>4. WebhooksTypeOK'
  <2>1. job' \in [Jobs -> JobRecords]
    BY <1>t, <1>2, <1>1 DEF Dispatch, WebhooksTypeOK
  <2> QED
    BY <2>1, <1>t, <1>d DEF WebhooksTypeOK
<1>5. LogsFit'
  <2> SUFFICES ASSUME NEW j \in Jobs PROVE LogFits(job'[j], row[j], receiver[j])
    BY <1>d DEF LogsFit
  <2>1. LogFits(job[j], row[j], receiver[j])
    BY <1>t DEF LogsFit
  <2>2. CASE job'[j] = job[j]
    BY <2>1, <2>2
  <2>3. CASE job'[j] = fresh /\ j[2] = dispatched'
    <3>1. job[j].pc = "none"
      BY <2>3, <1>d, <1>t, JobsAreNumbered DEF FutureIsIdle, WebhooksTypeOK
    <3>2. receiver[j] \in [posts : Nat, taken : Nat]
      BY <1>t DEF WebhooksTypeOK, ReceiverRecords
    <3> QED
      BY <3>1, <3>2, <2>1, <2>3, <1>2 DEF LogFits
  <2> QED
    BY <1>3, <2>2, <2>3
<1>6. FutureIsIdle'
  BY <1>t, <1>d, <1>3, JobsAreNumbered DEF FutureIsIdle, WebhooksTypeOK
<1> QED
  BY <1>4, <1>5, <1>6 DEF WebhooksInv

LEMMA DispatcherRestartStep ==
    ASSUME WebhooksInv, DispatcherRestart
    PROVE  WebhooksInv'
<1>t. WebhooksTypeOK /\ LogsFit /\ FutureIsIdle
  BY DEF WebhooksInv
<1>d. UNCHANGED <<dispatched, row, receiver>>
  BY DEF DispatcherRestart
<1>1. ASSUME NEW j \in Jobs
      PROVE  /\ job'[j] \in JobRecords
             /\ job'[j].pc = "none" <=> job[j].pc = "none"
             /\ LogFits(job'[j], row[j], receiver[j])
  <2>1. LogFits(job[j], row[j], receiver[j]) /\ job[j] \in JobRecords
    BY <1>t DEF LogsFit, WebhooksTypeOK
  <2>2. CASE ~ Working(j)
    BY <2>1, <2>2 DEF DispatcherRestart
  <2>3. CASE Working(j)
    <3>1. PICK was \in JobRecords : was = job[j]
      BY <2>1
    <3>2. PICK next : next = [was EXCEPT !.pc = "lost"]
      OBVIOUS
    <3>3. job'[j] = next
      BY <2>3, <3>1, <3>2 DEF DispatcherRestart
    <3>4. next \in JobRecords /\ next.pc = "lost" /\ was.pc # "none"
      BY <2>3, <3>1, <3>2 DEF JobRecords, Stages, Working
    <3>5. LogFits(next, row[j], receiver[j])
      BY <2>1, <3>1, <3>2 DEF LogFits, JobRecords
    <3> QED
      BY <3>1, <3>3, <3>4, <3>5
  <2> QED
    BY <2>2, <2>3
<1>2. WebhooksTypeOK'
  <2>1. job' \in [Jobs -> JobRecords]
    BY <1>1 DEF DispatcherRestart
  <2> QED
    BY <2>1, <1>t, <1>d DEF WebhooksTypeOK
<1>3. LogsFit'
  BY <1>1, <1>d DEF LogsFit
<1>4. FutureIsIdle'
  BY <1>1, <1>d, <1>t DEF FutureIsIdle
<1> QED
  BY <1>2, <1>3, <1>4 DEF WebhooksInv

\* However events, failures, retries, restarts and changes to the endpoints
\* interleave, the log of a delivery says what the receiver got
\* (_attempt and _schedule_retries in btpay/api/webhooks.py).
THEOREM LogsAreTrue == WebhooksSpec => []DeliveryLogIsTrue
<1>1. WebhooksInv => DeliveryLogIsTrue
  <2> SUFFICES ASSUME WebhooksInv, NEW j \in Jobs
               PROVE  /\ LogFits(job[j], row[j], receiver[j])
                      /\ job[j].retry <= Retries
    BY DEF DeliveryLogIsTrue, LogFits, Retries
  <2> QED
    BY RetriesAreCounted DEF WebhooksInv, WebhooksTypeOK, LogsFit, JobRecords
<1>2. WebhooksInv /\ [WebhooksNext]_webhookVars => WebhooksInv'
  <2> SUFFICES ASSUME WebhooksInv, [WebhooksNext]_webhookVars PROVE WebhooksInv'
    OBVIOUS
  <2> DEFINE Kept == UNCHANGED <<dispatched, job, row, receiver>>
  <2>k. ASSUME Kept PROVE WebhooksInv'
    BY <2>k DEF WebhooksInv, WebhooksTypeOK, LogsFit, FutureIsIdle
  <2>1. ASSUME NEW e \in Endpoints, NEW events \in SUBSET Events, CreateEndpoint(e, events)
        PROVE  WebhooksInv'
    BY <2>1, <2>k DEF CreateEndpoint
  <2>2. ASSUME NEW e \in Endpoints, DeactivateEndpoint(e) \/ DeleteEndpoint(e)
        PROVE  WebhooksInv'
    BY <2>2, <2>k DEF DeactivateEndpoint, DeleteEndpoint
  <2>3. CASE UNCHANGED webhookVars
    BY <2>3, <2>k DEF webhookVars
  <2> QED
    BY <2>1, <2>2, <2>3, DispatchStep, DeliverStep, DispatcherRestartStep DEF WebhooksNext
<1> QED
  BY <1>1, <1>2, WebhooksInitially, PTL DEF WebhooksSpec

-------------------------------------------------------------------------------
(* ProcessorMonitor. *)

RowLists == {<<>>, <<"pending">>, <<"confirmed">>}
OrderRecords == [status : {"draft", "pending", "expired", "cancelled", "paid", "confirmed"},
                 linked : BOOLEAN, rows : RowLists]

\* One row at most; a settled counterpart stays settled, whatever was fetched of it
\* and whenever it is handled; and there is none before the invoice is finalized.
ProcessorInv ==
    /\ order \in OrderRecords
    /\ order.rows = <<"confirmed">> => remote = "Settled"
    /\ fetched = "Settled" => remote = "Settled"
    /\ order.status = "draft" => remote = "none" /\ order.rows = <<>>

\* A row is inserted only where none is found, and is the one that is confirmed.
LEMMA RowsFound ==
    ASSUME ProcessorInv, order.status # "draft"
    PROVE  /\ FindPayment = 0 =>
                 /\ Inserted \in OrderRecords /\ Inserted.rows = <<"pending">>
                 /\ Inserted.status # "draft"
           /\ Recorded \in OrderRecords /\ Recorded.status # "draft"
           /\ Recorded.rows = <<"confirmed">> => remote = "Settled"
           /\ Confirmed \in OrderRecords /\ Confirmed.status # "draft"
<1>1. PICK was \in OrderRecords : was = order
  BY DEF ProcessorInv
<1>2. FindPayment = (IF was.rows = <<>> THEN 0 ELSE 1)
  BY <1>1 DEF FindPayment
<1>3. Inserted = [was EXCEPT !.rows = Append(was.rows, "pending")]
  BY <1>1 DEF Inserted
<1>4. ASSUME FindPayment = 0
      PROVE  /\ Inserted \in OrderRecords /\ Inserted.rows = <<"pending">>
             /\ Inserted.status = was.status
  <2>1. was.rows = <<>>
    BY <1>2, <1>4
  <2>2. Append(was.rows, "pending") = <<"pending">>
    BY <2>1
  <2> QED
    BY <1>3, <2>2 DEF OrderRecords, RowLists
<1>5. PICK mid : mid = Recorded
  OBVIOUS
<1>6. /\ mid \in OrderRecords /\ mid.status # "draft" /\ mid.rows # <<>>
      /\ mid.rows = <<"confirmed">> => was.rows = <<"confirmed">>
  <2>1. CASE FindPayment = 0
    <3>1. PICK ins \in OrderRecords : ins = Inserted
      BY <1>4, <2>1
    <3>2. mid = [ins EXCEPT !.status = "paid"] /\ ins.rows = <<"pending">>
      BY <1>4, <1>5, <2>1, <3>1 DEF Recorded
    <3> QED
      BY <3>1, <3>2 DEF OrderRecords, RowLists
  <2>2. CASE FindPayment # 0
    <3>1. mid = was /\ was.rows # <<>>
      BY <1>1, <1>2, <1>5, <2>2 DEF Recorded
    <3> QED
      BY <1>1, <3>1
  <2> QED
    BY <2>1, <2>2
<1>7. Confirmed \in OrderRecords /\ Confirmed.status # "draft"
  <2>1. PICK state : mid.rows = <<state>> /\ state \in {"pending", "confirmed"}
    BY <1>6 DEF OrderRecords, RowLists
  <2>2. (IF FindPayment = 0 THEN Len(mid.rows) ELSE FindPayment) = 1
    BY <1>2, <2>1
  <2>3. Confirmed = IF mid.rows[1] = "confirmed" THEN mid
                    ELSE [mid EXCEPT !.rows[1] = "confirmed",
                                     !.status = IF @ = "paid" THEN "confirmed" ELSE @]
    BY <1>5, <2>2 DEF Confirmed
  <2>4. [mid.rows EXCEPT ![1] = "confirmed"] = <<"confirmed">>
    BY <2>1
  <2> QED
    BY <1>6, <2>3, <2>4 DEF OrderRecords, RowLists
<1> QED
  BY <1>1, <1>4, <1>5, <1>6, <1>7 DEF ProcessorInv

LEMMA ReportStep ==
    ASSUME ProcessorInv, NEW status, Fire(status), status = "Settled" => remote = "Settled",
           processor # "btcpay" => status = "Settled"
    PROVE  /\ order' \in OrderRecords
           /\ order'.rows = <<"confirmed">> => remote = "Settled"
           /\ order'.status = "draft" => order.status = "draft" /\ order' = order
<1>2. CASE UNCHANGED order
  BY <1>2 DEF ProcessorInv
<1>a. CASE Accepts
  <2>a. order.status # "draft"
    BY <1>a DEF Accepts, PayableStatuses
  <2>1. CASE order' = Inserted /\ FindPayment = 0
    BY <2>a, <2>1, RowsFound
  <2>2. CASE order' = Recorded
    BY <2>a, <2>2, RowsFound
  <2>3. CASE order' = Confirmed /\ remote = "Settled"
    BY <2>a, <2>3, RowsFound
  <2> QED
    BY <1>a, <1>2, <2>1, <2>2, <2>3 DEF Fire, BtcpayPayment, LnbitsPayment
<1> QED
  BY <1>2, <1>a DEF Fire

\* However reports, failing callbacks, restarts, keys and the invoice's own life
\* interleave, what the processor received is recorded once, since the row is found
\* again, and confirmed only when it is settled
\* (payment_automation.py, _handle_btcpay_payment and _handle_lnbits_payment).
THEOREM PaymentsAreRecordedOnce == ProcessorSpec => []RecordedOnce
<1>1. ProcessorInit => ProcessorInv
  BY DEF ProcessorInit, ProcessorInv, OrderRecords, RowLists
<1>2. ProcessorInv /\ [ProcessorNext]_processorVars => ProcessorInv'
  <2> SUFFICES ASSUME ProcessorInv, [ProcessorNext]_processorVars PROVE ProcessorInv'
    OBVIOUS
  <2>w. PICK was \in OrderRecords : was = order
    BY DEF ProcessorInv
  <2> DEFINE Kept == UNCHANGED <<remote, order>> /\ fetched' \in {"none", remote, fetched}
  <2>k. ASSUME Kept PROVE ProcessorInv'
    BY <2>k DEF ProcessorInv
  <2>1. CASE Linked
    <3>1. PICK now : now = [was EXCEPT !.status = "pending", !.linked = TRUE]
      OBVIOUS
    <3>2. now \in OrderRecords /\ now.status = "pending" /\ now.rows = was.rows
      BY <2>w, <3>1 DEF OrderRecords
    <3>3. order' = now /\ UNCHANGED fetched /\ was.status = "draft"
      BY <2>1, <2>w, <3>1 DEF Linked
    <3>4. was.rows # <<"confirmed">> /\ fetched # "Settled"
      BY <2>w, <3>3 DEF ProcessorInv
    <3> QED
      BY <3>2, <3>3, <3>4 DEF ProcessorInv
  <2>2. CASE RegisterOrder
    BY <2>2, <2>k DEF RegisterOrder
  <2>3. CASE RemoteMoves
    <3>1. UNCHANGED <<order, fetched>> /\ remote # "none" /\ remote # "Settled"
      BY <2>3 DEF RemoteMoves, Leads
    <3> QED
      BY <3>1 DEF ProcessorInv
  <2>4. CASE RotateKey \/ SwitchConnector
    BY <2>4, <2>k DEF RotateKey, SwitchConnector
  <2>5. CASE OrderMoves
    <3>1. PICK s \in {"expired", "pending", "cancelled"} :
              order' = [was EXCEPT !.status = s]
      BY <2>5, <2>w DEF OrderMoves
    <3>3. PICK now : now = [was EXCEPT !.status = s]
      OBVIOUS
    <3>2. now \in OrderRecords /\ now.status # "draft" /\ now.rows = was.rows
      BY <2>w, <3>3 DEF OrderRecords
    <3> QED
      BY <2>5, <2>w, <3>1, <3>2, <3>3 DEF ProcessorInv, OrderMoves
  <2>6. CASE FetchStatus
    BY <2>6, <2>k DEF FetchStatus
  <2>7. CASE HandleStatus
    <3>1. UNCHANGED remote /\ fetched' = "none"
      BY <2>7 DEF HandleStatus
    <3>2. CASE UNCHANGED order
      BY <3>1, <3>2 DEF ProcessorInv
    <3>3. CASE \E status \in {"Processing", "Settled"} :
                 /\ Fire(status) /\ status = fetched
                 /\ processor # "btcpay" => status = "Settled"
      BY <3>1, <3>3, ReportStep DEF ProcessorInv
    <3> QED
      BY <2>7, <3>2, <3>3 DEF HandleStatus, BtcpayReport, LnbitsReport, GiveUp
  <2>8. CASE StartMonitor
    BY <2>8, <2>k DEF StartMonitor
  <2>9. CASE UNCHANGED processorVars
    BY <2>9, <2>k DEF processorVars
  <2> QED
    BY <2>1, <2>2, <2>3, <2>4, <2>5, <2>6, <2>7, <2>8, <2>9
       DEF ProcessorNext, CreateBtcpayInvoice, CreateLnbitsInvoice
<1>3. ProcessorInv => RecordedOnce
  <2>1. ASSUME ProcessorInv PROVE RecordedOnce
    <3>1. order.rows \in RowLists
      BY <2>1 DEF ProcessorInv, OrderRecords
    <3>2. CASE order.rows = <<>>
      BY <3>2 DEF RecordedOnce
    <3>3. CASE order.rows = <<"pending">>
      BY <3>3 DEF RecordedOnce
    <3>4. CASE order.rows = <<"confirmed">>
      BY <2>1, <3>4 DEF RecordedOnce, ProcessorInv
    <3> QED
      BY <3>1, <3>2, <3>3, <3>4 DEF RowLists
  <2> QED
    BY <2>1
<1> QED
  BY <1>1, <1>2, <1>3, PTL DEF ProcessorSpec

-------------------------------------------------------------------------------
(* OnchainMonitor. *)

\* What is on an address, what was read of it, and what its invoice was credited
\* with, is at most what was ever paid to it.
ChainRecords == [fresh : Nat, once : Nat, deep : Nat, sweeping : BOOLEAN,
                 count : Nat, paid : Nat]
BillingRecords == [status : {"draft", "pending", "cancelled", "expired"}, row : BOOLEAN,
                   credited : Nat, confirmed : BOOLEAN]
OnchainTypeOK ==
    /\ chain \in [Watchable -> ChainRecords]
    /\ poll \in [Watchable -> [pc : {"idle", "assigned", "fireSeen", "seen", "depth",
                                     "fireConfirmed"},
                               total : Nat, conf : Nat]]
    /\ billing \in [Watchable -> BillingRecords]

Holds(c) == c.fresh + c.once + c.deep
ReadIsReceived ==
    \A a \in Watchable :
        /\ Holds(chain[a]) <= chain[a].paid
        /\ poll[a].total <= chain[a].paid /\ poll[a].conf <= chain[a].paid

OnchainIInv == OnchainTypeOK /\ ReadIsReceived /\ CreditIsReceived

LEMMA OnchainInitially == MonitorInit => OnchainIInv
BY DEF MonitorInit, OnchainIInv, OnchainTypeOK, ChainRecords, BillingRecords,
       ReadIsReceived, CreditIsReceived, Holds, Unfunded, Resting

\* A step of the chain: what is on the address grows by no more than what is paid.
LEMMA OnchainChanges ==
    ASSUME OnchainIInv, NEW a \in Watchable, NEW c \in ChainRecords,
           chain' = [chain EXCEPT ![a] = c], UNCHANGED <<poll, billing>>,
           Holds(c) <= c.paid, chain[a].paid <= c.paid
    PROVE  OnchainIInv'
<1>t. OnchainTypeOK /\ OnchainTypeOK'
  BY DEF OnchainIInv, OnchainTypeOK
<1>1. ASSUME NEW b \in Watchable
      PROVE  /\ chain[b].paid \in Nat /\ chain'[b].paid \in Nat
             /\ poll[b].total \in Nat /\ poll[b].conf \in Nat /\ billing[b].credited \in Nat
  BY <1>t DEF OnchainTypeOK, ChainRecords, BillingRecords
<1>2. ASSUME NEW b \in Watchable
      PROVE  chain[b].paid <= chain'[b].paid /\ Holds(chain'[b]) <= chain'[b].paid
  <2>1. CASE b = a
    BY <2>1, <1>t DEF OnchainTypeOK
  <2>2. CASE b # a
    <3>1. chain'[b] = chain[b]
      BY <2>2, <1>t DEF OnchainTypeOK
    <3> QED
      BY <3>1, <1>1 DEF OnchainIInv, ReadIsReceived
  <2> QED
    BY <2>1, <2>2
<1>3. ReadIsReceived' /\ CreditIsReceived'
  BY <1>1, <1>2 DEF OnchainIInv, ReadIsReceived, CreditIsReceived
<1> QED
  BY <1>t, <1>3 DEF OnchainIInv

\* Outside: customers, blocks and the merchant.
LEMMA OnchainOutside ==
    ASSUME OnchainIInv, NEW a \in Watchable,
           \/ Mine(a) \/ Evict(a) \/ Sweep(a)
           \/ \E size \in Sizes : Pay(a, size)
    PROVE  OnchainIInv'
<1> PICK c : c = chain[a]
  OBVIOUS
<1>t. /\ c \in ChainRecords /\ Holds(c) <= c.paid
      /\ chain \in [Watchable -> ChainRecords]
  BY DEF OnchainIInv, OnchainTypeOK, ReadIsReceived
<1>n. /\ c.fresh \in Nat /\ c.once \in Nat /\ c.deep \in Nat
      /\ c.paid \in Nat /\ c.count \in Nat /\ c.sweeping \in BOOLEAN
  BY <1>t DEF ChainRecords
<1>h. c.fresh + c.once + c.deep <= c.paid
  BY <1>t DEF Holds
<1>1. ASSUME NEW size \in Sizes, Pay(a, size) PROVE OnchainIInv'
  <2>0. size \in Nat
    BY MonitorAssumption
  <2> PICK d : d = [fresh |-> c.fresh + size, once |-> c.once, deep |-> c.deep,
                   sweeping |-> c.sweeping, count |-> c.count + 1, paid |-> c.paid + size]
    OBVIOUS
  <2>1. chain' = [chain EXCEPT ![a] = d] /\ UNCHANGED <<poll, billing>>
    BY <1>1 DEF Pay
  <2>2. /\ d \in ChainRecords
        /\ d.fresh = c.fresh + size /\ d.once = c.once /\ d.deep = c.deep
        /\ d.paid = c.paid + size
    BY <1>t, <1>n, <2>0 DEF ChainRecords
  <2>3. Holds(d) <= d.paid /\ chain[a].paid <= d.paid
    BY <2>0, <2>2, <1>n, <1>h DEF Holds
  <2> QED
    BY <2>1, <2>2, <2>3, OnchainChanges
<1>2. ASSUME Mine(a) PROVE OnchainIInv'
  <2> PICK d : d = [fresh |-> 0, once |-> c.fresh,
                   deep |-> IF c.sweeping THEN 0 ELSE InBlocks(c),
                   sweeping |-> FALSE, count |-> c.count, paid |-> c.paid]
    OBVIOUS
  <2>1. chain' = [chain EXCEPT ![a] = d] /\ UNCHANGED <<poll, billing>>
    BY <1>2 DEF Mine
  <2>2. /\ d \in ChainRecords
        /\ d.fresh = 0 /\ d.once = c.fresh /\ d.paid = c.paid
        /\ d.deep \in {0, c.once + c.deep}
    BY <1>t, <1>n DEF ChainRecords, InBlocks
  <2>3. Holds(d) <= d.paid /\ chain[a].paid <= d.paid
    BY <2>2, <1>n, <1>h DEF Holds
  <2> QED
    BY <2>1, <2>2, <2>3, OnchainChanges
<1>3. ASSUME Evict(a) PROVE OnchainIInv'
  <2> PICK d : d = [c EXCEPT !.fresh = 0]
    OBVIOUS
  <2>1. chain' = [chain EXCEPT ![a] = d] /\ UNCHANGED <<poll, billing>>
    BY <1>3, <1>t DEF Evict, ChainRecords
  <2>2. /\ d \in ChainRecords
        /\ d.fresh = 0 /\ d.once = c.once /\ d.deep = c.deep /\ d.paid = c.paid
    BY <1>t, <1>n DEF ChainRecords
  <2>3. Holds(d) <= d.paid /\ chain[a].paid <= d.paid
    BY <2>2, <1>n, <1>h DEF Holds
  <2> QED
    BY <2>1, <2>2, <2>3, OnchainChanges
<1>4. ASSUME Sweep(a) PROVE OnchainIInv'
  <2> PICK d : d = [c EXCEPT !.sweeping = TRUE]
    OBVIOUS
  <2>1. chain' = [chain EXCEPT ![a] = d] /\ UNCHANGED <<poll, billing>>
    BY <1>4, <1>t DEF Sweep, ChainRecords
  <2>2. /\ d \in ChainRecords
        /\ d.fresh = c.fresh /\ d.once = c.once /\ d.deep = c.deep /\ d.paid = c.paid
    BY <1>t, <1>n DEF ChainRecords
  <2>3. Holds(d) <= d.paid /\ chain[a].paid <= d.paid
    BY <2>2, <1>n, <1>h DEF Holds
  <2> QED
    BY <2>1, <2>2, <2>3, OnchainChanges
<1> QED
  BY <1>1, <1>2, <1>3, <1>4

\* A step of the monitor: it reads no more than was paid and credits what it has read.
LEMMA OnchainKept ==
    ASSUME OnchainIInv, OnchainTypeOK', NEW a \in Watchable, chain' = chain,
           \A b \in Watchable \ {a} : poll'[b] = poll[b] /\ billing'[b] = billing[b],
           \/ poll'[a].total = poll[a].total /\ poll'[a].conf = poll[a].conf
           \/ poll'[a].total <= chain[a].paid /\ poll'[a].conf <= chain[a].paid,
           billing'[a].credited \in {billing[a].credited, poll[a].total, poll[a].conf}
    PROVE  OnchainIInv'
<1>2. ASSUME NEW b \in Watchable
      PROVE  /\ poll[b].total <= chain[b].paid /\ poll[b].conf <= chain[b].paid
             /\ billing[b].credited <= chain[b].paid /\ Holds(chain[b]) <= chain[b].paid
  BY DEF OnchainIInv, ReadIsReceived, CreditIsReceived
<1>3. ASSUME NEW b \in Watchable
      PROVE  /\ poll'[b].total <= chain'[b].paid /\ poll'[b].conf <= chain'[b].paid
             /\ billing'[b].credited <= chain'[b].paid /\ Holds(chain'[b]) <= chain'[b].paid
  <2>1. CASE b = a
    BY <2>1, <1>2
  <2>2. CASE b # a
    BY <2>2, <1>2
  <2> QED
    BY <2>1, <2>2
<1> QED
  BY <1>3 DEF OnchainIInv, ReadIsReceived, CreditIsReceived

\* What the callbacks make of an invoice.
LEMMA CreditIsTyped ==
    ASSUME OnchainTypeOK, NEW a \in Watchable, NEW amount \in Nat
    PROVE  /\ Credit(a, amount) \in [Watchable -> BillingRecords]
           /\ Credit(a, amount)[a].credited \in {billing[a].credited, amount}
           /\ \A b \in Watchable \ {a} : Credit(a, amount)[b] = billing[b]
BY DEF OnchainTypeOK, Credit, BillingRecords

LEMMA OnchainPolls ==
    ASSUME OnchainIInv, NEW a \in Watchable, PollStep(a)
    PROVE  OnchainIInv'
<1>t. OnchainTypeOK
  BY DEF OnchainIInv
<1>n. /\ poll[a].total \in Nat /\ poll[a].conf \in Nat /\ chain[a].paid \in Nat
      /\ chain[a].fresh \in Nat /\ chain[a].once \in Nat /\ chain[a].deep \in Nat
  BY <1>t DEF OnchainTypeOK, ChainRecords
<1>1. CASE ReadBalance(a)
  <2>0. /\ Total(chain[a]) \in Nat /\ Total(chain[a]) <= Holds(chain[a])
        /\ InBlocks(chain[a]) \in Nat /\ InBlocks(chain[a]) <= Holds(chain[a])
        /\ Holds(chain[a]) \in Nat
    BY <1>n DEF Total, InBlocks, Holds
  <2>1. OnchainTypeOK' /\ UNCHANGED <<chain, billing>>
    BY <1>t, <1>1, <2>0 DEF OnchainTypeOK, ReadBalance
  <2>2. /\ poll'[a].total = Total(chain[a]) /\ poll'[a].conf = InBlocks(chain[a])
        /\ \A b \in Watchable \ {a} : poll'[b] = poll[b]
    BY <1>t, <1>1 DEF OnchainTypeOK, ReadBalance
  <2>3. Total(chain[a]) <= chain[a].paid /\ InBlocks(chain[a]) <= chain[a].paid
    BY <2>0, <1>n DEF OnchainIInv, ReadIsReceived
  <2> QED
    BY <2>1, <2>2, <2>3, OnchainKept
<1>2. CASE MarkSeen(a)
  <2>1. OnchainTypeOK' /\ UNCHANGED <<chain, billing>>
    BY <1>t, <1>2 DEF OnchainTypeOK, MarkSeen
  <2>2. /\ poll'[a].total = poll[a].total /\ poll'[a].conf = poll[a].conf
        /\ \A b \in Watchable \ {a} : poll'[b] = poll[b]
    BY <1>t, <1>2 DEF OnchainTypeOK, MarkSeen
  <2> QED
    BY <2>1, <2>2, OnchainKept
<1>3. CASE FireSeen(a)
  <2>1. /\ billing' \in [Watchable -> BillingRecords]
        /\ billing'[a].credited \in {billing[a].credited, poll[a].total}
        /\ \A b \in Watchable \ {a} : billing'[b] = billing[b]
    <3>1. CASE billing' = Credit(a, poll[a].total)
      BY <3>1, <1>t, <1>n, CreditIsTyped
    <3>2. CASE CallbackFails(a)
      <4>1. PICK inserted \in BOOLEAN : billing' = [billing EXCEPT ![a].row = inserted]
        BY <3>2 DEF CallbackFails
      <4> QED
        BY <4>1, <1>t DEF OnchainTypeOK, BillingRecords
    <3> QED
      BY <1>3, <3>1, <3>2 DEF FireSeen
  <2>2. /\ poll'[a].total = poll[a].total /\ poll'[a].conf = poll[a].conf
        /\ \A b \in Watchable \ {a} : poll'[b] = poll[b]
    BY <1>t, <1>3 DEF OnchainTypeOK, FireSeen
  <2>3. OnchainTypeOK' /\ UNCHANGED chain
    BY <1>t, <1>3, <2>1 DEF OnchainTypeOK, FireSeen
  <2> QED
    BY <2>1, <2>2, <2>3, OnchainKept
<1>4. CASE SeenBefore(a)
  <2>1. OnchainTypeOK' /\ UNCHANGED <<chain, billing>>
    BY <1>t, <1>4 DEF OnchainTypeOK, SeenBefore
  <2>2. /\ poll'[a].total = poll[a].total /\ poll'[a].conf = poll[a].conf
        /\ \A b \in Watchable \ {a} : poll'[b] = poll[b]
    BY <1>t, <1>4 DEF OnchainTypeOK, SeenBefore
  <2> QED
    BY <2>1, <2>2, OnchainKept
<1>5. CASE UpdateAmount(a)
  <2>1. OnchainTypeOK' /\ UNCHANGED <<chain, billing>>
    BY <1>t, <1>5 DEF OnchainTypeOK, UpdateAmount, Resting
  <2>2. /\ poll'[a].total = 0 /\ poll'[a].conf = 0
        /\ \A b \in Watchable \ {a} : poll'[b] = poll[b]
    BY <1>t, <1>5 DEF OnchainTypeOK, UpdateAmount, Resting
  <2> QED
    BY <2>1, <2>2, <1>n, OnchainKept
<1>6. CASE MarkConfirmed(a)
  <2>1. OnchainTypeOK' /\ UNCHANGED <<chain, billing>>
    BY <1>t, <1>6 DEF OnchainTypeOK, MarkConfirmed
  <2>2. /\ poll'[a].total = poll[a].total /\ poll'[a].conf = poll[a].conf
        /\ \A b \in Watchable \ {a} : poll'[b] = poll[b]
    BY <1>t, <1>6 DEF OnchainTypeOK, MarkConfirmed
  <2> QED
    BY <2>1, <2>2, OnchainKept
<1>7. CASE FireConfirmed(a)
  <2> PICK bill : bill = Credit(a, poll[a].conf)
    OBVIOUS
  <2>1. /\ bill \in [Watchable -> BillingRecords]
        /\ bill[a].credited \in {billing[a].credited, poll[a].conf}
        /\ \A b \in Watchable \ {a} : bill[b] = billing[b]
    BY <1>t, <1>n, CreditIsTyped
  <2>2. \/ billing' = [bill EXCEPT ![a].confirmed = TRUE]
        \/ billing' = billing
        \/ billing' = [billing EXCEPT ![a].row = TRUE]
        \/ billing' = bill
    BY <1>7 DEF FireConfirmed
  <2>3. /\ billing' \in [Watchable -> BillingRecords]
        /\ billing'[a].credited \in {billing[a].credited, poll[a].conf}
        /\ \A b \in Watchable \ {a} : billing'[b] = billing[b]
    <3>1. CASE billing' = [bill EXCEPT ![a].confirmed = TRUE]
      <4> PICK b : b = [bill[a] EXCEPT !.confirmed = TRUE]
        OBVIOUS
      <4>1. b \in BillingRecords /\ b.credited = bill[a].credited
        BY <2>1 DEF BillingRecords
      <4>2. billing' = [bill EXCEPT ![a] = b]
        BY <3>1, <2>1
      <4> QED
        BY <4>1, <4>2, <2>1
    <3>2. CASE billing' = [billing EXCEPT ![a].row = TRUE]
      BY <3>2, <1>t DEF OnchainTypeOK, BillingRecords
    <3>3. CASE billing' = billing
      BY <3>3, <1>t DEF OnchainTypeOK
    <3> QED
      BY <2>1, <2>2, <3>1, <3>2, <3>3
  <2>4. OnchainTypeOK' /\ UNCHANGED chain
    BY <1>t, <1>7, <2>3 DEF OnchainTypeOK, FireConfirmed, Resting
  <2>5. /\ poll'[a].total = 0 /\ poll'[a].conf = 0
        /\ \A b \in Watchable \ {a} : poll'[b] = poll[b]
    BY <1>t, <1>7 DEF OnchainTypeOK, FireConfirmed, Resting
  <2> QED
    BY <2>3, <2>4, <2>5, <1>n, OnchainKept
<1>8. CASE Unwatch(a)
  <2>1. OnchainTypeOK' /\ UNCHANGED <<chain, billing, poll>>
    BY <1>t, <1>8 DEF OnchainTypeOK, Unwatch
  <2> QED
    BY <2>1, OnchainKept
<1> QED
  BY <1>1, <1>2, <1>3, <1>4, <1>5, <1>6, <1>7, <1>8 DEF PollStep

\* The requests change the status of an invoice only.
LEMMA OnchainRequests ==
    ASSUME OnchainIInv, NEW a \in Watchable,
           Finalized(a) \/ Cancelled(a) \/ Expired(a) \/ Reopened(a)
    PROVE  OnchainIInv'
<1>t. OnchainTypeOK
  BY DEF OnchainIInv
<1>1. PICK status \in {"pending", "cancelled", "expired"} :
        billing' = [billing EXCEPT ![a].status = status] /\ UNCHANGED <<chain, poll>>
  BY DEF Finalized, Cancelled, Expired, Reopened
<1>2. OnchainTypeOK'
  BY <1>t, <1>1 DEF OnchainTypeOK, BillingRecords
<1>3. /\ billing'[a].credited = billing[a].credited
      /\ \A b \in Watchable \ {a} : billing'[b] = billing[b]
  BY <1>t, <1>1 DEF OnchainTypeOK, BillingRecords
<1> QED
  BY <1>1, <1>2, <1>3, OnchainKept

LEMMA OnchainRestarts ==
    ASSUME OnchainIInv, RestartMonitor
    PROVE  OnchainIInv'
<1>t. OnchainTypeOK /\ UNCHANGED <<chain, billing>>
  BY DEF OnchainIInv, RestartMonitor
<1>1. \A a \in Watchable : poll'[a] = Resting
  BY DEF RestartMonitor
<1>2. OnchainTypeOK'
  BY <1>t DEF OnchainTypeOK, RestartMonitor, Resting
<1>3. ReadIsReceived'
  BY <1>t, <1>1 DEF OnchainIInv, OnchainTypeOK, ChainRecords, ReadIsReceived, Resting
<1> QED
  BY <1>t, <1>2, <1>3 DEF OnchainIInv, CreditIsReceived

\* An invoice is never credited with more than was paid to its address, however many
\* polls, restarts and requests there are, and whatever is replaced, evicted or spent
\* (monitor.py and the callbacks of payment_automation.py).
THEOREM CreditNeverExceeds == MonitorSpec => []CreditIsReceived
<1>1. ASSUME OnchainIInv, [MonitorNext]_monitorVars PROVE OnchainIInv'
  <2>1. CASE MonitorNext
    BY <1>1, <2>1, OnchainOutside, OnchainPolls, OnchainRequests, OnchainRestarts DEF MonitorNext
  <2>2. CASE UNCHANGED monitorVars
    BY <1>1, <2>2 DEF monitorVars, OnchainIInv, OnchainTypeOK, ReadIsReceived, CreditIsReceived
  <2> QED
    BY <1>1, <2>1, <2>2
<1>2. OnchainIInv => CreditIsReceived
  BY DEF OnchainIInv
<1> QED
  BY OnchainInitially, <1>1, <1>2, PTL DEF MonitorSpec
===============================================================================
