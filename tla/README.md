# BTPay in TLA+

A verification project for BTPay, the self-hosted Bitcoin/stablecoin invoicing
server of this repository: TLA+ modules translated from `src/`, TLC runs over
small instances, and theorems checked by TLAPS.

## 1. Inventory

BTPay is one Python process (gunicorn, `workers = 1`, `worker_class = 'gthread'`,
4 request threads) with background daemon threads. All data is in one in-memory
store; rows are dictionaries, and every `Model.get`, `query` or `get_by` builds a
**private copy** of the row, which `save()` writes back *whole*. Store
operations are atomic (one re-entrant lock), anything longer is not. That one
fact is behind most of what is hard in this program.

| component (source) | state | operations | hard behaviour | what makes it correct |
|---|---|---|---|---|
| ORM engine (`btpay/orm/engine.py`, `indexing.py`, `model.py`, `query.py`) | tables, sequences, hash and unique indexes | insert, update, delete, get, filter, load, clear | an insert that fails half way; whole-row write-back of stale copies | table and indexes agree; a unique value is held by one row |
| Persistence (`btpay/orm/persistence.py`) | one JSON file per model, `_meta.json`, `backups/` | `save_to_disk`, `load_from_disk`, `backup_rotation`, `AutoSaver` | files replaced one by one while other threads write; crash between two files; restore racing the autosaver | what was acknowledged survives; a reload equals some state that existed |
| Invoice service (`btpay/invoicing/service.py`, `models.py`) | Invoice, Payment rows | create, finalize, check_expiry, refresh, record (BTC / fiat), confirm, cancel | five kinds of threads hold copies of one invoice; only part of the work is under `_payment_lock` | an invoice is paid only if recorded payments cover it; no credit is lost or doubled; status never goes back |
| Checkout (`btpay/invoicing/checkout.py`) | none of its own | start_checkout, status polling | expiry and refresh race payments | an invoice with money on it never expires |
| Payment automation (`btpay/payment_automation.py`) | Payment rows, watch lists | one callback per payment method | redelivery after a restart, a callback racing a cancel | handlers are idempotent |
| On-chain monitor (`btpay/bitcoin/monitor.py`) | `_watched` copies of BitcoinAddress | poll, seen, confirmed | address saved before the payment is recorded | money seen is eventually recorded |
| BTCPay / LNbits / stablecoin monitors (`btpay/connectors/*_monitor.py`) | watch entries | poll, fire, unwatch | entry marked done before its callback runs; errors swallowed | each settled payment is credited once |
| Wallet addresses (`btpay/bitcoin/models.py`, `address_list.py`) | Wallet, BitcoinAddress | get_next_address, import, mark_*, release | requests derive from stale wallet copies; two saves make one derivation; imports take no lock | no address serves two invoices; the next index is free |
| Storefront (`btpay/storefront/*`) | Storefront totals, item inventory | buy, donate, cart, fulfil, edit, delete | the idempotency flag lives in a metadata dict that row copies share by reference, until somebody assigns a new dict | an invoice is fulfilled once; totals and stock are those of the orders |
| Webhooks (`btpay/api/webhooks.py`) | WebhookDelivery rows | dispatch, attempt, retry | retries in daemon threads, lost at restart | bounded attempts; delivered is final |
| Exchange rates (`btpay/bitcoin/exchange.py`) | cached rate per currency | fetch, validate, average | partial source failures, outliers | the average lies within the accepted rates |
| Registration and team (`btpay/auth/views.py`, `frontend/settings_views.py`) | User, Organization, Membership | register, invite, remove, `user-create` | counting and inserting in two steps | there is one first owner, and always an owner |
| Sessions and auth (`btpay/auth/*`) | Session, User | login, TOTP, change of password, validate, destroy, cleanup | every request saves the user row whole | a changed password ends the other sessions; the lock-out counts right |
| API keys, rate limiter (`btpay/auth/decorators.py`, `security/rate_limit.py`) | ApiKey, a deque of times per key | check, cleanup, stamp, revoke | lock-free check-then-append | the calls in a window are bounded; a revoked key stays so |
| Settings, set-up wizard (`btpay/frontend/settings_views.py`, `setup_views.py`) | the Organization row, with the invoice counter | a form per page, a step per wizard page | whole-row saves of stale copies | what was answered as saved is kept; numbers never repeat |
| Connectors (`btpay/connectors/*`) | a row per connector | set up, edit, switch, delete | "at most one" is a look-up and an insert | customers are offered what the saved forms say |
| Reference numbers, tokens (`btpay/security/*`) | keys | pack, unpack | round trip | unpack inverts pack |
| Key derivation, descriptors (`btpay/bitcoin/xpub.py`, `descriptors.py`) | none | pure computation | cryptography | - |
| Electrum client (`electrum.py`) | one socket, a lock | connect, call, clean up | the next line is taken for the answer | a call returns its own answer |
| Other network clients (`mempool_api.py`, `evm_rpc.py`, `btcpay.py`, `lnbits.py`) | none | calls, failover | timeouts | - |
| Updater, start-up, commands (`btpay/updater/*`, `app.py`) | code tree, backups, history; a memory per process | update, roll back, restart, commands | a new worker loads while the old one still saves; a command beside the server | the process that takes over has what was answered; a backup has what it should |
| Email, PDF, HTML, static JS, demo | none | rendering, I/O | - | - |

Components interact by direct calls on shared rows (views -> service -> store),
by callbacks (monitor thread -> automation handler -> service), and by the disk
(every payment-critical operation ends in `save_to_disk`; a restart loads it).

## 2. Modules

| module | models | theorems in |
|---|---|---|
| `InvoiceService` | the invoice state machine with its threads: payment callbacks, the payment lock, finalize, cancel, expiry, refresh, fulfilment, events | `InvoiceServiceProofs`, `InvoiceJobsProofs` |
| `InvoiceLedger` | the abstract specification: what the service promises about money | `InvoiceJobsProofs` |
| `MemoryStore` | the ORM engine: tables, sequences, unique and hash indexes, `save`, `get`, `delete` | `StoreProofs` |
| `Persistence` | extends `MemoryStore` with the files: `save_to_disk`, restarts with `load_from_disk`, `backup_restore` | `StoreProofs` |
| `OnchainMonitor` | `PaymentMonitor` against a chain with replaced and spent payments, an invoice that expires, reopens or is cancelled, failing callbacks, restarts | `ServicesProofs` |
| `StablecoinMonitor` | invoices that share one account and are told apart by its balance; failing callbacks, stale saves, restarts | `ServicesProofs` |
| `ProcessorMonitor` | BTCPay Server and LNbits: the remote invoice, the watch entry, the handler and its Payment rows | `ServicesProofs` |
| `Webhooks` | endpoints, dispatch, delivery threads, retries | `ServicesProofs` |
| `WalletAddresses` | deriving and address-list wallets, imports, finalizations, cancellations, file by file saves, crashes | `WalletAddressesProofs` |
| `ExchangeRates` | two fetchers, sources that fail or lie, the cache | `RequestProofs` |
| `Registration` | registration, invitations, removals, `user-create` | `RegistrationProofs` |
| `Sessions` | one account: log-in, TOTP, lock-out, password, sessions | `RequestProofs` |
| `OrgSettings` | the Organization row: settings, wizard steps, invoice numbers | `RequestProofs` |
| `Connectors` | one kind of connector and what customers are offered | `RequestProofs` |
| `ApiAccess` | the API key and the sliding window, step by step | `RequestProofs` |
| `Storefront` | orders, fulfilment's counters and stock, clerks' edits and deletions | `RequestProofs` |
| `Updater` | processes with a memory each over one data and one code directory | `RequestProofs` |
| `ElectrumClient` | threads that share one connection | `ElectrumClientProofs` |
| `MCInvoiceService`, `MCPersistence`, `MCDirectory`, `MCServices`, `MCRequests` | the instances for TLC | |

In every module a definition introduced as *Slip* is a mutant of a definition
that follows it: nothing uses it, and for each checked property one of them is
substituted to see the property fail.

### InvoiceService

One action is one operation on the shared store. A job (a monitor's callback or
an HTTP request) starts by loading a private copy of its invoice and walks
through the steps of `pc`; every `save()` writes the whole copy back.

| state | code |
|---|---|
| `invoice`, `payments` | the Invoice and Payment tables: status, amount_paid, whether a BTC rate is locked, the identity of the metadata dict; method, txid, amount_fiat, status |
| `copy`, `job`, `pc` | a thread's local Invoice object, arguments and program point |
| `paymentLock` | `InvoiceService._payment_lock`: taken in `RecordPayment`, released with the last step of `_record_payment_locked` |
| `watch` | each monitor's own object: what it has reported already |
| `flagged`, `fulfilments` | metadata dicts with `storefront_fulfilled`; orders counted |
| `published` | events handed to the webhook dispatcher |
| `recorded` | history: the sum of `amount_fiat` over an invoice's payments |

The callbacks of `payment_automation.py` are `OnchainSeen`, `OnchainConfirmed`,
`BTCPayPayment`, `LNbitsPayment`, `StablecoinPayment`; the requests are
`BeginFinalize`, `BeginCancel`, `BeginExpiry`, `BeginRefresh`; the rest are the
steps of `record_payment`, `confirm_payment`, `finalize_invoice`,
`cancel_invoice`, `start_checkout` and `refresh_btc_quote` in program order.
Amounts are whole fiat units.

### MemoryStore and Persistence

A row has one unique column `key` and one indexed column `tag`, declared after
it. `Write` is `_tables[m][pk] = row` followed by `_update_indexes`, column by
column, including the case in which the unique index raises: the row stays, the
columns behind it are not indexed. `Create` is the look-up with `next_pk`,
`Insert` the second engine call; `SaveCopy` is `update`, which puts a row back
that was deleted meanwhile. `Rename` is the set-up wizard giving an organization
a slug nobody looked up (`KeysChange`); the Organization has no other index, so
there is then one tag.

`Persistence` adds `file`, `listed` (`_meta.json`), the `save` in progress
(`_save_lock`), late model registration and restarts. A file write is one step
(temporary file, fsync, rename) or fails; between any two steps other threads
run or the process dies. Loading aborts at the first row the unique index
refuses and then leaves the sequence alone, as `load_from_disk` does; a model
that is listed but has no file, or that nothing has registered, is passed over.
`registered` and `listed` are in the order of registration, in which files are
written and read; the archive that is restored has a list of its own. Rows of a
file are taken in the order of their primary keys; in the code it is the order
of insertion, which differs only when two inserts overlapped.

### The background services

`OnchainMonitor` follows one poll of one address step by step (`ReadBalance`,
`MarkSeen`, `FireSeen`, `SeenBefore`, `UpdateAmount`, `MarkConfirmed`,
`FireConfirmed`) because the row is saved *before* the callback that credits
the invoice; the two backends are one model of what they report. The chain has,
for each address, the unspent amounts with no, one, and two or more
confirmations. Backends report funded less spent (`Total`, `InBlocks`), so a
total falls when a payment is replaced or evicted (`Evict`) or the merchant spends
(`Sweep`). `Evict` takes all that has no confirmation; a replacement by another
payment is an `Evict` and a `Pay`. A callback that fails is logged, and may
have inserted its Payment row before (`CallbackFails`). Recording a payment is one
step otherwise: `InvoiceService` has it call by call, and `WalletAddresses` shows
that an address belongs to one invoice, which `OnchainMonitor` takes for granted.

`StablecoinMonitor` has the order in which an invoice is saved as payable, tests
for a conflict (`CheckConflict`, which also fails if the account is not the only
active one), reads its baseline over the network (`TakeSnapshot`) and saves it with
the whole copy of the invoice (`SaveBaseline`), each a step of its own. An
invoice with a quote for bitcoin expires and is refreshed while its entry stays
watched. The entry is gone once enough was seen, whatever the callback did
(`Handled`, `BrokenOff`).

`ProcessorMonitor` has `FetchStatus` and `HandleStatus` apart, since the status
may be old when it is handled, the connector's row, whose key may have been
replaced after the entry copied it, and the list of Payment rows in which
`FindPayment` looks for the counterpart's transaction id. `unheard` collects why
a settlement may not be recorded (`Reasons`).
`Webhooks` has the post, the receiver's answer and the save of the row apart.

### What requests share

`WalletAddresses`, `Registration`, `Sessions`, `OrgSettings`, `Connectors`,
`ApiAccess` and `Storefront` have one form: each thread has a place and the
copies it loaded, each step is one store operation, and a save puts the whole
copy back. Most of their properties cannot hold of the code once a stale copy was
saved over a newer row. A history variable (`overwritten`, `shopOverwritten`,
`keyOverwritten`, `dropped`, `lost`, `muddled`, `crowded`) says whether that has
happened, and the properties claim the rest: there is no *other* way to break
them. Where a row has many columns the modules keep the ones the properties tell
apart: a setting is "saved or not", a connector "active or not".

`WalletAddresses` has what `_address_lock` covers and what it does not: the view
fetched its wallet before (`BeginFinalizing`), a derivation is an insert
(`Derive`) and then a save of the wallet's copy (`SaveIndex`), and an import looks
up and inserts each address with no lock (`LookUp`, `InsertListed`). A save writes
file by file, any of which may fail (`Written`); single files are also written at
any time (`SaveFile`), as by the AutoSaver. Stale copies alone never give an
address away twice. Two things do or may: a refused insert leaves a second row
(`Second`), which a pool may hand out and at which a load of the file breaks off;
and a restart from an address file in which an answered finalization is missing.
`rowsLost` says that one of them happened, `indexLost` that the key was added
twice or a restart found the wallet's file behind the addresses'.

`Connectors` lets an invoice enable methods as they are stored: its form any, an
online store those of the accounts that are on when it is billed
(`stable_<chain>_<token>`). Checkout shows the active rows whose method is
enabled, and for a wire transfer without any the bank details in the
organization's older `wire_info` (`legacy`, row 0 of `CheckoutMethods`).

The limiter of `ApiAccess` is finer: `check` runs without a lock, so looking at
the first stamp, popping it, counting, appending, and the two halves of
`_cleanup` (`Look`, `PopStamp`, `CountCall`, `AppendCall`, `Sweep`, `Drop`) are
steps of their own, and a thread works on the deque it found even after
`_cleanup` has dropped it from `_windows`. A check takes less than one tick.

`Updater` has a memory for each gunicorn worker and each command, loaded when
the process starts and saved whole by the AutoSaver, at exit, and by the flush
before a restart; data is the set of changes it contains, each in a file of its
own. Any file of a save may fail, unheard of (`Written`). Code backups, data
backups, restores of both, `apply_zip`, git checkout and `pip install` can fail
or break off.

`MCServices`, `MCRequests` and `MCDirectory` put components that share no
variables into one run each: the variable `focus`, which never changes, says which
one moves in a behaviour, so that the run explores the sum and not the product of
their state spaces and each component is explored exactly as by its own
specification.

## 3. What is checked

| run | question | bounds | result |
|---|---|---|---|
| `invoice_concurrent` | what holds in every interleaving of an on-chain and a Lightning monitor and a request | 1 storefront invoice of 4 units, gift 1, receipts of 1, 3, 5 | coherent rows, no over-credit, paid is covered, reports are recorded, order counted once; receipts announced, Lightning confirms, jobs finish |
| `invoice_serial` | what the service promises when jobs do not overlap | all four methods, one request thread | exact credit, ordered events, refinement of `InvoiceLedger` (so no downgrade, and nothing left on closed invoices) |
| `disk_concurrent` | is what a save acknowledged on disk, and does what was answered pass from process to process | 2 models (one late), 2 threads, 1 row each, 2 values; 2 workers, 1 command, 2 recorded updates | yes, and the lock is always released; yes, unless two processes change data side by side |
| `disk_serial` | does a crash at any moment lose rows or hand out a key twice, does a restore end with the archive's rows | 1 model, 2 primary keys, 2 keys, 2 tags | no, and yes; indexed queries and scans agree |
| `services` | do the monitors and the dispatcher record what happened outside, and in the end all of it | one endpoint, two retries, two dispatches; one address, two transactions, one restart; two stablecoin invoices, one reboot or withdrawal; both processors, two starts, two keys | yes, with the exceptions the properties name |
| `requests` | what overlapping requests do to the rows | two threads for every component, see below | each keeps its promise but for stale copies |
| `invoice_credit_lost` | is the credit exact for concurrent methods | as `invoice_concurrent`, no request overlapping | **no**: the lock does not cover the load |
| `invoice_fulfilled_twice` | is fulfilment idempotent with stablecoins | on-chain and stablecoin | **no**: the baseline is saved with a new metadata dict |
| `invoice_cancelled_paid` | is a cancelled invoice unpaid | one on-chain monitor | **no**: the status test is on an older copy; the row is credited and `paid` when it is cancelled |
| `onchain_top_up_lost` | is the rest of a partial payment credited | one address, two transactions | **no**: only the address row changes |
| `disk_rows_lost` | does every row in a file come back | 2 threads, 3 primary keys | **no**: a refused insert leaves a row that ends the loading |
| `disk_late_model` | do all models come back | 1 thread, 1 late model | **no**: BTCPay and LNbits connectors are not imported before loading |

What the properties of `services`, `requests` and (updater) `disk_concurrent` are about:

| component | properties |
|---|---|
| webhooks | `DeliveryLogIsTrue`, `DeliveriesEnd` |
| on-chain monitor | `CreditIsReceived`; `DeepPaymentsAreCredited` unless the one callback after `mark_confirmed` was lost |
| stablecoin monitor | `StableCreditIsOwn`, `StablePaymentsAreCredited` |
| BTCPay, LNbits | `RecordedOnce`, `SettledIsConfirmed` |
| store | `IndexesAreSound` |
| wallets | `AddressesAreNotShared` unless an address was inserted twice or its row not written; `NextIndexIsFree` unless, besides, the key was added twice or the wallet's file fell behind |
| rates | `RatesAreSane` (averages within the bounds; of three sources, within 5 % of their median) |
| registration | `OneFirstOwner` always; `SomebodyOwns` while requests do not overlap |
| sessions | `AccountIsAsAnswered`, `OldSessionsAreOut` |
| organization | `NumbersGoOn` |
| connectors | `OfferIsAsSaved` |
| API | `CallsAreLimited` (the limit, and two calls for each thread but one more, unless a stamp that counts is lost), with revocation |
| storefront | `ShopIsItsOrders` (totals, stock, deletion) |
| updater | `HandoverIsComplete`, `BackupIsComplete` |
| Electrum client | `AnswersAreOwn` |

**Bounds.** One invoice suffices in `InvoiceService` because jobs on different
invoices share only the payment lock (the proofs cover any number); four units
with a forgivable unit give a partial, an exactly paid, a forgiven and an
overpaid outcome. Two threads are the smallest number that overlaps; `Storefront`
has two orders and a clerk, so that a fulfilment meets both. Primary keys are
bounded by `MaxPk`, large enough for a gap (a deleted row below a live one)
wherever sequences matter. `disk_concurrent` has one row per model: what matters
there is which file is written when. `WalletAddresses` has two addresses of the
key, one of a list and two invoices, so that requests run into one another and the
pool runs dry; two wallets, so that the key can be added again or another list
import the same address; five requests (adding or deleting a wallet, finalizing,
cancelling) and one restart: both invoices are finalized through stale copies,
before and after it. Its invoices and threads are symmetric: both are sets of
interchangeable model values, and no run asks for liveness there. In
`StablecoinMonitor` 2 of 3 units are enough, so that a tolerated shortfall
happens, one invoice of two has a quote that expires, and one restart or one
withdrawal comes at any moment. `Connectors` has two networks, so that an invoice
can enable one of two accounts that are on. Three sources
are the fewest for an outlier to be outvoted; the four prices are an absurd one,
two that agree and one 40 % off. `LockAt` is 2 instead of 5 and the sessions run
explores the sets of `Offers` one at a time: wrong log-ins, expiry with changes
of password, and the three TOTP forms, whose product adds states but no new
overlap of two requests. In `ApiAccess` one call is allowed in a window
of one tick, `_cleanup` runs and forgets after one, and the clock goes to three:
two windows pass, so stamps are popped, forgotten and lost. `Updater` has two
workers and one command, enough for a restart under a command, and two recorded
updates, so that a rollback can restore a history that is not empty. A payment of two transactions
is the shortest with a top-up; `Small` makes the confirmations required depend on
the amount. Every bound is a guard of the action that would pass it.

`requests` and `disk_concurrent` have the constraints `NothingOverwritten` and
`NotShared`: states behind a stale save of the organization or a storefront,
behind `rowsLost` of `WalletAddresses`, or, in `Updater`, behind a second process
are not explored further, because all properties of those components are void
there. The step that leads there is still taken. The theorems have no such
constraint. `invoice_credit_lost` has the action constraint `RequestsAlone`, under
which no request overlaps with anything: the credit is lost between two monitors.

`CHECK_DEADLOCK FALSE` is given throughout: a customer may never pay, an
administrator never act, and bounded counters run out.

**Fairness.** `InvoiceService`: `WF(Continue(t))` for each thread, as a started
job is scheduled by the operating system until it ends, and the lock is an
ordinary Python lock among at most five threads. No callback and no request is
fair: nobody has to pay. The monitors are loops that visit every entry again and
again (`_check_loop`), and a registration is straight-line code, so their steps are
weakly fair; strongly fair are only `MarkConfirmed` and `FetchBalance`, the steps
that need an outside service to answer: it may fail any number of times but not
for ever. That a callback succeeds is nowhere assumed. Webhook threads are
weakly fair. Receivers, customers, blocks and processors are not fair. The store,
the files and the requests have safety properties only.

## 4. What is proved

All theorems hold for every value of the constants that the modules' named
assumptions allow.

*InvoiceServiceProofs* (`ConstantsAssumption`): `Invariance`, `TypeCorrect`,
`RowsAreCoherent`, `CreditIsBounded`, `SettledIsCovered`. The state invariants
are not inductive, since a `save()` writes a copy loaded long ago. `IInv` adds
`CopiesSound`: every thread's copy is itself coherent, keeps what the guard of
its job established, and its amount, plus what the thread has recorded and not
yet credited, is at most the sum recorded. The sum only grows, so a stale copy
remains covered. Lemma `OneThreadMoves` states this once: if one thread moves,
payments only grow and what is saved is coherent and covered, `IInv` is
preserved. Each action then only has to meet its hypotheses.

*InvoiceJobsProofs* goes on from `IInv`.
`ReportsAreRecorded` (`DetectedIsRecorded`): what a monitor has reported is
recorded, or a job is on its way to it, or the invoice was closed. `DetectInv`
says of every job what its place has established (`JobFacts`), that drafts have
nothing (`DraftIsUntouched`), and that a closed invoice was announced as such.
`OrderCountedOnce` (`FulfilledOnce`) has the hypothesis `SharedMetadata`: there is
no stablecoin baseline and, with a connector, at most one thread finalizes; the
run `invoice_fulfilled_twice` shows why. Then all copies of an invoice share one
metadata dict from its finalization on (`MetaInv`), so the flag set through one
copy is seen through all. Under `SerialSpec`, in which jobs do not overlap, every
copy is the row (`CopiesAreRows`), which gives `SerialCreditIsExact`,
`SerialPaidAnnouncedFirst` (events match the status except for the thread that is
about to announce it, `PaidIsTold`), `SerialOrderCountedOnce` without any
hypothesis, and `SerialImplementsLedger`: initial states map to initial states
and every step to a step or a stutter of `InvoiceLedger`.

*StoreProofs* (`StoreAssumption`, `FilesAssumption`).
`StoreInvariance`, `IndexSoundness`, `InsertFreshness` are about the store alone.
Index soundness fails to be inductive only through `Write`: when the unique index
refuses a row that was there before, the tag index is not updated, so soundness
needs that keys of live rows change only where there is a single tag.
`CopiesShareKeys` carries this for stale copies and resurrected rows, `PksAreIssued`
that no new row gets a primary key in use.
`SavesAreComplete` holds under every interleaving: there is one saver, who holds
the lock (`OneSaver`), and every row nobody changed since it began is in the files
it has been through and in the tables it has not (`SettledAreKept`).
`FilesIssueFresh`, `PlansAlwaysAgree`, `RestartsRestore` and `RestoresHold` are
about `PSerialSpec`. Their invariant `SerialInv` says that every table and every
file is sound, i.e. no key is there twice, the sequence is beyond the rows, and
the indexes of a table have every row of it and no other; that the
snapshot a save has taken of a table goes with the sequence it reads later
(`SnapshotSound`); and that a restore has loaded what it has been through
(`RestoreFits`). The hypotheses: `~ KeysChange`, since a renamed organization can
collide with a row the index does not know; `ArchiveIsSound`, as an archive is
made of such files; for `RestartsRestore` that the archive's models are
registered before the start, the lack of which is what `disk_late_model` shows.

*WalletAddressesProofs* (`AddressAssumption`, `NoRowAssumption`): `NotShared`,
`NextIsFree`. `KindsOK` says that an id never stands for a wallet of each kind, in
the table, the file or any copy, since ids are issued once. `Sharing`: a thread
that chose an address holds its first row, alone (`HeldByOne`), and nobody was
shown it (`HeldOK`); what a customer was shown is given away in the table and,
unless its write failed, in the file, so a crash cannot give it out again
(`ShownOK`); and the rows that refused derivations leave belong to wallets that no
pool asks for (`SecondsOK`). `rowsLost` exempts the imports that leave such a row in
a pool's reach, and the restarts from a file with one, or without an address that
was shown. `IndexOK` says that while one wallet has the key there is a frontier:
an index from which no address has a row, and below which every address from a
copy's index on has one, so that a stale copy is refused (`Frontier`, `Filled`).
`indexLost` exempts a second wallet of the key and a restart that finds the
wallet's file behind the addresses'.

*ServicesProofs* (the assumptions of the four modules).
`CreditIsOwn` (stablecoins): `GrowthIsOwn` bounds by what the customer sent the
growth of the balance since it was read for the baseline, the growth that was
polled and not yet handled, and the credit; it has to speak of the thread between
reading the baseline and saving it, who finds none saved (`SavedOnce`).
`LogsAreTrue` (webhooks): at each place of a delivery thread the copy it holds,
the saved row and what the receiver has seen differ in what that place has yet to
do, and no more (`LogsFit`); a thread not yet dispatched has posted nothing.
`PaymentsAreRecordedOnce` (BTCPay, LNbits): a row is inserted only where none is
found, and the row found is the one that is confirmed (`RowsFound`), also after a
callback that failed between the two; a counterpart that was settled stays so, also
when the answer that said so is handled late (`ProcessorInv`).
`CreditNeverExceeds` (on-chain): what is on an address, and what a poll has read
of it, is at most what was ever paid to it, payments that were replaced later
included (`ReadIsReceived`); so is what is credited, whatever restarts, replaced
payments and withdrawals come between reading and crediting.

*RegistrationProofs* (`RegistrationAssumption`): `OneOwnerFirst`, `AnOwner`,
`RemovedAreOut`. Those who are joining are registered, differ from one another
and from the first owner; so whoever counts one user is alone. The part
`Uncrowded` carries what holds without overlaps.

*ElectrumClientProofs* (`ElectrumAssumption`): `OwnAnswers`. Nobody compares ids,
so the invariant is about what is under way: the connection in use carries at
most one request or answer, and the thread that holds the lock waits for it
(`QuietInUse`); a call that fails gives the connection up with all that is on it.

*RequestProofs* (the assumptions of the seven modules), by component.
- Sessions: `AccountIsWhatUsersKnow` and the action property
  `ChangedPasswordEndsSessions`. Each copy that will be saved has a TOTP secret
  that was proven (`SecretsAreProven`); the row has the password and the failed
  log-ins that were answered, unless a copy went over a newer row
  (`AccountIsKnown`); a sweep's list contains the old sessions that are
  still open (`ListsAreComplete`).
- Organization: `InvoiceNumbersGoOn`, with the addition that two threads on their
  way to the index have different numbers (`NumbersAreApart`).
- Connectors: `CustomersAreOfferedWhatIsSaved`, from `RowsAreAnswered`.
- Updater: `NothingIsLostInHandover`, `BackupsAreComplete`. The invariant is
  existential: there is a set `T` of all updates that were ever recorded, closed
  under what their backups say the history was, since a rollback brings an older
  history back (`History(T)`); and, until data is shared, there is one memory `M`
  that every running process has, which covers files, answers and backups and is on
  disk or still has somebody to write it (`Sound(T, M)`).
- Storefront: `ShopFollowsOrders`. Totals and stock are sums over the orders; that
  a sum changes with one term is shown without induction, by the smallest set for
  which it would not (`SmallestSubset`, `SumChanges`). `ShopIInv` adds that nothing
  of a storefront exists before it does, and that a fulfilment's copy of an item has
  at least the stock there is.
- API: `LimitsAreMet`. As long as no stamp that counts was lost, the deque has a
  stamp for every call let through in the last window (`StampsAreHeld`). A window
  nobody pops from yet (`OpenWindows`) has at most the limit and one for every
  other thread, those about to append included; when the clock moves on, threads
  with the earlier clock may count after others popped, once each
  (`ClosingWindow`); after that nobody appends to it (`ClosedWindows`).
- Rates: `RatesAreAverages`. A fetch has an ordered list of valid prices for each
  currency, and a cached rate is the average of such a list (`RatesIInv`); that
  its bounds are those of its terms is again a lemma about sums.

**Only proved.** `IInv`, `InsertsAreFresh` and `RemovedMembersAreOut` hold by
theorem for every instance, so no run repeats them.

**Only model-checked.** The liveness properties `ReceiptIsAnnounced`,
`LightningConfirms`, `JobsFinish`, `DeliveriesEnd`, `DeepPaymentsAreCredited`,
`StablePaymentsAreCredited`, `SettledIsConfirmed`, and the fairness of
`InvoiceLedger` in `ImplementsLedger`: fairness and ENABLED are out of the
prover's reach. Every safety property of a passing run is a theorem.

## 5. What the code does not keep

Beyond the six violated runs, reading the code for the models showed:

* Whole-row saves lose settings, invoice numbers, storefront totals, log-in
  counters, and bring deleted rows or revoked keys back, whenever a request saves
  a copy older than the row. The history variables mark where.
* Two registrations that overlap on an empty installation leave users and no
  owner (`auth/views.py:106`); only `user-create` helps.
* A balance that cannot be read is a baseline of 0
  (`connectors/stablecoin_monitor.py:205`): what the account held is then taken
  for the customer's payment.
* A stop between `mark_confirmed` and its callback (`bitcoin/monitor.py:223`), or
  a quote that is expired at that moment, loses the confirmation for good.
* The data that a rollback restores is overwritten by the flush of the restart it
  triggers (`settings_views.py:1506`, `updater/restart.py:40`).
* A file write between the two saves of `_derive_next_address`
  (`bitcoin/models.py:77-80`), followed by a crash, leaves a wallet that is refused
  its next address for ever; so does adding an extended key a second time
  (`settings_views.py:111`). `indexLost` marks both.
* A refused insert leaves its row in the table (`orm/engine.py:49`). Two imports
  that overlap leave one in their list (`bitcoin/address_list.py:49-62`), which may
  be handed out besides the address's own row, and at any such row the next load
  of the address file ends. `rowsLost` marks both, and the finalization that is
  answered although its address was not written.
* Writes that fail are swallowed: a flush, the AutoSaver and the save at exit
  (`orm/persistence.py:79`, `:283`), and `app.py:370` reports success regardless.
* A Bitcoin payment is credited without a confirmation; when it is replaced or
  evicted, the credit stays (`payment_automation.py:190`). `CreditIsReceived` is
  therefore about what was ever paid.
* A callback that fails between inserting its Payment row and crediting the
  invoice is never made up for, as the row is found from then on. The stablecoin
  monitor has dropped its entry besides (`stablecoin_monitor.py:178`).
* The stablecoin baseline is saved with the whole copy of the finalizing thread
  (`payment_automation.py:340`), over whatever status the row has by then.
* A notification of the Electrum server is read as an answer, and every later
  answer goes to the wrong call (`electrum.py:172`). In the application only the
  settings page's connection test uses this client with more than one request.
* The rate limiter has no lock. A thread may pop a stamp that another one looked
  at and that still counts, or take the first of an empty deque, which raises
  (`security/rate_limit.py:36`); `_cleanup` may drop a deque that is in use, or
  raise because the dictionary changed (`:76`). And even when nothing is lost,
  threads that count late let through up to two calls each, but for one thread,
  beyond the limit.
* `reset_demo_data` (`demo/seed.py:406`) looks indexes up by table name while
  they are keyed by (model, column): no index is cleared. Demo mode only.
* `backup_restore` takes no `_save_lock`: an AutoSaver pass between extraction
  and loading writes the old rows over the archive's files. `RestoreHolds` is
  therefore stated of restores nobody interferes with.
* after `disk_rows_lost`, the sequence is 1 again; the next insert overwrites
  row 1, and with that index soundness ends too. Both invariants are thus
  stated of the store between restarts.
* `docs/API.md:188` says that cancelling returns an address "to the pool";
  `service.py:303-311` marks it `released`, which nothing assigns again.

## 6. What is left

* `InvoiceDurability`: `InvoiceService` composed with `Persistence`, for a crash
  between `Invoice.json` and `Payment.json`.
* The conversion of totals between fiat, bitcoin and tokens, with its rounding.
* Proofs about what `InvoiceDurability` will state, and of invariants that would
  support the liveness properties (which thread a waiting one waits for).

## 7. Not modelled

Key derivation, descriptors and cryptography (number theory); HTTP requests of
the mempool, EVM, BTCPay and LNbits clients with their failover; e-mail, PDF,
templates and JavaScript (I/O and layout); which files an update archive may
contain; payment links; column validation and query ordering; demo mode; logging.
The fiat/BTC/stablecoin conversion is the choice of a receipt's amount; fiat
amounts are integers, so the code's rounding to cents is not examined.
`backup_rotation` copies files and is not part of a restart.
