----------------------------- MODULE WalletAddresses -----------------------------
(***************************************************************************)
(* Receiving addresses (btpay/bitcoin/models.py, address_list.py) and the   *)
(* requests that use them: administrators add and remove wallets            *)
(* (settings_views.py, setup_views.py), finalize and cancel invoices        *)
(* (invoice_views.py, invoicing/service.py).  A wallet derives its next     *)
(* address from an index kept in its row, or takes one of a list that was   *)
(* imported.  _address_lock covers the choice of the address, but the       *)
(* request fetched its copy of the wallet before, and imports take no lock. *)
(*                                                                         *)
(* The unique index refuses a second row of an address, but only after the  *)
(* row is in the table (engine.py, insert): that row is kept apart here, as *)
(* the address's second row.  Nothing derives from it, but a pool finds it  *)
(* by its wallet, and a load of the file breaks off at it.                  *)
(*                                                                         *)
(* The statuses seen and confirmed, which the monitor gives to an assigned  *)
(* address, are left out; wallet-import is a process of its own (Updater).  *)
(* "Slip" introduces a mistaken form that a property is tested with.        *)
(***************************************************************************)
EXTENDS Integers, FiniteSets

CONSTANTS
    Derived,        \* the addresses of the extended key, by index
    Pool,           \* the addresses of the list
    Bills,          \* invoices that accept bitcoin
    Workers,        \* request threads
    MaxWallets,     \* bounds on the wallets' ids, the requests that add or
    MaxRequests,    \* delete wallets, finalize or cancel, and the crashes
    MaxRestarts,
    NoWallet, NoAddress, NoBill

Indexes == DOMAIN Derived
PayAddresses == {Derived[n] : n \in Indexes} \cup Pool

ASSUME AddressAssumption ==
    /\ IsFiniteSet(Indexes) /\ Indexes = 0 .. Cardinality(Indexes) - 1
    /\ \A m, n \in Indexes : Derived[m] = Derived[n] => m = n
    /\ \A n \in Indexes : Derived[n] \notin Pool
    /\ MaxWallets \in Nat /\ MaxRequests \in Nat /\ MaxRestarts \in Nat

WalletIds == 1 .. MaxWallets

\* Rows of the address table: of an address, the one its index leads to, and
\* the one of a refused insert.
First(a) == <<a, 1>>
Second(a) == <<a, 2>>
RowIds == PayAddresses \X {1, 2}

ASSUME NoRowAssumption == NoAddress \notin RowIds

VARIABLES
    wallets,        \* Wallet rows, by id
    nextWallet,     \* the next id
    address,        \* BitcoinAddress rows
    bill,           \* the invoices: status and row of the payment address
    worker,         \* each thread's place, invoice, wallet copy, row and list
    walletFile, addressFile, billFile,
    behind,         \* a finalization was answered, its address not written
    shown,          \* history: the invoices an address was shown with
    keyAdded,       \* history: a wallet with the extended key was added
    rowsLost,       \* history: rows of addresses were doubled or not loaded
    indexLost,      \* history: the key was added twice, or an index went back
    requests, restarts

walletTables == <<wallets, nextWallet, address, bill>>
walletFiles == <<walletFile, addressFile, billFile, behind>>
walletHistory == <<shown, keyAdded, rowsLost, indexLost, restarts>>
walletVars == <<walletTables, worker, walletFiles, walletHistory, requests>>

NoRowYet == [status |-> "none", wallet |-> 0]
IdleWorker ==
    [pc |-> "idle", bill |-> NoBill, copy |-> NoWallet, row |-> NoAddress, left |-> {}]

WalletInit ==
    /\ wallets = [w \in WalletIds |-> NoWallet] /\ nextWallet = 1
    /\ address = [r \in RowIds |-> NoRowYet]
    /\ bill = [i \in Bills |-> [status |-> "draft", row |-> NoAddress]]
    /\ worker = [t \in Workers |-> IdleWorker]
    /\ walletFile = [rows |-> wallets, next |-> 1] /\ addressFile = address /\ billFile = bill
    /\ behind = FALSE
    /\ shown = [a \in PayAddresses |-> {}]
    /\ keyAdded = FALSE /\ rowsLost = FALSE /\ indexLost = FALSE
    /\ requests = 0 /\ restarts = 0

HasRow(rows, a) == rows[First(a)].status # "none"
At(t, step) == worker[t].pc = step
Leave(t) == worker' = [worker EXCEPT ![t] = IdleWorker]
Request == requests < MaxRequests /\ requests' = requests + 1

-------------------------------------------------------------------------------
(* Wallets. *)

\* Nothing checks whether the extended key has a wallet already: a second one
\* starts at index 0 again, and is refused the addresses of the first.
AddDerivingWallet ==
    /\ Request /\ nextWallet \in WalletIds
    /\ wallets' = [wallets EXCEPT ![nextWallet] = [id |-> nextWallet, kind |-> "xpub", next |-> 0]]
    /\ nextWallet' = nextWallet + 1
    /\ keyAdded' = TRUE /\ indexLost' = (indexLost \/ keyAdded)
    /\ UNCHANGED <<address, bill, worker, walletFiles, shown, rowsLost, restarts>>

\* The view saves a wallet and goes on to import the list.
AddAddressList(t, list) ==
    LET new == [id |-> nextWallet, kind |-> "address_list", next |-> 0]
    IN
    /\ Request /\ At(t, "idle") /\ nextWallet \in WalletIds
    /\ wallets' = [wallets EXCEPT ![nextWallet] = new]
    /\ nextWallet' = nextWallet + 1
    /\ worker' = [worker EXCEPT ![t] =
            [pc |-> "look", bill |-> NoBill, copy |-> new, row |-> NoAddress, left |-> list]]
    /\ UNCHANGED <<address, bill, walletFiles, walletHistory>>

\* import_from_text, one address: one that has a row is skipped.
LookUp(t) ==
    /\ At(t, "look")
    /\ \/ /\ worker[t].left = {}
          /\ Leave(t)
       \/ \E a \in worker[t].left :
             worker' = [worker EXCEPT ![t] =
                [pc |-> IF HasRow(address, a) THEN "look" ELSE "insert",
                 bill |-> NoBill, copy |-> worker[t].copy,
                 row |-> IF HasRow(address, a) THEN NoAddress ELSE First(a),
                 left |-> worker[t].left \ {a}]]
    /\ UNCHANGED <<walletTables, walletFiles, walletHistory, requests>>

\* The others get their row; when another import was faster the insert is
\* refused, its row stays, and the view fails.
InsertListed(t) ==
    LET a == worker[t].row[1]
        new == [status |-> "unused", wallet |-> worker[t].copy.id]
    IN
    /\ At(t, "insert")
    /\ \/ /\ ~ HasRow(address, a)
          /\ address' = [address EXCEPT ![First(a)] = new]
          /\ worker' = [worker EXCEPT ![t] =
                [pc |-> "look", bill |-> NoBill, copy |-> worker[t].copy,
                 row |-> NoAddress, left |-> worker[t].left]]
          /\ UNCHANGED rowsLost
       \/ /\ HasRow(address, a)
          /\ address' = [address EXCEPT ![Second(a)] = new]
          /\ rowsLost' = TRUE
          /\ Leave(t)
    /\ UNCHANGED <<wallets, nextWallet, bill, walletFiles>>
    /\ UNCHANGED <<shown, keyAdded, indexLost, restarts, requests>>

\* The wallet's addresses keep their rows.
DeleteWallet(w) ==
    /\ Request /\ wallets[w] # NoWallet
    /\ wallets' = [wallets EXCEPT ![w] = NoWallet]
    /\ UNCHANGED <<nextWallet, address, bill, worker, walletFiles, walletHistory>>

-------------------------------------------------------------------------------
(* finalize. *)

\* The view loads the draft and the organization's first wallet.
BeginFinalizing(t, i, w) ==
    /\ Request /\ At(t, "idle")
    /\ bill[i].status = "draft"
    /\ wallets[w] # NoWallet /\ \A v \in 1 .. w - 1 : wallets[v] = NoWallet
    /\ worker' = [worker EXCEPT ![t] =
            [pc |-> "choose", bill |-> i, copy |-> wallets[w], row |-> NoAddress, left |-> {}]]
    /\ UNCHANGED <<walletTables, walletFiles, walletHistory>>

\* _address_lock, which all wallets share, is held over an insert and the save
\* of the wallet; the other choices are one step.
LockIsFree == \A t \in Workers : ~ At(t, "bump")

Chosen(t, step, r) ==
    worker' = [worker EXCEPT ![t] =
        [pc |-> step, bill |-> worker[t].bill, copy |-> worker[t].copy, row |-> r, left |-> {}]]

\* Slip: the row of the address that is there already is written over.
DeriveOver(t) ==
    LET a == Derived[worker[t].copy.next]
    IN
    /\ At(t, "choose") /\ LockIsFree
    /\ worker[t].copy.kind = "xpub" /\ worker[t].copy.next \in Indexes
    /\ address' = [address EXCEPT ![First(a)] =
            [status |-> "unused", wallet |-> worker[t].copy.id]]
    /\ Chosen(t, "bump", First(a))
    /\ UNCHANGED <<wallets, nextWallet, bill, walletFiles, walletHistory, requests>>

\* _derive_next_address: the row of the address is inserted; it is refused, and
\* the request fails, when another one derived the address from its own copy.
Derive(t) ==
    LET a == Derived[worker[t].copy.next]
        new == [status |-> "unused", wallet |-> worker[t].copy.id]
    IN
    /\ At(t, "choose") /\ LockIsFree
    /\ worker[t].copy.kind = "xpub" /\ worker[t].copy.next \in Indexes
    /\ \/ /\ ~ HasRow(address, a)
          /\ address' = [address EXCEPT ![First(a)] = new]
          /\ Chosen(t, "bump", First(a))
       \/ /\ HasRow(address, a)
          /\ address' = [address EXCEPT ![Second(a)] = new]
          /\ Leave(t)
    /\ UNCHANGED <<wallets, nextWallet, bill, walletFiles, walletHistory, requests>>

\* Then the whole wallet copy is saved, also over one that was deleted.
SaveIndex(t) ==
    LET copy == worker[t].copy
    IN
    /\ At(t, "bump")
    /\ wallets' = [wallets EXCEPT ![copy.id] =
            [id |-> copy.id, kind |-> copy.kind, next |-> copy.next + 1]]
    /\ Chosen(t, "assign", worker[t].row)
    /\ UNCHANGED <<nextWallet, address, bill, walletFiles, walletHistory, requests>>

Unused(w) == {r \in RowIds : address[r].status = "unused" /\ address[r].wallet = w}

\* Slip: the address stays unused until it is assigned.
TakeUnreserved(t) ==
    /\ At(t, "choose") /\ LockIsFree /\ worker[t].copy.kind = "address_list"
    /\ \E r \in Unused(worker[t].copy.id) : Chosen(t, "assign", r)
    /\ UNCHANGED <<walletTables, walletFiles, walletHistory, requests>>

\* _next_from_pool: an unused row of the wallet is reserved under the lock.
TakeFromPool(t) ==
    LET w == worker[t].copy.id
    IN
    /\ At(t, "choose") /\ LockIsFree /\ worker[t].copy.kind = "address_list"
    /\ \/ \E r \in Unused(w) :
             /\ address' = [address EXCEPT ![r] =
                    [status |-> "reserved", wallet |-> w]]
             /\ Chosen(t, "assign", r)
       \/ Unused(w) = {} /\ Leave(t) /\ UNCHANGED address
    /\ UNCHANGED <<wallets, nextWallet, bill, walletFiles, walletHistory, requests>>

MarkAssigned(t) ==
    LET r == worker[t].row
    IN
    /\ At(t, "assign")
    /\ address' = [address EXCEPT ![r] =
            [status |-> "assigned", wallet |-> worker[t].copy.id]]
    /\ Chosen(t, "save", r)
    /\ UNCHANGED <<wallets, nextWallet, bill, walletFiles, walletHistory, requests>>

\* The rate is locked and the invoice saved.  Without a rate the invoice stays
\* a draft, and the address stays assigned to it.
SaveBill(t) ==
    /\ At(t, "save")
    /\ \/ /\ bill' = [bill EXCEPT ![worker[t].bill] =
                        [status |-> "pending", row |-> worker[t].row]]
          /\ Chosen(t, "flush", worker[t].row)
       \/ Leave(t) /\ UNCHANGED bill
    /\ UNCHANGED <<wallets, nextWallet, address, walletFiles, walletHistory, requests>>

-------------------------------------------------------------------------------
(* Files, cancel and crashes. *)

\* save_to_disk writes file by file, and goes on when one fails.  A file that
\* no restart can read any more, for the bound, is not written.
WalletFiles == {"wallets", "addresses", "bills"}
Written(files) ==
    LET read == IF restarts < MaxRestarts THEN files ELSE {}
    IN
    /\ walletFile' = IF "wallets" \in read THEN [rows |-> wallets, next |-> nextWallet]
                                           ELSE walletFile
    /\ addressFile' = IF "addresses" \in read THEN address ELSE addressFile
    /\ billFile' = IF "bills" \in read THEN bill ELSE billFile
    /\ behind' = IF "addresses" \in read THEN FALSE ELSE behind
    /\ UNCHANGED walletTables

\* _flush_to_disk, whose failures nobody hears of (writes of it that came
\* before other requests' steps are steps of SaveFile); then the request is
\* answered, and the invoice is a customer's to pay.
FlushAndAnswer(t) ==
    /\ At(t, "flush")
    /\ \/ \E files \in SUBSET WalletFiles : "addresses" \in files /\ Written(files)
       \/ behind' = TRUE /\ UNCHANGED <<walletTables, walletFile, addressFile, billFile>>
    /\ shown' = [shown EXCEPT ![worker[t].row[1]] = @ \cup {worker[t].bill}]
    /\ Leave(t)
    /\ UNCHANGED <<keyAdded, rowsLost, indexLost, restarts, requests>>

\* The AutoSaver or a flush writes one of the files.
SaveFile(f) ==
    /\ restarts < MaxRestarts
    /\ Written({f})
    /\ UNCHANGED <<worker, walletHistory, requests>>

\* An assigned address is released, never to be used again.  (Its flush, which
\* nothing here waits for, is steps of SaveFile.)
CancelBill(i) ==
    LET r == bill[i].row
    IN
    /\ Request /\ bill[i].status \in {"draft", "pending"}
    /\ bill' = [bill EXCEPT ![i] = [status |-> "cancelled", row |-> r]]
    /\ address' = IF r # NoAddress /\ address[r].status = "assigned"
                  THEN [address EXCEPT ![r] =
                            [status |-> "released", wallet |-> address[r].wallet]]
                  ELSE address
    /\ UNCHANGED <<wallets, nextWallet, worker, walletFiles, walletHistory>>

\* A file in which an address has two rows is not loaded to its end.  Which
\* rows come after the refused one is left open (Persistence has their order).
HasRefused(rows) == \E a \in PayAddresses : rows[Second(a)].status # "none"
Loads(rows) ==
    IF HasRefused(rows)
    THEN {[r \in RowIds |-> IF r \in some THEN rows[r] ELSE NoRowYet] : 
            some \in SUBSET {r \in RowIds : rows[r].status # "none"}}
    ELSE {rows}

\* The index of a wallet in its file is one that has a row in the other file.
IsAhead(rows, w) ==
    /\ w # NoWallet /\ w.kind = "xpub"
    /\ \E n \in Indexes : n >= w.next /\ HasRow(rows, Derived[n])

\* The process dies; the next one loads the files.
CrashWallets ==
    /\ restarts < MaxRestarts /\ restarts' = restarts + 1
    /\ wallets' = walletFile.rows /\ nextWallet' = walletFile.next
    /\ address' \in Loads(addressFile) /\ bill' = billFile
    /\ worker' = [t \in Workers |-> IdleWorker]
    /\ rowsLost' = (rowsLost \/ behind \/ HasRefused(addressFile))
    /\ indexLost' = (indexLost \/ \E w \in WalletIds : IsAhead(addressFile, walletFile.rows[w]))
    /\ UNCHANGED <<walletFiles, shown, keyAdded, requests>>

ImportStep(t) == LookUp(t) \/ InsertListed(t)
FinalizeStep(t) ==
    \/ Derive(t)       \/ SaveIndex(t)  \/ TakeFromPool(t)
    \/ MarkAssigned(t) \/ SaveBill(t)   \/ FlushAndAnswer(t)

WalletNext ==
    \/ AddDerivingWallet
    \/ \E w \in WalletIds : DeleteWallet(w)
    \/ \E t \in Workers : \E list \in (SUBSET Pool) \ {{}} : AddAddressList(t, list)
    \/ \E t \in Workers : ImportStep(t) \/ FinalizeStep(t)
    \/ \E t \in Workers, i \in Bills, w \in WalletIds : BeginFinalizing(t, i, w)
    \/ \E i \in Bills : CancelBill(i)
    \/ \E f \in WalletFiles : SaveFile(f)
    \/ CrashWallets

WalletSpec == WalletInit /\ [][WalletNext]_walletVars

-------------------------------------------------------------------------------
(* Properties. *)

\* No address is shown to two customers, however requests overlap on copies of
\* the wallet, keys are added again, invoices are cancelled and the process
\* dies between the choice of an address and the save (get_next_address).  The
\* exceptions: two imports inserted one address, a restart loaded a file with
\* a refused row, or the write of a finalization's address failed and no later
\* one came before the restart.
AddressesAreNotShared ==
    ~ rowsLost => \A a \in PayAddresses : Cardinality(shown[a]) <= 1

\* The next index of a wallet is one that has no row yet, whatever stale copies
\* of the wallet were saved: finalizing can go on (_derive_next_address).  The
\* exceptions: the key was added twice, a restart found the file of the
\* addresses ahead of that of the wallets, or rows were lost as above.
NextIndexIsFree ==
    ~ rowsLost /\ ~ indexLost /\ LockIsFree =>
        \A w \in WalletIds : \A n \in Indexes :
            wallets[w] # NoWallet /\ wallets[w].kind = "xpub" /\ n >= wallets[w].next =>
                ~ HasRow(address, Derived[n])
===============================================================================
