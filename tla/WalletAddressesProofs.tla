------------------------ MODULE WalletAddressesProofs ------------------------
(***************************************************************************)
(* Proofs about WalletAddresses for any addresses, invoices and threads: no *)
(* two customers are shown one address, and the wallet's next index is free *)
(* (with the exceptions that the properties name).                          *)
(*                                                                         *)
(* A row that a request holds is given away, or it was derived just now and *)
(* no pool finds it, because the ids of the copies tell the kinds of the    *)
(* wallets apart; what was shown was given away and written before.  The    *)
(* rows of the key end where its wallet's index points, and every copy's    *)
(* index is that one or one that is taken.                                  *)
(***************************************************************************)
EXTENDS WalletAddresses, FiniteSetTheorems, TLAPS

Copies == [id : WalletIds, kind : {"xpub", "address_list"}, next : Nat]
WalletTables == [WalletIds -> Copies \cup {NoWallet}]
Rows == [status : {"none", "unused", "reserved", "assigned", "released"}, wallet : Nat]
AddressTables == [RowIds -> Rows]
BillRows == [status : {"draft", "pending", "cancelled"}, row : RowIds \cup {NoAddress}]
Places == [pc : {"idle", "look", "insert", "choose", "bump", "assign", "save", "flush"},
           bill : Bills \cup {NoBill},
           copy : Copies \cup {NoWallet},
           row : RowIds \cup {NoAddress},
           left : SUBSET Pool]

Busy(t) == worker[t].pc # "idle"
Held(t) == worker[t].pc \in {"bump", "assign", "save", "flush"}

WorkersOK ==
    /\ worker \in [Workers -> Places]
    /\ \A t \in Workers :
          /\ Busy(t) => worker[t].copy \in Copies
          /\ At(t, "choose") \/ Held(t) => worker[t].bill \in Bills
          /\ Held(t) => worker[t].row \in RowIds
          /\ At(t, "insert") => worker[t].row[1] \in Pool

WalletTypeOK ==
    /\ wallets \in WalletTables /\ nextWallet \in Nat
    /\ address \in AddressTables
    /\ bill \in [Bills -> BillRows]
    /\ WorkersOK
    /\ walletFile \in [rows : WalletTables, next : Nat]
    /\ addressFile \in AddressTables
    /\ billFile \in [Bills -> BillRows]
    /\ shown \in [PayAddresses -> SUBSET Bills]
    /\ restarts \in Nat

LEMMA RowFacts ==
    /\ \A a \in PayAddresses : /\ First(a) \in RowIds /\ Second(a) \in RowIds
                               /\ First(a)[1] = a /\ Second(a)[1] = a
                               /\ First(a) # NoAddress /\ Second(a) # NoAddress
    /\ \A a, b \in PayAddresses : First(a) # Second(b)
    /\ \A a, b \in PayAddresses : First(a) = First(b) => a = b
    /\ \A a, b \in PayAddresses : Second(a) = Second(b) => a = b
    /\ \A r \in RowIds : r[1] \in PayAddresses /\ (r = First(r[1]) \/ r = Second(r[1]))
    /\ \A n \in Indexes : Derived[n] \in PayAddresses /\ Derived[n] \notin Pool
    /\ Pool \subseteq PayAddresses
<1> USE AddressAssumption, NoRowAssumption DEF RowIds, First, Second, PayAddresses
<1>1. \A a \in PayAddresses : /\ First(a) \in RowIds /\ Second(a) \in RowIds
                              /\ First(a)[1] = a /\ Second(a)[1] = a
                              /\ First(a) # NoAddress /\ Second(a) # NoAddress
  OBVIOUS
<1>2. \A a, b \in PayAddresses : First(a) # Second(b)
  OBVIOUS
<1>3. \A r \in RowIds : r[1] \in PayAddresses /\ (r = First(r[1]) \/ r = Second(r[1]))
  OBVIOUS
<1>4. (\A n \in Indexes : Derived[n] \in PayAddresses /\ Derived[n] \notin Pool)
      /\ Pool \subseteq PayAddresses
  OBVIOUS
<1> QED
  BY <1>1, <1>2, <1>3, <1>4

-------------------------------------------------------------------------------
(* Types. *)

LEMMA WalletTypeInitially == WalletInit => WalletTypeOK
<1> SUFFICES ASSUME WalletInit PROVE WalletTypeOK
  OBVIOUS
<1>1. NoRowYet \in Rows
  BY DEF NoRowYet, Rows
<1>2. IdleWorker \in Places
  BY DEF IdleWorker, Places
<1>3. WorkersOK
  BY <1>2 DEF WalletInit, WorkersOK, IdleWorker, Busy, Held, At
<1>4. wallets \in WalletTables /\ address \in AddressTables
  BY <1>1 DEF WalletInit, WalletTables, AddressTables
<1> QED
  BY <1>3, <1>4 DEF WalletInit, WalletTypeOK, BillRows

\* A step of one thread keeps the threads' types if its new place has them.
LEMMA PlaceKept ==
    ASSUME WalletTypeOK, NEW t \in Workers, NEW new \in Places,
           worker' = [worker EXCEPT ![t] = new],
           new.pc # "idle" => new.copy \in Copies,
           new.pc \in {"choose", "bump", "assign", "save", "flush"} => new.bill \in Bills,
           new.pc \in {"bump", "assign", "save", "flush"} => new.row \in RowIds,
           new.pc = "insert" => new.row[1] \in Pool
    PROVE  WorkersOK'
<1>1. worker \in [Workers -> Places]
  BY DEF WalletTypeOK, WorkersOK
<1>2. worker' \in [Workers -> Places] /\ worker'[t] = new
      /\ \A u \in Workers \ {t} : worker'[u] = worker[u]
  BY <1>1
<1>3. ASSUME NEW u \in Workers
      PROVE  /\ Busy(u)' => worker'[u].copy \in Copies
             /\ At(u, "choose")' \/ Held(u)' => worker'[u].bill \in Bills
             /\ Held(u)' => worker'[u].row \in RowIds
             /\ At(u, "insert")' => worker'[u].row[1] \in Pool
  <2>1. CASE u = t
    BY <1>2, <2>1 DEF Busy, Held, At
  <2>2. CASE u # t
    BY <1>2, <2>2 DEF Busy, Held, At, WalletTypeOK, WorkersOK
  <2> QED
    BY <2>1, <2>2
<1> QED
  BY <1>2, <1>3 DEF WorkersOK

LEMMA LeaveKept ==
    ASSUME WalletTypeOK, NEW t \in Workers, Leave(t)
    PROVE  WorkersOK'
<1>1. IdleWorker \in Places /\ IdleWorker.pc = "idle"
  BY DEF IdleWorker, Places
<1> QED
  BY <1>1, PlaceKept DEF Leave

LEMMA ChosenKept ==
    ASSUME WalletTypeOK, NEW t \in Workers, NEW r \in RowIds,
           NEW step \in {"bump", "assign", "save", "flush"},
           At(t, "choose") \/ Held(t), Chosen(t, step, r)
    PROVE  /\ WorkersOK'
           /\ worker'[t].pc = step /\ worker'[t].row = r
           /\ worker'[t].copy = worker[t].copy /\ worker'[t].bill = worker[t].bill
           /\ \A u \in Workers \ {t} : worker'[u] = worker[u]
<1> DEFINE new == [pc |-> step, bill |-> worker[t].bill, copy |-> worker[t].copy,
                   row |-> r, left |-> {}]
<1>1. worker \in [Workers -> Places] /\ worker[t].copy \in Copies /\ worker[t].bill \in Bills
  BY DEF WalletTypeOK, WorkersOK, Busy, Held, At
<1>2. new \in Places /\ worker' = [worker EXCEPT ![t] = new]
  BY <1>1 DEF Places, Chosen
<1>3. WorkersOK'
  <2>1. /\ new.copy \in Copies /\ new.bill \in Bills /\ new.row \in RowIds
        /\ new.pc # "insert"
    BY <1>1
  <2> HIDE DEF new
  <2> QED
    BY <1>2, <2>1, PlaceKept
<1>4. worker'[t] = new /\ \A u \in Workers \ {t} : worker'[u] = worker[u]
  BY <1>1, <1>2
<1> QED
  BY <1>3, <1>4

LEMMA WalletTypeStep ==
    ASSUME WalletTypeOK, WalletNext
    PROVE  WalletTypeOK'
<1>p. Pool \subseteq PayAddresses /\ \A a \in PayAddresses :
        First(a) \in RowIds /\ Second(a) \in RowIds /\ First(a)[1] = a
  BY RowFacts
<1>d. \A r \in RowIds : r[1] \in PayAddresses
  BY RowFacts
<1>t. /\ wallets \in WalletTables /\ nextWallet \in Nat /\ address \in AddressTables
      /\ bill \in [Bills -> BillRows] /\ WorkersOK /\ worker \in [Workers -> Places]
      /\ walletFile \in [rows : WalletTables, next : Nat]
      /\ addressFile \in AddressTables /\ billFile \in [Bills -> BillRows]
      /\ shown \in [PayAddresses -> SUBSET Bills] /\ restarts \in Nat
  BY DEF WalletTypeOK, WorkersOK
<1>h. \A t \in Workers : \A step :
        /\ At(t, step) /\ step # "idle" => worker[t].copy \in Copies
        /\ At(t, step) /\ step \in {"bump", "assign", "save", "flush"} =>
             worker[t].bill \in Bills /\ worker[t].row \in RowIds /\ Held(t)
        /\ At(t, "insert") => worker[t].row[1] \in Pool
  BY <1>t DEF WorkersOK, Busy, Held, At
<1>r. ASSUME NEW r \in RowIds, NEW new \in Rows, address' = [address EXCEPT ![r] = new]
      PROVE  address' \in AddressTables
  BY <1>t, <1>r DEF AddressTables
<1>w. ASSUME NEW w \in WalletIds, NEW new \in Copies \cup {NoWallet},
             wallets' = [wallets EXCEPT ![w] = new]
      PROVE  wallets' \in WalletTables
  BY <1>t, <1>w DEF WalletTables
<1>f. ASSUME NEW files, Written(files)
      PROVE  /\ walletFile' \in [rows : WalletTables, next : Nat]
             /\ addressFile' \in AddressTables /\ billFile' \in [Bills -> BillRows]
             /\ UNCHANGED <<wallets, nextWallet, address, bill>>
  BY <1>t, <1>f DEF Written, walletTables
<1> USE DEF walletTables, walletFiles, walletHistory
<1>1. CASE AddDerivingWallet
  <2>1. nextWallet \in WalletIds
        /\ [id |-> nextWallet, kind |-> "xpub", next |-> 0] \in Copies
    BY <1>1, <1>t DEF AddDerivingWallet, Copies
  <2>2. wallets' \in WalletTables /\ nextWallet' \in Nat
    <3>1. wallets' = [wallets EXCEPT ![nextWallet] = [id |-> nextWallet, kind |-> "xpub", next |-> 0]]
      BY <1>1 DEF AddDerivingWallet
    <3>2. nextWallet' = nextWallet + 1
      BY <1>1 DEF AddDerivingWallet
    <3>3. wallets' \in WalletTables
      BY <1>w, <2>1, <3>1
    <3> QED
      BY <1>t, <3>2, <3>3
  <2>3. WorkersOK'
    BY <1>1, <1>t DEF AddDerivingWallet, WorkersOK, Busy, Held, At
  <2> QED
    BY <1>1, <1>t, <2>2, <2>3 DEF AddDerivingWallet, WalletTypeOK
<1>2. ASSUME NEW t \in Workers, NEW list \in (SUBSET Pool) \ {{}}, AddAddressList(t, list)
      PROVE  WalletTypeOK'
  <2> DEFINE new == [id |-> nextWallet, kind |-> "address_list", next |-> 0]
             place == [pc |-> "look", bill |-> NoBill, copy |-> new,
                       row |-> NoAddress, left |-> list]
  <2>1. nextWallet \in WalletIds /\ new \in Copies
    BY <1>2, <1>t DEF AddAddressList, Copies
  <2>2. wallets' \in WalletTables /\ nextWallet' \in Nat
    <3>1. wallets' = [wallets EXCEPT ![nextWallet] = new]
      BY <1>2 DEF AddAddressList
    <3>2. nextWallet' = nextWallet + 1
      BY <1>2 DEF AddAddressList
    <3>3. wallets' \in WalletTables
      BY <1>w, <2>1, <3>1
    <3> QED
      BY <1>t, <3>2, <3>3
  <2>3. WorkersOK'
    <3>1. place \in Places /\ place.copy \in Copies /\ place.pc = "look"
      BY <2>1 DEF Places
    <3>2. worker' = [worker EXCEPT ![t] = place]
      BY <1>2 DEF AddAddressList
    <3> HIDE DEF place
    <3> QED
      BY <3>1, <3>2, PlaceKept
  <2> QED
    BY <1>2, <1>t, <2>2, <2>3 DEF AddAddressList, WalletTypeOK
<1>3. ASSUME NEW t \in Workers, LookUp(t) PROVE WalletTypeOK'
  <2>1. WorkersOK'
    <3>1. CASE Leave(t)
      BY <3>1, LeaveKept
    <3>2. CASE ~ Leave(t)
      <4>1. PICK a \in worker[t].left :
               worker' = [worker EXCEPT ![t] =
                  [pc |-> IF HasRow(address, a) THEN "look" ELSE "insert",
                   bill |-> NoBill, copy |-> worker[t].copy,
                   row |-> IF HasRow(address, a) THEN NoAddress ELSE First(a),
                   left |-> worker[t].left \ {a}]]
        BY <1>3, <3>2 DEF LookUp
      <4>2. a \in Pool /\ worker[t].left \ {a} \subseteq Pool /\ worker[t].copy \in Copies
        BY <1>3, <1>t, <1>h DEF LookUp, Places
      <4> DEFINE place == [pc |-> IF HasRow(address, a) THEN "look" ELSE "insert",
                           bill |-> NoBill, copy |-> worker[t].copy,
                           row |-> IF HasRow(address, a) THEN NoAddress ELSE First(a),
                           left |-> worker[t].left \ {a}]
      <4>3. /\ place \in Places /\ place.copy \in Copies
            /\ place.pc \in {"look", "insert"} /\ (place.pc = "insert" => place.row[1] \in Pool)
        BY <4>2, <1>p DEF Places
      <4> HIDE DEF place
      <4> QED
        BY <4>1, <4>3, PlaceKept DEF place
    <3> QED
      BY <3>1, <3>2
  <2> QED
    BY <1>3, <1>t, <2>1 DEF LookUp, WalletTypeOK
<1>4. ASSUME NEW t \in Workers, InsertListed(t) PROVE WalletTypeOK'
  <2> DEFINE a == worker[t].row[1]
             new == [status |-> "unused", wallet |-> worker[t].copy.id]
             place == [pc |-> "look", bill |-> NoBill, copy |-> worker[t].copy,
                       row |-> NoAddress, left |-> worker[t].left]
  <2>1. a \in Pool /\ worker[t].copy \in Copies /\ worker[t].left \subseteq Pool
    BY <1>4, <1>t, <1>h DEF InsertListed, Places
  <2>2. new \in Rows /\ First(a) \in RowIds /\ Second(a) \in RowIds
    BY <2>1, <1>p DEF Rows, Copies, WalletIds
  <2>3. address' \in AddressTables
    BY <1>4, <1>r, <2>2 DEF InsertListed
  <2>4. WorkersOK'
    <3>1. place \in Places /\ place.copy \in Copies /\ place.pc = "look"
      BY <2>1 DEF Places
    <3>2. Leave(t) \/ worker' = [worker EXCEPT ![t] = place]
      BY <1>4 DEF InsertListed
    <3> HIDE DEF place
    <3> QED
      BY <3>1, <3>2, PlaceKept, LeaveKept
  <2> QED
    BY <1>4, <1>t, <2>3, <2>4 DEF InsertListed, WalletTypeOK
<1>5. ASSUME NEW w \in WalletIds, DeleteWallet(w) PROVE WalletTypeOK'
  <2>1. wallets' \in WalletTables
    BY <1>5, <1>w DEF DeleteWallet
  <2> QED
    BY <1>5, <1>t, <2>1 DEF DeleteWallet, WalletTypeOK, WorkersOK, Busy, Held, At
<1>6. ASSUME NEW t \in Workers, NEW i \in Bills, NEW w \in WalletIds, BeginFinalizing(t, i, w)
      PROVE  WalletTypeOK'
  <2> DEFINE place == [pc |-> "choose", bill |-> i, copy |-> wallets[w],
                       row |-> NoAddress, left |-> {}]
  <2>1. place \in Places /\ place.copy \in Copies /\ place.bill \in Bills /\ place.pc = "choose"
    BY <1>6, <1>t DEF BeginFinalizing, Places, WalletTables
  <2>2. WorkersOK'
    <3>1. worker' = [worker EXCEPT ![t] = place]
      BY <1>6 DEF BeginFinalizing
    <3> HIDE DEF place
    <3> QED
      BY <2>1, <3>1, PlaceKept
  <2> QED
    BY <1>6, <1>t, <2>2 DEF BeginFinalizing, WalletTypeOK
<1>7. ASSUME NEW t \in Workers, Derive(t) PROVE WalletTypeOK'
  <2> DEFINE a == Derived[worker[t].copy.next]
             new == [status |-> "unused", wallet |-> worker[t].copy.id]
  <2>1. a \in PayAddresses /\ worker[t].copy \in Copies
    BY <1>7, <1>h, RowFacts DEF Derive
  <2>2. new \in Rows /\ First(a) \in RowIds /\ Second(a) \in RowIds
    BY <2>1, <1>p DEF Rows, Copies, WalletIds
  <2>3. address' \in AddressTables
    BY <1>7, <1>r, <2>2 DEF Derive
  <2>4. WorkersOK'
    <3>1. Leave(t) \/ Chosen(t, "bump", First(a))
      BY <1>7 DEF Derive
    <3> HIDE DEF a
    <3> QED
      BY <1>7, <2>2, <3>1, LeaveKept, ChosenKept DEF Derive
  <2> QED
    BY <1>7, <1>t, <2>3, <2>4 DEF Derive, WalletTypeOK
<1>8. ASSUME NEW t \in Workers, SaveIndex(t) PROVE WalletTypeOK'
  <2> DEFINE copy == worker[t].copy
             new == [id |-> copy.id, kind |-> copy.kind, next |-> copy.next + 1]
  <2>1. copy \in Copies /\ worker[t].row \in RowIds /\ Held(t)
    BY <1>8, <1>h DEF SaveIndex
  <2>2. new \in Copies /\ copy.id \in WalletIds
    BY <2>1 DEF Copies
  <2>3. wallets' \in WalletTables
    BY <1>8, <1>w, <2>2 DEF SaveIndex
  <2>4. WorkersOK'
    BY <1>8, <2>1, ChosenKept DEF SaveIndex
  <2> QED
    BY <1>8, <1>t, <2>3, <2>4 DEF SaveIndex, WalletTypeOK
<1>9. ASSUME NEW t \in Workers, TakeFromPool(t) PROVE WalletTypeOK'
  <2> DEFINE w == worker[t].copy.id
             new == [status |-> "reserved", wallet |-> w]
  <2>1. w \in Nat /\ new \in Rows
    <3>1. worker[t].copy \in Copies
      BY <1>9, <1>h DEF TakeFromPool
    <3> QED
      BY <3>1 DEF Copies, WalletIds, Rows
  <2>2. CASE Leave(t) /\ UNCHANGED address
    BY <1>9, <1>t, <2>2, LeaveKept DEF TakeFromPool, WalletTypeOK
  <2>3. CASE ~ (Leave(t) /\ UNCHANGED address)
    <3>1. PICK r \in Unused(w) : /\ address' = [address EXCEPT ![r] = new]
                                 /\ Chosen(t, "assign", r)
      BY <1>9, <2>3 DEF TakeFromPool
    <3>2. r \in RowIds
      BY <3>1 DEF Unused
    <3>3. address' \in AddressTables
      BY <1>r, <2>1, <3>1, <3>2
    <3>4. WorkersOK'
      BY <1>9, <3>1, <3>2, ChosenKept DEF TakeFromPool
    <3> QED
      BY <1>9, <1>t, <3>3, <3>4 DEF TakeFromPool, WalletTypeOK
  <2> QED
    BY <2>2, <2>3
<1>10. ASSUME NEW t \in Workers, MarkAssigned(t) PROVE WalletTypeOK'
  <2>1. worker[t].copy \in Copies /\ worker[t].row \in RowIds /\ Held(t)
    BY <1>10, <1>h DEF MarkAssigned
  <2>2. [status |-> "assigned", wallet |-> worker[t].copy.id] \in Rows
    BY <2>1 DEF Rows, Copies, WalletIds
  <2>3. address' \in AddressTables
    BY <1>10, <1>r, <2>1, <2>2 DEF MarkAssigned
  <2>4. WorkersOK'
    BY <1>10, <2>1, ChosenKept DEF MarkAssigned
  <2> QED
    BY <1>10, <1>t, <2>3, <2>4 DEF MarkAssigned, WalletTypeOK
<1>11. ASSUME NEW t \in Workers, SaveBill(t) PROVE WalletTypeOK'
  <2>1. Held(t) /\ worker[t].row \in RowIds /\ worker[t].bill \in Bills
    BY <1>11, <1>h DEF SaveBill
  <2>2. WorkersOK'
    BY <1>11, <2>1, LeaveKept, ChosenKept DEF SaveBill
  <2>3. [status |-> "pending", row |-> worker[t].row] \in BillRows
    BY <2>1 DEF BillRows
  <2>4. bill' \in [Bills -> BillRows]
    BY <1>11, <1>t, <2>1, <2>3 DEF SaveBill
  <2> QED
    BY <1>11, <1>t, <2>2, <2>4 DEF SaveBill, WalletTypeOK
<1>12. ASSUME NEW t \in Workers, FlushAndAnswer(t) PROVE WalletTypeOK'
  <2>1. Held(t) /\ worker[t].row[1] \in PayAddresses /\ worker[t].bill \in Bills
    BY <1>12, <1>h, <1>d DEF FlushAndAnswer
  <2>2. shown' \in [PayAddresses -> SUBSET Bills]
    <3> DEFINE b == shown[worker[t].row[1]] \cup {worker[t].bill}
    <3>1. b \in SUBSET Bills /\ shown' = [shown EXCEPT ![worker[t].row[1]] = b]
      BY <1>12, <1>t, <2>1 DEF FlushAndAnswer
    <3> HIDE DEF b
    <3> QED
      BY <1>t, <3>1
  <2>3. WorkersOK'
    BY <1>12, LeaveKept DEF FlushAndAnswer
  <2>4. /\ walletFile' \in [rows : WalletTables, next : Nat]
        /\ addressFile' \in AddressTables /\ billFile' \in [Bills -> BillRows]
        /\ UNCHANGED <<wallets, nextWallet, address, bill>>
    BY <1>12, <1>t, <1>f DEF FlushAndAnswer
  <2> QED
    BY <1>12, <1>t, <2>2, <2>3, <2>4 DEF FlushAndAnswer, WalletTypeOK
<1>13. ASSUME NEW f \in WalletFiles, SaveFile(f) PROVE WalletTypeOK'
  <2>1. /\ walletFile' \in [rows : WalletTables, next : Nat]
        /\ addressFile' \in AddressTables /\ billFile' \in [Bills -> BillRows]
        /\ UNCHANGED <<wallets, nextWallet, address, bill>>
    BY <1>13, <1>f DEF SaveFile
  <2>2. WorkersOK'
    BY <1>13, <1>t DEF SaveFile, WorkersOK, Busy, Held, At
  <2> QED
    BY <1>13, <1>t, <2>1, <2>2 DEF SaveFile, WalletTypeOK
<1>14. ASSUME NEW i \in Bills, CancelBill(i) PROVE WalletTypeOK'
  <2> DEFINE r == bill[i].row
             new == [status |-> "released", wallet |-> address[r].wallet]
  <2>1. r \in RowIds \cup {NoAddress} /\ (r \in RowIds => new \in Rows)
    BY <1>t DEF BillRows, AddressTables, Rows
  <2>2. address' \in AddressTables
    BY <1>14, <1>t, <1>r, <2>1 DEF CancelBill
  <2>3. [status |-> "cancelled", row |-> r] \in BillRows
    BY <2>1 DEF BillRows
  <2>4. bill' \in [Bills -> BillRows]
    BY <1>14, <1>t, <2>3 DEF CancelBill
  <2>5. WorkersOK'
    BY <1>14, <1>t DEF CancelBill, WorkersOK, Busy, Held, At
  <2> QED
    BY <1>14, <1>t, <2>2, <2>4, <2>5 DEF CancelBill, WalletTypeOK
<1>15. CASE CrashWallets
  <2>1. address' \in AddressTables
    <3>1. NoRowYet \in Rows
      BY DEF NoRowYet, Rows
    <3> QED
      BY <1>15, <1>t, <3>1 DEF CrashWallets, Loads, AddressTables
  <2>2. WorkersOK'
    <3>1. IdleWorker \in Places /\ IdleWorker.pc = "idle"
      BY DEF IdleWorker, Places
    <3> QED
      BY <1>15, <3>1 DEF CrashWallets, WorkersOK, Busy, Held, At
  <2> QED
    BY <1>15, <1>t, <2>1, <2>2 DEF CrashWallets, WalletTypeOK
<1> QED
  BY <1>1, <1>2, <1>3, <1>4, <1>5, <1>6, <1>7, <1>8, <1>9, <1>10, <1>11, <1>12, <1>13,
     <1>14, <1>15 DEF WalletNext, ImportStep, FinalizeStep

-------------------------------------------------------------------------------
(* What ids say of kinds. *)

\* A wallet's row or somebody's copy of it.
IsOf(w, kind) ==
    \/ wallets[w] # NoWallet /\ wallets[w].kind = kind
    \/ \E t \in Workers : Busy(t) /\ worker[t].copy.id = w /\ worker[t].copy.kind = kind

IdsOK(rows, next) == \A w \in WalletIds : rows[w] # NoWallet => rows[w].id = w /\ w < next

KindsOK ==
    /\ IdsOK(wallets, nextWallet) /\ IdsOK(walletFile.rows, walletFile.next)
    /\ \A t \in Workers : Busy(t) => worker[t].copy.id < nextWallet
    /\ \A w \in WalletIds : ~ (IsOf(w, "xpub") /\ IsOf(w, "address_list"))

LEMMA KindsInitially == WalletInit => KindsOK
  BY DEF WalletInit, KindsOK, IdsOK, IsOf, IdleWorker, Busy

\* Threads that are busy after the step have their copy from before.
SameCopies ==
    \A t \in Workers : Busy(t)' => Busy(t) /\ worker'[t].copy = worker[t].copy

LEMMA CopiesStep ==
    ASSUME WalletTypeOK, NEW t \in Workers,
           ImportStep(t) \/ FinalizeStep(t)
    PROVE  SameCopies /\ (~ SaveIndex(t) => UNCHANGED <<wallets, nextWallet>>)
<1>1. worker \in [Workers -> Places]
  BY DEF WalletTypeOK, WorkersOK
<1>2. Leave(t) => SameCopies
  BY <1>1 DEF Leave, SameCopies, Busy, IdleWorker
<1>3. ASSUME Busy(t), NEW new, new.copy = worker[t].copy, worker' = [worker EXCEPT ![t] = new]
      PROVE  SameCopies
  BY <1>1, <1>3 DEF SameCopies, Busy
<1>4. ASSUME Busy(t), NEW step, NEW r, Chosen(t, step, r) PROVE SameCopies
  <2> DEFINE new == [pc |-> step, bill |-> worker[t].bill, copy |-> worker[t].copy,
                     row |-> r, left |-> {}]
  <2>1. new.copy = worker[t].copy /\ worker' = [worker EXCEPT ![t] = new]
    BY <1>4 DEF Chosen
  <2> HIDE DEF new
  <2> QED
    BY <1>3, <1>4, <2>1
<1>5. CASE LookUp(t)
  <2>1. Busy(t)
    BY <1>5 DEF LookUp, At, Busy
  <2>2. Leave(t) \/ \E a \in worker[t].left :
          worker' = [worker EXCEPT ![t] =
                [pc |-> IF HasRow(address, a) THEN "look" ELSE "insert",
                 bill |-> NoBill, copy |-> worker[t].copy,
                 row |-> IF HasRow(address, a) THEN NoAddress ELSE First(a),
                 left |-> worker[t].left \ {a}]]
    BY <1>5 DEF LookUp
  <2> QED
    BY <1>2, <1>3, <1>5, <2>1, <2>2 DEF LookUp, walletTables, SaveIndex
<1>6. CASE InsertListed(t)
  <2>1. Busy(t)
    BY <1>6 DEF InsertListed, At, Busy
  <2>2. Leave(t) \/ worker' = [worker EXCEPT ![t] =
                [pc |-> "look", bill |-> NoBill, copy |-> worker[t].copy,
                 row |-> NoAddress, left |-> worker[t].left]]
    BY <1>6 DEF InsertListed
  <2> QED
    BY <1>2, <1>3, <1>6, <2>1, <2>2 DEF InsertListed
<1>7. CASE FinalizeStep(t)
  <2>1. Busy(t)
    BY <1>7 DEF FinalizeStep, Derive, SaveIndex, TakeFromPool, MarkAssigned, SaveBill,
                FlushAndAnswer, At, Busy
  <2>2. Leave(t) \/ \E step, r : Chosen(t, step, r)
    BY <1>7 DEF FinalizeStep, Derive, SaveIndex, TakeFromPool, MarkAssigned, SaveBill,
                FlushAndAnswer
  <2>3. ~ SaveIndex(t) => UNCHANGED <<wallets, nextWallet>>
    BY <1>7 DEF FinalizeStep, Derive, TakeFromPool, MarkAssigned, SaveBill,
                FlushAndAnswer, Written, walletTables
  <2> QED
    BY <1>2, <1>4, <2>1, <2>2, <2>3
<1> QED
  BY <1>5, <1>6, <1>7 DEF ImportStep

\* A step other than a crash gives a kind to a new id only.
KindsStay ==
    /\ nextWallet' >= nextWallet
    /\ \A w \in WalletIds : \A kind \in {"xpub", "address_list"} :
          w < nextWallet /\ IsOf(w, kind)' => IsOf(w, kind)

LEMMA KindsStep ==
    ASSUME WalletTypeOK, KindsOK, WalletNext, ~ CrashWallets
    PROVE  KindsOK' /\ KindsStay
<1>t. /\ wallets \in WalletTables /\ nextWallet \in Nat /\ worker \in [Workers -> Places]
      /\ \A t \in Workers : Busy(t) => worker[t].copy \in Copies
      /\ WalletIds \subseteq Nat
  BY DEF WalletTypeOK, WorkersOK, WalletIds
<1>k. /\ IdsOK(wallets, nextWallet) /\ IdsOK(walletFile.rows, walletFile.next)
      /\ \A t \in Workers : Busy(t) => worker[t].copy.id < nextWallet
      /\ \A w \in WalletIds : ~ (IsOf(w, "xpub") /\ IsOf(w, "address_list"))
  BY DEF KindsOK
<1>f. IdsOK(walletFile.rows, walletFile.next)'
  <2>1. \/ walletFile' = walletFile
        \/ walletFile' = [rows |-> wallets, next |-> nextWallet]
    BY DEF WalletNext, AddDerivingWallet, DeleteWallet, AddAddressList, ImportStep, LookUp,
           InsertListed, FinalizeStep, Derive, SaveIndex, TakeFromPool, MarkAssigned, SaveBill,
           FlushAndAnswer, BeginFinalizing, CancelBill, SaveFile, Written, walletFiles
  <2> QED
    BY <2>1, <1>k DEF IdsOK
<1>1. ASSUME SameCopies, UNCHANGED <<wallets, nextWallet>>
      PROVE  KindsOK' /\ KindsStay
  <2>1. \A w \in WalletIds : \A kind \in {"xpub", "address_list"} : IsOf(w, kind)' => IsOf(w, kind)
    BY <1>1 DEF IsOf, SameCopies
  <2> QED
    BY <1>1, <1>t, <1>k, <1>f, <2>1 DEF KindsOK, KindsStay, SameCopies, IdsOK
\* One wallet more, perhaps with a thread that has it in its hands.
<1>2. ASSUME NEW new, new.id = nextWallet, nextWallet \in WalletIds,
             wallets' = [wallets EXCEPT ![nextWallet] = new], nextWallet' = nextWallet + 1,
             \A u \in Workers : \/ worker'[u] = worker[u]
                                \/ worker'[u].copy = new
      PROVE  KindsOK' /\ KindsStay
  <2>1. /\ wallets'[nextWallet] = new
        /\ \A w \in WalletIds \ {nextWallet} : wallets'[w] = wallets[w]
    BY <1>2, <1>t DEF WalletTables
  <2>2. \A w \in WalletIds : \A kind : IsOf(w, kind)' =>
            IF w = nextWallet THEN new.kind = kind ELSE IsOf(w, kind)
    BY <1>2, <1>k, <1>t, <2>1 DEF IsOf, Busy
  <2>3. IdsOK(wallets', nextWallet')
    BY <1>2, <1>k, <1>t, <2>1 DEF IdsOK
  <2>4. \A u \in Workers : Busy(u)' => worker'[u].copy.id < nextWallet'
    <3> SUFFICES ASSUME NEW u \in Workers, Busy(u)' PROVE worker'[u].copy.id < nextWallet'
      OBVIOUS
    <3>1. CASE worker'[u] = worker[u]
      <4>1. Busy(u) /\ worker[u].copy.id < nextWallet /\ worker[u].copy.id \in Nat
        BY <1>k, <1>t, <3>1 DEF Busy, Copies
      <4> QED
        BY <1>2, <1>t, <3>1, <4>1
    <3>2. CASE worker'[u].copy = new
      BY <1>2, <1>t, <3>2
    <3> QED
      BY <1>2, <3>1, <3>2
  <2>5. \A w \in WalletIds : ~ (IsOf(w, "xpub") /\ IsOf(w, "address_list"))'
    BY <1>k, <2>2
  <2>6. KindsStay
    BY <1>2, <1>t, <2>2 DEF KindsStay
  <2> QED
    BY <1>f, <2>3, <2>4, <2>5, <2>6 DEF KindsOK
<1>3. CASE AddDerivingWallet
  <2> DEFINE new == [id |-> nextWallet, kind |-> "xpub", next |-> 0]
  <2>1. /\ nextWallet \in WalletIds /\ wallets' = [wallets EXCEPT ![nextWallet] = new]
        /\ nextWallet' = nextWallet + 1 /\ worker' = worker /\ new.id = nextWallet
    BY <1>3 DEF AddDerivingWallet
  <2> HIDE DEF new
  <2> QED
    BY <1>2, <2>1
<1>4. ASSUME NEW t \in Workers, NEW list \in (SUBSET Pool) \ {{}}, AddAddressList(t, list)
      PROVE  KindsOK' /\ KindsStay
  <2> DEFINE new == [id |-> nextWallet, kind |-> "address_list", next |-> 0]
             place == [pc |-> "look", bill |-> NoBill, copy |-> new,
                       row |-> NoAddress, left |-> list]
  <2>1. /\ nextWallet \in WalletIds /\ wallets' = [wallets EXCEPT ![nextWallet] = new]
        /\ nextWallet' = nextWallet + 1 /\ worker' = [worker EXCEPT ![t] = place]
        /\ new.id = nextWallet /\ place.copy = new
    BY <1>4 DEF AddAddressList
  <2> HIDE DEF new, place
  <2>2. \A u \in Workers : worker'[u] = worker[u] \/ worker'[u].copy = new
    BY <1>t, <2>1
  <2> QED
    BY <1>2, <2>1, <2>2
<1>5. ASSUME NEW w \in WalletIds, DeleteWallet(w) PROVE KindsOK' /\ KindsStay
  <2>1. /\ \A v \in WalletIds : wallets'[v] # NoWallet => wallets'[v] = wallets[v]
        /\ UNCHANGED <<nextWallet, worker>>
    BY <1>5, <1>t DEF DeleteWallet, WalletTables
  <2>2. \A v \in WalletIds : \A kind : IsOf(v, kind)' => IsOf(v, kind)
    BY <2>1 DEF IsOf, Busy
  <2> QED
    BY <1>t, <1>k, <1>f, <2>1, <2>2 DEF KindsOK, KindsStay, IdsOK, Busy
<1>6. ASSUME NEW t \in Workers, NEW i \in Bills, NEW w \in WalletIds, BeginFinalizing(t, i, w)
      PROVE  KindsOK' /\ KindsStay
  <2> DEFINE place == [pc |-> "choose", bill |-> i, copy |-> wallets[w],
                       row |-> NoAddress, left |-> {}]
  <2>1. worker' = [worker EXCEPT ![t] = place] /\ place.copy = wallets[w]
    BY <1>6 DEF BeginFinalizing
  <2> HIDE DEF place
  <2>2. /\ worker'[t].copy = wallets[w] /\ wallets[w] # NoWallet
        /\ \A u \in Workers \ {t} : worker'[u] = worker[u]
        /\ UNCHANGED <<wallets, nextWallet>>
    BY <1>6, <1>t, <2>1 DEF BeginFinalizing, walletTables
  <2>3. wallets[w].id = w /\ w < nextWallet
    BY <1>k, <2>2 DEF IdsOK
  <2>4. \A v \in WalletIds : \A kind : IsOf(v, kind)' => IsOf(v, kind)
    BY <2>2, <2>3 DEF IsOf, Busy
  <2> QED
    BY <1>t, <1>k, <1>f, <2>2, <2>3, <2>4 DEF KindsOK, KindsStay, IdsOK, Busy
<1>7. ASSUME NEW t \in Workers, SaveIndex(t) PROVE KindsOK' /\ KindsStay
  <2> DEFINE copy == worker[t].copy
             new == [id |-> copy.id, kind |-> copy.kind, next |-> copy.next + 1]
  <2>1. /\ Busy(t) /\ copy.id \in WalletIds /\ copy.id < nextWallet
        /\ wallets' = [wallets EXCEPT ![copy.id] = new]
        /\ new.id = copy.id /\ new.kind = copy.kind /\ nextWallet' = nextWallet
    BY <1>7, <1>t, <1>k DEF SaveIndex, At, Busy, Copies
  <2> HIDE DEF new
  <2>2. wallets'[copy.id] = new /\ \A v \in WalletIds \ {copy.id} : wallets'[v] = wallets[v]
    BY <1>t, <2>1 DEF WalletTables
  <2>3. SameCopies
    BY <1>7, CopiesStep DEF FinalizeStep
  <2>4. \A v \in WalletIds : \A kind : IsOf(v, kind)' => IsOf(v, kind)
    BY <2>1, <2>2, <2>3 DEF IsOf, SameCopies
  <2>5. IdsOK(wallets', nextWallet')
    BY <1>k, <2>1, <2>2 DEF IdsOK
  <2> QED
    BY <1>t, <1>k, <1>f, <2>1, <2>3, <2>4, <2>5 DEF KindsOK, KindsStay, SameCopies
<1>8. ASSUME NEW t \in Workers, ImportStep(t) \/ FinalizeStep(t), ~ SaveIndex(t)
      PROVE  KindsOK' /\ KindsStay
  BY <1>1, <1>8, CopiesStep
<1>9. ASSUME NEW i \in Bills, CancelBill(i) PROVE KindsOK' /\ KindsStay
  BY <1>1, <1>9 DEF CancelBill, SameCopies, Busy
<1>10. ASSUME NEW f \in WalletFiles, SaveFile(f) PROVE KindsOK' /\ KindsStay
  BY <1>1, <1>10 DEF SaveFile, Written, walletTables, SameCopies, Busy
<1> QED
  BY <1>3, <1>4, <1>5, <1>6, <1>7, <1>8, <1>9, <1>10 DEF WalletNext

-------------------------------------------------------------------------------
(* Who holds an address and who was shown it. *)

GivenAway(rows, a) == rows[First(a)].status \in {"reserved", "assigned", "released"}

\* Rows of refused inserts are out of the pools' reach.
Hidden(w) == w \in WalletIds /\ w < nextWallet /\ ~ IsOf(w, "address_list")
SecondsOK ==
    \A a \in PayAddresses :
        \/ address[Second(a)].status = "none"
        \/ address[Second(a)].status = "unused" /\ Hidden(address[Second(a)].wallet)

HeldOK(t) ==
    LET a == worker[t].row[1]
    IN  /\ worker[t].row = First(a) /\ shown[a] = {}
        /\ \/ GivenAway(address, a)
           \/ /\ worker[t].pc \in {"bump", "assign"} /\ worker[t].copy.kind = "xpub"
              /\ address[First(a)].status = "unused"
              /\ address[First(a)].wallet = worker[t].copy.id

HeldByOne ==
    \A t, u \in Workers :
        t # u /\ Held(t) /\ Held(u) => worker[t].row # worker[u].row

ShownOK ==
    \A a \in PayAddresses : shown[a] # {} =>
        /\ GivenAway(address, a)
        /\ restarts < MaxRestarts /\ ~ behind => GivenAway(addressFile, a)

ShownToOne == \A a \in PayAddresses : \A i, j \in shown[a] : i = j

Sharing ==
    ~ rowsLost =>
        /\ SecondsOK /\ HeldByOne /\ ShownOK /\ ShownToOne
        /\ \A t \in Workers : Held(t) => HeldOK(t)

LEMMA SharingInitially == WalletInit => Sharing
<1> SUFFICES ASSUME WalletInit PROVE Sharing
  OBVIOUS
<1>1. /\ address = [r \in RowIds |-> NoRowYet] /\ worker = [t \in Workers |-> IdleWorker]
      /\ shown = [a \in PayAddresses |-> {}]
  BY DEF WalletInit
<1>2. SecondsOK
  BY <1>1, RowFacts DEF SecondsOK, NoRowYet
<1>3. HeldByOne /\ \A t \in Workers : ~ Held(t)
  BY <1>1 DEF HeldByOne, Held, IdleWorker
<1>4. ShownOK /\ ShownToOne
  BY <1>1 DEF ShownOK, ShownToOne
<1> QED
  BY <1>2, <1>3, <1>4 DEF Sharing

\* Steps that leave the second rows alone.
LEMMA HiddenStays ==
    ASSUME WalletTypeOK, WalletTypeOK', KindsStay, NEW w, Hidden(w)
    PROVE  Hidden(w)'
<1>1. w \in Nat /\ nextWallet \in Nat /\ nextWallet' \in Nat
  BY DEF Hidden, WalletIds, WalletTypeOK
<1>2. nextWallet' >= nextWallet /\ (w < nextWallet => ~ IsOf(w, "address_list")')
  BY DEF Hidden, KindsStay
<1> QED
  BY <1>1, <1>2 DEF Hidden

LEMMA SecondsKept ==
    ASSUME WalletTypeOK, WalletTypeOK', SecondsOK, KindsStay,
           \A a \in PayAddresses : address'[Second(a)] = address[Second(a)]
    PROVE  SecondsOK'
<1>1. ASSUME NEW a \in PayAddresses, address[Second(a)].status # "none"
      PROVE  (address[Second(a)].status = "unused")' /\ Hidden(address[Second(a)].wallet)'
  <2>1. PICK w : w = address[Second(a)].wallet
    OBVIOUS
  <2>2. address[Second(a)].status = "unused" /\ Hidden(w)
    BY <1>1, <2>1 DEF SecondsOK
  <2>3. Hidden(w)'
    BY <2>2, HiddenStays
  <2> QED
    BY <2>1, <2>2, <2>3
<1> QED
  BY <1>1 DEF SecondsOK

\* Who held the row before, and where he has got to with it.
StillHeld(u) ==
    /\ Held(u) /\ worker'[u].row = worker[u].row /\ worker'[u].copy = worker[u].copy
    /\ worker'[u].pc \in {"bump", "assign"} \/ GivenAway(address', worker[u].row[1])

RowsAdvance ==
    \A a \in PayAddresses :
        /\ GivenAway(address, a) => GivenAway(address', a)
        /\ address[First(a)].status = "unused" =>
              address'[First(a)] = address[First(a)] \/ GivenAway(address', a)

\* Steps that show nothing and by which one thread at most gets hold of a row.
LEMMA SharingKept ==
    ASSUME WalletTypeOK, HeldByOne, ShownOK, ShownToOne,
           \A t \in Workers : Held(t) => HeldOK(t),
           SecondsOK', RowsAdvance, UNCHANGED <<shown, restarts>>,
           UNCHANGED <<behind, addressFile>> \/ addressFile' = address,
           \A u \in Workers : Held(u)' =>
               \/ StillHeld(u)
               \/ /\ HeldOK(u)'
                  /\ \A v \in Workers \ {u} : Held(v)' =>
                        StillHeld(v) /\ worker[v].row # worker'[u].row
    PROVE  Sharing'
<1>1. HeldByOne'
  <2> SUFFICES ASSUME NEW t \in Workers, NEW u \in Workers, t # u, Held(t)', Held(u)'
               PROVE  worker'[t].row # worker'[u].row
    BY DEF HeldByOne
  <2>1. CASE StillHeld(t) /\ StillHeld(u)
    BY <2>1 DEF HeldByOne, StillHeld
  <2>2. CASE ~ StillHeld(t)
    BY <2>2 DEF StillHeld
  <2>3. CASE ~ StillHeld(u)
    BY <2>3 DEF StillHeld
  <2> QED
    BY <2>1, <2>2, <2>3
<1>2. ASSUME NEW u \in Workers, Held(u)' PROVE HeldOK(u)'
  <2>1. CASE StillHeld(u)
    <3>1. HeldOK(u) /\ worker[u].row \in RowIds /\ worker'[u].row = worker[u].row
          /\ worker'[u].copy = worker[u].copy
      BY <2>1 DEF StillHeld, WalletTypeOK, WorkersOK
    <3>2. PICK a \in PayAddresses : a = worker[u].row[1]
      BY <3>1, RowFacts
    <3>3. /\ worker'[u].row = First(a) /\ worker'[u].row[1] = a /\ shown'[a] = {}
      BY <3>1, <3>2, RowFacts DEF HeldOK
    <3>4. \/ GivenAway(address', a)
          \/ /\ worker'[u].pc \in {"bump", "assign"} /\ worker'[u].copy.kind = "xpub"
             /\ address'[First(a)].status = "unused"
             /\ address'[First(a)].wallet = worker'[u].copy.id
      BY <2>1, <3>1, <3>2 DEF HeldOK, StillHeld, RowsAdvance
    <3> QED
      BY <3>3, <3>4 DEF HeldOK, GivenAway
  <2>2. CASE ~ StillHeld(u)
    BY <1>2, <2>2
  <2> QED
    BY <2>1, <2>2
<1>3. ShownOK'
  <2> SUFFICES ASSUME NEW a \in PayAddresses, shown[a] # {}
               PROVE  /\ GivenAway(address', a)
                      /\ restarts < MaxRestarts /\ ~ behind' => GivenAway(addressFile', a)
    BY DEF ShownOK, GivenAway
  <2> QED
    BY DEF ShownOK, RowsAdvance
<1>4. ShownToOne'
  BY DEF ShownToOne
<1> QED
  BY <1>1, <1>2, <1>3, <1>4 DEF Sharing

LEMMA SharingStep ==
    ASSUME WalletTypeOK, WalletTypeOK', KindsOK, KindsStay, Sharing,
           WalletNext, ~ CrashWallets, ~ rowsLost'
    PROVE  Sharing'
<1>n. ~ rowsLost
  BY DEF WalletNext, AddDerivingWallet, DeleteWallet, AddAddressList, ImportStep, LookUp,
         InsertListed, FinalizeStep, Derive, SaveIndex, TakeFromPool, MarkAssigned, SaveBill,
         FlushAndAnswer, BeginFinalizing, CancelBill, SaveFile, walletHistory
<1>s. /\ SecondsOK /\ HeldByOne /\ ShownOK /\ ShownToOne
      /\ \A t \in Workers : Held(t) => HeldOK(t)
  BY <1>n DEF Sharing
<1>t. /\ worker \in [Workers -> Places] /\ address \in AddressTables
      /\ \A t \in Workers : Busy(t) => worker[t].copy \in Copies
      /\ \A t \in Workers : Held(t) => worker[t].row \in RowIds
  BY DEF WalletTypeOK, WorkersOK
<1>k. ASSUME NEW t \in Workers, Busy(t)
      PROVE  /\ worker[t].copy.id \in WalletIds /\ worker[t].copy.id < nextWallet
             /\ \A kind : worker[t].copy.kind = kind => IsOf(worker[t].copy.id, kind)
             /\ ~ (IsOf(worker[t].copy.id, "xpub") /\ IsOf(worker[t].copy.id, "address_list"))
  BY <1>k, <1>t DEF KindsOK, IsOf, Copies
\* Steps that leave the rows alone and give nobody one.
<1>q. ASSUME UNCHANGED <<address, shown, restarts>>,
             UNCHANGED <<behind, addressFile>> \/ addressFile' = address,
             \A u \in Workers : Held(u)' => StillHeld(u)
      PROVE  Sharing'
  <2>1. RowsAdvance
    BY <1>q DEF RowsAdvance, GivenAway
  <2>2. SecondsOK'
    BY <1>q, <1>s, SecondsKept
  <2> QED
    BY <1>q, <1>s, <2>1, <2>2, SharingKept
<1>l. ASSUME NEW t \in Workers, Leave(t), RowsAdvance
      PROVE  \A u \in Workers : Held(u)' => StillHeld(u)
  <2> SUFFICES ASSUME NEW u \in Workers, Held(u)' PROVE StillHeld(u)
    OBVIOUS
  <2>1. u # t /\ worker'[u] = worker[u]
    BY <1>l, <1>t DEF Leave, IdleWorker, Held
  <2>2. Held(u) /\ HeldOK(u) /\ worker[u].row[1] \in PayAddresses
    BY <1>s, <1>t, <2>1, RowFacts DEF Held
  <2> QED
    BY <1>l, <2>1, <2>2 DEF StillHeld, HeldOK, RowsAdvance, Held
<1>o. ASSUME NEW t \in Workers, RowsAdvance, NEW u \in Workers, u # t,
             worker'[u] = worker[u], Held(u)'
      PROVE  StillHeld(u)
  <2>2. Held(u) /\ HeldOK(u) /\ worker[u].row[1] \in PayAddresses
    BY <1>o, <1>s, <1>t, RowFacts DEF Held
  <2> QED
    BY <1>o, <2>2 DEF StillHeld, HeldOK, RowsAdvance, Held
<1>1. CASE AddDerivingWallet \/ \E w \in WalletIds : DeleteWallet(w)
  <2>1. UNCHANGED <<address, shown, restarts, worker, behind, addressFile>>
    BY <1>1 DEF AddDerivingWallet, DeleteWallet, walletFiles, walletHistory
  <2>2. RowsAdvance
    BY <2>1 DEF RowsAdvance, GivenAway
  <2>3. \A u \in Workers : Held(u)' => StillHeld(u)
    <3> SUFFICES ASSUME NEW u \in Workers, Held(u)' PROVE StillHeld(u)
      OBVIOUS
    <3>1. Held(u) /\ HeldOK(u)
      BY <1>s, <2>1 DEF Held
    <3> QED
      BY <2>1, <3>1 DEF StillHeld, HeldOK, Held
  <2> QED
    BY <1>q, <2>1, <2>3
<1>2. ASSUME NEW t \in Workers,
             (\E list \in (SUBSET Pool) \ {{}} : AddAddressList(t, list)) \/ LookUp(t)
             \/ \E i \in Bills, w \in WalletIds : BeginFinalizing(t, i, w)
      PROVE  Sharing'
  <2>1. UNCHANGED <<address, shown, restarts, behind, addressFile>>
    BY <1>2 DEF AddAddressList, LookUp, BeginFinalizing, walletFiles, walletHistory, walletTables
  <2>2. RowsAdvance
    BY <2>1 DEF RowsAdvance, GivenAway
  <2>3. Leave(t) \/ /\ worker'[t].pc \in {"look", "insert", "choose"}
                     /\ \A u \in Workers \ {t} : worker'[u] = worker[u]
    <3>1. CASE \E list \in (SUBSET Pool) \ {{}} : AddAddressList(t, list)
      BY <1>t, <3>1 DEF AddAddressList
    <3>2. CASE LookUp(t) /\ ~ Leave(t)
      BY <1>t, <3>2 DEF LookUp
    <3>3. CASE \E i \in Bills, w \in WalletIds : BeginFinalizing(t, i, w)
      BY <1>t, <3>3 DEF BeginFinalizing
    <3> QED
      BY <1>2, <3>1, <3>2, <3>3
  <2>4. \A u \in Workers : Held(u)' => StillHeld(u)
    <3>1. CASE Leave(t)
      BY <1>l, <2>2, <3>1
    <3>2. CASE ~ Leave(t)
      <4>1. ~ Held(t)'
        BY <2>3, <3>2 DEF Held
      <4> QED
        BY <1>o, <2>2, <2>3, <3>2, <4>1
    <3> QED
      BY <3>1, <3>2
  <2> QED
    BY <1>q, <2>1, <2>4
<1>3. ASSUME NEW f \in WalletFiles, SaveFile(f) PROVE Sharing'
  <2>1. UNCHANGED <<address, shown, restarts, worker>>
    BY <1>3 DEF SaveFile, Written, walletTables, walletHistory
  <2>2. UNCHANGED <<behind, addressFile>> \/ addressFile' = address
    BY <1>3 DEF SaveFile, Written
  <2>3. \A u \in Workers : Held(u)' => StillHeld(u)
    <3> SUFFICES ASSUME NEW u \in Workers, Held(u)' PROVE StillHeld(u)
      OBVIOUS
    <3>1. Held(u) /\ HeldOK(u)
      BY <1>s, <2>1 DEF Held
    <3> QED
      BY <2>1, <3>1 DEF StillHeld, HeldOK, Held
  <2> QED
    BY <1>q, <2>1, <2>2, <2>3
<1>4. ASSUME NEW t \in Workers, InsertListed(t) PROVE Sharing'
  <2> DEFINE a == worker[t].row[1]
             new == [status |-> "unused", wallet |-> worker[t].copy.id]
  <2>1. /\ a \in PayAddresses /\ ~ HasRow(address, a)
        /\ address' = [address EXCEPT ![First(a)] = new]
        /\ UNCHANGED <<behind, addressFile, shown, restarts>>
    <3>1. a \in Pool
      BY <1>4 DEF InsertListed, WalletTypeOK, WorkersOK
    <3> QED
      BY <1>4, <3>1, RowFacts DEF InsertListed, walletFiles
  <2>2. worker'[t].pc = "look" /\ \A u \in Workers \ {t} : worker'[u] = worker[u]
    BY <1>4, <1>t, <2>1 DEF InsertListed
  <2> HIDE DEF a, new
  <2>3. /\ \A b \in PayAddresses : address'[Second(b)] = address[Second(b)]
        /\ \A b \in PayAddresses \ {a} : address'[First(b)] = address[First(b)]
        /\ address[First(a)].status = "none"
    BY <1>t, <2>1, RowFacts DEF AddressTables, HasRow
  <2>4. RowsAdvance
    BY <2>3 DEF RowsAdvance, GivenAway
  <2>5. SecondsOK'
    BY <1>s, <2>3, SecondsKept
  <2>6. \A u \in Workers : Held(u)' => StillHeld(u)
    BY <1>o, <2>2, <2>4 DEF Held
  <2> QED
    BY <1>s, <2>1, <2>4, <2>5, <2>6, SharingKept
<1>5. ASSUME NEW t \in Workers, Derive(t), HasRow(address, Derived[worker[t].copy.next])
      PROVE  Sharing'
  <2> DEFINE a == Derived[worker[t].copy.next]
             new == [status |-> "unused", wallet |-> worker[t].copy.id]
  <2>1. /\ a \in PayAddresses /\ Busy(t) /\ worker[t].copy.kind = "xpub"
        /\ UNCHANGED <<behind, addressFile, shown, restarts>>
    BY <1>5, RowFacts DEF Derive, At, Busy, walletFiles, walletHistory
  <2>2. address' = [address EXCEPT ![Second(a)] = new] /\ Leave(t)
    BY <1>5 DEF Derive
  <2>3. new.status = "unused" /\ new.wallet = worker[t].copy.id
    OBVIOUS
  <2> HIDE DEF a, new
  <2>4. /\ \A b \in PayAddresses : address'[First(b)] = address[First(b)]
        /\ \A b \in PayAddresses \ {a} : address'[Second(b)] = address[Second(b)]
        /\ address'[Second(a)] = new
    BY <1>t, <2>1, <2>2, RowFacts DEF AddressTables
  <2>5. RowsAdvance
    BY <2>4 DEF RowsAdvance, GivenAway
  <2>6. SecondsOK'
    <3>1. ASSUME NEW b \in PayAddresses, b # a, address[Second(b)].status # "none"
          PROVE  (address[Second(b)].status = "unused")' /\ Hidden(address[Second(b)].wallet)'
      <4>1. PICK w : w = address[Second(b)].wallet
        OBVIOUS
      <4>2. address[Second(b)].status = "unused" /\ Hidden(w)
        BY <3>1, <4>1, <1>s DEF SecondsOK
      <4>3. Hidden(w)'
        BY <4>2, HiddenStays
      <4> QED
        BY <2>4, <3>1, <4>1, <4>2, <4>3
    <3>2. PICK c \in PayAddresses : c = a
      BY <2>1
    <3>3. (address[Second(c)].status = "unused")' /\ Hidden(address[Second(c)].wallet)'
      <4>1. PICK w : w = worker[t].copy.id
        OBVIOUS
      <4>2. Hidden(w)
        BY <1>k, <2>1, <4>1 DEF Hidden
      <4>3. Hidden(w)'
        BY <4>2, HiddenStays
      <4> QED
        BY <2>3, <2>4, <3>2, <4>1, <4>3
    <3>4. \A b \in PayAddresses :
            \/ address'[Second(b)].status = "none"
            \/ address'[Second(b)].status = "unused" /\ Hidden(address[Second(b)].wallet)'
      BY <2>4, <3>1, <3>2, <3>3
    <3> QED
      BY <3>4 DEF SecondsOK
  <2>7. \A u \in Workers : Held(u)' => StillHeld(u)
    BY <1>l, <2>2, <2>5
  <2> QED
    BY <1>s, <2>1, <2>5, <2>6, <2>7, SharingKept
<1>6. ASSUME NEW t \in Workers, Derive(t), ~ HasRow(address, Derived[worker[t].copy.next])
      PROVE  Sharing'
  <2> DEFINE a == Derived[worker[t].copy.next]
             new == [status |-> "unused", wallet |-> worker[t].copy.id]
  <2>1. /\ a \in PayAddresses /\ At(t, "choose") /\ worker[t].copy.kind = "xpub"
        /\ ~ HasRow(address, a) /\ address' = [address EXCEPT ![First(a)] = new]
        /\ Chosen(t, "bump", First(a))
        /\ UNCHANGED <<behind, addressFile, shown, restarts>>
    BY <1>6, RowFacts DEF Derive, walletFiles, walletHistory
  <2>2. new.status = "unused" /\ new.wallet = worker[t].copy.id
    OBVIOUS
  <2> HIDE DEF a, new
  <2>3. /\ worker'[t].pc = "bump" /\ worker'[t].row = First(a)
        /\ worker'[t].copy = worker[t].copy
        /\ \A u \in Workers \ {t} : worker'[u] = worker[u]
    BY <2>1, RowFacts, ChosenKept
  <2>4. /\ \A b \in PayAddresses : address'[Second(b)] = address[Second(b)]
        /\ \A b \in PayAddresses \ {a} : address'[First(b)] = address[First(b)]
        /\ address[First(a)].status = "none" /\ address'[First(a)] = new
    BY <1>t, <2>1, RowFacts DEF AddressTables, HasRow
  <2>5. RowsAdvance
    BY <2>4 DEF RowsAdvance, GivenAway
  <2>6. SecondsOK'
    BY <1>s, <2>4, SecondsKept
  <2>7. HeldOK(t)'
    <3>1. shown'[a] = {}
      BY <1>s, <2>1, <2>4 DEF ShownOK, GivenAway
    <3> QED
      BY <2>1, <2>2, <2>3, <2>4, <3>1, RowFacts DEF HeldOK
  <2>8. ASSUME NEW v \in Workers \ {t}, Held(v)'
        PROVE  StillHeld(v) /\ worker[v].row # worker'[t].row
    <3>1. StillHeld(v)
      BY <1>o, <2>3, <2>5, <2>8
    <3>2. HeldOK(v)
      BY <1>s, <3>1 DEF StillHeld
    <3>3. worker[v].row # First(a)
      BY <2>4, <3>2, RowFacts DEF HeldOK, GivenAway
    <3> QED
      BY <2>3, <3>1, <3>3
  <2> QED
    BY <1>s, <2>1, <2>5, <2>6, <2>7, <2>8, SharingKept
<1>7. ASSUME NEW t \in Workers, SaveIndex(t) PROVE Sharing'
  <2>1. /\ Held(t) /\ worker[t].row \in RowIds /\ Chosen(t, "assign", worker[t].row)
        /\ UNCHANGED <<address, behind, addressFile, shown, restarts>>
    BY <1>7, <1>t DEF SaveIndex, At, Held, walletFiles, walletHistory
  <2>2. /\ worker'[t].pc = "assign" /\ worker'[t].row = worker[t].row
        /\ worker'[t].copy = worker[t].copy
        /\ \A u \in Workers \ {t} : worker'[u] = worker[u]
    BY <2>1, ChosenKept
  <2>3. RowsAdvance
    BY <2>1 DEF RowsAdvance, GivenAway
  <2>4. StillHeld(t)
    BY <2>1, <2>2 DEF StillHeld
  <2>5. \A u \in Workers : Held(u)' => StillHeld(u)
    BY <1>o, <2>2, <2>3, <2>4
  <2> QED
    BY <1>q, <2>1, <2>5
<1>8. ASSUME NEW t \in Workers, TakeFromPool(t) PROVE Sharing'
  <2>0. /\ At(t, "choose") /\ Busy(t) /\ worker[t].copy.kind = "address_list"
        /\ UNCHANGED <<behind, addressFile, shown, restarts>>
    BY <1>8 DEF TakeFromPool, At, Busy, walletFiles, walletHistory
  <2> DEFINE w == worker[t].copy.id
             new == [status |-> "reserved", wallet |-> w]
  <2>1. CASE Unused(w) = {}
    <3>1. Leave(t) /\ UNCHANGED address
      BY <1>8, <2>1 DEF TakeFromPool
    <3>2. RowsAdvance
      BY <3>1 DEF RowsAdvance, GivenAway
    <3> QED
      BY <1>l, <1>q, <2>0, <3>1, <3>2
  <2>2. CASE Unused(w) # {}
    <3>1. PICK r \in Unused(w) : /\ address' = [address EXCEPT ![r] = new]
                                 /\ Chosen(t, "assign", r)
      BY <1>8, <2>2 DEF TakeFromPool
    <3>2. r \in RowIds /\ address[r].status = "unused" /\ address[r].wallet = w
      BY <3>1 DEF Unused
    <3>3. IsOf(w, "address_list") /\ ~ IsOf(w, "xpub")
      BY <1>k, <2>0
    <3>4. new.status = "reserved"
      OBVIOUS
    <3> HIDE DEF w, new
    <3>5. PICK a \in PayAddresses : r = First(a)
      <4>1. r[1] \in PayAddresses /\ (r = First(r[1]) \/ r = Second(r[1]))
        BY <3>2, RowFacts
      <4>2. r # Second(r[1])
        BY <1>s, <3>2, <3>3, <4>1 DEF SecondsOK, Hidden
      <4> QED
        BY <4>1, <4>2
    <3>6. /\ worker'[t].pc = "assign" /\ worker'[t].row = First(a)
          /\ \A u \in Workers \ {t} : worker'[u] = worker[u]
      BY <2>0, <3>1, <3>2, <3>5, ChosenKept
    <3>7. /\ \A b \in PayAddresses : address'[Second(b)] = address[Second(b)]
          /\ \A b \in PayAddresses \ {a} : address'[First(b)] = address[First(b)]
          /\ address'[First(a)] = new
      BY <1>t, <3>1, <3>5, RowFacts DEF AddressTables
    <3>8. RowsAdvance
      BY <3>2, <3>4, <3>5, <3>7 DEF RowsAdvance, GivenAway
    <3>9. SecondsOK'
      BY <1>s, <3>7, SecondsKept
    <3>10. HeldOK(t)'
      <4>1. shown'[a] = {}
        BY <1>s, <2>0, <3>2, <3>5 DEF ShownOK, GivenAway
      <4> QED
        BY <3>4, <3>6, <3>7, <4>1, RowFacts DEF HeldOK, GivenAway
    <3>11. ASSUME NEW v \in Workers \ {t}, Held(v)'
           PROVE  StillHeld(v) /\ worker[v].row # worker'[t].row
      <4>1. StillHeld(v)
        BY <1>o, <3>6, <3>8, <3>11
      <4>2. HeldOK(v) /\ Busy(v) /\ Held(v)
        BY <1>s, <4>1 DEF StillHeld, Held, Busy
      <4>3. worker[v].row # First(a)
        <5> SUFFICES ASSUME worker[v].row = First(a) PROVE FALSE
          OBVIOUS
        <5>1. worker[v].copy.kind = "xpub" /\ worker[v].copy.id = w
          BY <3>2, <3>5, <4>2, RowFacts DEF HeldOK, GivenAway
        <5> QED
          BY <1>k, <3>3, <4>2, <5>1
      <4> QED
        BY <3>6, <4>1, <4>3
    <3> QED
      BY <1>s, <2>0, <3>8, <3>9, <3>10, <3>11, SharingKept
  <2> QED
    BY <2>1, <2>2
<1>9. ASSUME NEW t \in Workers, MarkAssigned(t) PROVE Sharing'
  <2> DEFINE new == [status |-> "assigned", wallet |-> worker[t].copy.id]
  <2>1. /\ Held(t) /\ worker[t].row \in RowIds /\ Chosen(t, "save", worker[t].row)
        /\ address' = [address EXCEPT ![worker[t].row] = new]
        /\ UNCHANGED <<behind, addressFile, shown, restarts>>
    BY <1>9, <1>t DEF MarkAssigned, At, Held, walletFiles, walletHistory
  <2>2. new.status = "assigned"
    OBVIOUS
  <2> HIDE DEF new
  <2>3. PICK a \in PayAddresses : worker[t].row = First(a) /\ worker[t].row[1] = a
    BY <1>s, <2>1, RowFacts DEF HeldOK
  <2>4. /\ worker'[t].pc = "save" /\ worker'[t].row = worker[t].row
        /\ worker'[t].copy = worker[t].copy
        /\ \A u \in Workers \ {t} : worker'[u] = worker[u]
    BY <2>1, ChosenKept
  <2>5. /\ \A b \in PayAddresses : address'[Second(b)] = address[Second(b)]
        /\ \A b \in PayAddresses \ {a} : address'[First(b)] = address[First(b)]
        /\ address'[First(a)] = new
    BY <1>t, <2>1, <2>3, RowFacts DEF AddressTables
  <2>6. RowsAdvance
    BY <2>2, <2>5 DEF RowsAdvance, GivenAway
  <2>7. SecondsOK'
    BY <1>s, <2>5, SecondsKept
  <2>8. StillHeld(t)
    BY <2>1, <2>2, <2>3, <2>4, <2>5 DEF StillHeld, GivenAway
  <2>9. \A u \in Workers : Held(u)' => StillHeld(u)
    BY <1>o, <2>4, <2>6, <2>8
  <2> QED
    BY <1>s, <2>1, <2>6, <2>7, <2>9, SharingKept
<1>10. ASSUME NEW t \in Workers, SaveBill(t) PROVE Sharing'
  <2>1. /\ Held(t) /\ worker[t].row \in RowIds /\ worker[t].pc = "save"
        /\ Leave(t) \/ Chosen(t, "flush", worker[t].row)
        /\ UNCHANGED <<address, behind, addressFile, shown, restarts>>
    BY <1>10, <1>t DEF SaveBill, At, Held, walletFiles, walletHistory
  <2>2. RowsAdvance
    BY <2>1 DEF RowsAdvance, GivenAway
  <2>3. CASE Leave(t)
    BY <1>l, <1>q, <2>1, <2>2, <2>3
  <2>4. CASE Chosen(t, "flush", worker[t].row)
    <3>1. /\ worker'[t].row = worker[t].row /\ worker'[t].copy = worker[t].copy
          /\ \A u \in Workers \ {t} : worker'[u] = worker[u]
      BY <2>1, <2>4, ChosenKept
    <3>2. GivenAway(address, worker[t].row[1])
      BY <1>s, <2>1 DEF HeldOK
    <3>3. StillHeld(t)
      BY <2>1, <3>1, <3>2 DEF StillHeld
    <3>4. \A u \in Workers : Held(u)' => StillHeld(u)
      BY <1>o, <2>2, <3>1, <3>3
    <3> QED
      BY <1>q, <2>1, <3>4
  <2> QED
    BY <2>1, <2>3, <2>4
<1>11. ASSUME NEW t \in Workers, FlushAndAnswer(t) PROVE Sharing'
  <2> DEFINE a == worker[t].row[1]
  <2>1. /\ Held(t) /\ worker[t].pc = "flush" /\ a \in PayAddresses
        /\ worker[t].row = First(a) /\ shown[a] = {} /\ GivenAway(address, a)
    <3>1. Held(t) /\ worker[t].pc = "flush" /\ worker[t].row \in RowIds
      BY <1>11, <1>t DEF FlushAndAnswer, At, Held
    <3> QED
      BY <1>s, <3>1, RowFacts DEF HeldOK
  <2>2. /\ UNCHANGED <<address, restarts>> /\ Leave(t)
        /\ shown' = [shown EXCEPT ![a] = shown[a] \cup {worker[t].bill}]
    BY <1>11 DEF FlushAndAnswer, Written, walletTables
  <2>3. restarts < MaxRestarts /\ ~ behind' => addressFile' = address
    BY <1>11 DEF FlushAndAnswer, Written
  <2>4. restarts < MaxRestarts => behind' \/ addressFile' = address
    BY <2>3
  <2> HIDE DEF a
  <2>5. /\ shown'[a] = {worker[t].bill}
        /\ \A b \in PayAddresses \ {a} : shown'[b] = shown[b]
    BY <2>1, <2>2 DEF WalletTypeOK
  <2>6. RowsAdvance
    BY <2>2 DEF RowsAdvance, GivenAway
  <2>7. ASSUME NEW u \in Workers, Held(u)'
        PROVE  StillHeld(u) /\ u # t /\ worker'[u] = worker[u]
    BY <1>l, <1>t, <2>2, <2>6, <2>7 DEF Leave, IdleWorker, Held
  <2>8. SecondsOK'
    BY <1>s, <2>2, SecondsKept
  <2>9. HeldByOne'
    BY <1>s, <2>7 DEF HeldByOne, StillHeld
  <2>10. ASSUME NEW u \in Workers, Held(u)' PROVE HeldOK(u)'
    <3>1. Held(u) /\ HeldOK(u) /\ worker[u].row # First(a) /\ worker'[u] = worker[u]
      BY <1>s, <2>1, <2>7, <2>10 DEF HeldByOne, StillHeld
    <3>2. worker[u].row[1] \in PayAddresses /\ worker[u].row[1] # a
      BY <1>t, <3>1, RowFacts DEF HeldOK
    <3>3. shown'[worker[u].row[1]] = shown[worker[u].row[1]]
      BY <2>5, <3>2
    <3> QED
      BY <2>2, <3>1, <3>3 DEF HeldOK, GivenAway
  <2>11. ShownOK'
    <3> SUFFICES ASSUME NEW b \in PayAddresses, shown'[b] # {}
                 PROVE  /\ GivenAway(address, b)
                        /\ restarts < MaxRestarts /\ ~ behind' => GivenAway(addressFile', b)
      BY <2>2 DEF ShownOK, GivenAway
    <3>1. GivenAway(address, b)
      BY <1>s, <2>1, <2>5 DEF ShownOK
    <3> QED
      BY <2>3, <3>1
  <2>12. ShownToOne'
    BY <1>s, <2>5 DEF ShownToOne
  <2> QED
    BY <2>8, <2>9, <2>10, <2>11, <2>12 DEF Sharing
<1>12. ASSUME NEW i \in Bills, CancelBill(i) PROVE Sharing'
  <2> DEFINE r == bill[i].row
             new == [status |-> "released", wallet |-> address[r].wallet]
  <2>1. /\ UNCHANGED <<behind, addressFile, shown, restarts, worker>>
        /\ r \in RowIds \cup {NoAddress}
    BY <1>12 DEF CancelBill, walletFiles, walletHistory, WalletTypeOK, BillRows
  <2>2. CASE address' = address
    <3>1. RowsAdvance
      BY <2>2 DEF RowsAdvance, GivenAway
    <3>2. \A u \in Workers : Held(u)' => StillHeld(u)
      <4> SUFFICES ASSUME NEW u \in Workers, Held(u)' PROVE StillHeld(u)
        OBVIOUS
      <4>1. Held(u) /\ HeldOK(u)
        BY <1>s, <2>1 DEF Held
      <4> QED
        BY <2>1, <2>2, <4>1 DEF StillHeld, HeldOK, Held
    <3> QED
      BY <1>q, <2>1, <2>2, <3>2
  <2>3. CASE address' # address
    <3>1. /\ r # NoAddress /\ address[r].status = "assigned"
          /\ address' = [address EXCEPT ![r] = new]
      BY <1>12, <2>3 DEF CancelBill
    <3>2. new.status = "released"
      OBVIOUS
    <3> HIDE DEF r, new
    <3>3. PICK a \in PayAddresses : r = First(a)
      <4>1. r[1] \in PayAddresses /\ (r = First(r[1]) \/ r = Second(r[1]))
        BY <2>1, <3>1, RowFacts
      <4>2. r # Second(r[1])
        BY <1>s, <3>1, <4>1 DEF SecondsOK
      <4> QED
        BY <4>1, <4>2
    <3>4. /\ \A b \in PayAddresses : address'[Second(b)] = address[Second(b)]
          /\ \A b \in PayAddresses \ {a} : address'[First(b)] = address[First(b)]
          /\ address'[First(a)] = new
      BY <1>t, <3>1, <3>3, RowFacts DEF AddressTables
    <3>5. RowsAdvance
      BY <3>1, <3>2, <3>3, <3>4 DEF RowsAdvance, GivenAway
    <3>6. SecondsOK'
      BY <1>s, <3>4, SecondsKept
    <3>7. \A u \in Workers : Held(u)' => StillHeld(u)
      <4> SUFFICES ASSUME NEW u \in Workers, Held(u)' PROVE StillHeld(u)
        OBVIOUS
      <4>1. Held(u) /\ HeldOK(u) /\ worker[u].row[1] \in PayAddresses
        BY <1>s, <1>t, <2>1, RowFacts DEF Held
      <4> QED
        BY <2>1, <3>5, <4>1 DEF StillHeld, HeldOK, Held, RowsAdvance
    <3> QED
      BY <1>s, <2>1, <3>5, <3>6, <3>7, SharingKept
  <2> QED
    BY <2>2, <2>3
<1> QED
  BY <1>1, <1>2, <1>3, <1>4, <1>5, <1>6, <1>7, <1>8, <1>9, <1>10, <1>11, <1>12
     DEF WalletNext, ImportStep, FinalizeStep

LEMMA CrashStep ==
    ASSUME WalletTypeOK, KindsOK, Sharing, CrashWallets
    PROVE  KindsOK' /\ Sharing'
<1>1. /\ \A t \in Workers : worker'[t].pc = "idle"
      /\ wallets' = walletFile.rows /\ nextWallet' = walletFile.next
      /\ UNCHANGED <<walletFile, addressFile, behind, shown>>
  BY DEF CrashWallets, IdleWorker, walletFiles
<1>2. KindsOK'
  BY <1>1 DEF KindsOK, IdsOK, IsOf, Busy
<1>3. ASSUME ~ rowsLost' PROVE Sharing'
  <2>1. ~ rowsLost /\ ~ behind /\ ~ HasRefused(addressFile) /\ restarts < MaxRestarts
    BY <1>3 DEF CrashWallets
  <2>2. address' = addressFile
    BY <2>1 DEF CrashWallets, Loads
  <2>3. SecondsOK' /\ HeldByOne' /\ \A t \in Workers : ~ Held(t)'
    BY <1>1, <2>1, <2>2 DEF SecondsOK, HasRefused, HeldByOne, Held
  <2>4. ShownOK' /\ ShownToOne'
    BY <1>1, <2>1, <2>2 DEF Sharing, ShownOK, ShownToOne, GivenAway
  <2> QED
    BY <2>3, <2>4 DEF Sharing
<1> QED
  BY <1>2, <1>3 DEF Sharing

-------------------------------------------------------------------------------
(* Where the next index is. *)

IsKey(w) == w # NoWallet /\ w.kind = "xpub"
Uses(t) == At(t, "choose") \/ At(t, "bump")

NoKeyYet ==
    /\ \A w \in WalletIds : ~ IsKey(wallets[w]) /\ ~ IsKey(walletFile.rows[w])
    /\ \A t \in Workers : Uses(t) => worker[t].copy.kind # "xpub"
    /\ \A n \in Indexes : ~ HasRow(address, Derived[n]) /\ ~ HasRow(addressFile, Derived[n])

\* One wallet has the extended key, in its row, in the file and in the copies.
OneKey(k) ==
    /\ \A w \in WalletIds : IsKey(wallets[w]) \/ IsKey(walletFile.rows[w]) => w = k
    /\ \A t \in Workers : Uses(t) /\ worker[t].copy.kind = "xpub" => worker[t].copy.id = k

\* From the first index that no row follows, those back to a copy's are taken:
\* a stale copy is refused.
Filled(c, f) ==
    c <= f /\ \A n \in Indexes : c <= n /\ n < f => HasRow(address, Derived[n])

Frontier(f) ==
    /\ \A n \in Indexes : n >= f => ~ HasRow(address, Derived[n])
    /\ \A w \in WalletIds : IsKey(wallets[w]) =>
          Filled(wallets[w].next, f) /\ (LockIsFree => wallets[w].next = f)
    /\ \A t \in Workers : At(t, "choose") /\ worker[t].copy.kind = "xpub" =>
          Filled(worker[t].copy.next, f)
    /\ \A t \in Workers : At(t, "bump") =>
          worker[t].copy.kind = "xpub" /\ worker[t].copy.next + 1 = f

IndexOK ==
    ~ rowsLost /\ ~ indexLost =>
        /\ ~ keyAdded => NoKeyYet
        /\ \E k, f \in Nat : OneKey(k) /\ Frontier(f)

LEMMA IndexInitially == WalletInit => IndexOK
<1> SUFFICES ASSUME WalletInit PROVE IndexOK
  OBVIOUS
<1>1. /\ \A w \in WalletIds : wallets[w] = NoWallet /\ walletFile.rows[w] = NoWallet
      /\ \A t \in Workers : worker[t].pc = "idle"
  BY DEF WalletInit, IdleWorker
<1>2. \A n \in Indexes : ~ HasRow(address, Derived[n]) /\ ~ HasRow(addressFile, Derived[n])
  BY RowFacts DEF WalletInit, HasRow, NoRowYet
<1>3. NoKeyYet /\ OneKey(0) /\ Frontier(0)
  BY <1>1, <1>2 DEF NoKeyYet, OneKey, Frontier, IsKey, Uses, At
<1> QED
  BY <1>3 DEF IndexOK

\* Steps that add no row of the key, no wallet with it and save no index.
LEMMA IndexKept ==
    ASSUME WalletTypeOK, KindsOK, IndexOK, ~ rowsLost, ~ indexLost, UNCHANGED keyAdded,
           \A n \in Indexes : HasRow(address', Derived[n]) = HasRow(address, Derived[n]),
           addressFile' \in {addressFile, address},
           walletFile'.rows \in {walletFile.rows, wallets},
           \A w \in WalletIds : wallets'[w] = wallets[w] \/ ~ IsKey(wallets'[w]),
           \A t \in Workers : At(t, "bump") => At(t, "bump")',
           \A t \in Workers : Uses(t)' =>
              \/ worker'[t] = worker[t]
              \/ /\ At(t, "choose")'
                 /\ \E w \in WalletIds : wallets[w] # NoWallet /\ worker'[t].copy = wallets[w]
    PROVE  IndexOK'
<1>1. PICK k \in Nat, f \in Nat : OneKey(k) /\ Frontier(f)
  BY DEF IndexOK
<1>2. \A w \in WalletIds : wallets[w] # NoWallet => wallets[w].id = w
  BY DEF KindsOK, IdsOK
<1>3. ~ keyAdded => NoKeyYet'
  <2> SUFFICES ASSUME NoKeyYet PROVE NoKeyYet'
    BY DEF IndexOK
  <2>1. \A w \in WalletIds : ~ IsKey(wallets'[w]) /\ ~ IsKey(walletFile'.rows[w])
    BY DEF NoKeyYet
  <2>2. \A t \in Workers : Uses(t)' => worker'[t].copy.kind # "xpub"
    BY DEF NoKeyYet, IsKey, Uses, At
  <2>3. \A n \in Indexes : ~ HasRow(address', Derived[n]) /\ ~ HasRow(addressFile', Derived[n])
    BY DEF NoKeyYet
  <2> QED
    BY <2>1, <2>2, <2>3 DEF NoKeyYet, HasRow
<1>4. OneKey(k)'
  <2>1. \A w \in WalletIds : IsKey(wallets'[w]) \/ IsKey(walletFile'.rows[w]) => w = k
    BY <1>1 DEF OneKey
  <2>2. \A t \in Workers : Uses(t)' /\ worker'[t].copy.kind = "xpub" => worker'[t].copy.id = k
    BY <1>1, <1>2 DEF OneKey, IsKey, Uses, At
  <2> QED
    BY <2>1, <2>2 DEF OneKey, IsKey
<1>5. Frontier(f)'
  <2>1. \A c : Filled(c, f) => Filled(c, f)'
    BY DEF Filled, HasRow
  <2>2. LockIsFree' => LockIsFree
    BY DEF LockIsFree
  <2>3. \A w \in WalletIds : IsKey(wallets'[w]) =>
            Filled(wallets[w].next, f)' /\ (LockIsFree' => wallets'[w].next = f)
    BY <1>1, <2>1, <2>2 DEF Frontier
  <2>4. \A t \in Workers : At(t, "choose")' /\ worker'[t].copy.kind = "xpub" =>
            Filled(worker[t].copy.next, f)'
    <3> SUFFICES ASSUME NEW t \in Workers, At(t, "choose")', worker'[t].copy.kind = "xpub"
                 PROVE  Filled(worker[t].copy.next, f)'
      OBVIOUS
    <3>1. PICK c : c = worker'[t].copy.next
      OBVIOUS
    <3>2. Filled(c, f)
      BY <1>1, <3>1 DEF Frontier, IsKey, Uses, At
    <3> QED
      BY <2>1, <3>1, <3>2
  <2>5. \A t \in Workers : At(t, "bump")' => worker'[t] = worker[t] /\ At(t, "bump")
    BY DEF Uses, At
  <2>6. \A n \in Indexes : n >= f => ~ HasRow(address', Derived[n])
    BY <1>1 DEF Frontier
  <2> QED
    BY <1>1, <2>3, <2>4, <2>5, <2>6 DEF Frontier, IsKey, HasRow
<1> QED
  BY <1>3, <1>4, <1>5 DEF IndexOK

\* Writing over a row does not add one, and another address's row is not one of
\* the key's.
LEMMA KeyRowsKept ==
    ASSUME WalletTypeOK, NEW r \in RowIds, NEW new,
           address' = [address EXCEPT ![r] = new],
           \/ address[r].status # "none" /\ new.status # "none"
           \/ r[1] \in Pool
           \/ \E a \in PayAddresses : r = Second(a)
    PROVE  \A n \in Indexes : HasRow(address', Derived[n]) = HasRow(address, Derived[n])
<1> SUFFICES ASSUME NEW n \in Indexes
             PROVE  HasRow(address', Derived[n]) = HasRow(address, Derived[n])
  OBVIOUS
<1>1. /\ First(Derived[n]) \in RowIds /\ First(Derived[n])[1] \notin Pool
      /\ \A a \in PayAddresses : First(Derived[n]) # Second(a)
  BY RowFacts
<1>2. address \in [RowIds -> Rows]
  BY DEF WalletTypeOK, AddressTables
<1>3. CASE r = First(Derived[n])
  <2>1. address[r].status # "none" /\ new.status # "none"
    BY <1>1, <1>3
  <2> QED
    BY <1>2, <1>3, <2>1 DEF HasRow
<1>4. CASE r # First(Derived[n])
  BY <1>1, <1>2, <1>4 DEF HasRow
<1> QED
  BY <1>3, <1>4

LEMMA IndexStep ==
    ASSUME WalletTypeOK, KindsOK, Sharing, IndexOK, WalletNext, ~ CrashWallets,
           ~ rowsLost', ~ indexLost'
    PROVE  IndexOK'
<1>n. ~ rowsLost /\ ~ indexLost
  <2>1. ~ rowsLost
    BY DEF WalletNext, AddDerivingWallet, DeleteWallet, AddAddressList, ImportStep, LookUp,
           InsertListed, FinalizeStep, Derive, SaveIndex, TakeFromPool, MarkAssigned, SaveBill,
           FlushAndAnswer, BeginFinalizing, CancelBill, SaveFile, walletHistory
  <2>2. ~ indexLost
    BY DEF WalletNext, AddDerivingWallet, DeleteWallet, AddAddressList, ImportStep, LookUp,
           InsertListed, FinalizeStep, Derive, SaveIndex, TakeFromPool, MarkAssigned, SaveBill,
           FlushAndAnswer, BeginFinalizing, CancelBill, SaveFile, walletHistory
  <2> QED
    BY <2>1, <2>2
<1>s. \A t \in Workers : Held(t) => HeldOK(t)
  BY <1>n DEF Sharing
<1>t. /\ worker \in [Workers -> Places] /\ address \in AddressTables
      /\ wallets \in WalletTables /\ nextWallet \in Nat
      /\ \A t \in Workers : Busy(t) => worker[t].copy \in Copies
      /\ \A t \in Workers : Held(t) => worker[t].row \in RowIds
      /\ \A t \in Workers : At(t, "insert") => worker[t].row[1] \in Pool
  BY DEF WalletTypeOK, WorkersOK
<1>1. ASSUME AddDerivingWallet PROVE IndexOK'
  <2>1. /\ ~ keyAdded /\ keyAdded' /\ nextWallet \in WalletIds
        /\ wallets' = [wallets EXCEPT ![nextWallet] =
                            [id |-> nextWallet, kind |-> "xpub", next |-> 0]]
        /\ UNCHANGED <<address, worker, walletFile>>
    BY <1>1 DEF AddDerivingWallet, walletFiles
  <2>2. NoKeyYet
    BY <1>n, <2>1 DEF IndexOK
  <2>3. /\ wallets'[nextWallet] = [id |-> nextWallet, kind |-> "xpub", next |-> 0]
        /\ \A w \in WalletIds \ {nextWallet} : ~ IsKey(wallets'[w])
    BY <1>t, <2>1, <2>2 DEF WalletTables, NoKeyYet
  <2>4. PICK k \in Nat : k = nextWallet
    BY <1>t
  <2>5. OneKey(k)'
    BY <2>1, <2>2, <2>3, <2>4 DEF OneKey, NoKeyYet, Uses, At, IsKey
  <2>6. Frontier(0)'
    <3>1. \A n \in Indexes : ~ HasRow(address', Derived[n])
      BY <2>1, <2>2 DEF NoKeyYet
    <3>2. \A w \in WalletIds : IsKey(wallets'[w]) => wallets'[w].next = 0
      BY <2>3
    <3>3. \A t \in Workers : Uses(t)' => worker'[t].copy.kind # "xpub"
      BY <2>1, <2>2 DEF NoKeyYet, Uses, At
    <3>4. \A t \in Workers : ~ At(t, "bump")'
      BY <1>n, <2>1, <2>2 DEF IndexOK, Frontier, NoKeyYet, Uses, At
    <3>5. \A n \in Indexes : n \in Int /\ n >= 0
      BY AddressAssumption, FS_CardinalityType
    <3> QED
      BY <3>1, <3>2, <3>3, <3>4, <3>5 DEF Frontier, Filled, Uses, IsKey, HasRow
  <2> QED
    BY <2>1, <2>5, <2>6 DEF IndexOK
<1>2. ASSUME NEW w \in WalletIds, DeleteWallet(w) PROVE IndexOK'
  <2>1. /\ wallets' = [wallets EXCEPT ![w] = NoWallet]
        /\ UNCHANGED <<address, addressFile, walletFile, worker, keyAdded>>
    BY <1>2 DEF DeleteWallet, walletFiles, walletHistory
  <2>2. \A v \in WalletIds : wallets'[v] = wallets[v] \/ ~ IsKey(wallets'[v])
    BY <1>t, <2>1 DEF WalletTables, IsKey
  <2> QED
    BY <1>n, <2>1, <2>2, IndexKept DEF At, Uses
<1>3. ASSUME NEW t \in Workers, NEW list \in SUBSET Pool, AddAddressList(t, list) PROVE IndexOK'
  <2> DEFINE new == [id |-> nextWallet, kind |-> "address_list", next |-> 0]
  <2>1. /\ wallets' = [wallets EXCEPT ![nextWallet] = new] /\ nextWallet \in WalletIds
        /\ UNCHANGED <<address, addressFile, walletFile, keyAdded>>
        /\ ~ Uses(t) /\ worker'[t].pc = "look"
        /\ \A u \in Workers \ {t} : worker'[u] = worker[u]
    BY <1>3, <1>t DEF AddAddressList, walletFiles, walletHistory, At, Uses
  <2>2. \A v \in WalletIds : wallets'[v] = wallets[v] \/ ~ IsKey(wallets'[v])
    BY <1>t, <2>1 DEF WalletTables, IsKey
  <2> QED
    BY <1>n, <2>1, <2>2, IndexKept DEF At, Uses
<1>4. ASSUME NEW t \in Workers, LookUp(t) PROVE IndexOK'
  <2>1. /\ UNCHANGED <<wallets, address, addressFile, walletFile, keyAdded>>
        /\ ~ At(t, "bump") /\ worker'[t].pc \in {"idle", "look", "insert"}
        /\ \A u \in Workers \ {t} : worker'[u] = worker[u]
    BY <1>4, <1>t DEF LookUp, Leave, IdleWorker, walletTables, walletFiles, walletHistory, At
  <2> QED
    BY <1>n, <2>1, IndexKept DEF At, Uses
<1>5. ASSUME NEW t \in Workers, InsertListed(t) PROVE IndexOK'
  <2> DEFINE a == worker[t].row[1]
             new == [status |-> "unused", wallet |-> worker[t].copy.id]
  <2>1. /\ UNCHANGED <<wallets, addressFile, walletFile, keyAdded>>
        /\ ~ At(t, "bump") /\ worker'[t].pc \in {"idle", "look"}
        /\ \A u \in Workers \ {t} : worker'[u] = worker[u]
    BY <1>5, <1>t DEF InsertListed, Leave, IdleWorker, walletFiles, At
  <2>2. a \in Pool /\ a \in PayAddresses
    BY <1>5, <1>t, RowFacts DEF InsertListed
  <2>3. PICK r \in RowIds : /\ address' = [address EXCEPT ![r] = new] /\ r[1] = a
    BY <1>5, <2>2, RowFacts DEF InsertListed
  <2> HIDE DEF a, new
  <2>4. \A n \in Indexes : HasRow(address', Derived[n]) = HasRow(address, Derived[n])
    BY <2>2, <2>3, KeyRowsKept
  <2> QED
    BY <1>n, <2>1, <2>4, IndexKept DEF At, Uses
<1>6. ASSUME NEW t \in Workers, NEW i \in Bills, NEW w \in WalletIds, BeginFinalizing(t, i, w)
      PROVE  IndexOK'
  <2>1. /\ UNCHANGED <<wallets, address, addressFile, walletFile, keyAdded>>
        /\ ~ At(t, "bump") /\ At(t, "choose")' /\ worker'[t].copy = wallets[w]
        /\ wallets[w] # NoWallet
        /\ \A u \in Workers \ {t} : worker'[u] = worker[u]
    BY <1>6, <1>t DEF BeginFinalizing, walletTables, walletFiles, walletHistory, At
  <2> QED
    BY <1>n, <2>1, IndexKept DEF At, Uses
<1>7. ASSUME NEW t \in Workers, Derive(t), HasRow(address, Derived[worker[t].copy.next])
      PROVE  IndexOK'
  <2> DEFINE a == Derived[worker[t].copy.next]
             new == [status |-> "unused", wallet |-> worker[t].copy.id]
  <2>1. /\ UNCHANGED <<wallets, addressFile, walletFile, keyAdded>>
        /\ address' = [address EXCEPT ![Second(a)] = new]
        /\ a \in PayAddresses
        /\ At(t, "choose") /\ worker'[t].pc = "idle"
        /\ \A u \in Workers \ {t} : worker'[u] = worker[u]
    BY <1>7, <1>t, RowFacts DEF Derive, Leave, IdleWorker, walletFiles, walletHistory
  <2> HIDE DEF a, new
  <2>2. PICK r \in RowIds : r = Second(a)
    BY <2>1, RowFacts
  <2>3. \A n \in Indexes : HasRow(address', Derived[n]) = HasRow(address, Derived[n])
    BY <2>1, <2>2, KeyRowsKept
  <2> QED
    BY <1>n, <2>1, <2>3, IndexKept DEF At, Uses
<1>8. ASSUME NEW t \in Workers, Derive(t), ~ HasRow(address, Derived[worker[t].copy.next])
      PROVE  IndexOK'
  <2> DEFINE c == worker[t].copy.next
             new == [status |-> "unused", wallet |-> worker[t].copy.id]
  <2>1. /\ UNCHANGED <<wallets, addressFile, walletFile, keyAdded>>
        /\ address' = [address EXCEPT ![First(Derived[c])] = new]
        /\ c \in Indexes /\ At(t, "choose") /\ worker[t].copy.kind = "xpub" /\ LockIsFree
        /\ Chosen(t, "bump", First(Derived[c]))
    BY <1>8 DEF Derive, walletFiles, walletHistory
  <2>2. /\ worker'[t].pc = "bump" /\ worker'[t].copy = worker[t].copy
        /\ \A u \in Workers \ {t} : worker'[u] = worker[u]
    BY <2>1, RowFacts, ChosenKept
  <2>3. PICK k \in Nat, f \in Nat : OneKey(k) /\ Frontier(f)
    BY <1>n DEF IndexOK
  <2>4. \A n \in Indexes : n \in Nat
    BY AddressAssumption, FS_CardinalityType
  <2>5. c = f
    <3>1. Filled(c, f) /\ ~ HasRow(address, Derived[c])
      BY <1>8, <2>1, <2>3 DEF Frontier
    <3> QED
      BY <2>1, <2>4, <3>1 DEF Filled
  <2>6. keyAdded
    BY <1>n, <2>1 DEF IndexOK, NoKeyYet, Uses
  <2>7. /\ \A n \in Indexes \ {c} : HasRow(address', Derived[n]) = HasRow(address, Derived[n])
        /\ HasRow(address', Derived[c])
    <3>1. new.status # "none"
      OBVIOUS
    <3> HIDE DEF new, c
    <3>2. \A n \in Indexes \ {c} : First(Derived[n]) # First(Derived[c])
      BY <2>1, RowFacts, AddressAssumption
    <3> QED
      BY <1>t, <2>1, <3>1, <3>2, RowFacts DEF HasRow, AddressTables
  <2> HIDE DEF c, new
  <2>8. OneKey(k)'
    <3>1. \A u \in Workers : Uses(u)' => Uses(u) /\ worker'[u].copy = worker[u].copy
      BY <2>1, <2>2 DEF Uses, At
    <3> QED
      BY <2>1, <2>3, <3>1 DEF OneKey, IsKey
  <2>9. Frontier(f + 1)'
    <3>1. \A n \in Indexes : n >= f + 1 => ~ HasRow(address', Derived[n])
      BY <2>3, <2>4, <2>5, <2>7 DEF Frontier
    <3>2. ASSUME NEW d, d \in Nat, Filled(d, f)
          PROVE  Filled(d, f + 1)'
      <4>1. d <= f + 1
        BY <3>2 DEF Filled
      <4>2. \A n \in Indexes : d <= n /\ n < f + 1 => HasRow(address', Derived[n])
        BY <2>4, <2>5, <2>7, <3>2 DEF Filled
      <4> QED
        BY <4>1, <4>2 DEF Filled, HasRow
    <3>3. ~ LockIsFree'
      BY <2>2 DEF LockIsFree, At
    <3>4. \A w \in WalletIds : IsKey(wallets'[w]) => Filled(wallets[w].next, f + 1)'
      <4> SUFFICES ASSUME NEW w \in WalletIds, IsKey(wallets[w])
                   PROVE  Filled(wallets[w].next, f + 1)'
        BY <2>1
      <4>1. wallets[w].next \in Nat /\ Filled(wallets[w].next, f)
        BY <1>t, <2>3 DEF WalletTables, Copies, IsKey, Frontier
      <4>2. PICK d : d = wallets[w].next
        OBVIOUS
      <4> QED
        BY <2>1, <3>2, <4>1, <4>2
    <3>5. \A u \in Workers : At(u, "choose")' /\ worker'[u].copy.kind = "xpub" =>
              Filled(worker[u].copy.next, f + 1)'
      <4> SUFFICES ASSUME NEW u \in Workers, At(u, "choose")', worker'[u].copy.kind = "xpub"
                   PROVE  Filled(worker[u].copy.next, f + 1)'
        OBVIOUS
      <4>1. At(u, "choose") /\ worker'[u] = worker[u]
        BY <2>2 DEF At
      <4>2. worker[u].copy.next \in Nat /\ Filled(worker[u].copy.next, f)
        BY <1>t, <2>3, <4>1 DEF Frontier, At, Busy, Copies
      <4>3. PICK d : d = worker[u].copy.next
        OBVIOUS
      <4> QED
        BY <3>2, <4>1, <4>2, <4>3
    <3>6. \A u \in Workers : At(u, "bump")' =>
              worker'[u].copy.kind = "xpub" /\ worker'[u].copy.next + 1 = f + 1
      BY <2>1, <2>2, <2>5 DEF c, LockIsFree, At
    <3> QED
      BY <3>1, <3>3, <3>4, <3>5, <3>6 DEF Frontier, IsKey, HasRow
  <2> QED
    BY <2>1, <2>3, <2>6, <2>8, <2>9 DEF IndexOK
<1>9. ASSUME NEW t \in Workers, SaveIndex(t) PROVE IndexOK'
  <2> DEFINE copy == worker[t].copy
             new == [id |-> copy.id, kind |-> copy.kind, next |-> copy.next + 1]
  <2>1. /\ UNCHANGED <<address, addressFile, walletFile, keyAdded>>
        /\ copy.id \in WalletIds
        /\ wallets' = [wallets EXCEPT ![copy.id] = new] /\ new.next = copy.next + 1
        /\ At(t, "bump") /\ worker[t].row \in RowIds /\ Chosen(t, "assign", worker[t].row)
    BY <1>9, <1>t DEF SaveIndex, walletFiles, walletHistory, At, Held, Busy, Copies
  <2>2. /\ worker'[t].pc = "assign"
        /\ \A u \in Workers \ {t} : worker'[u] = worker[u]
    BY <2>1, ChosenKept DEF Held, At
  <2>3. PICK k \in Nat, f \in Nat : OneKey(k) /\ Frontier(f)
    BY <1>n DEF IndexOK
  <2>4. copy.kind = "xpub" /\ new.next = f /\ copy.id = k
    BY <2>1, <2>3 DEF Frontier, OneKey, Uses
  <2>5. keyAdded
    BY <1>n, <2>1, <2>4 DEF IndexOK, NoKeyYet, Uses
  <2> HIDE DEF copy, new
  <2>6. wallets'[k] = new /\ \A w \in WalletIds \ {k} : wallets'[w] = wallets[w]
    BY <1>t, <2>1, <2>4 DEF WalletTables
  <2>7. OneKey(k)'
    <3>1. \A u \in Workers : Uses(u)' => Uses(u) /\ worker'[u].copy = worker[u].copy
      BY <2>2 DEF Uses, At
    <3>2. \A w \in WalletIds : IsKey(wallets'[w]) \/ IsKey(walletFile'.rows[w]) => w = k
      BY <2>1, <2>3, <2>6 DEF OneKey
    <3> QED
      BY <2>3, <3>1, <3>2 DEF OneKey, IsKey
  <2>8. Frontier(f)'
    <3>1. \A w \in WalletIds : IsKey(wallets'[w]) => w = k /\ wallets'[w].next = f
      BY <2>3, <2>4, <2>6, <2>7 DEF OneKey, IsKey
    <3>2. Filled(f, f)'
      BY AddressAssumption, FS_CardinalityType DEF Filled
    <3>3. \A u \in Workers : Uses(u)' => worker'[u] = worker[u]
      BY <2>2 DEF Uses, At
    <3>4. \A n \in Indexes : HasRow(address', Derived[n]) = HasRow(address, Derived[n])
      BY <2>1
    <3> QED
      BY <2>3, <3>1, <3>2, <3>3, <3>4 DEF Frontier, Filled, IsKey, Uses, At, HasRow
  <2> QED
    BY <2>1, <2>3, <2>5, <2>7, <2>8 DEF IndexOK
<1>10. ASSUME NEW t \in Workers, TakeFromPool(t) PROVE IndexOK'
  <2>1. /\ UNCHANGED <<wallets, addressFile, walletFile, keyAdded>>
        /\ ~ At(t, "bump") /\ worker'[t].pc \in {"idle", "assign"}
        /\ \A u \in Workers \ {t} : worker'[u] = worker[u]
    BY <1>10, <1>t DEF TakeFromPool, Chosen, Leave, IdleWorker, walletFiles, walletHistory, At
  <2>2. \A n \in Indexes : HasRow(address', Derived[n]) = HasRow(address, Derived[n])
    <3>1. CASE address' = address
      BY <3>1
    <3>2. CASE address' # address
      <4> DEFINE new == [status |-> "reserved", wallet |-> worker[t].copy.id]
      <4>1. PICK r \in RowIds : /\ address[r].status = "unused"
                                /\ address' = [address EXCEPT ![r] = new]
        BY <1>10, <3>2 DEF TakeFromPool, Unused
      <4>2. new.status # "none"
        OBVIOUS
      <4> HIDE DEF new
      <4> QED
        BY <4>1, <4>2, KeyRowsKept
    <3> QED
      BY <3>1, <3>2
  <2> QED
    BY <1>n, <2>1, <2>2, IndexKept DEF At, Uses
<1>11. ASSUME NEW t \in Workers, MarkAssigned(t) PROVE IndexOK'
  <2> DEFINE r == worker[t].row
             new == [status |-> "assigned", wallet |-> worker[t].copy.id]
  <2>1. /\ UNCHANGED <<wallets, addressFile, walletFile, keyAdded>>
        /\ address' = [address EXCEPT ![r] = new] /\ new.status # "none"
        /\ Held(t) /\ ~ At(t, "bump") /\ r \in RowIds
        /\ worker'[t].pc = "save" /\ \A u \in Workers \ {t} : worker'[u] = worker[u]
    BY <1>11, <1>t DEF MarkAssigned, Chosen, walletFiles, walletHistory, At, Held
  <2> HIDE DEF new
  <2>2. address[r].status # "none"
    BY <1>s, <2>1 DEF HeldOK, GivenAway
  <2>3. PICK q \in RowIds : q = r
    BY <2>1
  <2>4. \A n \in Indexes : HasRow(address', Derived[n]) = HasRow(address, Derived[n])
    BY <2>1, <2>2, <2>3, KeyRowsKept
  <2> QED
    BY <1>n, <2>1, <2>4, IndexKept DEF At, Uses
<1>12. ASSUME NEW t \in Workers, SaveBill(t) \/ FlushAndAnswer(t) PROVE IndexOK'
  <2>1. /\ UNCHANGED <<wallets, address, keyAdded>>
        /\ addressFile' \in {addressFile, address}
        /\ walletFile'.rows \in {walletFile.rows, wallets}
    <3>1. CASE SaveBill(t)
      BY <3>1 DEF SaveBill, walletFiles, walletHistory
    <3>2. ASSUME NEW files \in SUBSET WalletFiles, Written(files), FlushAndAnswer(t)
          PROVE  /\ UNCHANGED <<wallets, address, keyAdded>>
                 /\ addressFile' \in {addressFile, address}
                 /\ walletFile'.rows \in {walletFile.rows, wallets}
      BY <3>2 DEF Written, FlushAndAnswer, walletTables
    <3>3. CASE FlushAndAnswer(t) /\ ~ \E files \in SUBSET WalletFiles : Written(files)
      BY <3>3 DEF FlushAndAnswer, walletTables
    <3> QED
      BY <1>12, <3>1, <3>2, <3>3
  <2>2. /\ ~ At(t, "bump") /\ worker'[t].pc \in {"idle", "flush"}
        /\ \A u \in Workers \ {t} : worker'[u] = worker[u]
    BY <1>12, <1>t DEF SaveBill, FlushAndAnswer, Chosen, Leave, IdleWorker, At
  <2> QED
    BY <1>n, <2>1, <2>2, IndexKept DEF At, Uses
<1>13. ASSUME NEW i \in Bills, CancelBill(i) PROVE IndexOK'
  <2> DEFINE r == bill[i].row
             new == [status |-> "released", wallet |-> address[r].wallet]
  <2>1. UNCHANGED <<wallets, addressFile, walletFile, worker, keyAdded>>
    BY <1>13 DEF CancelBill, walletFiles, walletHistory
  <2>2. \A n \in Indexes : HasRow(address', Derived[n]) = HasRow(address, Derived[n])
    <3>1. CASE address' = address
      BY <3>1
    <3>2. CASE address' # address
      <4>1. /\ r # NoAddress /\ address[r].status = "assigned"
            /\ address' = [address EXCEPT ![r] = new] /\ new.status # "none"
        BY <1>13, <3>2 DEF CancelBill
      <4> HIDE DEF new
      <4>2. PICK q \in RowIds : q = r
        BY <4>1 DEF WalletTypeOK, BillRows
      <4> QED
        BY <4>1, <4>2, KeyRowsKept
    <3> QED
      BY <3>1, <3>2
  <2> QED
    BY <1>n, <2>1, <2>2, IndexKept DEF At, Uses
<1>14. ASSUME NEW f \in WalletFiles, SaveFile(f) PROVE IndexOK'
  <2>1. /\ UNCHANGED <<wallets, address, worker, keyAdded>>
        /\ addressFile' \in {addressFile, address}
        /\ walletFile'.rows \in {walletFile.rows, wallets}
    BY <1>14 DEF SaveFile, Written, walletTables, walletHistory
  <2> QED
    BY <1>n, <2>1, IndexKept DEF At, Uses
<1> QED
  BY <1>1, <1>2, <1>3, <1>4, <1>5, <1>6, <1>7, <1>8, <1>9, <1>10, <1>11, <1>12, <1>13, <1>14
     DEF WalletNext, ImportStep, FinalizeStep

LEMMA IndexCrash ==
    ASSUME WalletTypeOK, KindsOK, IndexOK, CrashWallets
    PROVE  IndexOK'
<1> SUFFICES ASSUME ~ rowsLost', ~ indexLost' PROVE IndexOK'
  BY DEF IndexOK
<1>1. /\ ~ rowsLost /\ ~ HasRefused(addressFile) /\ ~ indexLost
      /\ \A w \in WalletIds : ~ IsAhead(addressFile, walletFile.rows[w])
  BY DEF CrashWallets
<1>2. /\ wallets' = walletFile.rows /\ address' = addressFile
      /\ UNCHANGED <<walletFile, addressFile, keyAdded>>
      /\ \A t \in Workers : ~ Uses(t)' /\ ~ At(t, "bump")'
  BY <1>1 DEF CrashWallets, Loads, walletFiles, IdleWorker, Uses, At
<1>3. PICK k \in Nat : OneKey(k)
  BY <1>1 DEF IndexOK
<1>4. ~ keyAdded => NoKeyYet'
  BY <1>1, <1>2 DEF IndexOK, NoKeyYet, IsKey, HasRow
<1>5. OneKey(k)'
  BY <1>2, <1>3 DEF OneKey, IsKey
<1>6. PICK f \in Nat : Frontier(f)'
  <2>1. CASE k \in WalletIds /\ IsKey(wallets'[k])
    <3>1. PICK f \in Nat : f = wallets'[k].next
      BY <1>2, <2>1 DEF WalletTypeOK, WalletTables, Copies, IsKey
    <3>2. \A n \in Indexes : n >= f => ~ HasRow(address', Derived[n])
      BY <1>1, <1>2, <2>1, <3>1 DEF IsAhead, IsKey
    <3>3. \A w \in WalletIds : IsKey(wallets'[w]) => wallets'[w].next = f
      BY <1>2, <1>3, <3>1 DEF OneKey
    <3>4. Filled(f, f)'
      BY AddressAssumption, FS_CardinalityType DEF Filled
    <3> QED
      BY <1>2, <3>2, <3>3, <3>4 DEF Frontier, Uses, IsKey, HasRow, Filled
  <2>2. CASE ~ (k \in WalletIds /\ IsKey(wallets'[k]))
    <3>1. \A w \in WalletIds : ~ IsKey(wallets'[w])
      BY <1>2, <1>3, <2>2 DEF OneKey
    <3>2. PICK f \in Nat : f = Cardinality(Indexes)
      BY AddressAssumption, FS_CardinalityType
    <3>3. \A n \in Indexes : n < f
      BY <3>2, AddressAssumption
    <3>4. \A n \in Indexes : ~ n >= f
      BY <3>2, <3>3, AddressAssumption
    <3> QED
      BY <1>2, <3>1, <3>4 DEF Frontier, Uses, IsKey, HasRow
  <2> QED
    BY <2>1, <2>2
<1> QED
  BY <1>2, <1>4, <1>5, <1>6 DEF IndexOK

-------------------------------------------------------------------------------
(* The theorems. *)

LEMMA WalletInvariance == WalletSpec => [](WalletTypeOK /\ KindsOK /\ Sharing /\ IndexOK)
<1> DEFINE Inv == WalletTypeOK /\ KindsOK /\ Sharing /\ IndexOK
<1>1. WalletInit => Inv
  BY WalletTypeInitially, KindsInitially, SharingInitially, IndexInitially
<1>2. Inv /\ [WalletNext]_walletVars => Inv'
  <2> SUFFICES ASSUME Inv, [WalletNext]_walletVars PROVE Inv'
    OBVIOUS
  <2>1. CASE WalletNext /\ ~ CrashWallets
    <3>1. WalletTypeOK'
      BY <2>1, WalletTypeStep
    <3>2. KindsOK' /\ KindsStay
      BY <2>1, KindsStep
    <3>3. Sharing'
      BY <2>1, <3>1, <3>2, SharingStep DEF Sharing
    <3>4. IndexOK'
      BY <2>1, IndexStep DEF IndexOK
    <3> QED
      BY <3>1, <3>2, <3>3, <3>4
  <2>2. CASE CrashWallets
    <3>1. WalletTypeOK'
      BY <2>2, WalletTypeStep DEF WalletNext
    <3> QED
      BY <2>2, <3>1, CrashStep, IndexCrash
  <2>3. CASE UNCHANGED walletVars
    <3> USE <2>3 DEF walletVars, walletTables, walletFiles, walletHistory
    <3>1. WalletTypeOK'
      BY DEF WalletTypeOK, WorkersOK, Busy, Held, At
    <3>2. KindsOK'
      BY DEF KindsOK, IdsOK, IsOf, Busy
    <3>3. Sharing'
      BY DEF Sharing, SecondsOK, Hidden, IsOf, Busy, HeldByOne, HeldOK, Held, ShownOK, ShownToOne,
             GivenAway
    <3>4. IndexOK'
      BY DEF IndexOK, NoKeyYet, OneKey, Frontier, Filled, Uses, At, IsKey, HasRow, LockIsFree
    <3> QED
      BY <3>1, <3>2, <3>3, <3>4
  <2> QED
    BY <2>1, <2>2, <2>3
<1> QED
  BY <1>1, <1>2, PTL DEF WalletSpec

\* No two customers are shown one address, however requests overlap on copies of
\* the wallet, the key is added again, lists are imported, invoices are cancelled
\* and the process dies with some of the files written (get_next_address,
\* service.py, _assign_address).
THEOREM NotShared == WalletSpec => []AddressesAreNotShared
<1>1. Sharing => AddressesAreNotShared
  <2> SUFFICES ASSUME Sharing, ~ rowsLost, NEW a \in PayAddresses
               PROVE  Cardinality(shown[a]) <= 1
    BY DEF AddressesAreNotShared
  <2>1. CASE shown[a] = {}
    BY <2>1, FS_EmptySet
  <2>2. CASE shown[a] # {}
    <3>1. PICK i \in shown[a] : TRUE
      BY <2>2
    <3>2. \A j \in shown[a] : j = i
      BY <3>1 DEF Sharing, ShownToOne
    <3>3. shown[a] = {i}
      BY <3>1, <3>2
    <3>4. Cardinality({i}) = 1
      BY FS_Singleton
    <3> QED
      BY <3>3, <3>4
  <2> QED
    BY <2>1, <2>2
<1> QED
  BY <1>1, WalletInvariance, PTL

\* What the index in a wallet's row says is true of the table: finalizing can go
\* on after saves of stale copies, deletions and crashes (_derive_next_address).
THEOREM NextIsFree == WalletSpec => []NextIndexIsFree
<1>1. WalletTypeOK /\ IndexOK => NextIndexIsFree
  <2> SUFFICES ASSUME IndexOK, ~ rowsLost, ~ indexLost, LockIsFree,
                      NEW w \in WalletIds, NEW n \in Indexes,
                      wallets[w] # NoWallet, wallets[w].kind = "xpub", n >= wallets[w].next
               PROVE  ~ HasRow(address, Derived[n])
    BY DEF NextIndexIsFree
  <2>1. PICK f \in Nat : Frontier(f)
    BY DEF IndexOK
  <2>2. wallets[w].next = f
    BY <2>1 DEF Frontier, IsKey
  <2> QED
    BY <2>1, <2>2 DEF Frontier
<1> QED
  BY <1>1, WalletInvariance, PTL
===============================================================================
