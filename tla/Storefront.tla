------------------------------- MODULE Storefront -------------------------------
(***************************************************************************)
(* A storefront with one item: customers order (btpay/storefront/           *)
(* public_views.py), a paid order is counted and its units leave the stock  *)
(* (fulfillment.py), clerks edit and delete the rows (views.py).  Every     *)
(* handler changes the copy it loaded and saves it whole; a save writes the *)
(* row whether it is still there or not.                                    *)
(*                                                                         *)
(* "Slip" introduces a mistaken form that a property is tested with.        *)
(***************************************************************************)
EXTENDS Integers, FiniteSetsExt

CONSTANTS
    Sales,          \* orders, each by its own threads
    Clerks,         \* dashboard threads
    InStock,        \* units in stock of an item that is there; -1 for unlimited
    MaxUnits,       \* bound on the units of an order
    ItemPrices,     \* what a clerk asks for the item
    NoShopRow       \* no row, no copy

ShopRow == [active : BOOLEAN, orders : Nat, revenue : Int]
WareRow == [active : BOOLEAN, price : Nat, stock : Int]

ASSUME StorefrontAssumption ==
    /\ IsFiniteSet(Sales)
    /\ InStock \in Int /\ MaxUnits \in Nat \ {0} /\ ItemPrices \subseteq Nat
    /\ NoShopRow \notin ShopRow \cup WareRow

VARIABLES
    shop,           \* the storefront's row
    ware,           \* the item's row
    sale,           \* each order, with what its fulfilment holds
    clerk,          \* each clerk's request
    begun,          \* history: what was created, and the item's first stock
    shopOverwritten \* history: a copy was saved over a newer row, or over none

shopVars == <<shop, ware, sale, clerk, begun, shopOverwritten>>

NotOrdered == [pc |-> "open", units |-> 0, left |-> 0, amount |-> 0, copy |-> NoShopRow]
ClerkIdle == [pc |-> "idle", copy |-> NoShopRow]

\* Nothing yet, or a storefront with an item in stock (no page sets a stock).
StorefrontInit ==
    /\ \/ /\ shop = [active |-> TRUE, orders |-> 0, revenue |-> 0]
          /\ \E price \in ItemPrices :
                ware = [active |-> TRUE, price |-> price, stock |-> InStock]
          /\ begun = [shop |-> TRUE, ware |-> TRUE, stock |-> InStock]
       \/ /\ shop = NoShopRow /\ ware = NoShopRow
          /\ begun = [shop |-> FALSE, ware |-> FALSE, stock |-> 0]
    /\ sale = [s \in Sales |-> NotOrdered]
    /\ clerk = [t \in Clerks |-> ClerkIdle]
    /\ shopOverwritten = FALSE

SaleAt(s, step) == sale[s].pc = step
ClerkAt(t, step) == clerk[t].pc = step

\* save(): the whole row is written, over whatever is there.
SaveShopRow(copy, row) ==
    shop' = row /\ shopOverwritten' = (shopOverwritten \/ shop # copy) /\ UNCHANGED ware
SaveWareRow(copy, row) ==
    ware' = row /\ shopOverwritten' = (shopOverwritten \/ ware # copy) /\ UNCHANGED shop

-------------------------------------------------------------------------------
(* Customers *)

\* Unlimited, or some left.
Available == ware.stock < 0 \/ ware.stock > 0

\* An invoice for the storefront's customer; the handler looks at the storefront.
Order(s, units, amount) ==
    /\ SaleAt(s, "open")
    /\ shop # NoShopRow /\ shop.active
    /\ sale' = [sale EXCEPT ![s] = [NotOrdered EXCEPT !.pc = "ordered", !.units = units,
                                        !.left = units, !.amount = amount]]
    /\ UNCHANGED <<shop, ware, clerk, shopOverwritten>>

\* The stock is not looked at beyond its being empty, and not touched before the
\* order is paid.
OnSale == ware # NoShopRow /\ ware.active /\ Available
BuyItem(s) == OnSale /\ Order(s, 1, ware.price)
CartCheckout(s, units) == OnSale /\ Order(s, units, units * ware.price)

\* A donation page sells nothing.
Donate(s) == \E amount \in ItemPrices : Order(s, 0, amount)

\* mark_paid calls fulfill_storefront_invoice; without the storefront it ends.
BeginFulfilment(s) ==
    /\ SaleAt(s, "ordered")
    /\ sale' = [sale EXCEPT ![s].pc = IF shop = NoShopRow THEN "ended" ELSE "count",
                            ![s].copy = shop]
    /\ UNCHANGED <<shop, ware, clerk, shopOverwritten>>

CountOrder(s) ==
    /\ SaleAt(s, "count")
    /\ LET copy == sale[s].copy
       IN  SaveShopRow(copy, [copy EXCEPT !.orders = @ + 1, !.revenue = @ + sale[s].amount])
    /\ sale' = [sale EXCEPT ![s].pc = "item"]
    /\ UNCHANGED clerk

TakeItem(s) ==
    /\ SaleAt(s, "item")
    /\ sale' = [sale EXCEPT ![s].pc = IF ware = NoShopRow \/ sale[s].units = 0
                                   THEN "flag" ELSE "units",
                            ![s].copy = ware]
    /\ UNCHANGED <<shop, ware, clerk, shopOverwritten>>

\* Slip: the item is decremented once, whatever the quantity.
DecrementOnce(s) ==
    LET copy == sale[s].copy
        less == [copy EXCEPT !.stock = @ - 1]
    IN
    /\ SaleAt(s, "units")
    /\ IF copy.stock > 0
       THEN SaveWareRow(copy, less) /\ sale' = [sale EXCEPT ![s].left = 0, ![s].pc = "flag"]
       ELSE sale' = [sale EXCEPT ![s].left = 0, ![s].pc = "flag"]
            /\ UNCHANGED <<shop, ware, shopOverwritten>>
    /\ UNCHANGED clerk

\* decrement_inventory, as often as the order has units, on one copy, with a save
\* each time there was something left.
DecrementInventory(s) ==
    LET copy == sale[s].copy
        less == [copy EXCEPT !.stock = @ - 1]
        next == IF sale[s].left = 1 THEN "flag" ELSE "units"
    IN
    /\ SaleAt(s, "units")
    /\ IF copy.stock > 0
       THEN /\ SaveWareRow(copy, less)
            /\ sale' = [sale EXCEPT ![s].left = @ - 1, ![s].copy = less, ![s].pc = next]
       ELSE /\ sale' = [sale EXCEPT ![s].left = @ - 1, ![s].pc = next]
            /\ UNCHANGED <<shop, ware, shopOverwritten>>
    /\ UNCHANGED clerk

\* storefront_fulfilled is saved with the invoice.
MarkFulfilled(s) ==
    /\ SaleAt(s, "flag")
    /\ sale' = [sale EXCEPT ![s].pc = "ended", ![s].copy = NoShopRow]
    /\ UNCHANGED <<shop, ware, clerk, shopOverwritten>>

-------------------------------------------------------------------------------
(* Clerks *)

\* create_storefront.
CreateStorefront ==
    /\ ~ begun.shop
    /\ shop' = [active |-> TRUE, orders |-> 0, revenue |-> 0]
    /\ begun' = [begun EXCEPT !.shop = TRUE]
    /\ UNCHANGED <<ware, sale, clerk, shopOverwritten>>

\* add_item looks at its storefront first, which may be deleted before the save.
AddItem(t, price) ==
    /\ ClerkAt(t, "add") /\ ~ begun.ware
    /\ ware' = [active |-> TRUE, price |-> price, stock |-> -1]
    /\ begun' = [begun EXCEPT !.ware = TRUE, !.stock = -1]
    /\ shopOverwritten' = (shopOverwritten \/ shop = NoShopRow
                                            \/ \E u \in Clerks : ClerkAt(u, "delete"))
    /\ clerk' = [clerk EXCEPT ![t] = ClerkIdle]
    /\ UNCHANGED <<shop, sale>>

OpenRow(t, step, row) ==
    /\ ClerkAt(t, "idle") /\ row # NoShopRow
    /\ clerk' = [clerk EXCEPT ![t] = [pc |-> step, copy |-> row]]
    /\ UNCHANGED <<shop, ware, sale, shopOverwritten>>

\* edit_storefront, with the counters of its copy.
EditStorefront(t, active) ==
    /\ ClerkAt(t, "shop")
    /\ SaveShopRow(clerk[t].copy, [clerk[t].copy EXCEPT !.active = active])
    /\ clerk' = [clerk EXCEPT ![t] = ClerkIdle]
    /\ UNCHANGED sale

\* edit_item, with the stock of its copy.
EditItem(t, active, price) ==
    /\ ClerkAt(t, "ware")
    /\ SaveWareRow(clerk[t].copy, [clerk[t].copy EXCEPT !.active = active, !.price = price])
    /\ clerk' = [clerk EXCEPT ![t] = ClerkIdle]
    /\ UNCHANGED sale

DeleteItem(t) ==
    /\ ClerkAt(t, "ware")
    /\ ware' = NoShopRow
    /\ clerk' = [clerk EXCEPT ![t] = ClerkIdle]
    /\ UNCHANGED <<shop, sale, shopOverwritten>>

\* delete_storefront: the items, then the storefront.
DeleteItems(t) ==
    /\ ClerkAt(t, "shop")
    /\ ware' = NoShopRow
    /\ clerk' = [clerk EXCEPT ![t].pc = "delete"]
    /\ UNCHANGED <<shop, sale, shopOverwritten>>
DeleteStorefront(t) ==
    /\ ClerkAt(t, "delete")
    /\ shop' = NoShopRow
    /\ clerk' = [clerk EXCEPT ![t] = ClerkIdle]
    /\ UNCHANGED <<ware, sale, shopOverwritten>>

RowsChange ==
    \/ \E s \in Sales, units \in 1 .. MaxUnits : CartCheckout(s, units)
    \/ \E s \in Sales : \/ BuyItem(s) \/ Donate(s) \/ BeginFulfilment(s) \/ CountOrder(s)
                        \/ TakeItem(s) \/ DecrementInventory(s) \/ MarkFulfilled(s)
    \/ \E t \in Clerks :
        \/ OpenRow(t, "shop", shop) \/ OpenRow(t, "ware", ware) \/ OpenRow(t, "add", shop)
        \/ DeleteItem(t) \/ DeleteItems(t) \/ DeleteStorefront(t)
        \/ \E active \in BOOLEAN :
            \/ EditStorefront(t, active)
            \/ \E price \in ItemPrices : EditItem(t, active, price)

StorefrontNext ==
    \/ CreateStorefront
    \/ \E t \in Clerks, price \in ItemPrices : AddItem(t, price)
    \/ RowsChange /\ UNCHANGED begun

StorefrontSpec == StorefrontInit /\ [][StorefrontNext]_shopVars

-------------------------------------------------------------------------------
(* Properties.  They hold as long as no copy is saved over a newer row: a clerk's *)
(* page on an old copy takes back orders and stock, and brings back what another  *)
(* has deleted; two fulfilments at once lose one another's counts.                *)

Counted == {s \in Sales : sale[s].pc \in {"item", "units", "flag", "ended"}}

Amounts == [s \in Sales |-> IF s \in Counted THEN sale[s].amount ELSE 0]
Taken == [s \in Sales |-> sale[s].units - sale[s].left]

\* The storefront's totals are those of the orders whose fulfilment counted them.
\* The stock is what it was less the units of the paid orders: oversold at zero and
\* no further, and left alone if unlimited.  A storefront that is deleted takes its
\* item with it.
ShopIsItsOrders ==
    ~ shopOverwritten =>
        /\ shop # NoShopRow =>
              shop.orders = Cardinality(Counted) /\ shop.revenue = SumFunction(Amounts)
        /\ ware # NoShopRow =>
              ware.stock = IF begun.stock < 0 THEN begun.stock
                           ELSE Max({0, begun.stock - SumFunction(Taken)})
        /\ shop = NoShopRow => ware = NoShopRow
===============================================================================
