--------------------------- MODULE MCInvoiceService ---------------------------
(***************************************************************************)
(* InvoiceService for TLC: one invoice of four units, of which one may be  *)
(* forgiven, so that a receipt of one unit leaves it partial, three units  *)
(* pay it and the sum of two receipts overshoots.                          *)
(***************************************************************************)
EXTENDS InvoiceService

MCTotal == [i \in Invoices |-> 4]
===============================================================================
