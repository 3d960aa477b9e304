---------------------------- MODULE MCTenantCredit ----------------------------
(* Two small instances of TenantCredit for TLC.  The first has the invoices,*)
(* refunds and corrections of two credits; the second, on rows of its own,  *)
(* follows receipts, one of them by bank, split between main and syndic     *)
(* cash, and the payments that are removed and restored.                    *)
EXTENDS TenantCredit, TLC

VARIABLES scene, bCredit, bRefund, bDrawn, bInvoice, bReq

TwoBills   == {[total |-> 1, syndic |-> 1], [total |-> 3, syndic |-> 1]}
SyndicBill == {[total |-> 2, syndic |-> 1]}

Book == INSTANCE TenantCredit WITH
          Bills <- TwoBills, Banked <- {2},
          Endpoints <- {"create", "issue", "cancel", "removeSource", "restoreSource", "removeDraw", "restoreDraw"},
          credit <- bCredit, refund <- bRefund, drawn <- bDrawn, invoice <- bInvoice, req <- bReq

book == <<bCredit, bRefund, bDrawn, bInvoice, bReq>>

MCInit == Init /\ Book!Init /\ scene \in {"use", "book"}
MCNext == /\ UNCHANGED scene
          /\ \/ scene = "use" /\ Next /\ UNCHANGED book
             \/ scene = "book" /\ Book!Next /\ UNCHANGED vars
MCSpec == MCInit /\ [][MCNext]_<<vars, book, scene>>

Symmetry == Permutations(Sessions) \cup Permutations(Invoices)

(* The removal of the source or of a draw of a credit, and its return,      *)
(* leave the cash books and the statuses of the invoices as the credits     *)
(* that are live call for.                                                  *)
BooksFollow == Book!CashFollowsCredit /\ Book!InvoiceFollowsDraws
=============================================================================
