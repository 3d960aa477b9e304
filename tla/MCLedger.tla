------------------------------- MODULE MCLedger -------------------------------
(* Two small instances of PaymentLedger for TLC, two requests at once.  The *)
(* first has the endpoints that lock the invoice; the second has payments   *)
(* split over two invoices, trashed and restored, on rows of its own.       *)
EXTENDS PaymentLedger, TLC

CONSTANTS p1, p2
VARIABLES scene, rInvoice, rPaid, rPayment, rReq

Races == INSTANCE PaymentLedger WITH
           Payments <- {p1, p2}, MaxTotal <- 1, Prices <- {1}, SplitAllowed <- TRUE,
           Endpoints <- {"createInvoice", "cancelInvoice", "createPayment", "trashPayment", "restorePayment"},
           invoice <- rInvoice, paid <- rPaid, payment <- rPayment, req <- rReq

races == <<rInvoice, rPaid, rPayment, rReq>>

MCInit == Init /\ Races!Init /\ scene \in {"intake", "races"}
MCNext == /\ UNCHANGED scene
          /\ \/ scene = "intake" /\ Next /\ UNCHANGED races
             \/ scene = "races" /\ Races!Next /\ UNCHANGED vars
MCSpec == MCInit /\ [][MCNext]_<<vars, races, scene>>

Symmetry == Permutations(Payments) \cup Permutations(Sessions) \cup Permutations(Invoices)

(* In every step of the races a payment committed, trashed or restored is   *)
(* counted once in what is paid on its invoices.                            *)
SumsFollow == [][Races!PaidIsSumOfActive']_races

(* With split payments, trash and restore the sums follow, nothing is paid  *)
(* on a settled invoice and statuses that are final stay.                   *)
RacesFollow == SumsFollow /\ Races!NoPaymentOnSettled /\ Races!StickyStatus
=============================================================================
