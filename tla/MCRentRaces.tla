------------------------------ MODULE MCRentRaces ------------------------------
(* Two small instances of RentBilling for TLC, over one calendar.           *)
(*   "races"     two runs are interleaved, and users write and delete       *)
(*               invoices of a quarterly lease, in the first two months;    *)
(*   "quarters"  quarterly leases that start two months apart share a       *)
(*               cycle, whose anchor moves when the older one is terminated.*)
EXTENDS RentBilling, TLC

CONSTANTS l1, l2, w1
VARIABLES scene

(* Days, except for the third month.                                        *)
ShortMonths == [m \in 1..12 |-> IF m = 3 THEN 2 ELSE 1]
OneStart    == l1 :> 1
OneQuarter  == l1 :> 3

RacesNext ==
  /\ Next
  /\ Today' <= LastDay(2)
  /\ \A i \in invoices' : i.start <= LastDay(2)

Quarters == INSTANCE RentBilling WITH
              Leases <- {l1, l2}, Workers <- {w1},
              StartDate <- l1 :> 1 @@ l2 :> 4, Frequency <- l1 :> 3 @@ l2 :> 3,
              Terminable <- {l1}, ManualInvoices <- FALSE,
              MaxAborts <- 1, MaxDeletions <- 0, MaxTerminations <- 1

MCInit == \/ scene = "races" /\ Init
          \/ scene = "quarters" /\ Quarters!Init
MCNext == /\ UNCHANGED scene
          /\ \/ scene = "races" /\ RacesNext
             \/ scene = "quarters" /\ Quarters!Next
MCSpec == MCInit /\ [][MCNext]_<<vars, scene>>

Symmetry == Permutations(Workers)
=============================================================================
