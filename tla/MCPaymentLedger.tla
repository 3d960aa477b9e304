--------------------------- MODULE MCPaymentLedger ---------------------------
(* Small instances of PaymentLedger for TLC, one set of rows.               *)
EXTENDS PaymentLedger, TLC

(* Requests and payments are interchangeable; invoices too.                 *)
Symmetry == Permutations(Payments) \cup Permutations(Sessions) \cup Permutations(Invoices)
(* One transaction at a time: no other is running when one starts.          *)
OneAtATime == \A s, t \in Sessions : s # t => Idle \in {req'[s], req'[t]}
SerialSpec == Init /\ [][Next /\ OneAtATime]_vars
=============================================================================
