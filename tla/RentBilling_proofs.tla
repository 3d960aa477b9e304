--------------------------- MODULE RentBilling_proofs ---------------------------
(***************************************************************************)
(* Proofs about the rent billing, for any number of leases, runs in        *)
(* flight, months and failures; about what the periods of one lease add up *)
(* to, for any calendar, prices and frequencies; and about the payment     *)
(* plans of sales.                                                         *)
(***************************************************************************)
EXTENDS RentBilling, BillingBooks, PlanBooks, Sums

-----------------------------------------------------------------------------
(* The calendar. *)

(* The first days as far as month n of a calendar.                             *)
FirstDays(g, n) ==
    /\ g = [m \in 1..(Len(MonthLength) + 1) |-> g[m]]
    /\ \A m \in 1..(Len(MonthLength) + 1) :
         m <= n => g[m] = IF m = 1 THEN 1 ELSE g[m - 1] + MonthLength[m - 1]

LEMMA FirstDaysExist == \A n \in Nat : \E g : FirstDays(g, n)
<1> DEFINE N == Len(MonthLength) + 1
           T == {n \in Nat : \E g : FirstDays(g, n)}
<1>1. 0 \in T
  <2> DEFINE g == [m \in 1..N |-> 0]
  <2>1. FirstDays(g, 0)  BY DEF FirstDays
  <2> HIDE DEF g
  <2> QED  BY <2>1
<1>2. ASSUME NEW n \in Nat, n \in T PROVE n + 1 \in T
  <2>1. PICK g : FirstDays(g, n)  BY <1>2
  <2> DEFINE h == [m \in 1..N |-> IF m <= n THEN g[m] ELSE g[m - 1] + MonthLength[m - 1]]
             one == [m \in 1..N |-> 1]
  <2>2. CASE n = 0
    <3>1. FirstDays(one, n + 1)  BY <2>2 DEF FirstDays
    <3> HIDE DEF one
    <3> QED  BY <3>1
  <2>3. CASE n # 0
    <3>1. \A m \in 1..N : m <= n => h[m] = g[m]  OBVIOUS
    <3>2. ASSUME NEW m \in 1..N, m <= n + 1
          PROVE  h[m] = IF m = 1 THEN 1 ELSE h[m - 1] + MonthLength[m - 1]
      <4>1. CASE m = 1
        <5>1. m <= n  BY <2>3, <4>1
        <5>2. h[m] = g[m] /\ g[m] = 1
          <6> HIDE DEF h
          <6> QED  BY <2>1, <3>1, <4>1, <5>1 DEF FirstDays
        <5> HIDE DEF h
        <5> QED  BY <4>1, <5>2
      <4>2. CASE m # 1
        <5>1. m - 1 \in 1..N /\ m - 1 <= n /\ h[m - 1] = g[m - 1]  BY <3>1, <3>2, <4>2
        <5>2. h[m] = g[m - 1] + MonthLength[m - 1]
          <6>1. CASE m <= n  BY <2>1, <3>1, <4>2, <6>1 DEF FirstDays
          <6>2. CASE ~(m <= n)  BY <6>2
          <6> QED  BY <6>1, <6>2
        <5> HIDE DEF h
        <5> QED  BY <4>2, <5>1, <5>2
      <4> QED  BY <4>1, <4>2
    <3>3. h = [m \in 1..N |-> h[m]]  OBVIOUS
    <3> HIDE DEF h
    <3>4. FirstDays(h, n + 1)  BY <3>2, <3>3 DEF FirstDays
    <3> QED  BY <3>4
  <2> QED  BY <2>2, <2>3
<1> HIDE DEF T
<1>3. \A n \in Nat : n \in T  BY <1>1, <1>2, SetInduction
<1> QED  BY <1>3 DEF T

LEMMA FirstDayUnfold ==
    FirstDay = [m \in 1..(Len(MonthLength) + 1) |->
                  IF m = 1 THEN 1 ELSE FirstDay[m - 1] + MonthLength[m - 1]]
<1> DEFINE N == Len(MonthLength) + 1
           Full(g) == g = [m \in 1..N |-> IF m = 1 THEN 1 ELSE g[m - 1] + MonthLength[m - 1]]
<1>1. Len(MonthLength) \in Nat  BY MonthLengthAssumption
<1>2. PICK g : FirstDays(g, N)  BY <1>1, FirstDaysExist
<1>3. Full(g)
  <2>1. g = [m \in 1..N |-> g[m]]  BY <1>2 DEF FirstDays
  <2>2. \A m \in 1..N : m <= N  BY <1>1
  <2>3. \A m \in 1..N : g[m] = IF m = 1 THEN 1 ELSE g[m - 1] + MonthLength[m - 1]
    BY <1>2, <2>2 DEF FirstDays
  <2> HIDE DEF N
  <2> QED  BY <2>1, <2>3
<1>4. FirstDay = CHOOSE f : Full(f)  BY DEF FirstDay
<1>5. Full(FirstDay)
  <2> HIDE DEF Full
  <2> QED  BY <1>3, <1>4
<1> QED  BY <1>5

(* A month opens the day after the month before it ends.                       *)
LEMMA FirstDayStep ==
    /\ Len(MonthLength) \in Nat /\ Months = 1..Len(MonthLength)
    /\ FirstDay[1] = 1
    /\ \A m \in Months : FirstDay[m + 1] = FirstDay[m] + MonthLength[m]
    /\ \A m \in Months : MonthLength[m] \in Nat \ {0}
<1>1. Len(MonthLength) \in Nat /\ Months = 1..Len(MonthLength)  BY MonthLengthAssumption DEF Months
<1>2. FirstDay[1] = 1  BY <1>1, FirstDayUnfold
<1>3. ASSUME NEW m \in Months PROVE FirstDay[m + 1] = FirstDay[m] + MonthLength[m]
  <2>1. m + 1 \in 1..(Len(MonthLength) + 1) /\ m + 1 # 1 /\ (m + 1) - 1 = m  BY <1>1
  <2> QED  BY <2>1, FirstDayUnfold
<1>4. \A m \in Months : MonthLength[m] \in Nat \ {0}  BY MonthLengthAssumption DEF Months
<1> QED  BY <1>1, <1>2, <1>3, <1>4

(* The first days are dates in the order of their months.                      *)
LEMMA FirstDayOrder ==
    \A k \in 1..(Len(MonthLength) + 1) :
        /\ FirstDay[k] \in Nat \ {0}
        /\ \A m \in 1..(Len(MonthLength) + 1) : m < k => FirstDay[m] < FirstDay[k]
<1> DEFINE N == Len(MonthLength) + 1
           Good(k) == /\ FirstDay[k] \in Nat \ {0}
                      /\ \A m \in 1..N : m < k => FirstDay[m] < FirstDay[k]
           T == {n \in Nat : \A k \in 1..N : k <= n => Good(k)}
<1>1. 0 \in T  OBVIOUS
<1>2. ASSUME NEW n \in Nat, n \in T PROVE n + 1 \in T
  <2>1. ASSUME NEW k \in 1..N, k <= n + 1 PROVE Good(k)
    <3>1. CASE k = 1  BY <3>1, FirstDayStep
    <3>2. CASE k # 1
      <4> DEFINE j == k - 1
      <4>1. j \in Months /\ j \in 1..N /\ j <= n /\ j + 1 = k  BY <2>1, <3>2, FirstDayStep
      <4>2. Good(j)  BY <1>2, <4>1
      <4>3. FirstDay[k] = FirstDay[j] + MonthLength[j] /\ MonthLength[j] \in Nat \ {0}
        BY <4>1, FirstDayStep
      <4>4. \A m \in 1..N : m < k => m < j \/ m = j  BY <4>1
      <4> HIDE DEF j
      <4>5. \A m \in 1..N : m < j => FirstDay[m] \in Nat  BY <1>2, <4>1
      <4> QED  BY <4>1, <4>2, <4>3, <4>4, <4>5
    <3> QED  BY <3>1, <3>2
  <2> QED  BY <2>1
<1> HIDE DEF T
<1>3. \A n \in Nat : n \in T  BY <1>1, <1>2, SetInduction
<1>4. N \in Nat  BY FirstDayStep
<1>5. \A k \in 1..N : Good(k)
  <2> HIDE DEF Good
  <2> QED  BY <1>3, <1>4 DEF T
<1> QED  BY <1>5

(* Every date has one month.                                                   *)
LEMMA MonthOfDate ==
    ASSUME NEW d \in Dates
    PROVE  /\ MonthOf(d) \in Months
           /\ FirstDay[MonthOf(d)] <= d /\ d <= LastDay(MonthOf(d))
<1> DEFINE T == {m \in Months : d < FirstDay[m + 1]}
<1>0. /\ Len(MonthLength) \in Nat /\ Months = 1..Len(MonthLength)
      /\ \A m \in Months : FirstDay[m] \in Nat /\ FirstDay[m + 1] \in Nat /\ m + 1 \in 1..(Len(MonthLength) + 1)
  BY FirstDayStep, FirstDayOrder
<1>1. d \in Int /\ 1 <= d /\ d < FirstDay[Len(MonthLength) + 1] /\ FirstDay[Len(MonthLength) + 1] \in Nat
  BY <1>0, FirstDayOrder DEF Dates, LastDay
<1>2. Len(MonthLength) \in T
  <2>1. Len(MonthLength) # 0  BY <1>1, FirstDayStep
  <2> QED  BY <1>0, <1>1, <2>1
<1>3. PICK m \in T : \A k \in T : m <= k
  <2>1. T \subseteq Nat  BY <1>0
  <2> HIDE DEF T
  <2> QED  BY <1>2, <2>1, LeastNumber
<1>4. FirstDay[m] <= d
  <2>1. CASE m = 1  BY <1>1, <2>1, FirstDayStep
  <2>2. CASE m # 1
    <3>0. m \in Months  BY <1>3
    <3>1. m - 1 \in Months /\ (m - 1) + 1 = m /\ ~(m <= m - 1)  BY <1>0, <2>2, <3>0
    <3>2. m - 1 \notin T
      <4> HIDE DEF T
      <4> QED  BY <1>3, <3>1
    <3>3. FirstDay[m] \in Nat  BY <1>0, <3>0
    <3> QED  BY <1>1, <3>1, <3>2, <3>3
  <2> QED  BY <2>1, <2>2
<1>5. d <= LastDay(m)  BY <1>0, <1>1, <1>3 DEF LastDay
<1> QED  BY <1>3, <1>4, <1>5 DEF MonthOf

LEMMA MonthUnique ==
    ASSUME NEW d \in Dates, NEW m \in Months, FirstDay[m] <= d, d <= LastDay(m)
    PROVE  MonthOf(d) = m
<1> DEFINE n == MonthOf(d)
<1>1. n \in Months /\ FirstDay[n] <= d /\ d <= LastDay(n)  BY MonthOfDate
<1>2. /\ Months = 1..Len(MonthLength) /\ Len(MonthLength) \in Nat
      /\ d \in Int /\ m + 1 \in 1..(Len(MonthLength) + 1) /\ n + 1 \in 1..(Len(MonthLength) + 1)
  BY <1>1, FirstDayStep DEF Dates
<1>3. FirstDay[m] \in Nat /\ FirstDay[n] \in Nat /\ FirstDay[m + 1] \in Nat /\ FirstDay[n + 1] \in Nat
  BY <1>1, <1>2, FirstDayOrder
<1>4. d < FirstDay[m + 1] /\ d < FirstDay[n + 1]  BY SMTT(30), <1>1, <1>2, <1>3 DEF LastDay
<1> HIDE DEF n
<1>5. CASE m < n
  <2>1. m + 1 = n \/ m + 1 < n  BY <1>1, <1>2, <1>5
  <2>2. FirstDay[m + 1] <= FirstDay[n]  BY SMTT(30), <1>1, <1>2, <1>3, <2>1, FirstDayOrder
  <2> QED  BY <1>1, <1>2, <1>3, <1>4, <2>2
<1>6. CASE n < m
  <2>1. n + 1 = m \/ n + 1 < m  BY <1>1, <1>2, <1>6
  <2>2. FirstDay[n + 1] <= FirstDay[m]  BY SMTT(30), <1>1, <1>2, <1>3, <2>1, FirstDayOrder
  <2> QED  BY <1>1, <1>2, <1>3, <1>4, <2>2
<1>7. CASE m = n  BY <1>7 DEF n
<1>8. m \in Int /\ n \in Int  BY <1>1, <1>2
<1> QED  BY <1>5, <1>6, <1>7, <1>8

-----------------------------------------------------------------------------
(* No day is invoiced twice. *)

(* A step that adds an invoice the billing chose adds one that overlaps none   *)
(* of its lease's: that is the last check of createRentInvoice.                *)
LEMMA InsertedIsClear ==
    ASSUME NEW l, NEW base, NEW asOf, Billable(l, base, asOf), InsertInvoice(l, base)
    PROVE  \A i \in invoices' \ invoices : \A j \in invoices :
             i.lease = l /\ (j.lease = l => ~Overlap(j, i))
<1> DEFINE p == NextPeriodForLease(l, base)
<1> HIDE DEF p
<1>1. ~AlreadyBilled(l, p)  BY DEF Billable, p
<1>2. invoices' = invoices \cup {Invoice(l, p)}  BY DEF InsertInvoice, p
<1> QED  BY <1>1, <1>2 DEF AlreadyBilled, InvoicesOf, Overlap, Invoice

(* What a step may do to the invoices: at most delete some, insert one the     *)
(* billing chose, or, when users may, insert one written by hand.              *)
LEMMA StepOnInvoices ==
    ASSUME [Next]_vars
    PROVE  \/ invoices' \subseteq invoices
           \/ \E l, base, asOf : Billable(l, base, asOf) /\ InsertInvoice(l, base)
           \/ ManualInvoices /\ worker' = worker
<1>1. CASE UNCHANGED vars  BY <1>1 DEF vars
<1>2. CASE \E w \in Workers : \E month \in Months : CronTick(w, month)
  BY <1>2 DEF CronTick
<1>3. CASE \E w \in Workers : Progress(w)
  <2>1. PICK w \in Workers : Progress(w)  BY <1>3
  <2>2. CASE \E l \in Leases : OpenLease(w, l)  BY <2>2 DEF OpenLease
  <2>3. CASE \E l \in Leases : ConsiderLease(w, l)  BY <2>3 DEF ConsiderLease
  <2>4. CASE \E l \in Leases : CreateRentInvoice(w, l)  BY <2>4 DEF CreateRentInvoice
  <2>5. CASE \E l \in Leases : NotifyTenant(w, l)  BY <2>5 DEF NotifyTenant
  <2>6. CASE OpeningsDone(w) \/ CheckPeriod(w)  BY <2>6 DEF OpeningsDone, CheckPeriod
  <2>7. CASE Reserve(w) \/ ReserveRefused(w)  BY <2>7 DEF Reserve, ReserveRefused
  <2>8. CASE FetchLeases(w) \/ FinishRun(w)  BY <2>8 DEF FetchLeases, FinishRun
  <2> QED  BY <2>1, <2>2, <2>3, <2>4, <2>5, <2>6, <2>7, <2>8 DEF Progress
<1>4. CASE \E w \in Workers : Fails(w)
  BY <1>4 DEF Fails, AbandonRun, OpenLeaseFails, LeaseFails
<1>5. CASE Users
  BY <1>5 DEF Users, RequestRun, ActivateLease, TerminateLease, WriteInvoice, DeleteInvoice
<1>6. CASE Crash \/ Restart \/ Tick  BY <1>6 DEF Crash, Restart, Tick
<1> QED  BY <1>1, <1>2, <1>3, <1>4, <1>5, <1>6 DEF Next

(* The billing never charges a day that an invoice of the lease already        *)
(* charges, however users write and delete invoices beside it and however many *)
(* runs and openings are in flight: the last check of createRentInvoice.       *)
THEOREM BillsEachDayOnce == Spec => NeverBilledAgain
<1>1. ASSUME [Next]_vars, worker' # worker,
             NEW i \in invoices' \ invoices, NEW j \in InvoicesOf(i.lease)
      PROVE  ~Overlap(i, j)
  <2>1. PICK l, base, asOf : Billable(l, base, asOf) /\ InsertInvoice(l, base)
    BY <1>1, StepOnInvoices
  <2>2. i.lease = l /\ (j.lease = l => ~Overlap(j, i))
    BY <1>1, <2>1, InsertedIsClear DEF InvoicesOf
  <2> QED  BY <2>2 DEF InvoicesOf, Overlap
<1>2. [Next]_vars =>
        [ worker' # worker =>
            \A i \in invoices' \ invoices :
              \A j \in InvoicesOf(i.lease) : ~Overlap(i, j) ]_vars
  BY <1>1
<1> QED  BY <1>2, PTL DEF Spec, NeverBilledAgain

(* Where users write no rent invoice by hand, no day of a lease is ever        *)
(* charged by two live invoices.                                               *)
THEOREM NoDayTwice ==
    ASSUME ~ManualInvoices
    PROVE  Spec => []NoOverlap
<1>1. Init => NoOverlap  BY DEF Init, NoOverlap
<1>2. NoOverlap /\ [Next]_vars => NoOverlap'
  <2> SUFFICES ASSUME NoOverlap, [Next]_vars PROVE NoOverlap'
    OBVIOUS
  <2>1. CASE invoices' \subseteq invoices  BY <2>1 DEF NoOverlap, Overlap
  <2>2. ASSUME NEW l, NEW base, NEW asOf,
               Billable(l, base, asOf), InsertInvoice(l, base)
        PROVE  NoOverlap'
    <3>1. \A i \in invoices' \ invoices : \A j \in invoices :
            i.lease = l /\ (j.lease = l => ~Overlap(j, i))
      BY <2>2, InsertedIsClear
    <3>2. PICK new : invoices' = invoices \cup {new}
      BY <2>2 DEF InsertInvoice
    <3> SUFFICES ASSUME NEW i \in invoices', NEW j \in invoices',
                        i.lease = j.lease, i # j
                 PROVE  ~Overlap(i, j)
      BY DEF NoOverlap, Overlap
    <3>3. CASE i \in invoices /\ j \in invoices  BY <3>3 DEF NoOverlap
    <3>4. CASE i \notin invoices
      <4>1. j \in invoices  BY <3>2, <3>4
      <4> QED  BY <3>1, <3>4, <4>1 DEF Overlap
    <3>5. CASE j \notin invoices
      <4>1. i \in invoices  BY <3>2, <3>5
      <4> QED  BY <3>1, <3>5, <4>1 DEF Overlap
    <3> QED  BY <3>3, <3>4, <3>5
  <2> QED  BY <2>1, <2>2, StepOnInvoices
<1> QED  BY <1>1, <1>2, PTL DEF Spec

-----------------------------------------------------------------------------
(* One RUNNING row a period. *)

(* What the proof needs of the types: the rows of the runs, and the month of   *)
(* every worker, whose state is a record.                                      *)
Rows == [month : Nat, started : Nat, status : RunStatuses]

Shaped(x) ==
    /\ x = [pc |-> x.pc, month |-> x.month, date |-> x.date, opening |-> x.opening,
            due |-> x.due, run |-> x.run, lease |-> x.lease, results |-> x.results]
    /\ x.month \in 0..LastMonth /\ x.date \in 0..LastDay(LastMonth)

Shapes ==
    /\ now \in 0..Horizon
    /\ runs \in Seq(Rows)
    /\ DOMAIN worker = Workers
    /\ worker = [w \in Workers |-> worker[w]]
    /\ \A w \in Workers : Shaped(worker[w])

RunInv == Shapes /\ OneRunning

(* A period's RUNNING row is the only one, so RunningRow finds it. *)
LEMMA RunningRowIsRunning ==
    ASSUME RunInv, NEW month
    PROVE  \A r \in DOMAIN runs :
             runs[r].month = month /\ runs[r].status = "RUNNING" => r = RunningRow(month)
<1> DEFINE ids == {r \in DOMAIN runs : runs[r].month = month /\ runs[r].status = "RUNNING"}
<1> SUFFICES ASSUME NEW r \in DOMAIN runs,
                    runs[r].month = month, runs[r].status = "RUNNING"
             PROVE  r = RunningRow(month)
  OBVIOUS
<1>1. ids = {r}  BY DEF RunInv, OneRunning
<1>2. r \in Nat  BY DEF RunInv, Shapes
<1>3. Max({r}) = r  BY <1>2 DEF Max
<1> QED  BY <1>1, <1>3 DEF RunningRow

(* A worker that turns into a record leaves the other workers as they are. *)
LEMMA BecomeKeepsShapes ==
    ASSUME Shapes, NEW w \in Workers, NEW x, Shaped(x), Become(w, x)
    PROVE  /\ DOMAIN worker' = Workers
           /\ worker' = [v \in Workers |-> worker'[v]]
           /\ \A v \in Workers : Shaped(worker'[v])
  BY DEF Shapes, Become

(* The clock stays within the last month, and only its months are run.         *)
LEMMA ClockBounds ==
    /\ LastMonth \in Months /\ LastDay(LastMonth) \in Nat \ {0}
    /\ Horizon \in Nat
    /\ \A t \in 0..Horizon : t \div 3 + 1 \in 0..LastDay(LastMonth)
    /\ \A m \in Months : FirstDay[m] <= LastDay(LastMonth) => m \in 0..LastMonth
<1>1. LastMonth \in Months /\ Months = 1..Len(MonthLength) /\ Len(MonthLength) \in Nat
  BY RentBillingAssumption, FirstDayStep
<1>2. LastMonth + 1 \in 1..(Len(MonthLength) + 1) /\ 1 \in 1..(Len(MonthLength) + 1) /\ 1 < LastMonth + 1
  BY <1>1
<1>3. FirstDay[LastMonth + 1] \in Nat /\ 1 < FirstDay[LastMonth + 1]
  BY <1>2, FirstDayOrder, FirstDayStep
<1>4. LastDay(LastMonth) \in Nat \ {0} /\ LastDay(LastMonth) < FirstDay[LastMonth + 1]
  BY <1>3 DEF LastDay
<1>5. Horizon \in Nat  BY <1>4 DEF Horizon
<1>6. ASSUME NEW t \in 0..Horizon PROVE t \div 3 + 1 \in 0..LastDay(LastMonth)
  <2> DEFINE D == LastDay(LastMonth)
  <2>1. D \in Nat /\ t \in Nat /\ t <= 3 * D - 1  BY <1>4 DEF Horizon
  <2> HIDE DEF D
  <2> QED  BY <2>1 DEF D
<1>7. ASSUME NEW m \in Months, FirstDay[m] <= LastDay(LastMonth) PROVE m \in 0..LastMonth
  <2>1. m \in 1..(Len(MonthLength) + 1) /\ FirstDay[m] \in Nat  BY <1>1, FirstDayOrder
  <2>2. ~(LastMonth + 1 < m) /\ LastMonth + 1 # m  BY <1>2, <1>3, <1>4, <1>7, <2>1, FirstDayOrder
  <2> QED  BY <1>1, <2>1, <2>2
<1> QED  BY <1>1, <1>4, <1>5, <1>6, <1>7

LEMMA IdleShaped == Shaped(Idle)
  BY ClockBounds, FirstDayStep DEF Shaped, Idle

(* A step that leaves the runs alone. *)
LEMMA QuietStep ==
    ASSUME RunInv, UNCHANGED runs, now' \in 0..Horizon,
           \/ UNCHANGED worker
           \/ \E w \in Workers : \E x : Shaped(x) /\ Become(w, x)
           \/ worker' = [w \in Workers |-> Idle]
    PROVE  RunInv'
<1>1. OneRunning'  BY DEF RunInv, OneRunning
<1>2. /\ DOMAIN worker' = Workers
      /\ worker' = [v \in Workers |-> worker'[v]]
      /\ \A v \in Workers : Shaped(worker'[v])
  BY BecomeKeepsShapes, IdleShaped DEF RunInv, Shapes
<1>3. Shapes'  BY <1>2 DEF RunInv, Shapes
<1> QED  BY <1>1, <1>3 DEF RunInv

(* Changing a field of a worker's record leaves a record with the same month.  *)
LEMMA Update ==
    ASSUME NEW x, Shaped(x), NEW a
    PROVE  /\ Shaped([x EXCEPT !.pc = a])
           /\ Shaped([x EXCEPT !.opening = a])
           /\ Shaped([x EXCEPT !.due = a])
           /\ Shaped([x EXCEPT !.run = a])
           /\ Shaped([x EXCEPT !.lease = a])
           /\ Shaped([x EXCEPT !.results = a])
           /\ a \in 0..LastDay(LastMonth) => Shaped([x EXCEPT !.date = a])
           /\ a \in 0..LastMonth => Shaped([x EXCEPT !.month = a])
<1>1. Shaped([x EXCEPT !.pc = a])  BY DEF Shaped
<1>2. Shaped([x EXCEPT !.opening = a])  BY DEF Shaped
<1>3. Shaped([x EXCEPT !.due = a])  BY DEF Shaped
<1>4. Shaped([x EXCEPT !.run = a])  BY DEF Shaped
<1>5. Shaped([x EXCEPT !.lease = a])  BY DEF Shaped
<1>6. Shaped([x EXCEPT !.results = a])  BY DEF Shaped
<1>7. a \in 0..LastDay(LastMonth) => Shaped([x EXCEPT !.date = a])  BY DEF Shaped
<1>8. a \in 0..LastMonth => Shaped([x EXCEPT !.month = a])  BY DEF Shaped
<1> QED  BY <1>1, <1>2, <1>3, <1>4, <1>5, <1>6, <1>7, <1>8

LEMMA Updates ==
    ASSUME NEW x, Shaped(x), NEW a, NEW b, NEW c, NEW d
    PROVE  /\ Shaped([x EXCEPT !.pc = a, !.run = b])
           /\ Shaped([x EXCEPT !.pc = a, !.due = b])
           /\ Shaped([x EXCEPT !.pc = a, !.lease = b])
           /\ Shaped([x EXCEPT !.pc = a, !.lease = b, !.due = c, !.results = d])
           /\ b \in 0..LastMonth /\ c \in 0..LastDay(LastMonth) =>
                Shaped([x EXCEPT !.pc = a, !.month = b, !.date = c, !.opening = d])
           /\ c \in 0..LastDay(LastMonth) => Shaped([x EXCEPT !.pc = a, !.date = c, !.opening = d])
           /\ b \in 0..LastMonth => Shaped([x EXCEPT !.pc = a, !.month = b])
<1> DEFINE y == [x EXCEPT !.pc = a]
           z == [y EXCEPT !.lease = b]
           u == [z EXCEPT !.due = c]
<1>1. Shaped(y)  BY Update
<1>2. Shaped([y EXCEPT !.run = b]) /\ Shaped([y EXCEPT !.due = b]) /\ Shaped(z)
  <2> HIDE DEF y
  <2> QED  BY <1>1, Update
<1>3. Shaped(u)
  <2> HIDE DEF z
  <2> QED  BY <1>2, Update
<1>4. Shaped([u EXCEPT !.results = d])
  <2> HIDE DEF u
  <2> QED  BY <1>3, Update
<1>5. ASSUME c \in 0..LastDay(LastMonth)
      PROVE  Shaped([[y EXCEPT !.date = c] EXCEPT !.opening = d])
  <2>1. Shaped([y EXCEPT !.date = c])
    <3> HIDE DEF y
    <3> QED  BY <1>1, <1>5, Update
  <2> DEFINE t == [y EXCEPT !.date = c]
  <2> HIDE DEF t
  <2>2. Shaped([t EXCEPT !.opening = d])  BY <2>1, Update DEF t
  <2> QED  BY <2>2 DEF t
<1>6. ASSUME b \in 0..LastMonth
      PROVE  /\ Shaped([y EXCEPT !.month = b])
             /\ c \in 0..LastDay(LastMonth) =>
                  Shaped([[[y EXCEPT !.month = b] EXCEPT !.date = c] EXCEPT !.opening = d])
  <2>1. Shaped([y EXCEPT !.month = b])
    <3> HIDE DEF y
    <3> QED  BY <1>1, <1>6, Update
  <2> DEFINE m == [y EXCEPT !.month = b]
             t == [m EXCEPT !.date = c]
  <2>2. c \in 0..LastDay(LastMonth) => Shaped(t)
    <3> HIDE DEF m
    <3> QED  BY <2>1, Update DEF m
  <2>3. c \in 0..LastDay(LastMonth) => Shaped([t EXCEPT !.opening = d])
    <3> HIDE DEF t
    <3> QED  BY <2>2, Update
  <2> QED  BY <2>1, <2>3
<1> QED  BY <1>2, <1>4, <1>5, <1>6

LEMMA DoneShaped ==
    ASSUME NEW w, NEW l, NEW outcome, Shaped(worker[w])
    PROVE  Shaped(Done(w, l, outcome))
  BY Updates DEF Done

LEMMA CronTickStep ==
    ASSUME RunInv, NEW w \in Workers, NEW month \in Months, CronTick(w, month)
    PROVE  RunInv'
<1> DEFINE openings == {l \in Leases : StartDate[l] = Today /\ LastEnd(l) = 0}
           state == [Idle EXCEPT !.pc = "opening", !.month = month, !.date = Today,
                                 !.opening = openings]
<1>1. Become(w, state)  BY DEF CronTick
<1>2. Shaped(state)
  <2> HIDE DEF openings
  <2>1. Today \in 0..LastDay(LastMonth) /\ month \in 0..LastMonth
    <3>1. now \in 0..Horizon /\ FirstDay[month] <= Today  BY DEF RunInv, Shapes, CronTick
    <3>2. Today \in 0..LastDay(LastMonth)  BY <3>1, ClockBounds DEF Today
    <3>3. FirstDay[month] \in Nat  BY FirstDayStep, FirstDayOrder
    <3> QED  BY <3>1, <3>2, <3>3, ClockBounds
  <2> QED  BY <2>1, IdleShaped, Updates
<1>3. now' = now /\ runs' = runs  BY DEF CronTick
<1> HIDE DEF state
<1> QED  BY <1>1, <1>2, <1>3, QuietStep DEF RunInv, Shapes

LEMMA OpeningSteps ==
    ASSUME RunInv, NEW w \in Workers, NEW l \in Leases,
           OpenLease(w, l) \/ OpenLeaseFails(w, l)
    PROVE  RunInv'
<1>1. Shaped(worker[w])  BY DEF RunInv, Shapes
<1>2. Become(w, [worker[w] EXCEPT !.opening = worker[w].opening \ {l}])
  BY DEF OpenLease, OpenLeaseFails
<1>3. now' = now /\ runs' = runs  BY DEF OpenLease, OpenLeaseFails
<1>4. Shaped([worker[w] EXCEPT !.opening = worker[w].opening \ {l}])  BY <1>1, Update
<1> QED  BY <1>2, <1>3, <1>4, QuietStep DEF RunInv, Shapes

(* The steps of one lease in a run. *)
LEMMA LeaseSteps ==
    ASSUME RunInv, NEW w \in Workers, NEW l \in Leases,
           \/ ConsiderLease(w, l) \/ CreateRentInvoice(w, l)
           \/ NotifyTenant(w, l) \/ LeaseFails(w, l)
    PROVE  RunInv'
<1>1. Shaped(worker[w])  BY DEF RunInv, Shapes
<1>2. now' = now /\ runs' = runs
  BY DEF ConsiderLease, CreateRentInvoice, NotifyTenant, LeaseFails
<1>3. \/ \E outcome \in Outcomes : Become(w, Done(w, l, outcome))
      \/ Become(w, [worker[w] EXCEPT !.pc = "create", !.lease = {l}])
      \/ Become(w, [worker[w] EXCEPT !.pc = "notify"])
  BY DEF ConsiderLease, CreateRentInvoice, NotifyTenant, LeaseFails, Outcomes
<1>4. /\ \A outcome \in Outcomes : Shaped(Done(w, l, outcome))
      /\ Shaped([worker[w] EXCEPT !.pc = "create", !.lease = {l}])
      /\ Shaped([worker[w] EXCEPT !.pc = "notify"])
  BY <1>1, Update, Updates, DoneShaped
<1> QED  BY <1>2, <1>3, <1>4, QuietStep DEF RunInv, Shapes

(* The other steps of a worker that leave the runs alone. *)
LEMMA WaitingSteps ==
    ASSUME RunInv, NEW w \in Workers,
           \/ OpeningsDone(w) \/ CheckPeriod(w) \/ ReserveRefused(w)
           \/ FetchLeases(w) \/ AbandonRun(w)
    PROVE  RunInv'
<1>1. Shaped(worker[w])  BY DEF RunInv, Shapes
<1>2. now' = now /\ runs' = runs
  BY DEF OpeningsDone, CheckPeriod, ReserveRefused, FetchLeases, AbandonRun
<1>3. \/ Become(w, Idle)
      \/ Become(w, [worker[w] EXCEPT !.pc = "check"])
      \/ Become(w, [worker[w] EXCEPT !.pc = "reserve"])
      \/ \E due : Become(w, [worker[w] EXCEPT !.pc = "bill", !.due = due])
  BY DEF OpeningsDone, CheckPeriod, ReserveRefused, FetchLeases, AbandonRun
<1>4. /\ Shaped([worker[w] EXCEPT !.pc = "check"])
      /\ Shaped([worker[w] EXCEPT !.pc = "reserve"])
      /\ \A due : Shaped([worker[w] EXCEPT !.pc = "bill", !.due = due])
  BY <1>1, Update, Updates
<1> QED  BY <1>2, <1>3, <1>4, IdleShaped, QuietStep DEF RunInv, Shapes

LEMMA RequestRunStep ==
    ASSUME RunInv, NEW w \in Workers, NEW month \in 1..LastMonth, RequestRun(w, month)
    PROVE  RunInv'
<1> DEFINE state == [Idle EXCEPT !.pc = "check", !.month = month]
<1>1. Become(w, state)  BY DEF RequestRun
<1>2. Shaped(state)
  <2>1. month \in 0..LastMonth  BY ClockBounds
  <2> QED  BY <2>1, IdleShaped, Updates
<1>3. now' = now /\ runs' = runs  BY DEF RequestRun
<1> HIDE DEF state
<1> QED  BY <1>1, <1>2, <1>3, QuietStep DEF RunInv, Shapes

LEMMA ActivateLeaseStep ==
    ASSUME RunInv, NEW w \in Workers, NEW l \in Leases, ActivateLease(w, l)
    PROVE  RunInv'
<1> DEFINE openings == {k \in {l} : LastEnd(k) = 0}
           state == [Idle EXCEPT !.pc = "opening", !.date = Today, !.opening = openings]
<1>1. Become(w, state) \/ Become(w, Idle)  BY DEF ActivateLease
<1>2. Shaped(state)
  <2> HIDE DEF openings
  <2>1. Today \in 0..LastDay(LastMonth)  BY ClockBounds DEF RunInv, Shapes, Today
  <2> QED  BY <2>1, IdleShaped, Updates
<1>3. now' = now /\ runs' = runs  BY DEF ActivateLease
<1> HIDE DEF state
<1> QED  BY <1>1, <1>2, <1>3, IdleShaped, QuietStep DEF RunInv, Shapes

LEMMA Closing ==
    ASSUME NEW row \in Rows, NEW status \in RunStatuses
    PROVE  /\ [row EXCEPT !.status = status] \in Rows
           /\ [row EXCEPT !.status = status].month = row.month
           /\ [row EXCEPT !.status = status].status = status
  BY DEF Rows

(* The final status of a run is never RUNNING, so closing a row, even one that *)
(* a later run already closed as FAILED, opens none.                           *)
LEMMA FinishRunStep ==
    ASSUME RunInv, NEW w \in Workers, FinishRun(w)
    PROVE  RunInv'
<1> DEFINE id     == worker[w].run
           status == RunStatus(worker[w].results # {}, worker[w].results)
<1>1. status \in RunStatuses \ {"RUNNING"}  BY DEF RunStatus, RunStatuses
<1>2. runs' = [runs EXCEPT ![id].status = status]  BY DEF FinishRun
<1> HIDE DEF id, status
<1>3. runs \in Seq(Rows)  BY DEF RunInv, Shapes
<1> DEFINE closed == [runs[id] EXCEPT !.status = status]
<1>a. runs' = [runs EXCEPT ![id] = closed]  BY <1>2
<1>b. id \in DOMAIN runs =>
        closed \in Rows /\ closed.month = runs[id].month /\ closed.status # "RUNNING"
  <2> SUFFICES ASSUME id \in DOMAIN runs
               PROVE closed \in Rows /\ closed.month = runs[id].month /\ closed.status # "RUNNING"
    OBVIOUS
  <2>1. runs[id] \in Rows  BY <1>3
  <2> QED  BY <2>1, <1>1, Closing
<1> HIDE DEF closed
<1>4. DOMAIN runs' = DOMAIN runs  BY <1>a, <1>3
<1>5. \A r \in DOMAIN runs :
        /\ runs'[r] \in Rows
        /\ runs'[r].month = runs[r].month
        /\ runs'[r].status = "RUNNING" => runs[r].status = "RUNNING"
  BY <1>a, <1>b, <1>3
<1>6. runs' \in Seq(Rows)
  <2>1. DOMAIN runs = 1..Len(runs) /\ Len(runs) \in Nat  BY <1>3
  <2>2. runs' = [r \in 1..Len(runs) |-> runs'[r]]  BY <1>a, <1>4, <2>1
  <2>3. \A r \in 1..Len(runs) : runs'[r] \in Rows  BY <1>5, <2>1
  <2> QED  BY <2>1, <2>2, <2>3
<1>7. OneRunning'  BY <1>4, <1>5 DEF RunInv, OneRunning
<1>8. /\ DOMAIN worker' = Workers
      /\ worker' = [v \in Workers |-> worker'[v]]
      /\ \A v \in Workers : Shaped(worker'[v])
  BY IdleShaped, BecomeKeepsShapes DEF FinishRun, RunInv
<1>9. now' \in 0..Horizon  BY DEF FinishRun, RunInv, Shapes
<1> QED  BY <1>6, <1>7, <1>8, <1>9 DEF RunInv, Shapes

(* reserveRun adds a RUNNING row and takes the period's RUNNING row, the only  *)
(* one there is, out of the way.                                               *)
LEMMA ReserveStep ==
    ASSUME RunInv, NEW w \in Workers, Reserve(w)
    PROVE  RunInv'
<1> DEFINE month  == worker[w].month
           row    == RunningRow(month)
           others == [r \in DOMAIN runs |->
                        IF r = row THEN [runs[r] EXCEPT !.status = "FAILED"] ELSE runs[r]]
           new    == Run(month, now)
<1>1. runs' = Append(others, new)  BY DEF Reserve
<1>2. \A r \in DOMAIN runs :
        runs[r].month = month /\ runs[r].status = "RUNNING" => r = row
  BY RunningRowIsRunning
<1>3. new \in Rows /\ new.month = month /\ new.status = "RUNNING"
  BY DEF RunInv, Shapes, Shaped, Run, Rows, RunStatuses
<1>4. runs \in Seq(Rows)  BY DEF RunInv, Shapes
<1> HIDE DEF month, row, new
<1>5. /\ others \in Seq(Rows) /\ Len(others) = Len(runs)
      /\ \A r \in DOMAIN runs :
           /\ others[r].month = runs[r].month
           /\ others[r].status = "RUNNING" => runs[r].status = "RUNNING" /\ r # row
  <2>1. \A r \in DOMAIN runs :
          /\ others[r] \in Rows
          /\ others[r].month = runs[r].month
          /\ others[r].status = "RUNNING" => runs[r].status = "RUNNING" /\ r # row
    <3> SUFFICES ASSUME NEW r \in DOMAIN runs
                 PROVE  /\ others[r] \in Rows
                        /\ others[r].month = runs[r].month
                        /\ others[r].status = "RUNNING" => runs[r].status = "RUNNING" /\ r # row
      OBVIOUS
    <3>1. runs[r] \in Rows  BY <1>4
    <3>2. CASE r = row
      <4>1. others[r] = [runs[r] EXCEPT !.status = "FAILED"]  BY <3>2
      <4> HIDE DEF others
      <4>2. "FAILED" \in RunStatuses  BY DEF RunStatuses
      <4> QED  BY <3>1, <4>1, <4>2, Closing
    <3>3. CASE r # row
      <4>1. others[r] = runs[r]  BY <3>3
      <4> HIDE DEF others
      <4> QED  BY <3>1, <3>3, <4>1
    <3> QED  BY <3>2, <3>3
  <2>2. others \in Seq(Rows) /\ Len(others) = Len(runs)
    BY <1>4, <2>1
  <2> QED  BY <2>1, <2>2
<1> HIDE DEF others
<1>6. /\ runs' \in Seq(Rows) /\ Len(runs') = Len(runs) + 1
      /\ runs'[Len(runs) + 1] = new
      /\ \A r \in DOMAIN runs : runs'[r] = others[r]
  BY <1>1, <1>3, <1>4, <1>5
<1>7. OneRunning'
  <2> SUFFICES ASSUME NEW r \in DOMAIN runs', NEW s \in DOMAIN runs',
                      runs'[r].month = runs'[s].month,
                      runs'[r].status = "RUNNING", runs'[s].status = "RUNNING"
               PROVE  r = s
    BY DEF OneRunning
  <2>1. DOMAIN runs' = DOMAIN runs \cup {Len(runs) + 1}  BY <1>4, <1>6
  <2>2. \A q \in DOMAIN runs : runs'[q].status = "RUNNING" => runs'[q].month # month
    BY <1>2, <1>5, <1>6
  <2>3. CASE r \in DOMAIN runs /\ s \in DOMAIN runs
    BY <2>3, <1>5, <1>6 DEF RunInv, OneRunning
  <2>4. CASE r = Len(runs) + 1  BY <2>1, <2>2, <2>4, <1>3, <1>6
  <2>5. CASE s = Len(runs) + 1  BY <2>1, <2>2, <2>5, <1>3, <1>6
  <2> QED  BY <2>1, <2>3, <2>4, <2>5
<1>8. /\ DOMAIN worker' = Workers
      /\ worker' = [v \in Workers |-> worker'[v]]
      /\ \A v \in Workers : Shaped(worker'[v])
  <2> DEFINE state == [worker[w] EXCEPT !.pc = "fetch", !.run = Len(runs) + 1]
  <2>1. Become(w, state)  BY DEF Reserve
  <2>2. Shaped(state)
    <3>1. Shaped(worker[w])  BY DEF RunInv, Shapes
    <3> QED  BY <3>1, Updates
  <2> HIDE DEF state
  <2> QED  BY <2>1, <2>2, BecomeKeepsShapes DEF RunInv
<1>9. now' \in 0..Horizon  BY DEF Reserve, RunInv, Shapes
<1> QED  BY <1>6, <1>7, <1>8, <1>9 DEF RunInv, Shapes

(* The steps of the users, the server and the clock that touch no run. *)
LEMMA OutsideSteps ==
    ASSUME RunInv,
           \/ \E l \in Leases : TerminateLease(l)
           \/ \E l \in Leases, month \in 1..LastMonth : WriteInvoice(l, month)
           \/ \E i \in invoices : DeleteInvoice(i)
           \/ Crash \/ Restart \/ Tick \/ UNCHANGED vars
    PROVE  RunInv'
<1>1. runs' = runs /\ now' \in 0..Horizon /\ (worker' = worker \/ worker' = [w \in Workers |-> Idle])
  BY ClockBounds
     DEF RunInv, Shapes, TerminateLease, WriteInvoice, DeleteInvoice, Crash, Restart, Tick, vars
<1> QED  BY <1>1, QuietStep

LEMMA RunInit == Init => RunInv
<1> SUFFICES ASSUME Init PROVE RunInv
  OBVIOUS
<1>1. runs \in Seq(Rows) /\ now \in 0..Horizon  BY ClockBounds DEF Init
<1>2. \A w \in Workers : Shaped(worker[w])  BY IdleShaped DEF Init
<1>3. DOMAIN worker = Workers /\ worker = [w \in Workers |-> worker[w]]  BY DEF Init
<1>4. OneRunning  BY DEF Init, OneRunning
<1> QED  BY <1>1, <1>2, <1>3, <1>4 DEF RunInv, Shapes

LEMMA RunNext == RunInv /\ [Next]_vars => RunInv'
<1> SUFFICES ASSUME RunInv, [Next]_vars PROVE RunInv'
  OBVIOUS
<1>1. CASE UNCHANGED vars  BY <1>1, OutsideSteps
<1>2. ASSUME NEW w \in Workers, NEW month \in Months, CronTick(w, month)
      PROVE  RunInv'
  BY <1>2, CronTickStep
<1>3. ASSUME NEW w \in Workers, Progress(w) PROVE RunInv'
  BY <1>3, OpeningSteps, LeaseSteps, WaitingSteps, ReserveStep, FinishRunStep DEF Progress
<1>4. ASSUME NEW w \in Workers, Fails(w) PROVE RunInv'
  BY <1>4, OpeningSteps, LeaseSteps, WaitingSteps DEF Fails
<1>5. CASE Users
  BY <1>5, RequestRunStep, ActivateLeaseStep, OutsideSteps DEF Users
<1>6. CASE Crash \/ Restart \/ Tick  BY <1>6, OutsideSteps
<1> QED  BY <1>1, <1>2, <1>3, <1>4, <1>5, <1>6 DEF Next

(* A period never has two RUNNING rows, in any interleaving of runs, crashes   *)
(* and recoveries of stale rows.                                               *)
THEOREM AtMostOneRunning == Spec => []OneRunning
<1>1. RunInv => OneRunning  BY DEF RunInv
<1> QED  BY <1>1, RunInit, RunNext, PTL DEF Spec

-----------------------------------------------------------------------------
(* The invoices of a lease leave no day between them. *)

(* The billing alone decides what is invoiced, every lease by its own dates,   *)
(* and the calendar has the months that the last period reaches.               *)
LeftAlone ==
    /\ ~ManualInvoices /\ MaxDeletions = 0
    /\ ~Synchronized
    /\ \A l \in Leases : LastMonth + Frequency[l] - 1 <= Len(MonthLength)

Ends == 0..FirstDay[Len(MonthLength) + 1]

ChainInv ==
    /\ RunInv
    /\ spent \in [Bounds -> Nat]
    /\ \A i \in invoices : i.end \in Ends
    /\ Contiguous

(* Numbers below a bound have a largest one.                                   *)
LEMMA MaxIsReached ==
    ASSUME NEW B \in Nat, NEW S \in SUBSET (0..B), S # {}
    PROVE  Max(S) \in S
<1> DEFINE T == {B - x : x \in S}
<1>1. T \subseteq Nat /\ T # {}
  <2>1. ASSUME NEW x \in S PROVE B - x \in Nat
    <3>1. x \in 0..B  BY <2>1
    <3> QED  BY <3>1
  <2>2. PICK x \in S : TRUE  OBVIOUS
  <2>3. B - x \in T  BY <2>2
  <2> QED  BY <2>1, <2>3
<1>2. PICK n \in T : \A k \in T : n <= k
  <2> HIDE DEF T
  <2> QED  BY <1>1, LeastNumber
<1>3. PICK x \in S : n = B - x  BY <1>2
<1>4. \A y \in S : x >= y
  <2> SUFFICES ASSUME NEW y \in S PROVE x >= y
    OBVIOUS
  <2>1. B - y \in T /\ x \in 0..B /\ y \in 0..B  OBVIOUS
  <2>2. n <= B - y  BY <1>2, <2>1
  <2> HIDE DEF T
  <2> QED  BY <1>3, <2>1, <2>2
<1> QED  BY <1>4 DEF Max

LEMMA Calendars ==
    /\ FirstDay[Len(MonthLength) + 1] \in Nat
    /\ \A k \in 1..(Len(MonthLength) + 1) : FirstDay[k] - 1 \in Ends
<1>1. Len(MonthLength) \in Nat  BY FirstDayStep
<1> DEFINE N == Len(MonthLength) + 1
<1>2. N \in 1..N /\ N \in Nat  BY <1>1
<1>3. FirstDay[N] \in Nat  BY <1>2, FirstDayOrder
<1>4. ASSUME NEW k \in 1..N PROVE FirstDay[k] - 1 \in Ends
  <2>1. FirstDay[k] \in Nat \ {0} /\ (k < N => FirstDay[k] < FirstDay[N])
    BY <1>2, <1>4, FirstDayOrder
  <2>2. k < N \/ k = N  BY <1>2, <1>4
  <2> HIDE DEF N
  <2> QED  BY <1>3, <2>1, <2>2 DEF Ends, N
<1> QED  BY <1>3, <1>4

(* Who adds an invoice: an opening, for the month the lease starts, or a run,  *)
(* for its month.                                                              *)
LEMMA Insertions ==
    ASSUME RunInv, [Next]_vars, ~ManualInvoices
    PROVE  \/ invoices' = invoices
           \/ \E l \in Leases, base \in 0..LastMonth :
                \E asOf : Billable(l, base, asOf) /\ InsertInvoice(l, base)
           \/ \E i \in invoices : DeleteInvoice(i)
<1>1. ASSUME NEW w \in Workers, NEW l \in Leases, OpenLease(w, l), invoices' # invoices
      PROVE  \E base \in 0..LastMonth :
                \E asOf : Billable(l, base, asOf) /\ InsertInvoice(l, base)
  <2> DEFINE base == MonthOf(StartDate[l])
  <2>1. Billable(l, base, worker[w].date) /\ InsertInvoice(l, base)
    BY <1>1 DEF OpenLease
  <2>2. worker[w].date \in 0..LastDay(LastMonth)  BY DEF RunInv, Shapes, Shaped
  <2>3. StartDate[l] \in Dates /\ StartDate[l] <= worker[w].date
    BY <2>1, RentBillingAssumption DEF Billable, Eligible
  <2>4. base \in Months /\ FirstDay[base] <= StartDate[l]  BY <2>3, MonthOfDate
  <2>5. FirstDay[base] \in Nat /\ StartDate[l] \in Int /\ LastDay(LastMonth) \in Nat
    BY <2>3, <2>4, FirstDayStep, FirstDayOrder, ClockBounds DEF Dates
  <2>6. FirstDay[base] <= LastDay(LastMonth)  BY <2>2, <2>3, <2>4, <2>5
  <2>7. base \in 0..LastMonth  BY <2>4, <2>6, ClockBounds
  <2> HIDE DEF base
  <2> QED  BY <2>1, <2>7
<1>2. ASSUME NEW w \in Workers, NEW l \in Leases, CreateRentInvoice(w, l), invoices' # invoices
      PROVE  \E base \in 0..LastMonth :
                \E asOf : Billable(l, base, asOf) /\ InsertInvoice(l, base)
  <2>1. worker[w].month \in 0..LastMonth  BY DEF RunInv, Shapes, Shaped
  <2> QED  BY <1>2, <2>1 DEF CreateRentInvoice
<1>3. ASSUME NEW w \in Workers, Progress(w),
             ~ \E l \in Leases : OpenLease(w, l) \/ CreateRentInvoice(w, l)
      PROVE  invoices' = invoices
  BY <1>3 DEF Progress, ConsiderLease, NotifyTenant, OpeningsDone, CheckPeriod, Reserve,
              ReserveRefused, FetchLeases, FinishRun
<1>4. CASE \E w \in Workers : Fails(w) \/ \E month \in Months : CronTick(w, month)
  BY <1>4 DEF Fails, AbandonRun, OpenLeaseFails, LeaseFails, CronTick
<1>5. CASE Users
  BY <1>5 DEF Users, RequestRun, ActivateLease, TerminateLease, WriteInvoice
<1>6. CASE Crash \/ Restart \/ Tick \/ UNCHANGED vars
  BY <1>6 DEF Crash, Restart, Tick, vars
<1> QED  BY <1>1, <1>2, <1>3, <1>4, <1>5, <1>6 DEF Next

LEMMA SpentKept ==
    ASSUME spent \in [Bounds -> Nat], [Next]_vars
    PROVE  spent' \in [Bounds -> Nat]
<1>1. ASSUME NEW bound \in Bounds, NEW limit, Spend(bound, limit)
      PROVE  spent' \in [Bounds -> Nat]
  BY <1>1 DEF Spend
<1>2. UNCHANGED spent \/ \E bound \in Bounds : \E limit : Spend(bound, limit)
  <2>1. CASE \E w \in Workers : Progress(w) \/ \E month \in Months : CronTick(w, month)
    BY ZenonT(60), <2>1 DEF Progress, OpenLease, ConsiderLease, CreateRentInvoice, NotifyTenant, OpeningsDone,
                CheckPeriod, Reserve, ReserveRefused, FetchLeases, FinishRun, CronTick
  <2>2. CASE \E w \in Workers : Fails(w)
    BY <2>2 DEF Fails, AbandonRun, OpenLeaseFails, LeaseFails, Bounds
  <2>3. CASE Users
    BY <2>3 DEF Users, RequestRun, ActivateLease, TerminateLease, WriteInvoice, DeleteInvoice, Bounds
  <2>4. CASE Crash \/ Restart \/ Tick \/ UNCHANGED vars
    BY <2>4 DEF Crash, Restart, Tick, vars, Bounds
  <2> QED  BY <2>1, <2>2, <2>3, <2>4 DEF Next
<1> QED  BY <1>1, <1>2

(* The period an invoice is made for opens where the last one ended.           *)
LEMMA PeriodFollows ==
    ASSUME LeftAlone, ChainInv, NEW l \in Leases, NEW base \in 0..LastMonth,
           NEW p, p = NextPeriodForLease(l, base), p # NoPeriod
    PROVE  /\ p.end \in Ends
           /\ \/ p.start = StartDate[l]
              \/ \E j \in InvoicesOf(l) : j.end + 1 = p.start
<1> DEFINE f    == Frequency[l]
           last == LastEnd(l)
<1>1. f \in 1..12 /\ LastMonth \in Nat /\ LastMonth + f - 1 <= Len(MonthLength)
      /\ Len(MonthLength) \in Nat
  BY RentBillingAssumption, FirstDayStep DEF LeftAlone
<1>2. p = FollowingPeriod(l, base)  BY DEF NextPeriodForLease, LeftAlone
<1>3. /\ MonthOf(p.start) = base
      /\ p = IF last # 0 THEN NextFullPeriod(last, f) ELSE InitialPeriod(StartDate[l], f)
  BY <1>2 DEF FollowingPeriod
<1>4. p.end = LastDay(base + f - 1) /\ p.start = IF last # 0 THEN last + 1 ELSE StartDate[l]
  BY <1>3 DEF NextFullPeriod, InitialPeriod, Period
<1>5. p.end \in Ends
  <2>1. (base + f - 1) + 1 = base + f /\ base + f \in 1..(Len(MonthLength) + 1)
    <3>1. base \in Nat /\ base <= LastMonth  BY <1>1
    <3> HIDE DEF f
    <3> QED  BY <1>1, <3>1
  <2>2. p.end = FirstDay[base + f] - 1  BY <1>4, <2>1 DEF LastDay
  <2> QED  BY <2>1, <2>2, Calendars
<1>6. ASSUME last # 0 PROVE \E j \in InvoicesOf(l) : j.end + 1 = p.start
  <2> DEFINE ends == {i.end : i \in InvoicesOf(l)}
             B    == FirstDay[Len(MonthLength) + 1]
  <2>1. InvoicesOf(l) # {} /\ last = Max(ends)  BY <1>6 DEF LastEnd
  <2>2. ends \in SUBSET (0..B) /\ ends # {} /\ B \in Nat
    BY <2>1, Calendars DEF ChainInv, Ends, InvoicesOf
  <2>3. Max(ends) \in ends
    <3> HIDE DEF ends, B
    <3> QED  BY <2>2, MaxIsReached
  <2>4. PICK j \in InvoicesOf(l) : j.end = last  BY <2>1, <2>3
  <2> QED  BY <1>4, <1>6, <2>4
<1> QED  BY <1>4, <1>5, <1>6

(* Where the billing is left alone, the rent of a lease is invoiced without a  *)
(* hole: whatever runs crash, fail, are repeated or are made for a month ahead,*)
(* an invoice opens on the lease's start date or the day after another ends.   *)
THEOREM NoDayForgotten ==
    ASSUME LeftAlone
    PROVE  Spec => []Contiguous
<1>1. Init => ChainInv
  <2> SUFFICES ASSUME Init PROVE ChainInv
    OBVIOUS
  <2> QED  BY RunInit DEF Init, ChainInv, Contiguous
<1>2. ChainInv /\ [Next]_vars => ChainInv'
  <2> SUFFICES ASSUME ChainInv, [Next]_vars PROVE ChainInv'
    OBVIOUS
  <2>1. RunInv' /\ spent' \in [Bounds -> Nat]  BY RunNext, SpentKept DEF ChainInv
  <2>2. CASE invoices' = invoices
    <3>1. Contiguous'  BY <2>2 DEF ChainInv, Contiguous, InvoicesOf
    <3> QED  BY <2>1, <2>2, <3>1 DEF ChainInv, Ends
  <2>3. ASSUME NEW l \in Leases, NEW base \in 0..LastMonth, NEW asOf,
               Billable(l, base, asOf), InsertInvoice(l, base)
        PROVE  ChainInv'
    <3> DEFINE p   == NextPeriodForLease(l, base)
               new == Invoice(l, p)
    <3>1. p # NoPeriod /\ invoices' = invoices \cup {new}  BY <2>3 DEF Billable, InsertInvoice
    <3>2. /\ p.end \in Ends
          /\ p.start = StartDate[l] \/ \E j \in InvoicesOf(l) : j.end + 1 = p.start
      <4> HIDE DEF p
      <4> QED  BY <3>1, PeriodFollows DEF p
    <3>3. new.lease = l /\ new.start = p.start /\ new.end = p.end  BY DEF Invoice
    <3> HIDE DEF p, new
    <3>4. Contiguous'  BY <3>1, <3>2, <3>3 DEF ChainInv, Contiguous, InvoicesOf
    <3> QED  BY <2>1, <3>1, <3>2, <3>3, <3>4 DEF ChainInv, Ends
  <2>4. ASSUME NEW i \in invoices, DeleteInvoice(i) PROVE FALSE
    BY <2>4 DEF DeleteInvoice, Spend, LeftAlone, ChainInv, Bounds
  <2> QED  BY <2>2, <2>3, <2>4, Insertions DEF ChainInv, LeftAlone
<1>3. ChainInv => Contiguous  BY DEF ChainInv
<1> QED  BY <1>1, <1>2, <1>3, PTL DEF Spec

-----------------------------------------------------------------------------
(* One invocation at a time: the end of a run is final. *)

(* Nobody takes an invoice away or writes one by hand, and no lease that sets  *)
(* the cycle of others is terminated.                                          *)
Undisturbed ==
    /\ ~ManualInvoices /\ MaxDeletions = 0
    /\ Synchronized => Terminable = {}

Running == {"fetch", "bill", "create", "notify"}
Due(x, l) == Billable(l, x.month, FirstDay[x.month])

(* What a run in progress knows is still so: a lease that is due has yet to be *)
(* looked at, unless one failed; and the period that was found for it is the   *)
(* one it is due, or its invoice was just made.                                *)
LeasesOK(x) ==
    /\ \A l \in Leases : Due(x, l) => l \in DOMAIN x.due \/ "failed" \in x.results
    /\ \A l \in DOMAIN x.due :
          \/ x.pc = "notify" /\ l \in x.lease
          \/ x.due[l] = NextPeriodForLease(l, x.month)
    /\ x.pc = "notify" => \A l \in x.lease : ~Due(x, l)
    /\ x.pc \in {"create", "notify"} => \E l \in Leases : x.lease = {l}

WorkerOK(x) ==
    /\ x.pc = "reserve" /\ LatestRun(x.month) # 0 =>
          runs[LatestRun(x.month)].status \notin {"SUCCESS", "SKIPPED"}
    /\ x.pc \in Running => x.run \in DOMAIN runs /\ runs[x.run].month = x.month
    /\ x.pc \in Running \ {"fetch"} => LeasesOK(x)

LeaseRows == [status : {"DRAFT", "ACTIVE", "TERMINATED"}, end : Nat]

SerialInv ==
    /\ RunInv /\ spent \in [Bounds -> Nat] /\ leaseRow \in [Leases -> LeaseRows]
    /\ \A v, w \in Workers : v # w => Idle \in {worker[v], worker[w]}
    /\ \A x \in {worker[w] : w \in Workers} : WorkerOK(x)

(* Activation and termination are all that happens to a lease. *)
LEMMA LeaseRowsKept ==
    ASSUME RunInv, leaseRow \in [Leases -> LeaseRows], [Next]_vars
    PROVE  /\ leaseRow' \in [Leases -> LeaseRows]
           /\ leaseRow' = leaseRow
                \/ \E l \in Leases : TerminateLease(l) \/ \E w \in Workers : ActivateLease(w, l)
           /\ \A l \in Leases : TerminateLease(l) =>
                \A k \in Leases : leaseRow'[k] = leaseRow[k] \/ leaseRow'[k].status # "ACTIVE"
           /\ \A w \in Workers, l \in Leases : ActivateLease(w, l) =>
                leaseRow[l].status # "ACTIVE" /\ leaseRow'[l].status = "ACTIVE"
<1>1. leaseRow' = leaseRow
        \/ \E l \in Leases : TerminateLease(l) \/ \E w \in Workers : ActivateLease(w, l)
  <2>1. CASE \E w \in Workers : Progress(w) \/ \E month \in Months : CronTick(w, month)
    BY ZenonT(60), <2>1 DEF Progress, OpenLease, ConsiderLease, CreateRentInvoice, NotifyTenant,
                OpeningsDone, CheckPeriod, Reserve, ReserveRefused, FetchLeases, FinishRun, CronTick
  <2>2. CASE \E w \in Workers : Fails(w)
    BY <2>2 DEF Fails, AbandonRun, OpenLeaseFails, LeaseFails
  <2>3. CASE Users
    BY <2>3 DEF Users, RequestRun, WriteInvoice, DeleteInvoice
  <2>4. CASE Crash \/ Restart \/ Tick \/ UNCHANGED vars
    BY <2>4 DEF Crash, Restart, Tick, vars
  <2> QED  BY <2>1, <2>2, <2>3, <2>4 DEF Next
<1>2. ASSUME NEW l \in Leases, TerminateLease(l)
      PROVE  /\ leaseRow' \in [Leases -> LeaseRows]
             /\ \A k \in Leases : leaseRow'[k] = leaseRow[k] \/ leaseRow'[k].status # "ACTIVE"
  <2>1. leaseRow[l] \in LeaseRows  OBVIOUS
  <2>2. PICK row : row = [status |-> "TERMINATED",
                          end |-> IF leaseRow[l].end = 0 THEN Today ELSE leaseRow[l].end]
    OBVIOUS
  <2>3. Today \in Nat  BY ClockBounds DEF RunInv, Shapes, Today
  <2>4. row \in LeaseRows /\ row.status = "TERMINATED"  BY <2>1, <2>2, <2>3 DEF LeaseRows
  <2>5. leaseRow' = [leaseRow EXCEPT ![l] = row]  BY <1>2, <2>2 DEF TerminateLease
  <2>6. "TERMINATED" # "ACTIVE"  OBVIOUS
  <2> QED  BY <2>4, <2>5, <2>6
<1>3. ASSUME NEW w \in Workers, NEW l \in Leases, ActivateLease(w, l)
      PROVE  /\ leaseRow' \in [Leases -> LeaseRows]
             /\ leaseRow[l].status # "ACTIVE" /\ leaseRow'[l].status = "ACTIVE"
  <2>1. leaseRow[l] \in LeaseRows  OBVIOUS
  <2>2. PICK row : row = [leaseRow[l] EXCEPT !.status = "ACTIVE"]  OBVIOUS
  <2>3. row \in LeaseRows /\ row.status = "ACTIVE"  BY <2>1, <2>2 DEF LeaseRows
  <2>4. leaseRow' = [leaseRow EXCEPT ![l] = row] /\ leaseRow[l].status # "ACTIVE"
    BY <1>3, <2>2 DEF ActivateLease
  <2> QED  BY <2>3, <2>4
<1> QED  BY <1>1, <1>2, <1>3

(* A worker at rest knows nothing. *)
LEMMA RestIsOK ==
    ASSUME NEW x, x.pc \in {"idle", "opening", "check"}
    PROVE  WorkerOK(x) /\ WorkerOK(x)'
  BY DEF WorkerOK, Running

(* The period of a lease depends on its invoices, and where cycles are shared  *)
(* on the leases in force.                                                     *)
LEMMA PeriodStays ==
    ASSUME NEW l, NEW base, InvoicesOf(l)' = InvoicesOf(l), leaseRow' = leaseRow \/ ~Synchronized
    PROVE  NextPeriodForLease(l, base)' = NextPeriodForLease(l, base)
<1>1. LastEnd(l)' = LastEnd(l)  BY DEF LastEnd
<1>2. FollowingPeriod(l, base)' = FollowingPeriod(l, base)  BY <1>1 DEF FollowingPeriod
<1>3. CASE ~Synchronized  BY <1>2, <1>3 DEF NextPeriodForLease
<1>4. CASE leaseRow' = leaseRow
  <2>1. Quarterlies' = Quarterlies  BY <1>4 DEF Quarterlies
  <2>2. AnchorMonth' = AnchorMonth  BY <2>1 DEF AnchorMonth
  <2>3. AlignedPeriod(l, base)' = AlignedPeriod(l, base)  BY <1>1, <2>2 DEF AlignedPeriod
  <2> QED  BY <1>2, <2>1, <2>3 DEF NextPeriodForLease
<1> QED  BY <1>3, <1>4

(* No lease becomes due while no invoice is deleted and none is activated.     *)
LEMMA DueStays ==
    ASSUME NEW l \in Leases, NEW m, NEW asOf, InvoicesOf(l)' = InvoicesOf(l),
           leaseRow' = leaseRow \/ ~Synchronized,
           leaseRow'[l] = leaseRow[l] \/ leaseRow'[l].status # "ACTIVE",
           Billable(l, m, asOf)'
    PROVE  Billable(l, m, asOf)
<1>1. NextPeriodForLease(l, m)' = NextPeriodForLease(l, m)  BY PeriodStays
<1>2. AlreadyBilled(l, NextPeriodForLease(l, m))' <=> AlreadyBilled(l, NextPeriodForLease(l, m))
  BY <1>1 DEF AlreadyBilled, Overlap
<1>3. Eligible(l, m, asOf)  BY DEF Billable, Eligible
<1> QED  BY <1>1, <1>2, <1>3 DEF Billable

(* A step beside the run. *)
LEMMA WorkerStays ==
    ASSUME NEW x, WorkerOK(x), UNCHANGED <<runs, invoices>>,
           leaseRow' = leaseRow \/ ~Synchronized,
           \A l \in Leases : leaseRow'[l] = leaseRow[l] \/ leaseRow'[l].status # "ACTIVE"
    PROVE  WorkerOK(x)'
<1>1. LatestRun(x.month)' = LatestRun(x.month)  BY DEF LatestRun
<1>2. \A l : InvoicesOf(l)' = InvoicesOf(l)  BY DEF InvoicesOf
<1>3. \A l \in Leases : Due(x, l)' => Due(x, l)  BY <1>2, DueStays DEF Due
<1>4. \A l : NextPeriodForLease(l, x.month)' = NextPeriodForLease(l, x.month)  BY <1>2, PeriodStays
<1>5. ASSUME LeasesOK(x) PROVE LeasesOK(x)'
  <2>1. (\A l \in Leases : Due(x, l) => l \in DOMAIN x.due \/ "failed" \in x.results)'
    BY <1>3, <1>5 DEF LeasesOK
  <2>2. (\A l \in DOMAIN x.due :
            \/ x.pc = "notify" /\ l \in x.lease
            \/ x.due[l] = NextPeriodForLease(l, x.month))'
    BY <1>4, <1>5 DEF LeasesOK
  <2>3. (x.pc = "notify" => \A l \in x.lease : ~Due(x, l))'
    <3> SUFFICES ASSUME x.pc = "notify", NEW l \in x.lease, Due(x, l)' PROVE FALSE
      OBVIOUS
    <3>1. l \in Leases  BY <1>5 DEF LeasesOK
    <3> QED  BY <1>3, <1>5, <3>1 DEF LeasesOK
  <2>4. x.pc \in {"create", "notify"} => \E l \in Leases : x.lease = {l}  BY <1>5 DEF LeasesOK
  <2> QED  BY <2>1, <2>2, <2>3, <2>4 DEF LeasesOK
<1> QED  BY <1>1, <1>5 DEF WorkerOK

(* A step of one worker: the others are at rest, before and after. *)
LEMMA OneMoves ==
    ASSUME SerialInv, [Next]_vars, OneAtATime, NEW w \in Workers, NEW x,
           Become(w, x), worker[w].pc # "idle" \/ x.pc # "idle", WorkerOK(x)'
    PROVE  SerialInv'
<1>1. RunInv' /\ spent' \in [Bounds -> Nat] /\ leaseRow' \in [Leases -> LeaseRows]
  BY RunNext, SpentKept, LeaseRowsKept DEF SerialInv
<1>2. worker = [v \in Workers |-> worker[v]]  BY DEF SerialInv, RunInv, Shapes
<1>3. worker'[w] = x /\ \A v \in Workers \ {w} : worker'[v] = worker[v]  BY <1>2 DEF Become
<1>4. \A u, v \in Workers : u # v => Idle \in {worker'[u], worker'[v]}  BY DEF OneAtATime
<1>5. Idle.pc = "idle"  BY DEF Idle
<1>6. ASSUME NEW v \in Workers \ {w} PROVE worker'[v] = Idle
  <2>1. CASE worker[w].pc # "idle"  BY <1>3, <1>5, <2>1 DEF SerialInv
  <2>2. CASE x.pc # "idle"  BY <1>3, <1>4, <1>5, <2>2
  <2> QED  BY <2>1, <2>2
<1>7. ASSUME NEW y \in {worker'[v] : v \in Workers} PROVE WorkerOK(y)'
  <2>1. CASE y = x  BY <2>1
  <2>2. CASE y # x
    <3>1. y = Idle  BY <1>3, <1>6, <1>7, <2>2
    <3> QED  BY <1>5, <3>1, RestIsOK
  <2> QED  BY <2>1, <2>2
<1>8. (\A y \in {worker[v] : v \in Workers} : WorkerOK(y))'  BY <1>7
<1> QED  BY <1>1, <1>4, <1>8 DEF SerialInv

(* A worker that has nothing to remember yet, or any more. *)
LEMMA RestMoves ==
    ASSUME SerialInv, [Next]_vars, OneAtATime, NEW w \in Workers, NEW x,
           Become(w, x), worker[w].pc # "idle" \/ x.pc # "idle",
           x.pc \in {"idle", "opening", "check"}
    PROVE  SerialInv'
BY OneMoves, RestIsOK

(* A worker that looks at the rows and changes none of them. *)
LEMMA ReaderMoves ==
    ASSUME SerialInv, [Next]_vars, OneAtATime, NEW w \in Workers, NEW x,
           Become(w, x), worker[w].pc # "idle", UNCHANGED <<leaseRow, runs, invoices>>,
           WorkerOK(x)
    PROVE  SerialInv'
<1>1. WorkerOK(x)'  BY WorkerStays
<1> QED  BY <1>1, OneMoves

(* The fields that a step of a lease leaves behind. *)
LEMMA DoneFields ==
    ASSUME NEW w, NEW l, NEW outcome, Shaped(worker[w]), NEW y, y = Done(w, l, outcome)
    PROVE  /\ y.pc = "bill" /\ y.month = worker[w].month /\ y.run = worker[w].run
           /\ DOMAIN y.due = DOMAIN worker[w].due \ {l}
           /\ \A k \in DOMAIN y.due : y.due[k] = worker[w].due[k]
           /\ y.results = worker[w].results \cup {outcome}
<1> DEFINE due == [k \in DOMAIN worker[w].due \ {l} |-> worker[w].due[k]]
           results == worker[w].results \cup {outcome}
<1>1. y = [worker[w] EXCEPT !.pc = "bill", !.lease = {}, !.due = due, !.results = results]
  BY DEF Done
<1>2. DOMAIN due = DOMAIN worker[w].due \ {l} /\ \A k \in DOMAIN due : due[k] = worker[w].due[k]
  OBVIOUS
<1> HIDE DEF due
<1>3. y.results = results /\ y.due = due  BY <1>1 DEF Shaped
<1>4. y.pc = "bill" /\ y.month = worker[w].month /\ y.run = worker[w].run  BY <1>1 DEF Shaped
<1> QED  BY <1>2, <1>3, <1>4

(* A lease that a run is done with was not due, or counts as failed.           *)
LEMMA DoneOK ==
    ASSUME NEW w, NEW l, NEW outcome, Shaped(worker[w]), WorkerOK(worker[w]),
           worker[w].pc \in {"bill", "create", "notify"},
           worker[w].pc # "bill" => l \in worker[w].lease,
           Due(worker[w], l) => outcome = "failed",
           NEW y, y = Done(w, l, outcome)
    PROVE  WorkerOK(y)
<1> DEFINE x == worker[w]
<1>1. /\ y.pc = "bill" /\ y.month = x.month /\ y.run = x.run
      /\ DOMAIN y.due = DOMAIN x.due \ {l}
      /\ \A k \in DOMAIN y.due : y.due[k] = x.due[k]
      /\ y.results = x.results \cup {outcome}
  BY DoneFields
<1>2. x.pc \in Running \ {"fetch"} /\ (Due(x, l) => outcome = "failed")  BY DEF Running
<1>3. x.pc # "bill" => x.lease = {l}
  BY <1>2 DEF WorkerOK, LeasesOK
<1>4. \A k : Due(y, k) <=> Due(x, k)  BY <1>1 DEF Due
<1>5. LeasesOK(x) /\ x.run \in DOMAIN runs /\ runs[x.run].month = x.month
  BY <1>2 DEF WorkerOK
<1>6. x.pc = "notify" => x.pc # "bill"  OBVIOUS
<1> HIDE DEF x
<1>7. \A k \in Leases : Due(y, k) => k \in DOMAIN y.due \/ "failed" \in y.results
  BY <1>1, <1>2, <1>4, <1>5 DEF LeasesOK
<1>8. \A k \in DOMAIN y.due : y.due[k] = NextPeriodForLease(k, y.month)
  BY <1>1, <1>3, <1>5, <1>6 DEF LeasesOK
<1>9. LeasesOK(y)  BY <1>1, <1>7, <1>8 DEF LeasesOK
<1> QED  BY <1>1, <1>5, <1>9 DEF WorkerOK, Running

(* Looking at a lease: it has an invoice already, or its period is the one     *)
(* that its invoice would have.                                                *)
LEMMA ConsiderKeeps ==
    ASSUME SerialInv, [Next]_vars, OneAtATime, NEW w \in Workers, NEW l \in Leases,
           ConsiderLease(w, l)
    PROVE  SerialInv'
<1>1. Shaped(worker[w]) /\ WorkerOK(worker[w])  BY DEF SerialInv, RunInv, Shapes
<1>2. worker[w].pc = "bill" /\ l \in DOMAIN worker[w].due /\ UNCHANGED <<leaseRow, runs, invoices>>
  BY DEF ConsiderLease
<1>3. /\ LeasesOK(worker[w])
      /\ worker[w].run \in DOMAIN runs /\ runs[worker[w].run].month = worker[w].month
  BY <1>1, <1>2 DEF WorkerOK, Running
<1>4. worker[w].due[l] = NextPeriodForLease(l, worker[w].month)  BY <1>2, <1>3 DEF LeasesOK
<1>5. CASE worker[w].due[l] = NoPeriod \/ AlreadyBilled(l, worker[w].due[l])
  <2>1. ~Due(worker[w], l)  BY <1>4, <1>5 DEF Due, Billable
  <2>2. PICK y : y = Done(w, l, "skipped")  OBVIOUS
  <2>3. Become(w, y)  BY <1>5, <2>2 DEF ConsiderLease
  <2>4. WorkerOK(y)  BY <1>1, <1>2, <2>1, <2>2, DoneOK
  <2> QED  BY <1>2, <2>3, <2>4, ReaderMoves
<1>6. CASE ~(worker[w].due[l] = NoPeriod \/ AlreadyBilled(l, worker[w].due[l]))
  <2>1. PICK y : y = [worker[w] EXCEPT !.pc = "create", !.lease = {l}]  OBVIOUS
  <2>2. Become(w, y)  BY <1>6, <2>1 DEF ConsiderLease
  <2>3. /\ y.pc = "create" /\ y.lease = {l} /\ y.month = worker[w].month /\ y.run = worker[w].run
        /\ y.due = worker[w].due /\ y.results = worker[w].results
    BY <1>1, <2>1 DEF Shaped
  <2>4. \A k : Due(y, k) <=> Due(worker[w], k)  BY <2>3 DEF Due
  <2>5. LeasesOK(y)  BY <1>2, <1>3, <2>3, <2>4 DEF LeasesOK
  <2>6. WorkerOK(y)  BY <1>3, <2>3, <2>5 DEF WorkerOK, Running
  <2> QED  BY <1>2, <2>2, <2>6, ReaderMoves
<1> QED  BY <1>5, <1>6

(* A period found for a month opens in that month. *)
LEMMA PeriodOpensInMonth ==
    ASSUME NEW l, NEW base
    PROVE  /\ NextPeriodForLease(l, base) # NoPeriod => MonthOf(NextPeriodForLease(l, base).start) = base
           /\ (NextPeriodForLease(l, base) # NoPeriod => MonthOf(NextPeriodForLease(l, base).start) = base)'
<1>1. FollowingPeriod(l, base) # NoPeriod => MonthOf(FollowingPeriod(l, base).start) = base
  BY DEF FollowingPeriod
<1>2. AlignedPeriod(l, base) # NoPeriod => MonthOf(AlignedPeriod(l, base).start) = base
  BY DEF AlignedPeriod, Period
<1>3. (FollowingPeriod(l, base) # NoPeriod => MonthOf(FollowingPeriod(l, base).start) = base)'
  BY DEF FollowingPeriod
<1>4. (AlignedPeriod(l, base) # NoPeriod => MonthOf(AlignedPeriod(l, base).start) = base)'
  BY DEF AlignedPeriod, Period
<1> QED  BY <1>1, <1>2, <1>3, <1>4 DEF NextPeriodForLease

(* A lease that was just invoiced for a month is not due in it. *)
LEMMA InvoicedIsNotDue ==
    ASSUME NEW l \in Leases, NEW m, NEW asOf, Billable(l, m, asOf), InsertInvoice(l, m)
    PROVE  ~Billable(l, m, asOf)'
<1>1. PICK i : i = Invoice(l, NextPeriodForLease(l, m))  OBVIOUS
<1>2. MonthOf(i.start) = m /\ i.lease = l  BY <1>1, PeriodOpensInMonth DEF Billable, Invoice
<1>3. i \in InvoicesOf(l)'  BY <1>1, <1>2 DEF InsertInvoice, InvoicesOf
<1>4. PICK q : q = NextPeriodForLease(l, m)'  OBVIOUS
<1>5. CASE q = NoPeriod  BY <1>4, <1>5 DEF Billable
<1>6. CASE q # NoPeriod
  <2>1. MonthOf(q.start) = m  BY <1>4, <1>6, PeriodOpensInMonth
  <2>2. AlreadyBilled(l, q)'  BY <1>2, <1>3, <2>1 DEF AlreadyBilled
  <2> QED  BY <1>4, <2>2 DEF Billable
<1> QED  BY <1>5, <1>6

(* The invoice of a lease: it is due no more, and the others as they were.     *)
LEMMA CreateKeeps ==
    ASSUME SerialInv, [Next]_vars, OneAtATime, NEW w \in Workers, NEW l \in Leases,
           CreateRentInvoice(w, l)
    PROVE  SerialInv'
<1> DEFINE m == worker[w].month
<1>1. Shaped(worker[w]) /\ WorkerOK(worker[w])  BY DEF SerialInv, RunInv, Shapes
<1>2. worker[w].pc = "create" /\ l \in worker[w].lease /\ UNCHANGED <<leaseRow, runs>>
  BY DEF CreateRentInvoice
<1>3. /\ LeasesOK(worker[w])
      /\ worker[w].run \in DOMAIN runs /\ runs[worker[w].run].month = worker[w].month
  BY <1>1, <1>2 DEF WorkerOK, Running
<1>4. CASE Billable(l, m, FirstDay[m])
  <2>1. PICK y : y = [worker[w] EXCEPT !.pc = "notify"]  OBVIOUS
  <2>2. Become(w, y) /\ InsertInvoice(l, m)  BY <1>4, <2>1 DEF CreateRentInvoice
  <2>3. /\ y.pc = "notify" /\ y.lease = worker[w].lease /\ y.month = m /\ y.run = worker[w].run
        /\ y.due = worker[w].due /\ y.results = worker[w].results
    BY <1>1, <2>1 DEF Shaped
  <2>4. y.lease = {l}  BY <1>2, <1>3, <2>3 DEF LeasesOK
  <2>5. PICK month : month = m  OBVIOUS
  <2>6. ~Due(y, l)'
    <3>1. Billable(l, month, FirstDay[month]) /\ InsertInvoice(l, month)  BY <1>4, <2>2, <2>5
    <3>2. ~Billable(l, month, FirstDay[month])'  BY <3>1, InvoicedIsNotDue
    <3> QED  BY <2>3, <2>5, <3>2 DEF Due
  <2>7. \A k : k # l => InvoicesOf(k)' = InvoicesOf(k)
    BY <2>2 DEF InsertInvoice, InvoicesOf, Invoice
  <2>8. ASSUME NEW k \in Leases, Due(y, k)' PROVE k \in DOMAIN y.due \/ "failed" \in y.results
    <3>1. k # l  BY <2>6, <2>8
    <3>2. Due(y, k)  BY <1>2, <2>7, <2>8, <3>1, DueStays DEF Due
    <3>3. Due(worker[w], k)  BY <2>3, <3>2 DEF Due
    <3> QED  BY <1>3, <2>3, <3>3 DEF LeasesOK
  <2>9. ASSUME NEW k \in DOMAIN y.due, k # l PROVE (y.due[k] = NextPeriodForLease(k, y.month))'
    <3>1. y.due[k] = NextPeriodForLease(k, y.month)  BY <1>2, <1>3, <2>3, <2>9 DEF LeasesOK
    <3>2. NextPeriodForLease(k, y.month)' = NextPeriodForLease(k, y.month)
      BY <1>2, <2>7, <2>9, PeriodStays
    <3> QED  BY <3>1, <3>2
  <2>10. LeasesOK(y)'
    <3>1. (\A k \in Leases : Due(y, k) => k \in DOMAIN y.due \/ "failed" \in y.results)'  BY <2>8
    <3>2. (\A k \in DOMAIN y.due :
             \/ y.pc = "notify" /\ k \in y.lease
             \/ y.due[k] = NextPeriodForLease(k, y.month))'
      BY <2>3, <2>4, <2>9
    <3>3. (y.pc = "notify" => \A k \in y.lease : ~Due(y, k))'  BY <2>4, <2>6
    <3>4. \E k \in Leases : y.lease = {k}  BY <2>4
    <3> QED  BY <3>1, <3>2, <3>3, <3>4 DEF LeasesOK
  <2>11. WorkerOK(y)'  BY <1>2, <1>3, <2>3, <2>10 DEF WorkerOK, Running
  <2> QED  BY <1>2, <2>2, <2>11, OneMoves
<1>5. CASE ~Billable(l, m, FirstDay[m])
  <2>1. ~Due(worker[w], l)  BY <1>5 DEF Due
  <2>2. PICK y : y = Done(w, l, "failed")  OBVIOUS
  <2>3. Become(w, y) /\ UNCHANGED invoices  BY <1>5, <2>2 DEF CreateRentInvoice
  <2>4. WorkerOK(y)  BY <1>1, <1>2, <2>2, DoneOK
  <2> QED  BY <1>2, <2>3, <2>4, ReaderMoves
<1> QED  BY <1>4, <1>5

(* The end of a lease's turn: its invoice was made, or it failed. *)
LEMMA TurnKeeps ==
    ASSUME SerialInv, [Next]_vars, OneAtATime, NEW w \in Workers, NEW l \in Leases,
           NotifyTenant(w, l) \/ LeaseFails(w, l)
    PROVE  SerialInv'
<1>1. Shaped(worker[w]) /\ WorkerOK(worker[w])  BY DEF SerialInv, RunInv, Shapes
<1>2. /\ worker[w].pc \in {"create", "notify"} /\ l \in worker[w].lease
      /\ UNCHANGED <<leaseRow, runs, invoices>>
  BY DEF NotifyTenant, LeaseFails
<1>3. CASE NotifyTenant(w, l)
  <2>1. worker[w].pc = "notify"  BY <1>3 DEF NotifyTenant
  <2>2. ~Due(worker[w], l)  BY <1>1, <1>2, <2>1 DEF WorkerOK, Running, LeasesOK
  <2>3. PICK y : y = Done(w, l, "created")  OBVIOUS
  <2>4. Become(w, y)  BY <1>3, <2>3 DEF NotifyTenant
  <2>5. WorkerOK(y)  BY <1>1, <1>2, <2>2, <2>3, DoneOK
  <2> QED  BY <1>2, <2>4, <2>5, ReaderMoves
<1>4. CASE LeaseFails(w, l)
  <2>1. PICK y : y = Done(w, l, "failed")  OBVIOUS
  <2>2. Become(w, y)  BY <1>4, <2>1 DEF LeaseFails
  <2>3. WorkerOK(y)  BY <1>1, <1>2, <2>1, DoneOK
  <2> QED  BY <1>2, <2>2, <2>3, ReaderMoves
<1> QED  BY <1>3, <1>4

(* The start of a run: the check of its month, its row, its leases. *)
LEMMA CheckKeeps ==
    ASSUME SerialInv, [Next]_vars, OneAtATime, NEW w \in Workers, CheckPeriod(w)
    PROVE  SerialInv'
<1>1. Shaped(worker[w])  BY DEF SerialInv, RunInv, Shapes
<1>2. worker[w].pc = "check" /\ UNCHANGED <<leaseRow, runs, invoices>>  BY DEF CheckPeriod
<1>3. CASE Blocked(worker[w].month)
  <2>1. Become(w, Idle) /\ Idle.pc = "idle"  BY <1>3 DEF CheckPeriod, Idle
  <2> QED  BY <1>2, <2>1, RestMoves
<1>4. CASE ~Blocked(worker[w].month)
  <2>1. PICK y : y = [worker[w] EXCEPT !.pc = "reserve"]  OBVIOUS
  <2>2. Become(w, y)  BY <1>4, <2>1 DEF CheckPeriod
  <2>3. y.pc = "reserve" /\ y.month = worker[w].month  BY <1>1, <2>1 DEF Shaped
  <2>4. WorkerOK(y)  BY <1>4, <2>3 DEF WorkerOK, Running, Blocked
  <2> QED  BY <1>2, <2>2, <2>4, ReaderMoves
<1> QED  BY <1>3, <1>4

(* What reserving a run does to the rows. *)
LEMMA ReservedRow ==
    ASSUME runs \in Seq(Rows), NEW w, Reserve(w)
    PROVE  /\ DOMAIN runs' = DOMAIN runs \cup {Len(runs) + 1}
           /\ Len(runs) + 1 \in DOMAIN runs' /\ Len(runs) + 1 \notin DOMAIN runs
           /\ runs'[Len(runs) + 1].month = worker[w].month
           /\ \A r \in DOMAIN runs :
                runs'[r] = runs[r] \/ runs'[r].status \notin {"SUCCESS", "SKIPPED"}
<1> DEFINE row    == RunningRow(worker[w].month)
           others == [r \in DOMAIN runs |->
                        IF r = row THEN [runs[r] EXCEPT !.status = "FAILED"] ELSE runs[r]]
           new    == Run(worker[w].month, now)
<1>1. runs' = Append(others, new)  BY DEF Reserve
<1>2. new.month = worker[w].month  BY DEF Run
<1> HIDE DEF row, new
<1>3. ASSUME NEW r \in DOMAIN runs
      PROVE  /\ others[r] = runs[r] \/ others[r].status \notin {"SUCCESS", "SKIPPED"}
             /\ others[r] \in Rows
  <2>1. runs[r] \in Rows  OBVIOUS
  <2>2. PICK closed : closed = [runs[r] EXCEPT !.status = "FAILED"]  OBVIOUS
  <2>3. closed \in Rows /\ closed.status = "FAILED"  BY <2>1, <2>2, Closing DEF RunStatuses
  <2>4. others[r] = IF r = row THEN closed ELSE runs[r]  BY <2>2
  <2> HIDE DEF others
  <2> QED  BY <2>1, <2>3, <2>4
<1>4. others \in Seq(Rows) /\ Len(others) = Len(runs)  BY <1>3
<1> HIDE DEF others
<1>5. /\ Len(runs') = Len(runs) + 1 /\ DOMAIN runs' = 1..(Len(runs) + 1)
      /\ DOMAIN runs = 1..Len(runs) /\ Len(runs) \in Nat
      /\ runs'[Len(runs) + 1] = new /\ \A r \in DOMAIN runs : runs'[r] = others[r]
  BY <1>1, <1>4
<1> QED  BY <1>2, <1>3, <1>5

LEMMA ReserveKeeps ==
    ASSUME SerialInv, [Next]_vars, OneAtATime, NEW w \in Workers, Reserve(w)
    PROVE  SerialInv'
<1>1. Shaped(worker[w]) /\ runs \in Seq(Rows)  BY DEF SerialInv, RunInv, Shapes
<1>2. PICK y : y = [worker[w] EXCEPT !.pc = "fetch", !.run = Len(runs) + 1]  OBVIOUS
<1>3. Become(w, y) /\ worker[w].pc = "reserve"  BY <1>2 DEF Reserve
<1>4. y.pc = "fetch" /\ y.month = worker[w].month /\ y.run = Len(runs) + 1  BY <1>1, <1>2 DEF Shaped
<1>5. Len(runs) + 1 \in DOMAIN runs' /\ runs'[Len(runs) + 1].month = worker[w].month
  BY <1>1, ReservedRow
<1>6. WorkerOK(y)'  BY <1>4, <1>5 DEF WorkerOK, Running
<1> QED  BY <1>3, <1>6, OneMoves

LEMMA FetchKeeps ==
    ASSUME SerialInv, [Next]_vars, OneAtATime, NEW w \in Workers, FetchLeases(w)
    PROVE  SerialInv'
<1> DEFINE month == worker[w].month
           eligible == {l \in Leases : Eligible(l, month, FirstDay[month])}
           due == [l \in eligible |-> NextPeriodForLease(l, month)]
<1>1. Shaped(worker[w]) /\ WorkerOK(worker[w])  BY DEF SerialInv, RunInv, Shapes
<1>2. worker[w].pc = "fetch" /\ UNCHANGED <<leaseRow, runs, invoices>>  BY DEF FetchLeases
<1>3. PICK y : y = [worker[w] EXCEPT !.pc = "bill", !.due = due]  OBVIOUS
<1>4. Become(w, y)  BY <1>3 DEF FetchLeases
<1>5. DOMAIN due = eligible /\ \A l \in eligible : due[l] = NextPeriodForLease(l, month)  OBVIOUS
<1>6. \A l \in Leases : Due(worker[w], l) => l \in eligible  BY DEF Due, Billable
<1> HIDE DEF due
<1>7. y.pc = "bill" /\ y.month = worker[w].month /\ y.run = worker[w].run /\ y.due = due
  BY <1>1, <1>3 DEF Shaped
<1>8. LeasesOK(y)  BY <1>5, <1>6, <1>7 DEF LeasesOK, Due
<1>9. WorkerOK(y)  BY <1>1, <1>2, <1>7, <1>8 DEF WorkerOK, Running
<1> QED  BY <1>2, <1>4, <1>9, ReaderMoves

(* The steps after which a worker is at rest, or not yet in a run. *)
LEMMA RestKeeps ==
    ASSUME SerialInv, [Next]_vars, OneAtATime, NEW w \in Workers,
           \/ \E month \in Months : CronTick(w, month)
           \/ \E month \in 1..LastMonth : RequestRun(w, month)
           \/ \E l \in Leases : OpenLease(w, l) \/ OpenLeaseFails(w, l)
           \/ OpeningsDone(w) \/ ReserveRefused(w) \/ FinishRun(w) \/ AbandonRun(w)
    PROVE  SerialInv'
<1>1. Shaped(worker[w])  BY DEF SerialInv, RunInv, Shapes
<1>2. Idle.pc = "idle" /\ Shaped(Idle)  BY IdleShaped DEF Idle
<1>3. ASSUME NEW month \in Months, CronTick(w, month) PROVE SerialInv'
  <2>1. PICK y : y = [Idle EXCEPT !.pc = "opening", !.month = month, !.date = Today,
                        !.opening = {l \in Leases : StartDate[l] = Today /\ LastEnd(l) = 0}]
    OBVIOUS
  <2>2. Become(w, y)  BY <1>3, <2>1 DEF CronTick
  <2>3. y.pc = "opening"  BY <2>1 DEF Idle
  <2> QED  BY <2>2, <2>3, RestMoves
<1>4. ASSUME NEW month, RequestRun(w, month) PROVE SerialInv'
  <2>1. PICK y : y = [Idle EXCEPT !.pc = "check", !.month = month]  OBVIOUS
  <2>2. Become(w, y)  BY <1>4, <2>1 DEF RequestRun
  <2>3. y.pc = "check"  BY <2>1 DEF Idle
  <2> QED  BY <2>2, <2>3, RestMoves
<1>5. ASSUME NEW l, OpenLease(w, l) \/ OpenLeaseFails(w, l) PROVE SerialInv'
  <2>1. PICK y : y = [worker[w] EXCEPT !.opening = worker[w].opening \ {l}]  OBVIOUS
  <2>2. Become(w, y) /\ worker[w].pc = "opening"  BY <1>5, <2>1 DEF OpenLease, OpenLeaseFails
  <2>3. y.pc = "opening"  BY <1>1, <2>1, <2>2 DEF Shaped
  <2> QED  BY <2>2, <2>3, RestMoves
<1>6. CASE OpeningsDone(w)
  <2>1. PICK y : y = [worker[w] EXCEPT !.pc = "check"]  OBVIOUS
  <2>2. y.pc = "check"  BY <1>1, <2>1 DEF Shaped
  <2>3. (Become(w, y) \/ Become(w, Idle)) /\ worker[w].pc = "opening"
    BY <1>6, <2>1 DEF OpeningsDone
  <2> QED  BY <1>2, <2>2, <2>3, RestMoves
<1>7. CASE ReserveRefused(w) \/ FinishRun(w) \/ AbandonRun(w)
  <2>1. Become(w, Idle) /\ worker[w].pc # "idle"
    BY <1>7 DEF ReserveRefused, FinishRun, AbandonRun
  <2> QED  BY <1>2, <2>1, RestMoves
<1> QED  BY <1>3, <1>4, <1>5, <1>6, <1>7

(* Activating a lease: nobody is in a run. *)
LEMMA ActivateKeeps ==
    ASSUME SerialInv, [Next]_vars, OneAtATime, NEW w \in Workers, NEW l \in Leases,
           ActivateLease(w, l)
    PROVE  SerialInv'
<1>1. \A v \in Workers : worker[v] = Idle  BY LeaseRowsKept DEF OneAtATime, SerialInv
<1>2. Idle.pc = "idle"  BY DEF Idle
<1>3. PICK y : y = [Idle EXCEPT !.pc = "opening", !.date = Today,
                      !.opening = {k \in {l} : LastEnd(k) = 0}]
  OBVIOUS
<1>4. y.pc = "opening"  BY <1>3 DEF Idle
<1>5. Become(w, y) \/ Become(w, Idle)  BY <1>3 DEF ActivateLease
<1>6. CASE Become(w, y)  BY <1>4, <1>6, RestMoves
<1>7. CASE Become(w, Idle)
  <2>1. \A v \in Workers : worker'[v] = Idle
    BY <1>1, <1>7 DEF Become, SerialInv, RunInv, Shapes
  <2>2. RunInv' /\ spent' \in [Bounds -> Nat] /\ leaseRow' \in [Leases -> LeaseRows]
    BY RunNext, SpentKept, LeaseRowsKept DEF SerialInv
  <2>3. ASSUME NEW x \in {worker'[v] : v \in Workers} PROVE WorkerOK(x)'
    BY <1>2, <2>1, <2>3, RestIsOK
  <2>4. (\A x \in {worker[v] : v \in Workers} : WorkerOK(x))'  BY <2>3
  <2> QED  BY <2>1, <2>2, <2>4 DEF SerialInv
<1> QED  BY <1>5, <1>6, <1>7

(* The steps beside the workers. *)
LEMMA OutsideKeeps ==
    ASSUME Undisturbed, SerialInv, [Next]_vars,
           \/ \E l \in Leases : TerminateLease(l)
           \/ Crash \/ Restart \/ Tick \/ UNCHANGED vars
    PROVE  SerialInv'
<1>1. RunInv' /\ spent' \in [Bounds -> Nat] /\ leaseRow' \in [Leases -> LeaseRows]
  BY RunNext, SpentKept, LeaseRowsKept DEF SerialInv
<1>2. /\ UNCHANGED <<runs, invoices>>
      /\ leaseRow' = leaseRow \/ ~Synchronized
      /\ \A l \in Leases : leaseRow'[l] = leaseRow[l] \/ leaseRow'[l].status # "ACTIVE"
      /\ worker' = worker \/ worker' = [w \in Workers |-> Idle]
  <2>1. ASSUME NEW l \in Leases, TerminateLease(l)
        PROVE  /\ UNCHANGED <<runs, invoices, worker>> /\ ~Synchronized
               /\ \A k \in Leases : leaseRow'[k] = leaseRow[k] \/ leaseRow'[k].status # "ACTIVE"
    <3>1. UNCHANGED <<runs, invoices, worker>> /\ ~Synchronized
      BY <2>1 DEF TerminateLease, Undisturbed
    <3> QED  BY <2>1, <3>1, LeaseRowsKept DEF SerialInv
  <2>2. CASE Crash \/ Restart \/ Tick \/ UNCHANGED vars  BY <2>2 DEF Crash, Restart, Tick, vars
  <2> QED  BY <2>1, <2>2
<1>3. Idle.pc = "idle"  BY DEF Idle
<1>4. ASSUME NEW x \in {worker'[w] : w \in Workers} PROVE WorkerOK(x)'
  <2>1. CASE x = Idle  BY <1>3, <2>1, RestIsOK
  <2>2. CASE x # Idle
    <3>1. WorkerOK(x)  BY <1>2, <1>4, <2>2 DEF SerialInv
    <3> QED  BY <1>2, <3>1, WorkerStays
  <2> QED  BY <2>1, <2>2
<1>5. (\A x \in {worker[w] : w \in Workers} : WorkerOK(x))'  BY <1>4
<1>6. \A v, w \in Workers : v # w => Idle \in {worker'[v], worker'[w]}  BY <1>2 DEF SerialInv
<1> QED  BY <1>1, <1>5, <1>6 DEF SerialInv

LEMMA SerialInit == Init => SerialInv
<1> SUFFICES ASSUME Init PROVE SerialInv
  OBVIOUS
<1>1. RunInv  BY RunInit
<1>2. spent \in [Bounds -> Nat] /\ \A w \in Workers : worker[w] = Idle  BY DEF Init
<1>3. leaseRow \in [Leases -> LeaseRows]
  <2>1. ASSUME NEW l \in Leases
        PROVE  [status |-> IF l \in Drafts THEN "DRAFT" ELSE "ACTIVE", end |-> 0] \in LeaseRows
    BY DEF LeaseRows
  <2> QED  BY <2>1 DEF Init
<1>4. ASSUME NEW x \in {worker[w] : w \in Workers} PROVE WorkerOK(x)
  <2>1. x = Idle /\ Idle.pc = "idle"  BY <1>2, <1>4 DEF Idle
  <2> QED  BY <2>1, RestIsOK
<1> QED  BY <1>1, <1>2, <1>3, <1>4 DEF SerialInv

LEMMA SerialNext == Undisturbed /\ SerialInv /\ [Next /\ OneAtATime]_vars => SerialInv'
<1> SUFFICES ASSUME Undisturbed, SerialInv, [Next /\ OneAtATime]_vars PROVE SerialInv'
  OBVIOUS
<1>0. [Next]_vars  OBVIOUS
<1>1. CASE UNCHANGED vars  BY <1>0, <1>1, OutsideKeeps
<1> SUFFICES ASSUME Next, OneAtATime PROVE SerialInv'
  BY <1>1
<1>2. ASSUME NEW w \in Workers, NEW month \in Months, CronTick(w, month) PROVE SerialInv'
  BY <1>0, <1>2, RestKeeps
<1>3. ASSUME NEW w \in Workers, Progress(w) PROVE SerialInv'
  <2>1. ASSUME NEW l \in Leases,
               OpenLease(w, l) \/ ConsiderLease(w, l) \/ CreateRentInvoice(w, l) \/ NotifyTenant(w, l)
        PROVE  SerialInv'
    BY <1>0, <2>1, RestKeeps, ConsiderKeeps, CreateKeeps, TurnKeeps
  <2>2. CASE OpeningsDone(w) \/ ReserveRefused(w) \/ FinishRun(w)  BY <1>0, <2>2, RestKeeps
  <2>3. CASE CheckPeriod(w) \/ Reserve(w) \/ FetchLeases(w)
    BY <1>0, <2>3, CheckKeeps, ReserveKeeps, FetchKeeps
  <2> QED  BY <1>3, <2>1, <2>2, <2>3 DEF Progress
<1>4. ASSUME NEW w \in Workers, Fails(w) PROVE SerialInv'
  BY <1>0, <1>4, RestKeeps, TurnKeeps DEF Fails
<1>5. CASE Users
  <2>1. ASSUME NEW w \in Workers, NEW month \in 1..LastMonth, RequestRun(w, month) PROVE SerialInv'
    BY <1>0, <2>1, RestKeeps
  <2>2. ASSUME NEW w \in Workers, NEW l \in Leases, ActivateLease(w, l) PROVE SerialInv'
    BY <1>0, <2>2, ActivateKeeps
  <2>3. CASE \E l \in Leases : TerminateLease(l)  BY <1>0, <2>3, OutsideKeeps
  <2>4. ASSUME NEW l, NEW month, WriteInvoice(l, month) PROVE FALSE
    BY <2>4 DEF WriteInvoice, Undisturbed
  <2>5. ASSUME NEW i, DeleteInvoice(i) PROVE FALSE
    BY <2>5 DEF DeleteInvoice, Spend, Undisturbed, SerialInv, Bounds
  <2> QED  BY <1>5, <2>1, <2>2, <2>3, <2>4, <2>5 DEF Users
<1>6. CASE Crash \/ Restart \/ Tick  BY <1>0, <1>6, OutsideKeeps
<1> QED  BY <1>2, <1>3, <1>4, <1>5, <1>6 DEF Next

(* Who touches the rows of the runs. *)
LEMMA StepOnRuns ==
    ASSUME [Next]_vars
    PROVE  runs' = runs \/ \E w \in Workers : Reserve(w) \/ FinishRun(w)
<1>1. CASE \E w \in Workers : Progress(w) \/ \E month \in Months : CronTick(w, month)
  BY ZenonT(60), <1>1 DEF Progress, OpenLease, ConsiderLease, CreateRentInvoice, NotifyTenant,
              OpeningsDone, CheckPeriod, ReserveRefused, FetchLeases, CronTick
<1>2. CASE \E w \in Workers : Fails(w)  BY <1>2 DEF Fails, AbandonRun, OpenLeaseFails, LeaseFails
<1>3. CASE Users
  BY <1>3 DEF Users, RequestRun, ActivateLease, TerminateLease, WriteInvoice, DeleteInvoice
<1>4. CASE Crash \/ Restart \/ Tick \/ UNCHANGED vars  BY <1>4 DEF Crash, Restart, Tick, vars
<1> QED  BY <1>1, <1>2, <1>3, <1>4 DEF Next

(* A month that a run closed as SUCCESS is not run again, and a run closes its *)
(* month as SUCCESS or SKIPPED only when no lease is left to bill in it: when  *)
(* one invocation works at a time, whatever fails, crashes or is retried.      *)
THEOREM SerialRunsAreFinal ==
    ASSUME Undisturbed
    PROVE  SerialSpec => SuccessIsFinal
<1> DEFINE Blocks == \A r \in DOMAIN runs' \ DOMAIN runs :
                       LatestRun(runs'[r].month) # 0 =>
                         runs[LatestRun(runs'[r].month)].status # "SUCCESS"
           Final  == \A r \in DOMAIN runs :
                       /\ runs[r].status = "RUNNING"
                       /\ runs'[r].status \in {"SUCCESS", "SKIPPED"}
                       => \A l \in Leases : ~Billable(l, runs[r].month, FirstDay[runs[r].month])
<1>1. SerialInv /\ [Next /\ OneAtATime]_vars => Blocks /\ Final
  <2> SUFFICES ASSUME SerialInv, [Next]_vars PROVE Blocks /\ Final
    OBVIOUS
  <2>0. runs \in Seq(Rows)  BY DEF SerialInv, RunInv, Shapes
  <2>1. CASE runs' = runs  BY <2>1
  <2>2. ASSUME NEW w \in Workers, Reserve(w) PROVE Blocks /\ Final
    <3>1. /\ DOMAIN runs' = DOMAIN runs \cup {Len(runs) + 1}
          /\ runs'[Len(runs) + 1].month = worker[w].month
          /\ \A r \in DOMAIN runs :
               runs'[r] = runs[r] \/ runs'[r].status \notin {"SUCCESS", "SKIPPED"}
      BY <2>0, <2>2, ReservedRow
    <3>2. WorkerOK(worker[w]) /\ worker[w].pc = "reserve"  BY <2>2 DEF SerialInv, Reserve
    <3>3. Blocks  BY <3>1, <3>2 DEF WorkerOK
    <3>4. Final  BY <3>1
    <3> QED  BY <3>3, <3>4
  <2>3. ASSUME NEW w \in Workers, FinishRun(w) PROVE Blocks /\ Final
    <3> DEFINE x == worker[w]
               status == RunStatus(x.results # {}, x.results)
    <3>1. WorkerOK(x) /\ x.pc = "bill" /\ DOMAIN x.due = {}
          /\ runs' = [runs EXCEPT ![x.run].status = status]
      BY <2>3 DEF SerialInv, FinishRun
    <3>2. LeasesOK(x) /\ x.run \in DOMAIN runs /\ runs[x.run].month = x.month
      BY <3>1 DEF WorkerOK, Running
    <3>3. status \in {"SUCCESS", "SKIPPED"} => "failed" \notin x.results
      BY DEF RunStatus
    <3>4. status \in {"SUCCESS", "SKIPPED"} => \A l \in Leases : ~Due(x, l)
      BY <3>1, <3>2, <3>3 DEF LeasesOK
    <3> HIDE DEF x, status
    <3>5. DOMAIN runs' = DOMAIN runs
          /\ \A r \in DOMAIN runs : runs'[r] = IF r = x.run THEN [runs[r] EXCEPT !.status = status] ELSE runs[r]
      BY <2>0, <3>1
    <3>6. ASSUME NEW r \in DOMAIN runs, runs[r].status = "RUNNING",
                 runs'[r].status \in {"SUCCESS", "SKIPPED"}, NEW l \in Leases
          PROVE  ~Billable(l, runs[r].month, FirstDay[runs[r].month])
      <4>1. r = x.run /\ status \in {"SUCCESS", "SKIPPED"}
        <5>1. runs[r] \in Rows  BY <2>0
        <5>2. r = x.run  BY <3>5, <3>6
        <5>3. runs'[r] = [runs[r] EXCEPT !.status = status]  BY <3>5, <5>2
        <5>4. [runs[r] EXCEPT !.status = status].status = status  BY <5>1 DEF Rows
        <5> QED  BY <3>6, <5>2, <5>3, <5>4
      <4> QED  BY <3>2, <3>4, <4>1 DEF Due
    <3> QED  BY <3>5, <3>6
  <2> QED  BY <2>1, <2>2, <2>3, StepOnRuns
<1>2. SerialInv /\ [Next /\ OneAtATime]_vars => SerialInv'  BY SerialNext
<1> QED  BY <1>1, <1>2, SerialInit, PTL DEF SerialSpec, SuccessIsFinal, SuccessBlocksRerun, NothingLeftDue

-----------------------------------------------------------------------------
(* What the periods of a lease add up to, whatever the calendar, the prices    *)
(* and the frequencies. *)

CONSTANTS LeaseStarts, Frequencies

L == INSTANCE BillingChain

ChainRows ==
    /\ LeaseStarts \subseteq Dates /\ Frequencies \subseteq Nat \ {0}
    /\ DOMAIN Price # {} /\ \A c \in DOMAIN Price : Price[c] \in Nat

LEMMA MonthFacts ==
    ASSUME NEW m \in Months
    PROVE  /\ m \in Nat \ {0} /\ m <= Len(MonthLength) /\ Len(MonthLength) \in Nat
           /\ FirstDay[m] \in Nat \ {0} /\ LastDay(m) \in Nat \ {0} /\ MonthLength[m] \in Nat \ {0}
           /\ LastDay(m) = FirstDay[m] + MonthLength[m] - 1
           /\ FirstDay[m + 1] = LastDay(m) + 1
<1>1. /\ Months = 1..Len(MonthLength) /\ Len(MonthLength) \in Nat
      /\ FirstDay[m + 1] = FirstDay[m] + MonthLength[m] /\ MonthLength[m] \in Nat \ {0}
  BY FirstDayStep
<1>2. m \in 1..(Len(MonthLength) + 1) /\ m \in Nat \ {0} /\ m <= Len(MonthLength)  BY <1>1
<1>3. FirstDay[m] \in Nat \ {0}  BY <1>2, FirstDayOrder
<1> QED  BY <1>1, <1>2, <1>3 DEF LastDay

LEMMA MonthOrder ==
    ASSUME NEW k \in Months, NEW m \in Months, k < m
    PROVE  LastDay(k) < FirstDay[m] /\ LastDay(k) < LastDay(m)
<1>1. /\ k + 1 \in 1..(Len(MonthLength) + 1) /\ m \in 1..(Len(MonthLength) + 1)
      /\ k + 1 = m \/ k + 1 < m
  BY MonthFacts
<1>2. FirstDay[k + 1] <= FirstDay[m]
  <2>1. FirstDay[k + 1] \in Nat /\ FirstDay[m] \in Nat  BY <1>1, FirstDayOrder
  <2> QED  BY <1>1, <2>1, FirstDayOrder
<1>3. FirstDay[k + 1] = LastDay(k) + 1 /\ LastDay(k) \in Nat  BY MonthFacts
<1>4. FirstDay[m] \in Nat /\ LastDay(m) \in Nat /\ FirstDay[m] <= LastDay(m)
  <2>1. /\ FirstDay[m] \in Nat \ {0} /\ LastDay(m) \in Nat \ {0} /\ MonthLength[m] \in Nat \ {0}
        /\ LastDay(m) = FirstDay[m] + MonthLength[m] - 1
    BY MonthFacts
  <2> QED  BY <2>1
<1> QED  BY <1>2, <1>3, <1>4

LEMMA MonthEnds ==
    ASSUME NEW m \in Months
    PROVE  /\ LastDay(m) \in Dates /\ FirstDay[m] \in Dates
           /\ MonthOf(LastDay(m)) = m /\ MonthOf(FirstDay[m]) = m
<1>1. /\ m \in Nat \ {0} /\ m <= Len(MonthLength) /\ Len(MonthLength) \in Nat
      /\ FirstDay[m] \in Nat \ {0} /\ LastDay(m) \in Nat /\ FirstDay[m] <= LastDay(m)
  BY MonthFacts
<1>2. Len(MonthLength) \in Months  BY <1>1, FirstDayStep
<1>3. LastDay(m) <= LastDay(Len(MonthLength)) /\ LastDay(Len(MonthLength)) \in Nat
  <2>1. LastDay(Len(MonthLength)) \in Nat  BY <1>2, MonthFacts
  <2>2. m = Len(MonthLength) \/ m < Len(MonthLength)  BY <1>1
  <2> QED  BY <1>1, <1>2, <2>1, <2>2, MonthOrder
<1>4. LastDay(m) \in Dates /\ FirstDay[m] \in Dates  BY <1>1, <1>3 DEF Dates
<1> QED  BY <1>1, <1>4, MonthUnique

(* The line of a month in a period that ends with a month.                     *)
LineAt(d, m, c) ==
    Line(m, c, IF m = MonthOf(d) THEN d ELSE FirstDay[m], LastDay(m),
         m = MonthOf(d) /\ d > FirstDay[m], Price[c])
LinesTo(d, n, c) == {LineAt(d, m, c) : m \in MonthOf(d)..n}

LEMMA CycleLines ==
    ASSUME NEW d \in Dates, NEW n \in MonthOf(d)..Len(MonthLength)
    PROVE  CycleForPeriod(Period(d, LastDay(n)), Price)
             = {LineAt(d, m, c) : m \in MonthOf(d)..n, c \in DOMAIN Price}
<1> DEFINE p == Period(d, LastDay(n))
           o == MonthOf(d)
           From(m) == IF m = o THEN d ELSE FirstDay[m]
           To(m) == IF LastDay(m) > p.end THEN p.end ELSE LastDay(m)
<1>1. o \in Months /\ n \in Months /\ o \in Nat /\ Len(MonthLength) \in Nat /\ FirstDay[o] <= d
  <2>1. o \in Months /\ FirstDay[o] <= d  BY MonthOfDate
  <2>2. o \in Nat \ {0} /\ Len(MonthLength) \in Nat  BY <2>1, MonthFacts
  <2> QED  BY <2>1, <2>2, FirstDayStep
<1>2. p.start = d /\ p.end = LastDay(n) /\ MonthOf(p.end) = n  BY <1>1, MonthEnds DEF Period
<1>3. ASSUME NEW m \in o..n, NEW c \in DOMAIN Price
      PROVE  Line(m, c, From(m), To(m), From(m) > FirstDay[m] \/ To(m) < LastDay(m), Price[c])
               = LineAt(d, m, c)
  <2>1. m \in Months  BY <1>1, FirstDayStep
  <2>2. LastDay(m) \in Nat /\ LastDay(n) \in Nat /\ FirstDay[m] \in Nat  BY <1>1, <2>1, MonthFacts
  <2>3. LastDay(m) <= LastDay(n)
    <3>1. m = n \/ m < n  BY <1>1
    <3> QED  BY <1>1, <2>1, <2>2, <3>1, MonthOrder
  <2>4. To(m) = LastDay(m)  BY <1>2, <2>2, <2>3
  <2>5. (From(m) > FirstDay[m] \/ To(m) < LastDay(m)) <=> (m = o /\ d > FirstDay[m])
    <3>1. ~(To(m) < LastDay(m))  BY <2>2, <2>4
    <3>2. m # o => ~(From(m) > FirstDay[m])  BY <2>2
    <3> QED  BY <3>1, <3>2
  <2>6. (From(m) > FirstDay[m] \/ To(m) < LastDay(m)) = (m = o /\ d > FirstDay[m])  BY <2>5
  <2> HIDE DEF To
  <2> QED  BY <2>4, <2>6 DEF LineAt
<1>4. CycleForPeriod(p, Price)
        = {Line(m, c, From(m), To(m), From(m) > FirstDay[m] \/ To(m) < LastDay(m), Price[c]) :
             m \in o..n, c \in DOMAIN Price}
  BY <1>2 DEF CycleForPeriod
<1> HIDE DEF From, To, p, o
<1>5. CycleForPeriod(p, Price) = {LineAt(d, m, c) : m \in o..n, c \in DOMAIN Price}
  BY <1>3, <1>4
<1> QED  BY <1>5 DEF p, o

LEMMA LineIs ==
    ASSUME NEW d \in Dates, NEW m \in MonthOf(d)..Len(MonthLength), NEW c \in DOMAIN Price
    PROVE  /\ LineAt(d, m, c).month = m /\ LineAt(d, m, c).component = c
           /\ LineAt(d, m, c).days
                = LastDay(m) - (IF m = MonthOf(d) THEN d ELSE FirstDay[m]) + 1
           /\ LineAt(d, m, c).amount
                = IF m = MonthOf(d) /\ d > FirstDay[m]
                  THEN ProratedAmount(Price[c], LastDay(m) - d + 1, MonthLength[m])
                  ELSE Price[c]
<1> DEFINE o == MonthOf(d)
           from == IF m = o THEN d ELSE FirstDay[m]
<1>1. /\ o \in Months /\ FirstDay[o] <= d /\ d <= LastDay(o) /\ o \in Nat /\ Len(MonthLength) \in Nat
      /\ m \in Months
  <2>1. o \in Months /\ FirstDay[o] <= d /\ d <= LastDay(o)  BY MonthOfDate
  <2>2. o \in Nat \ {0} /\ Len(MonthLength) \in Nat  BY <2>1, MonthFacts
  <2> QED  BY <2>1, <2>2, FirstDayStep
<1>2. FirstDay[m] \in Nat /\ LastDay(m) \in Nat /\ FirstDay[m] <= LastDay(m) /\ d \in Int
  <2>1. d \in Int  BY DEF Dates
  <2>2. /\ FirstDay[m] \in Nat \ {0} /\ LastDay(m) \in Nat \ {0} /\ MonthLength[m] \in Nat \ {0}
        /\ LastDay(m) = FirstDay[m] + MonthLength[m] - 1
    BY <1>1, MonthFacts
  <2> QED  BY <2>1, <2>2
<1>3. from \in Int /\ from <= LastDay(m)  BY <1>1, <1>2
<1>4. BillableDays(from, LastDay(m)) = LastDay(m) - from + 1  BY <1>2, <1>3 DEF BillableDays
<1> HIDE DEF from
<1>5. LineAt(d, m, c) = Line(m, c, from, LastDay(m), m = o /\ d > FirstDay[m], Price[c])
  BY DEF LineAt, from
<1>6. /\ LineAt(d, m, c).month = m /\ LineAt(d, m, c).component = c
      /\ LineAt(d, m, c).days = LastDay(m) - from + 1
      /\ LineAt(d, m, c).amount
           = IF m = o /\ d > FirstDay[m]
             THEN ProratedAmount(Price[c], LastDay(m) - from + 1, MonthLength[m])
             ELSE Price[c]
  BY <1>4, <1>5 DEF Line
<1>7. m = o => from = d  BY DEF from
<1> QED  BY <1>6, <1>7 DEF from

LEMMA PeriodLines ==
    ASSUME NEW d \in Dates, NEW n \in MonthOf(d)..Len(MonthLength), NEW c \in DOMAIN Price
    PROVE  LinesOf(Period(d, LastDay(n)), c) = LinesTo(d, n, c)
<1> DEFINE o == MonthOf(d)
<1>1. CycleForPeriod(Period(d, LastDay(n)), Price)
        = {LineAt(d, m, x) : m \in o..n, x \in DOMAIN Price}
  BY CycleLines
<1>2. \A m \in o..n, x \in DOMAIN Price : LineAt(d, m, x).component = x
  <2>1. o \in Months  BY MonthOfDate
  <2>2. o \in Nat /\ Len(MonthLength) \in Nat  BY <2>1, MonthFacts
  <2>3. o..n \subseteq o..Len(MonthLength)  BY <2>2
  <2> QED  BY <2>3, LineIs
<1> HIDE DEF o
<1>3. LinesOf(Period(d, LastDay(n)), c) = {LineAt(d, m, c) : m \in o..n}
  BY <1>1, <1>2 DEF LinesOf
<1> QED  BY <1>3 DEF LinesTo, o

-----------------------------------------------------------------------------
(* One line more.                                                              *)
LEMMA OneLineMore ==
    ASSUME NEW f, NEW g, NEW a, IsFiniteSet(DOMAIN g), a \notin DOMAIN g,
           DOMAIN f = DOMAIN g \cup {a},
           \A x \in DOMAIN g : f[x] = g[x] /\ g[x] \in Int, f[a] \in Int
    PROVE  SumFunction(f) = f[a] + SumFunction(g)
<1> DEFINE S == DOMAIN g
<1>1. SumFunction(f) = SumFunctionOnSet(f, S \cup {a}) /\ SumFunction(g) = SumFunctionOnSet(g, S)
  BY DEF SumFunction
<1>2. IsFiniteSet(S) /\ a \notin S /\ \A x \in S : f[x] = g[x] /\ g[x] \in Int /\ f[x] \in Int  OBVIOUS
<1> HIDE DEF S
<1>3. SumFunctionOnSet(f, S \cup {a}) = f[a] + SumFunctionOnSet(f, S)  BY <1>2, SumAddOne
<1>4. SumFunctionOnSet(f, S) = SumFunctionOnSet(g, S)  BY <1>2, SumEqual
<1> QED  BY <1>1, <1>3, <1>4

(* A whole month pro rata is the month.                                        *)
LEMMA WholeMonth ==
    ASSUME NEW p \in Nat, NEW l \in Nat \ {0}
    PROVE  ProratedAmount(p, l, l) = p
<1> DEFINE b == 2 * l
           q == (2 * (p * l) + l) \div b
<1>1. b \in Nat \ {0} /\ l < b /\ p * l \in Nat  OBVIOUS
<1>2. 2 * (p * l) = b * p  OBVIOUS
<1>3. q = p
  <2>1. (2 * (p * l) + l) = b * p + l  BY <1>2
  <2> QED  BY <1>1, <2>1
<1> QED  BY <1>3 DEF ProratedAmount, RoundedQuotient

LEMMA ProratedType ==
    ASSUME NEW p \in Nat, NEW k \in Int, NEW l \in Nat \ {0}
    PROVE  ProratedAmount(p, k, l) \in Int
<1>1. 2 * (p * k) + l \in Int /\ 2 * l \in Nat \ {0}  OBVIOUS
<1>2. (2 * (p * k) + l) \div (2 * l) \in Int  BY <1>1
<1> QED  BY <1>2 DEF ProratedAmount, RoundedQuotient

(* What a period that ends with a month comes to.                              *)
InFull(d, n, c) ==
    ProratedAmount(Price[c], LastDay(MonthOf(d)) - d + 1, MonthLength[MonthOf(d)])
      + Price[c] * (n - MonthOf(d))

LEMMA LineNumbers ==
    ASSUME ChainRows, NEW d \in Dates, NEW m \in MonthOf(d)..Len(MonthLength), NEW c \in DOMAIN Price
    PROVE  LineAt(d, m, c).days \in Int /\ LineAt(d, m, c).amount \in Int
<1>1. /\ MonthOf(d) \in Months /\ MonthOf(d) \in Nat /\ Len(MonthLength) \in Nat /\ m \in Months
  <2>1. MonthOf(d) \in Months  BY MonthOfDate
  <2>2. MonthOf(d) \in Nat \ {0} /\ Len(MonthLength) \in Nat  BY <2>1, MonthFacts
  <2> QED  BY <2>1, <2>2, FirstDayStep
<1>2. FirstDay[m] \in Nat /\ LastDay(m) \in Nat /\ MonthLength[m] \in Nat \ {0}  BY <1>1, MonthFacts
<1>3. d \in Int  BY DEF Dates
<1>4. Price[c] \in Nat  BY DEF ChainRows
<1>5. LastDay(m) - d + 1 \in Int  BY <1>2, <1>3
<1>6. ProratedAmount(Price[c], LastDay(m) - d + 1, MonthLength[m]) \in Int
  BY <1>2, <1>4, <1>5, ProratedType
<1>7. LineAt(d, m, c).days \in Int  BY <1>2, <1>3, LineIs
<1>8. LineAt(d, m, c).amount \in Int  BY <1>4, <1>6, LineIs
<1> QED  BY <1>7, <1>8

(* The opening month.                                                          *)
LEMMA OpeningLine ==
    ASSUME ChainRows, NEW d \in Dates, NEW c \in DOMAIN Price
    PROVE  /\ LineAt(d, MonthOf(d), c).days = LastDay(MonthOf(d)) - d + 1
           /\ LineAt(d, MonthOf(d), c).amount = InFull(d, MonthOf(d), c)
<1> DEFINE o == MonthOf(d)
           opened == ProratedAmount(Price[c], LastDay(o) - d + 1, MonthLength[o])
<1>1. o \in Months /\ FirstDay[o] <= d /\ d <= LastDay(o)  BY MonthOfDate
<1>2. /\ o \in Nat /\ o \in o..Len(MonthLength) /\ FirstDay[o] \in Nat /\ LastDay(o) \in Nat
      /\ MonthLength[o] \in Nat \ {0} /\ LastDay(o) = FirstDay[o] + MonthLength[o] - 1
  <2>1. /\ o \in Nat \ {0} /\ o <= Len(MonthLength) /\ Len(MonthLength) \in Nat /\ FirstDay[o] \in Nat
        /\ LastDay(o) \in Nat /\ MonthLength[o] \in Nat \ {0}
        /\ LastDay(o) = FirstDay[o] + MonthLength[o] - 1
    BY <1>1, MonthFacts
  <2> QED  BY <2>1
<1>3. d \in Int  BY DEF Dates
<1>4. Price[c] \in Nat  BY DEF ChainRows
<1>5. LastDay(o) - d + 1 \in Int  BY <1>2, <1>3
<1>6. opened \in Int  BY <1>2, <1>4, <1>5, ProratedType
<1>7. /\ LineAt(d, o, c).days = LastDay(o) - d + 1
      /\ LineAt(d, o, c).amount = IF d > FirstDay[o] THEN opened ELSE Price[c]
  BY <1>2, LineIs
<1>8. ~(d > FirstDay[o]) => opened = Price[c]
  <2>1. ASSUME ~(d > FirstDay[o]) PROVE LastDay(o) - d + 1 = MonthLength[o]
    <3>1. d = FirstDay[o]  BY <1>1, <1>2, <1>3, <2>1
    <3>2. LastDay(o) = FirstDay[o] + MonthLength[o] - 1 /\ FirstDay[o] \in Nat /\ MonthLength[o] \in Nat
      BY <1>2
    <3> QED  BY <3>1, <3>2
  <2> QED  BY <1>2, <1>4, <2>1, WholeMonth
<1>9. InFull(d, o, c) = opened + Price[c] * (o - o)  BY DEF InFull
<1> HIDE DEF opened, o
<1>10. Price[c] * (o - o) = 0  BY <1>2, <1>4
<1>11. InFull(d, o, c) = opened  BY <1>6, <1>9, <1>10
<1>12. LineAt(d, o, c).amount = InFull(d, o, c)  BY <1>7, <1>8, <1>11
<1> QED  BY <1>7, <1>12 DEF o

(* The lines up to one month more.                                             *)
LEMMA LinesGrow ==
    ASSUME ChainRows, NEW d \in Dates, NEW c \in DOMAIN Price,
           NEW n \in MonthOf(d)..Len(MonthLength), n + 1 <= Len(MonthLength), IsFiniteSet(LinesTo(d, n, c))
    PROVE  /\ LinesTo(d, n + 1, c) = LinesTo(d, n, c) \cup {LineAt(d, n + 1, c)}
           /\ LineAt(d, n + 1, c) \notin LinesTo(d, n, c)
           /\ IsFiniteSet(LinesTo(d, n + 1, c))
<1> DEFINE o == MonthOf(d)
           a == LineAt(d, n + 1, c)
<1>1. o \in Nat /\ Len(MonthLength) \in Nat
  <2>1. o \in Months  BY MonthOfDate
  <2> QED  BY <2>1, MonthFacts
<1>2. n \in Nat /\ o..(n + 1) = (o..n) \cup {n + 1} /\ n + 1 \in o..Len(MonthLength) /\ n + 1 \notin o..n
      /\ o..n \subseteq o..Len(MonthLength)
  BY <1>1
<1>3. LinesTo(d, n + 1, c) = LinesTo(d, n, c) \cup {a}
  <2> HIDE DEF o
  <2>1. LinesTo(d, n + 1, c) = {LineAt(d, m, c) : m \in o..(n + 1)}  BY DEF LinesTo, o
  <2>2. LinesTo(d, n, c) = {LineAt(d, m, c) : m \in o..n}  BY DEF LinesTo, o
  <2> QED  BY <1>2, <2>1, <2>2
<1>4. a \notin LinesTo(d, n, c)
  <2>1. a.month = n + 1  BY <1>2, LineIs
  <2>2. \A m \in o..n : LineAt(d, m, c).month = m  BY <1>2, LineIs
  <2>3. \A line \in LinesTo(d, n, c) : line.month \in o..n  BY <2>2 DEF LinesTo
  <2> QED  BY <1>2, <2>1, <2>3
<1>5. IsFiniteSet(LinesTo(d, n + 1, c))
  <2> HIDE DEF a
  <2> QED  BY <1>3, FS_AddElement
<1> QED  BY <1>3, <1>4, <1>5

DaysOf(lines) == SumFunction([line \in lines |-> line.days])

LEMMA NoLines == DaysOf({}) = 0 /\ TotalOf({}) = 0
<1>1. ASSUME NEW g, DOMAIN g = {} PROVE SumFunction(g) = 0  BY <1>1, SumEmpty DEF SumFunction
<1> DEFINE days == [line \in {} |-> line.days]
           amounts == [line \in {} |-> line.amount]
<1>2. DOMAIN days = {} /\ DOMAIN amounts = {}  OBVIOUS
<1> HIDE DEF days, amounts
<1>3. SumFunction(days) = 0 /\ SumFunction(amounts) = 0  BY <1>1, <1>2
<1> QED  BY <1>3 DEF days, amounts, DaysOf, TotalOf

LEMMA AddedLine ==
    ASSUME NEW S, IsFiniteSet(S), NEW a, a \notin S,
           \A line \in S \cup {a} : line.days \in Int /\ line.amount \in Int
    PROVE  DaysOf(S \cup {a}) = a.days + DaysOf(S) /\ TotalOf(S \cup {a}) = a.amount + TotalOf(S)
<1>1. DaysOf(S \cup {a}) = a.days + DaysOf(S)
  <2> DEFINE f == [line \in S \cup {a} |-> line.days]
             g == [line \in S |-> line.days]
  <2>1. /\ DOMAIN f = S \cup {a} /\ DOMAIN g = S /\ f[a] = a.days /\ f[a] \in Int
        /\ \A x \in S : f[x] = g[x] /\ g[x] \in Int
    OBVIOUS
  <2> HIDE DEF f, g
  <2>2. SumFunction(f) = f[a] + SumFunction(g)  BY <2>1, OneLineMore
  <2> QED  BY <2>1, <2>2 DEF f, g, DaysOf
<1>2. TotalOf(S \cup {a}) = a.amount + TotalOf(S)
  <2> DEFINE f == [line \in S \cup {a} |-> line.amount]
             g == [line \in S |-> line.amount]
  <2>1. /\ DOMAIN f = S \cup {a} /\ DOMAIN g = S /\ f[a] = a.amount /\ f[a] \in Int
        /\ \A x \in S : f[x] = g[x] /\ g[x] \in Int
    OBVIOUS
  <2> HIDE DEF f, g
  <2>2. SumFunction(f) = f[a] + SumFunction(g)  BY <2>1, OneLineMore
  <2> QED  BY <2>1, <2>2 DEF f, g, TotalOf
<1> QED  BY <1>1, <1>2

(* The days and the amounts of the lines, month after month.                   *)
LEMMA LinesComeTo ==
    ASSUME ChainRows, NEW d \in Dates, NEW c \in DOMAIN Price, NEW n \in MonthOf(d)..Len(MonthLength)
    PROVE  /\ IsFiniteSet(LinesTo(d, n, c))
           /\ DaysOf(LinesTo(d, n, c)) = LastDay(n) - d + 1
           /\ TotalOf(LinesTo(d, n, c)) = InFull(d, n, c)
<1> DEFINE o == MonthOf(d)
           Good(m) == /\ IsFiniteSet(LinesTo(d, m, c))
                      /\ DaysOf(LinesTo(d, m, c)) = LastDay(m) - d + 1
                      /\ TotalOf(LinesTo(d, m, c)) = InFull(d, m, c)
           T == {k \in Nat : o + k <= Len(MonthLength) => Good(o + k)}
<1>0. o \in Months /\ o \in Nat /\ Len(MonthLength) \in Nat /\ d \in Int /\ Price[c] \in Nat
  <2>1. o \in Months  BY MonthOfDate
  <2>2. d \in Int  BY DEF Dates
  <2> QED  BY <2>1, <2>2, MonthFacts DEF ChainRows
<1>1. Good(o)
  <2> DEFINE a == LineAt(d, o, c)
  <2>1. o \in o..Len(MonthLength)
    <3>1. o <= Len(MonthLength)  BY <1>0, MonthFacts
    <3> QED  BY <1>0, <3>1
  <2>2. LinesTo(d, o, c) = {a}
    <3>1. o..o = {o}  BY <1>0
    <3> QED  BY <3>1 DEF LinesTo
  <2>3. a.days \in Int /\ a.amount \in Int  BY <2>1, LineNumbers
  <2>4. a.days = LastDay(o) - d + 1 /\ a.amount = InFull(d, o, c)  BY OpeningLine
  <2> HIDE DEF a, o
  <2>5. IsFiniteSet({}) /\ IsFiniteSet({a}) /\ {} \cup {a} = {a}  BY FS_EmptySet, FS_Singleton
  <2>6. DaysOf({} \cup {a}) = a.days + DaysOf({}) /\ TotalOf({} \cup {a}) = a.amount + TotalOf({})
    BY <2>3, <2>5, AddedLine
  <2>7. DaysOf({a}) = a.days /\ TotalOf({a}) = a.amount  BY <2>3, <2>5, <2>6, NoLines
  <2> QED  BY <2>2, <2>4, <2>5, <2>7
<1>2. ASSUME NEW m \in o..Len(MonthLength), m + 1 <= Len(MonthLength), Good(m)
      PROVE  Good(m + 1)
  <2> DEFINE S == LinesTo(d, m, c)
             a == LineAt(d, m + 1, c)
  <2>1. LinesTo(d, m + 1, c) = S \cup {a} /\ a \notin S /\ IsFiniteSet(S) /\ IsFiniteSet(LinesTo(d, m + 1, c))
    BY <1>2, LinesGrow
  <2>2. /\ m \in Nat /\ m + 1 \in o..Len(MonthLength) /\ m + 1 # o /\ m \in Months /\ m + 1 \in Months
        /\ o..m \subseteq o..Len(MonthLength)
    BY <1>0, <1>2, FirstDayStep
  <2>3. a.days \in Int /\ a.amount \in Int  BY <2>2, LineNumbers
  <2>4. a.days = LastDay(m + 1) - FirstDay[m + 1] + 1 /\ a.amount = Price[c]  BY <2>2, LineIs
  <2>5. /\ LastDay(m) \in Nat /\ LastDay(m + 1) \in Nat /\ FirstDay[m + 1] = LastDay(m) + 1
    BY <2>2, MonthFacts
  <2>6. \A line \in S : line.days \in Int /\ line.amount \in Int
    <3>1. \A k \in o..m : LineAt(d, k, c).days \in Int /\ LineAt(d, k, c).amount \in Int
      BY <2>2, LineNumbers
    <3> QED  BY <3>1 DEF LinesTo
  <2>7. LastDay(MonthOf(d)) - d + 1 \in Int /\ MonthLength[o] \in Nat \ {0}  BY <1>0, MonthFacts
  <2>8. InFull(d, m, c) \in Int /\ InFull(d, m + 1, c) = a.amount + InFull(d, m, c)
    <3> DEFINE opened == ProratedAmount(Price[c], LastDay(o) - d + 1, MonthLength[o])
    <3>1. opened \in Int  BY <1>0, <2>7, ProratedType
    <3>2. InFull(d, m, c) = opened + Price[c] * (m - o)  BY Zenon DEF InFull
    <3>3. InFull(d, m + 1, c) = opened + Price[c] * ((m + 1) - o)  BY Zenon DEF InFull
    <3> HIDE DEF opened, o
    <3>4. Price[c] * ((m + 1) - o) = Price[c] * (m - o) + Price[c] /\ Price[c] * (m - o) \in Int
      BY <1>0, <2>2
    <3> DEFINE before == Price[c] * (m - o)
    <3>5. InFull(d, m, c) = opened + before /\ InFull(d, m + 1, c) = opened + (before + Price[c])
      BY <3>2, <3>3, <3>4
    <3>6. before \in Int  BY <3>4
    <3> HIDE DEF before
    <3> QED  BY SMTT(20), <1>0, <2>4, <3>1, <3>5, <3>6
  <2> HIDE DEF S, a
  <2>9. DaysOf(S) = LastDay(m) - d + 1 /\ TotalOf(S) = InFull(d, m, c)  BY <1>2 DEF S
  <2>10. DaysOf(S \cup {a}) = a.days + DaysOf(S) /\ TotalOf(S \cup {a}) = a.amount + TotalOf(S)
    BY <2>1, <2>3, <2>6, AddedLine
  <2>11. DaysOf(S \cup {a}) = LastDay(m + 1) - d + 1
    BY <1>0, <2>4, <2>5, <2>9, <2>10
  <2>12. TotalOf(S \cup {a}) = InFull(d, m + 1, c)  BY <2>8, <2>9, <2>10
  <2> QED  BY <2>1, <2>11, <2>12
<1>3. 0 \in T  BY <1>0, <1>1
<1>4. ASSUME NEW k \in Nat, k \in T PROVE k + 1 \in T
  <2>1. ASSUME o + (k + 1) <= Len(MonthLength) PROVE Good(o + (k + 1))
    <3> DEFINE m == o + k
    <3>1. m \in o..Len(MonthLength) /\ m + 1 <= Len(MonthLength) /\ m + 1 = o + (k + 1)
      BY <1>0, <2>1
    <3>2. Good(m)
      <4> HIDE DEF Good
      <4> QED  BY <1>0, <1>4, <2>1
    <3> HIDE DEF m, Good
    <3>3. Good(m + 1)  BY <1>2, <3>1, <3>2
    <3> QED  BY <3>1, <3>3
  <2> HIDE DEF Good
  <2> QED  BY <2>1
<1> HIDE DEF T
<1>5. \A k \in Nat : k \in T  BY <1>3, <1>4, SetInduction
<1>6. n - o \in Nat /\ o + (n - o) = n /\ n <= Len(MonthLength)  BY <1>0
<1>7. Good(n)
  <2> HIDE DEF Good, o
  <2> QED  BY <1>5, <1>6 DEF T
<1> QED  BY <1>7

LEMMA PeriodComesTo ==
    ASSUME ChainRows, NEW d \in Dates, NEW n \in MonthOf(d)..Len(MonthLength)
    PROVE  /\ Days(Period(d, LastDay(n))) = LastDay(n) - d + 1
           /\ \A c \in DOMAIN Price : Amount(Period(d, LastDay(n)), c) = InFull(d, n, c)
<1> DEFINE p == Period(d, LastDay(n))
           any == CHOOSE x \in DOMAIN Price : TRUE
<1>1. any \in DOMAIN Price  BY DEF ChainRows
<1>2. \A c \in DOMAIN Price : /\ LinesOf(p, c) = LinesTo(d, n, c)
                              /\ DaysOf(LinesTo(d, n, c)) = LastDay(n) - d + 1
                              /\ TotalOf(LinesTo(d, n, c)) = InFull(d, n, c)
  BY PeriodLines, LinesComeTo
<1> HIDE DEF p
<1>3. Days(p) = DaysOf(LinesOf(p, any))  BY DEF Days, DaysOf
<1> HIDE DEF any
<1>4. Days(p) = LastDay(n) - d + 1  BY <1>1, <1>2, <1>3
<1>5. \A c \in DOMAIN Price : Amount(p, c) = InFull(d, n, c)  BY <1>2 DEF Amount
<1> QED  BY <1>4, <1>5 DEF p

-----------------------------------------------------------------------------
(* The chain. *)

LEMMA OneCalendar ==
    /\ L!FirstDay = FirstDay
    /\ \A m : L!LastDay(m) = LastDay(m)
    /\ \A d : L!MonthOf(d) = MonthOf(d)
    /\ L!Months = Months
<1>1. L!FirstDay = FirstDay  BY DEF L!FirstDay, FirstDay
<1>2. \A m : L!LastDay(m) = LastDay(m)  BY <1>1 DEF L!LastDay, LastDay
<1>3. L!Months = Months  BY DEF L!Months, Months
<1>4. \A d : L!MonthOf(d) = MonthOf(d)  BY <1>1, <1>2, <1>3 DEF L!MonthOf, MonthOf
<1> QED  BY <1>1, <1>2, <1>3, <1>4

LEMMA OneLine ==
    \A m, c, from, to, prorated, monthly :
        L!Line(m, c, from, to, prorated, monthly) = Line(m, c, from, to, prorated, monthly)
BY DEF L!Line, Line, L!BillableDays, BillableDays, L!ProratedAmount, ProratedAmount,
       L!RoundedQuotient, RoundedQuotient

LEMMA OneCycle == \A p : L!CycleForPeriod(p, Price) = CycleForPeriod(p, Price)
BY OneCalendar, OneLine DEF L!CycleForPeriod, CycleForPeriod

LEMMA OneSum == \A f : L!SumFunction(f) = SumFunction(f)
BY DEF L!SumFunction, SumFunction, L!SumFunctionOnSet, SumFunctionOnSet,
       L!FoldFunctionOnSet, FoldFunctionOnSet, L!MapThenFoldSet, MapThenFoldSet

LEMMA OneBill ==
    /\ \A p : L!Days(p) = Days(p)
    /\ \A p, c : L!Amount(p, c) = Amount(p, c)
<1>1. \A p, c : L!LinesOf(p, c) = LinesOf(p, c)  BY OneCycle DEF L!LinesOf, LinesOf
<1>2. \A p : L!Days(p) = Days(p)  BY <1>1, OneSum DEF L!Days, Days
<1>3. \A p, c : L!Amount(p, c) = Amount(p, c)
  BY <1>1, OneSum DEF L!Amount, Amount, L!TotalOf, TotalOf
<1> QED  BY <1>2, <1>3

(* What was invoiced up to the end of month n.                                 *)
BilledTo(n) ==
    /\ period.end = LastDay(n)
    /\ first => n = MonthOf(start) + opening - 1 /\ period = Period(start, LastDay(n))
    /\ billedDays = LastDay(n) - start + 1
    /\ billed = [c \in DOMAIN Price |-> InFull(start, n, c)]

BilledInv ==
    /\ start \in Dates /\ opening \in Nat \ {0}
    /\ \E n \in MonthOf(start)..Len(MonthLength) : BilledTo(n)

LEMMA ChainInit == ASSUME ChainRows, L!Init PROVE BilledInv
<1> DEFINE o == MonthOf(start)
           n == o + opening - 1
<1>1. start \in Dates /\ opening \in Nat \ {0} /\ n \in Months /\ period = Period(start, LastDay(n)) /\ first = TRUE
      /\ billedDays = Days(period) /\ billed = [c \in DOMAIN Price |-> Amount(period, c)]
  BY OneCalendar, OneBill DEF L!Init, ChainRows, L!Fits, L!InitialPeriod, L!Period, Period
<1>2. n \in o..Len(MonthLength)
  <2>1. o \in Months  BY <1>1, MonthOfDate
  <2> QED  BY <1>1, <2>1, MonthFacts
<1> HIDE DEF n
<1>3. Days(period) = LastDay(n) - start + 1 /\ \A c \in DOMAIN Price : Amount(period, c) = InFull(start, n, c)
  BY <1>1, <1>2, PeriodComesTo
<1>4. billed = [c \in DOMAIN Price |-> InFull(start, n, c)]  BY <1>1, <1>3
<1>5. period.end = LastDay(n)  BY <1>1 DEF Period
<1>6. BilledTo(n)  BY <1>1, <1>3, <1>4, <1>5 DEF BilledTo, n
<1> QED  BY <1>1, <1>2, <1>6 DEF BilledInv

(* The next period opens with the month after the last.                        *)
LEMMA ChainStep ==
    ASSUME ChainRows, BilledInv, NEW k \in Frequencies, L!BillNext(k) PROVE BilledInv'
<1> DEFINE o == MonthOf(start)
<1>1. PICK n \in o..Len(MonthLength) : BilledTo(n)  BY DEF BilledInv
<1>2. /\ start \in Dates /\ o \in Months /\ o \in Nat /\ n \in Nat /\ n \in Months /\ Len(MonthLength) \in Nat
      /\ k \in Nat \ {0} /\ start' = start /\ opening' = opening /\ start \in Int
  <2>1. start \in Dates  BY DEF BilledInv
  <2>2. start \in Int  BY <2>1 DEF Dates
  <2>3. o \in Months  BY <2>1, MonthOfDate
  <2>4. o \in Nat \ {0} /\ Len(MonthLength) \in Nat  BY <2>3, MonthFacts
  <2> QED  BY <2>1, <2>2, <2>3, <2>4, FirstDayStep DEF ChainRows, L!BillNext
<1>3. period.end = LastDay(n) /\ LastDay(n) < LastDay(Len(MonthLength))
  BY <1>1, OneCalendar DEF L!BillNext, BilledTo
<1>4. n + 1 \in Months /\ n + 1 \in o..Len(MonthLength)
  <2>1. n # Len(MonthLength)
    <3>1. Len(MonthLength) \in Months  BY <1>2, FirstDayStep
    <3>2. LastDay(n) \in Nat  BY <1>2, MonthFacts
    <3> QED  BY <1>3, <3>2
  <2> QED  BY <1>2, <2>1, FirstDayStep
<1> DEFINE d == FirstDay[n + 1]
           e == n + k
<1>5. d = LastDay(n) + 1 /\ d \in Dates /\ MonthOf(d) = n + 1 /\ LastDay(n) \in Nat
  BY <1>2, <1>4, MonthFacts, MonthEnds
<1>6. e \in MonthOf(d)..Len(MonthLength) /\ period' = Period(d, LastDay(e)) /\ first' = FALSE
  <2>1. MonthOf(period.end + 1) = n + 1  BY <1>3, <1>5
  <2>2. (n + 1) + k - 1 = e  BY <1>2
  <2>3. e \in Months  BY <2>1, <2>2, OneCalendar DEF L!BillNext, L!Fits
  <2>4. period' = Period(d, LastDay(e))
    BY <1>3, <1>5, <2>1, <2>2, OneCalendar DEF L!BillNext, L!NextFullPeriod, L!Period, Period
  <2> QED  BY <1>2, <1>5, <2>3, <2>4, FirstDayStep DEF L!BillNext
<1> HIDE DEF d, e, o
<1>7. Days(period') = LastDay(e) - d + 1 /\ \A c \in DOMAIN Price : Amount(period', c) = InFull(d, e, c)
  BY <1>5, <1>6, PeriodComesTo
<1>8. /\ billedDays' = (LastDay(n) - start + 1) + Days(period')
      /\ billed' = [c \in DOMAIN Price |-> InFull(start, n, c) + Amount(period', c)]
  <2>1. billedDays' = billedDays + Days(period') /\ billed' = [c \in DOMAIN Price |-> billed[c] + Amount(period', c)]
    BY OneBill DEF L!BillNext
  <2> QED  BY <1>1, <2>1 DEF BilledTo
<1>9. e \in o..Len(MonthLength) /\ e \in Months /\ LastDay(e) \in Nat /\ e = n + k
  <2>1. e \in o..Len(MonthLength) /\ e = n + k  BY <1>2, <1>4, <1>5, <1>6 DEF e
  <2>2. e \in Months  BY <1>2, <2>1, FirstDayStep
  <2> QED  BY <2>1, <2>2, MonthFacts
<1>10. billedDays' = LastDay(e) - start + 1
  <2>1. billedDays' = (LastDay(n) - start + 1) + (LastDay(e) - d + 1)  BY <1>7, <1>8
  <2>2. d = LastDay(n) + 1 /\ LastDay(n) \in Nat /\ LastDay(e) \in Nat /\ start \in Int
    BY <1>2, <1>5, <1>9
  <2> QED  BY SMTT(20), <2>1, <2>2
<1>11. ASSUME NEW c \in DOMAIN Price PROVE InFull(start, n, c) + InFull(d, e, c) = InFull(start, e, c)
  <2> DEFINE opened == ProratedAmount(Price[c], LastDay(o) - start + 1, MonthLength[o])
             whole == ProratedAmount(Price[c], LastDay(n + 1) - d + 1, MonthLength[n + 1])
  <2>1. Price[c] \in Nat  BY DEF ChainRows
  <2>2. whole = Price[c]
    <3>1. LastDay(n + 1) = FirstDay[n + 1] + MonthLength[n + 1] - 1 /\ MonthLength[n + 1] \in Nat \ {0}
          /\ FirstDay[n + 1] \in Nat
      BY <1>4, MonthFacts
    <3>2. LastDay(n + 1) - d + 1 = MonthLength[n + 1]  BY <3>1 DEF d
    <3> QED  BY <2>1, <3>1, <3>2, WholeMonth
  <2>3. opened \in Int
    <3>1. LastDay(o) \in Nat /\ MonthLength[o] \in Nat \ {0}  BY <1>2, MonthFacts
    <3>2. LastDay(o) - start + 1 \in Int  BY <1>2, <3>1
    <3> QED  BY <2>1, <3>1, <3>2, ProratedType
  <2>4. InFull(start, n, c) = opened + Price[c] * (n - o)  BY Zenon DEF InFull, o
  <2>5. InFull(start, e, c) = opened + Price[c] * (e - o)  BY Zenon DEF InFull, o
  <2>6. InFull(d, e, c) = whole + Price[c] * (e - (n + 1))  BY Zenon, <1>5 DEF InFull
  <2> HIDE DEF opened, whole
  <2>7. Price[c] * (e - o) = Price[c] * (n - o) + (Price[c] + Price[c] * (e - (n + 1)))
    BY <1>2, <1>9, <2>1
  <2>8. Price[c] * (n - o) \in Int /\ Price[c] * (e - (n + 1)) \in Int  BY <1>2, <1>9, <2>1
  <2> QED  BY <2>1, <2>2, <2>3, <2>4, <2>5, <2>6, <2>7, <2>8
<1>12. billed' = [c \in DOMAIN Price |-> InFull(start, e, c)]  BY <1>7, <1>8, <1>11
<1>13. period'.end = LastDay(e)  BY <1>6 DEF Period
<1>14. BilledTo(e)'
  BY <1>2, <1>6, <1>10, <1>12, <1>13 DEF BilledTo
<1> QED  BY <1>2, <1>9, <1>14 DEF BilledInv, o

LEMMA ChainFollows == ASSUME ChainRows, BilledInv PROVE BillingFollows
<1> DEFINE o == MonthOf(start)
<1>1. PICK n \in o..Len(MonthLength) : BilledTo(n)  BY DEF BilledInv
<1>2. /\ start \in Dates /\ start \in Int /\ o \in Months /\ o \in Nat /\ n \in Nat /\ n \in Months
      /\ Len(MonthLength) \in Nat /\ opening \in Nat \ {0} /\ start <= LastDay(o) /\ FirstDay[o] <= start
  <2>1. start \in Dates /\ opening \in Nat \ {0}  BY DEF BilledInv
  <2>2. start \in Int  BY <2>1 DEF Dates
  <2>3. o \in Months /\ start <= LastDay(o) /\ FirstDay[o] <= start  BY <2>1, MonthOfDate
  <2>4. o \in Nat \ {0} /\ Len(MonthLength) \in Nat  BY <2>3, MonthFacts
  <2> QED  BY <2>1, <2>2, <2>3, <2>4, FirstDayStep
<1>3. LastDay(n) \in Nat /\ LastDay(o) \in Nat /\ LastDay(o) <= LastDay(n) /\ MonthOf(LastDay(n)) = n
  <2>1. LastDay(n) \in Nat /\ LastDay(o) \in Nat /\ MonthOf(LastDay(n)) = n  BY <1>2, MonthFacts, MonthEnds
  <2>2. o = n \/ o < n  BY <1>2
  <2> QED  BY <1>2, <2>1, <2>2, MonthOrder
<1>4. EveryDayOnce
  BY <1>1, <1>2, <1>3 DEF EveryDayOnce, BilledTo, BillableDays
<1>5. GroupingIsNeutral
  BY <1>1, <1>3 DEF GroupingIsNeutral, BilledTo, InFull
<1>6. ASSUME first PROVE InitialCycle(start, opening, Price) = CycleForPeriod(period, Price)
  <2>1. n = o + opening - 1 /\ period = Period(start, LastDay(n))  BY <1>1, <1>6 DEF BilledTo
  <2>2. CycleForPeriod(period, Price) = {LineAt(start, m, c) : m \in o..n, c \in DOMAIN Price}
    BY <1>2, <2>1, CycleLines
  <2>3. InitialCycle(start, opening, Price) = {LineAt(start, m, c) : m \in o..n, c \in DOMAIN Price}
    BY <2>1 DEF InitialCycle, LineAt
  <2> QED  BY <2>2, <2>3
<1>7. CalculatorsAgree  BY <1>6 DEF CalculatorsAgree
<1> QED  BY <1>4, <1>5, <1>7 DEF BillingFollows

(* The periods of a lease bill every day once, what they charge does not       *)
(* depend on how its months are grouped, and the two calculators agree on the  *)
(* first period, for any calendar, prices, start dates and frequencies, edited *)
(* between any two invoices (nextBillingPeriodForLease).                       *)
THEOREM BillingIsFollowed == ASSUME ChainRows PROVE L!Spec => []BillingFollows
<1>1. L!Init => BilledInv  BY ChainInit
<1>2. BilledInv /\ [L!Next]_L!vars => BilledInv'
  <2> SUFFICES ASSUME BilledInv, [L!Next]_L!vars PROVE BilledInv'  OBVIOUS
  <2>1. CASE L!Next  BY <2>1, ChainStep DEF L!Next
  <2>2. CASE UNCHANGED L!vars
    <3>1. UNCHANGED <<start, period, opening, first, billedDays, billed>>  BY <2>2 DEF L!vars
    <3> QED  BY <3>1 DEF BilledInv, BilledTo
  <2> QED  BY <2>1, <2>2
<1>3. BilledInv => BillingFollows  BY ChainFollows
<1> QED  BY <1>1, <1>2, <1>3, PTL DEF L!Spec

-----------------------------------------------------------------------------
(* What a payment plan comes to, whatever the price, the deposit, the number   *)
(* of installments and the calendar. *)

(* The lines of a plan, of the types SALES_INSTALLMENT_TYPES.                  *)
Lines == [type : {"DEPOSIT", "REGULAR", "FINAL", "CUSTOM", "FEE"}, due : Int, amount : Int]

(* What a seller may ask for, over months that the calendar has.               *)
PlanRow ==
    /\ plan.catalog \in Nat /\ plan.negotiated \in Seq(Nat) /\ plan.discount \in Seq(Nat)
    /\ plan.deposit \in Nat /\ plan.count \in Nat /\ plan.custom \in Seq(Lines)
    /\ plan.first \in Dates
    /\ plan.frequency # "CUSTOM" =>
         MonthOf(plan.first) + Schedule!Interval(plan) * (plan.count - 1) <= Len(MonthLength)

LEMMA OneCalendarOfPlans ==
    /\ Schedule!FirstDay = FirstDay
    /\ \A d : Schedule!MonthOf(d) = MonthOf(d)
    /\ \A S : Schedule!Min(S) = Min(S)
    /\ \A f : Schedule!SumFunction(f) = SumFunction(f)
<1>1. Schedule!FirstDay = FirstDay  BY DEF Schedule!FirstDay, FirstDay
<1>2. \A m : Schedule!LastDay(m) = LastDay(m)  BY <1>1 DEF Schedule!LastDay, LastDay
<1>3. Schedule!Months = Months  BY DEF Schedule!Months, Months
<1>4. \A d : Schedule!MonthOf(d) = MonthOf(d)  BY <1>1, <1>2, <1>3 DEF Schedule!MonthOf, MonthOf
<1>5. \A S : Schedule!Min(S) = Min(S)  BY DEF Schedule!Min, Min
<1>6. \A f : Schedule!SumFunction(f) = SumFunction(f)
  BY DEF Schedule!SumFunction, SumFunction, Schedule!SumFunctionOnSet, SumFunctionOnSet,
         Schedule!FoldFunctionOnSet, FoldFunctionOnSet, Schedule!MapThenFoldSet, MapThenFoldSet
<1> QED  BY <1>1, <1>4, <1>5, <1>6

(* A quotient is rounded by half a unit at most.                               *)
LEMMA Rounding ==
    ASSUME NEW a \in Nat, NEW d \in Nat \ {0}
    PROVE  /\ Schedule!RoundedQuotient(a, d) \in Nat
           /\ 2 * (d * Schedule!RoundedQuotient(a, d)) <= 2 * a + d
           /\ 2 * a + d < 2 * (d * Schedule!RoundedQuotient(a, d)) + 2 * d
<1> DEFINE q == (2 * a + d) \div (2 * d)
<1>1. 2 * a + d \in Nat /\ 2 * d \in Nat \ {0}  OBVIOUS
<1>2. q \in Nat /\ (2 * d) * q <= 2 * a + d /\ 2 * a + d < (2 * d) * q + 2 * d
  <2>1. ASSUME NEW x \in Nat, NEW y \in Nat \ {0}
        PROVE  x \div y \in Nat /\ y * (x \div y) <= x /\ x < y * (x \div y) + y
    OBVIOUS
  <2> QED  BY <1>1, <2>1
<1>3. Schedule!RoundedQuotient(a, d) = q  BY DEF Schedule!RoundedQuotient
<1> HIDE DEF q
<1>4. (2 * d) * q = 2 * (d * q)  BY <1>2
<1> QED  BY <1>2, <1>3, <1>4

(* The sum of the amounts of the first k lines.                                *)
Amounts(lines) == [i \in DOMAIN lines |-> lines[i].amount]

LEMMA NumbersTo ==
    \A k \in Nat : /\ IsFiniteSet(1..k) /\ (1..k) \cup {k + 1} = 1..(k + 1) /\ k + 1 \notin 1..k
BY FS_Interval

(* A line put in front of others adds its amount.                              *)
LEMMA SumOfRest ==
    ASSUME NEW n \in Nat, NEW f, NEW g,
           \A i \in 1..n : f[i] \in Int, \A i \in 1..(n + 1) : g[i] \in Int,
           \A i \in 1..n : g[i + 1] = f[i]
    PROVE  SumFunctionOnSet(g, 1..(n + 1)) = g[1] + SumFunctionOnSet(f, 1..n)
<1> DEFINE Same(k) == SumFunctionOnSet(g, 1..(k + 1)) = g[1] + SumFunctionOnSet(f, 1..k)
           T == {k \in Nat : k <= n => Same(k)}
<1>1. 0 \in T
  <2>1. 1..0 = {} /\ 1..(0 + 1) = {} \cup {1} /\ 1 \in 1..(n + 1)  OBVIOUS
  <2>2. SumFunctionOnSet(f, {}) = 0 /\ SumFunctionOnSet(g, {}) = 0  BY SumEmpty
  <2>3. SumFunctionOnSet(g, {} \cup {1}) = g[1] + SumFunctionOnSet(g, {})
    <3>1. IsFiniteSet({}) /\ 1 \notin {} /\ \A x \in {} \cup {1} : g[x] \in Int
      BY <2>1, FS_EmptySet
    <3> QED  BY <3>1, SumAddOne
  <2> QED  BY <2>1, <2>2, <2>3
<1>2. ASSUME NEW k \in Nat, k \in T PROVE k + 1 \in T
  <2>1. SUFFICES ASSUME k + 1 <= n PROVE Same(k + 1)  OBVIOUS
  <2>2. Same(k)  BY <1>2, <2>1
  <2>3. k + 1 \in 1..n /\ (k + 1) + 1 \in 1..(n + 1) /\ 1 \in 1..(n + 1) /\ k + 1 \in Nat  BY <2>1
  <2>4. SumFunctionOnSet(f, 1..(k + 1)) = f[k + 1] + SumFunctionOnSet(f, 1..k)
    <3>1. \A x \in (1..k) \cup {k + 1} : f[x] \in Int  BY <2>1
    <3>2. SumFunctionOnSet(f, (1..k) \cup {k + 1}) = f[k + 1] + SumFunctionOnSet(f, 1..k)
      BY <3>1, NumbersTo, SumAddOne
    <3> QED  BY <3>2, NumbersTo
  <2>5. SumFunctionOnSet(g, 1..((k + 1) + 1)) = g[(k + 1) + 1] + SumFunctionOnSet(g, 1..(k + 1))
    <3>1. \A x \in (1..(k + 1)) \cup {(k + 1) + 1} : g[x] \in Int  BY <2>1
    <3>2. SumFunctionOnSet(g, (1..(k + 1)) \cup {(k + 1) + 1})
            = g[(k + 1) + 1] + SumFunctionOnSet(g, 1..(k + 1))
      BY <2>3, <3>1, NumbersTo, SumAddOne
    <3> QED  BY <2>3, <3>2, NumbersTo
  <2>6. g[(k + 1) + 1] = f[k + 1] /\ f[k + 1] \in Int /\ g[1] \in Int  BY <2>3
  <2>7. SumFunctionOnSet(f, 1..k) \in Int
    <3>1. IsFiniteSet(1..k) /\ \A x \in 1..k : f[x] \in Int  BY <2>1, NumbersTo
    <3> QED  BY <3>1, SumType
  <2> QED  BY <2>2, <2>4, <2>5, <2>6, <2>7
<1> HIDE DEF T
<1>3. n \in T  BY <1>1, <1>2, SetInduction
<1> QED  BY <1>3 DEF T

(* Equal terms add up to their product with their number.                      *)
LEMMA SumOfEqual ==
    ASSUME NEW n \in Nat, NEW f, NEW b \in Int, \A i \in 1..n : f[i] = b
    PROVE  SumFunctionOnSet(f, 1..n) = n * b
<1> DEFINE T == {k \in Nat : k <= n => SumFunctionOnSet(f, 1..k) = k * b}
<1>1. 0 \in T
  <2>1. 1..0 = {} /\ 0 * b = 0  OBVIOUS
  <2> QED  BY <2>1, SumEmpty
<1>2. ASSUME NEW k \in Nat, k \in T PROVE k + 1 \in T
  <2>1. SUFFICES ASSUME k + 1 <= n PROVE SumFunctionOnSet(f, 1..(k + 1)) = (k + 1) * b  OBVIOUS
  <2>2. SumFunctionOnSet(f, 1..k) = k * b  BY <1>2, <2>1
  <2>3. f[k + 1] = b  BY <2>1
  <2>4. \A x \in (1..k) \cup {k + 1} : f[x] \in Int  BY <2>1
  <2>5. SumFunctionOnSet(f, (1..k) \cup {k + 1}) = f[k + 1] + SumFunctionOnSet(f, 1..k)
    BY <2>4, NumbersTo, SumAddOne
  <2>6. SumFunctionOnSet(f, 1..(k + 1)) = b + k * b  BY <2>2, <2>3, <2>5, NumbersTo
  <2>7. (k + 1) * b = b + k * b  OBVIOUS
  <2> QED  BY <2>6, <2>7
<1> HIDE DEF T
<1>3. n \in T  BY <1>1, <1>2, SetInduction
<1> QED  BY <1>3 DEF T


(* A plan's price is what is paid at once and what is financed.                *)
LEMMA PlanNumbers ==
    ASSUME PlanRow, Schedule!Accepted(plan)
    PROVE  /\ Schedule!FinalPrice(plan) \in Nat /\ Schedule!Deposit(plan) \in Nat
           /\ Schedule!FinancedBalance(plan) \in Nat
           /\ Schedule!FinalPrice(plan) = Schedule!Deposit(plan) + Schedule!FinancedBalance(plan)
           /\ (Schedule!FinancedBalance(plan) > 0) <=> (plan.count > 0)
           /\ Schedule!Interval(plan) \in Nat \ {0}
<1>1. Schedule!FinalPrice(plan) \in Nat /\ Schedule!Deposit(plan) <= Schedule!FinalPrice(plan)
  BY DEF PlanRow, Schedule!Accepted
<1>2. plan.deposit \in Nat  BY DEF PlanRow
<1>3. Schedule!Deposit(plan) \in Nat
  <2>1. CASE plan.depositType = "PERCENTAGE"
    <3> DEFINE a == Schedule!FinalPrice(plan) * plan.deposit
    <3>1. a \in Nat /\ 10000 \in Nat \ {0}  BY <1>1, <1>2
    <3>2. Schedule!Deposit(plan) = Schedule!RoundedQuotient(a, 10000)  BY <2>1 DEF Schedule!Deposit
    <3> HIDE DEF a
    <3> QED  BY <3>1, <3>2, Rounding
  <2>2. CASE plan.depositType # "PERCENTAGE"  BY <1>2, <2>2 DEF Schedule!Deposit
  <2> QED  BY <2>1, <2>2
<1>4. /\ Schedule!FinancedBalance(plan) \in Nat
      /\ Schedule!FinalPrice(plan) = Schedule!Deposit(plan) + Schedule!FinancedBalance(plan)
  BY <1>1, <1>3 DEF Schedule!FinancedBalance
<1>5. (Schedule!FinancedBalance(plan) > 0) <=> (plan.count > 0)  BY DEF Schedule!Accepted
<1>6. Schedule!Interval(plan) \in Nat \ {0}  BY DEF Schedule!Interval
<1> QED  BY <1>1, <1>3, <1>4, <1>5, <1>6

(* The last installment takes what the rounding of the others leaves.          *)
LEMMA InstallmentsRound ==
    ASSUME PlanRow, Schedule!Accepted(plan), Schedule!FinancedBalance(plan) > 0
    PROVE  LET n == plan.count
               f == Schedule!FinancedBalance(plan)
               b == Schedule!BaseAmount(plan)
           IN  /\ n \in Nat \ {0} /\ f \in Nat \ {0} /\ b \in Nat
               /\ 2 * (f - n * b) \in (-n)..n
               /\ 2 * f > n * (n - 1) => f - (n - 1) * b > 0
               /\ \A i \in 1..n : Schedule!Amount(plan, i) = IF i = n THEN f - (n - 1) * b ELSE b
<1> DEFINE n == plan.count
           f == Schedule!FinancedBalance(plan)
           b == Schedule!BaseAmount(plan)
<1>1. n \in Nat \ {0} /\ f \in Nat \ {0}
  <2>1. plan.count \in Nat  BY DEF PlanRow
  <2> QED  BY <2>1, PlanNumbers
<1>2. \A i \in 1..n : Schedule!Amount(plan, i) = IF i = n THEN f - (n - 1) * b ELSE b
  BY DEF Schedule!Amount
<1>3. b = Schedule!RoundedQuotient(f, n)  BY DEF Schedule!BaseAmount
<1> HIDE DEF n, f, b
<1>4. b \in Nat /\ 2 * (n * b) <= 2 * f + n /\ 2 * f + n < 2 * (n * b) + 2 * n
  BY <1>1, <1>3, Rounding
<1>5. 2 * (f - n * b) \in (-n)..n
  <2>1. n * b \in Nat  BY <1>1, <1>4
  <2> QED  BY <1>1, <1>4, <2>1
<1>6. ASSUME 2 * f > n * (n - 1) PROVE f - (n - 1) * b > 0
  <2> DEFINE k == n - 1
             p == n * b
             r == k * b
             t == n * k
  <2>1. k \in Nat /\ n = k + 1 /\ p \in Nat /\ r \in Nat /\ t \in Nat  BY <1>1, <1>4
  <2>2. k * (2 * p) <= k * (2 * f + n)  BY <1>1, <1>4, <2>1
  <2>3. k * p = n * r  BY <1>1, <1>4
  <2>4. k * (2 * f + n) = 2 * (n * f) - 2 * f + t  BY <1>1
  <2>5. 2 * (n * r) <= 2 * (n * f) - 2 * f + t  BY <1>1, <1>4, <2>2, <2>3, <2>4
  <2>6. 2 * f > t  BY <1>6
  <2>7. n * r \in Nat /\ n * f \in Nat  BY <1>1, <2>1
  <2>8. n * r < n * f  BY <1>1, <2>1, <2>5, <2>6, <2>7
  <2>9. r < f
    <3>1. SUFFICES ASSUME f <= r PROVE FALSE  BY <1>1, <2>1
    <3>2. n * f <= n * r  BY <1>1, <2>1, <3>1
    <3> QED  BY <2>7, <2>8, <3>2
  <2> QED  BY <1>1, <2>1, <2>9
<1> QED  BY <1>1, <1>2, <1>4, <1>5, <1>6 DEF n, f, b


LEMMA TotalIs ==
    ASSUME NEW lines \in Seq(Lines)
    PROVE  /\ DOMAIN Amounts(lines) = 1..Len(lines) /\ Len(lines) \in Nat
           /\ \A i \in 1..Len(lines) : lines[i] \in Lines /\ Amounts(lines)[i] = lines[i].amount /\ Amounts(lines)[i] \in Int
           /\ Schedule!Total(lines) = SumFunctionOnSet(Amounts(lines), 1..Len(lines))
           /\ Schedule!Total(lines) \in Int
<1>1. DOMAIN lines = 1..Len(lines) /\ Len(lines) \in Nat  OBVIOUS
<1>2. ASSUME NEW i \in 1..Len(lines)
      PROVE  lines[i] \in Lines /\ Amounts(lines)[i] = lines[i].amount /\ Amounts(lines)[i] \in Int
  <2>1. lines[i] \in Lines  BY <1>1
  <2>2. Amounts(lines)[i] = lines[i].amount  BY <1>1 DEF Amounts
  <2>3. lines[i].amount \in Int  BY <2>1 DEF Lines
  <2> QED  BY <2>1, <2>2, <2>3
<1>3. DOMAIN Amounts(lines) = 1..Len(lines)  BY <1>1 DEF Amounts
<1>4. Schedule!Total(lines) = SumFunction(Amounts(lines))
  BY OneCalendarOfPlans DEF Schedule!Total, Amounts
<1>5. SumFunction(Amounts(lines)) = SumFunctionOnSet(Amounts(lines), 1..Len(lines))
  BY <1>3 DEF SumFunction
<1>6. SumFunctionOnSet(Amounts(lines), 1..Len(lines)) \in Int
  <2>1. IsFiniteSet(1..Len(lines))  BY <1>1, NumbersTo
  <2> QED  BY <1>2, <2>1, SumType
<1> QED  BY <1>1, <1>2, <1>3, <1>4, <1>5, <1>6

LEMMA TotalWithFirst ==
    ASSUME NEW line \in Lines, NEW lines \in Seq(Lines)
    PROVE  Schedule!Total(<<line>> \o lines) = line.amount + Schedule!Total(lines)
<1> DEFINE all == <<line>> \o lines
           n == Len(lines)
<1>1. all \in Seq(Lines) /\ Len(all) = n + 1 /\ n \in Nat /\ all[1] = line  OBVIOUS
<1>2. \A i \in 1..n : all[i + 1] = lines[i]  OBVIOUS
<1> HIDE DEF all
<1>3. /\ \A i \in 1..n : Amounts(lines)[i] = lines[i].amount /\ Amounts(lines)[i] \in Int
      /\ Schedule!Total(lines) = SumFunctionOnSet(Amounts(lines), 1..n)
  BY TotalIs
<1>4. /\ \A i \in 1..(n + 1) : Amounts(all)[i] = all[i].amount /\ Amounts(all)[i] \in Int
      /\ Schedule!Total(all) = SumFunctionOnSet(Amounts(all), 1..(n + 1))
  BY <1>1, TotalIs
<1>5. \A i \in 1..n : i + 1 \in 1..(n + 1)  BY <1>1
<1>6. \A i \in 1..n : Amounts(all)[i + 1] = Amounts(lines)[i]  BY <1>2, <1>3, <1>4, <1>5
<1>7. SumFunctionOnSet(Amounts(all), 1..(n + 1))
        = Amounts(all)[1] + SumFunctionOnSet(Amounts(lines), 1..n)
  BY <1>1, <1>3, <1>4, <1>6, SumOfRest
<1>8. Amounts(all)[1] = line.amount
  <2>1. 1 \in 1..(n + 1)  BY <1>1
  <2> QED  BY <1>1, <1>4, <2>1
<1> QED  BY <1>3, <1>4, <1>7, <1>8 DEF all

(* What is paid at once comes first, when there is something to pay.           *)
LEMMA TotalWithDeposit ==
    ASSUME PlanRow, Schedule!Accepted(plan), Schedule!Balance(plan) \in Seq(Lines)
    PROVE  Schedule!Total(Schedule!SimulateSalesSubscriptionPlan(plan))
             = Schedule!Deposit(plan) + Schedule!Total(Schedule!Balance(plan))
<1> DEFINE lines == Schedule!Balance(plan)
           d == Schedule!Deposit(plan)
<1>0. d \in Nat  BY PlanNumbers
<1>1. Schedule!SimulateSalesSubscriptionPlan(plan) = Schedule!DepositLine(plan) \o lines
  BY DEF Schedule!SimulateSalesSubscriptionPlan
<1>2. Schedule!Total(lines) \in Int  BY TotalIs
<1>3. CASE d > 0
  <2> DEFINE line == [type |-> "DEPOSIT", due |-> plan.first, amount |-> d]
  <2>1. Schedule!DepositLine(plan) = <<line>>  BY <1>3 DEF Schedule!DepositLine
  <2>2. plan.first \in Int  BY DEF PlanRow, Dates
  <2>3. line \in Lines /\ line.amount = d
    <3>1. d \in Int  BY <1>0
    <3> HIDE DEF d
    <3> QED  BY <2>2, <3>1 DEF Lines
  <2> HIDE DEF line, d, lines
  <2>4. lines \in Seq(Lines)  BY DEF lines
  <2>5. Schedule!Total(<<line>> \o lines) = d + Schedule!Total(lines)  BY <2>3, <2>4, TotalWithFirst
  <2> QED  BY <1>1, <2>1, <2>5 DEF d, lines
<1>4. CASE ~(d > 0)
  <2>1. Schedule!DepositLine(plan) = <<>>  BY <1>4 DEF Schedule!DepositLine
  <2>2. d = 0  BY <1>0, <1>4
  <2> HIDE DEF d, lines
  <2>3. lines \in Seq(Lines)  BY DEF lines
  <2>4. <<>> \o lines = lines  BY <2>3
  <2> QED  BY <1>1, <1>2, <2>1, <2>2, <2>4 DEF d, lines
<1> QED  BY <1>3, <1>4


(* A due date is in the month it was put off to, whatever the day.             *)
LEMMA PutOff ==
    ASSUME NEW d \in Dates, NEW k \in Nat, MonthOf(d) + k <= Len(MonthLength)
    PROVE  Schedule!AddMonths(d, k) \in Int /\ MonthOf(Schedule!AddMonths(d, k)) = MonthOf(d) + k
<1> DEFINE o == MonthOf(d)
           m == o + k
           day == d - FirstDay[o] + 1
           least == Min({day, MonthLength[m]})
<1>1. o \in Months /\ FirstDay[o] <= d  BY MonthOfDate
<1>2. m \in Months
  <2>1. o \in Nat \ {0} /\ Months = 1..Len(MonthLength) /\ Len(MonthLength) \in Nat  BY <1>1, FirstDayStep
  <2> QED  BY <2>1
<1>3. FirstDay[o] \in Nat \ {0} /\ d \in Int  BY <1>1, MonthFacts DEF Dates
<1>4. /\ FirstDay[m] \in Nat \ {0} /\ LastDay(m) \in Nat \ {0} /\ MonthLength[m] \in Nat \ {0}
      /\ LastDay(m) = FirstDay[m] + MonthLength[m] - 1
  BY <1>2, MonthFacts
<1>5. day \in Nat \ {0}  BY <1>1, <1>3
<1>6. Schedule!AddMonths(d, k) = FirstDay[m] + least - 1
  BY OneCalendarOfPlans DEF Schedule!AddMonths
<1> HIDE DEF o, m, day, least
<1>7. least \in 1..MonthLength[m]
  <2>1. \E x \in {day, MonthLength[m]} : \A y \in {day, MonthLength[m]} : x <= y  BY <1>4, <1>5
  <2>2. least \in {day, MonthLength[m]} /\ \A y \in {day, MonthLength[m]} : least <= y
    BY <2>1 DEF least, Min
  <2> QED  BY <1>4, <1>5, <2>2
<1> DEFINE e == FirstDay[m] + least - 1
<1>8. e \in Int /\ FirstDay[m] <= e /\ e <= LastDay(m)  BY <1>4, <1>7
<1>9. e \in Dates
  <2>1. LastDay(m) \in Dates  BY <1>2, MonthEnds
  <2>2. LastDay(Len(MonthLength)) \in Nat
    <3>1. Len(MonthLength) \in Months  BY <1>2, FirstDayStep
    <3> QED  BY <3>1, MonthFacts
  <2> HIDE DEF e
  <2> QED  BY <1>4, <1>8, <2>1, <2>2 DEF Dates
<1> HIDE DEF e
<1>10. MonthOf(e) = m  BY <1>2, <1>8, <1>9, MonthUnique
<1>11. Schedule!AddMonths(d, k) = e  BY <1>6 DEF e
<1> QED  BY <1>8, <1>10, <1>11 DEF m, o

(* The installments of a balance that is spread over months or quarters.       *)
LEMMA SpreadBalance ==
    ASSUME PlanRow, Schedule!Accepted(plan), Schedule!FinancedBalance(plan) > 0,
           plan.frequency # "CUSTOM"
    PROVE  LET lines == Schedule!Balance(plan)
               step  == Schedule!Interval(plan)
           IN  /\ lines \in Seq(Lines) /\ Len(lines) = plan.count
               /\ \A i \in 1..plan.count :
                    /\ lines[i].amount = Schedule!Amount(plan, i)
                    /\ lines[i].due \in Int
                    /\ MonthOf(lines[i].due) = MonthOf(plan.first) + step * (i - 1)
<1> DEFINE lines == Schedule!Balance(plan)
           step == Schedule!Interval(plan)
           n == plan.count
           Type(i) == IF i = n /\ n > 1 THEN "FINAL" ELSE "REGULAR"
           Falls(i) == Schedule!AddMonths(plan.first, step * (i - 1))
           Row(i) == [type |-> Type(i), due |-> Falls(i), amount |-> Schedule!Amount(plan, i)]
<1>1. n \in Nat \ {0} /\ \A i \in 1..n : Schedule!Amount(plan, i) \in Int
  BY InstallmentsRound
<1>2. ASSUME NEW i \in 1..n
      PROVE  Falls(i) \in Int /\ MonthOf(Falls(i)) = MonthOf(plan.first) + step * (i - 1)
  <2> DEFINE k == step * (i - 1)
             o == MonthOf(plan.first)
  <2>1. plan.first \in Dates /\ o + step * (n - 1) <= Len(MonthLength)  BY DEF PlanRow
  <2>2. o \in Nat /\ Len(MonthLength) \in Nat
    <3>1. o \in Months  BY <2>1, MonthOfDate
    <3> HIDE DEF o
    <3> QED  BY <3>1, MonthFacts
  <2>3. step \in {1, 3}  BY DEF Schedule!Interval
  <2> HIDE DEF o, n, step
  <2>4. k \in Nat /\ o + k <= Len(MonthLength)  BY <1>1, <2>1, <2>2, <2>3
  <2> HIDE DEF k
  <2>5. /\ Schedule!AddMonths(plan.first, k) \in Int
        /\ MonthOf(Schedule!AddMonths(plan.first, k)) = o + k
    BY <2>1, <2>4, PutOff DEF o
  <2> QED  BY <2>5 DEF k, o
<1>3. lines = [i \in 1..n |-> Row(i)]  BY <1>1 DEF Schedule!Balance
<1> HIDE DEF lines, step, n, Falls
<1>4. \A i \in 1..n : Row(i) \in Lines  BY <1>1, <1>2 DEF Lines
<1>5. \A i \in 1..n : Row(i).amount = Schedule!Amount(plan, i) /\ Row(i).due = Falls(i)  OBVIOUS
<1> HIDE DEF Row
<1>6. lines \in Seq(Lines) /\ Len(lines) = n /\ \A i \in 1..n : lines[i] = Row(i)  BY <1>1, <1>3, <1>4
<1>7. \A i \in 1..n : /\ lines[i].amount = Schedule!Amount(plan, i)
                      /\ lines[i].due \in Int
                      /\ MonthOf(lines[i].due) = MonthOf(plan.first) + step * (i - 1)
  BY <1>2, <1>5, <1>6
<1> QED  BY <1>6, <1>7 DEF lines, step, n


(* The installments of a spread balance add up to it.                          *)
LEMMA SpreadTotal ==
    ASSUME PlanRow, Schedule!Accepted(plan), Schedule!FinancedBalance(plan) > 0,
           plan.frequency # "CUSTOM"
    PROVE  Schedule!Total(Schedule!Balance(plan)) = Schedule!FinancedBalance(plan)
<1> DEFINE lines == Schedule!Balance(plan)
           f == Schedule!FinancedBalance(plan)
           b == Schedule!BaseAmount(plan)
           n == plan.count
           k == n - 1
<1>1. /\ n \in Nat \ {0} /\ f \in Nat \ {0} /\ b \in Nat
      /\ \A i \in 1..n : Schedule!Amount(plan, i) = IF i = n THEN f - (n - 1) * b ELSE b
  BY InstallmentsRound
<1>2. /\ lines \in Seq(Lines) /\ Len(lines) = n
      /\ \A i \in 1..n : lines[i].amount = Schedule!Amount(plan, i)
  BY SpreadBalance
<1> HIDE DEF lines, f, b, n
<1>3. /\ \A i \in 1..n : Amounts(lines)[i] = lines[i].amount /\ Amounts(lines)[i] \in Int
      /\ Schedule!Total(lines) = SumFunctionOnSet(Amounts(lines), 1..n)
  BY <1>2, TotalIs
<1>4. k \in Nat /\ k + 1 = n /\ \A i \in 1..k : i \in 1..n /\ i # n  BY <1>1
<1>5. SumFunctionOnSet(Amounts(lines), 1..k) = k * b
  <2>1. \A i \in 1..k : Amounts(lines)[i] = b  BY <1>1, <1>2, <1>3, <1>4
  <2>2. b \in Int  BY <1>1
  <2> HIDE DEF k
  <2> QED  BY <1>4, <2>1, <2>2, SumOfEqual
<1>6. Amounts(lines)[n] = f - k * b
  <2>1. n \in 1..n  BY <1>1
  <2> QED  BY <1>1, <1>2, <1>3, <2>1
<1> HIDE DEF k
<1>7. SumFunctionOnSet(Amounts(lines), 1..n)
        = Amounts(lines)[n] + SumFunctionOnSet(Amounts(lines), 1..k)
  <2>1. (1..k) \cup {n} = 1..n /\ n \notin 1..k /\ IsFiniteSet(1..k)  BY <1>4, NumbersTo
  <2>2. \A i \in (1..k) \cup {n} : Amounts(lines)[i] \in Int  BY <1>3, <2>1
  <2>3. SumFunctionOnSet(Amounts(lines), (1..k) \cup {n})
          = Amounts(lines)[n] + SumFunctionOnSet(Amounts(lines), 1..k)
    BY <2>1, <2>2, SumAddOne
  <2> QED  BY <2>1, <2>3
<1>8. k * b \in Int  BY <1>1, <1>4
<1>9. Schedule!Total(lines) = f  BY <1>1, <1>3, <1>5, <1>6, <1>7, <1>8
<1> QED  BY <1>9 DEF lines, f

LEMMA PriceCovered == ASSUME PlanRow PROVE Schedule!PlanCoversPrice(plan)
<1> DEFINE total == Schedule!Total(Schedule!Balance(plan))
           f == Schedule!FinancedBalance(plan)
           gap == Schedule!Total(Schedule!SimulateSalesSubscriptionPlan(plan)) - Schedule!FinalPrice(plan)
<1>1. SUFFICES ASSUME Schedule!Accepted(plan)
      PROVE  IF plan.frequency = "CUSTOM" THEN gap \in (-1)..1 ELSE gap = 0
  BY DEF Schedule!PlanCoversPrice
<1>2. /\ Schedule!FinalPrice(plan) = Schedule!Deposit(plan) + f
      /\ Schedule!Deposit(plan) \in Nat /\ f \in Nat /\ Schedule!FinalPrice(plan) \in Nat
  BY <1>1, PlanNumbers
<1>3. ASSUME Schedule!Balance(plan) \in Seq(Lines) PROVE gap = total - f /\ total \in Int
  <2>1. Schedule!Total(Schedule!SimulateSalesSubscriptionPlan(plan)) = Schedule!Deposit(plan) + total
    BY <1>1, <1>3, TotalWithDeposit
  <2>2. total \in Int  BY <1>3, TotalIs
  <2> HIDE DEF total, f
  <2> QED  BY <1>2, <2>1, <2>2
<1>4. CASE f = 0
  <2>1. Schedule!Balance(plan) = <<>>  BY <1>4 DEF Schedule!Balance
  <2>2. Schedule!Balance(plan) \in Seq(Lines) /\ Len(Schedule!Balance(plan)) = 0  BY <2>1
  <2>3. total = 0
    <3>1. total = SumFunctionOnSet(Amounts(Schedule!Balance(plan)), 1..0)  BY <2>2, TotalIs
    <3>2. 1..0 = {}  OBVIOUS
    <3> QED  BY <3>1, <3>2, SumEmpty
  <2>4. gap = total - f  BY <1>3, <2>2
  <2> HIDE DEF gap, total, f
  <2>5. gap = 0  BY <1>4, <2>3, <2>4
  <2> QED  BY <2>5
<1>5. CASE f # 0 /\ plan.frequency = "CUSTOM"
  <2>1. f > 0  BY <1>2, <1>5
  <2>2. Schedule!Balance(plan) = plan.custom  BY <1>5 DEF Schedule!Balance
  <2>3. Schedule!CustomTotal(plan) - f \in (-1)..1
    BY <1>1, <1>5, <2>1 DEF Schedule!Accepted
  <2>4. Schedule!CustomTotal(plan) = total  BY <2>2 DEF Schedule!CustomTotal
  <2>5. gap = total - f  BY <1>3, <2>2 DEF PlanRow
  <2> HIDE DEF gap, total, f
  <2> QED  BY <1>5, <2>3, <2>4, <2>5
<1>6. CASE f # 0 /\ plan.frequency # "CUSTOM"
  <2>1. f > 0  BY <1>2, <1>6
  <2>2. Schedule!Balance(plan) \in Seq(Lines) /\ total = f
    BY <1>1, <1>6, <2>1, SpreadBalance, SpreadTotal
  <2>3. gap = total - f  BY <1>3, <2>2
  <2> HIDE DEF gap, total, f
  <2>4. gap = 0  BY <1>2, <2>2, <2>3
  <2> QED  BY <1>6, <2>4
<1> QED  BY <1>4, <1>5, <1>6

LEMMA RoundingTaken == ASSUME PlanRow PROVE Schedule!RoundingAbsorbed(plan)
<1> DEFINE lines == Schedule!Balance(plan)
           f == Schedule!FinancedBalance(plan)
           b == Schedule!BaseAmount(plan)
           n == Len(lines)
<1>1. SUFFICES ASSUME Schedule!Accepted(plan), plan.frequency # "CUSTOM", n > 0
      PROVE  /\ 2 * (lines[n].amount - lines[1].amount) \in (-n)..n
             /\ 2 * f > n * (n - 1) => lines[n].amount > 0
  BY DEF Schedule!RoundingAbsorbed
<1>2. f > 0
  <2>1. f \in Nat  BY <1>1, PlanNumbers
  <2>2. f # 0
    <3>1. SUFFICES ASSUME f = 0 PROVE FALSE  OBVIOUS
    <3>2. lines = <<>>  BY <3>1 DEF Schedule!Balance
    <3> QED  BY <1>1, <3>2
  <2> QED  BY <2>1, <2>2
<1>3. /\ n = plan.count
      /\ \A i \in 1..n : lines[i].amount = Schedule!Amount(plan, i)
  BY <1>1, <1>2, SpreadBalance
<1>4. /\ n \in Nat \ {0} /\ f \in Nat \ {0} /\ b \in Nat
      /\ 2 * (f - n * b) \in (-n)..n
      /\ 2 * f > n * (n - 1) => f - (n - 1) * b > 0
      /\ \A i \in 1..n : Schedule!Amount(plan, i) = IF i = n THEN f - (n - 1) * b ELSE b
  BY <1>1, <1>2, <1>3, InstallmentsRound
<1> HIDE DEF n, f, b, lines
<1>5. n \in 1..n /\ 1 \in 1..n  BY <1>4
<1>6. lines[n].amount = f - (n - 1) * b  BY <1>3, <1>4, <1>5
<1>7. 2 * (lines[n].amount - lines[1].amount) \in (-n)..n
  <2>1. CASE n = 1  BY <1>4, <1>6, <2>1
  <2>2. CASE n # 1
    <3>1. lines[1].amount = b  BY <1>3, <1>4, <1>5, <2>2
    <3>2. (f - (n - 1) * b) - b = f - n * b
      <4>1. (n - 1) * b + b = n * b /\ (n - 1) * b \in Int /\ n * b \in Int  BY <1>4
      <4> QED  BY <1>4, <4>1
    <3> QED  BY <1>4, <1>6, <3>1, <3>2
  <2> QED  BY <2>1, <2>2
<1> QED  BY <1>4, <1>6, <1>7

LEMMA DueInOrder == ASSUME PlanRow PROVE Schedule!DueDatesFollow(plan)
<1> DEFINE lines == Schedule!Balance(plan)
           f == Schedule!FinancedBalance(plan)
           step == Schedule!Interval(plan)
           o == MonthOf(plan.first)
<1>1. SUFFICES ASSUME Schedule!Accepted(plan), plan.frequency # "CUSTOM",
                      NEW i \in 1..(Len(lines) - 1)
      PROVE  Schedule!MonthOf(lines[i + 1].due) = Schedule!MonthOf(lines[i].due) + step
  BY DEF Schedule!DueDatesFollow
<1>2. f \in Nat /\ step \in Nat  BY <1>1, PlanNumbers
<1>3. CASE f = 0
  <2>1. lines = <<>>  BY <1>3 DEF Schedule!Balance
  <2>2. Len(lines) = 0  BY <2>1
  <2> QED  BY <1>1, <2>2
<1>4. CASE f # 0
  <2>1. f > 0  BY <1>2, <1>4
  <2>2. /\ Len(lines) = plan.count
        /\ \A j \in 1..plan.count : MonthOf(lines[j].due) = o + step * (j - 1)
    BY <1>1, <2>1, SpreadBalance
  <2>3. plan.count \in Nat /\ plan.first \in Dates  BY DEF PlanRow
  <2>4. o \in Nat
    <3>1. o \in Months  BY <2>3, MonthOfDate
    <3> HIDE DEF o
    <3> QED  BY <3>1, MonthFacts
  <2> HIDE DEF lines, f, step, o
  <2>5. i \in 1..plan.count /\ i + 1 \in 1..plan.count /\ i \in Int  BY <1>1, <2>2, <2>3
  <2>6. MonthOf(lines[i].due) = o + step * (i - 1) /\ MonthOf(lines[i + 1].due) = o + step * ((i + 1) - 1)
    BY <2>2, <2>5
  <2>7. step * ((i + 1) - 1) = step * (i - 1) + step /\ step * (i - 1) \in Int  BY <1>2, <2>5
  <2>8. MonthOf(lines[i + 1].due) = MonthOf(lines[i].due) + step  BY <1>2, <2>4, <2>6, <2>7
  <2> QED  BY <2>8, OneCalendarOfPlans
<1> QED  BY <1>3, <1>4

(* An accepted plan adds up to its price, its last installment takes the       *)
(* rounding of the others and no more, and its installments fall due in one    *)
(* month or quarter after the other: for any price, discount, deposit, number  *)
(* of installments and first day, over any calendar that is long enough        *)
(* (simulateSalesSubscriptionPlan).                                            *)
THEOREM PlansAreKept == ASSUME PlanRow PROVE PlanIsKept
BY PriceCovered, RoundingTaken, DueInOrder DEF PlanIsKept

=================================================================================
