\* Leases of two units and their building; periods of a lease; stock, purchases and inventories.
SPECIFICATION MCSpec
CONSTANTS
  Sessions = {s1, s2}
  LeaseIds = {lease1, lease2}
  Units = {u1, u2}
  Whole = whole
  Items = {1, 2}
  Purchases = {po}
  SupplierPayments = {m1, m2}
  Inventories = {inv}
  MaxQuantity = 2
  Horizon = 2
  MonthLength <- Calendar
  Price <- Charges
  Today = 1
  Endpoints <- AllEndpoints
  Scenes = {"letting", "editing", "keys", "billing", "store", "supplies", "dues", "orders", "count"}
SYMMETRY Symmetry
CHECK_DEADLOCK FALSE
INVARIANTS TypesOK OneActivePerUnit BuildingFollows BillingFollows StockFollows PurchasesFollow
