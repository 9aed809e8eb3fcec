SPECIFICATION Spec
CONSTANTS
  ann = ann
  bob = bob
  a1 = a1
  a2 = a2
  b1 = b1
  b2 = b2
  lost = lost
  shop = shop
  Events <- MCEvents
  Deliveries <- PaidTwice
  Casts <- AllOfThem
  Subs = {a1, a2, b1, b2, lost}
  Users = {ann, bob}
  UserOf <- MCUserOf
  FirstStore = shop
  FirstSub = a1
  NoUser = NoUser
  NoSub = none
  NoId = NoId
  NoStore = NoStore
INVARIANTS
  CreditedOnce
\* Every delivery is handled at most once: the run stops when all are answered.
CHECK_DEADLOCK FALSE
