SPECIFICATION FairSpec
CONSTANTS
  r1 = r1  r2 = r2  r3 = r3  u1 = u1  u2 = u2
  Requests = {r1, r2, r3}
  Users = {u1, u2}
  UserOf <- Clicks
  Stock = 2
  Absent = Absent
  MaxEvents = 2
CHECK_DEADLOCK FALSE
INVARIANTS TypeOK NoUnitLost SoldOnce NoSecondPurchase AnswerOnRecord CatalogComplete
PROPERTIES BuyerAnswered
