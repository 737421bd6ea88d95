SPECIFICATION Spec
CONSTANTS
  Passwords = {admin, p1}
  Shipped = admin
  Keep = Keep
  NoRow = NoRow
  Requests = {r1, r2}
  Lifetime = 2
  MaxSession = 2
  MaxChange = 2
  MaxCost = 2
  MaxTime = 4
  MayCrash = TRUE
SYMMETRY Interchangeable
INVARIANTS ChangesEndWhatWasOpen SessionsLastAsUsed
