SPECIFICATION StartupSpec
CONSTANTS
  Passwords = {admin, p1, p2}
  Shipped = admin
  Keep = Keep
  NoRow = NoRow
  Requests = {r1, r2}
  Lifetime = 1
  MaxSession = 2
  MaxChange = 2
  MaxCost = 2
  MaxTime = 0
  MayCrash = TRUE
  Texts <- Files
  Releases <- ThreeReleases
  Payouts = {q}
  MaxSecret = 2
SYMMETRY Interchangeable
INVARIANTS RemoteMeansChanged MigrationsAreTrue FirstLineDecides
PROPERTIES ServesAsCredentials
