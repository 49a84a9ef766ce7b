SPECIFICATION EdgeSpec
CONSTANTS
  alice = alice
  Nobody = Nobody
  bob = bob
  r1 = r1
  r2 = r2
  r3 = r3
  Requests = {r1, r2, r3}
  Principals = {alice, bob}
  Stripe <- OneStripe
  MaxRest = 2
  MaxFlight = 2
  Permits = 1
  MaxKeys = 1
  Window = 2
  Limit <- Limits
  MaxTime = 3
  Conns = {r1, r2, r3}
  Listeners = {"rest", "flight"}
  MaxConnections <- FewConnections
  IdleTimeout = 2
  MaxBody = 2
  MaxFrame = 2
SYMMETRY Symmetry
INVARIANTS PrincipalLimits CeilingsSound ConnectionsSound
CHECK_DEADLOCK FALSE
