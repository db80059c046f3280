CONSTANTS
  alice = alice
  bob = bob
  carol = carol
  t1 = t1
  t2 = t2
  photo = photo
  Parties = {alice, bob, carol}
  Tokens = {t1}
  FirstOwner = alice
  Users = {alice, bob}
  Inputs = {photo}
  Configured = {alice}
  Nothing = Nothing
  MaxRequests = 2
  MaxHandings = 2
  MaxFailures = 1
SPECIFICATION UseFairSpec
INVARIANTS OnlyOwnersUse
PROPERTIES PublicAvailable
