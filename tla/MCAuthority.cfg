CONSTANTS
  v = v
  w = w
  b = b
  t = t
  x = x
  gold = gold
  silver = silver
  alice = alice
  bob = bob
  None = None
  Roots = {v, w}
  Issuers = {b, t}
  Tokens = {t}
  Exchanges = {x}
  Types = {gold, silver}
  Approvable = {t}
  Owners = {alice, bob}
  MaxChain = 2
  MaxStates = 15
CONSTANT Trusted <- MCTrusted
SPECIFICATION MCSpec
CHECK_DEADLOCK FALSE
INVARIANTS Vetted TradesVetted OneDecision
