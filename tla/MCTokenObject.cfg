CONSTANTS
  i1 = i1
  t1 = t1
  gold = gold
  ticket = ticket
  minter = minter
  bob = bob
  g1 = g1
  g2 = g2
  Issuers = {i1, t1}
  Tokens = {t1}
  Types = {gold, ticket}
  Parties = {minter, bob}
  Agents = {g1, g2}
  Minter = minter
  Word = 4
  IntMax = 1
  MaxEscrows = 2
CONSTANT TypeOf <- MCTypeOf
SPECIFICATION TokenSpec
SYMMETRY Symmetry
INVARIANTS OwnerInPossession EscrowUnique OneOutcome HeldUntilSigned IssuersConserve
PROPERTY OwnershipHandedOver
