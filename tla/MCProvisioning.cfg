CONSTANTS
  i1 = i1
  i2 = i2
  t1 = t1
  t2 = t2
  c1 = c1
  c2 = c2
  Clients = {c1, c2}
  TokenIssuers = {i1, i2}
  Authorized = {i1}
  Tokens = {t1, t2}
  MaxCalls = 6
  NoContract = NoContract
  MaxStartups = 2
  IssuerOf <- MCIssuerOf
SPECIFICATION MCSpec
INVARIANTS OnceProvisionedUsable IssuersServed
SYMMETRY Symmetry
