CONSTANTS
  c1 = c1
  c2 = c2
  Clients = {c1, c2}
  Count = 2
  MaxObjects = 4
  MaxFailures = 2
SPECIFICATION MintingFairSpec
INVARIANTS LimitKept TokensUsable RecordsSound
PROPERTIES MintsAll
