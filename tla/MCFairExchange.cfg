CONSTANTS
  blue = blue
  red = red
  alice = alice
  bob = bob
  carol = carol
  x1 = x1
  blueBank = blueBank
  redBank = redBank
  vetter = vetter
  stranger = stranger
  Issuers = {blueBank, redBank}
  Types = {blue, red}
  Parties = {alice, bob, carol}
  Agents = {x1}
  Authorities = {vetter, stranger}
  Unspecified = Unspecified
  NoRequest = NoRequest
  NoAsset = NoAsset
  NoParty = NoParty
  Word = 2
  IntMax = 1
  MaxEscrows = 3
CONSTANTS
  TypeOf <- MCTypeOf
  Creator <- MCCreator
  ChainOf <- MCChainOf
  Requests <- MCRequests
SPECIFICATION MCLiveSpec
INVARIANTS OneDisposition PaymentAsRequested
PROPERTIES PaidToNamed SwapSettles BystandersReleased
