CONSTANTS
  blue = blue
  red = red
  alice = alice
  bob = bob
  carol = carol
  x1 = x1
  x2 = x2
  blueBank = blueBank
  redBank = redBank
  vetter = vetter
  blueKey = blueKey
  redKey = redKey
  Issuers = {blueBank, redBank}
  Types = {blue, red}
  Parties = {alice, bob}
  Agents = {x1}
  Authorities = {vetter, blueKey, redKey}
  Unspecified = Unspecified
  NoRequest = NoRequest
  NoAsset = NoAsset
  NoParty = NoParty
  NoOrder = NoOrder
  NoPaper = NoPaper
  Word = 2
  IntMax = 1
  MaxEscrows = 3
  MaxFailures = 2
CONSTANTS
  TypeOf <- MCTypeOf
  Creator <- MCCreator
  ChainOf <- MCChainOf
  KeyOf <- MCKeyOf
  OfferIssuer <- MCOfferIssuer
  OfferCount <- MCOne
  RequestIssuer <- MCRequestIssuer
  RequestCount <- MCOne
  RequestUser <- MCAnyone
  Requests <- MCRequests
SPECIFICATION MCSpec
INVARIANTS StrayOnlyIfRefused PaperHolds FiledIsInitialized
PROPERTIES SwapRefined ClaimsComplete CancelCompletes
