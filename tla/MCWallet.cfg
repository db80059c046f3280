CONSTANTS
  ann = ann
  ben = ben
  annKey = annKey
  benKey = benKey
  oldKey = oldKey
  newKey = newKey
  gold = gold
  silver = silver
  h1 = h1
  identity = identity
  Issuers = {gold, silver}
  Types = {gold, silver}
  Parties = {annKey, benKey, oldKey, newKey}
  Agents = {}
  Word = 4
  IntMax = 1
  MaxEscrows = 0
  Users = {ann, ben}
  Names = {"ann", "ben"}
  Handles = {h1, identity}
  OwnHandle = identity
  Unspecified = "unspecified"
  NoHandle = NoHandle
  NoName = NoName
  NoIssuer = NoIssuer
  MaxKeyings = 1
  MaxFailures = 1
CONSTANTS
  MaxImports <- MCMaxImports
  Typed <- MCTyped
  TypeOf <- MCTypeOf
  Creator <- MCCreator
  FirstFiles <- MCFirstFiles
  FirstKeys <- MCFirstKeys
SPECIFICATION MCSpec
INVARIANTS ListedUsable
PROPERTIES ImportsKept PaidToListed PaidAsShown
