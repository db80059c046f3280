CONSTANTS
  t1 = t1
  t2 = t2
  r1 = r1
  r2 = r2
  w1 = w1
  w2 = w2
  w3 = w3
  once = once
  often = often
  Identities = {t1}
  Methods = {once}
  UniqueMethods = {once}
  RequestIds = {r1}
  Workers = {w1, w2}
  NoSet = NoSet
  NoRequest = NoRequest
  MaxStarts = 1
SPECIFICATION Spec
INVARIANT AcceptedOnce
