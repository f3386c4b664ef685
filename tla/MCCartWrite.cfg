SPECIFICATION Spec
CONSTANTS
  instamart = instamart
  shopify = shopify
  p1 = p1
  p2 = p2
  w1 = w1
  w2 = w2
  s1 = s1
  s2 = s2
  Nil = Nil
  Stale = Stale
  Error = Error
  Connectors = {instamart, shopify}
  OAuthConnectors = {}
  CredentialConnectors = {instamart}
  States = {st1}
  Keys = {k1}
  Addresses = {a1}
  MaxTokens = 1
  Ids = {p1, p2}
  Instamart = instamart
  CartConnectors = {instamart, shopify}
  Spins = {s1, s2}
  MostOfOne = 1
  Writers = {w1, w2}
  Attempts = 2
  MaxUpsets = 1
  MaxEvents = 1
SYMMETRY MCSymmetry
INVARIANTS SentOnceAsApproved
PROPERTIES SucceededIsReal
CHECK_DEADLOCK FALSE
