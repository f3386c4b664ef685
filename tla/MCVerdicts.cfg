\* Requests of up to two items, carts of up to two lines, three shops, three queries.
SPECIFICATION MCSpec
CONSTANTS
  own = own
  hunch = hunch
  added = added
  elsewhere = elsewhere
  blinkit = blinkit
  zepto = zepto
  v1 = v1
  v2 = v2
  Unknown = Unknown
  Raised = Raised
  Nil = Nil
  None = None
  IntentIds = {i1}
  Requests <- MCRequests
  Carts <- MCCarts
  Connectors <- MCConnectors
  KindOf <- MCKindOf
  EvidenceRank <- MCEvidenceRank
  CartCapable = {blinkit, zepto}
  MaxEvents = 3
  Shops <- MCShops
  Sells <- MCSells
  AddedShops = {added}
  ListOrder <- MCListOrder
  NameOrder <- MCNameOrder
  AskAtMost = 1
  Queries <- MCQueries
  Catalogue <- MCCatalogue
  Quantity = 2
  Budget = 4
INVARIANTS AllowedStaysWithinRequest RecommendationIsEarned RecommendationIsSafe FailureIsIsolated
CHECK_DEADLOCK FALSE
