SPECIFICATION Spec
CONSTANTS
  freshcart = freshcart
  shop = shop
  newshop = newshop
  nowhere = nowhere
  oats = oats
  flakes = flakes
  milk = milk
  beans = beans
  Nil = Nil
  Error = Error
  c1 = c1
  c2 = c2
  Calls = {c1, c2}
  Requests <- MCRequests
  FreshCart = freshcart
  Verified = {shop}
  Domains = {newshop}
  MerchantOf <- MCMerchantOf
  ProductOf <- MCProductOf
  Stock <- MCStock
  ListPrice <- MCListPrice
  HigherPrice = 2
  Delivery = 1
  CartIds <- MCCartIds
  MaxAge = 0
  MaxUpsets = 1
  MaxRevisions = 1
  MaxCalls = 4
SYMMETRY MCSymmetry

PROPERTIES OrderAsApproved ClaimIsCurrent SelectSettles
CHECK_DEADLOCK FALSE
