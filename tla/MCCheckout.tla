----------------------------- MODULE MCCheckout -----------------------------
(* One session, two calls at a time, four in all, one upset, one revision. *)
EXTENDS Checkout, TLC
CONSTANTS freshcart, shop, newshop, nowhere, oats, flakes, milk, beans, c1, c2

MCMerchantOf == oats :> freshcart @@ flakes :> freshcart @@ milk :> freshcart @@ beans :> shop
MCProductOf == oats :> "oats" @@ flakes :> "oats" @@ milk :> "milk" @@ beans :> "oats"
MCItem(product, quantity) == [product |-> product, quantity |-> quantity]
MCDraft(merchant, items, cap) == [merchant |-> merchant, items |-> items, cap |-> cap]
MCRequests ==
  {MCDraft(freshcart, <<MCItem("oats", 1), MCItem("milk", 1)>>, 5),
   MCDraft(freshcart, <<MCItem("oats", 1)>>, 5),
   MCDraft(shop, <<MCItem("oats", 2)>>, 5),
   MCDraft(Nil, <<MCItem("oats", 1)>>, 5),
   MCDraft(newshop, <<MCItem("oats", 1)>>, 5),
   MCDraft(nowhere, <<MCItem("oats", Nil)>>, 0)}
MCStock == [v \in DOMAIN MCMerchantOf |-> IF v = flakes THEN 1 ELSE 2]
MCListPrice == [v \in DOMAIN MCMerchantOf |-> 1]
MCCartIds == {<<freshcart, 0>>, <<shop, 1>>, <<shop, 2>>}
MCSymmetry == Permutations({c1, c2})
=============================================================================
