----------------------------- MODULE MCMissions -----------------------------
(* Two connectors, one for groceries behind an account and one for everything  *)
(* else; three missions of one session.                                        *)
EXTENDS Missions, TLC

CONSTANTS instamart, shopify, m1, m2, m3, s1

MCKeywords == <<[category |-> "GROCERY", words |-> {"milk"}]>>
Milk == [words |-> {"milk"}, modifies |-> FALSE]
ToHome == [words |-> {"home"}, modifies |-> TRUE]
MCMessages == {<<Milk, ToHome, Milk>>}
MCWidening == [GENERAL |-> {"GROCERY"}, GROCERY |-> {}]
MCCapabilities == (instamart :> {"GROCERY"}) @@ (shopify :> {"GENERAL"})
MCReadTools == (instamart :> {"search_products", "get_addresses"}) @@ (shopify :> {"search_catalog"})
MCResultTool == (instamart :> "search_products") @@ (shopify :> "search_catalog")
MCInformational == {[connector |-> instamart, tool |-> "get_addresses"]}
MCServersOf == (instamart :> {"instamart"}) @@ (shopify :> {"shopify-0"})
MCSymmetry == Permutations({m1, m2, m3})
=============================================================================
