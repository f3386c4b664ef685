---------------------------- MODULE CartVerifier ----------------------------
(***************************************************************************)
(* cart_verifier.py and checkout_guard.py: a cart as a shop reports it,    *)
(* compared with what the buyer approved, and the thirteen gates before a  *)
(* payment.  Pure operators; Checkout and McpServer decide with them.      *)
(*                                                                         *)
(* Amounts are naturals.  A merchant, a currency or a variant is a value   *)
(* compared for equality (the code lowers or uppers both sides).  A hash   *)
(* is the payload it is computed from.                                     *)
(***************************************************************************)
EXTENDS Naturals, Sequences, FiniteSets, SequencesExt

\* Null: no time of confirmation, no hash, no total.
CONSTANT Nil

\* A line of a cart: [variant, quantity, total], always with an exact total.
LineTotals(lines) == FoldSeq(LAMBDA line, sum : sum + line.total, 0, lines)

\* ObservedCart: what the shop leaves out is computed, what it says is believed.
ObservedCart(merchant, id, currency, lines, delivery, total) ==
  [merchant |-> merchant, id |-> id, currency |-> currency, lines |-> lines,
   total |-> IF total = Nil THEN LineTotals(lines) + delivery ELSE total]

\* CartExpectation refuses an empty cart and a variant approved twice.
ValidExpectation(expected) ==
  /\ expected.lines # << >>
  /\ \A i, j \in DOMAIN expected.lines :
       expected.lines[i].variant = expected.lines[j].variant => i = j

Variants(lines) == {lines[i].variant : i \in DOMAIN lines}

\* The lines at these places, in the cart's order.
At(lines, places) ==
  [n \in 1 .. Cardinality(places) |->
     lines[CHOOSE i \in places : Cardinality({j \in places : j < i}) = n - 1]]

\* The lines of one variant.
Of(lines, v) == At(lines, {i \in DOMAIN lines : lines[i].variant = v})

Quantities(lines) ==
  [v \in Variants(lines) |->
     FoldSeq(LAMBDA line, sum : sum + line.quantity, 0, Of(lines, v))]

Totals(lines) == [v \in Variants(lines) |-> LineTotals(Of(lines, v))]

\* What was approved: one line per variant, quantity times the quoted unit price.
Approved(expected) == expected.lines

ApprovedTotals(expected) ==
  LET lines == Approved(expected)
  IN  [v \in Variants(lines) |-> LET line == Of(lines, v)[1] IN line.price * line.quantity]

\* Lines are sorted by variant, and the sort is stable: the lines of one variant
\* keep the shop's order.
CartHash(cart) ==
  [merchant |-> cart.merchant, currency |-> cart.currency, total |-> cart.total,
   lines |-> [v \in Variants(cart.lines) |-> Of(cart.lines, v)]]

\* An expected variant that is absent is a failure of the quantities, not of the prices.
MatchesPrices(expected, observed) ==
  \A v \in Variants(Approved(expected)) \cap Variants(observed.lines) :
    Totals(observed.lines)[v] = ApprovedTotals(expected)[v]

MatchesQuantities(expected, observed) ==
  Quantities(observed.lines) = Quantities(Approved(expected))

CompareCart(expected, observed) ==
  [merchant |-> observed.merchant = expected.merchant,
   currency |-> observed.currency = expected.currency,
   quantities |-> MatchesQuantities(expected, observed),
   prices |-> MatchesPrices(expected, observed),
   cap |-> observed.total <= expected.cap]

Matches(comparison) == \A fact \in DOMAIN comparison : comparison[fact]

\* An intent as far as checkout knows it: [status, complete, hash, at].
\* confirm_cart: frozen only when the cart that was read matches.
ConfirmCart(intent, expected, observed, now) ==
  IF Matches(CompareCart(expected, observed))
  THEN [intent EXCEPT !.status = "confirmed", !.hash = CartHash(observed), !.at = now]
  ELSE intent

AuthorizationFresh(intent, now, maxAge) ==
  intent.at # Nil /\ now <= intent.at + maxAge

\* Confirmed at some time, whatever the cart was.
ConfirmedBefore(intent, observed) == intent.status = "confirmed"

ConfirmationMatches(intent, observed) ==
  intent.status = "confirmed" /\ intent.hash = CartHash(observed)

PrePaymentGates(intent, expected, observed, evidence, now, maxAge) ==
  LET comparison == CompareCart(expected, observed)
  IN  [merchantPermitted |-> evidence.merchantPermitted /\ comparison.merchant,
       intentValid |-> intent.status = "confirmed",
       fieldsComplete |-> intent.complete,
       cartUnique |-> evidence.cartUnique /\ observed.id # Nil,
       attributesMatch |-> evidence.attributesMatch,
       quantitiesMatch |-> comparison.quantities,
       pricesMatch |-> comparison.prices,
       itemsAvailable |-> evidence.itemsAvailable,
       currencyMatch |-> comparison.currency,
       withinCap |-> comparison.cap,
       confirmationMatches |-> ConfirmationMatches(intent, observed),
       authorizationFresh |-> AuthorizationFresh(intent, now, maxAge),
       idempotencyFree |-> evidence.idempotencyFree]

\* GateResult.from_checks: no override.
Failed(checks) == {gate \in DOMAIN checks : ~checks[gate]}

Allow(checks) == Failed(checks) = {}
=============================================================================
