----------------------------- MODULE McpServer -----------------------------
(***************************************************************************)
(* mcp_server.py: any assistant records what its user asked for, shops     *)
(* with whatever it has, and asks whether the cart it built may be paid.   *)
(* Every tool runs from its start to its end without an await, so a call   *)
(* is one step.  Intents live in the process; the audit trail, the         *)
(* connector log and the remembered connectors live in databases.          *)
(*                                                                         *)
(* A stated product is a name the server never compares with anything, so  *)
(* an item is its quantity.                                                *)
(***************************************************************************)
EXTENDS CartVerifier

M == INSTANCE Memory

CONSTANTS
  IntentIds,
  Requests,       \* stated requests: [items : sequence of quantities, merchant, cap, currency]
  Carts,          \* reported carts: [merchant, lines, total, currency, available]
  Connectors,     \* connectors.CONNECTORS: ids of merchants known to the directory
  KindOf,         \* per connector: its category
  EvidenceRank,   \* per connector: _EVIDENCE_RANK of its evidence
  CartCapable,    \* connectors that can hand back a cart
  MaxEvents       \* bound on the audit trail

ASSUME McpAssumption ==
  /\ \A request \in Requests : request.items \in Seq(Nat) /\ request # Nil
  /\ \A cart \in Carts :
       /\ cart.lines \in Seq(Range(cart.lines)) /\ cart.total \in Nat
       /\ \A i \in DOMAIN cart.lines :
            cart.lines[i].quantity \in Nat /\ cart.lines[i].total \in Nat
  /\ EvidenceRank \in [Connectors -> Nat] /\ CartCapable \subseteq Connectors
  /\ Nil \notin BOOLEAN /\ Nil \notin Nat

VARIABLES
  intents,        \* _INTENTS: per id, the request, Nil when there is none
  stores,         \* remembered connectors, oldest first
  audit,          \* audit events, oldest first
  log,            \* connector log, oldest first
  answer          \* what the last call answered

vars == <<intents, stores, audit, log, answer>>

Kinds == {KindOf[c] : c \in Connectors}

\* Lines with a quantity of 0 are in neither cart.
Bought(cart) == At(cart.lines, {i \in DOMAIN cart.lines : cart.lines[i].quantity > 0})

\* A cart without a currency is in the intent's.
Observed(id, intent, cart) ==
  ObservedCart(cart.merchant, id,
               IF cart.currency = Nil THEN intent.currency ELSE cart.currency,
               Bought(cart), 0, cart.total)

Shorter(a, b) == IF a <= b THEN a ELSE b

\* What was built taken for what was wanted.
PairsAsBuilt(intent, cart) ==
  [i \in 1 .. Shorter(Len(intent.items), Len(Bought(cart))) |->
     LET line == Bought(cart)[i]
     IN  [variant |-> line.variant, quantity |-> line.quantity,
          price |-> line.total \div line.quantity]]

\* Stated items and reported lines are paired by position, as far as both go.
Pairs(intent, cart) ==
  [i \in 1 .. Shorter(Len(intent.items), Len(Bought(cart))) |->
     LET line == Bought(cart)[i]
     IN  [variant |-> line.variant, quantity |-> intent.items[i],
          price |-> line.total \div line.quantity]]

Expectation(intent, cart) ==
  [merchant |-> cart.merchant, currency |-> intent.currency, cap |-> intent.cap,
   lines |-> IF Pairs(intent, cart) = << >>
             THEN <<[variant |-> Nil, quantity |-> 1, price |-> 0]>>
             ELSE Pairs(intent, cart)]

\* Confirmed on the spot, with the hash of the cart that was reported.
Gates(id, intent, cart) ==
  LET observed == Observed(id, intent, cart)
  IN  PrePaymentGates(
        [status |-> "confirmed", complete |-> intent.items # << >>,
         hash |-> CartHash(observed), at |-> 0],
        Expectation(intent, cart), observed,
        [merchantPermitted |-> TRUE, cartUnique |-> TRUE, attributesMatch |-> TRUE,
         itemsAvailable |-> cart.available, idempotencyFree |-> TRUE],
        0, 0)

Room == Len(audit) < MaxEvents

Event(type, id, allow) == [type |-> type, id |-> id, allow |-> allow]

\* record_intent.  No items, or no spending limit (a cap of 0 or none): refused.
RecordIntent(id, request) ==
  /\ Room /\ intents[id] = Nil
  /\ IF request.items # << >> /\ request.cap > 0
     THEN /\ intents' = [intents EXCEPT ![id] = request]
          /\ audit' = Append(audit, Event("intent_recorded", id, TRUE))
          /\ answer' = [tool |-> "record_intent", recorded |-> TRUE]
     ELSE /\ audit' = Append(audit, Event("intent_refused", Nil, FALSE))
          /\ answer' = [tool |-> "record_intent", recorded |-> FALSE]
          /\ UNCHANGED intents
  /\ UNCHANGED <<stores, log>>

\* The verdict not looked at.
RememberConnectorAlways(merchant, allow) ==
  IF merchant \in Connectors THEN M!RememberStore(stores, merchant) ELSE stores

\* _remember_connector_on_success: only a connector of the directory.
RememberConnectorOnSuccess(merchant, allow) ==
  IF allow /\ merchant \in Connectors THEN M!RememberStore(stores, merchant) ELSE stores

\* No intent of that id, or a cart without a merchant.
RefuseCheck(id, cart) ==
  /\ Room
  /\ intents[id] = Nil \/ cart.merchant = Nil
  /\ audit' = Append(audit, Event("cart_check_refused", id, FALSE))
  /\ answer' = [tool |-> "check_cart", allow |-> FALSE, id |-> id, cart |-> cart,
                intent |-> intents[id]]
  /\ UNCHANGED <<intents, stores, log>>

\* One variant reported on two paired lines: CartExpectation raises, nothing is
\* caught, recorded or answered.
CheckRaises(id, cart) ==
  /\ intents[id] # Nil /\ cart.merchant # Nil
  /\ ~ValidExpectation(Expectation(intents[id], cart))
  /\ answer' = [tool |-> "check_cart", allow |-> Nil]
  /\ UNCHANGED <<intents, stores, audit, log>>

CheckCart(id, cart) ==
  LET intent == intents[id]
      allow == Allow(Gates(id, intent, cart))
  IN  /\ Room /\ intent # Nil /\ cart.merchant # Nil
      /\ ValidExpectation(Expectation(intent, cart))
      /\ audit' = Append(audit, Event("cart_checked", id, allow))
      /\ log' = Append(log, [merchant |-> cart.merchant, allow |-> allow])
      /\ stores' = RememberConnectorOnSuccess(cart.merchant, allow)
      /\ answer' = [tool |-> "check_cart", allow |-> allow, id |-> id, cart |-> cart,
                    intent |-> intent]
      /\ UNCHANGED intents

\* recommend_connector: best evidence first, a remembered one before all others.
Candidates(kind) == {c \in CartCapable : KindOf[c] = kind}

BestOf(connectors) ==
  CHOOSE c \in connectors : \A d \in connectors : EvidenceRank[c] <= EvidenceRank[d]

RecommendConnector(kind) ==
  LET remembered == Candidates(kind) \cap Range(stores)
  IN  /\ answer' =
           [tool |-> "recommend_connector", remembered |-> remembered # {},
            kind |-> kind,
            recommended |-> IF remembered # {} THEN BestOf(remembered)
                            ELSE IF Candidates(kind) = {} THEN Nil
                            ELSE BestOf(Candidates(kind))]
      /\ UNCHANGED <<intents, stores, audit, log>>

\* The process goes and comes back: what was only in memory is gone.
Restart ==
  /\ intents' = [id \in IntentIds |-> Nil]
  /\ answer' = Nil
  /\ UNCHANGED <<stores, audit, log>>

Init ==
  /\ intents = [id \in IntentIds |-> Nil]
  /\ stores = << >> /\ audit = << >> /\ log = << >>
  /\ answer = Nil

\* handle_rpc: one message, one handler.
Next ==
  \/ \E id \in IntentIds :
       \/ \E request \in Requests : RecordIntent(id, request)
       \/ \E cart \in Carts : RefuseCheck(id, cart) \/ CheckRaises(id, cart) \/ CheckCart(id, cart)
  \/ \E kind \in Kinds : RecommendConnector(kind)
  \/ Restart

Spec == Init /\ [][Next]_vars

-----------------------------------------------------------------------------
Allowed == answer # Nil /\ answer.tool = "check_cart" /\ answer.allow = TRUE

\* "Proceed to payment" is said only of a cart a recorded intent bounds: no more than
\* its spending limit, and every product in it answers one stated item, the one in its
\* place, in exactly its quantity, so that nothing is added and nothing bought for an
\* item twice, however the lines of a product are split ("the cart is checked against
\* it afterwards", mcp_server.py _INTENTS).
AllowedStaysWithinRequest ==
  Allowed =>
    LET lines == Bought(answer.cart)
    IN  /\ answer.intent # Nil
        /\ answer.cart.total <= answer.intent.cap
        /\ answer.cart.available
        /\ Variants(lines) # {}
        /\ \A v \in Variants(lines) :
             \E i \in DOMAIN lines \cap DOMAIN answer.intent.items :
               /\ lines[i].variant = v
               /\ Quantities(lines)[v] = answer.intent.items[i]

\* The answer an assistant acts on has its event in the trail, and what is said to
\* have "worked last time" is a connector of that category for which the connector log
\* holds an allowed cart, across restarts.
RecommendationIsEarned ==
  /\ Allowed => Last(audit) = Event("cart_checked", answer.id, TRUE)
  /\ answer # Nil /\ answer.tool = "recommend_connector" /\ answer.remembered =>
       /\ KindOf[answer.recommended] = answer.kind
       /\ \E i \in DOMAIN log : log[i] = [merchant |-> answer.recommended, allow |-> TRUE]
=============================================================================
