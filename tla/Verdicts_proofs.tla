-------------------------- MODULE Verdicts_proofs --------------------------
(***************************************************************************)
(* What is told an assistant about a cart (McpServer), and a buyer about   *)
(* the offers of a search (Search): two modules that share no state.       *)
(***************************************************************************)
EXTENDS McpServer, Search, FiniteSetTheorems, TLAPS

\* A set of numbers has a least one: otherwise the numbers below all of them would be
\* finitely many and hold the successor of each.
LEMMA Least ==
  ASSUME NEW T, T \subseteq Nat, T # {}
  PROVE  \E x \in T : \A y \in T : x <= y
<1> SUFFICES ASSUME \A x \in T : \E y \in T : ~(x <= y) PROVE FALSE
  OBVIOUS
<1> DEFINE D == {d \in Nat : \A y \in T : d <= y}
           succ == [d \in D |-> d + 1]
<1>1. PICK t \in T : TRUE
  OBVIOUS
<1>2. D \subseteq 0 .. t /\ t \in Nat
  OBVIOUS
<1>3. IsFiniteSet(D)
  <2>1. IsFiniteSet(0 .. t)
    BY <1>2, FS_Interval
  <2> HIDE DEF D
  <2> QED BY <1>2, <2>1, FS_Subset
<1>4. \A d \in D : d \notin T
  OBVIOUS
<1>5. \A d \in D : d + 1 \in D
  BY <1>4
<1>6. 0 \in D
  OBVIOUS
<1> HIDE DEF D
<1>7. succ \in Injection(D, D)
  BY <1>2, <1>5 DEF Injection, IsInjective
<1>8. succ \in Surjection(D, D)
  <2> HIDE DEF succ
  <2> QED BY <1>3, <1>7, FS_Injection
<1>9. PICK d \in D : succ[d] = 0
  BY <1>6, <1>8 DEF Surjection
<1> QED BY <1>2, <1>9

-----------------------------------------------------------------------------
(* A cart that lists no variant twice.                                       *)

Distinct(lines) ==
  /\ DOMAIN lines = 1 .. Len(lines) /\ Len(lines) \in Nat
  /\ \A i \in DOMAIN lines, j \in DOMAIN lines :
       lines[i].variant = lines[j].variant => i = j

LEMMA OneOf ==
  ASSUME NEW lines, Distinct(lines), NEW i \in DOMAIN lines
  PROVE  Of(lines, lines[i].variant) = [n \in {1} |-> lines[i]]
<1> DEFINE v == lines[i].variant
           places == {j \in DOMAIN lines : lines[j].variant = v}
           at(n) == CHOOSE k \in places : Cardinality({j \in places : j < k}) = n - 1
<1>1. places = {i} /\ i \in Nat
  BY DEF Distinct
<1>2. Cardinality(places) = 1
  BY <1>1, FS_Singleton
<1>3. {j \in places : j < i} = {}
  BY <1>1
<1> HIDE DEF places
<1>4. at(1) = i
  BY <1>1, <1>3, FS_EmptySet
<1>5. Of(lines, v) = [n \in 1 .. Cardinality(places) |-> lines[at(n)]]
  BY DEF Of, At, places
<1>6. 1 .. 1 = {1}
  OBVIOUS
<1> HIDE DEF at
<1> QED BY <1>2, <1>4, <1>5, <1>6

\* A sum over D, as the folds of the community modules define it.
Summing(f, D, iter) ==
  iter = [s \in SUBSET D |->
            IF s = {} THEN 0
            ELSE LET x == CHOOSE x \in s : TRUE IN iter[s \ {x}] + f[x]]

SumOver(f, D) == (CHOOSE iter : Summing(f, D, iter))[D]

LEMMA SumOfOne ==
  ASSUME NEW f, NEW n \in Nat, f[1] = n
  PROVE  SumOver(f, {1}) = n
<1> DEFINE one == [s \in SUBSET {1} |-> IF s = {} THEN 0 ELSE n]
<1>1. \A s \in SUBSET {1} : s = {} \/ s = {1}
  OBVIOUS
<1>2. (CHOOSE x \in {1} : TRUE) = 1 /\ {1} \ {1} = {}
  OBVIOUS
<1>3. Summing(f, {1}, one)
  <2>1. \A s \in SUBSET {1} :
          one[s] = IF s = {} THEN 0 ELSE LET x == CHOOSE x \in s : TRUE IN one[s \ {x}] + f[x]
    BY <1>1, <1>2
  <2> HIDE DEF one
  <2>2. one = [s \in SUBSET {1} |-> one[s]]
    BY DEF one
  <2> QED BY <2>1, <2>2 DEF Summing
<1> DEFINE sums == CHOOSE iter : Summing(f, {1}, iter)
<1> HIDE DEF one
<1>4. Summing(f, {1}, sums)
  BY <1>3
<1> HIDE DEF sums
<1>5. sums[{}] = 0
  BY <1>4 DEF Summing
<1>6. sums[{1}] = sums[{1} \ {1}] + f[1]
  BY <1>2, <1>4 DEF Summing
<1> QED BY <1>2, <1>5, <1>6 DEF SumOver, sums

\* The quantity of a variant is that of its one line.
LEMMA OneQuantity ==
  ASSUME NEW lines, Distinct(lines), NEW i \in DOMAIN lines, lines[i].quantity \in Nat
  PROVE  Quantities(lines)[lines[i].variant] = lines[i].quantity
<1> DEFINE only == Of(lines, lines[i].variant)
           f == [n \in DOMAIN only |-> only[n].quantity]
<1>1. Quantities(lines)[lines[i].variant] =
        FoldSeq(LAMBDA line, sum : sum + line.quantity, 0, only)
  BY DEF Quantities, Variants
<1>2. only = [n \in {1} |-> lines[i]]
  BY OneOf
<1>3. DOMAIN only = {1} /\ f[1] = lines[i].quantity
  <2> HIDE DEF only
  <2> QED BY <1>2
<1>4. FoldSeq(LAMBDA line, sum : sum + line.quantity, 0, only)
        = SumOver(f, DOMAIN only)
  <2> HIDE DEF only
  <2> QED BY DEF FoldSeq, FoldFunction, FoldFunctionOnSet, MapThenFoldSet, SumOver, Summing
<1> HIDE DEF only, f
<1> QED BY <1>1, <1>3, <1>4, SumOfOne

LEMMA BoughtIsList ==
  ASSUME NEW cart \in Carts
  PROVE  /\ Len(Bought(cart)) \in Nat
         /\ DOMAIN Bought(cart) = 1 .. Len(Bought(cart))
<1> DEFINE places == {i \in DOMAIN cart.lines : cart.lines[i].quantity > 0}
<1>1. DOMAIN cart.lines = 1 .. Len(cart.lines) /\ Len(cart.lines) \in Nat
  BY McpAssumption
<1>2. IsFiniteSet(1 .. Len(cart.lines))
  BY <1>1, FS_Interval
<1>3. IsFiniteSet(places)
  BY <1>1, <1>2, FS_Subset
<1>4. Cardinality(places) \in Nat
  <2> HIDE DEF places
  <2> QED BY <1>3, FS_CardinalityType
<1>5. DOMAIN Bought(cart) = 1 .. Cardinality(places)
  <2> DEFINE at(n) == cart.lines[CHOOSE i \in places : Cardinality({j \in places : j < i}) = n - 1]
  <2>1. Bought(cart) = [n \in 1 .. Cardinality(places) |-> at(n)]
    BY DEF Bought, At
  <2> HIDE DEF at, places
  <2> QED BY <2>1
<1> HIDE DEF places
<1>6. Len(Bought(cart)) = Cardinality(places)
  BY <1>4, <1>5
<1> QED BY <1>4, <1>5, <1>6

-----------------------------------------------------------------------------
(* What an assistant is told.                                                *)

\* What an allowed cart is, whoever asked: the second half of AllowedStaysWithinRequest.
WithinRequest(intent, cart) ==
  LET lines == Bought(cart)
  IN  /\ cart.total <= intent.cap
      /\ cart.available
      /\ Variants(lines) # {}
      /\ \A v \in Variants(lines) :
           \E i \in DOMAIN lines \cap DOMAIN intent.items :
             /\ lines[i].variant = v
             /\ Quantities(lines)[v] = intent.items[i]

\* The gates that matter are among those that passed.
LEMMA GatesPassed ==
  ASSUME NEW id, NEW intent, NEW cart \in Carts, Allow(Gates(id, intent, cart))
  PROVE  /\ cart.total <= intent.cap /\ cart.available
         /\ Quantities(Bought(cart)) = Quantities(Expectation(intent, cart).lines)
<1> DEFINE observed == Observed(id, intent, cart)
           expected == Expectation(intent, cart)
           checks == Gates(id, intent, cart)
<1>1. /\ checks.itemsAvailable = cart.available
      /\ checks.quantitiesMatch = CompareCart(expected, observed).quantities
      /\ checks.withinCap = CompareCart(expected, observed).cap
      /\ {"itemsAvailable", "quantitiesMatch", "withinCap"} \subseteq DOMAIN checks
  BY DEF Gates, PrePaymentGates
<1>2. /\ observed.total = cart.total /\ observed.lines = Bought(cart)
      /\ expected.cap = intent.cap
  BY McpAssumption DEF Observed, ObservedCart, Expectation
<1> HIDE DEF checks, observed, expected
<1>3. \A gate \in DOMAIN checks : checks[gate]
  BY DEF Allow, Failed, checks
<1>4. checks.itemsAvailable /\ checks.quantitiesMatch /\ checks.withinCap
  BY <1>1, <1>3
<1>5. CompareCart(expected, observed).quantities /\ CompareCart(expected, observed).cap
  BY <1>1, <1>4
<1>6. MatchesQuantities(expected, observed) /\ observed.total <= expected.cap
  BY <1>5 DEF CompareCart
<1> QED BY <1>1, <1>2, <1>4, <1>6 DEF MatchesQuantities, Approved, expected

LEMMA AllowedCart ==
  ASSUME NEW id, NEW intent \in Requests, intent.items # << >>, NEW cart \in Carts,
         ValidExpectation(Expectation(intent, cart)), Allow(Gates(id, intent, cart))
  PROVE  WithinRequest(intent, cart)
<1> DEFINE lines == Bought(cart)
           pairs == Pairs(intent, cart)
           last == Shorter(Len(intent.items), Len(lines))
           approved == Expectation(intent, cart).lines
<1>1. /\ Len(lines) \in Nat /\ DOMAIN lines = 1 .. Len(lines)
      /\ Len(intent.items) \in Nat /\ DOMAIN intent.items = 1 .. Len(intent.items)
      /\ Len(intent.items) # 0
      /\ \A i \in DOMAIN intent.items : intent.items[i] \in Nat
  BY McpAssumption, BoughtIsList
<1>2. /\ last \in Nat /\ last <= Len(intent.items) /\ last <= Len(lines)
      /\ last = 0 => Len(lines) = 0
  BY <1>1 DEF Shorter
<1>3. /\ DOMAIN pairs = 1 .. last
      /\ \A i \in 1 .. last :
           pairs[i].variant = lines[i].variant /\ pairs[i].quantity = intent.items[i]
  BY DEF Pairs
<1>4. Quantities(lines) = Quantities(approved)
  BY GatesPassed
<1>5. Variants(lines) = Variants(approved)
  BY <1>4 DEF Quantities
<1>6. approved = IF pairs = << >> THEN <<[variant |-> Nil, quantity |-> 1, price |-> 0]>> ELSE pairs
  BY DEF Expectation
<1>7. approved # << >>
  BY DEF ValidExpectation
<1> HIDE DEF lines, pairs, last, approved
<1>8. last # 0
  <2> SUFFICES ASSUME last = 0 PROVE FALSE
    OBVIOUS
  <2>1. Variants(lines) = {}
    BY <1>1, <1>2 DEF Variants
  <2>2. pairs = << >> => Variants(approved) # {}
    <3> SUFFICES ASSUME approved = <<[variant |-> Nil, quantity |-> 1, price |-> 0]>>
                 PROVE  Variants(approved) # {}
      BY <1>6
    <3>1. 1 \in DOMAIN approved
      OBVIOUS
    <3> QED BY <3>1 DEF Variants
  <2>3. pairs = << >>
    BY <1>3
  <2> QED BY <1>5, <2>1, <2>2, <2>3
<1>9. pairs # << >> /\ approved = pairs
  BY <1>2, <1>3, <1>6, <1>8
<1>10. Distinct(pairs)
  <2>1. Len(pairs) = last
    BY <1>2, <1>3
  <2> QED BY <1>2, <1>3, <1>9, <2>1 DEF ValidExpectation, Distinct, approved
<1>11. Variants(lines) # {}
  <2>1. 1 \in DOMAIN pairs
    BY <1>2, <1>3, <1>8
  <2> QED BY <1>5, <1>9, <2>1 DEF Variants
<1>12. ASSUME NEW v \in Variants(lines)
       PROVE  \E i \in DOMAIN lines \cap DOMAIN intent.items :
                lines[i].variant = v /\ Quantities(lines)[v] = intent.items[i]
  <2>1. PICK i \in DOMAIN pairs : pairs[i].variant = v
    BY <1>5, <1>9 DEF Variants
  <2>2. i \in DOMAIN lines /\ i \in DOMAIN intent.items
    BY <1>1, <1>2, <1>3
  <2>3. Quantities(pairs)[v] = pairs[i].quantity
    BY <1>1, <1>3, <1>10, <2>1, <2>2, OneQuantity
  <2> QED BY <1>3, <1>4, <1>9, <2>1, <2>2, <2>3
<1> QED BY <1>11, <1>12, GatesPassed DEF WithinRequest, lines

Logged == [merchant : {cart.merchant : cart \in Carts}, allow : BOOLEAN]

Events ==
  [type : {"intent_recorded", "intent_refused", "cart_check_refused", "cart_checked"},
   id : IntentIds \cup {Nil}, allow : BOOLEAN]

\* An intent is recorded with what it asks for; a remembered connector was vouched for.
McpInv ==
  /\ DOMAIN intents = IntentIds
  /\ \A id \in IntentIds :
       intents[id] # Nil => intents[id] \in Requests /\ intents[id].items # << >>
  /\ audit \in Seq(Events) /\ log \in Seq(Logged) /\ stores \in Seq(Connectors)
  /\ \A i \in DOMAIN stores :
       \E k \in DOMAIN log : log[k] = [merchant |-> stores[i], allow |-> TRUE]
  /\ AllowedStaysWithinRequest
  /\ RecommendationIsEarned

\* A step that says nothing of a cart or a connector, and remembers no other ones.
LEMMA SaysNothing ==
  ASSUME McpInv, UNCHANGED <<stores, log>>, audit' \in Seq(Events), DOMAIN intents' = IntentIds,
         \A id \in IntentIds : intents'[id] # Nil =>
           intents'[id] \in Requests /\ intents'[id].items # << >>,
         ~Allowed', ~(answer' # Nil /\ answer'.tool = "recommend_connector")
  PROVE  McpInv'
BY DEF McpInv, AllowedStaysWithinRequest, RecommendationIsEarned

LEMMA RecordKeeps ==
  ASSUME McpInv, NEW id \in IntentIds, NEW request \in Requests, RecordIntent(id, request)
  PROVE  McpInv'
<1>0. /\ Event("intent_recorded", id, TRUE) \in Events
      /\ Event("intent_refused", Nil, FALSE) \in Events
  BY DEF Event, Events
<1>1. /\ UNCHANGED <<stores, log>>
      /\ answer' \in {[tool |-> "record_intent", recorded |-> TRUE],
                     [tool |-> "record_intent", recorded |-> FALSE]}
      /\ audit' \in {Append(audit, Event("intent_recorded", id, TRUE)),
                    Append(audit, Event("intent_refused", Nil, FALSE))}
  BY DEF RecordIntent
<1>2. answer'.tool = "record_intent"
  BY <1>1
<1>3. audit' \in Seq(Events)
  <2>1. PICK event \in Events : audit' = Append(audit, event)
    BY <1>0, <1>1
  <2> QED BY <2>1 DEF McpInv
<1>4. /\ DOMAIN intents' = IntentIds
      /\ \A k \in IntentIds : intents'[k] # Nil =>
           intents'[k] \in Requests /\ intents'[k].items # << >>
  BY DEF McpInv, RecordIntent
<1> QED BY <1>1, <1>2, <1>3, <1>4, SaysNothing DEF Allowed

LEMMA RefuseKeeps ==
  ASSUME McpInv, NEW id \in IntentIds, NEW cart \in Carts,
         RefuseCheck(id, cart) \/ CheckRaises(id, cart)
  PROVE  McpInv'
<1>1. answer'.tool = "check_cart" /\ answer'.allow # TRUE /\ UNCHANGED <<intents, stores, log>>
  <2>1. CASE RefuseCheck(id, cart)
    BY <2>1 DEF RefuseCheck
  <2>2. CASE CheckRaises(id, cart)
    BY <2>2, McpAssumption DEF CheckRaises
  <2> QED BY <2>1, <2>2
<1>2. audit' \in Seq(Events)
  <2>1. Event("cart_check_refused", id, FALSE) \in Events
    BY DEF Event, Events
  <2>2. audit' # audit =>
          \E event \in {Event("cart_check_refused", id, FALSE)} : audit' = Append(audit, event)
    BY DEF RefuseCheck, CheckRaises
  <2>3. audit \in Seq(Events)
    BY DEF McpInv
  <2>4. audit' # audit => \E event \in Events : audit' = Append(audit, event)
    BY <2>1, <2>2
  <2> QED BY <2>3, <2>4
<1> QED BY <1>1, <1>2, SaysNothing DEF Allowed, McpInv

LEMMA CheckKeeps ==
  ASSUME McpInv, NEW id \in IntentIds, NEW cart \in Carts, CheckCart(id, cart)
  PROVE  McpInv'
<1> DEFINE intent == intents[id]
           allow == Allow(Gates(id, intent, cart))
           checked == Event("cart_checked", id, allow)
           record == [merchant |-> cart.merchant, allow |-> allow]
<1>1. /\ intent \in Requests /\ intent.items # << >> /\ intent # Nil
      /\ ValidExpectation(Expectation(intent, cart))
  BY DEF McpInv, CheckCart
<1>2. allow \in BOOLEAN
  BY DEF Allow
<1>3. /\ audit' = Append(audit, checked) /\ log' = Append(log, record)
      /\ stores' = RememberConnectorOnSuccess(cart.merchant, allow)
      /\ answer' = [tool |-> "check_cart", allow |-> allow, id |-> id, cart |-> cart,
                    intent |-> intent]
      /\ UNCHANGED intents
  BY DEF CheckCart
<1>4. allow => WithinRequest(intent, cart)
  BY <1>1, AllowedCart
<1> HIDE DEF allow
<1>5. checked \in Events /\ record \in Logged
  BY <1>2 DEF Event, Events, Logged
<1>6. audit' \in Seq(Events) /\ Last(audit') = checked
  <2>1. audit \in Seq(Events)
    BY DEF McpInv
  <2> HIDE DEF checked
  <2> QED BY <1>3, <1>5, <2>1 DEF Last
<1>7. /\ log' \in Seq(Logged)
      /\ \A k \in DOMAIN log : k \in DOMAIN log' /\ log'[k] = log[k]
      /\ \E k \in DOMAIN log' : log'[k] = record
  <2>1. log \in Seq(Logged)
    BY DEF McpInv
  <2> HIDE DEF record
  <2>2. Len(log) + 1 \in DOMAIN log' /\ log'[Len(log) + 1] = record
    BY <1>3, <1>5, <2>1
  <2> QED BY <1>3, <1>5, <2>1, <2>2
<1>8. \/ stores' = stores
      \/ /\ stores' = Append(stores, cart.merchant)
         /\ allow = TRUE /\ cart.merchant \in Connectors
  BY <1>2, <1>3 DEF RememberConnectorOnSuccess, M!RememberStore
<1>9. /\ stores' \in Seq(Connectors)
      /\ \A i \in DOMAIN stores' :
           \E k \in DOMAIN log' : log'[k] = [merchant |-> stores'[i], allow |-> TRUE]
  <2>1. /\ stores \in Seq(Connectors)
        /\ \A i \in DOMAIN stores :
             \E k \in DOMAIN log : log[k] = [merchant |-> stores[i], allow |-> TRUE]
    BY DEF McpInv
  <2>2. CASE stores' = stores
    BY <1>7, <2>1, <2>2
  <2>3. CASE stores' = Append(stores, cart.merchant) /\ allow = TRUE /\ cart.merchant \in Connectors
    <3>1. stores' \in Seq(Connectors)
      BY <2>1, <2>3
    <3>2. ASSUME NEW i \in DOMAIN stores'
          PROVE  \/ i \in DOMAIN stores /\ stores'[i] = stores[i]
                 \/ stores'[i] = cart.merchant
      BY <2>1, <2>3
    <3>3. \E k \in DOMAIN log' : log'[k] = [merchant |-> cart.merchant, allow |-> TRUE]
      BY <1>7, <2>3
    <3> QED BY <1>7, <2>1, <3>1, <3>2, <3>3
  <2> QED BY <1>8, <2>2, <2>3
<1>10. Allowed' => allow = TRUE
  BY <1>3 DEF Allowed
<1>11. AllowedStaysWithinRequest'
  <2> SUFFICES ASSUME allow = TRUE PROVE AllowedStaysWithinRequest'
    BY <1>10 DEF AllowedStaysWithinRequest
  <2>1. answer'.intent = intent /\ answer'.cart = cart
    BY <1>3
  <2> HIDE DEF intent
  <2> QED BY <1>1, <1>4, <2>1 DEF AllowedStaysWithinRequest, WithinRequest
<1>12. RecommendationIsEarned'
  BY <1>3, <1>6, <1>10 DEF RecommendationIsEarned
<1> QED BY <1>1, <1>3, <1>6, <1>7, <1>9, <1>11, <1>12 DEF McpInv

\* Among the connectors to choose from there is a best one.
LEMMA BestIsOne ==
  ASSUME NEW those, those \subseteq Connectors, those # {}
  PROVE  BestOf(those) \in those
<1>1. {EvidenceRank[c] : c \in those} \subseteq Nat /\ {EvidenceRank[c] : c \in those} # {}
  BY McpAssumption
<1>2. PICK rank \in {EvidenceRank[c] : c \in those} :
        \A other \in {EvidenceRank[c] : c \in those} : rank <= other
  BY <1>1, Least
<1>3. \E c \in those : \A d \in those : EvidenceRank[c] <= EvidenceRank[d]
  BY <1>2
<1> QED BY <1>3 DEF BestOf

LEMMA RecommendKeeps ==
  ASSUME McpInv, NEW kind \in Kinds, RecommendConnector(kind)
  PROVE  McpInv'
<1> DEFINE remembered == Candidates(kind) \cap Range(stores)
<1>1. /\ answer'.tool = "recommend_connector" /\ answer'.kind = kind
      /\ answer'.remembered = (remembered # {})
      /\ remembered # {} => answer'.recommended = BestOf(remembered)
      /\ UNCHANGED <<intents, stores, audit, log>>
  BY DEF RecommendConnector
<1>2. ~Allowed'
  BY <1>1 DEF Allowed
<1>3. ASSUME answer'.remembered
      PROVE  /\ KindOf[answer'.recommended] = answer'.kind
             /\ \E k \in DOMAIN log :
                  log[k] = [merchant |-> answer'.recommended, allow |-> TRUE]
  <2>1. remembered # {}
    BY <1>1, <1>3
  <2>2. remembered \subseteq Connectors
    BY McpAssumption DEF Candidates
  <2> HIDE DEF remembered
  <2>3. answer'.recommended \in remembered
    BY <1>1, <2>1, <2>2, BestIsOne
  <2>4. answer'.recommended \in Candidates(kind) /\ answer'.recommended \in Range(stores)
    BY <2>3 DEF remembered
  <2> QED BY <1>1, <2>4 DEF Candidates, Range, McpInv
<1> QED BY <1>1, <1>2, <1>3 DEF McpInv, AllowedStaysWithinRequest, RecommendationIsEarned

\* What the server told an assistant is accounted for by what it recorded, over any
\* sequence of calls and restarts (mcp_server.py handle_rpc).
THEOREM McpAnswers == Spec => []McpInv
<1>1. Init => McpInv
  BY DEF Init, McpInv, AllowedStaysWithinRequest, RecommendationIsEarned, Allowed
<1>2. McpInv /\ [Next]_vars => McpInv'
  <2> SUFFICES ASSUME McpInv, [Next]_vars PROVE McpInv'
    OBVIOUS
  <2>1. ASSUME NEW id \in IntentIds, NEW request \in Requests, RecordIntent(id, request)
        PROVE  McpInv'
    BY <2>1, RecordKeeps
  <2>2. ASSUME NEW id \in IntentIds, NEW cart \in Carts,
               RefuseCheck(id, cart) \/ CheckRaises(id, cart)
        PROVE  McpInv'
    BY <2>2, RefuseKeeps
  <2>3. ASSUME NEW id \in IntentIds, NEW cart \in Carts, CheckCart(id, cart)
        PROVE  McpInv'
    BY <2>3, CheckKeeps
  <2>4. ASSUME NEW kind \in Kinds, RecommendConnector(kind) PROVE McpInv'
    BY <2>4, RecommendKeeps
  <2>5. CASE Restart
    BY <2>5, SaysNothing DEF Restart, McpInv, Allowed
  <2>6. CASE UNCHANGED vars
    BY <2>6 DEF vars, McpInv, AllowedStaysWithinRequest, RecommendationIsEarned, Allowed
  <2> QED BY <2>1, <2>2, <2>3, <2>4, <2>5, <2>6 DEF Next
<1> QED BY <1>1, <1>2, PTL DEF Spec

\* "Proceed to payment" is said only of a cart that the recorded intent bounds, in its
\* total and line by line (mcp_server.py check_cart).
THEOREM McpAllowedStaysWithinRequest == Spec => []AllowedStaysWithinRequest
<1>1. McpInv => AllowedStaysWithinRequest
  BY DEF McpInv
<1> QED BY <1>1, McpAnswers, PTL

\* An allowed answer has its event last in the trail, and a connector said to have worked
\* is one of the category that the log holds an allowed cart of (recommend_connector).
THEOREM McpRecommendationIsEarned == Spec => []RecommendationIsEarned
<1>1. McpInv => RecommendationIsEarned
  BY DEF McpInv
<1> QED BY <1>1, McpAnswers, PTL

-----------------------------------------------------------------------------
(* What a buyer is told: one search (Search).                                *)

\* In a finite set with a strict order, where before[x] are those before x, as many
\* members as a place has others before it are before exactly one of them.
Ordered(T, before) ==
  /\ IsFiniteSet(T) /\ before \in [T -> SUBSET T]
  /\ \A x \in T : x \notin before[x]
  /\ \A x, y \in T : x \in before[y] => before[x] \subseteq before[y]
  /\ \A x, y \in T : x = y \/ x \in before[y] \/ y \in before[x]

LEMMA BeforeIsLess ==
  ASSUME NEW T, NEW before, Ordered(T, before), NEW x \in T, NEW y \in T, x \in before[y]
  PROVE  /\ Cardinality(before[x]) \in Nat /\ Cardinality(before[y]) \in Nat
         /\ Cardinality(before[x]) < Cardinality(before[y])
<1>1. IsFiniteSet(before[x]) /\ IsFiniteSet(before[y])
  BY FS_Subset DEF Ordered
<1>2. Cardinality(before[x]) \in Nat /\ Cardinality(before[y]) \in Nat
  BY <1>1, FS_CardinalityType
<1>3. before[x] \cup {x} \in SUBSET before[y] /\ x \notin before[x]
  BY DEF Ordered
<1>4. Cardinality(before[x] \cup {x}) = Cardinality(before[x]) + 1
  BY <1>1, <1>3, FS_AddElement
<1>5. Cardinality(before[x] \cup {x}) <= Cardinality(before[y])
  BY <1>1, <1>3, FS_Subset
<1> QED BY <1>2, <1>4, <1>5

LEMMA PlacesTaken ==
  ASSUME NEW T, NEW before, Ordered(T, before)
  PROVE  /\ Cardinality(T) \in Nat
         /\ \A x \in T : Cardinality(before[x]) + 1 \in 1 .. Cardinality(T)
         /\ \A n \in 1 .. Cardinality(T) : \E x \in T : Cardinality(before[x]) = n - 1
<1> DEFINE size == Cardinality(T)
           place == [x \in T |-> Cardinality(before[x]) + 1]
<1>1. IsFiniteSet(T) /\ size \in Nat
  BY FS_CardinalityType DEF Ordered
<1>2. \A x \in T : Cardinality(before[x]) \in Nat /\ Cardinality(before[x]) < size
  <2> TAKE x \in T
  <2>1. before[x] \in SUBSET (T \ {x}) /\ before[x] \in SUBSET T
    BY DEF Ordered
  <2>2. IsFiniteSet(T \ {x}) /\ Cardinality(T \ {x}) = size - 1
    BY <1>1, FS_RemoveElement
  <2>3. IsFiniteSet(before[x]) /\ Cardinality(before[x]) <= size - 1
    BY <2>1, <2>2, FS_Subset
  <2>4. Cardinality(before[x]) \in Nat
    BY <2>3, FS_CardinalityType
  <2> QED BY <1>1, <2>3, <2>4
<1>3. place \in [T -> 1 .. size]
  BY <1>1, <1>2
<1>4. \A x, y \in T : place[x] = place[y] => x = y
  <2> TAKE x, y \in T
  <2>1. x = y \/ x \in before[y] \/ y \in before[x]
    BY DEF Ordered
  <2>2. x \in before[y] => Cardinality(before[x]) < Cardinality(before[y])
    BY BeforeIsLess
  <2>3. y \in before[x] => Cardinality(before[y]) < Cardinality(before[x])
    BY BeforeIsLess
  <2> QED BY <1>2, <2>1, <2>2, <2>3
<1>5. IsFiniteSet(1 .. size) /\ Cardinality(1 .. size) = size
  BY <1>1, FS_Interval
<1> HIDE DEF place, size
<1>6. place \in Injection(T, 1 .. size)
  BY <1>3, <1>4 DEF Injection, IsInjective
<1>7. place \in Surjection(T, 1 .. size)
  BY <1>5, <1>6, FS_Injection DEF size
<1>8. \A n \in 1 .. size : \E x \in T : place[x] = n
  BY <1>7 DEF Surjection
<1>9. ASSUME NEW n \in 1 .. size PROVE \E x \in T : Cardinality(before[x]) = n - 1
  <2>1. PICK x \in T : place[x] = n
    BY <1>8
  <2> QED BY <1>1, <1>2, <2>1 DEF place
<1> QED BY <1>1, <1>2, <1>9 DEF size

\* Keys compare like words in a dictionary.
LEMMA LessIsOrder ==
  ASSUME NEW n \in Nat, NEW a \in [1 .. n -> Int], NEW b \in [1 .. n -> Int]
  PROVE  /\ ~Less(a, a)
         /\ a = b \/ Less(a, b) \/ Less(b, a)
         /\ \A c \in [1 .. n -> Int] : Less(a, b) /\ Less(b, c) => Less(a, c)
<1>1. ~Less(a, a)
  BY DEF Less
<1>2. ASSUME a # b PROVE Less(a, b) \/ Less(b, a)
  <2> DEFINE differ == {i \in 1 .. n : a[i] # b[i]}
  <2>1. differ # {} /\ differ \subseteq Nat
    BY <1>2
  <2>2. PICK i \in differ : \A j \in differ : i <= j
    BY <2>1, Least
  <2>3. \A j \in 1 .. (i - 1) : a[j] = b[j]
    BY <2>2
  <2>4. a[i] < b[i] \/ b[i] < a[i]
    BY <2>2
  <2> QED BY <2>2, <2>3, <2>4 DEF Less
<1>3. ASSUME NEW c \in [1 .. n -> Int], Less(a, b), Less(b, c) PROVE Less(a, c)
  <2>1. PICK i \in 1 .. n : a[i] < b[i] /\ \A k \in 1 .. (i - 1) : a[k] = b[k]
    BY <1>3 DEF Less
  <2>2. PICK j \in 1 .. n : b[j] < c[j] /\ \A k \in 1 .. (j - 1) : b[k] = c[k]
    BY <1>3 DEF Less
  <2>3. CASE i <= j
    <3>1. \A k \in 1 .. (i - 1) : a[k] = c[k]
      <4> TAKE k \in 1 .. (i - 1)
      <4>1. k \in 1 .. (j - 1)
        BY <2>1, <2>2, <2>3
      <4> QED BY <2>1, <2>2, <4>1
    <3>2. CASE i = j
      <4>1. a[i] < c[i]
        BY <2>1, <2>2, <3>2
      <4> QED BY <2>1, <3>1, <4>1 DEF Less
    <3>3. CASE i < j
      <4>1. i \in 1 .. (j - 1)
        BY <2>1, <2>2, <3>3
      <4>2. a[i] < c[i]
        BY <2>1, <2>2, <4>1
      <4> QED BY <2>1, <3>1, <4>2 DEF Less
    <3> QED BY <2>1, <2>2, <2>3, <3>2, <3>3
  <2>4. CASE j < i
    <3>1. a[j] < c[j] /\ \A k \in 1 .. (j - 1) : a[k] = c[k]
      BY <2>1, <2>2, <2>4
    <3> QED BY <3>1 DEF Less
  <2> QED BY <2>3, <2>4
<1> QED BY <1>1, <1>2, <1>3

\* Ordered by a key, and where it is the same by a second one that never is.
SortedBy(T, n, key, m, tie, before) ==
  /\ IsFiniteSet(T) /\ before \in [T -> SUBSET T]
  /\ key \in [T -> [1 .. n -> Int]] /\ tie \in [T -> [1 .. m -> Int]]
  /\ \A x, y \in T : tie[x] = tie[y] => x = y
  /\ \A x, y \in T : x \in before[y] <=>
       \/ Less(key[x], key[y])
       \/ key[x] = key[y] /\ Less(tie[x], tie[y])

LEMMA KeysOrder ==
  ASSUME NEW T, NEW n \in Nat, NEW m \in Nat, NEW key, NEW tie, NEW before,
         SortedBy(T, n, key, m, tie, before)
  PROVE  Ordered(T, before)
<1> USE DEF SortedBy
<1>0. \A k \in Nat : \A a, b \in [1 .. k -> Int] :
        ~Less(a, a) /\ (a = b \/ Less(a, b) \/ Less(b, a))
  BY LessIsOrder
<1>1. ASSUME NEW x \in T PROVE x \notin before[x]
  <2>1. key[x] \in [1 .. n -> Int] /\ tie[x] \in [1 .. m -> Int]
    OBVIOUS
  <2>2. ~Less(key[x], key[x]) /\ ~Less(tie[x], tie[x])
    BY <1>0, <2>1
  <2> QED BY <2>2
<1>2. ASSUME NEW x \in T, NEW y \in T, x \in before[y], NEW z \in before[x]
      PROVE  z \in before[y]
  <2>1. z \in T
    OBVIOUS
  <2>2. \A k \in Nat : \A a, b, c \in [1 .. k -> Int] :
          Less(a, b) /\ Less(b, c) => Less(a, c)
    BY LessIsOrder
  <2>3. Less(key[z], key[x]) /\ Less(key[x], key[y]) => Less(key[z], key[y])
    BY <2>1, <2>2
  <2>4. Less(tie[z], tie[x]) /\ Less(tie[x], tie[y]) => Less(tie[z], tie[y])
    BY <2>1, <2>2
  <2> QED BY <1>2, <2>1, <2>3, <2>4
<1>3. ASSUME NEW x \in T, NEW y \in T PROVE x = y \/ x \in before[y] \/ y \in before[x]
  <2>1. key[x] = key[y] \/ Less(key[x], key[y]) \/ Less(key[y], key[x])
    BY <1>0
  <2>2. tie[x] = tie[y] \/ Less(tie[x], tie[y]) \/ Less(tie[y], tie[x])
    BY <1>0
  <2> QED BY <2>1, <2>2
<1> QED BY <1>1, <1>2, <1>3 DEF Ordered

\* The list of a finite ordered set: each member at the place of as many as are before it.
ListOf(T, before) ==
  [n \in 1 .. Cardinality(T) |-> CHOOSE x \in T : Cardinality(before[x]) = n - 1]

LEMMA Listed ==
  ASSUME NEW T, NEW before, Ordered(T, before), NEW at, at = ListOf(T, before)
  PROVE  /\ Cardinality(T) \in Nat /\ at \in [1 .. Cardinality(T) -> T]
         /\ \A x \in T : \E n \in 1 .. Cardinality(T) : at[n] = x
         /\ \A i, j \in 1 .. Cardinality(T) : i < j => at[i] \in before[at[j]]
<1>1. \A n \in 1 .. Cardinality(T) : at[n] \in T /\ Cardinality(before[at[n]]) = n - 1
  BY PlacesTaken DEF ListOf
<1>2. ASSUME NEW x \in T, NEW y \in T, Cardinality(before[x]) = Cardinality(before[y])
      PROVE  x = y
  <2>1. x = y \/ x \in before[y] \/ y \in before[x]
    BY DEF Ordered
  <2>2. x \notin before[y] /\ y \notin before[x]
    BY <1>2, BeforeIsLess
  <2> QED BY <2>1, <2>2
<1>3. ASSUME NEW x \in T PROVE \E n \in 1 .. Cardinality(T) : at[n] = x
  <2>1. Cardinality(before[x]) + 1 \in 1 .. Cardinality(T) /\ IsFiniteSet(before[x])
    BY PlacesTaken, FS_Subset DEF Ordered
  <2>2. Cardinality(before[x]) \in Nat
    BY <2>1, FS_CardinalityType
  <2>3. Cardinality(before[at[Cardinality(before[x]) + 1]]) = Cardinality(before[x])
    BY <1>1, <2>1, <2>2
  <2>4. at[Cardinality(before[x]) + 1] = x
    BY <1>1, <1>2, <2>1, <2>3
  <2> QED BY <2>1, <2>4
<1>4. ASSUME NEW i \in 1 .. Cardinality(T), NEW j \in 1 .. Cardinality(T), i < j
      PROVE  at[i] \in before[at[j]]
  <2>1. at[i] = at[j] \/ at[i] \in before[at[j]] \/ at[j] \in before[at[i]]
    BY <1>1 DEF Ordered
  <2>2. at[i] # at[j]
    BY <1>1, <1>4
  <2>3. at[j] \notin before[at[i]]
    BY <1>1, <1>4, BeforeIsLess
  <2> QED BY <2>1, <2>2, <2>3
<1>5. at \in [1 .. Cardinality(T) -> T]
  BY <1>1 DEF ListOf
<1> QED BY <1>3, <1>4, <1>5, PlacesTaken

-----------------------------------------------------------------------------
(* What a search keeps, and the order it is in.                              *)

\* What the shops may have answered with.
Answered(answers) ==
  /\ DOMAIN answers = Shops
  /\ \A s \in Shops : answers[s] \in Catalogue[s] \cup {None, Raised}

LEMMA AskedAreShops ==
  ASSUME NEW words
  PROVE  Asked(words) \subseteq Shops /\ IsFiniteSet(Asked(words))
<1>1. Asked(words) \subseteq Shops
  BY SearchAssumption DEF Asked, ForQuery
<1> QED BY <1>1, SearchAssumption, FS_Subset

LEMMA KeptPlaces ==
  ASSUME NEW words, NEW answers, Answered(answers), NEW s \in Shops
  PROVE  /\ IsFiniteSet(Kept(s, answers[s], words))
         /\ \A i \in Kept(s, answers[s], words) :
              /\ answers[s] \in Catalogue[s] /\ i \in DOMAIN answers[s] /\ i \in Nat
              /\ answers[s][i].price \in Nat
<1> DEFINE kept == Kept(s, answers[s], words)
<1>1. CASE answers[s] \in {None, Raised}
  <2>1. kept = {}
    BY <1>1 DEF Kept
  <2> QED BY <2>1, FS_EmptySet
<1>2. CASE answers[s] \notin {None, Raised}
  <2>1. answers[s] \in Catalogue[s]
    BY <1>2 DEF Answered
  <2>2. /\ DOMAIN answers[s] = 1 .. Len(answers[s]) /\ Len(answers[s]) \in Nat
        /\ \A i \in DOMAIN answers[s] : answers[s][i].price \in Nat
    BY <2>1, SearchAssumption
  <2>3. IsFiniteSet(1 .. Len(answers[s]))
    BY <2>2, FS_Interval
  <2>4. kept \subseteq DOMAIN answers[s]
    BY <1>2 DEF Kept
  <2> HIDE DEF kept
  <2>5. IsFiniteSet(kept)
    BY <2>2, <2>3, <2>4, FS_Subset
  <2> QED BY <2>1, <2>2, <2>4, <2>5 DEF kept
<1> QED BY <1>1, <1>2

LEMMA FoundPlaces ==
  ASSUME NEW words, NEW answers, Answered(answers),
         NEW place \in Found(answers, words)
  PROVE  /\ place = <<place[1], place[2]>>
         /\ place[1] \in Asked(words) /\ place[1] \in Shops
         /\ place[2] \in Kept(place[1], answers[place[1]], words)
         /\ answers[place[1]] \in Catalogue[place[1]]
         /\ place[2] \in DOMAIN answers[place[1]] /\ place[2] \in Nat
         /\ answers[place[1]][place[2]].price \in Nat
<1>1. PICK s \in Asked(words) : place \in {s} \X Kept(s, answers[s], words)
  BY DEF Found
<1>2. place = <<place[1], place[2]>> /\ place[1] = s /\ place[2] \in Kept(s, answers[s], words)
  BY <1>1
<1> QED BY <1>1, <1>2, AskedAreShops, KeptPlaces

LEMMA FoundIsFinite ==
  ASSUME NEW words, NEW answers, Answered(answers)
  PROVE  IsFiniteSet(Found(answers, words))
<1> DEFINE asked == Asked(words)
           part == [s \in asked |-> {s} \X Kept(s, answers[s], words)]
           parts == {part[s] : s \in asked}
<1>1. asked \subseteq Shops /\ IsFiniteSet(asked)
  BY AskedAreShops
<1>2. ASSUME NEW s \in asked PROVE IsFiniteSet(part[s])
  <2>1. IsFiniteSet({s}) /\ IsFiniteSet(Kept(s, answers[s], words))
    BY <1>1, KeptPlaces, FS_Singleton
  <2>2. IsFiniteSet({s} \X Kept(s, answers[s], words))
    BY <2>1, FS_Product
  <2> QED BY <2>2
<1>3. Found(answers, words) = UNION parts
  BY DEF Found
<1>4. part \in Surjection(asked, parts)
  <2> HIDE DEF asked
  <2> QED BY DEF Surjection
<1> HIDE DEF asked, part
<1>5. IsFiniteSet(parts)
  BY <1>1, <1>4, FS_Surjection
<1>6. \A set \in parts : IsFiniteSet(set)
  BY <1>2
<1> HIDE DEF parts
<1> QED BY <1>3, <1>5, <1>6, FS_UNION

\* How well an offer answers the words is a number.
LEMMA RelevanceIsNat ==
  ASSUME NEW words \in Queries, NEW s, NEW offer
  PROVE  Relevance(s, offer, words) \in Nat /\ Cardinality(words) \in Nat
<1>1. \A set : IsFiniteSet(words \cap set) /\ IsFiniteSet(words)
  BY SearchAssumption, FS_Subset
<1>2. \A set : Cardinality(words \cap set) \in Nat /\ Cardinality(words) \in Nat
  BY <1>1, FS_CardinalityType
<1>3. Overlap(s, words) \in Nat
  BY <1>2 DEF Overlap
<1>4. /\ 10 * Cardinality(words \cap offer.words) \in Nat
      /\ 6 * Overlap(s, words) \in Nat
  BY <1>2, <1>3
<1>5. Relevance(s, offer, words)
        \in {0, 10, 10 * Cardinality(words \cap offer.words), 6 * Overlap(s, words)}
  BY DEF Relevance, Larger
<1> QED BY <1>2, <1>4, <1>5

LEMMA KeyIsNumbers ==
  ASSUME NEW words \in Queries, NEW answers, Answered(answers),
         NEW place \in Found(answers, words)
  PROVE  Key(ScoredAt(answers, place, words), words) \in [1 .. 5 -> Int]
<1> DEFINE s == place[1]
           offer == answers[place[1]][place[2]]
           scored == ScoredAt(answers, place, words)
<1>1. s \in Shops /\ offer.price \in Nat
  BY FoundPlaces
<1>2. Relevance(s, offer, words) \in Nat /\ Cardinality(words) \in Nat
  BY RelevanceIsNat
<1>3. scored = Scored(s, offer, words)
  BY DEF ScoredAt
<1> HIDE DEF s, offer, scored
<1>4. /\ scored.id.store = s
      /\ scored.relevance = Relevance(s, offer, words)
      /\ scored.total = offer.price * Quantity
  BY <1>3 DEF Scored
<1>5. scored.total \in Nat /\ NameOrder[s] \in Nat
  BY <1>1, <1>4, SearchAssumption
<1>6. 10 * Cardinality(words) + 10 - scored.relevance \in Int
  BY <1>2, <1>4
<1> DEFINE stock == IF scored.inStock THEN 0 ELSE 1
           budget == IF scored.withinBudget THEN 0 ELSE 1
           distance == 10 * Cardinality(words) + 10 - scored.relevance
<1>7. Key(scored, words) = <<stock, budget, distance, scored.total, NameOrder[s]>>
  BY <1>4 DEF Key
<1>8. stock \in Int /\ budget \in Int /\ distance \in Int
  BY <1>6
<1> HIDE DEF stock, budget, distance
<1>9. <<stock, budget, distance, scored.total, NameOrder[s]>> \in [1 .. 5 -> Int]
  BY <1>5, <1>8
<1>10. Key(scored, words) \in [1 .. 5 -> Int]
  BY <1>7, <1>9
<1> QED BY <1>10 DEF scored

\* What comes before what among the offers that are kept.
FoundBefore(answers, words) ==
  [place \in Found(answers, words) |->
     {other \in Found(answers, words) : Precedes(answers, other, place, words)}]

LEMMA FoundIsOrdered ==
  ASSUME NEW words \in Queries, NEW answers, Answered(answers)
  PROVE  Ordered(Found(answers, words), FoundBefore(answers, words))
<1> DEFINE found == Found(answers, words)
           key == [place \in found |-> Key(ScoredAt(answers, place, words), words)]
           tie == [place \in found |-> <<ListOrder[place[1]], place[2]>>]
           before == FoundBefore(answers, words)
<1>1. IsFiniteSet(found)
  BY FoundIsFinite
<1>2. key \in [found -> [1 .. 5 -> Int]]
  BY KeyIsNumbers
<1>3. \A place \in found :
        /\ place = <<place[1], place[2]>> /\ place[1] \in Shops /\ place[2] \in Nat
        /\ ListOrder[place[1]] \in Nat
  BY FoundPlaces, SearchAssumption
<1>4. \A a, b \in Nat : <<a, b>> \in [1 .. 2 -> Int]
  OBVIOUS
<1>5. tie \in [found -> [1 .. 2 -> Int]]
  BY <1>3, <1>4
<1>6. ASSUME NEW x \in found, NEW y \in found, tie[x] = tie[y] PROVE x = y
  <2>1. ListOrder[x[1]] = ListOrder[y[1]] /\ x[2] = y[2]
    BY <1>6
  <2>2. x[1] = y[1]
    BY <1>3, <2>1, SearchAssumption
  <2> QED BY <1>3, <2>1, <2>2
<1>7. before \in [found -> SUBSET found]
  BY DEF FoundBefore
<1>8. ASSUME NEW x \in found, NEW y \in found
      PROVE  x \in before[y] <=> \/ Less(key[x], key[y])
                                 \/ key[x] = key[y] /\ Less(tie[x], tie[y])
  BY DEF FoundBefore, Precedes
<1> HIDE DEF found, key, tie, before
<1>9. \A x, y \in found : tie[x] = tie[y] => x = y
  BY <1>6
<1>10. \A x, y \in found : x \in before[y] <=>
         \/ Less(key[x], key[y])
         \/ key[x] = key[y] /\ Less(tie[x], tie[y])
  BY <1>8
<1>11. 5 \in Nat /\ 2 \in Nat
  OBVIOUS
<1>12. Ordered(found, before)
  <2>1. SortedBy(found, 5, key, 2, tie, before)
    BY <1>1, <1>2, <1>5, <1>7, <1>9, <1>10 DEF SortedBy
  <2> QED BY <1>11, <2>1, KeysOrder
<1> QED BY <1>12 DEF found, before

\* The list of offers names every offer that is kept, and none precedes an earlier one.
LEMMA RankLists ==
  ASSUME NEW words \in Queries, NEW answers, Answered(answers)
  PROVE  \E at :
           LET found == Found(answers, words)
               size == Cardinality(found)
               list == Rank(answers, words)
           IN  /\ size \in Nat /\ at \in [1 .. size -> found] /\ DOMAIN list = 1 .. size
               /\ \A n \in 1 .. size : list[n] = ScoredAt(answers, at[n], words)
               /\ \A place \in found : \E n \in 1 .. size : at[n] = place
               /\ \A i, j \in 1 .. size : i < j => Precedes(answers, at[i], at[j], words)
<1> DEFINE found == Found(answers, words)
           size == Cardinality(found)
           before == FoundBefore(answers, words)
           at == ListOf(found, before)
<1>1. Ordered(found, before)
  BY FoundIsOrdered
<1>2. Rank(answers, words) = [n \in 1 .. size |-> ScoredAt(answers, at[n], words)]
  <2> DEFINE chosen(n) == CHOOSE x \in found :
               Cardinality({other \in found : Precedes(answers, other, x, words)}) = n - 1
  <2>1. \A x \in found :
          Cardinality({other \in found : Precedes(answers, other, x, words)})
            = Cardinality(before[x])
    BY DEF FoundBefore
  <2>2. ASSUME NEW n \in 1 .. size PROVE chosen(n) = at[n]
    BY <2>1 DEF ListOf
  <2>3. Rank(answers, words) =
          [n \in 1 .. Cardinality(found) |-> ScoredAt(answers, chosen(n), words)]
    BY DEF Rank
  <2>4. Cardinality(found) = size
    OBVIOUS
  <2> HIDE DEF found, size, before, at, chosen
  <2> QED BY <2>2, <2>3, <2>4
<1>3. \A i, j \in 1 .. size : at[i] \in before[at[j]] /\ at[j] \in found
        => Precedes(answers, at[i], at[j], words)
  BY DEF FoundBefore
<1>4. size = Cardinality(found) /\ at = ListOf(found, before)
  OBVIOUS
<1> HIDE DEF found, size, before, at
<1>8. /\ size \in Nat /\ at \in [1 .. size -> found]
      /\ \A x \in found : \E n \in 1 .. size : at[n] = x
      /\ \A i, j \in 1 .. size : i < j => at[i] \in before[at[j]]
  BY <1>1, <1>4, Listed
<1>5. \A i, j \in 1 .. size : i < j => Precedes(answers, at[i], at[j], words)
  BY <1>3, <1>8
<1>6. DOMAIN Rank(answers, words) = 1 .. size
  BY <1>2
<1>7. \A n \in 1 .. size : Rank(answers, words)[n] = ScoredAt(answers, at[n], words)
  BY <1>2
<1> QED BY <1>8, <1>5, <1>6, <1>7 DEF found, size

-----------------------------------------------------------------------------
(* What a search recommends.                                                 *)

\* What was kept of the shops' answers is listed once they all answered, and what is
\* picked or recommended is an eligible offer of that list, the first on a fallback.
SearchInv ==
  /\ wanted \in Queries /\ Answered(results)
  /\ offers # None =>
       /\ \A s \in Asked(wanted) : results[s] # None
       /\ offers = Rank(results, wanted)
  /\ pick # None => offers # None /\ pick \in CandidateIds(offers)
  /\ council # None =>
       /\ offers # None
       /\ council.recommended = None \/ council.recommended \in CandidateIds(offers)
       /\ council.fallbackUsed =>
            Eligible(offers) # {} /\ council.recommended = First(offers)

\* The first of the eligible offers is one of them.
LEMMA FirstIsEligible ==
  ASSUME SearchInv, offers # None, Eligible(offers) # {}
  PROVE  /\ \E j \in Eligible(offers) :
              /\ First(offers) = offers[j].id
              /\ \A i \in Eligible(offers) : j <= i
         /\ First(offers) \in CandidateIds(offers)
<1> DEFINE eligible == Eligible(offers)
           first == CHOOSE i \in eligible : \A j \in eligible : i <= j
<1>1. \E size \in Nat : DOMAIN offers = 1 .. size
  BY RankLists DEF SearchInv
<1>2. eligible \subseteq Nat /\ eligible # {}
  BY <1>1 DEF Eligible
<1>3. First(offers) = offers[first].id
  BY DEF First
<1>4. CandidateIds(offers) = {offers[i].id : i \in eligible}
  BY DEF CandidateIds
<1> HIDE DEF eligible
<1>5. first \in eligible /\ \A j \in eligible : first <= j
  BY <1>2, Least
<1> HIDE DEF first
<1> QED BY <1>3, <1>4, <1>5 DEF eligible

\* What is listed at a place was offered by a shop that was asked.
LEMMA EligibleIsOffered ==
  ASSUME SearchInv, offers # None, NEW n \in Eligible(offers)
  PROVE  \E s \in Asked(wanted) :
           /\ results[s] # Raised
           /\ \E i \in DOMAIN results[s] :
                /\ [store |-> s, variant |-> results[s][i].variant] = offers[n].id
                /\ Meets(s, results[s][i])
<1> DEFINE found == Found(results, wanted)
<1>1. PICK at :
        /\ at \in [1 .. Cardinality(found) -> found]
        /\ DOMAIN offers = 1 .. Cardinality(found)
        /\ \A m \in 1 .. Cardinality(found) : offers[m] = ScoredAt(results, at[m], wanted)
  BY RankLists DEF SearchInv
<1>2. n \in 1 .. Cardinality(found) /\ at[n] \in found
  BY <1>1 DEF Eligible
<1> DEFINE s == at[n][1]
           i == at[n][2]
<1>3. /\ s \in Asked(wanted) /\ s \in Shops /\ results[s] \in Catalogue[s]
      /\ i \in DOMAIN results[s]
  BY <1>2, FoundPlaces DEF SearchInv
<1>4. results[s] # Raised
  BY <1>3, SearchAssumption
<1>5. offers[n] = Scored(s, results[s][i], wanted)
  BY <1>1, <1>2 DEF ScoredAt
<1>6. offers[n].inStock /\ offers[n].priced /\ offers[n].withinBudget
  BY DEF Eligible
<1> HIDE DEF s, i, found
<1>7. /\ offers[n].id = [store |-> s, variant |-> results[s][i].variant]
      /\ offers[n].inStock = results[s][i].available
      /\ offers[n].priced = (results[s][i].price > 0)
      /\ offers[n].withinBudget = (results[s][i].price * Quantity <= Budget)
  BY <1>5 DEF Scored
<1>8. Meets(s, results[s][i])
  BY <1>6, <1>7 DEF Meets
<1> QED BY <1>3, <1>4, <1>7, <1>8

\* No offer of the list is better than an earlier one.
LEMMA EarlierIsNoWorse ==
  ASSUME SearchInv, offers # None,
         NEW j \in DOMAIN offers, NEW i \in DOMAIN offers, j <= i
  PROVE  ~Less(Key(offers[i], wanted), Key(offers[j], wanted))
<1> DEFINE found == Found(results, wanted)
           size == Cardinality(found)
           key(n) == Key(offers[n], wanted)
<1>1. PICK at :
        /\ size \in Nat /\ at \in [1 .. size -> found] /\ DOMAIN offers = 1 .. size
        /\ \A n \in 1 .. size : offers[n] = ScoredAt(results, at[n], wanted)
        /\ \A m, n \in 1 .. size : m < n => Precedes(results, at[m], at[n], wanted)
  BY RankLists DEF SearchInv
<1>2. \A n \in 1 .. size : key(n) \in [1 .. 5 -> Int]
  BY <1>1, KeyIsNumbers DEF SearchInv
<1>3. j < i => Less(key(j), key(i)) \/ key(j) = key(i)
  BY <1>1 DEF Precedes
<1>4. j = i \/ j < i
  BY <1>1
<1> DEFINE better == key(j)
           worse == key(i)
<1>5. better \in [1 .. 5 -> Int] /\ worse \in [1 .. 5 -> Int]
  BY <1>1, <1>2
<1>6. Less(better, worse) \/ better = worse
  BY <1>3, <1>4
<1> HIDE DEF better, worse
<1>7. /\ ~Less(better, better)
      /\ Less(better, worse) /\ Less(worse, better) => Less(better, better)
  BY <1>5, LessIsOrder
<1>8. ~Less(worse, better)
  BY <1>6, <1>7
<1> QED BY <1>8 DEF better, worse

LEMMA SearchInvHolds ==
  SearchSpec => []SearchInv
<1>1. SearchInit => SearchInv
  BY DEF SearchInit, SearchInv, Answered
<1>2. SearchInv /\ [SearchNext]_searchVars => SearchInv'
  <2> SUFFICES ASSUME SearchInv, [SearchNext]_searchVars PROVE SearchInv'
    OBVIOUS
  <2>1. ASSUME NEW s \in Shops, ShopAnswers(s) \/ ShopFails(s) PROVE SearchInv'
    <3>1. UNCHANGED <<wanted, offers, pick, council>> /\ results[s] = None /\ s \in Asked(wanted)
      BY <2>1 DEF ShopAnswers, ShopFails
    <3>2. Answered(results')
      BY <2>1 DEF ShopAnswers, ShopFails, SearchInv, Answered
    <3> QED BY <3>1, <3>2 DEF SearchInv
  <2>2. CASE SearchStores
    BY <2>2 DEF SearchStores, SearchInv
  <2>3. CASE CouncilWithoutChoice
    <3>1. offers # None /\ UNCHANGED <<wanted, results, offers, pick>>
      BY <2>3 DEF CouncilWithoutChoice
    <3>2. /\ council'.recommended = None \/ council'.recommended \in CandidateIds(offers)
          /\ ~council'.fallbackUsed
      BY <2>3, FirstIsEligible DEF CouncilWithoutChoice, Result
    <3> QED BY <3>1, <3>2 DEF SearchInv
  <2>4. ASSUME NEW reply, AskFit(reply) PROVE SearchInv'
    <3>1. offers # None /\ UNCHANGED <<wanted, results, offers>> /\ council = None
      BY <2>4 DEF AskFit
    <3>2. Eligible(offers) # {}
      <4>1. Cardinality({}) = 0
        BY FS_EmptySet
      <4> QED BY <2>4, <4>1 DEF AskFit
    <3>3. CASE reply \in CandidateIds(offers)
      BY <2>4, <3>1, <3>3 DEF AskFit, SearchInv
    <3>4. CASE reply \notin CandidateIds(offers)
      <4>1. council' = Fallback(offers) /\ UNCHANGED pick
        BY <2>4, <3>4 DEF AskFit
      <4>2. council'.recommended = First(offers)
        BY <4>1 DEF Fallback, Result
      <4> QED BY <3>1, <3>2, <4>1, <4>2, FirstIsEligible DEF SearchInv
    <3> QED BY <3>3, <3>4
  <2>5. ASSUME NEW verdict, NEW named, AskCritic(verdict, named) PROVE SearchInv'
    <3>1. /\ offers # None /\ pick \in CandidateIds(offers)
          /\ UNCHANGED <<wanted, results, offers, pick>>
          /\ council' = Verdict(offers, pick, verdict, named)
      BY <2>5 DEF AskCritic, SearchInv
    <3>2. Eligible(offers) # {}
      BY <3>1 DEF CandidateIds
    <3>3. First(offers) \in CandidateIds(offers)
      BY <3>1, <3>2, FirstIsEligible
    <3>4. /\ council'.recommended \in CandidateIds(offers)
          /\ council'.fallbackUsed => council'.recommended = First(offers)
      BY <3>1, <3>3 DEF Verdict, Result, Fallback
    <3> QED BY <3>1, <3>2, <3>4 DEF SearchInv
  <2>6. CASE UNCHANGED searchVars
    BY <2>6 DEF searchVars, SearchInv
  <2> QED BY <2>1, <2>2, <2>3, <2>4, <2>5, <2>6 DEF SearchNext
<1> QED BY <1>1, <1>2, PTL DEF SearchSpec

\* Whatever the shops and the two models answer, what is recommended is an offer that a
\* shop asked in this search made, in stock, priced and within the budget, and the best
\* of those when the models were no use (search_stores, run_decision_council).
THEOREM SearchRecommendationIsSafe ==
  SearchSpec => []RecommendationIsSafe
<1>1. SearchInv => RecommendationIsSafe
  <2> SUFFICES ASSUME SearchInv, council # None, council.recommended # None
               PROVE  RecommendationIsSafe
    BY DEF RecommendationIsSafe
  <2>1. offers # None /\ council.recommended \in CandidateIds(offers)
    BY DEF SearchInv
  <2>2. PICK n \in Eligible(offers) : offers[n].id = council.recommended
    BY <2>1 DEF CandidateIds
  <2>3. \E s \in Asked(wanted) :
          /\ results[s] # Raised
          /\ \E i \in DOMAIN results[s] :
               /\ [store |-> s, variant |-> results[s][i].variant] = council.recommended
               /\ Meets(s, results[s][i])
    BY <2>1, <2>2, EligibleIsOffered
  <2>4. ASSUME council.fallbackUsed
        PROVE  \E j \in Eligible(offers) :
                 /\ offers[j].id = council.recommended
                 /\ \A i \in Eligible(offers) :
                      ~Less(Key(offers[i], wanted), Key(offers[j], wanted))
    <3>1. Eligible(offers) # {} /\ council.recommended = First(offers)
      BY <2>4 DEF SearchInv
    <3>2. PICK j \in Eligible(offers) :
            First(offers) = offers[j].id /\ \A i \in Eligible(offers) : j <= i
      BY <2>1, <3>1, FirstIsEligible
    <3>3. Eligible(offers) \subseteq DOMAIN offers
      BY DEF Eligible
    <3> QED BY <2>1, <3>1, <3>2, <3>3, EarlierIsNoWorse
  <2> QED BY <2>3, <2>4 DEF RecommendationIsSafe
<1> QED BY <1>1, SearchInvHolds, PTL

\* A shop's offers are listed or not by what that shop alone answered: one that raised,
\* or answered what nobody wants, takes no other shop's offers away (_search_one,
\* search_stores).
THEOREM SearchFailureIsIsolated ==
  SearchSpec => []FailureIsIsolated
<1>1. SearchInv => FailureIsIsolated
  <2> SUFFICES ASSUME SearchInv, offers # None, NEW s \in Asked(wanted)
               PROVE  LET alone == [t \in Shops |-> IF t = s THEN results[s] ELSE Raised]
                      IN  {offers[i] : i \in {i \in DOMAIN offers : offers[i].id.store = s}}
                            = {ScoredAt(alone, place, wanted) : place \in Found(alone, wanted)}
    BY DEF FailureIsIsolated
  <2> DEFINE alone == [t \in Shops |-> IF t = s THEN results[s] ELSE Raised]
             found == Found(results, wanted)
             size == Cardinality(found)
  <2>1. s \in Shops /\ alone[s] = results[s]
    BY AskedAreShops
  <2>2. \A place : place \in Found(alone, wanted) <=> place \in found /\ place[1] = s
    <3>1. \A t \in Asked(wanted) :
            t # s => Kept(t, alone[t], wanted) = {}
      BY AskedAreShops DEF Kept
    <3>2. Found(alone, wanted) = {s} \X Kept(s, results[s], wanted)
      <4>1. Found(alone, wanted)
              = UNION {{t} \X Kept(t, alone[t], wanted) : t \in Asked(wanted)}
        BY DEF Found
      <4> HIDE DEF alone
      <4> QED BY <2>1, <3>1, <4>1
    <3>3. found = UNION {{t} \X Kept(t, results[t], wanted) : t \in Asked(wanted)}
      BY DEF Found
    <3> HIDE DEF alone, found
    <3> QED BY <3>2, <3>3
  <2>3. \A place \in found :
          place[1] = s => ScoredAt(alone, place, wanted) = ScoredAt(results, place, wanted)
    BY <2>1 DEF ScoredAt
  <2>4. \A place \in found : ScoredAt(results, place, wanted).id.store = place[1]
    BY DEF ScoredAt, Scored
  <2>5. PICK at :
          /\ at \in [1 .. size -> found] /\ DOMAIN offers = 1 .. size
          /\ \A n \in 1 .. size : offers[n] = ScoredAt(results, at[n], wanted)
          /\ \A place \in found : \E n \in 1 .. size : at[n] = place
    BY RankLists DEF SearchInv
  <2> HIDE DEF alone, found, size
  <2>6. \A offer : offer \in {offers[i] : i \in {i \in DOMAIN offers : offers[i].id.store = s}}
          <=> offer \in {ScoredAt(alone, place, wanted) : place \in Found(alone, wanted)}
    BY <2>2, <2>3, <2>4, <2>5
  <2> QED BY <2>6 DEF alone
<1> QED BY <1>1, SearchInvHolds, PTL
=============================================================================
