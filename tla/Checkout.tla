------------------------------ MODULE Checkout ------------------------------
(***************************************************************************)
(* app.py, one shopping session up to the ledger row: the request, the     *)
(* searches, the selections written into a merchant's cart, the read-back, *)
(* the confirmation and the thirteen gates of a payment.  The session is   *)
(* one object in memory; calls are coroutines on one event loop and lose   *)
(* control at every request to a merchant.  What follows the row is        *)
(* OrderCreation and Capture.                                              *)
(*                                                                         *)
(* An offer is a variant at the price on screen; a variant is sold by one  *)
(* merchant as one product.  The shops of one search answer together (that *)
(* one of them fails is Search).                                           *)
(***************************************************************************)
EXTENDS CartVerifier, FiniteSetsExt

M == INSTANCE Memory

CONSTANTS
  Calls,          \* concurrent search, select, message and payment calls
  Requests,       \* what a model makes of a message: [merchant, items, cap], an item:
                  \* [product, quantity]; Nil where nothing is stated
  FreshCart,      \* the demo store; its cart id is fixed per session
  Verified,       \* VERIFIED_STORES, ALL_STORES
  Domains,        \* names that are addresses of shops nobody integrated
  MerchantOf, ProductOf, Stock, \* per variant; Stock for FreshCart's
  ListPrice,      \* per variant: its price at first
  HigherPrice,    \* what any price may change to
  Delivery,       \* FreshCart's charge on a cart that is not empty
  CartIds,        \* pairs of a merchant and a number
  MaxAge,         \* authorization_max_age
  Error,          \* AdapterError instead of an answer
  MaxUpsets, MaxRevisions, MaxCalls  \* bounds; an upset is a failed request, the
                  \* passing of time, or a change that is not this session's

\* Items are listed in order; the null value is neither a cart's id nor its lines, and a
\* failure is not the lack of an answer.
ASSUME CheckoutAssumption ==
  /\ \A request \in Requests :
       /\ request.items \in Seq(Range(request.items))
       /\ \A i \in DOMAIN request.items : request.items[i].quantity \in Nat \cup {Nil}
  /\ ListPrice \in [DOMAIN MerchantOf -> Nat] /\ HigherPrice \in Nat
  /\ <<FreshCart, 0>> \in CartIds /\ Nil \notin CartIds \cup {Error}
  /\ \A bought \in SUBSET DOMAIN MerchantOf : Nil \notin [bought -> Nat]

VARIABLES
  session,        \* the ShoppingSession
  memory,         \* saved stores and preferences of its user
  call,           \* per call: Idle, or what it is doing
  carts,          \* at the merchants, per id: quantities per variant, Nil when there is none
  price,          \* at the merchants, per variant
  rows,           \* claimed ledger rows: [key, cart]
  captured,       \* keys of rows that were paid
  now, upsets,    \* the clock; upsets so far
  calls,          \* calls started (a bound)
  approved        \* history: what the last successful confirmation showed

vars == <<session, memory, call, carts, price, rows, captured, now, upsets, calls, approved>>

None == << >>     \* the function on no items
Idle == [kind |-> "idle"]
Active(c) == call[c] # Idle
Variant == DOMAIN MerchantOf

\* --- what is asked of a merchant --------------------------------------------
Ask(kind, item, offer, request) ==
  [kind |-> kind, item |-> item, offer |-> offer, request |-> request, answer |-> Nil,
   selections |-> None, left |-> {}, quiet |-> TRUE]

Catalogue(product, merchants) == [do |-> "catalogue", product |-> product, merchants |-> merchants]
Tools(domain) == [do |-> "tools", domain |-> domain]
Clear(id) == [do |-> "clear", cart |-> id]
Add(id, merchant, v, quantity) ==
  [do |-> "add", cart |-> id, merchant |-> merchant, variant |-> v, quantity |-> quantity]
Read(id, merchant) == [do |-> "read", cart |-> id, merchant |-> merchant]

\* A step of c that others can notice is no longer quiet for them (history).
Noticed(c, new) ==
  [d \in Calls |-> IF d = c THEN new
                   ELSE IF Active(d) THEN [call[d] EXCEPT !.quiet = FALSE] ELSE Idle]
Everyone == [d \in Calls |-> IF Active(d) THEN [call[d] EXCEPT !.quiet = FALSE] ELSE Idle]

\* --- the merchants -----------------------------------------------------------
Offers(product, merchants) ==
  {[variant |-> v, price |-> price[v]] :
     v \in {v \in Variant : ProductOf[v] = product /\ MerchantOf[v] \in merchants}}

InCart(id) == IF carts[id] = Nil THEN None ELSE carts[id]

\* _cart_json of the demo store and _read_cart_object: prices are the merchant's own.
Observe(id) ==
  LET lines == [i \in 1 .. Cardinality(DOMAIN InCart(id)) |->
                  LET v == SetToSeq(DOMAIN InCart(id))[i]
                  IN  [variant |-> v, quantity |-> InCart(id)[v],
                       total |-> InCart(id)[v] * price[v]]]
  IN  ObservedCart(id[1], id, "INR", lines,
                   IF id[1] = FreshCart /\ lines # << >> THEN Delivery ELSE 0, Nil)

\* Shopify makes a cart when it is given no id.
CartOf(request) ==
  IF request.cart # Nil THEN request.cart
  ELSE CHOOSE id \in CartIds : id[1] = request.merchant /\ carts[id] = Nil

\* FreshCart refuses more than it stocks; a shop does not know another's cart.
CanAdd(request) ==
  LET id == CartOf(request)
      had == IF request.variant \in DOMAIN InCart(id) THEN InCart(id)[request.variant] ELSE 0
  IN  /\ id[1] = request.merchant
      /\ id[1] = FreshCart => had + request.quantity <= Stock[request.variant]

Added(request) ==
  LET id == CartOf(request)
  IN  [carts EXCEPT ![id] =
         [v \in DOMAIN InCart(id) \cup {request.variant} |->
            (IF v \in DOMAIN InCart(id) THEN InCart(id)[v] ELSE 0)
            + (IF v = request.variant THEN request.quantity ELSE 0)]]

Effect(request) ==
  CASE request.do = "clear" -> [carts EXCEPT ![request.cart] = Nil]
    [] request.do = "add" -> IF CanAdd(request) THEN Added(request) ELSE carts
    [] OTHER -> carts

Answers(request) ==
  CASE request.do = "catalogue" -> {Offers(request.product, request.merchants)}
    [] request.do = "tools" -> BOOLEAN
    [] request.do = "clear" -> {"cleared"}
    [] request.do = "add" -> {IF CanAdd(request) THEN CartOf(request) ELSE Error}
    [] OTHER -> {IF request.cart[1] = request.merchant THEN Observe(request.cart) ELSE Error}

RoomAt(request) ==
  request.do = "add" /\ request.cart = Nil =>
    \E id \in CartIds : id[1] = request.merchant /\ carts[id] = Nil

Upset == upsets < MaxUpsets /\ upsets' = upsets + 1

Gets(c, answer) ==
  call' = IF carts' = carts THEN [call EXCEPT ![c].answer = answer]
          ELSE Noticed(c, [call[c] EXCEPT !.answer = answer])

\* The merchant acts and answers, or the request fails before or after it acted.
Serve(c) ==
  /\ Active(c) /\ call[c].answer = Nil /\ RoomAt(call[c].request)
  /\ \/ /\ carts' = Effect(call[c].request)
        /\ \E answer \in Answers(call[c].request) : Gets(c, answer)
        /\ UNCHANGED upsets
     \/ /\ carts' \in {carts, Effect(call[c].request)}
        /\ Gets(c, Error)
        /\ Upset
  /\ UNCHANGED <<session, memory, price, rows, captured, now, calls, approved>>

\* --- the request: create_session, continue_session ---------------------------
Known == {FreshCart} \cup Verified \cup Range(memory.stores)

\* _missing_fields: no budget, or one of nothing.  A model that fails, or answers out of
\* shape, is a draft without items.
Incomplete(draft) ==
  \/ draft.items = << >> \/ \E i \in DOMAIN draft.items : draft.items[i].quantity = Nil
  \/ draft.cap \in {Nil, 0}

\* compile_intent: a whole request, or questions.
Compiled(draft) ==
  IF Incomplete(draft) THEN Nil
  ELSE [items |-> draft.items, cap |-> draft.cap, merchant |-> draft.merchant,
        complete |-> TRUE, status |-> "draft", hash |-> Nil, at |-> Nil]

\* _check_named_shop: a name nobody knows that is no address cannot be shopped.
Blocked(named) == named # Nil /\ named \notin Known \cup Domains

\* Nothing found, chosen or confirmed for the old request survives.
Revised(request, straddled) ==
  [intent |-> Compiled(request), named |-> request.merchant, blocked |-> Blocked(request.merchant),
   offers |-> None, selected |-> None, observed |-> Nil, confirmed |-> FALSE,
   revision |-> session.revision + 1, straddled |-> straddled]

\* The shop check of an unknown address is awaited: until it is answered nothing is blocked.
Continue(c, request) ==
  /\ ~Active(c) /\ session.revision < MaxRevisions
  /\ session' = Revised(request, \E d \in Calls : Active(d) /\ call[d].kind \in {"search", "select"})
  /\ call' = IF request.merchant \in Domains \ Known
             THEN Noticed(c, Ask("continue", Nil, Nil, Tools(request.merchant)))
             ELSE Everyone
  /\ UNCHANGED <<memory, carts, price, rows, captured, now, upsets, calls, approved>>

\* discover() turns every failure into a verdict.
Checked(c) ==
  /\ Active(c) /\ call[c].kind = "continue" /\ call[c].answer # Nil
  /\ session' = IF call[c].answer = TRUE THEN session ELSE [session EXCEPT !.blocked = TRUE]
  /\ call' = Noticed(c, Idle)
  /\ UNCHANGED <<memory, carts, price, rows, captured, now, upsets, calls, approved>>

\* A dictionary by item, after its entry for this one was written.
Put(entries, item, entry) ==
  [i \in DOMAIN entries \cup {item} |-> IF i = item THEN entry ELSE entries[i]]

\* --- search_item ---------------------------------------------------------------
Matched(name) == {name} \cap (Verified \cup Range(memory.stores))

\* FreshCart only by name; a named or remembered store narrows the search when it is
\* one that is known, and is no narrowing otherwise.
Searched(intent) ==
  LET wanted == IF intent.merchant # Nil THEN intent.merchant
                ELSE M!Remembered(memory.preferences, Nil, "store")
  IN  IF intent.merchant = FreshCart THEN {FreshCart}
      ELSE IF Matched(wanted) # {} THEN Matched(wanted)
      ELSE Verified \cup Range(memory.stores)

Search(c, item) ==
  /\ ~Active(c) /\ calls < MaxCalls
  /\ session.intent # Nil /\ ~session.blocked /\ item \in DOMAIN session.intent.items
  /\ call' = [call EXCEPT ![c] =
                Ask("search", item, Nil,
                    Catalogue(session.intent.items[item].product, Searched(session.intent)))]
  /\ calls' = calls + 1
  /\ UNCHANGED <<session, memory, carts, price, rows, captured, now, upsets, approved>>

\* The session it is stored in may meanwhile be about another request.
SearchAnswered(c) ==
  /\ Active(c) /\ call[c].kind = "search" /\ call[c].answer # Nil
  /\ IF call[c].answer = Error
     THEN /\ call' = [call EXCEPT ![c] = Idle]
          /\ UNCHANGED session
     ELSE /\ call' = Noticed(c, Idle)
          /\ session' = [session EXCEPT !.offers = Put(@, call[c].item, call[c].answer)]
  /\ UNCHANGED <<memory, carts, price, rows, captured, now, upsets, calls, approved>>

\* --- select_offer ----------------------------------------------------------------
Chosen == Range(session.selected)
Merchants(offers) == {MerchantOf[offer.variant] : offer \in offers}

\* FreshCart like the others: what was selected before stays in the cart.
SelectAdds(merchant, offer, quantity) ==
  Add(IF merchant = FreshCart THEN <<FreshCart, 0>>
      ELSE IF session.observed = Nil THEN Nil ELSE session.observed.id,
      merchant, offer.variant, quantity)

SelectFirst(merchant, offer, quantity) ==
  IF merchant = FreshCart THEN Clear(<<FreshCart, 0>>)
  ELSE Add(IF session.observed = Nil THEN Nil ELSE session.observed.id,
           merchant, offer.variant, quantity)

\* Refused, or raising, without a trace: an offer that was not found for this item or
\* is not of the named shop, a second merchant, an item the request no longer has.
Select(c, item, offer) ==
  /\ ~Active(c) /\ calls < MaxCalls
  /\ session.intent # Nil /\ item \in DOMAIN session.offers \cap DOMAIN session.intent.items
  /\ offer \in session.offers[item] /\ Stock[offer.variant] > 0
  /\ LET merchant == MerchantOf[offer.variant]
     IN  /\ session.intent.merchant \in {Nil, merchant}
         /\ Chosen = {} \/ merchant \in Merchants(Chosen)
         /\ call' = [call EXCEPT ![c] =
              Ask("select", item, offer,
                  SelectFirst(merchant, offer, session.intent.items[item].quantity))]
  /\ calls' = calls + 1
  /\ UNCHANGED <<session, memory, carts, price, rows, captured, now, upsets, approved>>

\* Every selection of now and this one are written, in the order of the items.
Selections(c) == Put(session.selected, call[c].item, call[c].offer)

\* The next line, in the quantity the request asks for now; a request that no longer
\* has the item raises, with the cart as it is by then.
WriteNext(c, selections, left) ==
  LET item == Min(left)
  IN  IF session.intent # Nil /\ item \in DOMAIN session.intent.items
      THEN call' = [call EXCEPT ![c].selections = selections, ![c].left = left \ {item},
                      ![c].answer = Nil,
                      ![c].request = Add(<<FreshCart, 0>>, FreshCart, selections[item].variant,
                                         session.intent.items[item].quantity)]
      ELSE call' = [call EXCEPT ![c] = Idle]

Answered(c, kind, asked) ==
  /\ Active(c) /\ call[c].kind = kind /\ call[c].request.do = asked
  /\ call[c].answer \notin {Nil, Error}

\* FreshCart is clear, or a line of several is written.
SelectWrites(c) ==
  /\ \/ /\ Answered(c, "select", "clear")
        /\ WriteNext(c, Selections(c), DOMAIN Selections(c))
     \/ /\ Answered(c, "select", "add") /\ call[c].left # {}
        /\ WriteNext(c, call[c].selections, call[c].left)
  /\ UNCHANGED <<session, memory, carts, price, rows, captured, now, upsets, calls, approved>>

\* A write is never taken as evidence of what the merchant put in the cart.
SelectAsksBack(c) ==
  /\ Answered(c, "select", "add") /\ call[c].left = {}
  /\ call' = [call EXCEPT ![c].answer = Nil,
                ![c].request = Read(call[c].answer, call[c].request.merchant)]
  /\ UNCHANGED <<session, memory, carts, price, rows, captured, now, upsets, calls, approved>>

\* The cart was read back: only now does the session change.
SelectReads(c) ==
  /\ Answered(c, "select", "read")
  /\ session' = [session EXCEPT
                   !.selected = Put(@, call[c].item, call[c].offer),
                   !.observed = call[c].answer, !.confirmed = FALSE]
  /\ call' = Noticed(c, Idle)
  /\ UNCHANGED <<memory, carts, price, rows, captured, now, upsets, calls, approved>>

\* AdapterError: a 502, and the session as it was, whatever was already written.
CallFails(c) ==
  /\ Active(c) /\ call[c].kind \in {"select", "pay"} /\ call[c].answer = Error
  /\ call' = [call EXCEPT ![c] = Idle]
  /\ UNCHANGED <<session, memory, carts, price, rows, captured, now, upsets, calls, approved>>

\* --- confirm_session_cart -------------------------------------------------------
\* The selections in the order of their items, once every item has one.
Expectation ==
  [merchant |-> CHOOSE m \in Merchants(Chosen) : TRUE,
   currency |-> "INR", cap |-> session.intent.cap,
   lines |-> [i \in DOMAIN session.intent.items |->
                [variant |-> session.selected[i].variant,
                 quantity |-> session.intent.items[i].quantity,
                 price |-> session.selected[i].price]]]

\* _expectation: refused, or raising, unless every item is selected at one merchant
\* and no variant twice.
Expectable ==
  /\ session.intent # Nil /\ session.selected # None
  /\ DOMAIN session.selected = DOMAIN session.intent.items
  /\ Cardinality(Merchants(Chosen)) = 1
  /\ ValidExpectation(Expectation)

Confirm ==
  /\ Expectable /\ session.observed # Nil
  /\ LET ready == [session.intent EXCEPT !.merchant = Expectation.merchant, !.status = "ready"]
         intent == ConfirmCart(ready, Expectation, session.observed, now)
         confirmed == intent.status = "confirmed"
     IN  /\ session' = [session EXCEPT !.confirmed = confirmed,
                          !.intent = IF confirmed THEN intent ELSE @]
         /\ approved' = IF confirmed
                        THEN [lines |-> Expectation.lines, cart |-> session.observed,
                              at |-> now, revision |-> session.revision]
                        ELSE approved
         /\ call' = IF session' # session THEN Everyone ELSE call
  /\ UNCHANGED <<memory, carts, price, rows, captured, now, upsets, calls>>

\* --- create_payment_order, as far as the ledger row -------------------------------
KeyOf(intent) == <<intent.merchant, intent.hash>>

Pay(c) ==
  /\ ~Active(c) /\ calls < MaxCalls
  /\ session.intent # Nil /\ session.observed # Nil /\ session.confirmed
  /\ LET merchant == CHOOSE m \in Merchants(Chosen) : TRUE
     IN  call' = [call EXCEPT ![c] =
           Ask("pay", Nil, Nil, Read(session.observed.id, merchant))]
  /\ calls' = calls + 1
  /\ UNCHANGED <<session, memory, carts, price, rows, captured, now, upsets, approved>>

\* The snapshot taken when the cart was confirmed.
Snapshot(c) == session.observed

\* _reread_cart_from_merchant.
Reread(c) == call[c].answer

Evidence(observed) ==
  [merchantPermitted |-> Expectation.merchant \in Known,
   cartUnique |-> TRUE, attributesMatch |-> TRUE,
   itemsAvailable |-> observed.lines # << >>,
   idempotencyFree |-> KeyOf(session.intent) \notin captured]

\* _pre_payment_gates on what was just read, against the session as it is now.
MayClaim(observed) ==
  /\ Expectable /\ session.intent.hash # Nil
  /\ Allow(PrePaymentGates(session.intent, Expectation, observed, Evidence(observed),
                           now, MaxAge))

PayReads(c) ==
  /\ Answered(c, "pay", "read")
  /\ session' = [session EXCEPT !.observed = Reread(c)]
  /\ rows' = IF MayClaim(Reread(c))
             THEN rows \cup {[key |-> KeyOf(session.intent), cart |-> Reread(c)]}
             ELSE rows
  /\ call' = Noticed(c, Idle)
  /\ UNCHANGED <<memory, carts, price, captured, now, upsets, calls, approved>>

\* --- what others do ------------------------------------------------------------
\* Razorpay captures the payment of a row (Capture).
Captured(row) ==
  /\ row.key \notin captured
  /\ captured' = captured \cup {row.key}
  /\ UNCHANGED <<session, memory, call, carts, price, rows, now, upsets, calls, approved>>

PriceChanges(v) ==
  /\ Upset /\ price[v] # HigherPrice
  /\ price' = [price EXCEPT ![v] = HigherPrice]
  /\ call' = Everyone
  /\ UNCHANGED <<session, memory, carts, rows, captured, now, calls, approved>>

\* A cart is emptied or one of its lines changed at the merchant, or the store restarts.
CartChanges(id) ==
  /\ Upset /\ carts[id] # Nil
  /\ \/ carts' = [carts EXCEPT ![id] = Nil]
     \/ \E v \in DOMAIN carts[id] : carts' = [carts EXCEPT ![id][v] = @ + 1]
  /\ call' = Everyone
  /\ UNCHANGED <<session, memory, price, rows, captured, now, calls, approved>>

\* add_store (discover answered), remove_saved_store, write_preference,
\* delete_preference, delete_memory.
Remember ==
  /\ Upset
  /\ \E m \in Domains :
       memory' \in
         {[memory EXCEPT !.stores = M!RememberStore(@, m)],
          [memory EXCEPT !.stores = M!ForgetStore(@, m)],
          [memory EXCEPT !.preferences = M!SetPreference(@, "store", m, Nil)],
          [memory EXCEPT !.preferences = M!ForgetPreference(@, "store")],
          [stores |-> << >>, preferences |-> << >>]}
  /\ memory' # memory
  /\ UNCHANGED <<session, call, carts, price, rows, captured, now, calls, approved>>

Tick ==
  /\ Upset /\ now' = now + 1
  /\ UNCHANGED <<session, memory, call, carts, price, rows, captured, calls, approved>>

\* create_session: a name that had to be discovered may be blocked or not.
Init ==
  /\ \E request \in Requests, blocked \in BOOLEAN :
       /\ request.merchant \notin Domains \ Verified => ~blocked
       /\ session = [intent |-> Compiled(request), named |-> request.merchant, blocked |-> blocked,
                     offers |-> None, selected |-> None, observed |-> Nil,
                     confirmed |-> FALSE, revision |-> 0, straddled |-> FALSE]
  /\ memory = [stores |-> << >>, preferences |-> << >>]
  /\ call = [c \in Calls |-> Idle]
  /\ carts = [id \in CartIds |-> Nil]
  /\ price = ListPrice
  /\ rows = {} /\ captured = {} /\ now = 0 /\ upsets = 0 /\ calls = 0
  /\ approved = Nil

Next ==
  \/ \E c \in Calls :
       \/ Serve(c) \/ Checked(c) \/ SearchAnswered(c) \/ SelectWrites(c) \/ SelectAsksBack(c)
       \/ SelectReads(c)
       \/ CallFails(c) \/ Pay(c) \/ PayReads(c)
       \/ \E request \in Requests : Continue(c, request)
       \/ session.intent # Nil /\ \E item \in DOMAIN session.intent.items : Search(c, item)
       \/ \E item \in DOMAIN session.offers : \E offer \in session.offers[item] :
            Select(c, item, offer)
  \/ Confirm
  \/ \E row \in rows : Captured(row)
  \/ \E v \in Variant : PriceChanges(v)
  \/ \E id \in CartIds : CartChanges(id)
  \/ Remember
  \/ Tick

Spec == Init /\ [][Next]_vars

-----------------------------------------------------------------------------
\* A row is claimed only for the cart the last confirmation showed: the same lines in
\* the same quantities at the prices on screen, the same total, within the limit and
\* the age of a confirmation, for the request as it stands.  Unless a search or a
\* selection was in flight when the request was revised, the lines are what that
\* request asks for, at the shop it names ("A real change since confirmation is a hash
\* mismatch the gates can actually catch", app.py create_payment_order).
OrderAsApproved ==
  [][\A row \in rows' \ rows :
       LET items == session.intent.items
           lines == approved.lines
       IN  /\ row.cart.total = approved.cart.total /\ row.cart.total <= session.intent.cap
           /\ approved.revision = session.revision /\ now <= approved.at + MaxAge
           /\ Len(row.cart.lines) = Len(lines) /\ Len(lines) = Len(items)
           /\ \A i \in DOMAIN lines : \E j \in DOMAIN row.cart.lines :
                row.cart.lines[j] = [variant |-> lines[i].variant, quantity |-> lines[i].quantity,
                                     total |-> lines[i].quantity * lines[i].price]
           /\ session.straddled \/
                /\ \A i \in DOMAIN items : lines[i].quantity = items[i].quantity
                                           /\ ProductOf[lines[i].variant] = items[i].product
                /\ session.named \in {Nil, row.cart.merchant}]_vars

\* A row is claimed for the cart as it is at the merchant, unless something changed
\* while the payment call was under way: a confirmed cart is read again before the
\* gates (F-031).
ClaimIsCurrent ==
  [][\A c \in Calls : rows' # rows /\ Active(c) /\ call'[c] = Idle /\ call[c].quiet =>
       \E row \in rows' \ rows : row.cart = Observe(row.cart.id)]_vars

\* A selection at FreshCart that nothing disturbed ends with exactly the selected lines
\* in the cart and in the session, whatever earlier calls left there: the buyer can
\* always select again and confirm ("no way for the user to recover", app.py
\* select_offer).
SelectSettles ==
  [][\A c \in Calls :
       SelectReads(c) /\ call[c].quiet /\ call[c].request.merchant = FreshCart =>
         LET selected == session'.selected
             wanted == [v \in {selected[i].variant : i \in DOMAIN selected} |->
                          FoldSet(LAMBDA i, sum : sum + session'.intent.items[i].quantity, 0,
                                  {i \in DOMAIN selected : selected[i].variant = v})]
         IN  /\ carts[<<FreshCart, 0>>] = wanted
             /\ session'.observed = Observe(<<FreshCart, 0>>)]_vars
=============================================================================
