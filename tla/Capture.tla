------------------------------- MODULE Capture -------------------------------
(***************************************************************************)
(* The second half of a payment (app.py): the browser's verify call and    *)
(* Razorpay's webhook report the same payment, in any order and any number *)
(* of times; _finalize_capture writes the ledger, the order history and    *)
(* the consumption of the authorization.  The server may be restarted: the *)
(* databases survive, _SESSIONS and the calls in flight do not.            *)
(*                                                                         *)
(* A verify call is suspended while it fetches the payment; the webhook    *)
(* handler does not wait for anything after it has read its body, so it is *)
(* one step.  How a row comes by its order is OrderCreation's subject:     *)
(* here it is claimed, Razorpay makes an order, and that order or the one  *)
(* its receipt finds is attached.                                          *)
(*                                                                         *)
(* Razorpay is external.  It delivers the payment.captured event of a      *)
(* payment again and again, as long as it likes; the event says what was   *)
(* true when the payment was captured.                                     *)
(***************************************************************************)
EXTENDS LedgerRows, Naturals, Sequences

CONSTANTS
  Sessions,
  Keys,           \* idempotency keys: one confirmed cart of one session
  SessionOf,      \* the session a key belongs to
  TotalOf,        \* the total of the cart a key stands for
  Calls,          \* calls of verify_session_payment
  TTL,            \* DEFAULT_AUTHORIZATION_TTL
  MaxTime,        \* bound on the clock
  LostResponses,  \* an order may be attached with no authorization issued
  Restarts        \* the server may be killed and started again

\* Razorpay's record of a payment.
Payment == [order : OrderIds, amount : Amounts,
            status : {"authorized", "captured", "refunded"}]

ASSUME CaptureAssumption ==
  /\ SessionOf \in [Keys -> Sessions]
  /\ TotalOf \in [Keys -> Amounts]
  /\ None \notin Keys \cup Payment
  /\ TTL \in Nat /\ MaxTime \in Nat /\ None \notin Nat
  /\ LostResponses \in BOOLEAN
  /\ Restarts \in BOOLEAN

VARIABLES
  now,
  ledger,         \* LEDGER
  created,        \* per key: created_at of its row
  issuedAt,       \* per key: when its authorization was issued
  consumed,       \* AUTH_DB: the order each key's authorization was consumed for
  deliveries,     \* WEBHOOK_LOG: payments whose event was claimed
  history,        \* MEMORY: completed orders, oldest first
  alive,          \* sessions still in _SESSIONS
  selected,       \* per session: the cart its selected_by_item makes up
  confirmed,      \* per session: the key of intent.confirmed_cart_hash
  authorization,  \* per session: the key session.authorization is for
  pc, call,       \* verify calls: the await, and the key and payment at hand
  reply,
  orders,         \* Razorpay: the key each order was created for
  payments        \* Razorpay: its record of each payment

databases == <<ledger, created, issuedAt, consumed, deliveries, history>>
sessionVars == <<alive, selected, confirmed, authorization>>
callVars == <<pc, call, reply>>
razorpayVars == <<orders, payments>>
vars == <<now, databases, sessionVars, callVars, razorpayVars>>

Init ==
  /\ now = 0
  /\ ledger = [k \in Keys |-> Absent]
  /\ created = [k \in Keys |-> None]
  /\ issuedAt = [k \in Keys |-> None]
  /\ consumed = [k \in Keys |-> None]
  /\ deliveries = {}
  /\ history = <<>>
  /\ alive = Sessions
  /\ selected = [s \in Sessions |-> None]
  /\ confirmed = [s \in Sessions |-> None]
  /\ authorization = [s \in Sessions |-> None]
  /\ pc = [c \in Calls |-> "idle"]
  /\ call = [c \in Calls |-> [key |-> None, payment |-> None]]
  /\ reply = [c \in Calls |-> None]
  /\ orders = [o \in OrderIds |-> None]
  /\ payments = [p \in PaymentIds |-> None]

Tick ==
  /\ now < MaxTime
  /\ now' = now + 1
  /\ UNCHANGED <<databases, sessionVars, callVars, razorpayVars>>
-----------------------------------------------------------------------------
(* The session, and the order of a purchase.                                *)

\* select_offer, for the offers that make up cart k; the hash confirmed before
\* stays on the intent.
Select(k) ==
  /\ SessionOf[k] \in alive
  /\ selected' = [selected EXCEPT ![SessionOf[k]] = k]
  /\ UNCHANGED <<now, databases, alive, confirmed, authorization, callVars, razorpayVars>>

\* confirm_session_cart, for the cart now selected.
Confirm(s) ==
  /\ s \in alive
  /\ selected[s] # None
  /\ confirmed' = [confirmed EXCEPT ![s] = selected[s]]
  /\ UNCHANGED <<now, databases, alive, selected, authorization, callVars, razorpayVars>>

\* continue_session: nothing is selected, and nothing confirmed, any more.
Revise(s) ==
  /\ s \in alive
  /\ selected' = [selected EXCEPT ![s] = None]
  /\ confirmed' = [confirmed EXCEPT ![s] = None]
  /\ UNCHANGED <<now, databases, alive, authorization, callVars, razorpayVars>>

\* create_payment_order claims the row of the cart selected and confirmed.
ClaimRow(s) ==
  LET k == confirmed[s]
  IN  /\ s \in alive
      /\ k # None /\ selected[s] = k
      /\ ledger[k].status = "absent"
      /\ ledger' = [ledger EXCEPT ![k] = ClaimOrder(@, TotalOf[k])]
      /\ created' = [created EXCEPT ![k] = now]
      /\ UNCHANGED <<now, issuedAt, consumed, deliveries, history, sessionVars,
                     callVars, razorpayVars>>

RazorpayCreates(k) ==
  /\ ledger[k].status = "pending" /\ ledger[k].order = None
  /\ \A o \in OrderIds : orders[o] # k
  /\ \E o \in OrderIds :
       /\ orders[o] = None
       /\ orders' = [orders EXCEPT ![o] = k]
  /\ UNCHANGED <<now, databases, sessionVars, callVars, payments>>

\* The order of the POST's own response, or the only one of its receipt; the
\* receipt is the session's.
Attachable(k, o) ==
  \/ orders[o] = k
  \/ /\ orders[o] # None
     /\ \A q \in OrderIds :
          orders[q] # None /\ SessionOf[orders[q]] = SessionOf[k] <=> q = o

\* create_payment_order attaches an order and signs the authorization; a call
\* that finds the order of an earlier one's lost response signs none.
AttachOrderTo(k) ==
  LET s == SessionOf[k]
  IN  /\ s \in alive
      /\ ledger[k].status = "pending" /\ ledger[k].order = None
      /\ \E o \in OrderIds :
           /\ Attachable(k, o)
           /\ ledger' = [ledger EXCEPT ![k] = AttachOrder(@, o)]
      /\ \/ /\ issuedAt' = [issuedAt EXCEPT ![k] = now]
            /\ authorization' = [authorization EXCEPT ![s] = k]
         \/ /\ LostResponses
            /\ UNCHANGED <<issuedAt, authorization>>
      /\ UNCHANGED <<now, created, consumed, deliveries, history, alive, selected,
                     confirmed, callVars, razorpayVars>>

\* The buyer pays an order at Razorpay, which captures the payment, or it is
\* refunded there.
Pay(p) ==
  /\ payments[p] = None
  /\ \E o \in OrderIds, a \in Amounts :
       /\ orders[o] # None
       /\ payments' = [payments EXCEPT ![p] =
            [order |-> o, amount |-> a, status |-> "authorized"]]
  /\ UNCHANGED <<now, databases, sessionVars, callVars, orders>>

Advance(p, from, to) ==
  /\ payments[p] # None
  /\ payments[p].status = from
  /\ payments' = [payments EXCEPT ![p].status = to]
  /\ UNCHANGED <<now, databases, sessionVars, callVars, orders>>

RazorpayCaptures(p) == Advance(p, "authorized", "captured")
Refund(p) == Advance(p, "captured", "refunded")
-----------------------------------------------------------------------------
(* Writing a capture.                                                       *)

RejectRow(k) == ledger' = [ledger EXCEPT ![k] = Reject(@)]

Expired(k) == now >= issuedAt[k] + TTL

\* History written by every call that reports a payment.
FinalizeUnguarded(s, k, p) ==
  /\ ledger' = [ledger EXCEPT ![k] = FinalizeIfPending(@, p, payments[p].amount)]
  /\ history' = Append(history, [payment |-> p, cart |-> k])
  /\ UNCHANGED consumed

\* _finalize_capture: the row, and, for the call that won it, the history of what
\* the session has selected and the authorization the session carries.
FinalizeCapture(s, k, p) ==
  LET row == ledger[k]
  IN  /\ ledger' = [ledger EXCEPT ![k] = FinalizeIfPending(row, p, payments[p].amount)]
      /\ IF WinsFinalize(row)
         THEN /\ history' = IF selected[s] = None THEN history
                            ELSE Append(history, [payment |-> p, cart |-> selected[s]])
              /\ consumed' =
                   IF authorization[s] # None /\ consumed[authorization[s]] = None
                   THEN [consumed EXCEPT ![authorization[s]] = row.order]
                   ELSE consumed
         ELSE UNCHANGED <<history, consumed>>

Answer(c, captured, payment) ==
  /\ pc' = [pc EXCEPT ![c] = "done"]
  /\ reply' = [reply EXCEPT ![c] = [captured |-> captured, payment |-> payment]]
-----------------------------------------------------------------------------
(* POST /payment/verify.  A 409 is a call that never starts.                *)

\* The signature is over the row's order and the payment: Razorpay hands one out
\* for a payment of that order only.
Signed(row, p) == payments[p] # None /\ payments[p].order = row.order

Verify(c, s, p) ==
  LET k == confirmed[s]
      row == ledger[k]
  IN  /\ pc[c] = "idle"
      /\ s \in alive
      /\ k # None
      /\ row.status # "absent"
      /\ call' = [call EXCEPT ![c] = [key |-> k, payment |-> p]]
      /\ IF row.status = "captured"
         THEN Answer(c, TRUE, row.payment) /\ UNCHANGED ledger
         ELSE IF Signed(row, p)
              THEN /\ pc' = [pc EXCEPT ![c] = "fetching"]
                   /\ UNCHANGED <<ledger, reply>>
              ELSE RejectRow(k) /\ Answer(c, FALSE, None)
      /\ UNCHANGED <<now, created, issuedAt, consumed, deliveries, history,
                     sessionVars, razorpayVars>>

\* The fetch fails, or what it says fails a check of verify_payment or a gate.  The
\* row's order and amount are as they were before the fetch: neither ever changes.
Acceptable(c) ==
  LET k == call[c].key
      p == call[c].payment
      s == SessionOf[k]
  IN  /\ payments[p].status = "captured"
      /\ payments[p].amount = ledger[k].amount
      /\ authorization[s] # None => ~Expired(authorization[s])

\* A refusal that uses the authorization up.
VerifyRejectsForGood(c) ==
  LET k == call[c].key
  IN  /\ pc[c] = "fetching"
      /\ RejectRow(k)
      /\ consumed' = [consumed EXCEPT ![k] = ledger[k].order]
      /\ Answer(c, FALSE, None)
      /\ UNCHANGED <<now, created, issuedAt, deliveries, history, call, sessionVars,
                     razorpayVars>>

VerifyRejects(c) ==
  /\ pc[c] = "fetching"
  /\ RejectRow(call[c].key)
  /\ Answer(c, FALSE, None)
  /\ UNCHANGED <<now, created, issuedAt, consumed, deliveries, history, call,
                 sessionVars, razorpayVars>>

VerifyCaptures(c) ==
  LET k == call[c].key
  IN  /\ pc[c] = "fetching"
      /\ Acceptable(c)
      /\ FinalizeCapture(SessionOf[k], k, call[c].payment)
      /\ Answer(c, TRUE, ledger'[k].payment)
      /\ UNCHANGED <<now, created, issuedAt, deliveries, call, sessionVars, razorpayVars>>
-----------------------------------------------------------------------------
(* POST /api/webhooks/razorpay.                                             *)

\* get_entry_by_order_id and _find_session_by_order_id; each picks the first match
\* of an order that is not specified.
RowsOf(order) == {k \in Keys : ledger[k].order = order}
SessionsOf(order) ==
  {s \in alive : confirmed[s] # None /\ ledger[confirmed[s]].order = order}

\* Nothing to expire without a session.
NeverExpired(k, found) ==
  found # None /\ authorization[found] # None => ~Expired(authorization[found])

\* G_NOT_EXPIRED: by the session's authorization, by the row's age if it has none.
NotExpired(k, found) ==
  IF found # None /\ authorization[found] # None
  THEN ~Expired(authorization[found])
  ELSE now - created[k] <= TTL

\* The event is known, and the row it is about is not captured yet.
Correlates(p, k, found) ==
  LET order == payments[p].order
  IN  /\ payments[p] # None /\ payments[p].status # "authorized"
      /\ k \in RowsOf(order)
      /\ ledger[k].status # "captured"
      /\ found \in SessionsOf(order) \/ (SessionsOf(order) = {} /\ found = None)

\* The amount in the event taken at its word.
GatesAllowAnyAmount(p, k, found) == NotExpired(k, found)

GatesAllow(p, k, found) ==
  payments[p].amount = ledger[k].amount /\ NotExpired(k, found)

\* The delivery claimed before anything else is looked at.
WebhookClaimsFirst(p) ==
  /\ payments[p] # None /\ payments[p].status # "authorized"
  /\ RowsOf(payments[p].order) = {}
  /\ deliveries' = deliveries \cup {p}
  /\ UNCHANGED <<now, ledger, created, issuedAt, consumed, history, sessionVars,
                 callVars, razorpayVars>>

WebhookRejects(p) ==
  /\ \E k \in Keys, found \in Sessions \cup {None} :
       /\ Correlates(p, k, found)
       /\ ~GatesAllow(p, k, found)
       /\ RejectRow(k)
  /\ UNCHANGED <<now, created, issuedAt, consumed, deliveries, history, sessionVars,
                 callVars, razorpayVars>>

\* claim_delivery, then the capture, for the cart the session has confirmed.
WebhookCaptures(p) ==
  /\ p \notin deliveries
  /\ deliveries' = deliveries \cup {p}
  /\ \E k \in Keys, found \in Sessions \cup {None} :
       /\ Correlates(p, k, found)
       /\ GatesAllow(p, k, found)
       /\ IF found # None
          THEN FinalizeCapture(found, confirmed[found], p)
          ELSE /\ ledger' = [ledger EXCEPT ![k] =
                    FinalizeIfPending(@, p, payments[p].amount)]
               /\ UNCHANGED <<history, consumed>>
  /\ UNCHANGED <<now, created, issuedAt, sessionVars, callVars, razorpayVars>>
-----------------------------------------------------------------------------
(* The server is killed: between two steps, or inside one.                  *)

Forget ==
  /\ alive' = {}
  /\ selected' = [s \in Sessions |-> None]
  /\ confirmed' = [s \in Sessions |-> None]
  /\ authorization' = [s \in Sessions |-> None]
  /\ pc' = [c \in Calls |-> IF pc[c] = "fetching" THEN "done" ELSE pc[c]]
  /\ UNCHANGED <<call, reply>>

Restart ==
  /\ Restarts
  /\ Forget
  /\ UNCHANGED <<now, databases, razorpayVars>>

\* Killed between claim_delivery and finalize_if_pending.
RestartAfterClaim(p) ==
  /\ Restarts
  /\ p \notin deliveries
  /\ \E k \in Keys, found \in Sessions \cup {None} :
       Correlates(p, k, found) /\ GatesAllow(p, k, found)
  /\ deliveries' = deliveries \cup {p}
  /\ Forget
  /\ UNCHANGED <<now, ledger, created, issuedAt, consumed, history, razorpayVars>>

Next ==
  \/ Tick \/ Restart
  \/ \E k \in Keys : Select(k) \/ RazorpayCreates(k) \/ AttachOrderTo(k)
  \/ \E s \in Sessions : Confirm(s) \/ Revise(s) \/ ClaimRow(s)
  \/ \E p \in PaymentIds :
       \/ Pay(p) \/ RazorpayCaptures(p) \/ Refund(p)
       \/ WebhookRejects(p) \/ WebhookCaptures(p) \/ RestartAfterClaim(p)
  \/ \E c \in Calls :
       \/ \E s \in Sessions, p \in PaymentIds : Verify(c, s, p)
       \/ VerifyRejects(c) \/ VerifyCaptures(c)

Spec == Init /\ [][Next]_vars

\* Razorpay delivers an event until the handler has acted on it.
FairSpec == Spec /\ \A p \in PaymentIds : WF_vars(WebhookCaptures(p))

-----------------------------------------------------------------------------
Cart == Keys \cup {None}

TypeOK ==
  /\ now \in 0 .. MaxTime
  /\ ledger \in [Keys -> LedgerEntry]
  /\ created \in [Keys -> Nat \cup {None}]
  /\ issuedAt \in [Keys -> Nat \cup {None}]
  /\ consumed \in [Keys -> OrderIds \cup {None}]
  /\ deliveries \subseteq PaymentIds
  /\ history \in Seq([payment : PaymentIds, cart : Keys])
  /\ alive \subseteq Sessions
  /\ selected \in [Sessions -> Cart]
  /\ confirmed \in [Sessions -> Cart]
  /\ authorization \in [Sessions -> Cart]
  /\ pc \in [Calls -> {"idle", "fetching", "done"}]
  /\ call \in [Calls -> [key : Cart, payment : PaymentIds \cup {None}]]
  /\ reply \in [Calls -> [captured : BOOLEAN, payment : PaymentIds \cup {None}] \cup {None}]
  /\ orders \in [OrderIds -> Cart]
  /\ payments \in [PaymentIds -> Payment \cup {None}]

\* A purchase counts as paid only by a payment Razorpay captured, of that purchase's
\* order, over exactly the amount its buyer confirmed, whichever channel reported it
\* (razorpay_webhook: "Checked explicitly below before any finalize call, the same
\* standard applied everywhere else on this path").
CapturedIsPaid ==
  \A k \in Keys : ledger[k].status = "captured" =>
    LET p == payments[ledger[k].payment]
    IN  /\ p # None
        /\ p.status \in {"captured", "refunded"}
        /\ p.order = ledger[k].order
        /\ ledger[k].captured = ledger[k].amount
        /\ p.amount = ledger[k].amount

\* A verify call that answers "captured" tells the payment its purchase is recorded
\* as paid by, even if a webhook or another call got there first while it was
\* fetching (finalize_if_pending: later calls get "the original result untouched").
TruthfulReply ==
  \A c \in Calls :
    pc[c] = "done" /\ reply[c] # None /\ reply[c].captured =>
      /\ ledger[call[c].key].status = "captured"
      /\ ledger[call[c].key].payment = reply[c].payment

\* However many verify calls and deliveries report a payment, it enters the order
\* history at most once (_finalize_capture: "it runs at most once per purchase").
HistoryOnce ==
  \A i, j \in 1 .. Len(history) :
    history[i].payment = history[j].payment => i = j

\* What the history says was bought is what its payment paid for (memory.py: "an
\* abandoned or unpaid cart can never become a preference").
HistoryIsPaid ==
  \A i \in 1 .. Len(history) :
    /\ ledger[history[i].cart].status = "captured"
    /\ ledger[history[i].cart].payment = history[i].payment

\* An authorization is consumed by the capture of the purchase it was signed for and
\* by no other (authorization.py binds it to one transaction_id; _finalize_capture:
\* the winner "is also the only call that can ever consume this authorization").
ConsumedIsOwn ==
  \A k \in Keys : consumed[k] # None =>
    ledger[k].status = "captured" /\ consumed[k] = ledger[k].order

\* A delivery is claimed only if it is acted on: once it is, the order it reports is
\* recorded as paid (razorpay_webhook: "the only thing it can ever de-duplicate is a
\* delivery that was actually going to be acted on").
DeliveryActedOn ==
  \A p \in deliveries : \E k \in Keys :
    ledger[k].order = payments[p].order /\ ledger[k].status = "captured"

Captures(k) == ledger[k].status # "captured" /\ ledger'[k].status = "captured"

\* No channel captures a purchase whose claim and whose authorization are both past
\* their TTL (G_NOT_EXPIRED: "Too long has passed since this purchase was confirmed
\* for the payment to still be trusted").
FreshCapture ==
  [][\A k \in Keys : Captures(k) =>
       \/ now - created[k] <= TTL
       \/ issuedAt[k] # None /\ ~Expired(k)]_vars

Reported(p, k) ==
  /\ payments[p] # None /\ payments[p].status # "authorized"
  /\ payments[p].order = ledger[k].order
  /\ payments[p].amount = ledger[k].amount

\* A payment in full of a purchase's order is recorded in the end, whether or not
\* the buyer's browser ever comes back, if it reaches the server within the TTL
\* (razorpay_webhook: "permanently losing the one delivery that could have finalized
\* it" must not happen).
PaidIsRecorded ==
  \A k \in Keys : \A p \in PaymentIds :
    Reported(p, k) ~> ledger[k].status = "captured"

\* Both channels keep what a purchase promises.
Promise == INSTANCE Purchase WITH
  phase <- [k \in Keys |->
              CASE ledger[k].status = "absent" -> "absent"
                [] ledger[k].status = "pending" -> "open"
                [] ledger[k].status = "unknown" -> "doubt"
                [] ledger[k].status = "captured" -> "paid"],
  order <- [k \in Keys |-> ledger[k].order],
  payment <- [k \in Keys |-> ledger[k].payment]

KeepsPromise == Promise!Spec
=============================================================================
