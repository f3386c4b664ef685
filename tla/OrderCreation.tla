---------------------------- MODULE OrderCreation ----------------------------
(***************************************************************************)
(* POST /api/sessions/{id}/payment/order: any number of calls of           *)
(* create_payment_order (app.py) running at once, against one ledger and   *)
(* against Razorpay.                                                       *)
(*                                                                         *)
(* The server is one asyncio process.  A handler runs without interruption *)
(* from one await to the next, so each action is the stretch between two   *)
(* awaits: re-reading the cart, POST /orders, GET /orders?receipt, and     *)
(* asyncio.sleep.  pc[r] names the await request r is suspended at.        *)
(*                                                                         *)
(* Razorpay is external: it makes an order for a POST it receives and      *)
(* looks orders up by receipt; a response may be lost, and the client      *)
(* gives up on it (RazorpayError).  Two constants say how bad the network  *)
(* is.  LateCreate: a POST the client gave up on may still be carried out. *)
(* StaleLookup: Razorpay may change between answering a lookup and the     *)
(* answer being acted on.                                                  *)
(***************************************************************************)
EXTENDS LedgerRows, Naturals, FiniteSets

CONSTANTS
  Sessions,     \* shopping sessions; the intent id is "intent_" + session id
  Keys,         \* idempotency keys: one confirmed cart of one session
  SessionOf,    \* the session a key belongs to
  TotalOf,      \* the total of the cart a key stands for
  Requests,     \* calls of the handler
  MaxPolls,     \* polls after the first, made before any await (14 in the code)
  LateCreate,
  StaleLookup

ASSUME CreationAssumption ==
  /\ SessionOf \in [Keys -> Sessions]
  /\ TotalOf \in [Keys -> Amounts]
  /\ None \notin Keys
  /\ MaxPolls \in Nat
  /\ LateCreate \in BOOLEAN
  /\ StaleLookup \in BOOLEAN
  /\ "refused" \notin OrderIds
  /\ None # "refused"

VARIABLES
  ledger,         \* LEDGER
  confirmed,      \* per session: the key of the cart last confirmed
  authorization,  \* per session: session.authorization
  pc, session, key,
  origin,         \* per request: why it asks Razorpay about its order
  answer,         \* per request: Razorpay's answer to that question, in flight
  made,           \* per request: the order Razorpay made for its POST
  polls,
  reply,          \* per request: the response sent
  orders,         \* Razorpay: the key each order was created for
  late,           \* keys with an abandoned POST that may still be carried out
  issued          \* history: authorizations issued per key

sessionVars == <<confirmed, authorization, issued>>
razorpayVars == <<orders, late>>
callVars == <<session, key, origin, answer, made, polls>>
vars == <<ledger, sessionVars, pc, callVars, reply, razorpayVars>>

Awaits == {"idle", "reread", "posting", "lookup", "answered", "polling", "done"}

\* The transaction an authorization is signed for and the cart hash in it.
Authorization == [transaction : Keys, cart : Keys \cup {None}]

\* A response: an HTTP status and, for 200, the order and authorization in it.
Reply == [code : {200, 409, 500, 502}, order : OrderIds \cup {None},
          authorization : Authorization \cup {None}]

Refusal(code) == [code |-> code, order |-> None, authorization |-> None]

Init ==
  /\ ledger = [k \in Keys |-> Absent]
  /\ confirmed = [s \in Sessions |-> None]
  /\ authorization = [s \in Sessions |-> None]
  /\ pc = [r \in Requests |-> "idle"]
  /\ session \in [Requests -> Sessions]
  /\ key = [r \in Requests |-> None]
  /\ origin = [r \in Requests |-> "entry"]
  /\ answer = [r \in Requests |-> None]
  /\ made = [r \in Requests |-> None]
  /\ polls = [r \in Requests |-> 0]
  /\ reply = [r \in Requests |-> None]
  /\ orders = [o \in OrderIds |-> None]
  /\ late = {}
  /\ issued = [k \in Keys |-> 0]

-----------------------------------------------------------------------------
(* The ends of a call.                                                      *)

Respond(r, row, auth) ==
  /\ pc' = [pc EXCEPT ![r] = "done"]
  /\ reply' = [reply EXCEPT ![r] =
       [code |-> 200, order |-> row.order, authorization |-> auth]]

Refuse(r, code) ==
  /\ pc' = [pc EXCEPT ![r] = "done"]
  /\ reply' = [reply EXCEPT ![r] = Refusal(code)]

\* _issue_session_authorization: signed for key k, with whatever cart hash is the
\* session's confirmed one by now, and kept on the session.  A session whose
\* request is being clarified has no intent to read: the call ends in a 500.
IssueAndRespond(r, k, row) ==
  LET s == session[r]
      auth == [transaction |-> k, cart |-> confirmed[s]]
  IN  \/ /\ authorization' = [authorization EXCEPT ![s] = auth]
         /\ issued' = [issued EXCEPT ![k] = @ + 1]
         /\ UNCHANGED confirmed
         /\ Respond(r, row, auth)
      \/ /\ confirmed[s] = None
         /\ Refuse(r, 500)
         /\ UNCHANGED sessionVars

\* The row is at hand and nothing is in doubt any more: win the claim and send the
\* POST, wait for whoever holds the claim, or answer with what the row has.
Proceed(r, k, row) ==
  /\ UNCHANGED sessionVars
  /\ IF row.order = None /\ row.status = "pending"
     THEN \/ /\ WinsCreation(row)
             /\ ledger' = [ledger EXCEPT ![k] = ClaimOrderCreation(row)]
             /\ pc' = [pc EXCEPT ![r] = "posting"]
             /\ UNCHANGED reply
          \/ \* the capability just minted is refused: the claim is released
             /\ WinsCreation(row)
             /\ ledger' = [ledger EXCEPT ![k] =
                  ResolveUnknown(MarkUnknown(ClaimOrderCreation(row)), None)]
             /\ Refuse(r, 500)
          \/ /\ ~WinsCreation(row)
             /\ ledger' = [ledger EXCEPT ![k] = row]
             /\ pc' = [pc EXCEPT ![r] = "polling"]
             /\ UNCHANGED reply
     ELSE /\ ledger' = [ledger EXCEPT ![k] = row]
          /\ Respond(r, row, authorization[session[r]])
-----------------------------------------------------------------------------
(* The session and the call's own steps.                                    *)

\* The buyer confirms a cart of this session; possibly not the first one.
Confirm(k) ==
  /\ confirmed' = [confirmed EXCEPT ![SessionOf[k]] = k]
  /\ UNCHANGED <<ledger, authorization, issued, pc, callVars, reply, razorpayVars>>

\* continue_session: a further message recompiles the request, on which nothing is
\* confirmed; the session's authorization stays.
Revise(s) ==
  /\ confirmed' = [confirmed EXCEPT ![s] = None]
  /\ UNCHANGED <<ledger, authorization, issued, pc, callVars, reply, razorpayVars>>

\* 409 "confirm the cart before starting payment" is a call that never starts.
Start(r) ==
  /\ pc[r] = "idle"
  /\ confirmed[session[r]] # None
  /\ pc' = [pc EXCEPT ![r] = "reread"]
  /\ UNCHANGED <<ledger, sessionVars, callVars, reply, razorpayVars>>

\* The merchant cannot be reached, or a gate refuses the cart that was re-read.
RefuseCart(r) ==
  /\ pc[r] = "reread"
  /\ Refuse(r, 502) \/ Refuse(r, 409)
  /\ UNCHANGED <<ledger, sessionVars, callVars, razorpayVars>>

\* The gates pass (none does for a purchase already captured) and the row is
\* claimed.  The key is that of the cart confirmed by now.
ClaimRow(r) ==
  LET k == confirmed[session[r]]
      row == ClaimOrder(ledger[k], TotalOf[k])
  IN  /\ pc[r] = "reread"
      /\ k # None
      /\ ledger[k].status # "captured"
      /\ key' = [key EXCEPT ![r] = k]
      /\ IF row.status = "unknown"
         THEN /\ origin' = [origin EXCEPT ![r] = "entry"]
              /\ pc' = [pc EXCEPT ![r] = "lookup"]
              /\ UNCHANGED <<ledger, sessionVars, reply>>
         ELSE /\ Proceed(r, k, row)
              /\ UNCHANGED origin
      /\ UNCHANGED <<session, answer, made, polls, razorpayVars>>

\* POST /orders succeeds.
PostSucceeds(r) ==
  LET k == key[r]
      row == AttachOrder(ledger[k], made[r])
  IN  /\ pc[r] = "posting"
      /\ made[r] # None
      /\ ledger' = [ledger EXCEPT ![k] = row]
      /\ IssueAndRespond(r, k, row)
      /\ UNCHANGED <<callVars, razorpayVars>>

\* POST /orders times out, is refused, or its response is lost; or anything else
\* fails before it.
PostFails(r) ==
  LET k == key[r]
  IN  /\ pc[r] = "posting"
      /\ ledger' = [ledger EXCEPT ![k] = MarkUnknown(@)]
      /\ pc' = [pc EXCEPT ![r] = "lookup"]
      /\ origin' = [origin EXCEPT ![r] = "post"]
      /\ late' = IF LateCreate /\ made[r] = None THEN late \cup {k} ELSE late
      /\ UNCHANGED <<sessionVars, session, key, answer, made, polls, reply, orders>>

\* _resolve_unknown_order has come back, the row now being "row".
AfterLookup(r, row) ==
  LET k == key[r]
  IN  IF origin[r] = "entry"
      THEN Proceed(r, k, row)
      ELSE /\ ledger' = [ledger EXCEPT ![k] = row]
           /\ IF row.order = None
              THEN (Refuse(r, 500) \/ Refuse(r, 502)) /\ UNCHANGED sessionVars
              ELSE IssueAndRespond(r, k, row)
-----------------------------------------------------------------------------
(* Razorpay.                                                                *)

\* The receipt sent and looked up is the key cut to 40 characters: merchant and
\* the head of the intent id survive, the cart hash does not.
Receipt(k) == SessionOf[k]

\* The receipt left out of the query, and the first item taken.
LookupNewest(k) ==
  IF \E o \in OrderIds : orders[o] # None
  THEN CHOOSE o \in OrderIds : orders[o] # None
  ELSE None

\* GET /orders?receipt: "refused" when more than one order matches.
LookupByReceipt(k) ==
  LET matches == {o \in OrderIds : orders[o] # None /\ Receipt(orders[o]) = Receipt(k)}
  IN  IF matches = {} THEN None
      ELSE IF \E o \in matches : matches = {o}
           THEN CHOOSE o \in matches : TRUE
           ELSE "refused"

\* Razorpay carries out a POST its sender is still waiting for.
RazorpayCreates(r) ==
  /\ pc[r] = "posting"
  /\ made[r] = None
  /\ \E o \in OrderIds :
       /\ orders[o] = None
       /\ orders' = [orders EXCEPT ![o] = key[r]]
       /\ made' = [made EXCEPT ![r] = o]
  /\ UNCHANGED <<ledger, sessionVars, pc, session, key, origin, answer, polls, reply, late>>

\* Razorpay carries out a POST its sender has given up on.
RazorpayCreatesLate(k) ==
  /\ k \in late
  /\ late' = late \ {k}
  /\ \E o \in OrderIds :
       /\ orders[o] = None
       /\ orders' = [orders EXCEPT ![o] = k]
  /\ UNCHANGED <<ledger, sessionVars, pc, callVars, reply>>

Resolution(r, found) ==
  /\ AfterLookup(r, IF found = "refused" THEN ledger[key[r]]
                    ELSE ResolveUnknown(ledger[key[r]], found))
  /\ UNCHANGED <<callVars, razorpayVars>>

\* The lookup itself fails: the row is left as it is.
LookupFails(r) ==
  /\ pc[r] \in {"lookup", "answered"}
  /\ Resolution(r, "refused")

\* The lookup answers, and the answer is still true when it is acted on.
Resolve(r) ==
  /\ ~StaleLookup
  /\ pc[r] = "lookup"
  /\ Resolution(r, LookupByReceipt(key[r]))

\* Razorpay answers; the answer travels back.
RazorpayAnswers(r) ==
  /\ StaleLookup
  /\ pc[r] = "lookup"
  /\ pc' = [pc EXCEPT ![r] = "answered"]
  /\ answer' = [answer EXCEPT ![r] = LookupByReceipt(key[r])]
  /\ UNCHANGED <<ledger, sessionVars, session, key, origin, made, polls, reply, razorpayVars>>

ResolveStale(r) ==
  /\ pc[r] = "answered"
  /\ Resolution(r, answer[r])
-----------------------------------------------------------------------------
(* The loser of the claim, and everything else that moves the row.          *)

\* A loop with no bound.
PollForever(r) ==
  LET row == ledger[key[r]]
      auth == authorization[session[r]]
      finished == row.status = "captured" \/ (row.order # None /\ auth # None)
  IN  /\ pc[r] = "polling"
      /\ finished
      /\ Respond(r, row, auth)
      /\ UNCHANGED <<ledger, sessionVars, callVars, razorpayVars>>

Poll(r) ==
  LET row == ledger[key[r]]
      auth == authorization[session[r]]
      finished == row.status = "captured" \/ (row.order # None /\ auth # None)
  IN  /\ pc[r] = "polling"
      /\ \/ /\ finished \/ polls[r] = MaxPolls
            /\ IF row.order = None /\ row.status # "captured"
               THEN Refuse(r, 409)
               ELSE Respond(r, row, auth)
            /\ UNCHANGED polls
         \/ /\ ~finished
            /\ polls[r] < MaxPolls
            /\ polls' = [polls EXCEPT ![r] = @ + 1]
            /\ UNCHANGED <<pc, reply>>
      /\ UNCHANGED <<ledger, sessionVars, session, key, origin, answer, made, razorpayVars>>

\* A payment of the row's order is verified, by the browser or by a webhook: both
\* find the row by an order id it carries.
Captured(k) ==
  /\ ledger[k].order # None
  /\ \E p \in PaymentIds :
       ledger' = [ledger EXCEPT ![k] = FinalizeIfPending(@, p, TotalOf[k])]
  /\ UNCHANGED <<sessionVars, pc, callVars, reply, razorpayVars>>

Continue(r) ==
  \/ RefuseCart(r) \/ ClaimRow(r)
  \/ PostSucceeds(r) \/ PostFails(r)
  \/ LookupFails(r) \/ Resolve(r) \/ ResolveStale(r)
  \/ Poll(r)

Next ==
  \/ \E r \in Requests :
       Start(r) \/ Continue(r) \/ RazorpayCreates(r) \/ RazorpayAnswers(r)
  \/ \E k \in Keys : Confirm(k) \/ RazorpayCreatesLate(k) \/ Captured(k)
  \/ \E s \in Sessions : Revise(s)

Spec == Init /\ [][Next]_vars

\* The event loop resumes a call whose await has ended, and every await of this
\* handler ends: an HTTP call in a response or a timeout (20 s), a sleep by itself.
\* Nothing obliges Razorpay, the buyer or a further call to do anything.
FairSpec == Spec /\ \A r \in Requests : WF_vars(Continue(r))

-----------------------------------------------------------------------------
TypeOK ==
  /\ ledger \in [Keys -> LedgerEntry]
  /\ confirmed \in [Sessions -> Keys \cup {None}]
  /\ authorization \in [Sessions -> Authorization \cup {None}]
  /\ pc \in [Requests -> Awaits]
  /\ session \in [Requests -> Sessions]
  /\ key \in [Requests -> Keys \cup {None}]
  /\ origin \in [Requests -> {"entry", "post"}]
  /\ answer \in [Requests -> OrderIds \cup {None, "refused"}]
  /\ made \in [Requests -> OrderIds \cup {None}]
  /\ polls \in [Requests -> 0 .. MaxPolls]
  /\ reply \in [Requests -> Reply \cup {None}]
  /\ orders \in [OrderIds -> Keys \cup {None}]
  /\ late \subseteq Keys
  /\ issued \in [Keys -> Nat]

Posting(r, k) == pc[r] = "posting" /\ key[r] = k

\* However calls, timeouts, stale answers and releases interleave, no two calls are
\* ever in the middle of POST /orders for one key (ledger.py: "exactly one caller
\* may ever attempt the Razorpay call for a given key at a time").
OnePoster ==
  \A k \in Keys : \A r, q \in Requests :
    Posting(r, k) /\ Posting(q, k) => r = q

\* A claim on a purchase that has no order is always in somebody's hands: a call is
\* posting, or the row is UNKNOWN and the next call asks Razorpay.  No way through
\* the handler strands it (app.py: "every exception path resolves or releases the
\* claim before returning control").
NoStrandedClaim ==
  \A k \in Keys :
    ledger[k].status = "pending" /\ ledger[k].claimed /\ ledger[k].order = None
      => \E r \in Requests : Posting(r, k)

\* Two calls for one cart that both answer with an order answer with the same one
\* (create_payment_order: "returns the SAME Razorpay order"), and it is the order
\* of the row for good.
SameOrderReturned ==
  \A r \in Requests :
    pc[r] = "done" /\ reply[r].order # None => reply[r].order = ledger[key[r]].order

\* The order on a purchase's row is one Razorpay created for that purchase, never
\* another cart's (razorpay_client.py: "a receipt is our own idempotency key and
\* should be unique").
OrderIsOwn ==
  \A k \in Keys : ledger[k].order # None => orders[ledger[k].order] = k

\* Razorpay never makes two orders for one purchase (ledger.py: a retried "create
\* order" call must return the SAME Razorpay order, "never a second one").
OneOrderPerKey ==
  \A o, p \in OrderIds : orders[o] # None /\ orders[o] = orders[p] => o = p

\* A call that answers 200 hands out an order: an uncertain outcome is "never a
\* false 200" (tests/test_payment_flow.py).
NoFalse200 ==
  \A r \in Requests :
    pc[r] = "done" /\ reply[r].code = 200 => reply[r].order # None

\* An order handed out is covered by an authorization issued for its purchase
\* (_issue_session_authorization: "Issued exactly once per idempotency key, right
\* alongside the Razorpay order it covers").
OrderIsAuthorized ==
  \A r \in Requests :
    pc[r] = "done" /\ reply[r].order # None => issued[key[r]] >= 1

\* A call that has started is answered, whatever Razorpay and the other calls do.
Answered == \A r \in Requests : pc[r] = "reread" ~> pc[r] = "done"

\* The handler keeps what a purchase promises: every step of it, a claim won and
\* released at once included, is one step of Purchase or none.
Promise == INSTANCE Purchase WITH
  phase <- [k \in Keys |->
              CASE ledger[k].status = "absent" -> "absent"
                [] ledger[k].status = "pending" -> "open"
                [] ledger[k].status = "unknown" -> "doubt"
                [] ledger[k].status = "captured" -> "paid"],
  order <- [k \in Keys |-> ledger[k].order],
  payment <- [k \in Keys |-> ledger[k].payment]

KeepsPromise == Promise!Spec
=============================================================================
