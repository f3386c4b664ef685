--------------------------- MODULE Capture_proofs ---------------------------
(***************************************************************************)
(* What capturing a payment promises, for any number of sessions, carts,   *)
(* calls, orders and payments, with restarts and a running clock.          *)
(*                                                                         *)
(* A first invariant, Flow, holds without further ado: a fetching call     *)
(* keeps a payment signed for the order of its row, which is never         *)
(* replaced.  What money and history are about (Money) needs in addition   *)
(* that a session has one cart (OneCart), so that an order its receipt     *)
(* finds is the order of that very cart (OwnOrder).                        *)
(***************************************************************************)
EXTENDS Capture, SequenceTheorems, TLAPS

\* A row that is never UNKNOWN here; it has an order before it is captured.
Shaped(row) ==
  /\ row.status # "unknown"
  /\ row.status = "absent" => row.order = None /\ row.payment = None
  /\ row.status = "captured" => row.order # None /\ row.payment \in PaymentIds

\* A call that fetches has a payment of its row's order; its session is alive.
Fetching ==
  \A c \in Calls : pc[c] = "fetching" =>
    /\ call[c].key \in Keys /\ call[c].payment \in PaymentIds
    /\ ledger[call[c].key].order # None
    /\ Signed(ledger[call[c].key], call[c].payment)
    /\ SessionOf[call[c].key] \in alive

\* What a session holds is its own.
OwnCarts ==
  \A s \in Sessions :
    /\ selected[s] # None => SessionOf[selected[s]] = s
    /\ confirmed[s] # None => SessionOf[confirmed[s]] = s
    /\ authorization[s] # None => SessionOf[authorization[s]] = s

Flow == TypeOK /\ (\A k \in Keys : Shaped(ledger[k])) /\ Fetching /\ OwnCarts

\* A payment Razorpay took for the order of k's row, in the amount of a row of that order.
Pays(p, k) ==
  /\ payments[p] # None /\ payments[p].status \in {"captured", "refunded"}
  /\ payments[p].order = ledger[k].order
  /\ \E j \in Keys : ledger[j].order = ledger[k].order /\ payments[p].amount = ledger[j].amount

\* All that the handlers do to the ledger: one statement on one row.
Statement(k, row) ==
  \/ row = Reject(ledger[k])
  \/ ledger[k].status = "absent" /\ row = ClaimOrder(ledger[k], TotalOf[k])
  \/ /\ ledger[k].status = "pending" /\ ledger[k].order = None
     /\ \E o \in OrderIds : Attachable(k, o) /\ row = AttachOrder(ledger[k], o)
  \/ /\ ledger[k].order # None
     /\ \E p \in PaymentIds : /\ Pays(p, k)
                              /\ row = FinalizeIfPending(ledger[k], p, payments[p].amount)

-----------------------------------------------------------------------------
LEMMA StatementIsARow ==
  ASSUME Flow, NEW k \in Keys, NEW row, Statement(k, row)
  PROVE  row \in LedgerEntry /\ Shaped(row)
<1>1. ledger[k] \in LedgerEntry /\ Shaped(ledger[k])
  BY DEF Flow, TypeOK
<1>2. CASE row = Reject(ledger[k])
  <2>1. row \in LedgerEntry
    BY <1>1, <1>2 DEF Reject, LedgerEntry
  <2> QED BY <1>1, <1>2, <2>1 DEF Reject, Shaped, LedgerEntry
<1>3. CASE ledger[k].status = "absent" /\ row = ClaimOrder(ledger[k], TotalOf[k])
  <2>1. row \in LedgerEntry
    BY <1>1, <1>3, CaptureAssumption DEF ClaimOrder, Absent, LedgerEntry, Status
  <2>2. row.status = "pending"
    BY <1>3 DEF ClaimOrder, Absent
  <2> QED BY <2>1, <2>2 DEF Shaped
<1>4. ASSUME ledger[k].status = "pending", NEW o \in OrderIds, row = AttachOrder(ledger[k], o)
      PROVE  row \in LedgerEntry /\ Shaped(row)
  <2>1. row \in LedgerEntry
    BY <1>1, <1>4 DEF AttachOrder, LedgerEntry
  <2>2. row.status = "pending"
    BY <1>1, <1>4 DEF AttachOrder, LedgerEntry
  <2> QED BY <2>1, <2>2 DEF Shaped
<1>5. ASSUME ledger[k].order # None, NEW p \in PaymentIds, payments[p] # None,
             row = FinalizeIfPending(ledger[k], p, payments[p].amount)
      PROVE  row \in LedgerEntry /\ Shaped(row)
  <2>1. payments[p].amount \in Amounts
    BY <1>5 DEF Flow, TypeOK, Payment
  <2>2. row \in LedgerEntry
    BY <1>1, <1>5, <2>1 DEF FinalizeIfPending, WinsFinalize, LedgerEntry, Status
  <2>3. /\ row.order # None /\ row.status \notin {"absent", "unknown"}
        /\ row.status = "captured" => row.payment \in PaymentIds
    BY <1>1, <1>5 DEF FinalizeIfPending, WinsFinalize, LedgerEntry, Shaped
  <2> QED BY <2>2, <2>3 DEF Shaped
<1> QED BY <1>2, <1>3, <1>4, <1>5 DEF Statement, Pays

\* The order of a row, once it has one, stays; so does a captured row.
LEMMA StatementKeeps ==
  ASSUME Flow, NEW k \in Keys, NEW row, Statement(k, row)
  PROVE  /\ ledger[k].order # None => row.order = ledger[k].order
         /\ ledger[k].status = "captured" =>
              /\ row.status = "captured" /\ row.payment = ledger[k].payment
              /\ row.captured = ledger[k].captured /\ row.amount = ledger[k].amount
<1>1. ledger[k] \in LedgerEntry /\ Shaped(ledger[k])
  BY DEF Flow, TypeOK
<1> QED BY <1>1 DEF Statement, Shaped, Reject, ClaimOrder, AttachOrder, FinalizeIfPending,
                    WinsFinalize, LedgerEntry

\* _finalize_capture for a row with an order.
LEMMA FinalizeIsAStatement ==
  ASSUME Flow, NEW s \in Sessions, NEW k \in Keys, NEW p \in PaymentIds,
         ledger[k].order # None, Pays(p, k), FinalizeCapture(s, k, p)
  PROVE  \E row : Statement(k, row) /\ ledger' = [ledger EXCEPT ![k] = row]
BY DEF FinalizeCapture, Statement

LEMMA FoundOrders ==
  ASSUME Flow, NEW p \in PaymentIds, NEW k \in Keys, NEW found \in Sessions \cup {None},
         Correlates(p, k, found)
  PROVE  /\ payments[p] \in Payment /\ payments[p].status \in {"captured", "refunded"}
         /\ ledger[k].order = payments[p].order /\ ledger[k].order # None
         /\ ledger[k].status = "pending"
         /\ found # None =>
              /\ found \in alive /\ confirmed[found] \in Keys
              /\ ledger[confirmed[found]].order = payments[p].order
<1>1. payments[p] \in Payment /\ ledger[k] \in LedgerEntry /\ Shaped(ledger[k])
  BY DEF Flow, TypeOK, Correlates
<1>2. ledger[k].order = payments[p].order /\ ledger[k].status # "captured"
      /\ payments[p].status # "authorized"
  BY DEF Correlates, RowsOf
<1>3. payments[p].order # None
  BY <1>1, NoneIsNoId DEF Payment
<1>4. found # None => found \in SessionsOf(payments[p].order)
  BY DEF Correlates
<1>5. \A s \in Sessions : confirmed[s] \in Keys \cup {None}
  BY DEF Flow, TypeOK, Cart
<1>6. found # None => /\ found \in alive /\ confirmed[found] \in Keys
                      /\ ledger[confirmed[found]].order = payments[p].order
  BY <1>4, <1>5 DEF SessionsOf, Flow, TypeOK
<1> QED BY <1>1, <1>2, <1>3, <1>6 DEF Payment, Shaped, LedgerEntry, Status

LEMMA LedgerSteps ==
  ASSUME Flow, [Next]_vars
  PROVE  \/ ledger' = ledger
         \/ \E k \in Keys : \E row : Statement(k, row) /\ ledger' = [ledger EXCEPT ![k] = row]
<1> DEFINE Goal == \/ ledger' = ledger
                   \/ \E k \in Keys : \E row : /\ Statement(k, row)
                                              /\ ledger' = [ledger EXCEPT ![k] = row]
<1>1. CASE UNCHANGED vars
  BY <1>1 DEF vars, databases
<1>2. CASE Tick \/ Restart
  BY <1>2 DEF Tick, Restart, databases
<1>3. ASSUME NEW k \in Keys, Select(k) \/ RazorpayCreates(k)
      PROVE  Goal
  BY <1>3 DEF Select, RazorpayCreates, databases
<1>4. ASSUME NEW k \in Keys, AttachOrderTo(k)
      PROVE  Goal
  BY <1>4 DEF AttachOrderTo, Statement
<1>5. ASSUME NEW s \in Sessions, Confirm(s) \/ Revise(s)
      PROVE  Goal
  BY <1>5 DEF Confirm, Revise, databases
<1>6. ASSUME NEW s \in Sessions, ClaimRow(s)
      PROVE  Goal
  <2>1. confirmed[s] \in Keys
    BY <1>6 DEF ClaimRow, Flow, TypeOK, Cart
  <2> QED BY <1>6, <2>1 DEF ClaimRow, Statement
<1>7. ASSUME NEW p \in PaymentIds, Pay(p) \/ RazorpayCaptures(p) \/ Refund(p)
      PROVE  Goal
  BY <1>7 DEF Pay, RazorpayCaptures, Refund, Advance, databases
<1>8. ASSUME NEW p \in PaymentIds, WebhookRejects(p)
      PROVE  Goal
  BY <1>8 DEF WebhookRejects, RejectRow, Statement
<1>9. ASSUME NEW p \in PaymentIds, WebhookCaptures(p)
      PROVE  Goal
  <2>1. PICK k \in Keys, found \in Sessions \cup {None} :
          /\ Correlates(p, k, found) /\ GatesAllow(p, k, found)
          /\ IF found # None
             THEN FinalizeCapture(found, confirmed[found], p)
             ELSE ledger' = [ledger EXCEPT ![k] =
                               FinalizeIfPending(ledger[k], p, payments[p].amount)]
    BY <1>9 DEF WebhookCaptures
  <2>2. /\ Pays(p, k) /\ ledger[k].order # None
        /\ found # None => /\ confirmed[found] \in Keys /\ ledger[confirmed[found]].order # None
                           /\ Pays(p, confirmed[found])
    <3>1. payments[p].amount = ledger[k].amount
      BY <1>9, <2>1 DEF GatesAllow
    <3> QED BY <2>1, <3>1, FoundOrders DEF Correlates, Pays
  <2>3. CASE found # None
    BY <2>1, <2>2, <2>3, FinalizeIsAStatement
  <2>4. CASE found = None
    BY <2>1, <2>2, <2>4 DEF Statement
  <2> QED BY <2>3, <2>4
<1>10. ASSUME NEW p \in PaymentIds, RestartAfterClaim(p)
      PROVE  Goal
  BY <1>10 DEF RestartAfterClaim
<1>11. ASSUME NEW c \in Calls, NEW s \in Sessions, NEW p \in PaymentIds, Verify(c, s, p)
       PROVE  Goal
  <2>1. confirmed[s] \in Keys
    BY <1>11 DEF Verify, Flow, TypeOK, Cart
  <2> QED BY <1>11, <2>1 DEF Verify, RejectRow, Statement
<1>12. ASSUME NEW c \in Calls, VerifyRejects(c)
       PROVE  Goal
  BY <1>12 DEF VerifyRejects, RejectRow, Statement, Flow, Fetching
<1>13. ASSUME NEW c \in Calls, VerifyCaptures(c)
       PROVE  Goal
  <2>1. /\ call[c].key \in Keys /\ call[c].payment \in PaymentIds
        /\ ledger[call[c].key].order # None /\ Pays(call[c].payment, call[c].key)
        /\ SessionOf[call[c].key] \in Sessions
    BY <1>13, CaptureAssumption DEF VerifyCaptures, Acceptable, Flow, Fetching, Signed, Pays
  <2> QED BY <1>13, <2>1, FinalizeIsAStatement DEF VerifyCaptures
<1> QED BY <1>1, <1>2, <1>3, <1>4, <1>5, <1>6, <1>7, <1>8, <1>9, <1>10, <1>11, <1>12, <1>13
        DEF Next

LEMMA LedgerKept ==
  ASSUME Flow, [Next]_vars
  PROVE  /\ ledger' \in [Keys -> LedgerEntry]
         /\ \A k \in Keys : Shaped(ledger'[k])
         /\ \A k \in Keys : ledger[k].order # None => ledger'[k].order = ledger[k].order
         /\ \A k \in Keys : ledger[k].status = "captured" =>
              /\ ledger'[k].status = "captured" /\ ledger'[k].payment = ledger[k].payment
              /\ ledger'[k].captured = ledger[k].captured /\ ledger'[k].amount = ledger[k].amount
<1>1. ledger \in [Keys -> LedgerEntry] /\ \A k \in Keys : Shaped(ledger[k])
  BY DEF Flow, TypeOK
<1>2. CASE ledger' = ledger
  BY <1>1, <1>2
<1>3. ASSUME NEW k \in Keys, NEW row, Statement(k, row), ledger' = [ledger EXCEPT ![k] = row]
      PROVE  /\ ledger' \in [Keys -> LedgerEntry]
             /\ \A j \in Keys : Shaped(ledger'[j])
             /\ \A j \in Keys : ledger[j].order # None => ledger'[j].order = ledger[j].order
             /\ \A j \in Keys : ledger[j].status = "captured" =>
                  /\ ledger'[j].status = "captured" /\ ledger'[j].payment = ledger[j].payment
                  /\ ledger'[j].captured = ledger[j].captured
                  /\ ledger'[j].amount = ledger[j].amount
  <2>1. row \in LedgerEntry /\ Shaped(row)
    BY <1>3, StatementIsARow
  <2>2. ledger'[k] = row /\ \A j \in Keys : j # k => ledger'[j] = ledger[j]
    BY <1>1, <1>3
  <2>3. ledger' \in [Keys -> LedgerEntry]
    BY <1>1, <1>3, <2>1
  <2>4. \A j \in Keys : Shaped(ledger'[j])
    BY <1>1, <2>1, <2>2
  <2>5. \A j \in Keys : ledger[j].order # None => ledger'[j].order = ledger[j].order
    BY <1>3, <2>2, StatementKeeps
  <2>6. \A j \in Keys : ledger[j].status = "captured" =>
          /\ ledger'[j].status = "captured" /\ ledger'[j].payment = ledger[j].payment
          /\ ledger'[j].captured = ledger[j].captured /\ ledger'[j].amount = ledger[j].amount
    BY <1>3, <2>2, StatementKeeps
  <2> QED BY <2>3, <2>4, <2>5, <2>6
<1> QED BY <1>2, <1>3, LedgerSteps

\* Razorpay's records: an order stays its purchase's, a payment its order's.
LEMMA RazorpayKept ==
  ASSUME Flow, [Next]_vars
  PROVE  /\ orders' \in [OrderIds -> Cart] /\ payments' \in [PaymentIds -> Payment \cup {None}]
         /\ \A o \in OrderIds : orders[o] # None => orders'[o] = orders[o]
         /\ \A p \in PaymentIds : payments[p] # None =>
              /\ payments'[p] # None
              /\ payments'[p].order = payments[p].order
              /\ payments'[p].amount = payments[p].amount
              /\ payments[p].status \in {"captured", "refunded"} =>
                   payments'[p].status \in {"captured", "refunded"}
<1>1. orders \in [OrderIds -> Cart] /\ payments \in [PaymentIds -> Payment \cup {None}]
  BY DEF Flow, TypeOK
<1>2. CASE UNCHANGED razorpayVars
  BY <1>1, <1>2 DEF razorpayVars
<1>3. ASSUME NEW k \in Keys, NEW o \in OrderIds, orders[o] = None, payments' = payments,
             orders' = [orders EXCEPT ![o] = k]
      PROVE  /\ orders' \in [OrderIds -> Cart]
             /\ \A q \in OrderIds : orders[q] # None => orders'[q] = orders[q]
  BY <1>1, <1>3 DEF Cart
<1>4. ASSUME NEW p \in PaymentIds, NEW record \in Payment, orders' = orders,
             payments' = [payments EXCEPT ![p] = record],
             payments[p] # None =>
               /\ record.order = payments[p].order /\ record.amount = payments[p].amount
               /\ record.status \in {"captured", "refunded"}
      PROVE  /\ payments' \in [PaymentIds -> Payment \cup {None}]
             /\ \A q \in PaymentIds : payments[q] # None =>
                  /\ payments'[q] # None
                  /\ payments'[q].order = payments[q].order
                  /\ payments'[q].amount = payments[q].amount
                  /\ payments[q].status \in {"captured", "refunded"} =>
                       payments'[q].status \in {"captured", "refunded"}
  BY <1>1, <1>4, CaptureAssumption
<1>5. ASSUME NEW k \in Keys, RazorpayCreates(k)
      PROVE  \E o \in OrderIds : /\ orders[o] = None /\ payments' = payments
                                /\ orders' = [orders EXCEPT ![o] = k]
  BY <1>5 DEF RazorpayCreates
<1>6. ASSUME NEW p \in PaymentIds, Pay(p)
      PROVE  \E record \in Payment : /\ orders' = orders /\ payments[p] = None
                                    /\ payments' = [payments EXCEPT ![p] = record]
  <2>1. PICK o \in OrderIds, a \in Amounts :
          payments' = [payments EXCEPT ![p] = [order |-> o, amount |-> a, status |-> "authorized"]]
    BY <1>6 DEF Pay
  <2>2. [order |-> o, amount |-> a, status |-> "authorized"] \in Payment
    BY DEF Payment
  <2> QED BY <1>6, <2>1, <2>2 DEF Pay
<1>7. ASSUME NEW p \in PaymentIds, RazorpayCaptures(p) \/ Refund(p)
      PROVE  \E record \in Payment :
               /\ orders' = orders /\ payments' = [payments EXCEPT ![p] = record]
               /\ record.order = payments[p].order /\ record.amount = payments[p].amount
               /\ record.status \in {"captured", "refunded"}
  <2>1. payments[p] \in Payment
    BY <1>1, <1>7 DEF RazorpayCaptures, Refund, Advance
  <2>2. PICK status \in {"captured", "refunded"} :
          payments' = [payments EXCEPT ![p].status = status] /\ orders' = orders
    BY <1>7 DEF RazorpayCaptures, Refund, Advance
  <2>3. [payments[p] EXCEPT !.status = status] \in Payment
    BY <2>1, <2>2 DEF Payment
  <2>4. payments' = [payments EXCEPT ![p] = [payments[p] EXCEPT !.status = status]]
    BY <2>2
  <2>5. /\ [payments[p] EXCEPT !.status = status].order = payments[p].order
        /\ [payments[p] EXCEPT !.status = status].amount = payments[p].amount
        /\ [payments[p] EXCEPT !.status = status].status = status
    BY <2>1 DEF Payment
  <2> QED BY <2>2, <2>3, <2>4, <2>5
<1>8. \/ UNCHANGED razorpayVars \/ \E k \in Keys : RazorpayCreates(k)
      \/ \E p \in PaymentIds : Pay(p) \/ RazorpayCaptures(p) \/ Refund(p)
  BY DEF Next, vars, Tick, Restart, Select, AttachOrderTo, Confirm, Revise, ClaimRow,
         WebhookRejects, WebhookCaptures, RestartAfterClaim, Verify, VerifyRejects, VerifyCaptures
<1>9. CASE \E k \in Keys : RazorpayCreates(k)
  <2>1. payments' = payments
    BY <1>9 DEF RazorpayCreates
  <2> QED BY <1>1, <1>3, <1>5, <1>9, <2>1
<1>10. CASE \E p \in PaymentIds : Pay(p)
  <2>1. orders' = orders
    BY <1>10 DEF Pay
  <2> QED BY <1>1, <1>4, <1>6, <1>10, <2>1
<1>11. CASE \E p \in PaymentIds : RazorpayCaptures(p) \/ Refund(p)
  <2>1. orders' = orders
    BY <1>11 DEF RazorpayCaptures, Refund, Advance
  <2> QED BY <1>1, <1>4, <1>7, <1>11, <2>1
<1> QED BY <1>2, <1>8, <1>9, <1>10, <1>11

\* The sessions, and what of them a step can change.
LEMMA SessionsKept ==
  ASSUME Flow, [Next]_vars
  PROVE  /\ alive' \subseteq alive
         /\ selected' \in [Sessions -> Cart] /\ confirmed' \in [Sessions -> Cart]
         /\ authorization' \in [Sessions -> Cart] /\ OwnCarts'
<1>1. /\ alive \subseteq Sessions /\ selected \in [Sessions -> Cart]
      /\ confirmed \in [Sessions -> Cart] /\ authorization \in [Sessions -> Cart] /\ OwnCarts
  BY DEF Flow, TypeOK
<1> DEFINE Goal == /\ alive' \subseteq alive
                   /\ selected' \in [Sessions -> Cart] /\ confirmed' \in [Sessions -> Cart]
                   /\ authorization' \in [Sessions -> Cart] /\ OwnCarts'
<1>2. CASE UNCHANGED sessionVars
  BY <1>1, <1>2 DEF sessionVars, OwnCarts
<1>3. CASE Forget
  BY <1>1, <1>3 DEF Forget, OwnCarts, Cart
<1>4. ASSUME NEW k \in Keys, Select(k)
      PROVE  Goal
  <2>1. SessionOf[k] \in Sessions /\ k # None
    BY CaptureAssumption
  <2> QED BY <1>1, <1>4, <2>1 DEF Select, OwnCarts, Cart
<1>5. ASSUME NEW s \in Sessions, Confirm(s)
      PROVE  Goal
  BY <1>1, <1>5 DEF Confirm, OwnCarts, Cart
<1>6. ASSUME NEW s \in Sessions, Revise(s)
      PROVE  Goal
  BY <1>1, <1>6 DEF Revise, OwnCarts, Cart
<1>7. ASSUME NEW k \in Keys, AttachOrderTo(k)
      PROVE  Goal
  <2>1. SessionOf[k] \in Sessions /\ k # None
    BY CaptureAssumption
  <2>2. /\ UNCHANGED <<alive, selected, confirmed>>
        /\ \/ authorization' = [authorization EXCEPT ![SessionOf[k]] = k]
           \/ authorization' = authorization
    BY <1>7 DEF AttachOrderTo
  <2> QED BY <1>1, <2>1, <2>2 DEF OwnCarts, Cart
<1>8. \/ UNCHANGED sessionVars \/ Forget
      \/ \E k \in Keys : Select(k) \/ AttachOrderTo(k)
      \/ \E s \in Sessions : Confirm(s) \/ Revise(s)
  BY DEF Next, vars, Tick, Restart, RazorpayCreates, ClaimRow, Pay, RazorpayCaptures, Refund,
         Advance, WebhookRejects, WebhookCaptures, RestartAfterClaim, Verify, VerifyRejects,
         VerifyCaptures, sessionVars
<1> QED BY <1>2, <1>3, <1>4, <1>5, <1>6, <1>7, <1>8

\* The calls.
LEMMA CallsKept ==
  ASSUME Flow, [Next]_vars
  PROVE  /\ pc' \in [Calls -> {"idle", "fetching", "done"}]
         /\ call' \in [Calls -> [key : Cart, payment : PaymentIds \cup {None}]]
         /\ Fetching'
<1> DEFINE SignedNext(k, p) == payments'[p] # None /\ payments'[p].order = ledger'[k].order
<1>1. /\ pc \in [Calls -> {"idle", "fetching", "done"}]
      /\ call \in [Calls -> [key : Cart, payment : PaymentIds \cup {None}]]
      /\ confirmed \in [Sessions -> Cart] /\ OwnCarts
  BY DEF Flow, TypeOK
<1>2. \A k \in Keys : ledger[k].order # None => ledger'[k].order = ledger[k].order
  BY LedgerKept
<1>3. \A k \in Keys, p \in PaymentIds :
        Signed(ledger[k], p) /\ ledger[k].order # None => SignedNext(k, p)
  BY <1>2, RazorpayKept DEF Signed
<1>4. \A c \in Calls : pc[c] = "fetching" =>
        /\ call[c].key \in Keys /\ call[c].payment \in PaymentIds
        /\ ledger'[call[c].key].order # None /\ SignedNext(call[c].key, call[c].payment)
        /\ SessionOf[call[c].key] \in alive
  BY <1>2, <1>3 DEF Flow, Fetching
<1>5. CASE UNCHANGED <<alive, pc, call>>
  BY <1>1, <1>4, <1>5 DEF Fetching, Signed
<1>6. CASE Forget
  BY <1>1, <1>6 DEF Forget, Fetching
<1>7. ASSUME NEW c \in Calls, pc' = [pc EXCEPT ![c] = "done"], UNCHANGED <<alive, call>>
      PROVE  Fetching' /\ pc' \in [Calls -> {"idle", "fetching", "done"}]
  BY <1>1, <1>4, <1>7 DEF Fetching, Signed
<1>8. ASSUME NEW c \in Calls, NEW s \in Sessions, NEW p \in PaymentIds, Verify(c, s, p)
      PROVE  /\ pc' \in [Calls -> {"idle", "fetching", "done"}]
             /\ call' \in [Calls -> [key : Cart, payment : PaymentIds \cup {None}]]
             /\ Fetching'
  <2> DEFINE k == confirmed[s]
  <2>1. /\ k \in Keys /\ SessionOf[k] = s /\ s \in alive /\ alive' = alive
        /\ call' = [call EXCEPT ![c] = [key |-> k, payment |-> p]]
    BY <1>1, <1>8 DEF Verify, OwnCarts, Cart, sessionVars
  <2>2. \/ pc' = [pc EXCEPT ![c] = "done"]
        \/ pc' = [pc EXCEPT ![c] = "fetching"] /\ Signed(ledger[k], p)
    BY <1>8 DEF Verify, Answer
  <2>3. Signed(ledger[k], p) => ledger[k].order # None
    <3>1. payments[p] # None => payments[p] \in Payment
      BY DEF Flow, TypeOK
    <3> QED BY <3>1, NoneIsNoId DEF Signed, Payment
  <2>4. Signed(ledger[k], p) => ledger'[k].order # None /\ SignedNext(k, p)
    BY <1>2, <1>3, <2>1, <2>3
  <2>5. /\ pc' \in [Calls -> {"idle", "fetching", "done"}]
        /\ call' \in [Calls -> [key : Cart, payment : PaymentIds \cup {None}]]
    BY <1>1, <2>1, <2>2 DEF Cart
  <2>6. ASSUME NEW d \in Calls, pc'[d] = "fetching"
        PROVE  /\ call'[d].key \in Keys /\ call'[d].payment \in PaymentIds
               /\ ledger'[call'[d].key].order # None
               /\ SignedNext(call'[d].key, call'[d].payment)
               /\ SessionOf[call'[d].key] \in alive'
    <3>1. CASE d = c
      <4>1. call'[d].key = k /\ call'[d].payment = p /\ Signed(ledger[k], p)
        BY <1>1, <2>1, <2>2, <2>6, <3>1
      <4> QED BY <2>1, <2>4, <4>1
    <3>2. CASE d # c
      <4>1. call'[d] = call[d] /\ pc[d] = "fetching"
        BY <1>1, <2>1, <2>2, <2>6, <3>2
      <4> QED BY <1>4, <2>1, <4>1
    <3> QED BY <3>1, <3>2
  <2> QED BY <2>5, <2>6 DEF Fetching, Signed
<1>9. \/ UNCHANGED <<alive, pc, call>> \/ Forget
      \/ \E c \in Calls : pc' = [pc EXCEPT ![c] = "done"] /\ UNCHANGED <<alive, call>>
      \/ \E c \in Calls, s \in Sessions, p \in PaymentIds : Verify(c, s, p)
  BY DEF Next, vars, Tick, Restart, Select, RazorpayCreates, AttachOrderTo, Confirm, Revise,
         ClaimRow, Pay, RazorpayCaptures, Refund, Advance, WebhookRejects, WebhookCaptures,
         RestartAfterClaim, VerifyRejects, VerifyCaptures, Answer, callVars, sessionVars
<1> QED BY <1>1, <1>5, <1>6, <1>7, <1>8, <1>9

\* The clock and what is recorded beside the ledger.
LEMMA RecordsKept ==
  ASSUME Flow, [Next]_vars
  PROVE  /\ now' \in 0 .. MaxTime
         /\ created' \in [Keys -> Nat \cup {None}] /\ issuedAt' \in [Keys -> Nat \cup {None}]
         /\ consumed' \in [Keys -> OrderIds \cup {None}] /\ deliveries' \subseteq PaymentIds
         /\ history' \in Seq([payment : PaymentIds, cart : Keys])
<1> DEFINE Goal == /\ now' \in 0 .. MaxTime
                   /\ created' \in [Keys -> Nat \cup {None}]
                   /\ issuedAt' \in [Keys -> Nat \cup {None}]
                   /\ consumed' \in [Keys -> OrderIds \cup {None}]
                   /\ deliveries' \subseteq PaymentIds
                   /\ history' \in Seq([payment : PaymentIds, cart : Keys])
<1>1. /\ now \in 0 .. MaxTime /\ now \in Nat /\ MaxTime \in Nat
      /\ created \in [Keys -> Nat \cup {None}] /\ issuedAt \in [Keys -> Nat \cup {None}]
      /\ consumed \in [Keys -> OrderIds \cup {None}] /\ deliveries \subseteq PaymentIds
      /\ history \in Seq([payment : PaymentIds, cart : Keys])
      /\ confirmed \in [Sessions -> Cart] /\ selected \in [Sessions -> Cart]
      /\ authorization \in [Sessions -> Cart]
  BY CaptureAssumption DEF Flow, TypeOK
<1>2. CASE UNCHANGED <<now, created, issuedAt, consumed, history>> /\ deliveries' \subseteq PaymentIds
  BY <1>1, <1>2
<1>3. CASE Tick
  BY <1>1, <1>3 DEF Tick, databases
<1>4. ASSUME NEW k \in Keys, AttachOrderTo(k)
      PROVE  Goal
  <2>1. /\ UNCHANGED <<now, created, consumed, deliveries, history>>
        /\ issuedAt' = [issuedAt EXCEPT ![k] = now] \/ issuedAt' = issuedAt
    BY <1>4 DEF AttachOrderTo
  <2> QED BY <1>1, <2>1
<1>5. ASSUME NEW s \in Sessions, ClaimRow(s)
      PROVE  Goal
  <2>1. /\ UNCHANGED <<now, issuedAt, consumed, deliveries, history>>
        /\ created' = [created EXCEPT ![confirmed[s]] = now]
    BY <1>5 DEF ClaimRow
  <2> QED BY <1>1, <2>1
<1>6. ASSUME NEW s \in Sessions, NEW k \in Keys, NEW p \in PaymentIds,
             FinalizeCapture(s, k, p), deliveries' \subseteq PaymentIds,
             UNCHANGED <<now, created, issuedAt>>
      PROVE  Goal
  <2>1. ledger[k].order \in OrderIds \cup {None}
    BY DEF Flow, TypeOK, LedgerEntry
  <2>2. consumed' \in [Keys -> OrderIds \cup {None}]
    <3>1. \/ consumed' = consumed
          \/ consumed' = [consumed EXCEPT ![authorization[s]] = ledger[k].order]
      BY <1>6 DEF FinalizeCapture
    <3> QED BY <1>1, <2>1, <3>1
  <2>3. \/ history' = history
        \/ selected[s] \in Keys /\ history' = Append(history, [payment |-> p, cart |-> selected[s]])
    BY <1>1, <1>6 DEF FinalizeCapture, Cart
  <2>4. history' \in Seq([payment : PaymentIds, cart : Keys])
    <3> DEFINE entry == [payment |-> p, cart |-> selected[s]]
    <3>1. CASE selected[s] \in Keys /\ history' = Append(history, entry)
      <4>1. entry \in [payment : PaymentIds, cart : Keys]
        BY <3>1
      <4> HIDE DEF entry
      <4> QED BY <1>1, <3>1, <4>1, AppendProperties
    <3> QED BY <1>1, <2>3, <3>1
  <2> QED BY <1>1, <1>6, <2>2, <2>4
<1>7. ASSUME NEW p \in PaymentIds, WebhookCaptures(p)
      PROVE  Goal
  <2>1. deliveries' \subseteq PaymentIds /\ UNCHANGED <<now, created, issuedAt>>
    BY <1>1, <1>7 DEF WebhookCaptures
  <2>2. PICK k \in Keys, found \in Sessions \cup {None} :
          /\ Correlates(p, k, found)
          /\ IF found # None THEN FinalizeCapture(found, confirmed[found], p)
             ELSE UNCHANGED <<history, consumed>>
    BY <1>7 DEF WebhookCaptures
  <2>3. CASE found # None
    BY <1>6, <2>1, <2>2, <2>3, FoundOrders
  <2>4. CASE found = None
    BY <1>1, <2>1, <2>2, <2>4
  <2> QED BY <2>3, <2>4
<1>8. ASSUME NEW c \in Calls, VerifyCaptures(c)
      PROVE  Goal
  <2>1. /\ call[c].key \in Keys /\ call[c].payment \in PaymentIds
        /\ SessionOf[call[c].key] \in Sessions
    BY <1>8, CaptureAssumption DEF VerifyCaptures, Flow, Fetching
  <2>2. /\ FinalizeCapture(SessionOf[call[c].key], call[c].key, call[c].payment)
        /\ UNCHANGED <<now, created, issuedAt, deliveries>>
    BY <1>8 DEF VerifyCaptures
  <2> QED BY <1>1, <1>6, <2>1, <2>2
<1>9. \/ UNCHANGED <<now, created, issuedAt, consumed, history>> /\ deliveries' \subseteq PaymentIds
      \/ Tick \/ \E k \in Keys : AttachOrderTo(k)
      \/ \E s \in Sessions : ClaimRow(s)
      \/ \E p \in PaymentIds : WebhookCaptures(p)
      \/ \E c \in Calls : VerifyCaptures(c)
  <2>1. ASSUME NEW p \in PaymentIds, RestartAfterClaim(p)
        PROVE  UNCHANGED <<now, created, issuedAt, consumed, history>> /\ deliveries' \subseteq PaymentIds
    BY <1>1, <2>1 DEF RestartAfterClaim
  <2> QED BY <1>1, <2>1
          DEF Next, vars, databases, Restart, Select, RazorpayCreates, Confirm, Revise, Pay,
              RazorpayCaptures, Refund, Advance, WebhookRejects, Verify, VerifyRejects
<1> QED BY <1>2, <1>3, <1>4, <1>5, <1>7, <1>8, <1>9

LEMMA RepliesKept ==
  ASSUME Flow, [Next]_vars
  PROVE  reply' \in [Calls -> [captured : BOOLEAN, payment : PaymentIds \cup {None}] \cup {None}]
<1>1. /\ reply \in [Calls -> [captured : BOOLEAN, payment : PaymentIds \cup {None}] \cup {None}]
      /\ confirmed \in [Sessions -> Cart] /\ ledger \in [Keys -> LedgerEntry]
  BY DEF Flow, TypeOK
<1>2. \A k \in Keys : /\ ledger[k].payment \in PaymentIds \cup {None}
                      /\ ledger'[k].payment \in PaymentIds \cup {None}
  BY <1>1, LedgerKept DEF LedgerEntry
<1>3. ASSUME NEW c \in Calls, NEW captured \in BOOLEAN, NEW payment \in PaymentIds \cup {None},
             Answer(c, captured, payment)
      PROVE  reply' \in [Calls -> [captured : BOOLEAN, payment : PaymentIds \cup {None}] \cup {None}]
  BY <1>1, <1>3 DEF Answer
<1>4. ASSUME NEW c \in Calls, NEW s \in Sessions, NEW p \in PaymentIds, Verify(c, s, p)
      PROVE  \/ reply' = reply \/ Answer(c, FALSE, None)
             \/ \E k \in Keys : Answer(c, TRUE, ledger[k].payment)
  BY <1>1, <1>4 DEF Verify, Cart
<1>5. ASSUME NEW c \in Calls, VerifyCaptures(c)
      PROVE  \E k \in Keys : Answer(c, TRUE, ledger'[k].payment)
  BY <1>5 DEF VerifyCaptures, Flow, Fetching
<1>6. \/ reply' = reply
      \/ \E c \in Calls : Answer(c, FALSE, None)
      \/ \E c \in Calls, k \in Keys : Answer(c, TRUE, ledger[k].payment)
      \/ \E c \in Calls, k \in Keys : Answer(c, TRUE, ledger'[k].payment)
  BY <1>4, <1>5
     DEF Next, vars, callVars, Tick, Restart, Forget, Select, RazorpayCreates, AttachOrderTo, Confirm,
         Revise, ClaimRow, Pay, RazorpayCaptures, Refund, Advance, WebhookRejects, WebhookCaptures,
         RestartAfterClaim, VerifyRejects
<1> QED BY <1>1, <1>2, <1>3, <1>6

LEMMA FlowKept == Flow /\ [Next]_vars => Flow'
<1> SUFFICES ASSUME Flow, [Next]_vars PROVE Flow'
  OBVIOUS
<1>1. TypeOK'
  <2>1. alive' \subseteq Sessions
    BY SessionsKept DEF Flow, TypeOK
  <2> QED BY <2>1, LedgerKept, RazorpayKept, SessionsKept, CallsKept, RecordsKept, RepliesKept
          DEF TypeOK, Cart
<1> QED BY <1>1, LedgerKept, SessionsKept, CallsKept DEF Flow

LEMMA FlowHolds == Init => Flow
<1> SUFFICES ASSUME Init PROVE Flow
  OBVIOUS
<1>1. Absent \in LedgerEntry /\ Shaped(Absent)
  BY DEF Absent, LedgerEntry, Status, Shaped
<1>2. << >> \in Seq([payment : PaymentIds, cart : Keys]) /\ 0 \in 0 .. MaxTime
  BY CaptureAssumption
<1>3. TypeOK
  BY <1>1, <1>2 DEF Init, TypeOK, Cart
<1> QED BY <1>1, <1>3 DEF Init, Flow, Fetching, OwnCarts

LEMMA FlowInvariant == Spec => []Flow
BY FlowHolds, FlowKept, PTL DEF Spec

-----------------------------------------------------------------------------
\* Every variable keeps its type.
THEOREM CaptureTypeOK == Spec => []TypeOK
<1>1. Flow => TypeOK
  BY DEF Flow
<1> QED BY <1>1, FlowInvariant, PTL

-----------------------------------------------------------------------------
(* A call is told the payment its purchase is recorded as paid by.          *)

\* Nothing is told before a call is done.
Told ==
  \A c \in Calls : reply[c] # None =>
    /\ pc[c] = "done"
    /\ reply[c].captured =>
         /\ call[c].key \in Keys
         /\ ledger[call[c].key].status = "captured"
         /\ ledger[call[c].key].payment = reply[c].payment

\* A finalize statement leaves a row with an order captured.
LEMMA FinalizedIsCaptured ==
  ASSUME Flow, NEW s \in Sessions, NEW k \in Keys, NEW p \in PaymentIds,
         ledger[k].order # None, FinalizeCapture(s, k, p)
  PROVE  ledger'[k].status = "captured"
<1>1. ledger \in [Keys -> LedgerEntry] /\ ledger[k] \in LedgerEntry /\ Shaped(ledger[k])
  BY DEF Flow, TypeOK
<1>2. ledger'[k] = FinalizeIfPending(ledger[k], p, payments[p].amount)
  BY <1>1 DEF FinalizeCapture
<1> QED BY <1>1, <1>2 DEF FinalizeIfPending, WinsFinalize, Shaped, LedgerEntry, Status

LEMMA ToldKept == Flow /\ Told /\ [Next]_vars => Told'
<1> SUFFICES ASSUME Flow, Told, [Next]_vars PROVE Told'
  OBVIOUS
<1>1. /\ pc \in [Calls -> {"idle", "fetching", "done"}]
      /\ call \in [Calls -> [key : Cart, payment : PaymentIds \cup {None}]]
      /\ reply \in [Calls -> [captured : BOOLEAN, payment : PaymentIds \cup {None}] \cup {None}]
      /\ confirmed \in [Sessions -> Cart]
  BY DEF Flow, TypeOK
<1>2. \A k \in Keys : ledger[k].status = "captured" =>
        ledger'[k].status = "captured" /\ ledger'[k].payment = ledger[k].payment
  BY LedgerKept
<1>3. CASE UNCHANGED <<call, reply>> /\ \A c \in Calls : pc[c] = "done" => pc'[c] = "done"
  BY <1>2, <1>3 DEF Told
<1>4. ASSUME NEW c \in Calls, NEW captured \in BOOLEAN, NEW payment,
             Answer(c, captured, payment), \A d \in Calls : d # c => call'[d] = call[d],
             captured => /\ call'[c].key \in Keys
                         /\ ledger'[call'[c].key].status = "captured"
                         /\ ledger'[call'[c].key].payment = payment
      PROVE  Told'
  <2>1. /\ pc'[c] = "done" /\ reply'[c] = [captured |-> captured, payment |-> payment]
        /\ \A d \in Calls : d # c => pc'[d] = pc[d] /\ reply'[d] = reply[d]
    BY <1>1, <1>4 DEF Answer
  <2>2. /\ reply'[c].captured = captured /\ reply'[c].payment = payment
    BY <2>1
  <2>3. ASSUME NEW d \in Calls, d # c, reply'[d] # None
        PROVE  /\ pc'[d] = "done"
               /\ reply'[d].captured =>
                    /\ call'[d].key \in Keys /\ ledger'[call'[d].key].status = "captured"
                    /\ ledger'[call'[d].key].payment = reply'[d].payment
    BY <1>2, <1>4, <2>1, <2>3 DEF Told
  <2> QED BY <1>4, <2>1, <2>2, <2>3 DEF Told
<1>5. ASSUME NEW c \in Calls, NEW s \in Sessions, NEW p \in PaymentIds, Verify(c, s, p)
      PROVE  Told'
  <2> DEFINE k == confirmed[s]
  <2>1. /\ k \in Keys /\ pc[c] = "idle" /\ call' = [call EXCEPT ![c] = [key |-> k, payment |-> p]]
    BY <1>1, <1>5 DEF Verify, Cart
  <2>2. call'[c].key = k /\ \A d \in Calls : d # c => call'[d] = call[d]
    BY <1>1, <2>1
  <2>3. CASE ledger[k].status = "captured"
    <3>1. Answer(c, TRUE, ledger[k].payment)
      BY <1>5, <2>3 DEF Verify
    <3> QED BY <1>2, <1>4, <2>1, <2>2, <2>3, <3>1
  <2>4. CASE ledger[k].status # "captured" /\ Signed(ledger[k], p)
    <3>1. pc' = [pc EXCEPT ![c] = "fetching"] /\ reply' = reply
      BY <1>5, <2>4 DEF Verify
    <3> QED BY <1>1, <1>2, <2>1, <2>2, <3>1 DEF Told
  <2>5. CASE ledger[k].status # "captured" /\ ~Signed(ledger[k], p)
    <3>1. Answer(c, FALSE, None)
      BY <1>5, <2>5 DEF Verify
    <3> QED BY <1>4, <2>2, <3>1
  <2> QED BY <2>3, <2>4, <2>5
<1>6. ASSUME NEW c \in Calls, VerifyRejects(c)
      PROVE  Told'
  <2>1. Answer(c, FALSE, None) /\ call' = call
    BY <1>6 DEF VerifyRejects
  <2> QED BY <1>4, <2>1
<1>7. ASSUME NEW c \in Calls, VerifyCaptures(c)
      PROVE  Told'
  <2> DEFINE k == call[c].key
  <2>1. /\ k \in Keys /\ call[c].payment \in PaymentIds /\ ledger[k].order # None
        /\ SessionOf[k] \in Sessions
    BY <1>7, CaptureAssumption DEF VerifyCaptures, Flow, Fetching
  <2>2. /\ FinalizeCapture(SessionOf[k], k, call[c].payment)
        /\ Answer(c, TRUE, ledger'[k].payment) /\ call' = call
    BY <1>7 DEF VerifyCaptures
  <2>3. ledger'[k].status = "captured"
    BY <2>1, <2>2, FinalizedIsCaptured
  <2> QED BY <1>4, <2>1, <2>2, <2>3
<1>8. CASE Forget
  BY <1>1, <1>2, <1>8 DEF Told, Forget
<1>9. \/ UNCHANGED <<call, reply>> /\ \A c \in Calls : pc[c] = "done" => pc'[c] = "done"
      \/ Forget
      \/ \E c \in Calls, s \in Sessions, p \in PaymentIds : Verify(c, s, p)
      \/ \E c \in Calls : VerifyRejects(c) \/ VerifyCaptures(c)
  BY DEF Next, vars, callVars, Tick, Restart, Select, RazorpayCreates, AttachOrderTo, Confirm,
         Revise, ClaimRow, Pay, RazorpayCaptures, Refund, Advance, WebhookRejects,
         WebhookCaptures, RestartAfterClaim
<1> QED BY <1>3, <1>5, <1>6, <1>7, <1>8, <1>9

\* A verify call that answers "captured" tells the recorded payment, even if another
\* channel got there first while it was fetching.
THEOREM CaptureTruthfulReply == Spec => []TruthfulReply
<1>1. Init => Flow /\ Told
  BY FlowHolds DEF Init, Told
<1>2. Flow /\ Told => TruthfulReply
  BY DEF Told, TruthfulReply
<1> QED BY <1>1, <1>2, FlowKept, ToldKept, PTL DEF Spec

-----------------------------------------------------------------------------
(* The abstract purchase.                                                   *)

PhaseOf(row) ==
  CASE row.status = "absent" -> "absent"
    [] row.status = "pending" -> "open"
    [] row.status = "unknown" -> "doubt"
    [] row.status = "captured" -> "paid"

LEMMA StatementEvolves ==
  ASSUME Flow, NEW k \in Keys, NEW row, Statement(k, row)
  PROVE  LET old == ledger[k]
         IN  \/ row.status = old.status /\ row.order = old.order /\ row.payment = old.payment
             \/ /\ old.status = "absent" /\ row.status = "pending"
                /\ row.order = old.order /\ row.payment = old.payment
             \/ /\ old.status = "pending" /\ row.status = "pending" /\ old.order = None
                /\ row.order \in OrderIds /\ row.payment = old.payment
             \/ /\ old.status = "pending" /\ row.status = "captured" /\ old.order # None
                /\ row.order = old.order /\ row.payment \in PaymentIds
<1>1. ledger[k] \in LedgerEntry /\ Shaped(ledger[k])
  BY DEF Flow, TypeOK
<1>2. CASE row = Reject(ledger[k])
  BY <1>1, <1>2 DEF Reject, LedgerEntry
<1>3. CASE ledger[k].status = "absent" /\ row = ClaimOrder(ledger[k], TotalOf[k])
  BY <1>1, <1>3 DEF ClaimOrder, Absent, LedgerEntry, Shaped
<1>4. CASE /\ ledger[k].status = "pending" /\ ledger[k].order = None
           /\ \E o \in OrderIds : row = AttachOrder(ledger[k], o)
  BY <1>1, <1>4 DEF AttachOrder, LedgerEntry
<1>5. CASE /\ ledger[k].order # None
           /\ \E p \in PaymentIds : row = FinalizeIfPending(ledger[k], p, payments[p].amount)
  BY <1>1, <1>5 DEF FinalizeIfPending, WinsFinalize, LedgerEntry
<1> QED BY <1>2, <1>3, <1>4, <1>5 DEF Statement

LEMMA StatementKeepsPromise ==
  ASSUME Flow, NEW k \in Keys, NEW row, Statement(k, row),
         ledger' = [ledger EXCEPT ![k] = row]
  PROVE  Promise!Next \/ UNCHANGED Promise!purchaseVars
<1> DEFINE phase == [j \in Keys |-> PhaseOf(ledger[j])]
           order == [j \in Keys |-> ledger[j].order]
           payment == [j \in Keys |-> ledger[j].payment]
<1>1. ledger'[k] = row /\ \A j \in Keys : j # k => ledger'[j] = ledger[j]
  BY DEF Flow, TypeOK
<1>2. /\ phase' = [phase EXCEPT ![k] = PhaseOf(row)]
      /\ order' = [order EXCEPT ![k] = row.order]
      /\ payment' = [payment EXCEPT ![k] = row.payment]
  BY DEF Flow, TypeOK
<1>3. phase[k] = PhaseOf(ledger[k]) /\ order[k] = ledger[k].order /\ payment[k] = ledger[k].payment
  OBVIOUS
<1>4. row.status = ledger[k].status => phase' = phase
  <2> SUFFICES ASSUME row.status = ledger[k].status PROVE phase' = phase
    OBVIOUS
  <2>1. \A j \in Keys : PhaseOf(ledger'[j]) = PhaseOf(ledger[j])
    BY <1>1 DEF PhaseOf
  <2> QED BY <2>1
<1>5. row.order = ledger[k].order => order' = order
  BY <1>1
<1>6. row.payment = ledger[k].payment => payment' = payment
  BY <1>1
<1>7. CASE row.status = ledger[k].status /\ row.order = ledger[k].order /\ row.payment = ledger[k].payment
  BY <1>4, <1>5, <1>6, <1>7 DEF Promise!purchaseVars, PhaseOf
<1>8. CASE /\ ledger[k].status = "absent" /\ row.status = "pending"
           /\ row.order = ledger[k].order /\ row.payment = ledger[k].payment
  <2>1. /\ phase[k] = "absent" /\ phase' = [phase EXCEPT ![k] = "open"]
        /\ order' = order /\ payment' = payment
    BY <1>2, <1>3, <1>5, <1>6, <1>8 DEF PhaseOf
  <2>2. Promise!Open(k)
    BY <2>1 DEF Promise!Open, Promise!Move, PhaseOf
  <2> QED BY <2>2 DEF Promise!Next
<1>9. CASE /\ ledger[k].status = "pending" /\ row.status = "pending" /\ ledger[k].order = None
           /\ row.order \in OrderIds /\ row.payment = ledger[k].payment
  <2>1. /\ phase[k] = "open" /\ phase' = phase /\ order[k] = None /\ payment' = payment
        /\ order' = [order EXCEPT ![k] = row.order] /\ row.order \in OrderIds
    BY <1>2, <1>3, <1>4, <1>6, <1>9 DEF PhaseOf
  <2>2. Promise!Attach(k)
    BY <2>1 DEF Promise!Attach, PhaseOf
  <2> QED BY <2>2 DEF Promise!Next
<1>10. CASE /\ ledger[k].status = "pending" /\ row.status = "captured" /\ ledger[k].order # None
            /\ row.order = ledger[k].order /\ row.payment \in PaymentIds
  <2>1. /\ phase[k] = "open" /\ phase' = [phase EXCEPT ![k] = "paid"] /\ order[k] # None
        /\ order' = order /\ payment' = [payment EXCEPT ![k] = row.payment]
        /\ row.payment \in PaymentIds
    BY <1>2, <1>3, <1>5, <1>10 DEF PhaseOf
  <2>2. Promise!Pay(k)
    BY <2>1 DEF Promise!Pay, Promise!Move, PhaseOf
  <2> QED BY <2>2 DEF Promise!Next
<1> QED BY <1>7, <1>8, <1>9, <1>10, StatementEvolves

\* Whichever channel reports payments, and however often the server restarts, a
\* purchase has one order and one payment, for good: Capture implements Purchase.
THEOREM CaptureKeepsPromise == Spec => KeepsPromise
<1>1. Init => Promise!Init
  BY DEF Init, Absent, Promise!Init
<1>2. Flow /\ [Next]_vars => [Promise!Next]_(Promise!purchaseVars)
  <2> SUFFICES ASSUME Flow, [Next]_vars
               PROVE  Promise!Next \/ UNCHANGED Promise!purchaseVars
    OBVIOUS
  <2>1. CASE ledger' = ledger
    BY <2>1 DEF Promise!purchaseVars
  <2> QED BY <2>1, LedgerSteps, StatementKeepsPromise
<1> QED BY <1>1, <1>2, FlowInvariant, PTL DEF Spec, KeepsPromise, Promise!Spec

-----------------------------------------------------------------------------
(* Deliveries.                                                              *)

Acted ==
  \A p \in deliveries :
    /\ payments[p] # None
    /\ \E k \in Keys : ledger[k].order = payments[p].order /\ ledger[k].status = "captured"

\* The webhook that captures leaves a row of the payment's order captured.
LEMMA WebhookActs ==
  ASSUME Flow, NEW p \in PaymentIds, WebhookCaptures(p)
  PROVE  \E k \in Keys : /\ ledger[k].order = payments[p].order /\ ledger[k].order # None
                         /\ ledger'[k].status = "captured"
<1>1. PICK k \in Keys, found \in Sessions \cup {None} :
        /\ Correlates(p, k, found)
        /\ IF found # None
           THEN FinalizeCapture(found, confirmed[found], p)
           ELSE ledger' = [ledger EXCEPT ![k] = FinalizeIfPending(ledger[k], p, payments[p].amount)]
  BY DEF WebhookCaptures
<1>2. CASE found # None
  BY <1>1, <1>2, FoundOrders, FinalizedIsCaptured
<1>3. CASE found = None
  <2>1. ledger[k].status = "pending" /\ ledger[k].order = payments[p].order /\ ledger[k].order # None
    BY <1>1, FoundOrders
  <2>2. ledger'[k].status = "captured"
    BY <1>1, <1>3, <2>1 DEF FinalizeIfPending, WinsFinalize, LedgerEntry, Flow, TypeOK
  <2> QED BY <2>1, <2>2
<1> QED BY <1>2, <1>3

LEMMA ActedKept ==
  ASSUME ~Restarts
  PROVE  Flow /\ Acted /\ [Next]_vars => Acted'
<1> SUFFICES ASSUME Flow, Acted, [Next]_vars PROVE Acted'
  OBVIOUS
<1>1. \A k \in Keys : /\ ledger[k].status = "captured" =>
                           ledger'[k].status = "captured" /\ ledger[k].order # None
                      /\ ledger[k].order # None => ledger'[k].order = ledger[k].order
  BY LedgerKept DEF Flow, Shaped
<1>2. \A p \in PaymentIds : payments[p] # None =>
        payments'[p] # None /\ payments'[p].order = payments[p].order
  BY RazorpayKept
<1>3. deliveries \subseteq PaymentIds
  BY DEF Flow, TypeOK
<1>4. CASE deliveries' = deliveries
  BY <1>1, <1>2, <1>3, <1>4 DEF Acted
<1>5. ASSUME NEW p \in PaymentIds, WebhookCaptures(p)
      PROVE  Acted'
  <2>1. PICK k \in Keys : /\ ledger[k].order = payments[p].order /\ ledger[k].order # None
                         /\ ledger'[k].status = "captured"
    BY <1>5, WebhookActs
  <2>2. payments[p] # None /\ deliveries' = deliveries \cup {p}
    BY <1>5 DEF WebhookCaptures, Correlates
  <2>3. /\ payments'[p] # None
        /\ ledger'[k].order = payments'[p].order /\ ledger'[k].status = "captured"
    BY <1>1, <1>2, <2>1, <2>2
  <2>4. ASSUME NEW q \in deliveries
        PROVE  /\ payments'[q] # None
               /\ \E j \in Keys : ledger'[j].order = payments'[q].order /\ ledger'[j].status = "captured"
    BY <1>1, <1>2, <1>3, <2>4 DEF Acted
  <2> QED BY <2>2, <2>3, <2>4 DEF Acted
<1>6. deliveries' = deliveries \/ \E p \in PaymentIds : WebhookCaptures(p)
  BY DEF Next, vars, databases, Tick, Restart, Select, RazorpayCreates, AttachOrderTo, Confirm,
         Revise, ClaimRow, Pay, RazorpayCaptures, Refund, Advance, WebhookRejects,
         RestartAfterClaim, Verify, VerifyRejects, VerifyCaptures
<1> QED BY <1>4, <1>5, <1>6

\* A server that is not killed in between acts on every delivery it claims.
THEOREM CaptureDeliveryActedOn ==
  ASSUME ~Restarts
  PROVE  Spec => []DeliveryActedOn
<1>1. Init => Flow /\ Acted
  BY FlowHolds DEF Init, Acted
<1>2. Flow /\ Acted /\ [Next]_vars => (Flow /\ Acted)'
  BY ActedKept, FlowKept
<1>3. Acted => DeliveryActedOn
  BY DEF Acted, DeliveryActedOn
<1> QED BY <1>1, <1>2, <1>3, PTL DEF Spec

-----------------------------------------------------------------------------
(* One cart per session.                                                    *)

OneCart == \A j, k \in Keys : SessionOf[j] = SessionOf[k] => j = k

\* An order on a row is the one Razorpay made for that row.
OwnOrder == \A k \in Keys : ledger[k].order # None => orders[ledger[k].order] = k

Money == OwnOrder /\ CapturedIsPaid /\ HistoryIsPaid /\ HistoryOnce /\ ConsumedIsOwn

LEMMA OwnOrderKept ==
  ASSUME OneCart
  PROVE  Flow /\ OwnOrder /\ [Next]_vars => OwnOrder'
<1> SUFFICES ASSUME Flow, OwnOrder, [Next]_vars PROVE OwnOrder'
  OBVIOUS
<1>1. /\ \A k \in Keys : ledger[k].order # None => ledger'[k].order = ledger[k].order
      /\ \A o \in OrderIds : orders[o] # None => orders'[o] = orders[o]
      /\ \A k \in Keys : ledger[k].order \in OrderIds \cup {None}
      /\ orders \in [OrderIds -> Cart]
  BY LedgerKept, RazorpayKept DEF Flow, TypeOK, LedgerEntry
<1>2. ASSUME NEW k \in Keys, ledger[k].order # None
      PROVE  orders'[ledger'[k].order] = k
  BY <1>1, <1>2, CaptureAssumption DEF OwnOrder
<1>3. ASSUME NEW k \in Keys, NEW row, Statement(k, row), ledger' = [ledger EXCEPT ![k] = row]
      PROVE  OwnOrder'
  <2>1. ledger'[k] = row /\ \A j \in Keys : j # k => ledger'[j] = ledger[j]
    BY <1>3 DEF Flow, TypeOK
  <2>2. \A j \in Keys : ledger[j].order = None /\ j # k => ledger'[j].order = None
    BY <2>1
  <2>3. ASSUME ledger[k].order = None, row.order # None
        PROVE  orders'[row.order] = k
    <3>1. PICK o \in OrderIds : Attachable(k, o) /\ row = AttachOrder(ledger[k], o)
      BY <1>3, <2>3 DEF Statement, Reject, ClaimOrder, Absent, Flow, TypeOK, LedgerEntry
    <3>2. row.order = o
      BY <2>3, <3>1 DEF AttachOrder, Flow, TypeOK, LedgerEntry
    <3>3. CASE orders[o] # None /\ SessionOf[orders[o]] = SessionOf[k]
      BY <1>1, <3>2, <3>3 DEF OneCart, Cart
    <3>4. CASE orders[o] = k
      BY <1>1, <3>2, <3>4, CaptureAssumption
    <3> QED BY <3>1, <3>3, <3>4 DEF Attachable
  <2> QED BY <1>2, <2>1, <2>2, <2>3 DEF OwnOrder
<1>4. CASE ledger' = ledger
  BY <1>2, <1>4 DEF OwnOrder
<1> QED BY <1>3, <1>4, LedgerSteps

LEMMA PaidKept ==
  ASSUME OneCart
  PROVE  Flow /\ OwnOrder /\ CapturedIsPaid /\ [Next]_vars => CapturedIsPaid'
<1> SUFFICES ASSUME Flow, OwnOrder, CapturedIsPaid, [Next]_vars PROVE CapturedIsPaid'
  OBVIOUS
<1> DEFINE PaidNext(k) == LET p == payments'[ledger'[k].payment]
                          IN  /\ p # None /\ p.status \in {"captured", "refunded"}
                              /\ p.order = ledger'[k].order
                              /\ ledger'[k].captured = ledger'[k].amount
                              /\ p.amount = ledger'[k].amount
<1>1. /\ ledger \in [Keys -> LedgerEntry] /\ \A k \in Keys : Shaped(ledger[k])
      /\ \A k \in Keys : ledger[k].status = "captured" =>
           /\ ledger'[k].status = "captured" /\ ledger'[k].payment = ledger[k].payment
           /\ ledger'[k].captured = ledger[k].captured /\ ledger'[k].amount = ledger[k].amount
           /\ ledger'[k].order = ledger[k].order /\ ledger[k].payment \in PaymentIds
  BY LedgerKept DEF Flow, TypeOK, Shaped
<1>2. \A p \in PaymentIds : payments[p] # None =>
        /\ payments'[p] # None /\ payments'[p].order = payments[p].order
        /\ payments'[p].amount = payments[p].amount
        /\ payments[p].status \in {"captured", "refunded"} =>
             payments'[p].status \in {"captured", "refunded"}
  BY RazorpayKept
<1>3. ASSUME NEW k \in Keys, ledger[k].status = "captured"
      PROVE  PaidNext(k)
  BY <1>1, <1>2, <1>3 DEF CapturedIsPaid
<1>4. ASSUME NEW k \in Keys, NEW row, Statement(k, row), ledger' = [ledger EXCEPT ![k] = row],
             ledger[k].status # "captured", row.status = "captured"
      PROVE  PaidNext(k)
  <2>1. PICK p \in PaymentIds : /\ Pays(p, k) /\ ledger[k].order # None
                               /\ row = FinalizeIfPending(ledger[k], p, payments[p].amount)
    BY <1>1, <1>4 DEF Statement, Reject, ClaimOrder, Absent, AttachOrder, LedgerEntry
  <2>2. ledger[k].status = "pending"
    BY <1>4, <2>1 DEF FinalizeIfPending, WinsFinalize
  <2>3. /\ row.payment = p /\ row.captured = payments[p].amount
        /\ row.order = ledger[k].order /\ row.amount = ledger[k].amount
    BY <1>1, <2>1, <2>2 DEF FinalizeIfPending, WinsFinalize, LedgerEntry
  <2>4. payments[p].amount = ledger[k].amount
    BY <2>1 DEF Pays, OwnOrder
  <2> QED BY <1>1, <1>2, <1>4, <2>1, <2>3, <2>4 DEF Pays
<1>5. ASSUME NEW k \in Keys, ledger'[k].status = "captured"
      PROVE  PaidNext(k)
  BY <1>1, <1>3, <1>4, <1>5, LedgerSteps
<1> QED BY <1>5 DEF CapturedIsPaid

\* History and consumption are written by a winning _finalize_capture only.
LEMMA CaptureSteps ==
  ASSUME Flow, [Next]_vars
  PROVE  \/ UNCHANGED <<history, consumed>>
         \/ \E k \in Keys, p \in PaymentIds :
              Pays(p, k) /\ ledger[k].order # None /\ FinalizeCapture(SessionOf[k], k, p)
<1> DEFINE Goal == \E k \in Keys, p \in PaymentIds :
                     Pays(p, k) /\ ledger[k].order # None /\ FinalizeCapture(SessionOf[k], k, p)
<1>1. ASSUME NEW p \in PaymentIds, WebhookCaptures(p)
      PROVE  UNCHANGED <<history, consumed>> \/ Goal
  <2>1. PICK k \in Keys, found \in Sessions \cup {None} :
          /\ Correlates(p, k, found) /\ GatesAllow(p, k, found)
          /\ IF found # None THEN FinalizeCapture(found, confirmed[found], p)
             ELSE UNCHANGED <<history, consumed>>
    BY <1>1 DEF WebhookCaptures
  <2>2. CASE found # None
    <3>1. /\ confirmed[found] \in Keys /\ ledger[confirmed[found]].order = ledger[k].order
          /\ payments[p] # None /\ payments[p].status \in {"captured", "refunded"}
          /\ payments[p].order = ledger[k].order /\ ledger[k].order # None
      BY <2>1, <2>2, FoundOrders DEF Correlates
    <3>2. SessionOf[confirmed[found]] = found /\ confirmed[found] # None
      BY <2>2, <3>1, CaptureAssumption DEF Flow, OwnCarts
    <3>3. Pays(p, confirmed[found])
      BY <2>1, <3>1 DEF Pays, GatesAllow
    <3> QED BY <2>1, <2>2, <3>1, <3>2, <3>3
  <2> QED BY <2>1, <2>2
<1>2. ASSUME NEW c \in Calls, VerifyCaptures(c)
      PROVE  Goal
  <2>1. /\ call[c].key \in Keys /\ call[c].payment \in PaymentIds
        /\ ledger[call[c].key].order # None /\ Pays(call[c].payment, call[c].key)
    BY <1>2 DEF VerifyCaptures, Acceptable, Flow, Fetching, Signed, Pays
  <2> QED BY <1>2, <2>1 DEF VerifyCaptures
<1>3. \/ UNCHANGED <<history, consumed>>
      \/ \E p \in PaymentIds : WebhookCaptures(p)
      \/ \E c \in Calls : VerifyCaptures(c)
  BY DEF Next, vars, databases, Tick, Restart, Select, RazorpayCreates, AttachOrderTo, Confirm,
         Revise, ClaimRow, Pay, RazorpayCaptures, Refund, Advance, WebhookRejects,
         RestartAfterClaim, Verify, VerifyRejects
<1> QED BY <1>1, <1>2, <1>3

LEMMA HistoryKept ==
  ASSUME OneCart
  PROVE  Flow /\ Money /\ [Next]_vars => HistoryIsPaid' /\ HistoryOnce' /\ ConsumedIsOwn'
<1> SUFFICES ASSUME Flow, Money, [Next]_vars
             PROVE  HistoryIsPaid' /\ HistoryOnce' /\ ConsumedIsOwn'
  OBVIOUS
<1>1. /\ \A k \in Keys : ledger[k].status = "captured" =>
           /\ ledger'[k].status = "captured" /\ ledger'[k].payment = ledger[k].payment
           /\ ledger'[k].order = ledger[k].order
      /\ history \in Seq([payment : PaymentIds, cart : Keys]) /\ Len(history) \in Nat
      /\ \A i \in 1 .. Len(history) :
           history[i].cart \in Keys /\ history[i].payment \in PaymentIds
      /\ consumed \in [Keys -> OrderIds \cup {None}]
  <2>1. history \in Seq([payment : PaymentIds, cart : Keys])
        /\ consumed \in [Keys -> OrderIds \cup {None}]
    BY DEF Flow, TypeOK
  <2>2. \A i \in 1 .. Len(history) : history[i] \in [payment : PaymentIds, cart : Keys]
    BY <2>1, ElementOfSeq
  <2> QED BY <2>1, <2>2, LedgerKept DEF Flow, Shaped
<1>2. CASE UNCHANGED <<history, consumed>>
  BY <1>1, <1>2 DEF Money, HistoryIsPaid, HistoryOnce, ConsumedIsOwn
<1>3. ASSUME NEW k \in Keys, NEW p \in PaymentIds,
             Pays(p, k), ledger[k].order # None, FinalizeCapture(SessionOf[k], k, p)
      PROVE  HistoryIsPaid' /\ HistoryOnce' /\ ConsumedIsOwn'
  <2> DEFINE s == SessionOf[k]
             entry == [payment |-> p, cart |-> k]
  <2>1. CASE ~WinsFinalize(ledger[k])
    BY <1>2, <1>3, <2>1 DEF FinalizeCapture
  <2>2. CASE WinsFinalize(ledger[k])
    <3>1. /\ ledger[k].status = "pending" /\ ledger'[k].status = "captured"
          /\ ledger'[k].payment = p /\ ledger'[k].order = ledger[k].order
      BY <1>3, <2>2 DEF FinalizeCapture, FinalizeIfPending, WinsFinalize, Flow, TypeOK, LedgerEntry
    <3>2. /\ s \in Sessions /\ k # None
          /\ selected[s] = None \/ selected[s] = k
          /\ authorization[s] = None \/ authorization[s] = k
      BY CaptureAssumption DEF OneCart, Flow, OwnCarts, TypeOK, Cart
    <3>3. history' = history \/ history' = Append(history, entry)
      BY <1>3, <2>2, <3>2 DEF FinalizeCapture
    <3>4. consumed' = consumed \/ consumed' = [consumed EXCEPT ![k] = ledger[k].order]
      BY <1>3, <2>2, <3>2 DEF FinalizeCapture
    <3>5. ConsumedIsOwn'
      BY <1>1, <3>1, <3>4 DEF Money, ConsumedIsOwn
    <3>6. CASE history' = history
      BY <1>1, <3>5, <3>6 DEF Money, HistoryIsPaid, HistoryOnce
    <3>7. CASE history' = Append(history, entry)
      <4>1. entry \in [payment : PaymentIds, cart : Keys]
        OBVIOUS
      <4>2. /\ Len(history') = Len(history) + 1 /\ history'[Len(history) + 1] = entry
            /\ \A i \in 1 .. Len(history) : history'[i] = history[i]
        BY <1>1, <3>7, <4>1, AppendProperties
      <4>3. HistoryIsPaid'
        <5>1. ASSUME NEW i \in 1 .. Len(history')
              PROVE  /\ ledger'[history'[i].cart].status = "captured"
                     /\ ledger'[history'[i].cart].payment = history'[i].payment
          <6>1. CASE i = Len(history) + 1
            BY <3>1, <4>2, <6>1
          <6>2. CASE i \in 1 .. Len(history)
            BY <1>1, <4>2, <6>2 DEF Money, HistoryIsPaid
          <6> QED BY <1>1, <4>2, <6>1, <6>2
        <5> QED BY <5>1 DEF HistoryIsPaid
      <4>4. \A i \in 1 .. Len(history) : history[i].payment # p
        <5> SUFFICES ASSUME NEW i \in 1 .. Len(history), history[i].payment = p
                     PROVE  FALSE
          OBVIOUS
        <5> DEFINE c == history[i].cart
        <5>1. c \in Keys /\ ledger[c].status = "captured" /\ ledger[c].payment = p
          BY <1>1 DEF Money, HistoryIsPaid
        <5>2. payments[p].order = ledger[c].order /\ ledger[c].order # None
          BY <5>1 DEF Money, CapturedIsPaid, Flow, Shaped
        <5>3. c = k
          BY <1>3, <5>1, <5>2 DEF Pays, Money, OwnOrder
        <5> QED BY <3>1, <5>1, <5>3
      <4>5. HistoryOnce'
        <5>1. ASSUME NEW i \in 1 .. Len(history'), NEW j \in 1 .. Len(history'),
                     history'[i].payment = history'[j].payment
              PROVE  i = j
          <6>1. /\ i \in 1 .. Len(history) \/ i = Len(history) + 1
                /\ j \in 1 .. Len(history) \/ j = Len(history) + 1
            BY <1>1, <4>2
          <6>2. CASE i \in 1 .. Len(history) /\ j \in 1 .. Len(history)
            BY <4>2, <5>1, <6>2 DEF Money, HistoryOnce
          <6>3. entry.payment = p
            OBVIOUS
          <6> QED BY <4>2, <4>4, <5>1, <6>1, <6>2, <6>3
        <5> QED BY <5>1 DEF HistoryOnce
      <4> QED BY <3>5, <4>3, <4>5
    <3> QED BY <3>3, <3>6, <3>7
  <2> QED BY <2>1, <2>2
<1> QED BY <1>2, <1>3, CaptureSteps

LEMMA MoneyInvariant ==
  ASSUME OneCart
  PROVE  Spec => [](Flow /\ Money)
<1>1. Init => Flow /\ Money
  BY FlowHolds DEF Init, Money, OwnOrder, CapturedIsPaid, HistoryIsPaid, HistoryOnce,
                   ConsumedIsOwn, Absent
<1>2. Flow /\ Money /\ [Next]_vars => (Flow /\ Money)'
  BY FlowKept, OwnOrderKept, PaidKept, HistoryKept DEF Money
<1> QED BY <1>1, <1>2, PTL DEF Spec

\* A purchase counts as paid only by a captured payment of its own order, in full.
THEOREM CaptureIsPaid ==
  ASSUME OneCart
  PROVE  Spec => []CapturedIsPaid
<1>1. Money => CapturedIsPaid
  BY DEF Money
<1> QED BY <1>1, MoneyInvariant, PTL

\* A payment enters the order history at most once.
THEOREM CaptureHistoryOnce ==
  ASSUME OneCart
  PROVE  Spec => []HistoryOnce
<1>1. Money => HistoryOnce
  BY DEF Money
<1> QED BY <1>1, MoneyInvariant, PTL

\* What the history says was bought is what its payment paid for.
THEOREM CaptureHistoryIsPaid ==
  ASSUME OneCart
  PROVE  Spec => []HistoryIsPaid
<1>1. Money => HistoryIsPaid
  BY DEF Money
<1> QED BY <1>1, MoneyInvariant, PTL

\* An authorization is consumed by the capture it was signed for.
THEOREM CaptureConsumedIsOwn ==
  ASSUME OneCart
  PROVE  Spec => []ConsumedIsOwn
<1>1. Money => ConsumedIsOwn
  BY DEF Money
<1> QED BY <1>1, MoneyInvariant, PTL

-----------------------------------------------------------------------------
(* Freshness.  When every order comes with an authorization, a session that *)
(* is still there has the one of its order.                                 *)

Authorized ==
  \A k \in Keys : ledger[k].order # None /\ SessionOf[k] \in alive =>
    authorization[SessionOf[k]] = k /\ issuedAt[k] # None

LEMMA OnlyAttachOrders ==
  ASSUME Flow, [Next]_vars, NEW k \in Keys, ledger[k].order = None, ledger'[k].order # None
  PROVE  AttachOrderTo(k)
<1>1. ledger \in [Keys -> LedgerEntry] /\ confirmed \in [Sessions -> Cart]
  BY DEF Flow, TypeOK
<1>2. ASSUME NEW j \in Keys,
             \/ RejectRow(j)
             \/ ledger' = [ledger EXCEPT ![j] = ClaimOrder(ledger[j], TotalOf[j])]
             \/ \E p \in PaymentIds : ledger' =
                   [ledger EXCEPT ![j] = FinalizeIfPending(ledger[j], p, payments[p].amount)]
      PROVE  FALSE
  <2>1. PICK row : /\ ledger' = [ledger EXCEPT ![j] = row]
                   /\ \/ row = Reject(ledger[j]) \/ row = ClaimOrder(ledger[j], TotalOf[j])
                      \/ \E p \in PaymentIds :
                           row = FinalizeIfPending(ledger[j], p, payments[p].amount)
    BY <1>2 DEF RejectRow
  <2>2. ledger[j].order = None => row.order = None
    BY <1>1, <2>1 DEF Reject, ClaimOrder, Absent, FinalizeIfPending, WinsFinalize, LedgerEntry
  <2> QED BY <1>1, <2>1, <2>2
<1>3. ledger' # ledger
  OBVIOUS
<1>4. ASSUME NEW j \in Keys, AttachOrderTo(j)
      PROVE  j = k
  BY <1>1, <1>4 DEF AttachOrderTo
<1>5. ASSUME NEW s \in Sessions, ClaimRow(s)
      PROVE  FALSE
  BY <1>1, <1>2, <1>5 DEF ClaimRow, Cart
<1>6. ASSUME NEW p \in PaymentIds, WebhookRejects(p) \/ WebhookCaptures(p)
      PROVE  FALSE
  <2>1. CASE WebhookRejects(p)
    BY <1>2, <2>1 DEF WebhookRejects
  <2>2. CASE WebhookCaptures(p)
    BY <1>2, <2>2, FoundOrders DEF WebhookCaptures, FinalizeCapture
  <2> QED BY <1>6, <2>1, <2>2
<1>7. ASSUME NEW c \in Calls, NEW s \in Sessions, NEW p \in PaymentIds, Verify(c, s, p)
      PROVE  FALSE
  BY <1>1, <1>2, <1>3, <1>7 DEF Verify, Cart
<1>8. ASSUME NEW c \in Calls, VerifyRejects(c) \/ VerifyCaptures(c)
      PROVE  FALSE
  BY <1>2, <1>8 DEF VerifyRejects, VerifyCaptures, FinalizeCapture, Flow, Fetching
<1> QED BY <1>3, <1>4, <1>5, <1>6, <1>7, <1>8
        DEF Next, vars, databases, Tick, Restart, Select, RazorpayCreates, Confirm, Revise,
            Pay, RazorpayCaptures, Refund, Advance, RestartAfterClaim

LEMMA AuthorizedKept ==
  ASSUME OneCart, ~LostResponses
  PROVE  Flow /\ Authorized /\ [Next]_vars => Authorized'
<1> SUFFICES ASSUME Flow, Authorized, [Next]_vars PROVE Authorized'
  OBVIOUS
<1>1. /\ alive' \subseteq alive /\ alive \subseteq Sessions
      /\ authorization \in [Sessions -> Cart] /\ issuedAt \in [Keys -> Nat \cup {None}]
      /\ now \in Nat /\ None \notin Nat /\ \A k \in Keys : SessionOf[k] \in Sessions
  BY SessionsKept, CaptureAssumption DEF Flow, TypeOK
<1>2. ASSUME NEW k \in Keys, AttachOrderTo(k)
      PROVE  Authorized'
  <2>1. /\ issuedAt' = [issuedAt EXCEPT ![k] = now]
        /\ authorization' = [authorization EXCEPT ![SessionOf[k]] = k]
    BY <1>2 DEF AttachOrderTo
  <2>2. \A j \in Keys : j # k => ledger'[j] = ledger[j]
    BY <1>2 DEF AttachOrderTo, Flow, TypeOK
  <2> QED BY <1>1, <2>1, <2>2 DEF Authorized, OneCart
<1>3. CASE ~\E k \in Keys : AttachOrderTo(k)
  <2>1. \A k \in Keys : ledger'[k].order # None => ledger[k].order # None
    BY <1>3, OnlyAttachOrders
  <2>2. issuedAt' = issuedAt /\ (authorization' = authorization \/ alive' = {})
    BY <1>3 DEF Next, vars, databases, sessionVars, Tick, Restart, Forget, Select, RazorpayCreates,
                Confirm, Revise, ClaimRow, Pay, RazorpayCaptures, Refund, Advance, WebhookRejects,
                WebhookCaptures, RestartAfterClaim, Verify, VerifyRejects, VerifyCaptures
  <2> QED BY <1>1, <2>1, <2>2 DEF Authorized
<1> QED BY <1>2, <1>3

LEMMA FreshStep ==
  ASSUME OneCart, Flow, OwnOrder, Authorized, [Next]_vars, NEW k \in Keys, Captures(k)
  PROVE  \/ now - created[k] <= TTL
         \/ issuedAt[k] # None /\ ~Expired(k)
<1> DEFINE s == SessionOf[k]
<1>1. /\ ledger \in [Keys -> LedgerEntry] /\ \A j \in Keys : Shaped(ledger[j]) /\ j # None
      /\ s \in Sessions
  BY CaptureAssumption DEF Flow, TypeOK
<1>2. ledger[k].status # "captured" /\ ledger'[k].status = "captured"
  BY DEF Captures
<1>3. ASSUME NEW j \in Keys, NEW row, ledger' = [ledger EXCEPT ![j] = row],
             \/ row = Reject(ledger[j]) \/ row = ClaimOrder(ledger[j], TotalOf[j])
             \/ \E o \in OrderIds : row = AttachOrder(ledger[j], o)
      PROVE  FALSE
  <2>1. row.status = "captured" => ledger[j].status = "captured"
    BY <1>1, <1>3 DEF Reject, ClaimOrder, Absent, AttachOrder, LedgerEntry
  <2> QED BY <1>1, <1>2, <1>3, <2>1
<1>4. ASSUME NEW c \in Calls, VerifyCaptures(c)
      PROVE  issuedAt[k] # None /\ ~Expired(k)
  <2>1. /\ call[c].key \in Keys /\ ledger[call[c].key].order # None
        /\ SessionOf[call[c].key] \in alive
    BY <1>4 DEF VerifyCaptures, Flow, Fetching
  <2>2. k = call[c].key
    BY <1>1, <1>2, <1>4, <2>1 DEF VerifyCaptures, FinalizeCapture
  <2>3. authorization[s] = k /\ issuedAt[k] # None
    BY <2>1, <2>2 DEF Authorized
  <2> QED BY <1>1, <1>4, <2>2, <2>3 DEF VerifyCaptures, Acceptable
<1>5. ASSUME NEW p \in PaymentIds, WebhookCaptures(p)
      PROVE  \/ now - created[k] <= TTL
             \/ issuedAt[k] # None /\ ~Expired(k)
  <2>1. PICK j \in Keys, found \in Sessions \cup {None} :
          /\ Correlates(p, j, found) /\ NotExpired(j, found)
          /\ IF found # None
             THEN FinalizeCapture(found, confirmed[found], p)
             ELSE ledger' = [ledger EXCEPT ![j] =
                               FinalizeIfPending(ledger[j], p, payments[p].amount)]
    BY <1>5 DEF WebhookCaptures, GatesAllow
  <2>2. CASE found = None
    <3>1. k = j
      BY <1>1, <1>2, <2>1, <2>2
    <3>2. NotExpired(k, None)
      BY <2>1, <2>2, <3>1
    <3>3. now - created[k] <= TTL
      BY <3>2, Zenon DEF NotExpired
    <3> QED BY <3>3
  <2>3. CASE found # None
    <3>1. /\ found \in alive /\ confirmed[found] \in Keys
          /\ ledger[confirmed[found]].order # None
      BY <2>1, <2>3, FoundOrders
    <3>2. k = confirmed[found]
      BY <1>1, <1>2, <2>1, <2>3, <3>1 DEF FinalizeCapture
    <3>3. SessionOf[k] = found
      BY <1>1, <2>3, <3>2 DEF Flow, OwnCarts
    <3>4. authorization[found] = k /\ issuedAt[k] # None
      BY <3>1, <3>2, <3>3 DEF Authorized
    <3> QED BY <1>1, <2>1, <2>3, <3>4 DEF NotExpired
  <2> QED BY <2>2, <2>3
<1>6. ledger' # ledger
  BY <1>2
<1>7. ASSUME NEW j \in Keys, AttachOrderTo(j)
      PROVE  FALSE
  BY <1>3, <1>7 DEF AttachOrderTo
<1>8. ASSUME NEW t \in Sessions, ClaimRow(t)
      PROVE  FALSE
  <2>1. confirmed[t] \in Keys
    BY <1>8 DEF ClaimRow, Flow, TypeOK, Cart
  <2> QED BY <1>3, <1>8, <2>1 DEF ClaimRow
<1>9. ASSUME NEW p \in PaymentIds, WebhookRejects(p)
      PROVE  FALSE
  BY <1>3, <1>9 DEF WebhookRejects, RejectRow
<1>10. ASSUME NEW c \in Calls, NEW t \in Sessions, NEW p \in PaymentIds, Verify(c, t, p)
       PROVE  FALSE
  <2>1. confirmed[t] \in Keys
    BY <1>10 DEF Verify, Flow, TypeOK, Cart
  <2> QED BY <1>3, <1>6, <1>10, <2>1 DEF Verify, RejectRow
<1>11. ASSUME NEW c \in Calls, VerifyRejects(c)
       PROVE  FALSE
  BY <1>3, <1>11 DEF VerifyRejects, RejectRow, Flow, Fetching
<1> QED BY <1>4, <1>5, <1>6, <1>7, <1>8, <1>9, <1>10, <1>11
        DEF Next, vars, databases, Tick, Restart, Select, RazorpayCreates, Confirm, Revise,
            Pay, RazorpayCaptures, Refund, Advance, RestartAfterClaim

\* No channel captures a purchase whose claim and authorization are both past their TTL.
THEOREM CaptureIsFresh ==
  ASSUME OneCart, ~LostResponses
  PROVE  Spec => FreshCapture
<1>1. Init => Flow /\ Money /\ Authorized
  BY FlowHolds DEF Init, Money, OwnOrder, CapturedIsPaid, HistoryIsPaid, HistoryOnce,
                   ConsumedIsOwn, Authorized, Absent
<1>2. Flow /\ Money /\ Authorized /\ [Next]_vars => (Flow /\ Money /\ Authorized)'
  BY FlowKept, OwnOrderKept, PaidKept, HistoryKept, AuthorizedKept DEF Money
<1>3. Flow /\ Money /\ Authorized /\ [Next]_vars =>
        [\A k \in Keys : Captures(k) =>
           \/ now - created[k] <= TTL
           \/ issuedAt[k] # None /\ ~Expired(k)]_vars
  <2> SUFFICES ASSUME Flow, Money, Authorized, [Next]_vars, NEW k \in Keys, Captures(k)
               PROVE  \/ now - created[k] <= TTL
                      \/ issuedAt[k] # None /\ ~Expired(k)
    OBVIOUS
  <2> QED BY FreshStep DEF Money
<1> QED BY <1>1, <1>2, <1>3, PTL DEF Spec, FreshCapture
=============================================================================
