----------------------------- MODULE LedgerRows -----------------------------
(***************************************************************************)
(* One row of the idempotency ledger (src/orderguard/ledger.py) and the    *)
(* statements the module runs against it.                                  *)
(*                                                                         *)
(* Every function of ledger.py is a single INSERT or UPDATE ... WHERE on   *)
(* the row of one idempotency key, made atomic by the database.  Each is   *)
(* an operator from the row before the statement to the row after it; a    *)
(* WHERE clause that does not match leaves the row as it was.  The boolean *)
(* a function hands back (its rowcount = 1) is an operator of its own.     *)
(*                                                                         *)
(* A key with no row has the row Absent.  The timestamps created_at and    *)
(* resolved_at are left out; order_creation_claimed_at is only ever tested *)
(* for NULL, so it is the boolean "claimed".                               *)
(***************************************************************************)
CONSTANTS OrderIds,     \* ids Razorpay may give an order
          PaymentIds,   \* ids Razorpay may give a payment
          Amounts,      \* amounts in paise
          None          \* the empty string or NULL of a column

ASSUME NoneIsNoId ==
  None \notin OrderIds /\ None \notin PaymentIds /\ None \notin Amounts

\* LedgerStatus; REJECTED is declared in the code and never assigned.
Status == {"absent", "pending", "captured", "unknown"}

LedgerEntry ==
  [status   : Status,
   amount   : Amounts \cup {None},
   order    : OrderIds \cup {None},
   payment  : PaymentIds \cup {None},
   captured : Amounts \cup {None},
   claimed  : BOOLEAN,
   rejected : BOOLEAN]           \* a last_rejection_reason is on the row

Absent ==
  [status |-> "absent", amount |-> None, order |-> None, payment |-> None,
   captured |-> None, claimed |-> FALSE, rejected |-> FALSE]

\* Without the UNIQUE constraint a second claim starts the row over.
ClaimOrderAnew(row, amount) == [Absent EXCEPT !.status = "pending", !.amount = amount]

\* The INSERT; the UNIQUE constraint on the key makes a second one hand back
\* the row that is already there.
ClaimOrder(row, amount) ==
  IF row.status = "absent"
  THEN [Absent EXCEPT !.status = "pending", !.amount = amount]
  ELSE row

\* UPDATE ... SET razorpay_order_id: the WHERE names the key and nothing else.
AttachOrder(row, order) ==
  IF row.status = "absent" THEN row ELSE [row EXCEPT !.order = order]

\* Without "order_creation_claimed_at IS NULL" everybody wins.
WinsCreationAlways(row) == row.status # "absent"

WinsCreation(row) == row.status # "absent" /\ ~row.claimed

ClaimOrderCreation(row) ==
  IF WinsCreation(row) THEN [row EXCEPT !.claimed = TRUE] ELSE row

\* Without "status = 'pending'" a captured row is captured again.
WinsFinalizeAgain(row) == row.status \in {"pending", "captured"}

WinsFinalize(row) == row.status = "pending"

FinalizeIfPending(row, payment, amount) ==
  IF WinsFinalize(row)
  THEN [row EXCEPT !.status = "captured", !.payment = payment, !.captured = amount]
  ELSE row

\* The status the code declares for it, and never assigns.
RejectForGood(row) ==
  IF row.status = "pending" THEN [row EXCEPT !.status = "rejected"] ELSE row

Reject(row) ==
  IF row.status = "pending" THEN [row EXCEPT !.rejected = TRUE] ELSE row

\* A timeout taken for a failure: the next call tries again blindly.
MarkFailed(row) ==
  IF row.status = "pending" THEN [row EXCEPT !.claimed = FALSE] ELSE row

MarkUnknown(row) ==
  IF row.status = "pending" THEN [row EXCEPT !.status = "unknown"] ELSE row

\* Without "status = 'unknown'".
ResolveAnyway(row, order) ==
  IF row.status = "absent" THEN row
  ELSE IF order # None
       THEN [row EXCEPT !.status = "pending", !.order = order]
       ELSE [row EXCEPT !.status = "pending", !.claimed = FALSE]

\* Without the release of the claim.
ResolveAndKeepClaim(row, order) ==
  IF row.status # "unknown" THEN row
  ELSE [row EXCEPT !.status = "pending", !.order = order]

\* Razorpay found the order: attach it.  Razorpay has none: release the claim.
ResolveUnknown(row, order) ==
  IF row.status # "unknown"
  THEN row
  ELSE IF order # None
       THEN [row EXCEPT !.status = "pending", !.order = order]
       ELSE [row EXCEPT !.status = "pending", !.claimed = FALSE]
=============================================================================
