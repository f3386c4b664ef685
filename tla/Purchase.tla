------------------------------ MODULE Purchase ------------------------------
(***************************************************************************)
(* What a purchase promises its buyer, with no requests, claims or network *)
(* in sight.  A purchase is opened once; while it is open it is given at   *)
(* most one Razorpay order, which never changes; Razorpay's answer to the  *)
(* creation of that order may be in doubt, and only then; it is paid at    *)
(* most once, for an order it has, and a paid purchase is final.           *)
(*                                                                         *)
(* Modules that model the code implement this one: see Promise in          *)
(* OrderCreation.                                                          *)
(***************************************************************************)
CONSTANTS Keys, OrderIds, PaymentIds, None

VARIABLES phase, order, payment

purchaseVars == <<phase, order, payment>>

Phases == {"absent", "open", "doubt", "paid"}

Init ==
  /\ phase = [k \in Keys |-> "absent"]
  /\ order = [k \in Keys |-> None]
  /\ payment = [k \in Keys |-> None]

Move(k, from, to) ==
  /\ phase[k] = from
  /\ phase' = [phase EXCEPT ![k] = to]

Open(k) ==
  /\ Move(k, "absent", "open")
  /\ UNCHANGED <<order, payment>>

\* An order is recorded once, for a purchase that has none.
Attach(k) ==
  /\ phase[k] = "open"
  /\ order[k] = None
  /\ \E o \in OrderIds : order' = [order EXCEPT ![k] = o]
  /\ UNCHANGED <<phase, payment>>

Doubt(k) ==
  /\ Move(k, "open", "doubt")
  /\ order[k] = None
  /\ UNCHANGED <<order, payment>>

\* Razorpay's own record is what ends a doubt, with an order or without one.
Settle(k) ==
  /\ Move(k, "doubt", "open")
  /\ \E o \in OrderIds \cup {None} : order' = [order EXCEPT ![k] = o]
  /\ UNCHANGED payment

Pay(k) ==
  /\ Move(k, "open", "paid")
  /\ order[k] # None
  /\ \E p \in PaymentIds : payment' = [payment EXCEPT ![k] = p]
  /\ UNCHANGED order

Next == \E k \in Keys : Open(k) \/ Attach(k) \/ Doubt(k) \/ Settle(k) \/ Pay(k)

Spec == Init /\ [][Next]_purchaseVars
=============================================================================
